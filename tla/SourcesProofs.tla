--------------------------- MODULE SourcesProofs ---------------------------
(***************************************************************************)
(* Theorems about Source, for any intervals, bursts, timeouts and widths   *)
(* of the reach register and any number of requests a reply may outlive,   *)
(* and about SourceTable, for any registries, leases and lists.            *)
(***************************************************************************)
EXTENDS MCSources, FiniteSetTheorems, SequenceTheorems, TLAPS

-----------------------------------------------------------------------------
(* One polled server *)

(* What is still to wait for the next poll, as it is set.                  *)
LEMMA ScheduledRange ==
  ASSUME NEW p \in MinPoll..MaxPoll, NEW d \in Scheduled(p)
  PROVE  /\ d \in 0..(2^MaxPoll + 2^MaxPoll \div 4)
         /\ d >= 2^p /\ d >= 2^MinPoll /\ d >= BurstGap
<1> DEFINE a == 2^p
           b == 2^MaxPoll
           c == 2^MinPoll
<1>1. a \in Nat /\ b \in Nat /\ c \in Nat /\ c <= a /\ a <= b /\ BurstGap <= c
  BY PowersOfTwo, SourceConstants
<1>2. BurstGap \in Nat /\ d \in a..(a + a \div 4)
  BY SourceConstants DEF Scheduled
<1> HIDE DEF a, b, c
<1>3. d \in 0..(b + b \div 4) /\ d >= a /\ d >= c /\ d >= BurstGap
  BY <1>1, <1>2
<1> QED  BY <1>3 DEF a, b, c

LEMMA Powers ==
  /\ 2^MinPoll \in Nat /\ 2^MaxPoll \in Nat /\ 2^MinPoll <= 2^MaxPoll
  /\ BurstGap \in Nat \ {0} /\ BurstGap <= 2^MinPoll
  /\ BurstGap \in 0..(2^MaxPoll + 2^MaxPoll \div 4)
<1>1. MinPoll \in MinPoll..MaxPoll /\ MaxPoll \in MinPoll..MaxPoll
  BY SourceConstants
<1>2. /\ 2^MinPoll \in Nat /\ 2^MaxPoll \in Nat /\ 2^MinPoll <= 2^MaxPoll
      /\ BurstGap \in Nat \ {0} /\ BurstGap <= 2^MinPoll
  BY <1>1, PowersOfTwo, SourceConstants
<1> DEFINE b == 2^MaxPoll
           c == 2^MinPoll
<1>3. b \in Nat /\ c \in Nat /\ c <= b /\ BurstGap \in Nat /\ BurstGap <= c
  BY <1>2
<1> HIDE DEF b, c
<1>4. BurstGap \in 0..(b + b \div 4)
  BY <1>3
<1> QED  BY <1>2, <1>4 DEF b, c

(* The register: a lost poll moves every bit up, an answered one also sets *)
(* the lowest.                                                             *)
LEMMA ReachRange ==
  ASSUME NEW r, NEW b \in BOOLEAN
  PROVE  ReachAfter(r, b) \subseteq 0..ReachBits - 1
BY SourceConstants DEF ReachAfter

LEMMA NextNonceDiffers ==
  ASSUME SourceTypeOK
  PROVE  NextNonce \in Nonces /\ NextNonce # nonce
<1>1. Late \in Nat /\ Late >= 1 /\ nonce \in 0..Late
  BY SourceConstants DEF SourceTypeOK, Nonces
<1>2. CASE nonce = Late
  <2>1. (nonce + 1) % (Late + 1) = 0
    BY <1>1, <1>2
  <2> QED  BY <1>1, <1>2, <2>1 DEF NextNonce, Nonces
<1>3. CASE nonce # Late
  <2>1. nonce + 1 \in 0..Late
    BY <1>1, <1>3
  <2>2. (nonce + 1) % (Late + 1) = nonce + 1
    BY <1>1, <2>1
  <2> QED  BY <1>1, <2>1, <2>2 DEF NextNonce, Nonces
<1> QED  BY <1>2, <1>3
-----------------------------------------------------------------------------
(* Types *)

LEMMA TypeStep ==
  ASSUME SourceTypeOK, [SourceNext]_sourceVars
  PROVE  SourceTypeOK'
<1>1. CASE Tick
  BY <1>1, SourceConstants, Powers
       DEF Tick, SourceTypeOK, keys, exchange, pacing, history,
           Larger, Smaller
<1>2. CASE Resolved \/ FamiliesChanged
  BY <1>2
       DEF Resolved, FamiliesChanged, SourceTypeOK, keys, exchange,
           pacing, history, Larger, Smaller
<1>3. ASSUME NEW given \in 1..CookieTarget, Handshook(given)
      PROVE  SourceTypeOK'
  BY <1>3, SourceConstants, Powers
       DEF Handshook, SourceTypeOK, keys, exchange, pacing, history,
           Larger, Smaller
<1>4. ASSUME Prepare
      PROVE  /\ nonce' \in Nonces /\ cookies' \in 0..CookieTarget
             /\ Outstanding \in [nonce : Nonces, nts : BOOLEAN,
                                 age : 0..ReplyTimeout + 1]
             /\ \A r \in {"never", "asked"} :
                   [requests EXCEPT ![NextNonce] = r]
                      \in [Nonces -> {"never", "asked", "answered", "lost"}]
  BY <1>4, NextNonceDiffers, SourceConstants
     DEF SourceTypeOK, Prepare, PollDue, CanPoll, Outstanding
<1>5. SourceTypeOK => poll \in MinPoll..MaxPoll /\ MaxPoll \in MinPoll..MaxPoll
  BY SourceConstants DEF SourceTypeOK
<1>6. ASSUME \E p \in {poll, MaxPoll} : due' \in Scheduled(p)
      PROVE  due' \in 0..(2^MaxPoll + 2^MaxPoll \div 4)
  BY <1>5, <1>6, ScheduledRange
<1>7. CASE SendPoll
  BY <1>4, <1>7, Powers
       DEF SendPoll, Prepare, SourceTypeOK, keys, exchange, pacing,
           history, Larger, Smaller
<1>8. CASE NoSocket
  <2>1. due' \in 0..(2^MaxPoll + 2^MaxPoll \div 4)
    BY <1>6, <1>8 DEF NoSocket
  <2> QED  BY <1>4, <1>8, <2>1
       DEF NoSocket, Prepare, SourceTypeOK, keys, exchange, pacing,
           history, Larger, Smaller
<1>9. CASE SendFails
  <2>1. due' \in 0..(2^MaxPoll + 2^MaxPoll \div 4)
    BY <1>6, <1>9 DEF SendFails
  <2> QED  BY <1>4, <1>9, <2>1
       DEF SendFails, Prepare, SourceTypeOK, keys, exchange, pacing,
           history, Larger, Smaller
<1>10. CASE ExpirePending
  <2>1. due' \in 0..(2^MaxPoll + 2^MaxPoll \div 4)
    BY <1>6, <1>10 DEF ExpirePending
  <2>2. reach' \subseteq 0..ReachBits - 1
    BY <1>10, ReachRange DEF ExpirePending
  <2>3. measured' \in BOOLEAN /\ resolved' \in BOOLEAN /\ lost' \in 0..ReachBits
    BY <1>10, SourceConstants
       DEF ExpirePending, FilterAfterLoss, SourceTypeOK, Smaller
  <2>4. requests' \in [Nonces -> {"never", "asked", "answered", "lost"}]
    BY <1>10 DEF ExpirePending, SourceTypeOK
  <2> QED  BY <1>10, <2>1, <2>2, <2>3, <2>4
       DEF ExpirePending, AfterLoss, SourceTypeOK, keys
<1>11. CASE Decide
  <2>1. poll' \in MinPoll..MaxPoll
    BY <1>11, SourceConstants DEF Decide, Adapted, SourceTypeOK, Larger, Smaller
  <2>2. measured' \in BOOLEAN
    BY <1>11 DEF Decide, SourceTypeOK
  <2> QED  BY <1>11, <2>1, <2>2 DEF Decide, SourceTypeOK, keys, exchange, history
<1>12. CASE ReloadSource
  <2>1. due' \in 0..(2^MaxPoll + 2^MaxPoll \div 4) /\ burst' \in 0..Burst
    BY <1>12, SourceConstants, Powers DEF ReloadSource
  <2> QED  BY <1>12, <2>1 DEF ReloadSource, SourceTypeOK, keys, exchange
<1>13. ASSUME NEW n \in Nonces, NEW authentic \in BOOLEAN,
              NEW given \in 0..CookieTarget,
              \/ TakeSample(n, authentic, given)
              \/ TakeUnusable(n, authentic, given)
              \/ TakeUnsynchronised(n, authentic, given)
              \/ BackOff(n, authentic, given)
              \/ CookieRefused(n, authentic, given)
              \/ Denied(n, authentic, given)
       PROVE  SourceTypeOK'
  <2>1. /\ cookies' \in 0..CookieTarget /\ nonce' = nonce
        /\ resolved' = resolved /\ gap' = gap /\ 0 \in 0..ReachBits
        /\ Answered(n) =>
              requests' \in [Nonces -> {"never", "asked", "answered", "lost"}]
    BY <1>13, SourceConstants
       DEF TakeSample, TakeUnusable, TakeUnsynchronised, BackOff, CookieRefused,
           Denied, Opened, Answered, SourceTypeOK, Smaller
  <2>2. CASE TakeSample(n, authentic, given)
    <3>1. due' \in 0..(2^MaxPoll + 2^MaxPoll \div 4)
      <4>1. CASE BurstLeft = 0
        BY <1>6, <2>2, <4>1 DEF TakeSample, AfterReply
      <4>2. CASE BurstLeft # 0
        BY <2>2, <4>2, Powers DEF TakeSample, AfterReply
      <4> QED  BY <4>1, <4>2
    <3>2. reach' \subseteq 0..ReachBits - 1
      BY <2>2, ReachRange DEF TakeSample, RecordReply
    <3>3. poll' \in MinPoll..MaxPoll /\ burst' \in 0..Burst
      BY <2>2, SourceConstants
         DEF TakeSample, BurstLeft, Adapted, SourceTypeOK, Larger, Smaller
    <3> QED  BY <2>2, <2>1, <3>1, <3>2, <3>3
         DEF TakeSample, Answered, RecordReply, SourceTypeOK
  <2>3. CASE TakeUnusable(n, authentic, given)
    BY <2>3, SourceConstants
         DEF TakeUnusable, Opened, SourceTypeOK, keys, exchange,
             pacing, history, Larger, Smaller
  <2>4. CASE TakeUnsynchronised(n, authentic, given)
    <3>1. reach' \subseteq 0..ReachBits - 1
      BY <2>4, ReachRange DEF TakeUnsynchronised, RecordReply
    <3> QED  BY <2>4, <2>1, <3>1
         DEF TakeUnsynchronised, Answered, RecordReply, SourceTypeOK, pacing
  <2>5. CASE BackOff(n, authentic, given)
    <3>1. due' \in 0..(2^MaxPoll + 2^MaxPoll \div 4)
      BY <1>6, <2>5 DEF BackOff
    <3> QED  BY <2>5, <3>1, SourceConstants
         DEF BackOff, Opened, Answered, SourceTypeOK, keys,
             exchange, pacing, history, Larger, Smaller
  <2>6. CASE CookieRefused(n, authentic, given)
    BY <2>6, SourceConstants
         DEF CookieRefused, Opened, Answered, SourceTypeOK, keys,
             exchange, pacing, history, Larger, Smaller
  <2>7. CASE Denied(n, authentic, given)
    <3>1. due' \in 0..(2^MaxPoll + 2^MaxPoll \div 4)
      BY <1>6, <2>7 DEF Denied
    <3> QED  BY <2>7, <3>1, SourceConstants
         DEF Denied, Opened, Answered, SourceTypeOK, keys,
             exchange, pacing, history, Larger, Smaller
  <2> QED  BY <1>13, <2>2, <2>3, <2>4, <2>5, <2>6, <2>7
<1>14. CASE UNCHANGED sourceVars
  BY <1>14
       DEF sourceVars, SourceTypeOK, keys, exchange, pacing,
           history, Larger, Smaller
<1> QED
  BY <1>1, <1>2, <1>3, <1>7, <1>8, <1>9, <1>10, <1>11, <1>12, <1>13, <1>14
     DEF SourceNext
-----------------------------------------------------------------------------
(* Silence *)

(* The lowest bit that is set moves up with the polls that are lost.       *)
LEMMA ReachAfterLoss ==
  ASSUME SourceTypeOK, ReachTellsLost,
         reach' = ReachAfter(reach, FALSE), lost' = Smaller(lost + 1, ReachBits)
  PROVE  ReachTellsLost'
<1>1. ReachBits \in Nat /\ lost \in 0..ReachBits /\ reach \subseteq 0..ReachBits - 1
  BY SourceConstants DEF SourceTypeOK
<1>2. \A b : b \in reach' <=> b \in 1..ReachBits - 1 /\ b - 1 \in reach
  BY DEF ReachAfter
<1>3. CASE lost + 1 >= ReachBits
  <2>1. lost' = ReachBits
    BY <1>1, <1>3 DEF Smaller
  <2>2. ASSUME NEW b \in reach' PROVE FALSE
    <3>1. b \in 1..ReachBits - 1 /\ b - 1 \in reach
      BY <1>2, <2>2
    <3>2. lost # ReachBits /\ lost <= b - 1
      BY <3>1 DEF ReachTellsLost
    <3> QED  BY <1>1, <1>3, <3>1, <3>2
  <2>3. reach' = {}
    BY <2>2
  <2> QED  BY <2>1, <2>3 DEF ReachTellsLost
<1>4. CASE lost + 1 < ReachBits
  <2>1. lost' = lost + 1 /\ lost' # ReachBits
    BY <1>1, <1>4 DEF Smaller
  <2>2. lost \in reach /\ \A b \in reach : lost <= b
    BY <1>1, <1>4 DEF ReachTellsLost
  <2>3. lost' \in reach'
    <3>1. lost' \in 1..ReachBits - 1 /\ lost' - 1 = lost
      BY <1>1, <1>4, <2>1
    <3> QED  BY <1>2, <2>2, <3>1
  <2>4. ASSUME NEW b \in reach' PROVE lost' <= b
    <3>1. b \in 1..ReachBits - 1 /\ lost <= b - 1
      BY <1>2, <2>2, <2>4
    <3> QED  BY <1>1, <2>1, <3>1
  <2> QED  BY <2>1, <2>3, <2>4 DEF ReachTellsLost
<1> QED  BY <1>1, <1>3, <1>4

LEMMA ReachAfterReply ==
  ASSUME SourceTypeOK, RecordReply
  PROVE  ReachTellsLost' /\ reach' # {} /\ lost' < ReachBits
<1>1. 0 \in reach' /\ lost' = 0 /\ \A b \in reach' : 0 <= b
  BY DEF RecordReply, ReachAfter
<1> QED  BY <1>1, SourceConstants DEF ReachTellsLost

(* The register and what it says of the filter.                            *)
LEMMA SilenceStep ==
  ASSUME SourceIInv, [SourceNext]_sourceVars
  PROVE  SilentDoesNotVote' /\ ReachTellsLost'
<1> USE DEF SourceIInv
<1>1. CASE UNCHANGED <<reach, lost>> /\ (measured' => measured)
  BY <1>1 DEF SilentDoesNotVote, ReachTellsLost
<1>2. CASE RecordReply
  <2>1. ReachTellsLost' /\ reach' # {} /\ lost' < ReachBits
    BY <1>2, ReachAfterReply
  <2>2. lost' # ReachBits
    BY <2>1 DEF ReachTellsLost
  <2> QED  BY <2>1, <2>2 DEF SilentDoesNotVote
<1>3. CASE ExpirePending
  <2>1. ReachTellsLost'
    BY <1>3, ReachAfterLoss DEF ExpirePending
  <2>2. lost' \in 0..ReachBits
    BY <1>3, SourceConstants DEF ExpirePending, SourceTypeOK, Smaller
  <2>3. lost' = ReachBits <=> reach' = {}
    BY <2>1 DEF ReachTellsLost
  <2>4. measured' => reach' # {}
    BY <1>3 DEF ExpirePending, FilterAfterLoss
  <2>5. measured' => lost' < ReachBits
    BY <2>2, <2>3, <2>4, SourceConstants
  <2> QED  BY <2>1, <2>3, <2>5 DEF SilentDoesNotVote
<1>4. CASE Tick \/ Resolved \/ FamiliesChanged \/ ReloadSource \/ Decide
  BY <1>1, <1>4
     DEF Tick, Resolved, FamiliesChanged, ReloadSource, Decide, history
<1>5. ASSUME NEW given \in 1..CookieTarget, Handshook(given)
      PROVE  SilentDoesNotVote' /\ ReachTellsLost'
  BY <1>1, <1>5 DEF Handshook
<1>6. CASE SendPoll \/ NoSocket \/ SendFails
  BY <1>1, <1>6 DEF SendPoll, NoSocket, SendFails, Prepare
<1>7. ASSUME NEW n \in Nonces, NEW authentic \in BOOLEAN,
             NEW given \in 0..CookieTarget,
             \/ TakeSample(n, authentic, given)
             \/ TakeUnusable(n, authentic, given)
             \/ TakeUnsynchronised(n, authentic, given)
             \/ BackOff(n, authentic, given)
             \/ CookieRefused(n, authentic, given)
             \/ Denied(n, authentic, given)
      PROVE  SilentDoesNotVote' /\ ReachTellsLost'
  <2>1. CASE TakeSample(n, authentic, given)
    BY <1>2, <2>1 DEF TakeSample
  <2>2. CASE TakeUnsynchronised(n, authentic, given)
    BY <1>2, <2>2 DEF TakeUnsynchronised
  <2>3. CASE \/ TakeUnusable(n, authentic, given) \/ BackOff(n, authentic, given)
             \/ CookieRefused(n, authentic, given) \/ Denied(n, authentic, given)
    BY <1>1, <2>3 DEF TakeUnusable, BackOff, CookieRefused, Denied
  <2> QED  BY <1>7, <2>1, <2>2, <2>3
<1>8. CASE UNCHANGED sourceVars
  BY <1>1, <1>8 DEF sourceVars, history
<1> QED
  BY <1>3, <1>4, <1>5, <1>6, <1>7, <1>8 DEF SourceNext
-----------------------------------------------------------------------------
(* The outstanding request *)

(* Whatever a reply is, it is to the request that is out.                  *)
LEMMA Replied ==
  ASSUME SourceIInv, NEW n \in Nonces, NEW authentic \in BOOLEAN,
         NEW given \in 0..CookieTarget,
         \/ TakeSample(n, authentic, given)
         \/ TakeUnusable(n, authentic, given)
         \/ TakeUnsynchronised(n, authentic, given)
         \/ BackOff(n, authentic, given)
         \/ CookieRefused(n, authentic, given)
         \/ Denied(n, authentic, given)
  PROVE  /\ pending # NoRequest /\ n = nonce /\ nonce' = nonce
         /\ requests[n] = "asked"
         /\ UNCHANGED <<pending, requests>> \/ Answered(n)
<1>1. \E kind \in Kinds : Opened(n, kind, authentic, given)
  BY DEF TakeSample, TakeUnusable, TakeUnsynchronised, BackOff, CookieRefused,
         Denied, Opened
<1>2. pending # NoRequest /\ n = nonce /\ nonce' = nonce /\ requests[n] = "asked"
  BY <1>1 DEF SourceIInv, PendingIsOut, Opened, Echoes
<1>3. UNCHANGED <<pending, requests>> \/ Answered(n)
  BY DEF TakeSample, TakeUnusable, TakeUnsynchronised, BackOff, CookieRefused,
         Denied
<1> QED  BY <1>2, <1>3

(* A poll goes out under a nonce of its own, and only then is one changed  *)
(* that has come to an end.                                                *)
LEMMA RequestStep ==
  ASSUME SourceIInv, [SourceNext]_sourceVars
  PROVE  /\ PendingIsOut'
         /\ \A n \in Nonces :
               requests[n] \in {"answered", "lost"} /\ requests'[n] # requests[n]
               => n = nonce' /\ nonce' # nonce
<1> DEFINE Ended ==
             \A n \in Nonces :
                requests[n] \in {"answered", "lost"} /\ requests'[n] # requests[n]
                => n = nonce' /\ nonce' # nonce
<1>1. CASE UNCHANGED exchange
  BY <1>1 DEF exchange, SourceIInv, PendingIsOut
<1>2. CASE Tick
  BY <1>2 DEF Tick, SourceIInv, SourceTypeOK, PendingIsOut
<1>3. CASE SendPoll \/ NoSocket \/ SendFails
  <2>1. /\ nonce' = NextNonce /\ NextNonce \in Nonces /\ NextNonce # nonce
    BY <1>3, NextNonceDiffers DEF SendPoll, NoSocket, SendFails, Prepare, SourceIInv
  <2>2. \E r \in {"never", "asked"} : requests' = [requests EXCEPT ![NextNonce] = r]
    BY <1>3 DEF SendPoll, NoSocket, SendFails
  <2>3. pending' # NoRequest => pending'.nonce = NextNonce
    BY <1>3 DEF SendPoll, NoSocket, SendFails, Outstanding
  <2>4. requests'[nonce'] \in {"never", "asked"}
    BY <2>1, <2>2 DEF SourceIInv, SourceTypeOK
  <2>5. PendingIsOut'
    BY <2>1, <2>3, <2>4 DEF PendingIsOut
  <2>6. Ended
    BY <2>1, <2>2 DEF SourceIInv, SourceTypeOK
  <2> QED  BY <2>5, <2>6
<1>4. ASSUME pending # NoRequest, pending' = NoRequest, nonce' = nonce,
             NEW r, requests' = [requests EXCEPT ![nonce] = r]
      PROVE  PendingIsOut' /\ Ended
  BY <1>4 DEF SourceIInv, SourceTypeOK, PendingIsOut
<1>5. CASE ExpirePending
  <2>1. pending # NoRequest /\ pending.nonce = nonce
    BY <1>5 DEF ExpirePending, TimedOut, SourceIInv, PendingIsOut
  <2> QED  BY <1>4, <1>5, <2>1 DEF ExpirePending, AfterLoss
<1>6. ASSUME NEW n \in Nonces, NEW authentic \in BOOLEAN,
             NEW given \in 0..CookieTarget,
             \/ TakeSample(n, authentic, given)
             \/ TakeUnusable(n, authentic, given)
             \/ TakeUnsynchronised(n, authentic, given)
             \/ BackOff(n, authentic, given)
             \/ CookieRefused(n, authentic, given)
             \/ Denied(n, authentic, given)
      PROVE  PendingIsOut' /\ Ended
  BY <1>1, <1>4, <1>6, Replied DEF Answered, exchange
<1>7. CASE Resolved \/ FamiliesChanged \/ Decide \/ ReloadSource
  BY <1>1, <1>7 DEF Resolved, FamiliesChanged, Decide, ReloadSource
<1>8. ASSUME NEW given \in 1..CookieTarget, Handshook(given)
      PROVE  PendingIsOut' /\ Ended
  BY <1>1, <1>8 DEF Handshook
<1>9. CASE UNCHANGED sourceVars
  BY <1>1, <1>9 DEF sourceVars
<1> QED
  BY <1>2, <1>3, <1>5, <1>6, <1>7, <1>8, <1>9 DEF SourceNext
-----------------------------------------------------------------------------
(* The pace *)

(* What is owed is no more than the longest interval, and a wait that has  *)
(* just been scheduled, by the interval in force, makes up for it.         *)
LEMMA OwedIsBounded ==
  ASSUME SourceTypeOK
  PROVE  OwedGap \in Nat /\ OwedGap <= 2^MaxPoll
BY Powers DEF OwedGap, SourceTypeOK

LEMMA WaitIsEnough ==
  ASSUME NEW x \in Nat, NEW y \in Nat, NEW z \in Nat, y >= z
  PROVE  x + y >= z
OBVIOUS

LEMMA ScheduledIsEnough ==
  ASSUME SourceTypeOK', NEW p \in MinPoll..MaxPoll, due' \in Scheduled(p),
         rateLimited' => p = MaxPoll
  PROVE  gap' + due' >= OwedGap'
<1> DEFINE b == 2^MaxPoll
           c == 2^MinPoll
           a == 2^p
<1>1. /\ due' \in Nat /\ due' >= a /\ due' >= c /\ due' >= BurstGap
      /\ gap' \in Nat /\ a \in Nat /\ b \in Nat /\ c \in Nat
  <2>1. due' \in 0..(2^MaxPoll + 2^MaxPoll \div 4)
        /\ due' >= 2^p /\ due' >= 2^MinPoll /\ due' >= BurstGap
    BY ScheduledRange
  <2>2. due' \in Nat /\ gap' \in Nat
    BY DEF SourceTypeOK
  <2> QED  BY <2>1, <2>2, PowersOfTwo, Powers
<1>2. rateLimited' => a = b
  OBVIOUS
<1>3. OwedGap' = IF burst' > 0 THEN BurstGap ELSE IF rateLimited' THEN b ELSE c
  BY DEF OwedGap
<1> HIDE DEF a, b, c
<1>4. due' >= OwedGap' /\ OwedGap' \in Nat
  BY <1>1, <1>2, <1>3, Powers
<1> QED  BY <1>1, <1>4, WaitIsEnough

(* While a request is out nothing need be said; when it ends, the next is  *)
(* scheduled, unless it is asked for at once or keys are awaited.          *)
LEMMA PaceStep ==
  ASSUME SourceIInv, [SourceNext]_sourceVars, SourceTypeOK'
  PROVE  OwedIsAwaited' /\ (Sent /\ spur = "none" => gap >= OwedGap)
<1> DEFINE Pace == Sent /\ spur = "none" => gap >= OwedGap
           Limited == rateLimited' => poll' = MaxPoll
           Awaited == pending' = NoRequest /\ spur' = "none" /\ security' # "pending"
                      => gap' + due' >= OwedGap'
<1>1. /\ rateLimited => poll = MaxPoll
      /\ pending = NoRequest /\ spur = "none" /\ security # "pending"
            => gap + due >= OwedGap
      /\ poll \in MinPoll..MaxPoll /\ MaxPoll \in MinPoll..MaxPoll
      /\ due \in Nat /\ gap \in Nat /\ due' \in Nat /\ gap' \in Nat
      /\ SourceTypeOK
  BY SourceConstants, Powers DEF SourceIInv, OwedIsAwaited, SourceTypeOK
<1>2. ASSUME Limited, Awaited, nonce' = nonce
      PROVE  OwedIsAwaited' /\ Pace
  BY <1>2 DEF OwedIsAwaited, Sent
<1>3. CASE UNCHANGED <<pending, spur, security, gap, due, burst, rateLimited, poll,
                       nonce>>
  <2>1. OwedGap' = OwedGap
    BY <1>3 DEF OwedGap
  <2> QED  BY <1>1, <1>2, <1>3, <2>1
<1>4. CASE Tick
  <2>1. Limited /\ nonce' = nonce /\ OwedGap' = OwedGap
    BY <1>1, <1>4 DEF Tick, keys, OwedGap
  <2>2. pending' = NoRequest => pending = NoRequest
    BY <1>4 DEF Tick, NoRequest, SourceIInv, SourceTypeOK
  <2>3. gap' + due' >= gap + due \/ gap' = 2^MaxPoll
    BY <1>1, <1>4, Powers DEF Tick, Larger, Smaller
  <2>4. Awaited
    BY <1>1, <1>4, <2>1, <2>2, <2>3, OwedIsBounded, Powers DEF Tick, keys
  <2> QED  BY <1>2, <2>1, <2>4
<1>5. CASE Resolved \/ FamiliesChanged
  BY <1>3, <1>5 DEF Resolved, FamiliesChanged, keys, exchange, pacing, history
<1>6. ASSUME NEW given \in 1..CookieTarget, Handshook(given)
      PROVE  OwedIsAwaited' /\ Pace
  BY <1>1, <1>2, <1>6 DEF Handshook, exchange
<1>7. CASE ReloadSource
  BY <1>1, <1>2, <1>7 DEF ReloadSource, exchange
<1>8. CASE Decide
  <2>1. Limited /\ nonce' = nonce /\ OwedGap' = OwedGap
    BY <1>1, <1>8 DEF Decide, Adapted, exchange, OwedGap
  <2>2. Awaited
    BY <1>1, <1>8, <2>1 DEF Decide, keys, exchange, history
  <2> QED  BY <1>2, <2>1, <2>2
<1>9. CASE SendPoll
  <2>1. OwedIsAwaited'
    BY <1>1, <1>9 DEF SendPoll, Prepare, Outstanding, NoRequest, OwedIsAwaited
  <2>2. /\ pending = NoRequest /\ security # "pending" /\ due = 0
    BY <1>9 DEF SendPoll, Prepare, PollDue, CanPoll
  <2> QED  BY <1>1, <2>1, <2>2
<1>10. CASE NoSocket \/ SendFails
  <2>1. nonce' # nonce /\ requests'[nonce'] = "never"
    BY <1>10, NextNonceDiffers
       DEF NoSocket, SendFails, Prepare, SourceIInv, SourceTypeOK
  <2>2. UNCHANGED <<poll, rateLimited>> /\ due' \in Scheduled(poll)
    BY <1>10 DEF NoSocket, SendFails, Prepare
  <2>3. gap' + due' >= OwedGap'
    BY <1>1, <2>2, ScheduledIsEnough
  <2>4. OwedIsAwaited' /\ Pace
    BY <1>1, <2>1, <2>2, <2>3 DEF OwedIsAwaited, Sent
  <2> QED  BY <2>4
<1>11. CASE ExpirePending
  <2>1. gap' + due' >= OwedGap'
    BY <1>1, <1>11, ScheduledIsEnough DEF ExpirePending
  <2> QED  BY <1>1, <1>2, <1>11, <2>1 DEF ExpirePending
<1>12. ASSUME NEW n \in Nonces, NEW authentic \in BOOLEAN,
              NEW given \in 0..CookieTarget,
              \/ TakeSample(n, authentic, given)
              \/ TakeUnusable(n, authentic, given)
              \/ TakeUnsynchronised(n, authentic, given)
              \/ BackOff(n, authentic, given)
              \/ CookieRefused(n, authentic, given)
              \/ Denied(n, authentic, given)
       PROVE  OwedIsAwaited' /\ Pace
  <2>1. nonce' = nonce
    BY <1>12, Replied
  <2>2. CASE TakeSample(n, authentic, given)
    <3>1. Limited
      BY <1>1, <2>2 DEF TakeSample, Adapted
    <3>2. CASE BurstLeft = 0
      <4>1. gap' + due' >= OwedGap'
        BY <1>1, <2>2, <3>2, ScheduledIsEnough DEF TakeSample, AfterReply
      <4> QED  BY <1>2, <2>1, <3>1, <4>1
    <3>3. CASE BurstLeft # 0
      <4>1. burst' > 0 /\ due' = BurstGap
        BY <2>2, <3>3, SourceConstants
           DEF TakeSample, AfterReply, BurstLeft, Larger, SourceIInv, SourceTypeOK
      <4>2. OwedGap' = BurstGap
        BY <4>1 DEF OwedGap
      <4>3. BurstGap \in Nat
        BY SourceConstants
      <4>4. due' >= OwedGap' /\ OwedGap' \in Nat
        BY <4>1, <4>2, <4>3
      <4>5. gap' + due' >= OwedGap'
        BY <1>1, <4>4, WaitIsEnough
      <4> QED  BY <1>2, <2>1, <3>1, <4>5
    <3> QED  BY <3>2, <3>3
  <2>3. CASE TakeUnusable(n, authentic, given)
    BY <1>1, <1>2, <2>1, <2>3, Replied
       DEF TakeUnusable, pacing, OwedIsAwaited, SourceIInv
  <2>4. CASE TakeUnsynchronised(n, authentic, given)
    BY <1>1, <1>2, <2>1, <2>4 DEF TakeUnsynchronised, pacing
  <2>5. CASE BackOff(n, authentic, given) \/ Denied(n, authentic, given)
    <3>1. /\ poll' = MaxPoll
          /\ due' \in Scheduled(MaxPoll)
      BY <2>5 DEF BackOff, Denied
    <3>2. gap' + due' >= OwedGap'
      BY <1>1, <3>1, ScheduledIsEnough
    <3> QED  BY <1>2, <2>1, <3>1, <3>2
  <2>6. CASE CookieRefused(n, authentic, given)
    BY <1>1, <1>2, <2>1, <2>6 DEF CookieRefused, pacing
  <2> QED  BY <1>12, <2>2, <2>3, <2>4, <2>5, <2>6
<1>13. CASE UNCHANGED sourceVars
  BY <1>3, <1>13 DEF sourceVars, keys, exchange, pacing, history
<1> QED
  BY <1>4, <1>5, <1>6, <1>7, <1>8, <1>9, <1>10, <1>11, <1>12, <1>13
     DEF SourceNext
-----------------------------------------------------------------------------
(* The theorems of one server *)

LEMMA InitInvariant == SourceInit => SourceIInv
<1> SUFFICES ASSUME SourceInit PROVE SourceIInv
  OBVIOUS
<1>1. SourceTypeOK
  <2>1. /\ 0 \in Nonces /\ 0 \in 0..(2^MaxPoll + 2^MaxPoll \div 4)
        /\ MinPoll \in MinPoll..MaxPoll /\ 2^MaxPoll \in 0..2^MaxPoll
        /\ 0 \in 0..CookieTarget /\ Burst \in 0..Burst
        /\ ReachBits \in 0..ReachBits
    BY SourceConstants, Powers DEF Nonces
  <2> QED  BY <2>1 DEF SourceInit, SourceTypeOK
<1>2. SilentDoesNotVote /\ ReachTellsLost /\ PendingIsOut
  BY DEF SourceInit, SilentDoesNotVote, ReachTellsLost, PendingIsOut
<1>3. gap + due >= OwedGap
  BY <1>1, OwedIsBounded, Powers DEF SourceInit
<1>4. OwedIsAwaited
  BY <1>3 DEF SourceInit, OwedIsAwaited
<1> QED  BY <1>1, <1>2, <1>4 DEF SourceIInv

LEMMA StepInvariant == SourceIInv /\ [SourceNext]_sourceVars => SourceIInv'
<1> SUFFICES ASSUME SourceIInv, [SourceNext]_sourceVars PROVE SourceIInv'
  OBVIOUS
<1>1. SourceTypeOK'
  BY TypeStep DEF SourceIInv
<1> QED  BY <1>1, SilenceStep, RequestStep, PaceStep DEF SourceIInv

(* The inductive invariant: the lowest bit of the register tells how many  *)
(* polls were lost (record_reply, record_loss), the outstanding request is *)
(* the last one built, and the wait that is left makes up for what is      *)
(* owed (schedule, schedule_burst, back_off).                              *)
THEOREM SourceInvariance == SourceSpec => []SourceIInv
BY InitInvariant, StepInvariant, PTL DEF SourceSpec

(* The counters, the intervals and the keys of a source stay in their      *)
(* ranges (Source::new and every handler).                                 *)
THEOREM SourceTypeCorrect == SourceSpec => []SourceTypeOK
<1>1. SourceIInv => SourceTypeOK
  BY DEF SourceIInv
<1> QED  BY <1>1, SourceInvariance, PTL

(* A source is unreachable exactly when as many polls in a row were lost   *)
(* as the register is wide, and then its filter is empty (record_loss).    *)
THEOREM SilenceEndsTheVote == SourceSpec => []SilentDoesNotVote
<1>1. SourceIInv => SilentDoesNotVote
  BY DEF SourceIInv
<1> QED  BY <1>1, SourceInvariance, PTL

(* However many duplicates and late replies come, a poll comes to an end   *)
(* once (accept, expire_pending).                                          *)
THEOREM EachPollEndsOnce == SourceSpec => EndsOnce
<1>1. SourceIInv /\ [SourceNext]_sourceVars =>
         [\A n \in Nonces :
             requests[n] \in {"answered", "lost"} /\ requests'[n] # requests[n]
             => n = nonce' /\ nonce' # nonce]_sourceVars
  BY RequestStep
<1> QED  BY <1>1, SourceInvariance, PTL DEF SourceSpec, EndsOnce

(* No server is asked sooner than its pace allows: for any intervals and   *)
(* any length of a burst (schedule, schedule_burst, poll_due).             *)
THEOREM ThePaceIsKept == SourceSpec => Paced
<1>1. SourceIInv /\ SourceIInv' /\ [SourceNext]_sourceVars =>
         [Sent /\ spur = "none" => gap >= OwedGap]_sourceVars
  BY PaceStep DEF SourceIInv
<1> QED  BY <1>1, SourceInvariance, PTL DEF SourceSpec, Paced

-----------------------------------------------------------------------------
(* The table and the worker *)

(* Of some of the first n numbers one is the largest.                      *)
LEMMA Largest ==
  ASSUME NEW n \in Nat, NEW T, T \subseteq 1..n, T # {}
  PROVE  \E i \in T : \A j \in T : j <= i
<1> DEFINE R == {ss \in Nat \X Nat : ss[1] < ss[2]}
           distances == {n - i : i \in T}
<1>1. IsWellFoundedOn(R, Nat)
  BY NatLessThanWellFounded DEF OpToRel
<1>2. distances \subseteq Nat /\ distances # {}
  <2>1. \A i \in T : n - i \in Nat
    OBVIOUS
  <2>2. PICK i \in T : TRUE
    OBVIOUS
  <2>3. n - i \in distances
    OBVIOUS
  <2> QED  BY <2>1, <2>3
<1> HIDE DEF R
<1>3. PICK x \in distances : \A y \in distances : ~(<<y, x>> \in R)
  <2> HIDE DEF distances
  <2> QED  BY <1>1, <1>2, WFMin
<1>4. PICK i \in T : x = n - i
  OBVIOUS
<1>5. ASSUME NEW j \in T PROVE j <= i
  <2>1. n - j \in distances /\ n - j \in Nat /\ x \in Nat
    BY <1>2
  <2>2. ~(n - j < x)  BY <1>3, <2>1 DEF R
  <2> QED  BY <1>4, <2>2
<1> QED  BY <1>5

(* What a table is, wherever it comes from.                                *)
SoundTable(t) ==
    /\ t \in Seq(Entry) /\ Len(t) <= MaxEntries
    /\ \A i \in DOMAIN t : t[i].security = "nts" <=> t[i].session # NoHost
HostsOf(t) == [i \in DOMAIN t |-> t[i].host]
HostsFor(c, offer) ==
    IF c.automatic
    THEN [k \in DOMAIN Admitted(c, offer) |-> Admitted(c, offer)[k].host]
    ELSE << >>

(* What rebuild_sources does to one entry: it is new, because its host was *)
(* not in the table or is listed above it, or the last one of its host.    *)
IsNew(t, k) ==
    /\ ~t[k].inFlight /\ t[k].session = NoHost /\ t[k].at = NoHost
    /\ \/ \A i \in DOMAIN entries : entries[i].host # t[k].host
       \/ \E m \in DOMAIN t : m < k /\ t[m].host = t[k].host
IsOld(t, k) ==
    /\ \A m \in DOMAIN t : m < k => t[m].host # t[k].host
    /\ \E j \in DOMAIN entries :
          /\ entries[j].host = t[k].host
          /\ \A m \in DOMAIN entries : entries[m].host = t[k].host => m <= j
          /\ t[k].session = entries[j].session
          /\ t[k].inFlight = entries[j].inFlight
          /\ t[k].at \in {entries[j].at, NoHost}
CarriedOver(t) == \A k \in DOMAIN t : IsNew(t, k) \/ IsOld(t, k)

(* Of what the registry says and the leases offer.                         *)
LEMMA AdmittedRange ==
  ASSUME NEW c \in Configs, NEW offer \in Offers
  PROVE  /\ DOMAIN Admitted(c, offer) = 1..Len(Admitted(c, offer))
         /\ Len(Admitted(c, offer)) \in Nat
         /\ Len(Admitted(c, offer)) <= MaxEntries
         /\ \A k \in DOMAIN Admitted(c, offer) :
               /\ Admitted(c, offer)[k].host \in Hosts
               /\ Admitted(c, offer)[k].plain \in BOOLEAN
<1> DEFINE Specs == [host : Hosts, plain : BOOLEAN]
           a == Admitted(c, offer)
<1>1. a \in Seq(Specs) /\ Len(a) <= MaxEntries
  BY ListsAreBounded
<1> HIDE DEF a
<1>2. Len(a) \in Nat /\ DOMAIN a = 1..Len(a) /\ a \in [1..Len(a) -> Specs]
  BY <1>1, LenProperties
<1>3. \A k \in DOMAIN a : a[k].host \in Hosts /\ a[k].plain \in BOOLEAN
  BY <1>2
<1> QED  BY <1>1, <1>2, <1>3 DEF a

LEMMA NewIsSound ==
  ASSUME NEW s, s.host \in Hosts, s.plain \in BOOLEAN
  PROVE  /\ NewEntry(s) \in Entry
         /\ NewEntry(s).security = "nts" <=> NewEntry(s).session # NoHost
         /\ NewEntry(s).host = s.host /\ NewEntry(s).at = NoHost
         /\ NewEntry(s).session = NoHost /\ ~NewEntry(s).inFlight
BY DEF NewEntry, Entry

LEMMA LastIsOne ==
  ASSUME SoundTable(entries), NEW h, Former(h) # {}
  PROVE  /\ LastFormer(h) \in DOMAIN entries
         /\ entries[LastFormer(h)].host = h
         /\ \A m \in DOMAIN entries : entries[m].host = h => m <= LastFormer(h)
<1> DEFINE T == Former(h)
<1>1. T \subseteq 1..Len(entries) /\ Len(entries) \in Nat
  BY LenProperties DEF SoundTable, Former
<1>2. \E i \in T : \A j \in T : j <= i
  <2> HIDE DEF T
  <2> QED  BY <1>1, Largest DEF T
<1>3. LastFormer(h) \in T /\ \A j \in T : j <= LastFormer(h)
  BY <1>2 DEF LastFormer
<1> QED  BY <1>3 DEF Former

(* rebuild_sources.                                                        *)
LEMMA RebuiltIsSound ==
  ASSUME SoundTable(entries), NEW c \in Configs, NEW offer \in Offers
  PROVE  /\ SoundTable(Rebuilt(c, offer))
         /\ HostsOf(Rebuilt(c, offer)) = HostsFor(c, offer)
         /\ CarriedOver(Rebuilt(c, offer))
<1> DEFINE specs == Admitted(c, offer)
           t == Rebuilt(c, offer)
<1>1. CASE ~c.automatic
  <2>1. t = << >>
    BY <1>1 DEF Rebuilt
  <2>2. t \in Seq(Entry) /\ Len(t) = 0 /\ DOMAIN t = {}
    BY <2>1, EmptySeq
  <2>3. HostsOf(t) = << >>
    BY <2>1 DEF HostsOf
  <2> QED
    BY <1>1, <2>2, <2>3, TableConstants DEF SoundTable, HostsFor, CarriedOver
<1>2. CASE c.automatic
  <2>1. t = [k \in DOMAIN specs |-> Kept(specs, k)]
    BY <1>2 DEF Rebuilt
  <2>2. ASSUME NEW k \in DOMAIN specs
        PROVE  /\ t[k] \in Entry
               /\ t[k].security = "nts" <=> t[k].session # NoHost
               /\ t[k].host = specs[k].host
               /\ \/ /\ ~t[k].inFlight /\ t[k].session = NoHost
                     /\ t[k].at = NoHost
                     /\ Former(specs[k].host) = {} \/ Repeated(specs, k)
                  \/ /\ ~Repeated(specs, k)
                     /\ \E j \in DOMAIN entries :
                          /\ entries[j].host = t[k].host
                          /\ \A m \in DOMAIN entries :
                                entries[m].host = t[k].host => m <= j
                          /\ t[k].session = entries[j].session
                          /\ t[k].inFlight = entries[j].inFlight
                          /\ t[k].at = entries[j].at
    <3> DEFINE j == LastFormer(specs[k].host)
    <3>1. t[k] = Kept(specs, k) /\ specs[k].host \in Hosts
          /\ specs[k].plain \in BOOLEAN
      BY <2>1, AdmittedRange
    <3>2. CASE Former(specs[k].host) = {} \/ Repeated(specs, k)
      <4>1. t[k] = NewEntry(specs[k])
        BY <3>1, <3>2 DEF Kept
      <4> QED  BY <3>1, <3>2, <4>1, NewIsSound
    <3>3. CASE ~(Former(specs[k].host) = {} \/ Repeated(specs, k))
      <4>1. t[k] = [entries[j] EXCEPT !.plain = specs[k].plain]
        BY <3>1, <3>3 DEF Kept
      <4>2. /\ j \in DOMAIN entries /\ entries[j].host = specs[k].host
            /\ \A m \in DOMAIN entries :
                  entries[m].host = specs[k].host => m <= j
        BY <3>3, LastIsOne
      <4>3. entries[j] \in Entry
            /\ (entries[j].security = "nts" <=> entries[j].session # NoHost)
        BY <4>2, LenProperties, ElementOfSeq DEF SoundTable
      <4> HIDE DEF j
      <4>4. /\ t[k] \in Entry
            /\ t[k].security = entries[j].security
            /\ t[k].session = entries[j].session
            /\ t[k].host = entries[j].host
            /\ t[k].inFlight = entries[j].inFlight
            /\ t[k].at = entries[j].at
        BY <3>1, <4>1, <4>3 DEF Entry
      <4> QED  BY <3>3, <4>2, <4>3, <4>4
    <3> QED  BY <3>2, <3>3
  <2>3. DOMAIN t = DOMAIN specs /\ DOMAIN t = 1..Len(specs)
        /\ Len(specs) \in Nat /\ Len(specs) <= MaxEntries
    BY <2>1, AdmittedRange
  <2> HIDE DEF t
  <2>4. SoundTable(t)
    <3>1. t \in [1..Len(specs) -> Entry]
      BY <2>1, <2>2, <2>3
    <3>2. t \in Seq(Entry) /\ Len(t) = Len(specs)
      BY <2>3, <3>1
    <3> QED  BY <2>2, <2>3, <3>2 DEF SoundTable
  <2>5. HostsOf(t) = HostsFor(c, offer)
    BY <1>2, <2>2, <2>3 DEF HostsOf, HostsFor
  <2>6. ASSUME NEW k \in DOMAIN t PROVE IsNew(t, k) \/ IsOld(t, k)
    <3>1. Repeated(specs, k) <=> \E m \in DOMAIN t : m < k /\ t[m].host = t[k].host
      BY <2>2, <2>3 DEF Repeated
    <3> QED  BY <2>2, <2>3, <3>1 DEF IsNew, IsOld, Former
  <2> QED  BY <2>4, <2>5, <2>6 DEF CarriedOver, t
<1> QED  BY <1>1, <1>2, TableConstants

(* The two queues and the worker between them are one queue: what is sent  *)
(* comes to its end, the worker changes nothing of it, and what is taken   *)
(* in leaves its head (submit, run and collect of worker.rs).              *)
Results == [job : Job, ok : BOOLEAN]

LEMMA QueueIs ==
  ASSUME NEW back \in Seq(Results), NEW sent \in Seq(Job)
  PROVE  /\ Queue(back, sent) \in Seq(Job)
         /\ Len(back) \in Nat /\ Len(sent) \in Nat
         /\ DOMAIN Queue(back, sent) = 1..(Len(back) + Len(sent))
         /\ \A p \in 1..Len(back) : Queue(back, sent)[p] = back[p].job
         /\ \A p \in Len(back) + 1..Len(back) + Len(sent) :
               Queue(back, sent)[p] = sent[p - Len(back)]
         /\ \A p \in DOMAIN Queue(back, sent) : Queue(back, sent)[p] \in Job
<1> DEFINE bare == [k \in DOMAIN back |-> back[k].job]
           q == Queue(back, sent)
<1>1. Len(back) \in Nat /\ DOMAIN back = 1..Len(back)
      /\ back \in [1..Len(back) -> Results]
  <2> HIDE DEF Results
  <2> QED  BY LenProperties
<1>2. Len(sent) \in Nat
  BY LenProperties
<1>3. bare \in Seq(Job) /\ Len(bare) = Len(back)
      /\ \A p \in 1..Len(back) : bare[p] = back[p].job
  <2>1. \A k \in 1..Len(back) : back[k].job \in Job
    BY <1>1 DEF Results
  <2>2. bare \in [1..Len(back) -> Job]
    BY <1>1, <2>1
  <2> QED  BY <1>1, <2>2
<1>4. q = bare \o sent
  BY DEF Queue
<1> HIDE DEF bare, q
<1>5. /\ q \in Seq(Job) /\ Len(q) = Len(back) + Len(sent)
      /\ \A i \in 1..Len(back) + Len(sent) :
            q[i] = IF i <= Len(back) THEN bare[i] ELSE sent[i - Len(back)]
  <2> DEFINE whole == bare \o sent
  <2>1. /\ whole \in Seq(Job) /\ Len(whole) = Len(bare) + Len(sent)
        /\ \A i \in 1..Len(bare) + Len(sent) :
              whole[i] = IF i <= Len(bare) THEN bare[i] ELSE sent[i - Len(bare)]
    BY <1>3, ConcatProperties, Zenon
  <2> HIDE DEF whole
  <2> QED  BY <1>3, <1>4, <2>1 DEF whole
<1>6. DOMAIN q = 1..(Len(back) + Len(sent))
  BY <1>5, LenProperties
<1>7. \A p \in DOMAIN q : q[p] \in Job
  BY <1>5, <1>6, ElementOfSeq
<1>8. \A p \in 1..Len(back) : q[p] = back[p].job
  BY <1>1, <1>2, <1>3, <1>5
<1>9. \A p \in Len(back) + 1..Len(back) + Len(sent) : q[p] = sent[p - Len(back)]
  BY <1>1, <1>2, <1>5
<1> QED  BY <1>1, <1>2, <1>5, <1>6, <1>7, <1>8, <1>9 DEF q

LEMMA SentIsLast ==
  ASSUME NEW back \in Seq(Results), NEW sent \in Seq(Job), NEW j \in Job
  PROVE  LET q == Queue(back, sent)
             n == Len(back) + Len(sent)
             next == Queue(back, Append(sent, j))
         IN  /\ n \in Nat /\ DOMAIN q = 1..n /\ DOMAIN next = 1..n + 1
             /\ \A p \in 1..n : next[p] = q[p]
             /\ next[n + 1] = j
<1> DEFINE more == Append(sent, j)
<1>1. /\ more \in Seq(Job) /\ Len(more) = Len(sent) + 1
      /\ \A p \in 1..Len(sent) : more[p] = sent[p]
      /\ more[Len(sent) + 1] = j
  BY AppendProperties
<1> HIDE DEF more
<1> DEFINE q == Queue(back, sent)
           next == Queue(back, more)
           n == Len(back) + Len(sent)
<1>2. /\ Len(back) \in Nat /\ Len(sent) \in Nat
      /\ DOMAIN q = 1..n
      /\ DOMAIN next = 1..(Len(back) + Len(more))
      /\ \A p \in 1..Len(back) : q[p] = back[p].job
      /\ \A p \in Len(back) + 1..n : q[p] = sent[p - Len(back)]
      /\ \A p \in 1..Len(back) : next[p] = back[p].job
      /\ \A p \in Len(back) + 1..Len(back) + Len(more) :
            next[p] = more[p - Len(back)]
  BY <1>1, QueueIs
<1> HIDE DEF q, next
<1>3. n \in Nat /\ DOMAIN next = 1..n + 1 /\ next[n + 1] = j
  BY <1>1, <1>2
<1>4. ASSUME NEW p \in 1..n PROVE next[p] = q[p]
  <2>1. CASE p <= Len(back)
    BY <1>1, <1>2, <2>1
  <2>2. CASE p > Len(back)
    <3>1. p - Len(back) \in 1..Len(sent)
      BY <1>2, <2>2
    <3>2. next[p] = more[p - Len(back)] /\ q[p] = sent[p - Len(back)]
      BY <1>1, <1>2, <2>2
    <3> QED  BY <1>1, <3>1, <3>2
  <2> QED  BY <1>2, <2>1, <2>2
<1> QED  BY <1>2, <1>3, <1>4 DEF q, next, more

LEMMA WorkChangesNothing ==
  ASSUME NEW back \in Seq(Results), NEW sent \in Seq(Job), sent # << >>,
         NEW ok \in BOOLEAN
  PROVE  LET result == [job |-> Head(sent), ok |-> ok]
         IN  /\ Tail(sent) \in Seq(Job)
             /\ Append(back, result) \in Seq(Results)
             /\ Queue(Append(back, result), Tail(sent)) = Queue(back, sent)
<1> DEFINE result == [job |-> Head(sent), ok |-> ok]
           more == Append(back, result)
           rest == Tail(sent)
           q == Queue(back, sent)
           next == Queue(more, rest)
<1>1. /\ Head(sent) \in Job /\ Head(sent) = sent[1] /\ rest \in Seq(Job)
      /\ Len(rest) = Len(sent) - 1 /\ Len(sent) \in Nat /\ Len(sent) >= 1
      /\ \A i \in 1..Len(rest) : rest[i] = sent[i + 1]
  BY HeadTailProperties, LenProperties, EmptySeq
<1>2. result \in Results /\ result.job = sent[1]
  BY <1>1 DEF Results
<1> HIDE DEF result, rest
<1>3. /\ more \in Seq(Results) /\ Len(more) = Len(back) + 1
      /\ \A p \in 1..Len(back) : more[p] = back[p]
      /\ more[Len(back) + 1].job = sent[1]
  BY <1>2, AppendProperties
<1> HIDE DEF more
<1>4. /\ q \in Seq(Job) /\ next \in Seq(Job) /\ Len(back) \in Nat
      /\ DOMAIN q = 1..(Len(back) + Len(sent))
      /\ DOMAIN next = 1..(Len(more) + Len(rest))
      /\ \A p \in 1..Len(back) : q[p] = back[p].job
      /\ \A p \in Len(back) + 1..Len(back) + Len(sent) :
            q[p] = sent[p - Len(back)]
      /\ \A p \in 1..Len(more) : next[p] = more[p].job
      /\ \A p \in Len(more) + 1..Len(more) + Len(rest) :
            next[p] = rest[p - Len(more)]
  BY <1>1, <1>3, QueueIs
<1> HIDE DEF q, next
<1>5. DOMAIN next = DOMAIN q
  BY <1>1, <1>3, <1>4
<1>6. ASSUME NEW p \in DOMAIN q PROVE next[p] = q[p]
  <2>1. CASE p <= Len(back)
    <3>1. p \in 1..Len(back) /\ p \in 1..Len(more)
      BY <1>1, <1>3, <1>4, <2>1
    <3> QED  BY <1>3, <1>4, <3>1
  <2>2. CASE p = Len(back) + 1
    <3>1. p \in 1..Len(more) /\ p - Len(back) = 1
          /\ p \in Len(back) + 1..Len(back) + Len(sent)
      BY <1>1, <1>3, <1>4, <2>2
    <3>2. next[p] = more[p].job /\ q[p] = sent[1]
      BY <1>4, <3>1
    <3> QED  BY <1>3, <2>2, <3>2
  <2>3. CASE p > Len(back) + 1
    <3>1. p - Len(more) \in 1..Len(rest) /\ p - Len(more) + 1 = p - Len(back)
      BY <1>1, <1>3, <1>4, <2>3
    <3>2. p \in Len(more) + 1..Len(more) + Len(rest)
          /\ p \in Len(back) + 1..Len(back) + Len(sent)
      BY <1>1, <1>3, <1>4, <2>3
    <3>3. next[p] = rest[p - Len(more)] /\ q[p] = sent[p - Len(back)]
      BY <1>4, <3>2
    <3> QED  BY <1>1, <3>1, <3>3
  <2> QED  BY <1>1, <1>4, <2>1, <2>2, <2>3
<1>7. next = q
  <2>1. DOMAIN q = 1..Len(q) /\ DOMAIN next = 1..Len(next)
        /\ Len(q) \in Nat /\ Len(next) \in Nat
    BY <1>4, LenProperties
  <2>2. Len(next) = Len(q)
    BY <1>5, <2>1
  <2> QED  BY <1>4, <1>6, <2>1, <2>2, SeqEqual
<1> QED  BY <1>1, <1>3, <1>7 DEF result, more, rest, q, next

LEMMA TakenWasFirst ==
  ASSUME NEW back \in Seq(Results), NEW sent \in Seq(Job), back # << >>
  PROVE  LET q == Queue(back, sent)
             n == Len(back) + Len(sent)
             next == Queue(Tail(back), sent)
         IN  /\ Tail(back) \in Seq(Results) /\ Head(back) \in Results
             /\ n \in Nat \ {0} /\ DOMAIN q = 1..n /\ DOMAIN next = 1..n - 1
             /\ q[1] = Head(back).job
             /\ \A p \in 1..n - 1 : next[p] = q[p + 1]
<1> DEFINE rest == Tail(back)
<1>1. /\ Head(back) \in Results /\ Head(back) = back[1] /\ rest \in Seq(Results)
      /\ Len(rest) = Len(back) - 1 /\ Len(back) \in Nat /\ Len(back) >= 1
      /\ \A i \in 1..Len(rest) : rest[i] = back[i + 1]
  <2> HIDE DEF Results
  <2> QED  BY HeadTailProperties, LenProperties, EmptySeq
<1> HIDE DEF rest
<1> DEFINE q == Queue(back, sent)
           next == Queue(rest, sent)
           n == Len(back) + Len(sent)
<1>2. /\ Len(sent) \in Nat
      /\ DOMAIN q = 1..n
      /\ DOMAIN next = 1..(Len(rest) + Len(sent))
      /\ \A p \in 1..Len(back) : q[p] = back[p].job
      /\ \A p \in Len(back) + 1..n : q[p] = sent[p - Len(back)]
      /\ \A p \in 1..Len(rest) : next[p] = rest[p].job
      /\ \A p \in Len(rest) + 1..Len(rest) + Len(sent) :
            next[p] = sent[p - Len(rest)]
  BY <1>1, QueueIs
<1> HIDE DEF q, next
<1>3. n \in Nat \ {0} /\ DOMAIN next = 1..n - 1 /\ q[1] = Head(back).job
  BY <1>1, <1>2
<1>4. ASSUME NEW p \in 1..n - 1 PROVE next[p] = q[p + 1]
  <2>1. CASE p <= Len(rest)
    <3>1. p \in 1..Len(rest) /\ p + 1 \in 1..Len(back)
      BY <1>1, <2>1
    <3>2. next[p] = rest[p].job /\ q[p + 1] = back[p + 1].job
      BY <1>2, <3>1
    <3> QED  BY <1>1, <3>1, <3>2
  <2>2. CASE p > Len(rest)
    <3>1. p - Len(rest) = p + 1 - Len(back)
      BY <1>1, <1>2, <2>2
    <3>2. next[p] = sent[p - Len(rest)] /\ q[p + 1] = sent[p + 1 - Len(back)]
      BY <1>1, <1>2, <2>2
    <3> QED  BY <3>1, <3>2
  <2> QED  BY <1>1, <1>2, <2>1, <2>2
<1> QED  BY <1>1, <1>2, <1>3, <1>4 DEF q, next, rest

-----------------------------------------------------------------------------
(* Types, and the hosts of the table *)

LEMMA TableOfType ==
  ASSUME TypeOK
  PROVE  SoundTable(entries) /\ jobs \in Seq(Job) /\ done \in Seq(Results)
BY DEF TypeOK, SoundTable, Results

LEMMA EditedIsSound ==
  ASSUME SoundTable(entries), NEW i \in DOMAIN entries, NEW e \in Entry,
         e.security = "nts" <=> e.session # NoHost,
         e.host = entries[i].host
  PROVE  LET t == [entries EXCEPT ![i] = e]
         IN  /\ SoundTable(t) /\ HostsOf(t) = HostsOf(entries)
             /\ DOMAIN t = DOMAIN entries
             /\ \A k \in DOMAIN entries : t[k] = IF k = i THEN e ELSE entries[k]
<1> DEFINE t == [entries EXCEPT ![i] = e]
<1>1. i \in 1..Len(entries) /\ DOMAIN entries = 1..Len(entries)
      /\ entries \in Seq(Entry) /\ Len(entries) <= MaxEntries
  BY LenProperties DEF SoundTable
<1>2. t \in Seq(Entry) /\ Len(t) = Len(entries)
  BY <1>1, ExceptSeq
<1>3. DOMAIN t = DOMAIN entries
      /\ \A k \in DOMAIN entries : t[k] = IF k = i THEN e ELSE entries[k]
  BY <1>1
<1> HIDE DEF t
<1>4. SoundTable(t)
  BY <1>1, <1>2, <1>3 DEF SoundTable
<1>5. HostsOf(t) = HostsOf(entries)
  BY <1>3 DEF HostsOf
<1> QED  BY <1>3, <1>4, <1>5 DEF t

LEMMA EntryIs ==
  ASSUME SoundTable(entries), NEW i \in DOMAIN entries
  PROVE  /\ entries[i] \in Entry /\ i \in 1..MaxEntries
         /\ entries[i].security = "nts" <=> entries[i].session # NoHost
<1>1. /\ DOMAIN entries = 1..Len(entries) /\ Len(entries) \in Nat
      /\ entries \in Seq(Entry) /\ Len(entries) <= MaxEntries
  BY LenProperties DEF SoundTable
<1> QED  BY <1>1, ElementOfSeq, TableConstants DEF SoundTable

LEMMA ClearedIsSound ==
  ASSUME NEW t, SoundTable(t)
  PROVE  /\ SoundTable(Cleared(t)) /\ HostsOf(Cleared(t)) = HostsOf(t)
         /\ DOMAIN Cleared(t) = DOMAIN t
         /\ \A k \in DOMAIN t :
               /\ Cleared(t)[k].host = t[k].host
               /\ Cleared(t)[k].at = NoHost
               /\ Cleared(t)[k].session = t[k].session
               /\ Cleared(t)[k].inFlight = t[k].inFlight
<1> DEFINE c == Cleared(t)
<1>1. /\ t \in Seq(Entry) /\ Len(t) <= MaxEntries /\ Len(t) \in Nat
      /\ DOMAIN t = 1..Len(t) /\ \A k \in DOMAIN t : t[k] \in Entry
  BY LenProperties, ElementOfSeq DEF SoundTable
<1>2. c = [k \in DOMAIN t |-> [t[k] EXCEPT !.at = NoHost]]
  BY DEF Cleared
<1> HIDE DEF c
<1>3. ASSUME NEW k \in DOMAIN t
      PROVE  /\ c[k] \in Entry
             /\ c[k].host = t[k].host
             /\ c[k].at = NoHost
             /\ c[k].session = t[k].session
             /\ c[k].inFlight = t[k].inFlight
             /\ c[k].security = t[k].security
  BY <1>1, <1>2, <1>3 DEF Entry
<1>4. DOMAIN c = DOMAIN t
  BY <1>2
<1>5. c \in Seq(Entry) /\ Len(c) = Len(t)
  <2>1. c \in [1..Len(t) -> Entry]
    BY <1>1, <1>2, <1>3
  <2> QED  BY <1>1, <2>1
<1>6. SoundTable(c)
  BY <1>1, <1>3, <1>4, <1>5 DEF SoundTable
<1>7. HostsOf(c) = HostsOf(t)
  BY <1>3, <1>4 DEF HostsOf
<1> QED  BY <1>3, <1>4, <1>6, <1>7 DEF c

(* reload and absorb_netd, whichever way they rebuild.                     *)
LEMMA NewTable ==
  ASSUME SoundTable(entries), NEW c \in Configs, NEW offer \in Offers,
         NEW t, t \in {Rebuilt(c, offer), Cleared(Rebuilt(c, offer))}
  PROVE  SoundTable(t) /\ HostsOf(t) = HostsFor(c, offer) /\ CarriedOver(t)
<1> DEFINE r == Rebuilt(c, offer)
<1>1. SoundTable(r) /\ HostsOf(r) = HostsFor(c, offer) /\ CarriedOver(r)
  BY RebuiltIsSound
<1> HIDE DEF r
<1>2. CASE t = r
  BY <1>1, <1>2
<1>3. CASE t = Cleared(r)
  <2>1. /\ SoundTable(t) /\ HostsOf(t) = HostsFor(c, offer)
        /\ DOMAIN t = DOMAIN r
        /\ \A k \in DOMAIN r :
              /\ t[k].host = r[k].host /\ t[k].at = NoHost
              /\ t[k].session = r[k].session /\ t[k].inFlight = r[k].inFlight
    BY <1>1, <1>3, ClearedIsSound
  <2>2. ASSUME NEW k \in DOMAIN t, IsNew(r, k) PROVE IsNew(t, k)
    BY <2>1, <2>2 DEF IsNew
  <2>3. ASSUME NEW k \in DOMAIN t, IsOld(r, k) PROVE IsOld(t, k)
    BY <2>1, <2>3 DEF IsOld
  <2> QED  BY <1>1, <2>1, <2>2, <2>3 DEF CarriedOver
<1> QED  BY <1>2, <1>3 DEF r

(* What absorb_netd asks before it rebuilds is enough.                     *)
LEMMA OfferOfNoInterest ==
  ASSUME NEW c \in Configs, NEW o \in Offers, NEW offer \in Offers,
         ~(offer # o /\ c.useDhcp /\ c.servers = << >>)
  PROVE  HostsFor(c, offer) = HostsFor(c, o)
<1>1. ChosenSpecs(c, offer) = ChosenSpecs(c, o)
  <2>1. CASE offer = o
    BY <2>1
  <2>2. CASE c.servers # << >>
    BY <2>2 DEF ChosenSpecs, FromLeases
  <2>3. CASE ~c.useDhcp /\ c.servers = << >>
    BY <2>3 DEF ChosenSpecs, FromLeases
  <2> QED  BY <2>1, <2>2, <2>3, TableConstants
<1> QED  BY <1>1 DEF HostsFor, Admitted
LEMMA FollowsIs ==
  TableFollowsConfig <=> HostsOf(entries) = HostsFor(config, offered)
BY DEF TableFollowsConfig, HostsOf, HostsFor

(* What every step but the two that may rebuild does to an entry.          *)
Touches(i, e) ==
    /\ entries' = [entries EXCEPT ![i] = e]
    /\ e \in Entry /\ e.host = entries[i].host
    /\ e.security = "nts" <=> e.session # NoHost

LEMMA OneEntryTouched ==
  ASSUME TypeOK, TableFollowsConfig, NEW i \in DOMAIN entries,
         \E e : Touches(i, e), UNCHANGED <<config, offered>>
  PROVE  SoundTable(entries') /\ TableFollowsConfig'
<1>1. PICK e : Touches(i, e)
  OBVIOUS
<1>2. SoundTable(entries') /\ HostsOf(entries') = HostsOf(entries)
  BY <1>1, TableOfType, EditedIsSound DEF Touches
<1>3. HostsOf(entries') = HostsFor(config', offered')
  BY <1>2, FollowsIs
<1>4. TableFollowsConfig'
  BY <1>3 DEF TableFollowsConfig, HostsOf, HostsFor
<1> QED  BY <1>2, <1>4

LEMMA RefusedTouches ==
  ASSUME TypeOK, NEW i \in DOMAIN entries, KeysRefused(i)
  PROVE  Touches(i, Refused(entries[i]))
BY EntryIs, TableOfType DEF KeysRefused, Touches, Refused, Entry

LEMMA SilentTouches ==
  ASSUME TypeOK, NEW i \in DOMAIN entries, GoneSilent(i)
  PROVE  Touches(i, [entries[i] EXCEPT !.at = NoHost])
BY EntryIs, TableOfType DEF GoneSilent, Touches, Entry

LEMMA SubmitTouches ==
  ASSUME TypeOK, NEW i \in DOMAIN entries, NEW job, Submit(i, job)
  PROVE  Touches(i, [entries[i] EXCEPT !.inFlight = TRUE])
BY EntryIs, TableOfType DEF Submit, Touches, Entry

(* The job sent is for the entry, and for its own host if it was sent with *)
(* the name or with the addresses the entry holds.                         *)
LEMMA JobIs ==
  ASSUME TypeOK, NEW i \in DOMAIN entries,
         SubmitResolve(i) \/ SubmitHandshake(i)
  PROVE  \E job \in Job : /\ Submit(i, job) /\ ~entries[i].inFlight
                          /\ job.index = i
                          /\ Own(entries[i]) => job.host = entries[i].host
<1>1. entries[i] \in Entry /\ i \in 1..MaxEntries
  BY EntryIs, TableOfType
<1>2. CASE SubmitResolve(i)
  <2> DEFINE job == [kind |-> "resolve", index |-> i, host |-> entries[i].host]
  <2>1. job \in Job /\ job.index = i /\ job.host = entries[i].host
    BY <1>1 DEF Job, Entry
  <2> QED  BY <1>2, <2>1 DEF SubmitResolve
<1>3. CASE SubmitHandshake(i)
  <2> DEFINE job == [kind |-> "handshake", index |-> i, host |-> entries[i].at]
  <2>1. entries[i].at \in Hosts
    BY <1>1, <1>3 DEF SubmitHandshake, Entry
  <2>2. job \in Job /\ job.index = i /\ job.host = entries[i].at
    BY <1>1, <2>1 DEF Job
  <2> QED  BY <1>3, <2>2 DEF SubmitHandshake, Own
<1> QED  BY <1>2, <1>3

LEMMA HeadIs ==
  ASSUME TypeOK, done # << >>
  PROVE  /\ Head(done) \in Results /\ Head(done).job \in Job
         /\ Head(done).job.kind # "roots" =>
               Head(done).job.host \in Hosts /\ Head(done).job.index # 0
<1>1. Head(done) \in Results
  BY TableOfType, HeadTailProperties
<1> QED  BY <1>1 DEF Results, Job, RootsJob

LEMMA ResultTouches ==
  ASSUME TypeOK, CollectResolved \/ CollectHandshook,
         Head(done).job.index \in DOMAIN entries
  PROVE  LET i == Head(done).job.index
         IN  /\ i # 0 /\ i \in DOMAIN entries
             /\ \E e : /\ Touches(i, e) /\ ~e.inFlight
                       /\ e.session \in {entries[i].session, Head(done).job.host}
                       /\ e.at \in {entries[i].at, Head(done).job.host}
<1> DEFINE i == Head(done).job.index
           h == Head(done).job.host
<1>1. /\ done # << >> /\ Head(done).job.kind \in {"resolve", "handshake"}
      /\ i # 0 /\ h \in Hosts
      /\ entries[i] \in Entry
      /\ entries[i].security = "nts" <=> entries[i].session # NoHost
      /\ NoHost \notin Hosts
  BY HeadIs, EntryIs, TableOfType, ListsAreBounded
     DEF CollectResolved, CollectHandshook, Collect
<1>2. CASE CollectResolved
  <2> DEFINE e == [entries[i] EXCEPT !.inFlight = FALSE,
                                     !.at = IF Head(done).ok THEN h ELSE @]
  <2>1. entries' = [entries EXCEPT ![i] = e]
    BY <1>2 DEF CollectResolved
  <2>2. /\ e \in Entry /\ e.host = entries[i].host /\ ~e.inFlight
        /\ e.security = entries[i].security /\ e.session = entries[i].session
        /\ e.at \in {entries[i].at, h}
    BY <1>1 DEF Entry
  <2> QED  BY <1>1, <2>1, <2>2 DEF Touches
<1>3. CASE CollectHandshook /\ ~Head(done).ok
  <2> DEFINE e == [entries[i] EXCEPT !.inFlight = FALSE]
  <2>1. entries' = [entries EXCEPT ![i] = e]
    BY <1>3 DEF CollectHandshook, AfterFailure
  <2>2. /\ e \in Entry /\ e.host = entries[i].host /\ ~e.inFlight
        /\ e.security = entries[i].security /\ e.session = entries[i].session
        /\ e.at = entries[i].at
    BY <1>1 DEF Entry
  <2> QED  BY <1>1, <2>1, <2>2 DEF Touches
<1>4. CASE CollectHandshook /\ Head(done).ok
  <2> DEFINE e == [entries[i] EXCEPT !.inFlight = FALSE, !.security = "nts",
                                     !.session = h, !.at = h]
  <2>1. entries' = [entries EXCEPT ![i] = e]
    BY <1>4 DEF CollectHandshook
  <2>2. /\ e \in Entry /\ e.host = entries[i].host /\ ~e.inFlight
        /\ e.security = "nts" /\ e.session = h /\ e.at = h
    BY <1>1 DEF Entry
  <2> QED  BY <1>1, <2>1, <2>2 DEF Touches
<1> QED  BY <1>1, <1>2, <1>3, <1>4
LEMMA ReloadedTable ==
  ASSUME TypeOK, NEW c \in Configs, NEW again \in BOOLEAN, Reload(c, again)
  PROVE  /\ SoundTable(entries') /\ TableFollowsConfig'
         /\ CarriedOver(entries')
<1>1. /\ entries' \in {Rebuilt(c, offered), Cleared(Rebuilt(c, offered))}
      /\ config' = c /\ offered' = offered /\ offered \in Offers
  BY DEF Reload, TypeOK
<1>2. /\ SoundTable(entries') /\ CarriedOver(entries')
      /\ HostsOf(entries') = HostsFor(c, offered)
  BY <1>1, TableOfType, NewTable
<1>3. TableFollowsConfig'
  BY <1>1, <1>2 DEF TableFollowsConfig, HostsOf, HostsFor
<1> QED  BY <1>2, <1>3

(* netd's report, when the table is left as it is but for the addresses.   *)
Untouched(t) ==
    /\ DOMAIN t = DOMAIN entries
    /\ \A k \in DOMAIN t :
          /\ t[k].host = entries[k].host /\ t[k].session = entries[k].session
          /\ t[k].inFlight = entries[k].inFlight
          /\ t[k].at \in {entries[k].at, NoHost}

LEMMA ReportedTable ==
  ASSUME TypeOK, TableFollowsConfig,
         NEW offer \in Offers, NEW other \in BOOLEAN, NetdReports(offer, other)
  PROVE  /\ SoundTable(entries') /\ TableFollowsConfig'
         /\ CarriedOver(entries') \/ Untouched(entries')
<1>1. /\ config' = config /\ offered' = offer
      /\ config \in Configs /\ offered \in Offers /\ SoundTable(entries)
  BY TableOfType DEF NetdReports, TypeOK
<1>2. CASE OfferMatters(offer)
  <2>1. entries' \in {Rebuilt(config, offer), Cleared(Rebuilt(config, offer))}
    BY <1>2 DEF NetdReports
  <2>2. /\ SoundTable(entries') /\ CarriedOver(entries')
        /\ HostsOf(entries') = HostsFor(config, offer)
    BY <1>1, <2>1, NewTable
  <2>3. TableFollowsConfig'
    BY <1>1, <2>2 DEF TableFollowsConfig, HostsOf, HostsFor
  <2> QED  BY <2>2, <2>3
<1>3. CASE ~OfferMatters(offer)
  <2>1. entries' \in {entries, Cleared(entries)}
    BY <1>3 DEF NetdReports
  <2>2. /\ SoundTable(entries') /\ Untouched(entries')
        /\ HostsOf(entries') = HostsOf(entries)
    BY <1>1, <2>1, ClearedIsSound DEF Untouched
  <2>3. HostsFor(config, offer) = HostsFor(config, offered)
    BY <1>1, <1>3, OfferOfNoInterest DEF OfferMatters
  <2>4. HostsOf(entries') = HostsFor(config, offer)
    BY <2>2, <2>3, FollowsIs
  <2>5. TableFollowsConfig'
    BY <1>1, <2>4 DEF TableFollowsConfig, HostsOf, HostsFor
  <2> QED  BY <2>2, <2>5
<1> QED  BY <1>2, <1>3

LEMMA TableStep ==
  ASSUME TypeOK, TableFollowsConfig, [Next]_vars
  PROVE  SoundTable(entries') /\ TableFollowsConfig'
<1>1. SoundTable(entries) /\ (UNCHANGED <<config, offered, entries>>
                              => TableFollowsConfig')
  BY TableOfType DEF TableFollowsConfig
<1>2. ASSUME NEW c \in Configs, NEW again \in BOOLEAN, Reload(c, again)
      PROVE  SoundTable(entries') /\ TableFollowsConfig'
  BY <1>2, ReloadedTable
<1>3. ASSUME NEW offer \in Offers, NEW other \in BOOLEAN,
             NetdReports(offer, other)
      PROVE  SoundTable(entries') /\ TableFollowsConfig'
  BY <1>3, ReportedTable
<1>4. ASSUME NEW i \in DOMAIN entries, KeysRefused(i)
      PROVE  SoundTable(entries') /\ TableFollowsConfig'
  BY <1>4, RefusedTouches, OneEntryTouched DEF KeysRefused
<1>5. ASSUME NEW i \in DOMAIN entries, GoneSilent(i)
      PROVE  SoundTable(entries') /\ TableFollowsConfig'
  BY <1>5, SilentTouches, OneEntryTouched DEF GoneSilent
<1>6. ASSUME NEW i \in DOMAIN entries, SubmitResolve(i) \/ SubmitHandshake(i)
      PROVE  SoundTable(entries') /\ TableFollowsConfig'
  <2>1. PICK job \in Job : Submit(i, job)
    BY <1>6, JobIs
  <2> QED  BY <2>1, SubmitTouches, OneEntryTouched DEF Submit
<1>7. CASE CollectResolved \/ CollectHandshook
  <2>1. UNCHANGED <<config, offered>>
    BY <1>7 DEF CollectResolved, CollectHandshook, Collect
  <2>2. CASE Head(done).job.index \in DOMAIN entries
    BY <1>7, <2>1, <2>2, ResultTouches, OneEntryTouched
  <2>3. CASE Head(done).job.index \notin DOMAIN entries
    BY <1>1, <1>7, <2>1, <2>3 DEF CollectResolved, CollectHandshook
  <2> QED  BY <2>2, <2>3
<1>8. CASE EnsureRoots \/ (\E ok \in BOOLEAN : Work(ok)) \/ CollectRoots
           \/ UNCHANGED vars
  BY <1>1, <1>8 DEF EnsureRoots, Work, CollectRoots, Collect, vars
<1> QED
  BY <1>2, <1>3, <1>4, <1>5, <1>6, <1>7, <1>8 DEF Next

LEMMA CountersStep ==
  ASSUME TypeOK, [Next]_vars
  PROVE  /\ config' \in Configs /\ offered' \in Offers
         /\ jobs' \in Seq(Job) /\ done' \in Seq(Results)
         /\ tls' \in BOOLEAN /\ moved' \in BOOLEAN
         /\ changes' \in 0..MaxChanges /\ failures' \in 0..MaxFailures
<1>1. /\ config \in Configs /\ offered \in Offers
      /\ jobs \in Seq(Job) /\ done \in Seq(Results)
      /\ tls \in BOOLEAN /\ moved \in BOOLEAN
      /\ changes \in 0..MaxChanges /\ failures \in 0..MaxFailures
      /\ MaxChanges \in Nat /\ MaxFailures \in Nat
      /\ Changed => changes' \in 0..MaxChanges
  BY TableOfType, TableConstants DEF TypeOK, Changed
<1>2. ASSUME NEW c \in Configs, NEW again \in BOOLEAN, Reload(c, again)
      PROVE  UNCHANGED <<offered, tls, jobs, done, failures>>
             /\ config' \in Configs /\ moved' \in BOOLEAN /\ Changed
  BY <1>1, <1>2 DEF Reload, Displaced
<1>3. ASSUME NEW offer \in Offers, NEW other \in BOOLEAN,
             NetdReports(offer, other)
      PROVE  UNCHANGED <<config, tls, jobs, done, failures>>
             /\ offered' \in Offers /\ moved' \in BOOLEAN /\ Changed
  BY <1>1, <1>3 DEF NetdReports, Displaced
<1>4. ASSUME NEW i \in DOMAIN entries, KeysRefused(i) \/ GoneSilent(i)
      PROVE  UNCHANGED <<config, offered, tls, jobs, done, failures, moved>>
             /\ Changed
  BY <1>4 DEF KeysRefused, GoneSilent
<1>5. ASSUME NEW i \in DOMAIN entries, SubmitResolve(i) \/ SubmitHandshake(i)
      PROVE  UNCHANGED <<config, offered, tls, done, changes, failures, moved>>
             /\ jobs' \in Seq(Job)
  <2>1. PICK job \in Job : Submit(i, job)
    BY <1>5, JobIs
  <2> QED  BY <1>1, <2>1, AppendProperties DEF Submit
<1>6. CASE EnsureRoots
  <2>1. jobs' \in Seq(Job)
    BY <1>1, <1>6, AppendProperties DEF EnsureRoots, Job
  <2> QED  BY <1>1, <1>6, <2>1 DEF EnsureRoots
<1>7. ASSUME NEW ok \in BOOLEAN, Work(ok)
      PROVE  UNCHANGED <<config, offered, tls, changes, moved>>
             /\ jobs' \in Seq(Job) /\ done' \in Seq(Results)
             /\ failures' \in 0..MaxFailures
  <2>1. jobs' \in Seq(Job) /\ done' \in Seq(Results)
    BY <1>1, <1>7, WorkChangesNothing DEF Work
  <2>2. failures' \in 0..MaxFailures
    BY <1>1, <1>7 DEF Work
  <2> QED  BY <1>7, <2>1, <2>2 DEF Work
<1>8. CASE CollectRoots \/ CollectResolved \/ CollectHandshook
  <2>1. done # << >> /\ done' = Tail(done)
        /\ UNCHANGED <<config, offered, jobs, changes, failures, moved>>
    BY <1>8 DEF CollectRoots, CollectResolved, CollectHandshook, Collect
  <2>2. Head(done) \in Results /\ done' \in Seq(Results)
    BY <1>1, <2>1, HeadTailProperties
  <2>3. tls' \in BOOLEAN
    BY <1>1, <1>8, <2>2
       DEF CollectRoots, CollectResolved, CollectHandshook, Results
  <2> QED  BY <1>1, <2>1, <2>2, <2>3
<1>9. CASE UNCHANGED vars
  BY <1>1, <1>9 DEF vars
<1> QED
  BY <1>1, <1>2, <1>3, <1>4, <1>5, <1>6, <1>7, <1>8, <1>9 DEF Next

LEMMA TableTypeStep ==
  ASSUME TypeOK, TableFollowsConfig, [Next]_vars
  PROVE  TypeOK'
BY TableStep, CountersStep DEF TypeOK, SoundTable, Results
-----------------------------------------------------------------------------
(* Errands and the entries that wait for them *)

LEMMA MatchIs ==
  ASSUME ErrandsMatch, ~moved
  PROVE  /\ \A p \in DOMAIN Errands : Errands[p].index # 0 =>
               /\ Errands[p].index \in DOMAIN entries
               /\ entries[Errands[p].index].inFlight
               /\ entries[Errands[p].index].host = Errands[p].host
         /\ \A p, q \in DOMAIN Errands :
               Errands[p].index # 0 /\ Errands[q].index = Errands[p].index
               => q = p
         /\ \A i \in DOMAIN entries :
               /\ entries[i].inFlight =>
                     \E p \in DOMAIN Errands : Errands[p].index = i
               /\ Own(entries[i])
BY DEF ErrandsMatch, ErrandIsAwaited, OutAt

LEMMA MatchFrom ==
  ASSUME ~moved' =>
         /\ \A p \in DOMAIN Errands' : Errands'[p].index # 0 =>
               /\ Errands'[p].index \in DOMAIN entries'
               /\ entries'[Errands'[p].index].inFlight
               /\ entries'[Errands'[p].index].host = Errands'[p].host
         /\ \A p, q \in DOMAIN Errands' :
               Errands'[p].index # 0 /\ Errands'[q].index = Errands'[p].index
               => q = p
         /\ \A i \in DOMAIN entries' :
               /\ entries'[i].inFlight =>
                     \E p \in DOMAIN Errands' : Errands'[p].index = i
               /\ Own(entries'[i])
  PROVE  ErrandsMatch'
BY DEF ErrandsMatch, ErrandIsAwaited, OutAt, Own

(* Nothing happens to what is out, nor to who waits for it.                *)
LEMMA SameErrands ==
  ASSUME ErrandsMatch, Errands' = Errands, ~moved' => ~moved,
         DOMAIN entries' = DOMAIN entries,
         \A i \in DOMAIN entries :
            /\ entries'[i].host = entries[i].host
            /\ entries'[i].inFlight = entries[i].inFlight
            /\ entries'[i].session \in {entries[i].session, NoHost}
            /\ entries'[i].at \in {entries[i].at, NoHost}
  PROVE  ErrandsMatch'
<1>1. ASSUME ~moved', NEW i \in DOMAIN entries PROVE Own(entries'[i])
  BY <1>1, MatchIs DEF Own
<1> QED  BY <1>1, MatchIs, MatchFrom

(* A rebuild that displaces nobody.  An entry that waits in the new table  *)
(* was carried over from the last of its host; that one has a job out, and *)
(* had it another place now, one of the two would be listed second, and    *)
(* be new.                                                                 *)
LEMMA RebuiltMatches ==
  ASSUME TypeOK, ErrandsMatch, SoundTable(entries'), CarriedOver(entries'),
         moved' = (moved \/ Displaced(entries')), UNCHANGED <<jobs, done>>
  PROVE  ErrandsMatch'
<1> SUFFICES ASSUME ~moved' PROVE ErrandsMatch'
  BY MatchFrom
<1> DEFINE t == entries'
<1>1. /\ ~moved /\ Errands' = Errands
      /\ \A i \in DOMAIN entries : OutAt(i) # {} =>
            i \in DOMAIN t /\ t[i].host = entries[i].host /\ t[i].inFlight
  BY DEF Displaced, Errands
<1>2. ASSUME NEW p \in DOMAIN Errands, Errands[p].index # 0
      PROVE  /\ Errands[p].index \in DOMAIN t
             /\ t[Errands[p].index].inFlight
             /\ t[Errands[p].index].host = Errands[p].host
  <2>1. /\ Errands[p].index \in DOMAIN entries
        /\ entries[Errands[p].index].host = Errands[p].host
    BY <1>1, <1>2, MatchIs
  <2>2. p \in OutAt(Errands[p].index)
    BY <1>2 DEF OutAt
  <2> QED  BY <1>1, <2>1, <2>2
<1>3. ASSUME NEW k \in DOMAIN t, t[k].inFlight
      PROVE  k \in DOMAIN entries /\ entries[k].inFlight
  <2>1. IsOld(t, k)
    BY <1>3 DEF CarriedOver, IsNew
  <2>2. PICK j \in DOMAIN entries : /\ entries[j].host = t[k].host
                                    /\ entries[j].inFlight
    BY <1>3, <2>1 DEF IsOld
  <2>3. OutAt(j) # {}
    BY <1>1, <2>2, MatchIs DEF OutAt
  <2>4. j \in DOMAIN t /\ t[j].host = t[k].host /\ t[j].inFlight
    BY <1>1, <2>2, <2>3
  <2>5. IsOld(t, j)
    BY <2>4 DEF CarriedOver, IsNew
  <2>6. j \in Int /\ k \in Int
    BY <2>4, LenProperties DEF SoundTable
  <2>7. ~(j < k) /\ ~(k < j)
    BY <2>1, <2>4, <2>5 DEF IsOld
  <2> QED  BY <2>2, <2>6, <2>7
<1>4. ASSUME NEW k \in DOMAIN t PROVE Own(t[k])
  <2>1. CASE IsNew(t, k)
    BY <2>1 DEF IsNew, Own
  <2>2. CASE IsOld(t, k)
    <3>1. PICK j \in DOMAIN entries :
             /\ entries[j].host = t[k].host
             /\ t[k].session = entries[j].session
             /\ t[k].at \in {entries[j].at, NoHost}
      BY <2>2 DEF IsOld
    <3>2. Own(entries[j])
      BY <1>1, MatchIs
    <3> QED  BY <3>1, <3>2 DEF Own
  <2> QED  BY <2>1, <2>2 DEF CarriedOver
<1>5. ASSUME NEW k \in DOMAIN t, t[k].inFlight
      PROVE  \E p \in DOMAIN Errands : Errands[p].index = k
  BY <1>1, <1>3, <1>5, MatchIs
<1>6. \A p, q \in DOMAIN Errands :
         Errands[p].index # 0 /\ Errands[q].index = Errands[p].index => q = p
  BY <1>1, MatchIs
<1> HIDE DEF t
<1>7. /\ \A p \in DOMAIN Errands : Errands[p].index # 0 =>
            /\ Errands[p].index \in DOMAIN t
            /\ t[Errands[p].index].inFlight
            /\ t[Errands[p].index].host = Errands[p].host
      /\ \A k \in DOMAIN t :
            /\ t[k].inFlight => \E p \in DOMAIN Errands : Errands[p].index = k
            /\ Own(t[k])
  BY <1>2, <1>4, <1>5
<1> QED  BY <1>1, <1>6, <1>7, MatchFrom DEF t

(* An entry with no job out is given one.                                  *)
LEMMA SubmittedMatches ==
  ASSUME TypeOK, ErrandsMatch, NEW i \in DOMAIN entries,
         SubmitResolve(i) \/ SubmitHandshake(i)
  PROVE  ErrandsMatch'
<1>1. PICK job \in Job :
         /\ Submit(i, job) /\ ~entries[i].inFlight
         /\ job.index = i
         /\ Own(entries[i]) => job.host = entries[i].host
  BY JobIs
<1> DEFINE n == Len(done) + Len(jobs)
<1>2. /\ n \in Nat /\ DOMAIN Errands = 1..n /\ DOMAIN Errands' = 1..n + 1
      /\ \A p \in 1..n : Errands'[p] = Errands[p]
      /\ Errands'[n + 1] = job
  BY <1>1, TableOfType, SentIsLast DEF Submit, Errands
<1> HIDE DEF n
<1>3. /\ entries[i] \in Entry /\ DOMAIN entries' = DOMAIN entries
      /\ \A k \in DOMAIN entries : entries'[k] =
            IF k = i THEN [entries[i] EXCEPT !.inFlight = TRUE] ELSE entries[k]
      /\ moved' = moved
  BY <1>1, TableOfType, EntryIs DEF Submit
<1>4. /\ \A k \in DOMAIN entries :
            /\ entries'[k].host = entries[k].host
            /\ entries'[k].session = entries[k].session
            /\ entries'[k].at = entries[k].at
            /\ k # i => entries'[k].inFlight = entries[k].inFlight
      /\ entries'[i].inFlight
  BY <1>3 DEF Entry
<1> SUFFICES ASSUME ~moved PROVE ErrandsMatch'
  BY <1>3, MatchFrom
<1>5. \A p \in 1..n : Errands[p].index = i => i = 0
  BY <1>1, <1>2, MatchIs
<1>6. i # 0
  BY EntryIs, TableOfType
<1>7. \A k \in DOMAIN entries : Own(entries'[k])
  BY <1>4, MatchIs DEF Own
<1>8. ASSUME NEW p \in DOMAIN Errands', Errands'[p].index # 0
      PROVE  /\ Errands'[p].index \in DOMAIN entries'
             /\ entries'[Errands'[p].index].inFlight
             /\ entries'[Errands'[p].index].host = Errands'[p].host
  <2>1. CASE p \in 1..n
    BY <1>2, <1>3, <1>4, <1>8, <2>1, MatchIs
  <2>2. CASE p = n + 1
    BY <1>1, <1>2, <1>3, <1>4, <2>2, MatchIs
  <2> QED  BY <1>2, <2>1, <2>2
<1>9. ASSUME NEW p \in DOMAIN Errands', NEW q \in DOMAIN Errands',
             Errands'[p].index # 0, Errands'[q].index = Errands'[p].index
      PROVE  q = p
  <2>1. CASE p \in 1..n /\ q \in 1..n
    BY <1>2, <1>9, <2>1, MatchIs
  <2>2. CASE p = n + 1 /\ q \in 1..n
    BY <1>1, <1>2, <1>5, <1>6, <1>9, <2>2
  <2>3. CASE p \in 1..n /\ q = n + 1
    BY <1>1, <1>2, <1>5, <1>6, <1>9, <2>3
  <2> QED  BY <1>2, <2>1, <2>2, <2>3
<1>10. ASSUME NEW k \in DOMAIN entries', entries'[k].inFlight
       PROVE  \E p \in DOMAIN Errands' : Errands'[p].index = k
  <2>1. CASE k = i
    <3>1. n + 1 \in DOMAIN Errands' /\ Errands'[n + 1].index = i
      BY <1>1, <1>2
    <3> QED  BY <2>1, <3>1
  <2>2. CASE k # i
    <3>1. PICK p \in 1..n : Errands[p].index = k
      BY <1>2, <1>3, <1>4, <1>10, <2>2, MatchIs
    <3>2. p \in DOMAIN Errands' /\ Errands'[p].index = k
      BY <1>2, <3>1
    <3> QED  BY <3>2
  <2> QED  BY <2>1, <2>2
<1> QED  BY <1>3, <1>7, <1>8, <1>9, <1>10, MatchFrom
(* The roots are fetched for no entry.                                     *)
LEMMA RootsMatch ==
  ASSUME TypeOK, ErrandsMatch, EnsureRoots
  PROVE  ErrandsMatch'
<1> SUFFICES ASSUME ~moved PROVE ErrandsMatch'
  BY MatchFrom DEF EnsureRoots
<1> DEFINE n == Len(done) + Len(jobs)
<1>1. RootsJob \in Job /\ RootsJob.index = 0
  BY DEF Job, RootsJob
<1>2. /\ n \in Nat /\ DOMAIN Errands = 1..n /\ DOMAIN Errands' = 1..n + 1
      /\ \A p \in 1..n : Errands'[p] = Errands[p]
      /\ Errands'[n + 1] = RootsJob
  BY <1>1, TableOfType, SentIsLast DEF EnsureRoots, Errands
<1> HIDE DEF n
<1>3. /\ entries' = entries /\ moved' = moved
      /\ \A p \in DOMAIN Errands' : Errands'[p].index # 0 =>
            p \in DOMAIN Errands /\ Errands'[p] = Errands[p]
      /\ \A p \in DOMAIN Errands : p \in DOMAIN Errands' /\ Errands'[p] = Errands[p]
  BY <1>1, <1>2 DEF EnsureRoots
<1> QED  BY <1>3, MatchIs, MatchFrom

(* A job that fails and one that succeeds come back alike.                 *)
LEMMA WorkedMatches ==
  ASSUME TypeOK, ErrandsMatch, NEW ok \in BOOLEAN, Work(ok)
  PROVE  ErrandsMatch'
<1>1. Errands' = Errands
  BY TableOfType, WorkChangesNothing DEF Work, Errands
<1> QED  BY <1>1, SameErrands DEF Work

(* The entry whose job came back waits no longer, and nothing else is out  *)
(* for it.  While nobody was displaced it is there, and under the name the *)
(* job was sent for.                                                       *)
LEMMA CollectedMatches ==
  ASSUME TypeOK, ErrandsMatch,
         CollectRoots \/ CollectResolved \/ CollectHandshook
  PROVE  ErrandsMatch'
<1>1. /\ done # << >> /\ done' = Tail(done) /\ jobs' = jobs /\ moved' = moved
  BY DEF CollectRoots, CollectResolved, CollectHandshook, Collect
<1> SUFFICES ASSUME ~moved PROVE ErrandsMatch'
  BY <1>1, MatchFrom
<1> DEFINE n == Len(done) + Len(jobs)
           j == Head(done).job
<1>2. /\ n \in Nat \ {0} /\ DOMAIN Errands = 1..n /\ DOMAIN Errands' = 1..n - 1
      /\ Errands[1] = j
      /\ \A p \in 1..n - 1 : Errands'[p] = Errands[p + 1]
  BY <1>1, TableOfType, TakenWasFirst DEF Errands
<1> HIDE DEF n, j
<1>3. ASSUME NEW p \in DOMAIN Errands'
      PROVE  /\ p + 1 \in DOMAIN Errands /\ p + 1 # 1
             /\ Errands'[p] = Errands[p + 1]
             /\ j.index # 0 => Errands'[p].index # j.index
  <2>1. p + 1 \in 1..n /\ p + 1 # 1 /\ 1 \in 1..n
    BY <1>2
  <2> QED  BY <1>2, <2>1, MatchIs
<1>4. \A p, q \in DOMAIN Errands' :
         Errands'[p].index # 0 /\ Errands'[q].index = Errands'[p].index => q = p
  <2>1. ASSUME NEW p \in DOMAIN Errands', NEW q \in DOMAIN Errands',
               Errands'[p].index # 0, Errands'[q].index = Errands'[p].index
        PROVE  q = p
    <3>1. q + 1 = p + 1
      BY <1>3, <2>1, MatchIs
    <3>2. p \in Int /\ q \in Int
      BY <1>2
    <3> QED  BY <3>1, <3>2
  <2> QED  BY <2>1
<1>5. ASSUME NEW k \in DOMAIN entries, entries[k].inFlight, k # j.index \/ k = 0
      PROVE  \E p \in DOMAIN Errands' : Errands'[p].index = k
  <2>1. k # 0
    BY EntryIs, TableOfType
  <2>2. PICK p \in DOMAIN Errands : Errands[p].index = k
    BY <1>5, MatchIs
  <2>3. p # 1
    BY <1>2, <1>5, <2>1, <2>2
  <2>4. p - 1 \in 1..n - 1 /\ p - 1 + 1 = p
    BY <1>2, <2>2, <2>3
  <2>5. p - 1 \in DOMAIN Errands' /\ Errands'[p - 1].index = k
    BY <1>2, <2>2, <2>4
  <2> QED  BY <2>5
<1>6. CASE CollectRoots
  <2>1. j.index = 0
    <3>1. j \in Job /\ j.kind = "roots"
      BY <1>1, <1>6, HeadIs DEF CollectRoots, Collect, j
    <3> QED  BY <3>1 DEF Job, RootsJob
  <2>2. entries' = entries
    BY <1>6 DEF CollectRoots
  <2>3. \A k \in DOMAIN entries : k # 0
    BY EntryIs, TableOfType
  <2> QED  BY <1>1, <1>3, <1>4, <1>5, <2>1, <2>2, <2>3, MatchIs, MatchFrom
<1>7. CASE CollectResolved \/ CollectHandshook
  <2>1. j.index # 0
    BY <1>1, <1>7, HeadIs DEF CollectResolved, CollectHandshook, Collect, j
  <2>2. /\ j.index \in DOMAIN entries /\ entries[j.index].host = j.host
    BY <1>2, <2>1, MatchIs
  <2>3. PICK e : /\ Touches(j.index, e) /\ ~e.inFlight
                 /\ e.session \in {entries[j.index].session, j.host}
                 /\ e.at \in {entries[j.index].at, j.host}
    BY <1>7, <2>2, ResultTouches DEF j
  <2>4. /\ DOMAIN entries' = DOMAIN entries
        /\ entries'[j.index] = e
        /\ \A k \in DOMAIN entries : k # j.index => entries'[k] = entries[k]
    BY <2>2, <2>3 DEF Touches
  <2>5. \A k \in DOMAIN entries : Own(entries'[k])
    BY <2>2, <2>3, <2>4, MatchIs DEF Own, Touches
  <2>6. ASSUME NEW p \in DOMAIN Errands', Errands'[p].index # 0
        PROVE  /\ Errands'[p].index \in DOMAIN entries'
               /\ entries'[Errands'[p].index].inFlight
               /\ entries'[Errands'[p].index].host = Errands'[p].host
    BY <1>3, <2>1, <2>4, <2>6, MatchIs
  <2>7. \A k \in DOMAIN entries' : entries'[k].inFlight =>
           \E p \in DOMAIN Errands' : Errands'[p].index = k
    BY <1>5, <2>3, <2>4
  <2> QED  BY <1>4, <2>4, <2>5, <2>6, <2>7, MatchFrom
<1> QED  BY <1>6, <1>7

LEMMA MatchStep ==
  ASSUME TableIInv, TypeOK', [Next]_vars
  PROVE  ErrandsMatch'
<1>1. TypeOK /\ TableFollowsConfig /\ ErrandsMatch /\ SoundTable(entries')
  BY TableOfType, TableStep DEF TableIInv
<1>2. ASSUME NEW c \in Configs, NEW again \in BOOLEAN, Reload(c, again)
      PROVE  ErrandsMatch'
  BY <1>1, <1>2, ReloadedTable, RebuiltMatches DEF Reload
<1>3. ASSUME NEW offer \in Offers, NEW other \in BOOLEAN,
             NetdReports(offer, other)
      PROVE  ErrandsMatch'
  <2>1. UNCHANGED <<jobs, done>> /\ moved' = (moved \/ Displaced(entries'))
    BY <1>3 DEF NetdReports
  <2>2. CASE CarriedOver(entries')
    BY <1>1, <2>1, <2>2, RebuiltMatches
  <2>3. CASE Untouched(entries')
    BY <1>1, <2>1, <2>3, SameErrands DEF Untouched, Errands
  <2> QED  BY <1>1, <1>3, <2>2, <2>3, ReportedTable
<1>4. ASSUME NEW i \in DOMAIN entries, KeysRefused(i) \/ GoneSilent(i)
      PROVE  ErrandsMatch'
  <2>1. PICK e : /\ Touches(i, e) /\ e.inFlight = entries[i].inFlight
                 /\ e.session \in {entries[i].session, NoHost}
                 /\ e.at \in {entries[i].at, NoHost}
    <3>1. entries[i] \in Entry
      BY <1>1, EntryIs, TableOfType
    <3>2. CASE KeysRefused(i)
      <4> WITNESS Refused(entries[i])
      <4> QED  BY <1>1, <3>1, <3>2, RefusedTouches DEF Refused, Entry
    <3>3. CASE GoneSilent(i)
      <4> WITNESS [entries[i] EXCEPT !.at = NoHost]
      <4> QED  BY <1>1, <3>1, <3>3, SilentTouches DEF Entry
    <3> QED  BY <1>4, <3>2, <3>3
  <2>2. UNCHANGED <<jobs, done, moved>> /\ Errands' = Errands
    BY <1>4 DEF KeysRefused, GoneSilent, Errands
  <2>3. /\ DOMAIN entries' = DOMAIN entries /\ entries'[i] = e
        /\ \A k \in DOMAIN entries : k # i => entries'[k] = entries[k]
    BY <2>1 DEF Touches
  <2> QED  BY <1>1, <2>1, <2>2, <2>3, SameErrands DEF Touches
<1>5. ASSUME NEW i \in DOMAIN entries, SubmitResolve(i) \/ SubmitHandshake(i)
      PROVE  ErrandsMatch'
  BY <1>1, <1>5, SubmittedMatches
<1>6. CASE EnsureRoots
  BY <1>1, <1>6, RootsMatch
<1>7. ASSUME NEW ok \in BOOLEAN, Work(ok) PROVE ErrandsMatch'
  BY <1>1, <1>7, WorkedMatches
<1>8. CASE CollectRoots \/ CollectResolved \/ CollectHandshook
  BY <1>1, <1>8, CollectedMatches
<1>9. CASE UNCHANGED vars
  BY <1>1, <1>9, SameErrands DEF vars, Errands
<1> QED
  BY <1>2, <1>3, <1>4, <1>5, <1>6, <1>7, <1>8, <1>9 DEF Next
-----------------------------------------------------------------------------
(* The theorems of the table *)

LEMMA TableInitInvariant == Init => TableIInv
<1> SUFFICES ASSUME Init PROVE TableIInv
  OBVIOUS
<1> DEFINE specs == Admitted(config, << >>)
<1>1. /\ config \in Configs /\ offered = << >> /\ << >> \in Offers
      /\ jobs = << >> /\ done = << >>
      /\ MaxEntries \in Nat /\ MaxChanges \in Nat /\ MaxFailures \in Nat
      /\ config.automatic \in BOOLEAN
  BY TableConstants DEF Init
<1>2. /\ SoundTable(entries) /\ HostsOf(entries) = HostsFor(config, offered)
      /\ \A i \in DOMAIN entries : ~entries[i].inFlight /\ Own(entries[i])
  <2>1. CASE ~config.automatic
    <3>1. entries = << >>
      BY <2>1 DEF Init
    <3>2. entries \in Seq(Entry) /\ Len(entries) = 0 /\ DOMAIN entries = {}
      BY <3>1
    <3> QED  BY <1>1, <2>1, <3>1, <3>2 DEF SoundTable, HostsOf, HostsFor
  <2>2. CASE config.automatic
    <3>1. /\ DOMAIN specs = 1..Len(specs) /\ Len(specs) \in Nat
          /\ Len(specs) <= MaxEntries
          /\ \A k \in DOMAIN specs :
                specs[k].host \in Hosts /\ specs[k].plain \in BOOLEAN
      BY <1>1, AdmittedRange
    <3>2. entries = [k \in DOMAIN specs |-> NewEntry(specs[k])]
      BY <2>2 DEF Init
    <3>3. \A k \in DOMAIN specs :
             /\ entries[k] \in Entry /\ entries[k].host = specs[k].host
             /\ entries[k].security = "nts" <=> entries[k].session # NoHost
             /\ entries[k].session = NoHost /\ entries[k].at = NoHost
             /\ ~entries[k].inFlight
      BY <3>1, <3>2, NewIsSound
    <3>4. DOMAIN entries = DOMAIN specs
      BY <3>2
    <3>5. entries \in Seq(Entry) /\ Len(entries) = Len(specs)
      <4>1. entries \in [1..Len(specs) -> Entry]
        BY <3>1, <3>2, <3>3
      <4> QED  BY <3>1, <4>1
    <3>6. HostsOf(entries) = HostsFor(config, offered)
      BY <1>1, <2>2, <3>3, <3>4 DEF HostsOf, HostsFor
    <3> HIDE DEF specs
    <3> QED  BY <3>1, <3>3, <3>4, <3>5, <3>6 DEF SoundTable, Own
  <2> QED  BY <1>1, <2>1, <2>2
<1>3. TypeOK
  <2>1. jobs \in Seq(Job) /\ done \in Seq([job : Job, ok : BOOLEAN])
    BY <1>1
  <2>2. /\ tls = FALSE /\ moved = FALSE /\ changes = 0 /\ failures = 0
        /\ 0 \in 0..MaxChanges /\ 0 \in 0..MaxFailures
    BY <1>1 DEF Init
  <2> HIDE DEF specs
  <2> QED  BY <1>1, <1>2, <2>1, <2>2 DEF TypeOK, SoundTable
<1>4. ErrandsMatch
  <2>1. jobs \in Seq(Job) /\ done \in Seq(Results) /\ Len(done) + Len(jobs) = 0
    BY <1>1
  <2>2. DOMAIN Errands = {}
    BY <2>1, QueueIs DEF Errands
  <2> QED  BY <1>2, <2>2 DEF ErrandsMatch
<1> QED  BY <1>2, <1>3, <1>4, FollowsIs DEF TableIInv

LEMMA TableStepInvariant == TableIInv /\ [Next]_vars => TableIInv'
BY TableTypeStep, TableStep, MatchStep DEF TableIInv

(* The inductive invariant: the table follows the configuration in force,  *)
(* and the jobs out and the entries that wait for them go together         *)
(* (rebuild_sources, maintain_sources, collect_work).                      *)
THEOREM TableInvariance == Spec => []TableIInv
BY TableInitInvariant, TableStepInvariant, PTL DEF Spec

(* Entries, jobs and results are what they are said to be, and an entry    *)
(* has a session when its security is NTS.                                 *)
THEOREM TableTypeCorrect == Spec => []TypeOK
<1>1. TableIInv => TypeOK
  BY DEF TableIInv
<1> QED  BY <1>1, TableInvariance, PTL

(* For any registries, leases and lists, and in any order of changes, the  *)
(* table lists what the configuration now in force asks for (reload,       *)
(* absorb_netd and the question it asks before it rebuilds).               *)
THEOREM TheTableFollows == Spec => []TableFollowsConfig
<1>1. TableIInv => TableFollowsConfig
  BY DEF TableIInv
<1> QED  BY <1>1, TableInvariance, PTL

(* While no rebuild displaced an entry with a job out, one job is out for  *)
(* the entries in flight and none for the others, and what an entry holds  *)
(* was fetched for its own name (submit, collect_work).                    *)
THEOREM NothingIsOutTwice == Spec => []WorkAccounted
<1>1. ASSUME TableIInv PROVE WorkAccounted
  <2> SUFFICES ASSUME ~moved, NEW i \in DOMAIN entries
               PROVE  /\ Cardinality(OutAt(i))
                            = IF entries[i].inFlight THEN 1 ELSE 0
                      /\ Own(entries[i])
    BY DEF WorkAccounted
  <2>1. ErrandsMatch /\ Own(entries[i]) /\ i # 0
    BY <1>1, MatchIs, EntryIs, TableOfType DEF TableIInv
  <2>2. CASE entries[i].inFlight
    <3>1. PICK p \in DOMAIN Errands : Errands[p].index = i
      BY <2>1, <2>2, MatchIs
    <3>2. OutAt(i) = {p}
      BY <2>1, <3>1, MatchIs DEF OutAt
    <3> QED  BY <2>1, <2>2, <3>2, FS_Singleton
  <2>3. CASE ~entries[i].inFlight
    <3>1. OutAt(i) = {}
      BY <2>1, <2>3, MatchIs DEF OutAt
    <3> QED  BY <2>1, <2>3, <3>1, FS_EmptySet
  <2> QED  BY <2>2, <2>3
<1>2. TableIInv => WorkAccounted
  BY <1>1
<1> QED  BY <1>2, TableInvariance, PTL

(* A source that stays listed keeps its keys and its job through any       *)
(* change of registry or leases (rebuild_sources).                         *)
THEOREM SessionsAreKept == Spec => KeepsSessions
<1>1. ASSUME TableIInv, [Next]_vars, ~UNCHANGED vars,
             config' # config \/ offered' # offered,
             NEW i \in DOMAIN entries, NEW k \in DOMAIN entries',
             entries[i].host = entries'[k].host,
             ListedOnce(entries, i), ListedOnce(entries', k)
      PROVE  /\ entries[i].session = entries'[k].session
             /\ entries[i].inFlight = entries'[k].inFlight
  <2>1. TypeOK /\ TableFollowsConfig
    BY <1>1 DEF TableIInv
  <2>2. CarriedOver(entries') \/ Untouched(entries')
    <3>1. \/ \E c \in Configs, again \in BOOLEAN : Reload(c, again)
          \/ \E offer \in Offers, other \in BOOLEAN : NetdReports(offer, other)
      BY <1>1 DEF Next, KeysRefused, GoneSilent, SubmitResolve, SubmitHandshake,
                  Submit, EnsureRoots, Work, CollectRoots, CollectResolved,
                  CollectHandshook, Collect, vars
    <3> QED  BY <2>1, <3>1, ReloadedTable, ReportedTable
  <2>3. CASE Untouched(entries')
    BY <1>1, <2>3 DEF Untouched, ListedOnce
  <2>4. CASE CarriedOver(entries')
    <3>1. IsOld(entries', k)
      <4>1. \A m \in DOMAIN entries' :
               m < k /\ entries'[m].host = entries'[k].host => FALSE
        <5>1. k \in Int
          BY <1>1, <2>1, TableStep, LenProperties DEF SoundTable
        <5> QED  BY <1>1, <5>1 DEF ListedOnce
      <4> QED  BY <1>1, <2>4, <4>1 DEF CarriedOver, IsNew
    <3> QED  BY <1>1, <3>1 DEF IsOld, ListedOnce
  <2> QED  BY <2>2, <2>3, <2>4
<1>2. TableIInv /\ [Next]_vars =>
         [config' # config \/ offered' # offered =>
            \A i \in DOMAIN entries, k \in DOMAIN entries' :
               /\ entries[i].host = entries'[k].host
               /\ ListedOnce(entries, i) /\ ListedOnce(entries', k)
               => /\ entries[i].session = entries'[k].session
                  /\ entries[i].inFlight = entries'[k].inFlight]_vars
  BY <1>1
<1> QED  BY <1>2, TableInvariance, PTL DEF Spec, KeepsSessions

-----------------------------------------------------------------------------
(* Both, side by side, each of them as it is alone: counters and reach in  *)
(* their ranges, entries, jobs and results what they are said to be        *)
(* (Source's handlers, and the table's with worker.rs).                    *)
THEOREM SourcesTypeCorrect == MCSpec => []SourcesTypeOK
<1>1. MCInit => SourceIInv /\ TableIInv
  BY InitInvariant, TableInitInvariant DEF MCInit, NoTable, NoSource
<1>2. SourceIInv /\ TableIInv /\ [MCNext]_mcVars => SourceIInv' /\ TableIInv'
  <2> SUFFICES ASSUME SourceIInv, TableIInv, [MCNext]_mcVars
               PROVE  SourceIInv' /\ TableIInv'
    OBVIOUS
  <2>1. [SourceNext]_sourceVars /\ [Next]_vars
    BY DEF MCNext, OnSource, OnTable, mcVars
  <2> QED  BY <2>1, StepInvariant, TableStepInvariant
<1>3. SourceIInv /\ TableIInv => SourcesTypeOK
  BY DEF SourceIInv, TableIInv, SourcesTypeOK
<1> QED  BY <1>1, <1>2, <1>3, PTL DEF MCSpec
=============================================================================
