------------------------------- MODULE Source -------------------------------
(***************************************************************************)
(* One polled server: timed/src/source.rs, with the handlers of the main   *)
(* loop that drive it (poll_due, send_poll, expire_pending, take_reply,    *)
(* and the parts of decide, collect_work, absorb_netd and service_control  *)
(* that reach it).                                                         *)
(*                                                                         *)
(* The network may lose, delay, duplicate and reorder: a request that was  *)
(* sent is answered at any later moment, any number of times, with any     *)
(* content.  A transmit timestamp is a nonce; nonces are reused, so        *)
(* a reply lives for at most Late later requests.                          *)
(*                                                                         *)
(* Times are relative: due is how long until next_poll, age how long ago   *)
(* the outstanding request was sent.  Replies whose bytes do not decode,   *)
(* whose mode is wrong or whose tag does not verify change nothing but the *)
(* note, and are the stuttering steps.  The contents of the filter are     *)
(* reduced to whether it holds anything.                                   *)
(*                                                                         *)
(* lost, gap, spur and the marks "answered" and "lost" are history.        *)
(***************************************************************************)
EXTENDS Integers

CONSTANTS
    MinPoll, MaxPoll,   \* exponents, after the clamping of Source::new
    Burst, BurstGap,    \* BURST, and the two seconds between its requests
    ReplyTimeout,
    ReachBits,          \* 8: the width of the reach register
    CookieTarget,
    Late,               \* bound: how many requests a reply may outlive
    Kinds               \* what a server may answer

ASSUME SourceConstants ==
    /\ MinPoll \in Nat /\ MaxPoll \in Nat /\ MinPoll <= MaxPoll
    /\ Burst \in Nat \ {0} /\ BurstGap \in Nat \ {0}
    /\ ReplyTimeout \in Nat
    /\ BurstGap <= 2^MinPoll /\ ReplyTimeout < 2^MinPoll
    /\ ReachBits \in Nat \ {0} /\ CookieTarget \in Nat \ {0}
    /\ Late \in Nat \ {0}
    /\ Kinds \subseteq {"good", "unsynchronised", "unusable",
                        "RATE", "NTSN", "DENY"}

(* Arithmetic, for the intervals between the shortest and the longest.     *)
ASSUME PowersOfTwo ==
    \A p \in MinPoll..MaxPoll :
       2^p \in Nat /\ 2^MinPoll <= 2^p /\ 2^p <= 2^MaxPoll

VARIABLES
    security,    \* "nts", "pending" (NtsPending) or "plain"
    cookies,     \* how many are held
    nonce,       \* of the last request built
    pending,     \* the outstanding request
    requests,    \* the nonces: what became of the request that used each
    due, poll, burst, rateLimited,
    reach,       \* the bits that are set, the last poll's being 0
    measured,
    resolved,    \* the entry's addresses are not empty
    lost, gap, spur

keys == <<security, cookies>>
exchange == <<nonce, pending, requests>>
pacing == <<due, poll, burst, rateLimited>>
history == <<lost, gap, spur>>
sourceVars == <<keys, exchange, pacing, reach, measured, resolved, history>>

Nonces == 0..Late
NoRequest == [nonce |-> -1]

-----------------------------------------------------------------------------
(* Operators *)

Smaller(a, b) == IF a < b THEN a ELSE b
Larger(a, b) == IF a > b THEN a ELSE b

(* schedule: the interval, spread by up to a quarter.                      *)
Scheduled(p) == 2^p .. (2^p + 2^p \div 4)

(* schedule_burst, and the schedule take_reply adds at the end of a burst. *)
Unsaturated == burst - 1
BurstLeft == Larger(burst - 1, 0)
AfterReply == IF BurstLeft = 0 THEN Scheduled(poll) ELSE {BurstGap}

(* The shift register, and what it makes of a poll that was lost.          *)
ReachAfter(r, answered) ==
    {b \in 1..ReachBits - 1 : b - 1 \in r} \cup (IF answered THEN {0} ELSE {})

(* adapt_poll, for either judgement of the noise.                          *)
ForgetsRate == {Larger(poll - 1, MinPoll), Smaller(poll + 1, MaxPoll)}
Adapted == IF rateLimited THEN {poll}
           ELSE {Larger(poll - 1, MinPoll), Smaller(poll + 1, MaxPoll)}

-----------------------------------------------------------------------------
SourceInit ==
    /\ security \in {"pending", "plain"}
    /\ cookies = 0
    /\ nonce = 0 /\ pending = NoRequest
    /\ requests = [n \in Nonces |-> "never"]
    /\ due = 0 /\ poll = MinPoll /\ burst = Burst /\ rateLimited = FALSE
    /\ reach = {} /\ measured = FALSE
    /\ resolved = FALSE
    /\ lost = ReachBits /\ gap = 2^MaxPoll /\ spur = "none"

(* Time passes.  The loop may be late for anything it has to do.           *)
Tick ==
    /\ due' = Larger(due - 1, 0)
    /\ pending' = IF pending = NoRequest THEN NoRequest
                  ELSE [pending EXCEPT
                           !.age = Smaller(@ + 1, ReplyTimeout + 1)]
    /\ gap' = Smaller(gap + 1, 2^MaxPoll)
    /\ UNCHANGED <<keys, nonce, requests, poll, burst, rateLimited, reach,
                   measured, resolved, lost, spur>>

-----------------------------------------------------------------------------
(* Names and keys, from the worker. *)

Resolved ==
    /\ ~resolved
    /\ resolved' = TRUE
    /\ UNCHANGED <<keys, exchange, pacing, reach, measured, history>>

(* netd reports different address families: every name is resolved again.  *)
FamiliesChanged ==
    /\ resolved
    /\ resolved' = FALSE
    /\ UNCHANGED <<keys, exchange, pacing, reach, measured, history>>

(* A handshake, first or renewed: rekey_after may pass at any moment.  The *)
(* outstanding request is left as it is.                                   *)
Handshook(given) ==
    /\ security # "plain"
    /\ security' = "nts"
    /\ cookies' = given
    /\ resolved' = TRUE
    /\ due' = 0
    /\ spur' = "keys"
    /\ UNCHANGED <<exchange, poll, burst, rateLimited, reach, measured, lost,
                   gap>>

-----------------------------------------------------------------------------
(* Sending *)

CanPoll == security = "plain" \/ (security = "nts" /\ cookies > 0)

PollDue ==
    /\ resolved
    /\ CanPoll
    /\ pending = NoRequest
    /\ due = 0

NextNonce == (nonce + 1) % (Late + 1)

(* prepare: a cookie is spent whatever becomes of the request.             *)
Prepare ==
    /\ PollDue
    /\ nonce' = NextNonce
    /\ cookies' = IF security = "nts" THEN cookies - 1 ELSE cookies
    /\ UNCHANGED <<security, poll, burst, rateLimited, reach, measured,
                   resolved, lost>>

Outstanding == [nonce |-> NextNonce, nts |-> security = "nts", age |-> 0]

SendPoll ==
    /\ Prepare
    /\ pending' = Outstanding
    /\ requests' = [requests EXCEPT ![NextNonce] = "asked"]
    /\ gap' = 0 /\ spur' = "none"
    /\ UNCHANGED due

(* No socket for the family: the request stays outstanding all the same.   *)
NoSocket ==
    /\ Prepare
    /\ pending' = Outstanding
    /\ requests' = [requests EXCEPT ![NextNonce] = "never"]
    /\ due' \in Scheduled(poll)
    /\ UNCHANGED <<gap, spur>>

SendFails ==
    /\ Prepare
    /\ pending' = NoRequest
    /\ requests' = [requests EXCEPT ![NextNonce] = "never"]
    /\ due' \in Scheduled(poll)
    /\ UNCHANGED <<gap, spur>>

(* expire_pending and record_loss, with the addresses given up at zero.    *)
TimedOut == pending # NoRequest /\ pending.age > ReplyTimeout

StillPending == pending
AfterLoss == NoRequest
FilterKept == measured
FilterAfterLoss == measured /\ reach' # {}

ExpirePending ==
    /\ TimedOut
    /\ pending' = AfterLoss
    /\ reach' = ReachAfter(reach, FALSE)
    /\ measured' = FilterAfterLoss
    /\ resolved' = (resolved /\ reach' # {})
    /\ due' \in Scheduled(poll)
    /\ lost' = Smaller(lost + 1, ReachBits)
    /\ requests' = [requests EXCEPT ![pending.nonce] = "lost"]
    /\ UNCHANGED <<keys, nonce, poll, burst, rateLimited, gap, spur>>

-----------------------------------------------------------------------------
(* A reply to the request that used nonce n.  It is taken only when it     *)
(* echoes the outstanding request, and of an NTS one only when its tag     *)
(* verifies; it then brings cookies, before anything else is looked at.    *)

EchoesAny(n) == pending # NoRequest
Echoes(n) == pending # NoRequest /\ pending.nonce = n

Opened(n, kind, authentic, given) ==
    /\ kind \in Kinds
    /\ requests[n] # "never"
    /\ Echoes(n)
    /\ pending.nts => authentic
    /\ cookies' = IF pending.nts /\ security = "nts"
                  THEN Smaller(cookies + given, CookieTarget) ELSE cookies
    /\ UNCHANGED <<nonce, resolved, gap>>

Answered(n) ==
    /\ pending' = NoRequest
    /\ requests' = [requests EXCEPT ![n] = "answered"]

RecordReply ==
    /\ reach' = ReachAfter(reach, TRUE)
    /\ lost' = 0

(* accept returns a sample.  The selection it sets off may adapt the poll  *)
(* interval, and may step the clock, which empties every filter.           *)
TakeSample(n, authentic, given) ==
    /\ Opened(n, "good", authentic, given)
    /\ Answered(n)
    /\ RecordReply
    /\ burst' = BurstLeft
    /\ due' \in AfterReply
    /\ poll' \in Adapted \cup {poll}
    /\ measured' \in BOOLEAN
    /\ UNCHANGED <<security, rateLimited, spur>>

(* A sample reduce() refuses: the request stays outstanding.               *)
TakeUnusable(n, authentic, given) ==
    /\ Opened(n, "unusable", authentic, given)
    /\ UNCHANGED <<security, pending, requests, pacing, reach, measured, lost,
                   spur>>

(* The server says it is not synchronised: reachable, and not rescheduled. *)
TakeUnsynchronised(n, authentic, given) ==
    /\ Opened(n, "unsynchronised", authentic, given)
    /\ Answered(n)
    /\ RecordReply
    /\ spur' = "unsynchronised"
    /\ UNCHANGED <<security, pacing, measured>>

(* Kisses of death.                                                        *)
BackOff(n, authentic, given) ==
    /\ Opened(n, "RATE", authentic, given)
    /\ Answered(n)
    /\ rateLimited' = TRUE
    /\ poll' = MaxPoll
    /\ due' \in Scheduled(MaxPoll)
    /\ UNCHANGED <<security, burst, reach, measured, lost, spur>>

CookieRefused(n, authentic, given) ==
    /\ Opened(n, "NTSN", authentic, given)
    /\ Answered(n)
    /\ security' = "pending"
    /\ UNCHANGED <<pacing, reach, measured, lost, spur>>

Denied(n, authentic, given) ==
    /\ Opened(n, "DENY", authentic, given)
    /\ Answered(n)
    /\ poll' = MaxPoll
    /\ due' \in Scheduled(MaxPoll)
    /\ UNCHANGED <<security, burst, rateLimited, reach, measured, lost, spur>>

-----------------------------------------------------------------------------
(* A selection another source's reply set off.                             *)
Decide ==
    /\ poll' \in Adapted
    /\ measured' \in {measured, FALSE}
    /\ UNCHANGED <<keys, exchange, due, burst, rateLimited, reach, resolved,
                   history>>

(* An operator's reload: resolve again and burst again.                    *)
ReloadSource ==
    /\ resolved' = FALSE
    /\ burst' = Burst
    /\ due' = 0
    /\ spur' = "reload"
    /\ UNCHANGED <<keys, exchange, poll, rateLimited, reach, measured, lost,
                   gap>>

SourceNext ==
    \/ Tick
    \/ Resolved
    \/ FamiliesChanged
    \/ \E given \in 1..CookieTarget : Handshook(given)
    \/ SendPoll
    \/ NoSocket
    \/ SendFails
    \/ ExpirePending
    \/ Decide
    \/ ReloadSource
    \/ \E n \in Nonces, authentic \in BOOLEAN, given \in 0..CookieTarget :
          \/ TakeSample(n, authentic, given)
          \/ TakeUnusable(n, authentic, given)
          \/ TakeUnsynchronised(n, authentic, given)
          \/ BackOff(n, authentic, given)
          \/ CookieRefused(n, authentic, given)
          \/ Denied(n, authentic, given)

(* Time passes, the loop does what it finds due, and the worker's resolver *)
(* and the key server answer in the end.  Polling is strongly fair: an     *)
(* address taken away has to be looked up again, and in the turn that      *)
(* takes in the answer (collect_work) poll_due comes after it, before      *)
(* anything can take it away again.  Nothing is assumed of the NTP server  *)
(* or of the sockets: any way poll_due ends counts.                        *)
SourceFairness ==
    /\ WF_sourceVars(Tick)
    /\ SF_sourceVars(SendPoll \/ NoSocket \/ SendFails)
    /\ WF_sourceVars(ExpirePending)
    /\ WF_sourceVars(Resolved)
    /\ WF_sourceVars(\E given \in 1..CookieTarget : Handshook(given))

SourceSpec == SourceInit /\ [][SourceNext]_sourceVars
FairSourceSpec == SourceSpec /\ SourceFairness

-----------------------------------------------------------------------------
(* Properties *)

SourceTypeOK ==
    /\ security \in {"nts", "pending", "plain"}
    /\ cookies \in 0..CookieTarget
    /\ nonce \in Nonces
    /\ pending \in [nonce : Nonces, nts : BOOLEAN, age : 0..ReplyTimeout + 1]
                   \cup {NoRequest}
    /\ requests \in [Nonces -> {"never", "asked", "answered", "lost"}]
    /\ due \in 0..(2^MaxPoll + 2^MaxPoll \div 4)
    /\ poll \in MinPoll..MaxPoll
    /\ burst \in 0..Burst
    /\ rateLimited \in BOOLEAN
    /\ reach \subseteq 0..ReachBits - 1
    /\ measured \in BOOLEAN /\ resolved \in BOOLEAN
    /\ lost \in 0..ReachBits /\ gap \in 0..2^MaxPoll
    /\ spur \in {"none", "keys", "reload", "unsynchronised"}

(* A source that has gone silent does not go on voting: it is unreachable, *)
(* and its filter empty, exactly when ReachBits polls in a row were lost   *)
(* or it never answered, whatever failed sends, kisses, duplicates and     *)
(* late replies came between.                                              *)
SilentDoesNotVote ==
    /\ reach = {} <=> lost = ReachBits
    /\ measured => lost < ReachBits

(* Every poll ends once, answered or lost: neither a duplicated reply nor  *)
(* a late one to an earlier request is taken for another, and no poll is   *)
(* counted both ways.  An entry changes again only when its nonce is used  *)
(* again.                                                                  *)
EndsOnce ==
    [][\A n \in Nonces :
          requests[n] \in {"answered", "lost"} /\ requests'[n] # requests[n]
          => n = nonce' /\ nonce' # nonce]_sourceVars

(* What the pace of the polling promises the server: after a burst at      *)
(* least the shortest interval between two requests, and within one at     *)
(* least BurstGap; once it has asked us to slow down, the longest.         *)
OwedGap == IF burst > 0 THEN BurstGap
           ELSE IF rateLimited THEN 2^MaxPoll ELSE 2^MinPoll

(* That pace is kept, whatever the order of losses, refused measurements,  *)
(* kisses and failed sends, save where a reload or new keys ask at once    *)
(* and after an unsynchronised reply.                                      *)
Sent == requests'[nonce'] = "asked" /\ nonce' # nonce
Paced == [][Sent /\ spur = "none" => gap >= OwedGap]_sourceVars

(* The inductive invariant.  The lowest bit that is set is of the last     *)
(* poll answered; the outstanding request is the last one built and has    *)
(* not come to an end; and what is still to wait makes up for what is owed *)
(* since the last request, unless that request is out, or keys are         *)
(* awaited, whose coming asks at once.                                     *)
ReachTellsLost ==
    IF lost = ReachBits THEN reach = {}
    ELSE lost \in reach /\ \A b \in reach : lost <= b
PendingIsOut ==
    pending # NoRequest =>
        pending.nonce = nonce /\ requests[nonce] \in {"never", "asked"}
OwedIsAwaited ==
    /\ rateLimited => poll = MaxPoll
    /\ pending = NoRequest /\ spur = "none" /\ security # "pending"
          => gap + due >= OwedGap
SourceIInv ==
    /\ SourceTypeOK /\ SilentDoesNotVote
    /\ ReachTellsLost /\ PendingIsOut /\ OwedIsAwaited

(* Whatever the network loses and the server refuses, there is always      *)
(* another request: an outstanding one is given up, keys that ran out or   *)
(* were refused are replaced, addresses found again.                       *)
KeepsPolling == \A n \in Nonces : []<>(nonce = n)

(* source.rs says of its slowest registry setting "Never poll faster than  *)
(* this ... not be able to turn this machine into a nuisance".             *)
PacedForAll ==
    [][Sent /\ spur \in {"none", "unsynchronised"} => gap >= BurstGap]_sourceVars

(* source.rs says of a RATE kiss "back off to the maximum interval and     *)
(* stay there": a server that asked for it is asked no faster again.       *)
StaysBackedOff ==
    [][Sent /\ spur = "none" /\ rateLimited => gap >= 2^MaxPoll]_sourceVars
=============================================================================
