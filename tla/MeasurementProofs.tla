------------------------- MODULE MeasurementProofs -------------------------
(***************************************************************************)
(* Theorems about Measurement for words of any width, any epoch and a      *)
(* clock out by anything up to half an era: that its register is the one   *)
(* of Filter, and that a sample bounds the error of the clock, or is the   *)
(* largest offset there is and short of the error.                         *)
(***************************************************************************)
EXTENDS Before2038, FilterProofs

(* What a server may claim of the outstanding request.                     *)
Moments == out.sent - MaxWait..out.sent + MaxWait + Drain

(* The constants, as the provers like them.                                *)
LEMMA Sizes ==
  /\ Half \in Nat /\ Words = 2 * Half /\ Epoch \in Nat /\ Epoch < Words
  /\ MinDelay \in Nat /\ MaxDelay \in Nat /\ MinDelay <= MaxDelay
  /\ MinDelay..MaxDelay \subseteq Delays
  /\ MaxTime \in Nat /\ MaxTime < Half
  /\ MaxErr \in Nat /\ MaxWait \in Nat /\ Drain \in Nat
  /\ MaxErr + MaxWait <= Epoch /\ MaxErr + 2 * MaxWait + Drain < Half
  BY MeasurementConstants, WithinHalfAnEra, FilterConstants

(* The errors a clock may have are within the bound.                       *)
LEMMA ErrorsBounded ==
  \A e \in Errors : e \in Int /\ -MaxErr <= e /\ e <= MaxErr
  BY Sizes, MeasurementConstants

(* The difference of two words is the difference of the times they stand   *)
(* for, whether or not the era ended between them, as long as these are    *)
(* less than half an era apart.                                            *)
LEMMA WordDifference ==
  ASSUME NEW u \in Int, NEW v \in Int, u - v < Half, v - u < Half,
         -Epoch <= u, -Epoch <= v, u < Words, v < Words
  PROVE  /\ Word(u) \in 0..Words - 1
         /\ WrappingSub(Word(u), Word(v)) = u - v
<1>1. Half \in Nat /\ Words = 2 * Half /\ Epoch \in Nat /\ Epoch < Words
  BY Sizes
<1> HIDE DEF Half
<1>2. /\ u \in Int /\ v \in Int /\ u - v < Half /\ v - u < Half
      /\ u + Epoch >= 0 /\ v + Epoch >= 0
      /\ u + Epoch < 2 * Words /\ v + Epoch < 2 * Words
  BY <1>1
<1>3. Word(u) \in 0..Words - 1 /\ Word(v) \in 0..Words - 1
  BY <1>1, <1>2 DEF Word
<1>4. Word(u) - Word(v) \in {u - v, u - v + Words, u - v - Words}
  BY <1>1, <1>2 DEF Word
<1> DEFINE p == Word(u)
           q == Word(v)
<1>5. p \in Int /\ q \in Int /\ p - q \in {u - v, u - v + Words, u - v - Words}
  BY <1>1, <1>3, <1>4
<1> HIDE DEF p, q
<1>6. WrappingSub(p, q) = u - v
  <2>1. CASE p - q = u - v
    BY <1>1, <1>2, <1>5, <2>1 DEF WrappingSub
  <2>2. CASE p - q = u - v + Words
    BY <1>1, <1>2, <1>5, <2>2 DEF WrappingSub
  <2>3. CASE p - q = u - v - Words
    BY <1>1, <1>2, <1>5, <2>3 DEF WrappingSub
  <2> QED  BY <1>5, <2>1, <2>2, <2>3
<1> QED  BY <1>3, <1>6 DEF p, q

(* What the code computes of a reply, in terms of the times it stands for. *)
LEMMA ReplyMeans ==
  ASSUME MeasureIInv, NEW gap \in Gaps,
         NEW t2 \in Moments, NEW t3 \in Moments, Replied(gap, t2, t3)
  PROVE  LET x == Exchange(t2, t3, wall')
             t1 == out.sent - out.err
         IN  /\ wall' \in Nat /\ wall' = wall + gap /\ wall' <= MaxTime
             /\ t1 \in 0..MaxTime /\ out.err \in -MaxErr..MaxErr /\ out.sent \in Int
             /\ RoundTrip(x) = wall' - t1
             /\ ServerHeld(x) = t3 - t2
             /\ WrappingSub(x.receive, x.origin) = t2 - t1
             /\ WrappingSub(x.transmit, x.destination) = t3 - wall'
             /\ At(x) = wall'
<1> DEFINE x == Exchange(t2, t3, wall')
           t1 == out.sent - out.err
<1>1. gap \in Nat  BY FilterConstants
<1>2. /\ out \in Requests /\ out.err \in -MaxErr..MaxErr
      /\ t1 \in 0..MaxTime /\ out.origin = Word(t1)
  BY DEF Replied, MeasureIInv, MeasureTypeOK, OutTrue
<1>3. wall' \in Nat /\ wall' = wall + gap /\ wall' <= MaxTime
  BY <1>1 DEF Replied, Later, MeasureIInv, IInv, TypeOK
<1>4. /\ x.origin = Word(t1) /\ x.receive = Word(t2)
      /\ x.transmit = Word(t3) /\ x.destination = Word(wall')
  BY <1>2 DEF Exchange
<1>5. /\ out.sent \in Int /\ t1 \in Int /\ err \in Int
      /\ -MaxErr <= err /\ err <= MaxErr
  BY <1>2, ErrorsBounded DEF Requests, MeasureIInv, MeasureTypeOK
<1>6. /\ t2 \in Int /\ t3 \in Int
      /\ out.sent - MaxWait <= t3 /\ t3 <= out.sent + MaxWait + Drain
      /\ out.sent <= t2 /\ t2 <= out.sent + MaxWait + Drain
      /\ t3 <= wall' + err + Drain /\ wall' + err <= out.sent + MaxWait
  BY <1>5, Sizes DEF Moments, Replied
<1>7. /\ out.sent = t1 + out.err /\ out.err \in Int
      /\ -MaxErr <= out.err /\ out.err <= MaxErr
  BY <1>2, <1>5, Sizes
<1>8. /\ t1 >= 0 /\ t1 < Half /\ wall' >= 0 /\ wall' < Half /\ wall' \in Int
  BY <1>2, <1>3, Sizes
<1> HIDE DEF x, t1
<1>9. PICK now : now = wall'  OBVIOUS
<1>10. /\ now \in Int /\ now >= 0 /\ now < Half
       /\ t3 <= now + err + Drain /\ now + err <= out.sent + MaxWait
  BY <1>6, <1>8, <1>9
(* The times are less than half an era apart, each from each.              *)
<1>11. /\ -Epoch <= t1 /\ t1 < Words /\ -Epoch <= t2 /\ t2 < Words
       /\ -Epoch <= t3 /\ t3 < Words /\ -Epoch <= now /\ now < Words
       /\ t2 - t1 < Half /\ t1 - t2 < Half
       /\ t3 - now < Half /\ now - t3 < Half
       /\ t3 - t2 < Half /\ t2 - t3 < Half
       /\ now - t1 < Half /\ t1 - now < Half
  <2> HIDE DEF Half
  <2>1. -Epoch <= t1 /\ t1 < Words /\ -Epoch <= now /\ now < Words
    BY <1>5, <1>8, <1>10, Sizes
  <2>2. -Epoch <= t2 /\ t2 < Words /\ -Epoch <= t3 /\ t3 < Words
    BY <1>5, <1>6, <1>7, <1>8, Sizes
  <2>3. t2 - t1 < Half /\ t1 - t2 < Half
    BY <1>5, <1>6, <1>7, Sizes
  <2>4. t3 - now < Half /\ now - t3 < Half
    BY <1>5, <1>6, <1>10, Sizes
  <2>5. t3 - t2 < Half /\ t2 - t3 < Half
    BY <1>5, <1>6, Sizes
  <2>6. now - t1 < Half /\ t1 - now < Half
    BY <1>5, <1>8, <1>10, Sizes
  <2> QED  BY <2>1, <2>2, <2>3, <2>4, <2>5, <2>6
<1>12. RoundTrip(x) = wall' - t1
  BY <1>4, <1>5, <1>8, <1>9, <1>11, WordDifference DEF RoundTrip
<1>13. ServerHeld(x) = t3 - t2
  BY <1>4, <1>6, <1>9, <1>11, WordDifference DEF ServerHeld
<1>14. /\ WrappingSub(x.receive, x.origin) = t2 - t1
       /\ WrappingSub(x.transmit, x.destination) = t3 - wall'
  BY <1>4, <1>5, <1>6, <1>8, <1>9, <1>11, WordDifference
<1>15. At(x) = wall'
  <2>1. WrappingSub(Word(t1), Word(0)) = t1 - 0
    <3>1. t1 - 0 < Half /\ 0 - t1 < Half /\ -Epoch <= 0 /\ 0 < Words
      <4> HIDE DEF Half
      <4> QED  BY <1>5, <1>8, Sizes
    <3> QED  BY <1>5, <1>11, <3>1, WordDifference
  <2>2. ToUnixNear(x.origin, 0) = 0 + (t1 - 0)
    BY <2>1, <1>4 DEF ToUnixNear
  <2>3. WrappingSub(x.destination, x.origin) = wall' - t1
    BY <1>12 DEF RoundTrip
  <2>4. t1 \in Int  BY <1>2 DEF t1
  <2> QED  BY <2>2, <2>3, <2>4, <1>3 DEF At
<1>16. out.sent \in Int /\ t1 \in 0..MaxTime  BY <1>2 DEF Requests, t1
<1> QED  BY <1>2, <1>3, <1>12, <1>13, <1>14, <1>15, <1>16 DEF x, t1

(* A sample taken is one Filter knows, dated by the clock as it is now.    *)
LEMMA SampleTaken ==
  ASSUME MeasureIInv, NEW gap \in Gaps,
         NEW t2 \in Moments, NEW t3 \in Moments, Replied(gap, t2, t3),
         Usable(Exchange(t2, t3, wall'))
  PROVE  LET x == Exchange(t2, t3, wall')
         IN  /\ Delay(x) \in Delays /\ Delay(x) \in Nat
             /\ Delay(x) >= (wall' - (out.sent - out.err)) - (t3 - t2)
             /\ TwiceOffset(x) \in Int
             /\ OneClock => \/ Within(2 * err - TwiceOffset(x),
                                      Delay(x) + 2 * Drain)
                            \/ FallsShort(TwiceOffset(x))
<1>0. PICK now : now = wall'  OBVIOUS
<1> DEFINE x == Exchange(t2, t3, now)
           t1 == out.sent - out.err
           d == RoundTrip(x) - ServerHeld(x)
           sum == (t2 - t1) + (t3 - now)
<1>1. /\ Half \in Nat /\ MinDelay \in Nat /\ MaxDelay \in Nat
      /\ MinDelay <= MaxDelay /\ Drain \in Nat /\ MaxErr \in Nat
      /\ MinDelay..MaxDelay \subseteq Delays
      /\ MaxTime \in Nat /\ MaxTime < Half
      /\ err \in Int
  BY Sizes, ErrorsBounded DEF MeasureIInv, MeasureTypeOK
<1>2. /\ now \in Nat /\ now <= MaxTime
      /\ t1 \in Int /\ t1 >= 0 /\ out.err \in -MaxErr..MaxErr
      /\ out.sent \in Int
      /\ RoundTrip(x) = now - t1 /\ ServerHeld(x) = t3 - t2
      /\ WrappingSub(x.receive, x.origin) = t2 - t1
      /\ WrappingSub(x.transmit, x.destination) = t3 - now
  BY <1>0, ReplyMeans, FilterConstants
<1>3. t2 \in Int /\ t3 \in Int /\ out.sent <= t2 /\ t3 <= now + err + Drain
  BY <1>0, <1>2, Sizes DEF Moments, Replied
<1>4. TwiceOffset(x) = Saturated(sum)
  BY <1>2 DEF TwiceOffset
<1>5. Delay(x) <= MaxDelay /\ t3 - t2 >= 0
  BY <1>0, <1>2 DEF Usable
<1>6. d = (now - t1) - (t3 - t2) /\ d \in Int  BY <1>2, <1>3
<1>7. Delay(x) = IF Saturated(d) < MinDelay THEN MinDelay ELSE Saturated(d)
  BY DEF Delay
<1>12. now - t1 <= MaxTime /\ now - t1 \in Int
  <2>1. now \in Int /\ t1 \in Int /\ t1 >= 0 /\ now <= MaxTime
    BY <1>2
  <2>2. MaxTime \in Int  BY FilterConstants
  <2> HIDE DEF t1
  <2> QED  BY <2>1, <2>2
<1> HIDE DEF Half, x, d
(* The delay is not saturated: the round trip is less than half an era.    *)
<1>8. /\ Delay(x) \in Nat /\ Delay(x) \in MinDelay..MaxDelay
      /\ Delay(x) >= d
  <2>1. d < Half
    <3>1. t3 - t2 >= 0 /\ t3 - t2 \in Int  BY <1>3, <1>5
    <3>2. d = (now - t1) - (t3 - t2)  BY <1>6
    <3> HIDE DEF t1
    <3> QED  BY <1>1, <1>12, <3>1, <3>2
  <2>2. Saturated(d) \in Int /\ Saturated(d) >= d
    BY <2>1, <1>1, <1>6 DEF Saturated
  <2> QED  BY <1>1, <1>5, <1>6, <1>7, <2>2
<1>9. TwiceOffset(x) \in Int  BY <1>1, <1>2, <1>3, <1>4 DEF Saturated
(* Of a clean exchange, the way there took d1, the way back d2, and the    *)
(* clock was set forward by the rest of the delay.                         *)
<1>10. ASSUME OneClock
       PROVE  \/ Within(2 * err - TwiceOffset(x), Delay(x) + 2 * Drain)
              \/ FallsShort(TwiceOffset(x))
  <2> DEFINE d1 == t2 - out.sent
             d2 == now + err - t3
             s == out.err - err
  <2>1. /\ d1 \in Int /\ d2 \in Int /\ s \in Int
        /\ d1 >= 0 /\ d2 >= -Drain /\ s >= 0
    BY <1>1, <1>2, <1>3, <1>10 DEF OneClock
  <2>2. sum = d1 - d2 + out.err + err  BY <1>1, <1>2, <1>3
  <2>3. d = d1 + d2 + s  BY <1>1, <1>2, <1>3, <1>6
  <2>4. 2 * err - sum = d2 - d1 - s  BY <1>1, <1>2, <2>1, <2>2
  <2> HIDE DEF d1, d2, s, sum
  <2>5. sum \in Int  BY <1>1, <1>2, <2>1, <2>2
  <2>6. /\ 2 * err - sum <= d1 + d2 + s + 2 * Drain
        /\ sum - 2 * err <= d1 + d2 + s + 2 * Drain
    BY <1>1, <2>1, <2>4, <2>5
  <2>7. Delay(x) >= d1 + d2 + s /\ Delay(x) \in Nat  BY <1>8, <2>3
  <2> DEFINE bound == Delay(x) + 2 * Drain
             twice == TwiceOffset(x)
  <2>8. /\ bound \in Nat
        /\ 2 * err - sum <= bound /\ sum - 2 * err <= bound
    BY <1>1, <2>1, <2>5, <2>6, <2>7
  <2>9. twice = Saturated(sum)  BY <1>4
  <2> HIDE DEF bound, twice
  <2>10. Within(2 * err - twice, bound) \/ FallsShort(twice)
    <3>1. CASE sum >= Half
      <4>1. twice = Half - 1  BY <2>9, <3>1 DEF Saturated
      <4> QED  BY <1>1, <2>5, <2>8, <3>1, <4>1 DEF Within, FallsShort
    <3>2. CASE sum < -Half
      <4>1. twice = -Half  BY <1>1, <2>5, <2>9, <3>2 DEF Saturated
      <4> QED  BY <1>1, <2>5, <2>8, <3>2, <4>1 DEF Within, FallsShort
    <3>3. CASE ~(sum >= Half) /\ ~(sum < -Half)
      <4>1. twice = sum  BY <2>9, <3>3 DEF Saturated
      <4> QED  BY <1>1, <2>5, <2>8, <4>1 DEF Within
    <3> QED  BY <3>1, <3>2, <3>3
  <2> QED  BY <2>10 DEF bound, twice
<1>11. Delay(x) >= (now - t1) - (t3 - t2)  BY <1>6, <1>8
<1> QED  BY <1>1, <1>8, <1>9, <1>10, <1>11, <1>0 DEF x

-----------------------------------------------------------------------------
(* Refinement *)

LEMMA MomentsQuantified ==
  out.sent - MaxWait..out.sent + MaxWait + Drain = Moments
BY DEF Moments

(* Every step of the exchange is a step of the register, or none.          *)
LEMMA StepIsFilterStep ==
  ASSUME MeasureIInv, [MeasureNext]_measureVars
  PROVE  [Next]_vars
<1>1. ASSUME NEW gap \in Gaps, NEW t2 \in Moments, NEW t3 \in Moments,
             TakeFresh(gap, t2, t3) \/ TakeStale(gap, t2, t3)
      PROVE  Next
  <2> DEFINE x == Exchange(t2, t3, wall')
  <2>1. Replied(gap, t2, t3) /\ Usable(x)
    BY <1>1 DEF TakeFresh, TakeStale, Taking
  <2>2. Later(gap)  BY <2>1 DEF Replied
  <2>3. Delay(x) \in Delays  BY <2>1, SampleTaken
  <2>4. At(x) = wall + gap  BY <2>1, ReplyMeans
  <2>5. Report(Delay(x), At(x)) \/ Withhold(Delay(x), At(x))
    BY <1>1 DEF TakeFresh, TakeStale
  <2> HIDE DEF x
  <2> QED  BY <2>2, <2>3, <2>4, <2>5 DEF Next
<1>2. ASSUME NEW gap \in Gaps, Elapse(gap) PROVE Next
  BY <1>2 DEF Next
<1>3. ASSUME NEW by \in Steps, Reset(by) PROVE Next
  BY <1>3 DEF Next
<1>4. 0 \in Steps  BY MeasurementConstants
<1> QED
  BY <1>1, <1>2, <1>3, <1>4, MomentsQuantified
  DEF MeasureNext, Ask, Refuse, Quiet, Lose, LoseEighth, Step, measureVars, vars

-----------------------------------------------------------------------------
(* The invariant. *)

OffsetsOf == [twice : Int, clean : BOOLEAN]

(* Nothing is outstanding at first and nothing held.                       *)
LEMMA MeasureInitIInv == MeasureInit => MeasureIInv
<1> SUFFICES ASSUME MeasureInit PROVE MeasureIInv
  OBVIOUS
<1>1. IInv  BY InitIInv DEF MeasureInit
<1>2. stages = << >> /\ offsets = << >> /\ id = 0 /\ wall = 0 /\ out = NoRequest
  BY DEF MeasureInit, Init
<1>3. MeasureTypeOK
  BY <1>1, <1>2 DEF MeasureInit, MeasureTypeOK, IInv
<1>4. OutTrue /\ WithinHalfDelay  BY <1>2 DEF OutTrue, WithinHalfDelay
<1> QED  BY <1>1, <1>2, <1>3, <1>4, FilterConstants DEF MeasureIInv

(* A sample taken bounds the error, and those held already go on doing so. *)
LEMMA TakingKeeps ==
  ASSUME MeasureIInv, NEW gap \in Gaps,
         NEW t2 \in Moments, NEW t3 \in Moments, Replied(gap, t2, t3),
         LET x == Exchange(t2, t3, wall')
         IN  Taking(x) /\ stages' = Taken(Delay(x), At(x)),
         IInv'
  PROVE  MeasureIInv'
<1> DEFINE x == Exchange(t2, t3, wall')
           o == [twice |-> TwiceOffset(x), clean |-> OneClock]
           s == [id |-> id + 1, delay |-> Delay(x), at |-> At(x)]
<1>1. /\ Delay(x) \in Nat /\ TwiceOffset(x) \in Int
      /\ OneClock => \/ Within(2 * err - TwiceOffset(x), Delay(x) + 2 * Drain)
                     \/ FallsShort(TwiceOffset(x))
  BY SampleTaken DEF Taking
<1>2. /\ out' = NoRequest /\ err' = err
      /\ offsets' = Shifted(offsets, o) /\ stages' = Shifted(stages, s)
  BY DEF Taking, Taken
<1>3. wall' \in Nat /\ wall' <= MaxTime /\ At(x) = wall'
  BY ReplyMeans
<1> HIDE DEF x
<1>4. /\ stages \in Seq(Samples) /\ Len(stages) <= Stages
      /\ offsets \in Seq(OffsetsOf) /\ Len(offsets) = Len(stages)
      /\ id \in Nat /\ err \in Errors /\ err \in Int
  BY ErrorsBounded DEF MeasureIInv, MeasureTypeOK, IInv, TypeOK, OffsetsOf
<1>5. o \in OffsetsOf /\ s \in Samples
  BY <1>1, <1>3, <1>4 DEF OffsetsOf, OneClock, Samples
<1>6. s.delay = Delay(x) /\ o.twice = TwiceOffset(x) /\ (o.clean <=> OneClock)
  OBVIOUS
<1> HIDE DEF o, s
<1>7. /\ stages' \in Seq(Samples)
      /\ Len(stages') = IF Len(stages) < Stages THEN Len(stages) + 1 ELSE Stages
      /\ stages'[1] = s
      /\ \A i \in 2..Len(stages') : stages'[i] = stages[i - 1]
  <2>1. stages \in Seq(Samples) /\ Len(stages) <= Stages /\ s \in Samples
    BY <1>4, <1>5
  <2>2. /\ Shifted(stages, s) \in Seq(Samples)
        /\ Len(Shifted(stages, s)) = IF Len(stages) < Stages
                                     THEN Len(stages) + 1 ELSE Stages
        /\ Shifted(stages, s)[1] = s
        /\ \A i \in 2..Len(Shifted(stages, s)) :
              Shifted(stages, s)[i] = stages[i - 1]
    BY <2>1, ShiftedShape
  <2> QED  BY <2>2, <1>2, <1>4
<1>8. /\ offsets' \in Seq(OffsetsOf)
      /\ Len(offsets') = IF Len(stages) < Stages THEN Len(stages) + 1 ELSE Stages
      /\ offsets'[1] = o
      /\ \A i \in 2..Len(offsets') : offsets'[i] = offsets[i - 1]
  <2>1. Len(offsets) <= Stages  BY <1>4
  <2>2. /\ Shifted(offsets, o) \in Seq(OffsetsOf)
        /\ Len(Shifted(offsets, o)) = IF Len(offsets) < Stages
                                     THEN Len(offsets) + 1 ELSE Stages
        /\ Shifted(offsets, o)[1] = o
        /\ \A i \in 2..Len(Shifted(offsets, o)) :
              Shifted(offsets, o)[i] = offsets[i - 1]
    BY <2>1, <1>4, <1>5, ShiftedShape
  <2> QED  BY <2>2, <1>2, <1>4
<1>9. MeasureTypeOK'
  BY <1>2, <1>4, <1>7, <1>8 DEF MeasureTypeOK, IInv, OffsetsOf
<1>10. OutTrue'  BY <1>2 DEF OutTrue
<1>11. WithinHalfDelay'
  <2> SUFFICES ASSUME NEW i \in DOMAIN stages', offsets'[i].clean
               PROVE  \/ Within(2 * err - offsets'[i].twice,
                                stages'[i].delay + 2 * Drain)
                      \/ FallsShort(offsets'[i].twice)
    BY <1>2 DEF WithinHalfDelay, Within, FallsShort
  <2>1. i \in 1..Len(stages') /\ Len(stages') \in Nat /\ Len(stages) \in Nat
        /\ DOMAIN stages = 1..Len(stages)
    BY <1>4, <1>7, LenProperties
  <2>2. CASE i = 1
    <3>1. stages'[i] = s /\ offsets'[i] = o  BY <2>2, <1>7, <1>8
    <3> QED  BY <3>1, <1>1, <1>6
  <2>3. CASE i # 1
    <3>1. i \in 2..Len(stages') /\ i - 1 \in DOMAIN stages
      <4>1. Len(stages') <= Len(stages) + 1
        BY <1>4, <1>7, <2>1, FilterConstants
      <4> QED  BY <2>1, <2>3, <4>1
    <3>2. stages'[i] = stages[i - 1] /\ offsets'[i] = offsets[i - 1]
      BY <3>1, <1>7, <1>8
    <3> QED  BY <3>1, <3>2 DEF MeasureIInv, WithinHalfDelay
  <2> QED  BY <2>2, <2>3
<1> QED  BY <1>3, <1>9, <1>10, <1>11 DEF MeasureIInv

(* A step empties the register with the clock it was measured by.          *)
LEMMA EmptiedKeeps ==
  ASSUME MeasureIInv, IInv', stages' = << >>, offsets' = << >>,
         err' \in Errors, wall' <= MaxTime,
         out' \in {out, NoRequest}
  PROVE  MeasureIInv'
<1>1. OutTrue'  BY DEF OutTrue, MeasureIInv
<1>2. WithinHalfDelay'  BY DEF WithinHalfDelay
<1>3. MeasureTypeOK'
  BY DEF MeasureTypeOK, MeasureIInv, IInv
<1> QED  BY <1>1, <1>2, <1>3 DEF MeasureIInv

(* What leaves the samples and the error alone keeps it too.               *)
LEMMA QuietKeeps ==
  ASSUME MeasureIInv, IInv', wall' <= MaxTime,
         UNCHANGED <<stages, offsets, err>>,
         out' \in {out, NoRequest}
  PROVE  MeasureIInv'
<1>1. OutTrue'  BY DEF OutTrue, MeasureIInv
<1>2. WithinHalfDelay'
  BY DEF WithinHalfDelay, Within, FallsShort, MeasureIInv
<1>3. MeasureTypeOK'
  BY DEF MeasureTypeOK, MeasureIInv, IInv
<1> QED  BY <1>1, <1>2, <1>3 DEF MeasureIInv

(* What the clock reads when a request leaves.                             *)
LEMMA AskKeeps == MeasureIInv /\ IInv' /\ Ask => MeasureIInv'
<1> SUFFICES ASSUME MeasureIInv, IInv', Ask PROVE MeasureIInv'
  OBVIOUS
<1>1. /\ wall \in Nat /\ wall <= MaxTime /\ err \in -MaxErr..MaxErr
      /\ MaxErr \in Nat /\ MaxTime \in Nat
  BY Sizes, MeasurementConstants
     DEF MeasureIInv, MeasureTypeOK, IInv, TypeOK
<1>2. wall - wall < Half /\ -Epoch <= wall /\ wall < Words
  <2> HIDE DEF Half
  <2> QED  BY <1>1, Sizes
<1>3. Word(wall) \in 0..Words - 1  BY <1>1, <1>2, WordDifference
<1>4. /\ out' = [origin |-> Word(wall), sent |-> wall + err, err |-> err]
      /\ stages' = stages /\ wall' = wall /\ err' = err /\ offsets' = offsets
  BY DEF Ask, vars
<1>5. out' \in Requests /\ out'.err = err /\ out'.sent - out'.err = wall
      /\ out'.origin = Word(wall)
  BY <1>1, <1>3, <1>4 DEF Requests
<1>6. OutTrue'  BY <1>1, <1>5 DEF OutTrue
<1>7. WithinHalfDelay'
  BY <1>4 DEF WithinHalfDelay, Within, FallsShort, MeasureIInv
<1>8. MeasureTypeOK'
  BY <1>1, <1>4, <1>5 DEF MeasureTypeOK, MeasureIInv, IInv
<1> QED  BY <1>1, <1>4, <1>6, <1>7, <1>8 DEF MeasureIInv

(* Every step keeps the invariant.                                         *)
LEMMA MeasureNextIInv ==
  MeasureIInv /\ [MeasureNext]_measureVars => MeasureIInv'
<1> SUFFICES ASSUME MeasureIInv, [MeasureNext]_measureVars
             PROVE  MeasureIInv'
  OBVIOUS
<1>1. IInv'  BY StepIsFilterStep, NextIInv DEF MeasureIInv
<1>2. wall <= MaxTime /\ err \in Errors
  BY DEF MeasureIInv, MeasureTypeOK
<1>3. CASE Ask  BY <1>1, <1>3, AskKeeps
<1>4. ASSUME NEW gap \in Gaps, NEW t2 \in Moments, NEW t3 \in Moments,
             TakeFresh(gap, t2, t3) \/ TakeStale(gap, t2, t3)
      PROVE  MeasureIInv'
  BY <1>1, <1>4, TakingKeeps DEF TakeFresh, TakeStale, Report, Withhold
<1>5. ASSUME NEW gap \in Gaps, Elapse(gap), UNCHANGED reading
      PROVE  MeasureIInv'
  BY <1>1, <1>5, QuietKeeps DEF Elapse, Later, reading
<1>6. CASE Lose
  BY <1>1, <1>2, <1>6, QuietKeeps DEF Lose, vars
<1>7. CASE LoseEighth
  BY <1>1, <1>2, <1>7, FilterConstants, EmptiedKeeps DEF LoseEighth, Reset
<1>8. ASSUME NEW by \in Steps, Step(by)
      PROVE  MeasureIInv'
  BY <1>1, <1>8, FilterConstants, EmptiedKeeps DEF Step, Reset
<1>9. CASE UNCHANGED measureVars
  BY <1>1, <1>2, <1>9, QuietKeeps DEF measureVars, vars, reading
<1> QED
  BY <1>3, <1>4, <1>5, <1>6, <1>7, <1>8, <1>9, MomentsQuantified
  DEF MeasureNext, Refuse, Quiet

-----------------------------------------------------------------------------
(* The theorems. *)

(* The inductive invariant holds in every reachable state.                 *)
THEOREM MeasureInvariance == MeasureSpec => []MeasureIInv
BY MeasureInitIInv, MeasureNextIInv, PTL DEF MeasureSpec

(* The register and what its samples say stay of one length, and the       *)
(* request outstanding is one the clock could have dated.                  *)
THEOREM MeasureTypeCorrect == MeasureSpec => []MeasureTypeOK
<1>1. MeasureIInv => MeasureTypeOK  BY DEF MeasureIInv
<1> QED  BY <1>1, MeasureInvariance, PTL

(* Through the words and eras of any width, the register does what Filter  *)
(* says: samples are dated by the clock they are compared with.            *)
THEOREM MeasurementImplementsFilter == MeasureSpec => ImplementsFilter
<1>1. MeasureInit => Init  BY DEF MeasureInit
<1>2. MeasureIInv /\ [MeasureNext]_measureVars => [Next]_vars
  BY StepIsFilterStep
<1> QED  BY <1>1, <1>2, MeasureInvariance, PTL DEF MeasureSpec, ImplementsFilter, Spec

(* So no sample is reported twice, and no source is muted, by the eras or  *)
(* the steps of a real exchange either.                                    *)
THEOREM MeasuredIsReportedInTime == MeasureSpec => []ReportedInTime
BY MeasurementImplementsFilter, EachIsReportedInTime, PTL DEF ImplementsFilter

(* A sample a source votes with bounds the error of the clock by half its  *)
(* delay, whatever the delays each way, the steps and the eras, and        *)
(* however far the clock is out: past 34 years it is the largest offset    *)
(* there is, and short of the error.                                       *)
THEOREM ErrorIsWithinHalfDelay == MeasureSpec => []WithinHalfDelay
<1>1. MeasureIInv => WithinHalfDelay  BY DEF MeasureIInv
<1> QED  BY <1>1, MeasureInvariance, PTL
=============================================================================
