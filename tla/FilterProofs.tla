---------------------------- MODULE FilterProofs ----------------------------
(***************************************************************************)
(* Theorems about Filter for a register of any length, any delays and any  *)
(* movements of the clock.                                                 *)
(***************************************************************************)
EXTENDS Filter, SequenceTheorems, WellFoundedInduction, TLAPS

(* A set of naturals that is not empty has a least member.                 *)
LEMMA LeastNat ==
  ASSUME NEW T, T \subseteq Nat, T # {}
  PROVE  \E x \in T : \A y \in T : x <= y
<1> DEFINE R == {ss \in Nat \X Nat : ss[1] < ss[2]}
<1>1. IsWellFoundedOn(R, Nat)
  BY NatLessThanWellFounded DEF OpToRel
<1> HIDE DEF R
<1>2. PICK x \in T : \A y \in T : ~(<<y, x>> \in R)
  BY <1>1, WFMin
<1>3. ASSUME NEW y \in T PROVE x <= y
  <2>1. ~(<<y, x>> \in R)  BY <1>2
  <2>2. <<y, x>> \in Nat \X Nat  OBVIOUS
  <2>3. ~(y < x)  BY <2>1, <2>2 DEF R
  <2> QED  BY <2>3
<1> QED  BY <1>3

(* The newest sample is first, and the others move down by one, the last   *)
(* of a full register out of it.                                           *)
LEMMA ShiftedShape ==
  ASSUME NEW S, NEW st \in Seq(S), Len(st) <= Stages, NEW s \in S
  PROVE  /\ Shifted(st, s) \in Seq(S)
         /\ Len(Shifted(st, s)) = IF Len(st) < Stages THEN Len(st) + 1 ELSE Stages
         /\ Shifted(st, s)[1] = s
         /\ \A i \in 2..Len(Shifted(st, s)) : Shifted(st, s)[i] = st[i - 1]
<1> DEFINE m == IF Len(st) < Stages THEN Len(st) ELSE Stages - 1
           rest == SubSeq(st, 1, m)
<1>1. Stages \in Nat /\ Stages >= 1 /\ Len(st) \in Nat
  BY FilterConstants, LenProperties
<1>2. m \in Nat /\ m <= Len(st)  BY <1>1
<1>3. \A i \in 1..m : st[i] \in S
  <2> SUFFICES ASSUME NEW i \in 1..m PROVE st[i] \in S
    OBVIOUS
  <2>1. i \in 1..Len(st)  BY <1>1, <1>2
  <2> QED  BY <2>1, ElementOfSeq
<1> HIDE DEF m
<1>4. /\ rest \in Seq(S)
      /\ Len(rest) = m
      /\ \A i \in 1..m : rest[i] = st[i]
  <2>1. 1 \in Int /\ m \in Int  BY <1>2
  <2>2. /\ SubSeq(st, 1, m) \in Seq(S)
        /\ Len(SubSeq(st, 1, m)) = IF 1 <= m THEN m - 1 + 1 ELSE 0
        /\ \A i \in 1..(m - 1 + 1) : SubSeq(st, 1, m)[i] = st[1 + i - 1]
    BY <1>3, <2>1, SubSeqProperties
  <2>3. Len(rest) = m  BY <2>2, <1>2
  <2>4. ASSUME NEW i \in 1..m PROVE rest[i] = st[i]
    <3>1. i \in 1..(m - 1 + 1) /\ 1 + i - 1 = i  BY <1>2
    <3> QED  BY <2>2, <3>1
  <2> QED  BY <2>2, <2>3, <2>4
<1>5. Shifted(st, s) = <<s>> \o rest  BY DEF Shifted, m
<1> HIDE DEF rest
<1> DEFINE first == <<s>>
<1>6. first \in Seq(S) /\ Len(first) = 1 /\ first[1] = s
  OBVIOUS
<1> HIDE DEF first
<1>7. /\ Shifted(st, s) \in Seq(S)
      /\ Len(Shifted(st, s)) = 1 + m
      /\ \A i \in 1..(1 + m) :
            Shifted(st, s)[i] = IF i <= 1 THEN first[i] ELSE rest[i - 1]
  <2>1. Shifted(st, s) = first \o rest  BY <1>5 DEF first
  <2>2. /\ first \o rest \in Seq(S)
        /\ Len(first \o rest) = Len(first) + Len(rest)
        /\ \A i \in 1..(Len(first) + Len(rest)) :
              (first \o rest)[i] = IF i <= Len(first) THEN first[i]
                                   ELSE rest[i - Len(first)]
    BY <1>4, <1>6, ConcatProperties
  <2> QED  BY <2>1, <2>2, <1>4, <1>6
<1>8. Shifted(st, s)[1] = s  BY <1>2, <1>6, <1>7
<1>9. ASSUME NEW i \in 2..Len(Shifted(st, s))
      PROVE  Shifted(st, s)[i] = st[i - 1]
  <2>1. i \in 1..(1 + m) /\ ~(i <= 1) /\ i - 1 \in 1..m
    BY <1>2, <1>7
  <2>2. Shifted(st, s)[i] = rest[i - 1]  BY <1>7, <2>1
  <2> QED  BY <2>1, <2>2, <1>4
<1>10. 1 + m = IF Len(st) < Stages THEN Len(st) + 1 ELSE Stages
  BY <1>1 DEF m
<1> QED  BY <1>7, <1>8, <1>9, <1>10

(* The best sample is one of those held.                                   *)
LEMMA BestIsHeld ==
  ASSUME NEW st \in Seq(Samples), Len(st) >= 1
  PROVE  \E i \in DOMAIN st : Best(st) = st[i]
<1>1. DOMAIN st = 1..Len(st) /\ Len(st) \in Nat  BY LenProperties
<1>2. \A i \in DOMAIN st : st[i].delay \in Nat
  <2> SUFFICES ASSUME NEW i \in DOMAIN st PROVE st[i].delay \in Nat
    OBVIOUS
  <2>1. i \in 1..Len(st)  BY <1>1
  <2>2. st[i] \in Samples  BY <2>1, ElementOfSeq
  <2> QED  BY <2>2 DEF Samples
<1> DEFINE Quick == {st[i].delay : i \in DOMAIN st}
<1>3. PICK q \in Quick : \A d \in Quick : q <= d
  <2>1. Quick \subseteq Nat  BY <1>2
  <2>2. 1 \in DOMAIN st  BY <1>1
  <2>3. Quick # {}  BY <2>2
  <2> HIDE DEF Quick
  <2> QED  BY <2>1, <2>3, LeastNat
<1> DEFINE Places == {i \in DOMAIN st : st[i].delay = q}
<1>4. PICK p \in Places : \A i \in Places : p <= i
  <2>1. Places \subseteq Nat  BY <1>1
  <2>2. Places # {}  BY <1>3
  <2> HIDE DEF Places
  <2> QED  BY <2>1, <2>2, LeastNat
<1>5. ASSUME NEW j \in DOMAIN st
      PROVE  \/ st[p].delay < st[j].delay
             \/ st[p].delay = st[j].delay /\ p <= j
  <2>1. st[p].delay = q /\ q \in Nat /\ st[j].delay \in Nat
    BY <1>2, <1>4
  <2>2. q <= st[j].delay  BY <1>3
  <2>3. CASE st[j].delay = q  BY <2>1, <2>3, <1>4
  <2>4. CASE st[j].delay # q  BY <2>1, <2>2, <2>4
  <2> QED  BY <2>3, <2>4
<1>6. p \in DOMAIN st  BY <1>4
<1> QED  BY <1>5, <1>6 DEF Best

-----------------------------------------------------------------------------
(* A sample comes in. *)

(* What both ends of insert have in common: the register stays in order,   *)
(* and the sample that speaks for the source is at some place in it.       *)
LEMMA Inserted ==
  ASSUME IInv, NEW delay \in Nat, NEW t \in Nat, t > wall,
         wall' = t, Sampled, stages' = Taken(delay, t)
  PROVE  /\ stages' \in Seq(Samples) /\ Len(stages') <= Stages
         /\ DOMAIN stages' = 1..Len(stages')
         /\ Len(stages') = IF Len(stages) < Stages THEN Len(stages) + 1
                           ELSE Stages
         /\ stages'[1] = [id |-> id + 1, delay |-> delay, at |-> t]
         /\ \A i \in 2..Len(stages') : stages'[i] = stages[i - 1]
         /\ TimeOrder'
         /\ \E b \in DOMAIN stages' : Best(stages') = stages'[b]
<1> DEFINE s == [id |-> id + 1, delay |-> delay, at |-> t]
<1>1. /\ stages \in Seq(Samples) /\ Len(stages) <= Stages
      /\ id \in Nat /\ wall \in Nat /\ Stages \in Nat /\ Stages >= 1
  BY FilterConstants DEF IInv, TypeOK
<1>2. s \in Samples  BY <1>1 DEF Samples
<1>3. stages' = Shifted(stages, s)  BY DEF Taken
<1> HIDE DEF s
<1>4. /\ stages' \in Seq(Samples)
      /\ Len(stages') = IF Len(stages) < Stages THEN Len(stages) + 1 ELSE Stages
      /\ stages'[1] = s
      /\ \A i \in 2..Len(stages') : stages'[i] = stages[i - 1]
  <2>1. /\ Shifted(stages, s) \in Seq(Samples)
        /\ Len(Shifted(stages, s)) = IF Len(stages) < Stages
                                     THEN Len(stages) + 1 ELSE Stages
        /\ Shifted(stages, s)[1] = s
        /\ \A i \in 2..Len(Shifted(stages, s)) :
              Shifted(stages, s)[i] = stages[i - 1]
    BY <1>1, <1>2, ShiftedShape
  <2> QED  BY <2>1, <1>3
<1>5. /\ DOMAIN stages' = 1..Len(stages') /\ Len(stages') \in Nat
      /\ DOMAIN stages = 1..Len(stages) /\ Len(stages) \in Nat
  BY <1>1, <1>4, LenProperties
<1>6. Len(stages') <= Stages /\ Len(stages') >= 1
      /\ Len(stages') <= Len(stages) + 1
  BY <1>1, <1>4, <1>5
<1>7. wall' = t /\ id' = id + 1 /\ s.at = t /\ s.id = id + 1
  BY DEF Sampled, s
<1>8. \A i \in DOMAIN stages :
         /\ stages[i].at <= wall /\ stages[i].id <= id
         /\ stages[i].at \in Nat /\ stages[i].id \in Nat
  <2> SUFFICES ASSUME NEW i \in DOMAIN stages
               PROVE  /\ stages[i].at <= wall /\ stages[i].id <= id
                      /\ stages[i].at \in Nat /\ stages[i].id \in Nat
    OBVIOUS
  <2>1. stages[i] \in Samples  BY <1>1, <1>5, ElementOfSeq
  <2> QED  BY <2>1 DEF IInv, TimeOrder, Samples
<1>9. ASSUME NEW i \in DOMAIN stages', i # 1
      PROVE  i - 1 \in DOMAIN stages /\ stages'[i] = stages[i - 1]
  BY <1>4, <1>5, <1>6, <1>9
<1>10. TimeOrder'
  <2>1. ASSUME NEW i \in DOMAIN stages', NEW j \in DOMAIN stages', i < j
        PROVE  stages'[i].at > stages'[j].at /\ stages'[i].id > stages'[j].id
    <3>1. j # 1  BY <1>5, <2>1
    <3>2. j - 1 \in DOMAIN stages /\ stages'[j] = stages[j - 1]
      BY <3>1, <1>9
    <3>3. CASE i = 1
      BY <3>2, <3>3, <1>1, <1>4, <1>7, <1>8
    <3>4. CASE i # 1
      <4>1. i - 1 \in DOMAIN stages /\ stages'[i] = stages[i - 1]
        BY <3>4, <1>9
      <4>2. i - 1 < j - 1  BY <1>5, <2>1
      <4> QED  BY <3>2, <4>1, <4>2 DEF IInv, TimeOrder
    <3> QED  BY <3>3, <3>4
  <2>2. ASSUME NEW i \in DOMAIN stages'
        PROVE  stages'[i].at <= wall' /\ stages'[i].id <= id'
    <3>1. CASE i = 1  BY <3>1, <1>1, <1>4, <1>7
    <3>2. CASE i # 1  BY <3>2, <1>1, <1>7, <1>8, <1>9
    <3> QED  BY <3>1, <3>2
  <2> QED  BY <2>1, <2>2 DEF TimeOrder
<1>11. \E b \in DOMAIN stages' : Best(stages') = stages'[b]
  BY <1>4, <1>6, BestIsHeld
<1> QED  BY <1>4, <1>5, <1>6, <1>10, <1>11 DEF s

(* The sample reported is younger than all that were reported before.      *)
LEMMA ReportIsNewer ==
  ASSUME IInv, NEW delay \in Nat, NEW t \in Nat, t > wall, wall' = t,
         Report(delay, t)
  PROVE  /\ Best(stages').id \in Nat /\ Best(stages').at \in Nat
         /\ Best(stages').id <= id'
         /\ \A k \in DOMAIN reports : reports[k] < Best(stages').id
<1>1. Sampled /\ stages' = Taken(delay, t) /\ Fresh(Best(stages'))
  BY DEF Report
<1>2. /\ stages' \in Seq(Samples)
      /\ DOMAIN stages' = 1..Len(stages')
      /\ stages'[1] = [id |-> id + 1, delay |-> delay, at |-> t]
      /\ \A i \in 2..Len(stages') : stages'[i] = stages[i - 1]
      /\ TimeOrder'
      /\ \E b \in DOMAIN stages' : Best(stages') = stages'[b]
  BY <1>1, Inserted
<1>3. PICK b \in DOMAIN stages' : Best(stages') = stages'[b]
  BY <1>2
<1>4. stages'[b] \in Samples  BY <1>2, ElementOfSeq
<1>5. stages'[b].id <= id'  BY <1>2 DEF TimeOrder
<1>6. /\ id \in Nat /\ reports \in Seq(Nat) /\ stages \in Seq(Samples)
      /\ \A k \in DOMAIN reports : reports[k] <= id
      /\ DOMAIN reports = 1..Len(reports) /\ Len(reports) \in Nat
      /\ DOMAIN stages = 1..Len(stages) /\ Len(stages) \in Nat
  BY LenProperties DEF IInv, TypeOK, ReportHeld
<1>7. \A k \in DOMAIN reports : reports[k] \in Nat  BY <1>6, ElementOfSeq
<1>8. ASSUME NEW k \in DOMAIN reports PROVE reports[k] < stages'[b].id
  <2>1. CASE b = 1
    <3>1. stages'[b].id = id + 1  BY <1>2, <2>1
    <3> QED  BY <3>1, <1>6, <1>7
  <2>2. CASE b # 1
    <3>1. b \in 2..Len(stages')  BY <1>2, <2>2
    <3>2. stages'[b] = stages[b - 1]  BY <1>2, <3>1
    <3>3. /\ Len(stages') = IF Len(stages) < Stages THEN Len(stages) + 1
                            ELSE Stages
          /\ Len(stages) <= Stages /\ Stages \in Nat
      BY <1>1, Inserted, FilterConstants DEF IInv, TypeOK
    <3>4. b - 1 \in DOMAIN stages  BY <3>1, <3>3, <1>6
    <3>5. stages # << >>  BY <3>4
    <3>6. lastReported # None
      BY <3>5 DEF IInv, ReportHeld
    <3>7. PICK i \in DOMAIN stages : HeldAt(i)
      BY <3>6 DEF IInv, ReportHeld
    <3>8. stages[b - 1].at > stages[i].at
      BY <1>1, <1>3, <3>2, <3>6, <3>7 DEF Fresh, HeldAt
    <3>9. stages[i].at \in Nat /\ stages[i].id \in Nat
          /\ stages[b - 1].at \in Nat /\ stages[b - 1].id \in Nat
      <4>1. stages[i] \in Samples /\ stages[b - 1] \in Samples
        BY <1>6, <3>4, ElementOfSeq
      <4> QED  BY <4>1 DEF Samples
    <3>10. b - 1 < i
      <4>1. ~(b - 1 = i)  BY <3>8, <3>9
      <4>2. ~(i < b - 1)  BY <3>4, <3>8, <3>9 DEF IInv, TimeOrder
      <4> QED  BY <4>1, <4>2, <3>4, <1>6
    <3>11. stages[b - 1].id > stages[i].id
      BY <3>4, <3>10 DEF IInv, TimeOrder
    <3>12. stages[i].id = reports[Len(reports)]  BY <3>7 DEF HeldAt
    <3>13. reports[k] <= reports[Len(reports)]
      <4>1. Len(reports) \in DOMAIN reports  BY <1>6
      <4>2. CASE k = Len(reports)  BY <4>2, <1>7
      <4>3. CASE k # Len(reports)
        <5>1. k < Len(reports)  BY <4>3, <1>6
        <5> QED  BY <4>1, <5>1, <1>7 DEF IInv, ReportedOnce
      <4> QED  BY <4>2, <4>3
    <3>14. reports[k] \in Nat  BY <1>7
    <3> QED  BY <3>2, <3>9, <3>11, <3>12, <3>13, <3>14
  <2> QED  BY <2>1, <2>2
<1> QED  BY <1>3, <1>4, <1>5, <1>8 DEF Samples

-----------------------------------------------------------------------------
(* The invariant. *)

(* The register starts empty.                                              *)
LEMMA InitIInv == Init => IInv
  BY FilterConstants DEF Init, IInv, TypeOK, ReportedOnce, TimeOrder, ReportHeld,
     None

(* insert ending in Update keeps the invariant.                            *)
LEMMA ReportKeeps ==
  ASSUME IInv, NEW delay \in Nat, NEW t \in Nat, t > wall, wall' = t,
         Report(delay, t)
  PROVE  IInv'
<1> DEFINE best == Best(stages')
<1>1. Sampled /\ stages' = Taken(delay, t)  BY DEF Report
<1>2. /\ stages' \in Seq(Samples) /\ Len(stages') <= Stages
      /\ DOMAIN stages' = 1..Len(stages')
      /\ TimeOrder'
      /\ \E b \in DOMAIN stages' : best = stages'[b]
  BY <1>1, Inserted
<1>3. /\ best.id \in Nat /\ best.at \in Nat /\ best.id <= id'
      /\ \A k \in DOMAIN reports : reports[k] < best.id
  BY ReportIsNewer
<1>4. /\ lastReported' = best.at /\ reports' = Append(reports, best.id)
      /\ silent' = 0 /\ wall' = t /\ id' = id + 1
  BY DEF Report, Sampled
<1> HIDE DEF best
<1>5. /\ id \in Nat /\ reports \in Seq(Nat)
      /\ DOMAIN reports = 1..Len(reports) /\ Len(reports) \in Nat
  BY LenProperties DEF IInv, TypeOK
<1>6. /\ reports' \in Seq(Nat) /\ Len(reports') = Len(reports) + 1
      /\ \A k \in 1..Len(reports) : reports'[k] = reports[k]
      /\ reports'[Len(reports) + 1] = best.id
      /\ DOMAIN reports' = 1..(Len(reports) + 1)
  BY <1>3, <1>4, <1>5, AppendProperties, LenProperties
<1>7. TypeOK'  BY <1>2, <1>3, <1>4, <1>5, <1>6 DEF TypeOK
<1>8. ReportedOnce'
  <2> SUFFICES ASSUME NEW i \in DOMAIN reports', NEW j \in DOMAIN reports', i < j
               PROVE  reports'[i] < reports'[j]
    BY DEF ReportedOnce
  <2>1. i \in 1..Len(reports)  BY <1>5, <1>6
  <2>2. CASE j = Len(reports) + 1
    BY <2>1, <2>2, <1>3, <1>5, <1>6
  <2>3. CASE j # Len(reports) + 1
    <3>1. j \in 1..Len(reports)  BY <2>3, <1>5, <1>6
    <3>2. reports[i] < reports[j]
      BY <2>1, <3>1, <1>5 DEF IInv, ReportedOnce
    <3> QED  BY <2>1, <3>1, <3>2, <1>6
  <2> QED  BY <2>2, <2>3
<1>9. ReportHeld'
  <2>1. lastReported' # None  BY <1>3, <1>4 DEF None
  <2>2. \A k \in DOMAIN reports' : reports'[k] <= id'
    <3> SUFFICES ASSUME NEW k \in DOMAIN reports' PROVE reports'[k] <= id'
      OBVIOUS
    <3>1. CASE k = Len(reports) + 1  BY <3>1, <1>3, <1>6
    <3>2. CASE k # Len(reports) + 1
      <4>1. k \in DOMAIN reports  BY <3>2, <1>5, <1>6
      <4>2. reports'[k] = reports[k] /\ reports[k] \in Nat
        BY <4>1, <1>5, <1>6, ElementOfSeq
      <4>3. reports[k] <= id  BY <4>1 DEF IInv, ReportHeld
      <4> QED  BY <4>2, <4>3, <1>4, <1>5
    <3> QED  BY <3>1, <3>2
  <2>3. PICK b \in DOMAIN stages' : best = stages'[b]  BY <1>2
  <2>4. HeldAt(b)'
    <3>1. stages'[b].at = lastReported'  BY <2>3, <1>4
    <3>2. reports' # << >> /\ stages'[b].id = reports'[Len(reports')]
      BY <2>3, <1>4, <1>5, <1>6
    <3>3. silent' < b  BY <1>2, <1>4
    <3> QED  BY <3>1, <3>2, <3>3 DEF HeldAt
  <2> QED  BY <2>1, <2>2, <2>4 DEF ReportHeld
<1> QED  BY <1>2, <1>7, <1>8, <1>9 DEF IInv

(* insert ending in Stale keeps it: what was reported last is still held.  *)
LEMMA WithholdKeeps ==
  ASSUME IInv, NEW delay \in Nat, NEW t \in Nat, t > wall, wall' = t,
         Withhold(delay, t)
  PROVE  IInv'
<1>1. /\ Sampled /\ stages' = Taken(delay, t)
      /\ lastReported # None /\ ~(Best(stages').at > lastReported)
      /\ silent' = silent + 1 /\ wall' = t /\ id' = id + 1
      /\ lastReported' = lastReported /\ reports' = reports
  BY DEF Withhold, Sampled, Fresh
<1>2. /\ stages' \in Seq(Samples) /\ Len(stages') <= Stages
      /\ DOMAIN stages' = 1..Len(stages')
      /\ Len(stages') = IF Len(stages) < Stages THEN Len(stages) + 1 ELSE Stages
      /\ stages'[1] = [id |-> id + 1, delay |-> delay, at |-> t]
      /\ \A i \in 2..Len(stages') : stages'[i] = stages[i - 1]
      /\ TimeOrder'
      /\ \E b \in DOMAIN stages' : Best(stages') = stages'[b]
  BY <1>1, Inserted
<1>3. /\ id \in Nat /\ wall \in Nat /\ silent \in Nat
      /\ stages \in Seq(Samples) /\ Len(stages) <= Stages /\ Stages \in Nat
      /\ DOMAIN stages = 1..Len(stages) /\ Len(stages) \in Nat
      /\ \A k \in DOMAIN reports : reports[k] <= id
      /\ reports \in Seq(Nat)
  BY FilterConstants, LenProperties DEF IInv, TypeOK, ReportHeld
<1>4. PICK i \in DOMAIN stages : HeldAt(i)
  BY <1>1 DEF IInv, ReportHeld
<1>5. PICK b \in DOMAIN stages' : Best(stages') = stages'[b]  BY <1>2
<1>6. stages[i].at \in Nat /\ stages[i].at <= wall /\ lastReported = stages[i].at
  <2>1. stages[i] \in Samples  BY <1>3, ElementOfSeq
  <2> QED  BY <2>1, <1>4 DEF IInv, TimeOrder, HeldAt, Samples
(* Were it the last place of a full register, all that is left would be    *)
(* younger than the last report, and the best of it would be reported.     *)
<1>7. i + 1 \in DOMAIN stages'
  <2> SUFFICES ASSUME i + 1 \notin DOMAIN stages' PROVE FALSE
    OBVIOUS
  <2>1. Len(stages) = Stages /\ i = Stages /\ Len(stages') = Stages
    <3>1. Len(stages) \in Int /\ Stages \in Int /\ Len(stages) <= Stages
      BY <1>3
    <3>2. i \in Int /\ 1 <= i /\ i <= Len(stages)  BY <1>3
    <3>3. Len(stages') = IF Len(stages) < Stages THEN Len(stages) + 1
                         ELSE Stages
      BY <1>2
    <3>4. i + 1 > Len(stages')  BY <1>2, <3>1, <3>2, <3>3
    <3> QED  BY <3>1, <3>2, <3>3, <3>4
  <2>2. CASE b = 1
    <3>1. Best(stages').at = t  BY <1>2, <1>5, <2>2
    <3> QED  BY <3>1, <1>1, <1>3, <1>6
  <2>3. CASE b # 1
    <3>1. b - 1 \in DOMAIN stages /\ b - 1 < i /\ stages'[b] = stages[b - 1]
      BY <2>1, <2>3, <1>2, <1>3
    <3>2. stages[b - 1].at > stages[i].at
      BY <3>1 DEF IInv, TimeOrder
    <3> QED  BY <3>1, <3>2, <1>1, <1>5, <1>6
  <2> QED  BY <2>2, <2>3
<1>8. stages'[i + 1] = stages[i]
  <2>1. i + 1 \in 2..Len(stages') /\ i + 1 - 1 = i  BY <1>2, <1>3, <1>7
  <2> QED  BY <2>1, <1>2
<1>9. HeldAt(i + 1)'
  BY <1>1, <1>3, <1>4, <1>8 DEF HeldAt
<1>10. ReportHeld'
  <2>1. \A k \in DOMAIN reports' : reports'[k] <= id'
    <3> SUFFICES ASSUME NEW k \in DOMAIN reports PROVE reports[k] <= id + 1
      BY <1>1
    <3>1. reports[k] \in Nat  BY <1>3, LenProperties, ElementOfSeq
    <3> QED  BY <3>1, <1>3
  <2> QED  BY <2>1, <1>1, <1>7, <1>9 DEF ReportHeld
<1>11. TypeOK'  BY <1>1, <1>2, <1>3 DEF IInv, TypeOK
<1>12. ReportedOnce'  BY <1>1 DEF IInv, ReportedOnce
<1> QED  BY <1>2, <1>10, <1>11, <1>12 DEF IInv

(* reset keeps it, by forgetting the report with the samples.              *)
LEMMA ResetKeeps ==
  ASSUME IInv, NEW by \in Int, Reset(by)
  PROVE  IInv'
<1>1. /\ stages' = << >> /\ lastReported' = None /\ silent' = 0
      /\ id' = id /\ reports' = reports /\ wall' \in Nat
  BY FilterConstants DEF Reset, ForgottenReport, IInv, TypeOK
<1>2. Stages \in Nat /\ Stages >= 1  BY FilterConstants
<1>3. TypeOK'  BY <1>1, <1>2 DEF IInv, TypeOK
<1>4. ReportedOnce'  BY <1>1 DEF IInv, ReportedOnce
<1>5. TimeOrder'  BY <1>1 DEF TimeOrder
<1>6. ReportHeld'  BY <1>1 DEF IInv, ReportHeld
<1> QED  BY <1>3, <1>4, <1>5, <1>6 DEF IInv

(* So does time going by.                                                  *)
LEMMA ElapseKeeps ==
  ASSUME IInv, NEW gap \in Nat, Elapse(gap)
  PROVE  IInv'
<1>1. /\ stages' = stages /\ lastReported' = lastReported /\ id' = id
      /\ reports' = reports /\ silent' = silent
      /\ wall' \in Nat /\ wall' >= wall
  BY DEF Elapse, Later, IInv, TypeOK
<1>2. TypeOK'  BY <1>1 DEF IInv, TypeOK
<1>3. ReportedOnce'  BY <1>1 DEF IInv, ReportedOnce
<1>4. TimeOrder'
  <2>1. ASSUME NEW i \in DOMAIN stages PROVE stages[i].at <= wall'
    <3>1. stages \in Seq(Samples) /\ i \in 1..Len(stages)
      BY LenProperties DEF IInv, TypeOK
    <3>2. stages[i] \in Samples  BY <3>1, ElementOfSeq
    <3>3. stages[i].at <= wall  BY DEF IInv, TimeOrder
    <3>4. stages[i].at \in Nat /\ wall \in Nat
      BY <3>2 DEF Samples, IInv, TypeOK
    <3> QED  BY <1>1, <3>3, <3>4
  <2> QED  BY <1>1, <2>1 DEF IInv, TimeOrder
<1>5. ReportHeld'  BY <1>1 DEF IInv, ReportHeld, HeldAt
<1> QED  BY <1>2, <1>3, <1>4, <1>5 DEF IInv

(* Every step keeps the invariant.                                         *)
LEMMA NextIInv == IInv /\ [Next]_vars => IInv'
<1> SUFFICES ASSUME IInv, [Next]_vars PROVE IInv'
  OBVIOUS
<1>1. ASSUME NEW delay \in Delays, NEW gap \in Gaps,
             Later(gap),
             Report(delay, wall + gap) \/ Withhold(delay, wall + gap)
      PROVE  IInv'
  <2>1. PICK t \in Nat : t = wall + gap /\ t > wall /\ wall' = t
    BY <1>1, FilterConstants DEF IInv, TypeOK, Later
  <2>2. delay \in Nat  BY FilterConstants
  <2> QED  BY <1>1, <2>1, <2>2, ReportKeeps, WithholdKeeps
<1>2. ASSUME NEW by \in Steps, Reset(by)
      PROVE  IInv'
  BY <1>2, FilterConstants, ResetKeeps
<1>3. ASSUME NEW gap \in Gaps, Elapse(gap)
      PROVE  IInv'
  BY <1>3, FilterConstants, ElapseKeeps
<1>4. CASE UNCHANGED vars
  BY <1>4 DEF vars, IInv, TypeOK, ReportedOnce, TimeOrder, ReportHeld, HeldAt
<1> QED  BY <1>1, <1>2, <1>3, <1>4 DEF Next

-----------------------------------------------------------------------------
(* The theorems. *)

(* The register is in order of time, and holds what was reported last, in  *)
(* every reachable state.                                                  *)
THEOREM Invariance == Spec => []IInv
<1>1. Init => IInv  BY InitIInv
<1>2. IInv /\ [Next]_vars => IInv'  BY NextIInv
<1> QED  BY <1>1, <1>2, PTL DEF Spec

(* The register never outgrows its stages.                                 *)
THEOREM TypeCorrect == Spec => []TypeOK
<1>1. IInv => TypeOK  BY DEF IInv
<1> QED  BY <1>1, Invariance, PTL

(* insert reports no sample twice and none after a later one, for a        *)
(* register of any length and a clock stepped any way at any time.         *)
THEOREM EachIsReportedOnce == Spec => []ReportedOnce
<1>1. IInv => ReportedOnce  BY DEF IInv
<1> QED  BY <1>1, Invariance, PTL

(* A source reports at least once in Stages samples: what silences it is   *)
(* held at a place the register has, and moves down with every sample.     *)
THEOREM NoSourceIsMuted == Spec => []NeverMuted
<1>1. IInv => NeverMuted
  <2> SUFFICES ASSUME IInv PROVE silent < Stages
    BY DEF NeverMuted
  <2>1. /\ silent \in Nat /\ Stages \in Nat /\ Stages >= 1
        /\ stages \in Seq(Samples) /\ Len(stages) <= Stages
    BY FilterConstants DEF IInv, TypeOK
  <2>2. CASE lastReported = None
    BY <2>1, <2>2 DEF IInv, ReportHeld
  <2>3. CASE lastReported # None
    <3>1. PICK i \in DOMAIN stages : silent < i
      BY <2>3 DEF IInv, ReportHeld, HeldAt
    <3>2. DOMAIN stages = 1..Len(stages) /\ Len(stages) \in Nat
      BY <2>1, LenProperties
    <3> QED  BY <2>1, <3>1, <3>2
  <2> QED  BY <2>2, <2>3
<1> QED  BY <1>1, Invariance, PTL

(* Both at once.                                                           *)
THEOREM EachIsReportedInTime == Spec => []ReportedInTime
<1>1. ReportedOnce /\ NeverMuted => ReportedInTime  BY DEF ReportedInTime
<1> QED  BY <1>1, EachIsReportedOnce, NoSourceIsMuted, PTL
=============================================================================
