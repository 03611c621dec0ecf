-------------------------- MODULE DisciplineProofs --------------------------
(***************************************************************************)
(* Theorems about Discipline for every value of its constants: its types   *)
(* and the tolerance on every rate, the stepout in both directions, and    *)
(* that it implements StepPolicy.                                          *)
(***************************************************************************)
EXTENDS Discipline, SequenceTheorems, TLAPS

(* Clamp returns a rate whatever it is given.                              *)
LEMMA ClampIsRate == \A r \in Int : Clamp(r) \in Rates
  BY DisciplineConstants DEF Clamp, Rates

(* The proportional term divides by a settling time, which is positive.    *)
LEMMA SteerForIsRate ==
  ASSUME NEW f \in Int, NEW o \in Int, NEW t \in Nat \ {0}
  PROVE  SteerFor(f, o, t) \in Rates
<1>1. 2 * RateScale * o \in Int  BY DisciplineConstants
<1>2. (2 * RateScale * o) \div t \in Int  BY <1>1
<1>3. f + (2 * RateScale * o) \div t \in Int  BY <1>2
<1> QED  BY <1>3, ClampIsRate DEF SteerFor

(* A settling time is positive, whatever the interval.                     *)
LEMMA SettlingTimePositive ==
  ASSUME NEW mu \in Nat \ {0}
  PROVE  SettlingTime(mu) \in Nat \ {0}
  BY DisciplineConstants DEF SettlingTime

(* The learned frequency stays in the tolerance over any interval.         *)
LEMMA LearnIsRate ==
  ASSUME DisciplineTypeOK, NEW o \in Int, NEW mu \in Nat \ {0}
  PROVE  Learn(o, mu) \in Rates
<1> DEFINE s == SettlingTime(mu)
           integral == (RateScale * o * mu) \div (s * s)
           locked == IF mu >= FllInterval
                     THEN (RateScale * (o - lastOffset)) \div (4 * mu) ELSE 0
<1>1. s \in Nat \ {0}  BY SettlingTimePositive
<1>2. s * s \in Nat \ {0}  BY <1>1
<1>3. RateScale * o * mu \in Int  BY DisciplineConstants
<1>4. integral \in Int
  <2> HIDE DEF s
  <2> QED  BY <1>2, <1>3
<1>5. RateScale * (o - lastOffset) \in Int
  BY DisciplineConstants DEF DisciplineTypeOK
<1>6. locked \in Int  BY <1>5
<1>7. frequency \in Int  BY DisciplineConstants DEF DisciplineTypeOK, Rates
<1>8. frequency + integral + locked \in Int
  <2> HIDE DEF integral, locked
  <2> QED  BY <1>4, <1>6, <1>7
<1> QED  BY <1>8, ClampIsRate DEF Learn

-----------------------------------------------------------------------------
(* What a note does to the history, and to the runs of large readings.     *)

(* A noted reading is the last of the history, and the others stay.        *)
LEMMA NoteAppends ==
  ASSUME DisciplineTypeOK, NEW o \in Int, NEW t \in Nat, Note(o, t),
         NEW m \in Nat, m = Len(readings) + 1
  PROVE  /\ readings' \in Seq([offset : Int, at : Nat])
         /\ DOMAIN readings = 1..(m - 1) /\ Len(readings) = m - 1
         /\ DOMAIN readings' = 1..m /\ Len(readings') = m
         /\ \A i \in 1..(m - 1) : readings'[i] = readings[i]
         /\ readings'[m].offset = o /\ readings'[m].at = t
<1>1. readings'[m] = [offset |-> o, at |-> t]  BY DEF DisciplineTypeOK, Note
<1>2. readings'[m].offset = o /\ readings'[m].at = t  BY <1>1
<1> QED  BY <1>2 DEF DisciplineTypeOK, Note

(* And the history keeps its type.                                         *)
LEMMA NoteTyped ==
  ASSUME DisciplineTypeOK, NEW o \in Int, NEW t \in Nat, Note(o, t)
  PROVE  readings' \in Seq([offset : Int, at : Nat])
  BY DEF DisciplineTypeOK, Note

(* A large reading extends every run, and begins one unless it is a panic. *)
LEMMA LargeExtendsRuns ==
  ASSUME DisciplineTypeOK, NEW o \in Int, NEW t \in Nat, Note(o, t), Large(o),
         NEW m \in Nat, m = Len(readings) + 1
  PROVE  /\ \A i \in 1..(m - 1) : RunStart(i)' <=> RunStart(i)
         /\ RunStart(m)' <=> Actionable(o)
<1>1. /\ Len(readings) = m - 1 /\ Len(readings') = m
      /\ \A i \in 1..(m - 1) : readings'[i] = readings[i]
      /\ readings'[m].offset = o
  BY NoteAppends
<1>2. \A i \in 1..(m - 1) : RunStart(i)' <=> RunStart(i)
  BY <1>1 DEF RunStart, Actionable, Large, Magnitude
<1>3. RunStart(m)' <=> Actionable(o)
  BY <1>1 DEF RunStart, Actionable, Large, Magnitude
<1> QED  BY <1>2, <1>3

(* A normal reading ends every run.                                        *)
LEMMA NormalEndsRuns ==
  ASSUME DisciplineTypeOK, NEW o \in Int, NEW t \in Nat, Note(o, t), ~Large(o)
  PROVE  \A i \in DOMAIN readings' : ~RunStart(i)'
<1>1. PICK m \in Nat : m = Len(readings) + 1  BY DEF DisciplineTypeOK
<1>2. /\ DOMAIN readings' = 1..m /\ Len(readings') = m
      /\ ~Large(readings'[m].offset)
  BY <1>1, NoteAppends
<1>3. SUFFICES ASSUME NEW i \in 1..m PROVE ~RunStart(i)'
  BY <1>2
<1>4. m \in i..Len(readings')  BY <1>2
<1> QED  BY <1>2, <1>4 DEF RunStart, Large

(* A reading that cannot be acted on leaves the stepout as honoured as it  *)
(* was.                                                                    *)
LEMMA StepoutKept ==
  ASSUME DisciplineTypeOK, StepoutHonoured, NEW o \in Int, NEW t \in Nat, Note(o, t),
         ~Actionable(o)
  PROVE  StepoutHonoured'
<1>1. PICK m \in Nat : m = Len(readings) + 1  BY DEF DisciplineTypeOK
<1>2. SUFFICES ASSUME NEW i \in DOMAIN readings',
                      NEW n \in DOMAIN readings', i < n,
                      Actionable(readings'[i].offset),
                      Actionable(readings'[n].offset),
                      \A j \in i..n : Large(readings'[j].offset)
               PROVE  readings'[n].at - readings'[i].at < Stepout
  BY DEF StepoutHonoured, Actionable, Large
<1>3. /\ DOMAIN readings = 1..(m - 1) /\ DOMAIN readings' = 1..m
      /\ \A k \in 1..(m - 1) : readings'[k] = readings[k]
      /\ readings'[m].offset = o
  BY <1>1, NoteAppends
<1>4. n # m  BY <1>2, <1>3
<1>5. i \in 1..(m - 1) /\ n \in 1..(m - 1)  BY <1>2, <1>3, <1>4
<1>6. \A j \in i..n : Large(readings[j].offset)  BY <1>2, <1>3, <1>5
<1> QED  BY <1>2, <1>3, <1>5, <1>6 DEF StepoutHonoured

-----------------------------------------------------------------------------
(* The inductive invariant.                                                *)

(* The process starts with no readings, so no run of large ones.           *)
LEMMA DisciplineStarts == DisciplineInit => DisciplineIInv
<1> SUFFICES ASSUME DisciplineInit PROVE DisciplineIInv  OBVIOUS
<1>1. /\ 0 \in Rates /\ frequency \in Rates
  <2>1. ReadDrift(drift) \in Int
    BY DisciplineConstants DEF DisciplineInit, ReadDrift
  <2> QED  BY <2>1, ClampIsRate, DisciplineConstants DEF DisciplineInit, Rates
<1>2. DisciplineTypeOK
  BY <1>1, DisciplineConstants DEF DisciplineInit, DisciplineTypeOK, Times, None
<1>3. ClockInv  BY DEF DisciplineInit, ClockInv, LearnsFromThisClock, None
<1>4. SpikeInv /\ StepoutHonoured
  BY DEF DisciplineInit, SpikeInv, StepoutHonoured, None
<1> QED  BY <1>2, <1>3, <1>4 DEF DisciplineIInv

(* The time of an event follows the one before it.                         *)
LEMMA EventTime ==
  ASSUME DisciplineTypeOK, NEW d \in Gaps
  PROVE  now + d \in Nat /\ now < now + d
  BY DisciplineConstants DEF DisciplineTypeOK

(* A rate is handed to the kernel or the one before it stays.              *)
LEMMA SteerKeepsRate ==
  ASSUME DisciplineTypeOK, NEW r \in Rates, Steer(r)
  PROVE  kernelRate' \in Rates
  BY DEF DisciplineTypeOK, Steer

(* Types.  Each action assigns typed values; the rates it computes are     *)
(* clamped.                                                                *)
LEMMA NextDisciplineTypes == DisciplineIInv /\ [DisciplineNext]_disciplineVars => DisciplineTypeOK'
<1> SUFFICES ASSUME DisciplineIInv, [DisciplineNext]_disciplineVars PROVE DisciplineTypeOK'  OBVIOUS
<1>0. DisciplineTypeOK /\ ClockInv  BY DEF DisciplineIInv
<1> USE <1>0
<1>1. CASE RestartLoop
  <2>1. ReadDrift(drift) \in Int
    BY DisciplineConstants DEF DisciplineTypeOK, ReadDrift
  <2>2. Clamp(ReadDrift(drift)) \in Rates  BY <2>1, ClampIsRate
  <2> QED  BY <1>1, <2>2 DEF RestartLoop, NewLoop, DisciplineTypeOK, Times, None
<1>2. CASE GoManual
  BY <1>2 DEF GoManual, DisciplineTypeOK, loop
<1>3. CASE GoAutomatic
  <2>1. Clamp(frequency) \in Rates
    BY ClampIsRate, DisciplineConstants DEF DisciplineTypeOK, Rates
  <2> QED  BY <1>3, <2>1 DEF GoAutomatic, NewLoop, DisciplineTypeOK, Times, None
<1>4. CASE Persist
  BY <1>4, DisciplineConstants DEF Persist, DisciplineTypeOK, loop, Rates
<1>5. ASSUME NEW o \in Offsets, NEW d \in Gaps,
             \/ FirstOffsetLarge(o, now + d) \/ StepOut(o, now + d)
      PROVE  DisciplineTypeOK'
  <2>1. /\ o \in Int /\ now + d \in Nat /\ 0 \in Int
    BY DisciplineConstants, EventTime
  <2>2. PICK lo \in Int : TakeStep(o, now + d, lo) /\ Fed(now + d)
    BY <1>5, <2>1 DEF FirstOffsetLarge, StepOut
  <2>3. kernelRate' \in Rates
    BY <2>2, SteerKeepsRate DEF TakeStep, DisciplineTypeOK
  <2> QED
    BY <2>1, <2>2, <2>3
    DEF TakeStep, Stepped, StepRefused, Fed, DisciplineTypeOK, Times, None
<1>6. ASSUME NEW o \in Offsets, NEW d \in Gaps,
             \/ FirstOffsetSmall(o, now + d) \/ CorrectPhase(o, now + d)
      PROVE  DisciplineTypeOK'
  <2>1. o \in Int /\ now + d \in Nat
    BY DisciplineConstants, EventTime
  <2>2. SteerFor(frequency, o, TimeConstant * StartInterval) \in Rates
    <3>1. TimeConstant * StartInterval \in Nat \ {0}
      BY DisciplineConstants
    <3>2. frequency \in Int  BY DisciplineConstants DEF DisciplineTypeOK, Rates
    <3> QED  BY <2>1, <3>1, <3>2, SteerForIsRate
  <2>3. /\ Steer(SteerFor(frequency, o, TimeConstant * StartInterval))
        /\ Note(o, now + d) /\ Fed(now + d)
    BY <1>6 DEF FirstOffsetSmall, CorrectPhase
  <2>4. kernelRate' \in Rates  BY <2>2, <2>3, SteerKeepsRate
  <2>5. readings' \in Seq([offset : Int, at : Nat])
    BY <2>1, <2>3, NoteTyped
  <2> QED
    BY <1>6, <2>1, <2>4, <2>5
    DEF FirstOffsetSmall, CorrectPhase, Fed, DisciplineTypeOK, Times, None
<1>7. ASSUME NEW o \in Offsets, NEW d \in Gaps,
             \/ RefusePanic(o, now + d) \/ HoldSpike(o, now + d)
      PROVE  DisciplineTypeOK'
  <2>1. o \in Int /\ now + d \in Nat
    BY DisciplineConstants, EventTime
  <2>2. Note(o, now + d) /\ Fed(now + d)
    BY <1>7 DEF RefusePanic, HoldSpike
  <2>3. readings' \in Seq([offset : Int, at : Nat])
    BY <2>1, <2>2, NoteTyped
  <2> QED
    BY <1>7, <2>1, <2>3
    DEF RefusePanic, HoldSpike, Since, Fed, DisciplineTypeOK, Times, None, loop
<1>8. ASSUME NEW o \in Offsets, NEW d \in Gaps,
             CorrectFrequency(o, now + d)
      PROVE  DisciplineTypeOK'
  <2>0. PICK t \in Nat : t = now + d /\ now < t
    BY EventTime
  <2>1. o \in Int /\ CorrectFrequency(o, t)
    BY <1>8, <2>0, DisciplineConstants
  <2>2. PICK mu \in Nat \ {0} : mu = t - lastUpdate
    BY <2>0, <2>1 DEF CorrectFrequency, DisciplineTypeOK, Times, None, ClockInv
  <2>3. Learn(o, mu) \in Rates  BY <2>1, <2>2, LearnIsRate
  <2>4. /\ frequency' = Learn(o, mu)
        /\ Steer(SteerFor(frequency', o, SettlingTime(mu)))
        /\ Note(o, t) /\ Fed(t)
    BY <2>1, <2>2 DEF CorrectFrequency
  <2>5. SteerFor(frequency', o, SettlingTime(mu)) \in Rates
    <3>1. SettlingTime(mu) \in Nat \ {0}  BY <2>2, SettlingTimePositive
    <3>2. frequency' \in Int
      BY <2>3, <2>4, DisciplineConstants DEF Rates
    <3> QED  BY <2>1, <3>1, <3>2, SteerForIsRate
  <2>6. kernelRate' \in Rates  BY <2>4, <2>5, SteerKeepsRate
  <2>7. readings' \in Seq([offset : Int, at : Nat])
    BY <2>1, <2>4, NoteTyped
  <2> QED
    BY <2>1, <2>3, <2>4, <2>6, <2>7
    DEF CorrectFrequency, Fed, DisciplineTypeOK, Times, None
<1>9. ASSUME NEW o \in Offsets, NEW d \in Gaps, SetByHand(o, now + d)
      PROVE  DisciplineTypeOK'
  <2>1. o \in Int /\ now + d \in Nat
    BY DisciplineConstants, EventTime
  <2>2. kernelRate' \in Rates
    BY <1>9, SteerKeepsRate DEF SetByHand, DisciplineTypeOK
  <2> QED  BY <1>9, <2>1, <2>2 DEF SetByHand, DisciplineTypeOK, loop
<1>10. CASE UNCHANGED disciplineVars
  BY <1>10 DEF disciplineVars, loop, DisciplineTypeOK
<1> QED
  BY <1>1, <1>2, <1>3, <1>4, <1>5, <1>6, <1>7, <1>8, <1>9, <1>10 DEF DisciplineNext

(* The clock's last move, by any hand, never comes after a lastUpdate the  *)
(* loop would integrate from.                                              *)
LEMMA NextClockInv == DisciplineIInv /\ [DisciplineNext]_disciplineVars => ClockInv'
<1> SUFFICES ASSUME DisciplineIInv, [DisciplineNext]_disciplineVars PROVE ClockInv'  OBVIOUS
<1>0. DisciplineTypeOK /\ ClockInv  BY DEF DisciplineIInv
<1> USE <1>0 DEF ClockInv, LearnsFromThisClock
<1>1. CASE RestartLoop \/ GoAutomatic
  BY <1>1 DEF RestartLoop, GoAutomatic, NewLoop, DisciplineTypeOK, None
<1>2. CASE GoManual
  BY <1>2 DEF GoManual, loop
<1>3. CASE Persist
  BY <1>3 DEF Persist, loop
<1>4. ASSUME NEW o \in Offsets, NEW d \in Gaps,
             \/ FirstOffsetLarge(o, now + d) \/ StepOut(o, now + d)
      PROVE  ClockInv'
  <2>1. PICK t \in Nat : t = now + d /\ now < t  BY EventTime
  <2>2. TakeStep(o, t, o) \/ TakeStep(o, t, 0)
    BY <1>4, <2>1 DEF FirstOffsetLarge, StepOut
  <2>3. now' = t  BY <1>4, <2>1 DEF FirstOffsetLarge, StepOut, Fed
  <2> QED
    BY <2>1, <2>2, <2>3 DEF TakeStep, Stepped, StepRefused, DisciplineTypeOK, None
<1>5. ASSUME NEW o \in Offsets, NEW d \in Gaps,
             \/ FirstOffsetSmall(o, now + d) \/ CorrectPhase(o, now + d)
             \/ CorrectFrequency(o, now + d)
      PROVE  ClockInv'
  <2>1. PICK t \in Nat : t = now + d /\ now < t  BY EventTime
  <2> QED
    BY <1>5, <2>1
    DEF FirstOffsetSmall, CorrectPhase, CorrectFrequency, Fed, DisciplineTypeOK,
        Times, None
<1>6. ASSUME NEW o \in Offsets, NEW d \in Gaps,
             \/ RefusePanic(o, now + d) \/ HoldSpike(o, now + d)
      PROVE  ClockInv'
  <2>1. PICK t \in Nat : t = now + d /\ now < t  BY EventTime
  <2> QED
    BY <1>6, <2>1
    DEF RefusePanic, HoldSpike, Since, Fed, DisciplineTypeOK, Times, None, loop
<1>7. ASSUME NEW o \in Offsets, NEW d \in Gaps, SetByHand(o, now + d)
      PROVE  ClockInv'
  <2>1. PICK t \in Nat : t = now + d /\ now < t  BY EventTime
  <2> QED
    BY <1>7, <2>1 DEF SetByHand, DisciplineTypeOK, Times, None, loop
<1>8. CASE UNCHANGED disciplineVars
  BY <1>8 DEF disciplineVars, loop
<1> QED
  BY <1>1, <1>2, <1>3, <1>4, <1>5, <1>6, <1>7, <1>8 DEF DisciplineNext

(* spikeSince tells when the run of large readings began, and no reading   *)
(* joins a run Stepout old.                                                *)
LEMMA NextSpikeInv == DisciplineIInv /\ [DisciplineNext]_disciplineVars => SpikeInv' /\ StepoutHonoured'
<1> SUFFICES ASSUME DisciplineIInv, [DisciplineNext]_disciplineVars PROVE SpikeInv' /\ StepoutHonoured'
  OBVIOUS
<1>0. DisciplineTypeOK /\ SpikeInv /\ StepoutHonoured /\ spikeSince <= now
  BY DEF DisciplineIInv, ClockInv
<1> USE <1>0
<1>1. CASE RestartLoop \/ GoAutomatic
  BY <1>1 DEF RestartLoop, GoAutomatic, NewLoop, SpikeInv, StepoutHonoured, None
<1>2. CASE GoManual \/ Persist \/ UNCHANGED disciplineVars
  <2>1. UNCHANGED <<state, spikeSince, readings>>
    BY <1>2 DEF GoManual, Persist, disciplineVars, loop
  <2> QED
    BY <2>1 DEF SpikeInv, StepoutHonoured, RunStart
<1>3. ASSUME NEW o \in Offsets, NEW d \in Gaps, SetByHand(o, now + d)
      PROVE  SpikeInv' /\ StepoutHonoured'
  <2>1. UNCHANGED <<state, spikeSince, readings>>
    BY <1>3 DEF SetByHand, loop
  <2> QED
    BY <2>1 DEF SpikeInv, StepoutHonoured, RunStart
<1>4. ASSUME NEW o \in Offsets, NEW d \in Gaps,
             \/ FirstOffsetLarge(o, now + d) \/ StepOut(o, now + d)
      PROVE  SpikeInv' /\ StepoutHonoured'
  <2>1. readings' = << >> /\ spikeSince' = None /\ state' = "settling"
    BY <1>4 DEF FirstOffsetLarge, StepOut, TakeStep
  <2> QED  BY <2>1 DEF SpikeInv, StepoutHonoured
<1>5. ASSUME NEW o \in Offsets, NEW d \in Gaps,
             \/ FirstOffsetSmall(o, now + d) \/ CorrectPhase(o, now + d)
             \/ CorrectFrequency(o, now + d)
      PROVE  SpikeInv' /\ StepoutHonoured'
  <2>1. /\ o \in Int /\ now + d \in Nat
        /\ Note(o, now + d) /\ ~Large(o)
        /\ spikeSince' = None /\ state' # "startup"
    BY <1>5, EventTime, DisciplineConstants
    DEF FirstOffsetSmall, CorrectPhase, CorrectFrequency, NormalOffset,
        SpikeInv
  <2>2. SpikeInv'  BY <2>1, NormalEndsRuns DEF SpikeInv
  <2>3. StepoutHonoured'  BY <2>1, StepoutKept DEF Actionable
  <2> QED  BY <2>2, <2>3
<1>6. ASSUME NEW o \in Offsets, NEW d \in Gaps, RefusePanic(o, now + d)
      PROVE  SpikeInv' /\ StepoutHonoured'
  <2>1. /\ o \in Int /\ now + d \in Nat
        /\ Note(o, now + d) /\ Large(o) /\ ~Actionable(o)
        /\ UNCHANGED <<state, spikeSince>> /\ state # "startup"
    BY <1>6, EventTime, DisciplineConstants
    DEF RefusePanic, Large, Actionable, Magnitude, loop
  <2>2. PICK m \in Nat : m = Len(readings) + 1  BY DEF DisciplineTypeOK
  <2>3. /\ DOMAIN readings' = 1..m /\ DOMAIN readings = 1..(m - 1)
        /\ \A i \in 1..(m - 1) : readings'[i] = readings[i]
    BY <2>1, <2>2, NoteAppends
  <2>4. \A i \in 1..m : RunStart(i)' <=> i # m /\ RunStart(i)
    BY <2>1, <2>2, LargeExtendsRuns
  <2>5. CASE spikeSince = None
    <3>1. SpikeInv'  BY <2>5, <2>1, <2>3, <2>4 DEF SpikeInv
    <3> QED  BY <2>1, <3>1, StepoutKept
  <2>6. CASE spikeSince # None
    <3>1. PICK i \in 1..(m - 1) : RunStart(i) /\ readings[i].at = spikeSince
      BY <2>6, <2>3 DEF SpikeInv
    <3>2. i \in 1..m /\ RunStart(i)' /\ readings'[i].at = spikeSince
      BY <3>1, <2>2, <2>3, <2>4
    <3>3. \A k \in 1..m : RunStart(k)' => spikeSince <= readings'[k].at
      BY <2>6, <2>2, <2>3, <2>4 DEF SpikeInv
    <3>4. SpikeInv'  BY <2>6, <2>1, <2>3, <3>2, <3>3 DEF SpikeInv
    <3> QED  BY <2>1, <3>4, StepoutKept
  <2> QED  BY <2>5, <2>6
<1>7. ASSUME NEW o \in Offsets, NEW d \in Gaps, HoldSpike(o, now + d)
      PROVE  SpikeInv' /\ StepoutHonoured'
  <2>0. PICK t \in Nat : t = now + d /\ now < t  BY EventTime
  <2>1. /\ o \in Int /\ Note(o, t) /\ Large(o) /\ Actionable(o)
        /\ state' = "spike" /\ spikeSince' = Since(t)
        /\ t - Since(t) < Stepout
    BY <1>7, <2>0, DisciplineConstants
    DEF HoldSpike, LargeOffset, Actionable
  <2>2. PICK m \in Nat : m = Len(readings) + 1 /\ 0 < m  BY DEF DisciplineTypeOK
  <2>3. /\ DOMAIN readings' = 1..m /\ DOMAIN readings = 1..(m - 1)
        /\ \A i \in 1..(m - 1) : readings'[i] = readings[i]
        /\ readings'[m].at = t /\ m \in 1..m
    <3>1. m \in 1..m  BY <2>2
    <3>2. o \in Int /\ t \in Nat /\ Note(o, t) /\ m = Len(readings) + 1
      BY <2>0, <2>1, <2>2
    <3>3. /\ DOMAIN readings' = 1..m /\ DOMAIN readings = 1..(m - 1)
          /\ \A i \in 1..(m - 1) : readings'[i] = readings[i]
          /\ readings'[m].at = t
      BY <3>2, NoteAppends
    <3> QED  BY <3>1, <3>3
  <2>4. \A i \in 1..m : RunStart(i)' <=> i = m \/ RunStart(i)
    BY <2>1, <2>2, LargeExtendsRuns
  <2>5. /\ Since(t) \in Nat
        /\ spikeSince # None => Since(t) = spikeSince
        /\ spikeSince = None => Since(t) = t
        /\ Since(t) <= t
    BY <2>0 DEF Since, DisciplineTypeOK, Times
  <2>6. \A i \in 1..m : RunStart(i)' => Since(t) <= readings'[i].at
    <3>1. CASE spikeSince = None
      BY <3>1, <2>2, <2>3, <2>4, <2>5 DEF SpikeInv
    <3>2. CASE spikeSince # None
      BY <3>2, <2>2, <2>3, <2>4, <2>5 DEF SpikeInv
    <3> QED  BY <3>1, <3>2
  <2>7. \E i \in 1..m : RunStart(i)' /\ readings'[i].at = Since(t)
    <3>1. CASE spikeSince = None
      BY <3>1, <2>3, <2>4, <2>5
    <3>2. CASE spikeSince # None
      <4>1. PICK i \in 1..(m - 1) :
               RunStart(i) /\ readings[i].at = spikeSince
        BY <3>2, <2>3 DEF SpikeInv
      <4>2. i \in 1..m /\ RunStart(i)' /\ readings'[i].at = spikeSince
        BY <4>1, <2>2, <2>3, <2>4
      <4> QED  BY <3>2, <4>2, <2>5
    <3> QED  BY <3>1, <3>2
  <2>8. SpikeInv'
    BY <2>1, <2>3, <2>5, <2>6, <2>7 DEF SpikeInv, None
  <2>9. StepoutHonoured'
    <3>1. SUFFICES ASSUME NEW i \in DOMAIN readings',
                          NEW n \in DOMAIN readings', i < n,
                          Actionable(readings'[i].offset),
                          Actionable(readings'[n].offset),
                          \A j \in i..n : Large(readings'[j].offset)
                   PROVE  readings'[n].at - readings'[i].at < Stepout
      BY DEF StepoutHonoured, Actionable, Large
    <3>2. i \in 1..(m - 1) /\ n \in 1..m  BY <2>3, <3>1
    <3>3. CASE n = m
      <4>1. RunStart(i)'
        BY <3>1, <3>2, <3>3, <2>1, <2>2, NoteAppends
        DEF RunStart, Actionable, Large
      <4>2. Since(t) <= readings'[i].at  BY <4>1, <3>2, <2>6
      <4>3. readings'[i].at \in Int
        <5>1. i \in 1..Len(readings)  BY <3>2, <2>2, DisciplineTypeOK DEF DisciplineTypeOK
        <5>2. readings \in Seq([offset : Int, at : Nat])  BY DEF DisciplineTypeOK
        <5>3. readings[i] \in [offset : Int, at : Nat]
          BY <5>1, <5>2, ElementOfSeq
        <5>4. readings[i].at \in Int  BY <5>3
        <5> QED  BY <5>4, <3>2, <2>3
      <4> QED  BY <4>2, <4>3, <2>0, <2>1, <2>3, <2>5, <3>3, DisciplineConstants
    <3>4. CASE n # m
      <4>1. n \in 1..(m - 1)  BY <3>2, <3>4
      <4>2. \A j \in i..n : Large(readings[j].offset)
        BY <4>1, <3>1, <3>2, <2>3
      <4> QED  BY <4>1, <4>2, <3>1, <3>2, <2>3 DEF StepoutHonoured
    <3> QED  BY <3>3, <3>4
  <2> QED  BY <2>8, <2>9
<1>8. QED
  BY <1>1, <1>2, <1>3, <1>4, <1>5, <1>6, <1>7 DEF DisciplineNext

(* Every step keeps the invariant.                                         *)
LEMMA DisciplineKeeps == DisciplineIInv /\ [DisciplineNext]_disciplineVars => DisciplineIInv'
  BY NextDisciplineTypes, NextClockInv, NextSpikeInv DEF DisciplineIInv

(* The invariant holds in every reachable state.                           *)
THEOREM DisciplineInvariance == DisciplineSpec => []DisciplineIInv
  BY DisciplineStarts, DisciplineKeeps, PTL DEF DisciplineSpec

-----------------------------------------------------------------------------
(* The invariants.                                                         *)

(* Every variable keeps its type, and every rate the loop learns, writes   *)
(* to the drift file's reader or hands to the kernel is in the tolerance.  *)
THEOREM DisciplineTypeCorrect == DisciplineSpec => []DisciplineTypeOK
<1>1. DisciplineIInv => DisciplineTypeOK  BY DEF DisciplineIInv
<1> QED  BY <1>1, DisciplineInvariance, PTL

(* A large offset is not held past the stepout.                            *)
THEOREM StepoutIsHonoured == DisciplineSpec => []StepoutHonoured
<1>1. DisciplineIInv => StepoutHonoured  BY DEF DisciplineIInv
<1> QED  BY <1>1, DisciplineInvariance, PTL

(* The frequency is learned from readings of the clock as it last was set. *)
THEOREM NoIntervalSpansAMove == DisciplineSpec => []LearnsFromThisClock
<1>1. DisciplineIInv => LearnsFromThisClock  BY DEF DisciplineIInv, ClockInv
<1> QED  BY <1>1, DisciplineInvariance, PTL

-----------------------------------------------------------------------------
(* Discipline implements StepPolicy.                                       *)

(* The first states of the servo are first states of the policy.           *)
LEMMA PolicyBegins == DisciplineInit => Policy!PolicyInit
  BY DEF DisciplineInit, Policy!PolicyInit

(* The reading that began the run spikeSince remembers is the witness that *)
(* the run has persisted.                                                  *)
LEMMA StepOutPersisted ==
  ASSUME DisciplineIInv, NEW o \in Int, NEW t \in Nat, StepOut(o, t)
  PROVE  Policy!Persisted(t)
<1>1. /\ DisciplineTypeOK /\ SpikeInv /\ Stepout \in Nat \ {0}
  BY DisciplineConstants DEF DisciplineIInv
<1>2. t - Since(t) >= Stepout  BY DEF StepOut
<1>3. spikeSince # None  BY <1>1, <1>2 DEF Since
<1>4. PICK i \in DOMAIN readings : RunStart(i) /\ readings[i].at = spikeSince
  BY <1>1, <1>3 DEF SpikeInv
<1>5. readings[i].at + Stepout <= t
  BY <1>1, <1>2, <1>3, <1>4 DEF Since, DisciplineTypeOK, Times
<1> QED
  BY <1>4, <1>5
  DEF RunStart, Large, Magnitude, Policy!Persisted, Policy!Large,
      Policy!Magnitude

(* A step the servo takes is one the policy lets it take.                  *)
LEMMA StepIsAllowed ==
  ASSUME DisciplineIInv, NEW o \in Offsets, NEW d \in Gaps,
         FirstOffsetLarge(o, now + d) \/ StepOut(o, now + d)
  PROVE  Policy!StepFromSources(o, now + d)
<1>1. o \in Int /\ now + d \in Nat
  BY EventTime, DisciplineConstants DEF DisciplineIInv
<1>2. Policy!Large(o)
  BY DEF FirstOffsetLarge, StepOut, LargeOffset, Large, Magnitude,
         Policy!Large, Policy!Magnitude
<1>3. state # "startup" => /\ Policy!Magnitude(o) <= PanicThreshold
                          /\ Policy!Persisted(now + d)
  BY <1>1, StepOutPersisted
  DEF FirstOffsetLarge, StepOut, LargeOffset, Magnitude, Policy!Magnitude
<1>4. /\ automatic /\ automatic' = automatic /\ now' = now + d
      /\ state' # "startup" /\ readings' = << >>
      /\ displacement' \in {displacement, displacement + o}
  BY DEF FirstOffsetLarge, StepOut, TakeStep, Stepped, StepRefused, Fed
<1> QED  BY <1>2, <1>3, <1>4 DEF Policy!StepFromSources

(* Every step of the servo is a step of the policy or none.                *)
LEMMA PolicyStep ==
  DisciplineIInv /\ [DisciplineNext]_disciplineVars => [Policy!PolicyNext]_(Policy!policyVars)
<1> SUFFICES ASSUME DisciplineIInv, [DisciplineNext]_disciplineVars
             PROVE  [Policy!PolicyNext]_(Policy!policyVars)
  OBVIOUS
<1> USE DEF Policy!PolicyNext
<1>1. CASE RestartLoop \/ GoAutomatic
  <2>1. Policy!BeginAfresh
    BY <1>1 DEF RestartLoop, GoAutomatic, NewLoop, Policy!BeginAfresh
  <2> QED  BY <2>1
<1>2. CASE GoManual
  <2>1. Policy!GiveToPerson
    BY <1>2 DEF GoManual, loop, Policy!GiveToPerson
  <2> QED  BY <2>1
<1>3. CASE Persist \/ UNCHANGED disciplineVars
  BY <1>3 DEF Persist, disciplineVars, loop, Policy!policyVars
<1>4. ASSUME NEW o \in Offsets, NEW d \in Gaps,
             FirstOffsetLarge(o, now + d) \/ StepOut(o, now + d)
      PROVE  Policy!PolicyNext
  BY <1>4, StepIsAllowed
<1>5. ASSUME NEW o \in Offsets, NEW d \in Gaps,
             \/ FirstOffsetSmall(o, now + d) \/ RefusePanic(o, now + d)
             \/ HoldSpike(o, now + d) \/ CorrectPhase(o, now + d)
             \/ CorrectFrequency(o, now + d)
      PROVE  Policy!PolicyNext
  <2>1. state' # "startup"
    BY <1>5
    DEF FirstOffsetSmall, RefusePanic, HoldSpike, CorrectPhase,
        CorrectFrequency, NormalOffset, loop
  <2>2. Policy!TakeReading(o, now + d)
    BY <1>5, <2>1
    DEF FirstOffsetSmall, RefusePanic, HoldSpike, CorrectPhase,
        CorrectFrequency, Fed, Note, Policy!TakeReading
  <2> QED  BY <2>2
<1>6. ASSUME NEW o \in Offsets, NEW d \in Gaps, SetByHand(o, now + d)
      PROVE  Policy!PolicyNext
  <2>1. Policy!StepByPerson(o, now + d)
    BY <1>6 DEF SetByHand, loop, Policy!StepByPerson
  <2> QED  BY <2>1
<1> QED
  BY <1>1, <1>2, <1>3, <1>4, <1>5, <1>6 DEF DisciplineNext

(* The clock is stepped by its sources only on a first reading or after    *)
(* the stepout, for every choice of thresholds, offsets and intervals.     *)
THEOREM ImplementsStepPolicy == DisciplineSpec => StepsEarned
<1>1. DisciplineInit => Policy!PolicyInit  BY PolicyBegins
<1>2. DisciplineIInv /\ [DisciplineNext]_disciplineVars => [Policy!PolicyNext]_(Policy!policyVars)
  BY PolicyStep
<1> QED
  BY <1>1, <1>2, DisciplineInvariance, PTL DEF DisciplineSpec, StepsEarned, Policy!PolicySpec
=============================================================================
