----------------------------- MODULE Discipline -----------------------------
(***************************************************************************)
(* The clock discipline (timed/src/discipline.rs) with the handlers of the *)
(* main loop that feed it and carry out what it asks (Timed::apply,        *)
(* set_by_hand, reload, persist) and the drift file it starts from         *)
(* (state.rs).                                                             *)
(*                                                                         *)
(* Offsets, times and rates are integers in units the constants choose: a  *)
(* rate of RateScale removes one unit of offset per unit of time, and a    *)
(* quotient is rounded down where the code keeps a fraction, the file's    *)
(* rounding to a thousandth of a ppm included.  Left out: the loop jitter  *)
(* and the totals kept for reports, and offsets that are not finite (a     *)
(* sample is computed from integer timestamps).  The slew is not a         *)
(* variable: the code reads it only to add it to the rate it is handing    *)
(* to the kernel, which is kernelRate here.                                *)
(*                                                                         *)
(* readings, displacement and movedAt are history: no action reads them.   *)
(***************************************************************************)
EXTENDS Integers, Sequences

CONSTANTS
    StepThreshold, PanicThreshold, Stepout,
    MaxFrequency,     \* the tolerance, 500 ppm
    TimeConstant,     \* settling time as a multiple of the interval
    StartInterval,    \* the interval assumed before two readings exist
    FllInterval,      \* from here on the frequency is also measured directly
    RateScale,        \* rate units per (offset unit / time unit)
    DriftInterval,    \* how often the drift file is written
    DriftFiles,       \* what the drift file may hold at start
    Offsets, Gaps,
    SteerMayFail,     \* adjtimex may refuse a rate
    MaxTime           \* bound on now

ASSUME DisciplineConstants ==
    /\ StepThreshold \in Nat /\ PanicThreshold \in Nat
    /\ StepThreshold <= PanicThreshold /\ Stepout \in Nat \ {0}
    /\ MaxFrequency \in Nat /\ RateScale \in Nat
    /\ TimeConstant \in Nat \ {0} /\ StartInterval \in Nat \ {0}
    /\ FllInterval \in Nat /\ DriftInterval \in Nat /\ MaxTime \in Nat
    /\ DriftFiles \subseteq Int /\ Offsets \subseteq Int
    /\ Gaps \subseteq Nat \ {0} /\ SteerMayFail \in BOOLEAN

VARIABLES
    automatic,      \* config.automatic
    state, frequency, lastUpdate, lastOffset, spikeSince, updates,
    kernelRate,     \* the rate last handed to adjtimex
    drift,          \* the drift file; one that is absent or unreadable is
                    \* any value outside the tolerance
    lastDriftWrite,
    now,
    readings, displacement, movedAt

loop == <<state, frequency, lastUpdate, lastOffset, spikeSince, updates>>
disciplineVars == <<automatic, loop, kernelRate, drift, lastDriftWrite, now,
          readings, displacement, movedAt>>

None == -1     \* Option::None of a time

Policy == INSTANCE StepPolicy WITH believed <- state # "startup"

-----------------------------------------------------------------------------
(* Operators *)

Magnitude(o) == IF o < 0 THEN -o ELSE o
Large(o) == Magnitude(o) > StepThreshold

NotClamped(r) == r
Clamp(r) == IF r > MaxFrequency THEN MaxFrequency
            ELSE IF r < -MaxFrequency THEN -MaxFrequency ELSE r

(* A file that is not a plausible frequency is ignored, not clamped.       *)
ReadDrift(f) == IF Magnitude(f) <= MaxFrequency THEN f ELSE 0

(* The proportional term over a settling time of t, with the frequency.    *)
SteerFor(f, o, t) == Clamp(f + (2 * RateScale * o) \div t)

SettlingTime(mu) == IF TimeConstant * mu > 1 THEN TimeConstant * mu ELSE 1

(* The integral term, and over a long interval the frequency-locked one.   *)
Learn(o, mu) ==
    Clamp(frequency
          + (RateScale * o * mu) \div (SettlingTime(mu) * SettlingTime(mu))
          + (IF mu >= FllInterval
             THEN (RateScale * (o - lastOffset)) \div (4 * mu) ELSE 0))

-----------------------------------------------------------------------------
(* Starting: the process, and the return from being set by hand. *)

NewLoop(f) ==
    /\ state' = "startup"
    /\ frequency' = Clamp(f)
    /\ lastUpdate' = None
    /\ lastOffset' = 0
    /\ spikeSince' = None
    /\ updates' = 0
    /\ readings' = << >>
    /\ movedAt' = now

DisciplineInit ==
    /\ automatic \in BOOLEAN
    /\ drift \in DriftFiles
    /\ state = "startup"
    /\ frequency = Clamp(ReadDrift(drift))
    /\ lastUpdate = None /\ lastOffset = 0 /\ spikeSince = None
    /\ updates = 0
    /\ kernelRate = 0
    /\ lastDriftWrite = 0
    /\ now = 0
    /\ readings = << >> /\ displacement = 0 /\ movedAt = 0

(* timed ends and starts again.  The kernel keeps the rate it was given.   *)
RestartLoop ==
    /\ automatic' \in BOOLEAN
    /\ NewLoop(ReadDrift(drift))
    /\ lastDriftWrite' = 0
    /\ UNCHANGED <<kernelRate, drift, now, displacement>>

GoManual ==
    /\ automatic
    /\ automatic' = FALSE
    /\ UNCHANGED <<loop, kernelRate, drift, lastDriftWrite, now,
                   readings, displacement, movedAt>>

KeepsOldLoop ==
    /\ ~automatic
    /\ automatic' = TRUE
    /\ UNCHANGED <<loop, kernelRate, drift, lastDriftWrite, now,
                   readings, displacement, movedAt>>
GoAutomatic ==
    /\ ~automatic
    /\ automatic' = TRUE
    /\ NewLoop(frequency)
    /\ UNCHANGED <<kernelRate, drift, lastDriftWrite, now, displacement>>

-----------------------------------------------------------------------------
(* One agreed offset o fed to the loop at time t.  adjtimex may fail, and  *)
(* a failure is only logged.                                               *)

Steer(rate) == kernelRate' = rate \/ (SteerMayFail /\ kernelRate' = kernelRate)

Note(o, t) == readings' = Append(readings, [offset |-> o, at |-> t])

Fed(t) ==
    /\ automatic
    /\ t <= MaxTime
    /\ now' = t
    /\ UNCHANGED <<automatic, drift, lastDriftWrite>>

(* clock.step succeeded: whatever was measured before is void.             *)
Stepped(o, t) ==
    /\ displacement' = displacement + o
    /\ movedAt' = t
    /\ lastUpdate' = None
    /\ lastOffset' = 0

(* clock.step failed: the discipline is left as if it had not.             *)
StepRefused(leftOffset, t) ==
    /\ lastUpdate' = t
    /\ lastOffset' = leftOffset
    /\ UNCHANGED <<displacement, movedAt>>

TakeStep(o, t, leftOffset) ==
    /\ \/ Stepped(o, t)
       \/ StepRefused(leftOffset, t)
    /\ state' = "settling"
    /\ spikeSince' = None
    /\ updates' = updates + 1
    /\ readings' = << >>
    /\ Steer(frequency)
    /\ UNCHANGED frequency

FirstOffsetLarge(o, t) ==
    /\ state = "startup"
    /\ Large(o)
    /\ Fed(t)
    /\ TakeStep(o, t, o)

FirstOffsetSmall(o, t) ==
    /\ state = "startup"
    /\ ~Large(o)
    /\ Fed(t)
    /\ state' = "settling"
    /\ lastUpdate' = t
    /\ lastOffset' = o
    /\ updates' = updates + 1
    /\ Steer(SteerFor(frequency, o, TimeConstant * StartInterval))
    /\ Note(o, t)
    /\ UNCHANGED <<frequency, spikeSince, displacement, movedAt>>

RefusePanic(o, t) ==
    /\ state # "startup"
    /\ Magnitude(o) > PanicThreshold
    /\ Fed(t)
    /\ Note(o, t)
    /\ UNCHANGED <<loop, kernelRate, displacement, movedAt>>

(* A large offset: spikeSince.get_or_insert(t).                            *)
SinceLatest(t) == t
Since(t) == IF spikeSince = None THEN t ELSE spikeSince

LargeOffset(o) ==
    /\ state # "startup"
    /\ Magnitude(o) <= PanicThreshold
    /\ Large(o)

HoldSpike(o, t) ==
    /\ LargeOffset(o)
    /\ t - Since(t) < Stepout
    /\ Fed(t)
    /\ spikeSince' = Since(t)
    /\ state' = "spike"
    /\ Note(o, t)
    /\ UNCHANGED <<frequency, lastUpdate, lastOffset, updates, kernelRate,
                   displacement, movedAt>>

StepOut(o, t) ==
    /\ LargeOffset(o)
    /\ t - Since(t) >= Stepout
    /\ Fed(t)
    /\ TakeStep(o, t, 0)

NormalOffset(o) ==
    /\ state # "startup"
    /\ Magnitude(o) <= PanicThreshold
    /\ ~Large(o)

(* No interval to integrate over yet: the phase alone.                     *)
CorrectPhase(o, t) ==
    /\ NormalOffset(o)
    /\ lastUpdate = None
    /\ Fed(t)
    /\ spikeSince' = None
    /\ state' = IF state = "spike" THEN "settling" ELSE state
    /\ lastUpdate' = t
    /\ lastOffset' = o
    /\ updates' = updates + 1
    /\ Steer(SteerFor(frequency, o, TimeConstant * StartInterval))
    /\ Note(o, t)
    /\ UNCHANGED <<frequency, displacement, movedAt>>

SpikeNotEnded(o, t) ==
    /\ NormalOffset(o)
    /\ lastUpdate # None
    /\ Fed(t)
    /\ frequency' = Learn(o, t - lastUpdate)
    /\ state' = IF updates + 1 > 4 THEN "synchronised" ELSE state
    /\ lastUpdate' = t
    /\ lastOffset' = o
    /\ updates' = updates + 1
    /\ Steer(SteerFor(frequency', o, SettlingTime(t - lastUpdate)))
    /\ Note(o, t)
    /\ UNCHANGED <<spikeSince, displacement, movedAt>>
CorrectFrequency(o, t) ==
    /\ NormalOffset(o)
    /\ lastUpdate # None
    /\ Fed(t)
    /\ spikeSince' = None
    /\ frequency' = Learn(o, t - lastUpdate)
    /\ state' = IF updates + 1 > 4 THEN "synchronised"
                ELSE IF state = "spike" THEN "settling" ELSE state
    /\ lastUpdate' = t
    /\ lastOffset' = o
    /\ updates' = updates + 1
    /\ Steer(SteerFor(frequency', o, SettlingTime(t - lastUpdate)))
    /\ Note(o, t)
    /\ UNCHANGED <<displacement, movedAt>>

-----------------------------------------------------------------------------
(* A person sets the clock; a step that fails changes nothing.             *)
SetByHand(by, t) ==
    /\ ~automatic
    /\ t <= MaxTime
    /\ displacement' = displacement + by
    /\ movedAt' = t
    /\ now' = t
    /\ Steer(frequency)
    /\ UNCHANGED <<automatic, loop, drift, lastDriftWrite, readings>>

(* The write may fail, and is not tried again before the next interval.    *)
Persist ==
    /\ updates >= 4
    /\ now - lastDriftWrite >= DriftInterval
    /\ lastDriftWrite' = now
    /\ drift' \in {frequency, drift}
    /\ UNCHANGED <<automatic, loop, kernelRate, now, readings, displacement,
                   movedAt>>

DisciplineNext ==
    \/ RestartLoop
    \/ GoManual
    \/ GoAutomatic
    \/ Persist
    \/ \E o \in Offsets, d \in Gaps :
          \/ FirstOffsetLarge(o, now + d)
          \/ FirstOffsetSmall(o, now + d)
          \/ RefusePanic(o, now + d)
          \/ HoldSpike(o, now + d)
          \/ StepOut(o, now + d)
          \/ CorrectPhase(o, now + d)
          \/ CorrectFrequency(o, now + d)
          \/ SetByHand(o, now + d)

DisciplineSpec == DisciplineInit /\ [][DisciplineNext]_disciplineVars

-----------------------------------------------------------------------------
(* Properties *)

Times == Nat \cup {None}
Rates == -MaxFrequency..MaxFrequency

(* The kernel is never asked for more than the tolerance, and the loop     *)
(* never learns more: not from a corrupt drift file, not from the slew on  *)
(* top of a saturated frequency, not over any number of restarts.          *)
DisciplineTypeOK ==
    /\ automatic \in BOOLEAN
    /\ state \in {"startup", "settling", "synchronised", "spike"}
    /\ frequency \in Rates /\ kernelRate \in Rates /\ lastOffset \in Int
    /\ lastUpdate \in Times /\ spikeSince \in Times
    /\ updates \in Nat /\ now \in Nat /\ lastDriftWrite \in Nat
    /\ drift \in Int
    /\ readings \in Seq([offset : Int, at : Nat])
    /\ displacement \in Int /\ movedAt \in Nat

(* The sources move the clock only when StepPolicy lets them: on a first   *)
(* reading, or after readings all large for Stepout, never on a spike.     *)
StepsEarned == Policy!PolicySpec

(* The converse of StepsEarned: a large offset is acted on no later than   *)
(* the first reading Stepout after the run of large ones began, so such a  *)
(* reading never joins the ones held.  A panic does not begin a run.       *)
Actionable(o) == Large(o) /\ Magnitude(o) <= PanicThreshold

StepoutHonoured ==
    \A i, n \in DOMAIN readings :
        /\ i < n
        /\ Actionable(readings[i].offset) /\ Actionable(readings[n].offset)
        /\ \A j \in i..n : Large(readings[j].offset)
        => readings[n].at - readings[i].at < Stepout

(* The interval the frequency is learned over starts after the clock last  *)
(* moved: neither a step, nor a person's setting, nor a new loop leaves a  *)
(* reading of another clock behind.                                        *)
LearnsFromThisClock ==
    automatic /\ lastUpdate # None => lastUpdate >= movedAt

-----------------------------------------------------------------------------
(* The inductive invariant: the interval being integrated lies between the *)
(* clock's last move and now, and spikeSince is the time of the reading    *)
(* that began the run of large ones, if the last reading belongs to one.   *)

RunStart(i) ==
    /\ Actionable(readings[i].offset)
    /\ \A j \in i..Len(readings) : Large(readings[j].offset)

SpikeInv ==
    /\ state = "startup" => readings = << >> /\ spikeSince = None
    /\ spikeSince = None => \A i \in DOMAIN readings : ~RunStart(i)
    /\ spikeSince # None =>
          /\ \E i \in DOMAIN readings :
                 RunStart(i) /\ readings[i].at = spikeSince
          /\ \A i \in DOMAIN readings :
                 RunStart(i) => spikeSince <= readings[i].at

ClockInv ==
    /\ movedAt <= now
    /\ lastUpdate <= now /\ spikeSince <= now
    /\ LearnsFromThisClock

DisciplineIInv == DisciplineTypeOK /\ ClockInv /\ SpikeInv /\ StepoutHonoured
=============================================================================
