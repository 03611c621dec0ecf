----------------------------- MODULE StepPolicy -----------------------------
(***************************************************************************)
(* What timed promises about moving the clock at once, with nothing said   *)
(* of how the servo decides.  The clock is moved by its sources on two     *)
(* occasions only: on the first reading a loop believes, or when every     *)
(* reading of at least Stepout has called for a step.  A person may move   *)
(* it while the sources may not.                                           *)
(*                                                                         *)
(* Discipline implements this module (Discipline!StepsEarned).             *)
(***************************************************************************)
EXTENDS Integers, Sequences

CONSTANTS
    StepThreshold,   \* offsets above this are stepped, not slewed
    PanicThreshold,  \* offsets above this are refused after the first reading
    Stepout,         \* how long a large offset has to persist
    Offsets,         \* the offsets the sources may agree on
    Gaps             \* the intervals between two events

VARIABLES
    automatic,       \* the sources keep the clock; otherwise a person does
    believed,        \* the loop has taken a reading since it began
    readings,        \* what it was told since it began or asked for a step
    displacement,    \* the sum of the steps that moved the clock
    now              \* the monotonic clock

policyVars == <<automatic, believed, readings, displacement, now>>

Magnitude(o) == IF o < 0 THEN -o ELSE o

Large(o) == Magnitude(o) > StepThreshold

(* Since a reading at least Stepout old, every reading was large.          *)
Persisted(t) ==
    \E i \in DOMAIN readings :
        /\ readings[i].at + Stepout <= t
        /\ \A j \in i..Len(readings) : Large(readings[j].offset)

PolicyInit ==
    /\ automatic \in BOOLEAN
    /\ believed = FALSE
    /\ readings = << >>
    /\ displacement = 0
    /\ now = 0

(* The readings go to another loop, one that believes nothing yet.         *)
BeginAfresh ==
    /\ automatic' \in BOOLEAN
    /\ believed' = FALSE
    /\ readings' = << >>
    /\ UNCHANGED <<displacement, now>>

GiveToPerson ==
    /\ automatic' = FALSE
    /\ UNCHANGED <<believed, readings, displacement, now>>

(* A reading that moves nothing is always allowed.                         *)
TakeReading(o, t) ==
    /\ automatic
    /\ believed' = TRUE
    /\ readings' = Append(readings, [offset |-> o, at |-> t])
    /\ now' = t
    /\ UNCHANGED <<automatic, displacement>>

(* The sources move the clock by what they read, or try to and fail.       *)
StepFromSources(o, t) ==
    /\ automatic
    /\ Large(o)
    /\ believed => /\ Magnitude(o) <= PanicThreshold
                   /\ Persisted(t)
    /\ believed' = TRUE
    /\ readings' = << >>
    /\ displacement' \in {displacement, displacement + o}
    /\ now' = t
    /\ UNCHANGED automatic

StepByPerson(o, t) ==
    /\ ~automatic
    /\ displacement' = displacement + o
    /\ now' = t
    /\ UNCHANGED <<automatic, believed, readings>>

PolicyNext ==
    \/ BeginAfresh
    \/ GiveToPerson
    \/ \E o \in Offsets, d \in Gaps :
          \/ TakeReading(o, now + d)
          \/ StepFromSources(o, now + d)
          \/ StepByPerson(o, now + d)

PolicySpec == PolicyInit /\ [][PolicyNext]_policyVars
=============================================================================
