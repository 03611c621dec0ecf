----------------------------- MODULE MCMachine -----------------------------
(* What timed does to its machine, side by side: a behaviour is of the     *)
(* clock or of the time zone, and the other stands still.  The servo gets  *)
(* offsets of every class and both signs, with a stepout of three          *)
(* intervals and files that hold a plausible and an absurd value.          *)
EXTENDS Discipline, MCConfiguration

VARIABLE side

mcVars == <<side, disciplineVars, vars>>

MCOffsets == {-5, -1, 2, 9}
MCGaps == {1, 3}
MCDriftFiles == {1, 7}

OnClock(Action) == side = "clock" /\ Action /\ UNCHANGED <<side, vars>>
OnZone(Action) == side = "zone" /\ Action /\ UNCHANGED <<side, disciplineVars>>

NoZones == Init /\ registry = NoZone /\ database = [z \in MCZones |-> Absent]
NoServo == DisciplineInit /\ ~automatic /\ drift = 1

MCInit ==
    \/ side = "clock" /\ DisciplineInit /\ NoZones
    \/ side = "zone" /\ Init /\ NoServo

MCNext == OnClock(DisciplineNext) \/ OnZone(Next)

MCSpec ==
    /\ MCInit /\ [][MCNext]_mcVars
    /\ WF_mcVars(OnZone(Turn)) /\ SF_mcVars(OnZone(RetryZone))

(* The types of both parts, with what they say of the rates the kernel is  *)
(* asked for and of a value both in place and refused.                     *)
MachineTypeOK == DisciplineTypeOK /\ TypeOK
=============================================================================
