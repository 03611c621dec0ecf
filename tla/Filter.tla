------------------------------- MODULE Filter -------------------------------
(***************************************************************************)
(* The clock filter of one source (timed/src/filter.rs): a shift register  *)
(* of its last samples, of which the one with the lowest delay speaks for  *)
(* the source, and is reported to the discipline once.                     *)
(*                                                                         *)
(* Samples are dated by the wall clock, which timed itself may step either *)
(* way; a step (Timed::apply) and eight losses (record_loss) empty the     *)
(* register.  Offsets, dispersion and jitter are left out: they do not     *)
(* decide which sample is reported.  id, reports and silent are history.   *)
(***************************************************************************)
EXTENDS Integers, Sequences

CONSTANTS
    Stages,    \* NSTAGE
    Delays, Gaps, Steps,
    MaxTime,   \* bound on the wall clock
    MaxId      \* bound on the samples taken

ASSUME FilterConstants ==
    /\ Stages \in Nat \ {0}
    /\ Delays \subseteq Nat /\ Gaps \subseteq Nat \ {0} /\ Steps \subseteq Int
    /\ MaxTime \in Nat /\ MaxId \in Nat

VARIABLES
    stages,         \* newest first
    lastReported,   \* the date of the last sample reported, or None
    wall,
    id,             \* of the last sample taken
    reports,        \* the ids of the samples reported, in order
    silent          \* samples taken since the last report or reset

vars == <<stages, lastReported, wall, id, reports, silent>>

None == -1
Samples == [id : Nat, delay : Nat, at : Nat]

-----------------------------------------------------------------------------
(* Operators *)

(* rotate_right and overwrite: the oldest sample falls out.                *)
Shifted(st, s) ==
    <<s>> \o SubSeq(st, 1, IF Len(st) < Stages THEN Len(st) ELSE Stages - 1)

(* The sort by delay is stable, so the newest of equals comes first.       *)
Best(st) ==
    st[CHOOSE i \in DOMAIN st :
          \A j \in DOMAIN st :
             \/ st[i].delay < st[j].delay
             \/ st[i].delay = st[j].delay /\ i <= j]

Fresh(s) == lastReported = None \/ s.at > lastReported

-----------------------------------------------------------------------------
Init ==
    /\ stages = << >> /\ lastReported = None
    /\ wall = 0
    /\ id = 0 /\ reports = << >> /\ silent = 0

Taken(delay, t) == Shifted(stages, [id |-> id + 1, delay |-> delay, at |-> t])

Sampled ==
    /\ id < MaxId
    /\ id' = id + 1

(* insert, ending in Update.                                               *)
Report(delay, at) ==
    /\ Sampled
    /\ stages' = Taken(delay, at)
    /\ Fresh(Best(stages'))
    /\ lastReported' = Best(stages').at
    /\ reports' = Append(reports, Best(stages').id)
    /\ silent' = 0

(* insert, ending in Stale.                                                *)
Withhold(delay, at) ==
    /\ Sampled
    /\ stages' = Taken(delay, at)
    /\ ~Fresh(Best(stages'))
    /\ silent' = silent + 1
    /\ UNCHANGED <<lastReported, reports>>

Later(gap) == wall + gap <= MaxTime /\ wall' = wall + gap

(* Time goes by with no sample taken: a reply is lost, or refused.         *)
Elapse(gap) ==
    /\ Later(gap)
    /\ UNCHANGED <<stages, lastReported, id, reports, silent>>

(* reset, when the clock is stepped by some amount, or by none on losses.  *)
KeptReport == lastReported
ForgottenReport == None

Reset(by) ==
    /\ wall + by \in 0..MaxTime
    /\ wall' = wall + by
    /\ stages' = << >>
    /\ lastReported' = ForgottenReport
    /\ silent' = 0
    /\ UNCHANGED <<id, reports>>

Next ==
    \/ \E delay \in Delays, gap \in Gaps :
          /\ Later(gap)
          /\ Report(delay, wall + gap) \/ Withhold(delay, wall + gap)
    \/ \E gap \in Gaps : Elapse(gap)
    \/ \E by \in Steps : Reset(by)

Spec == Init /\ [][Next]_vars

-----------------------------------------------------------------------------
(* Properties *)

TypeOK ==
    /\ stages \in Seq(Samples) /\ Len(stages) <= Stages
    /\ lastReported \in Nat \cup {None}
    /\ wall \in Nat /\ id \in Nat /\ silent \in Nat
    /\ reports \in Seq(Nat)

(* No sample is fed to the discipline twice, and none after a later one:   *)
(* not when it stays the best for several polls, and not when the clock    *)
(* was stepped back and dates come round again.                            *)
ReportedOnce == \A i, j \in DOMAIN reports : i < j => reports[i] < reports[j]

(* One very quick reply cannot silence a source: it is the best sample for *)
(* at most Stages polls, so the source reports at least once in Stages     *)
(* samples, and at once after a reset, even one that dated the clock back. *)
NeverMuted == silent < Stages

(* insert: every source reports what is new to it once, and soon.          *)
ReportedInTime == ReportedOnce /\ NeverMuted

-----------------------------------------------------------------------------
(* The inductive invariant: the register is in order of time, and holds    *)
(* what was reported last further down than the samples taken since.       *)

TimeOrder ==
    /\ \A i, j \in DOMAIN stages :
          i < j => stages[i].at > stages[j].at /\ stages[i].id > stages[j].id
    /\ \A i \in DOMAIN stages : stages[i].at <= wall /\ stages[i].id <= id

HeldAt(i) ==
    /\ stages[i].at = lastReported
    /\ reports # << >> /\ stages[i].id = reports[Len(reports)]
    /\ silent < i

ReportHeld ==
    /\ lastReported = None => stages = << >> /\ silent = 0
    /\ lastReported # None => \E i \in DOMAIN stages : HeldAt(i)
    /\ \A k \in DOMAIN reports : reports[k] <= id

IInv == TypeOK /\ ReportedOnce /\ TimeOrder /\ ReportHeld
=============================================================================
