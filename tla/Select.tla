------------------------------- MODULE Select -------------------------------
(***************************************************************************)
(* Which sources to believe (timed/src/select.rs): the majority's          *)
(* interval, the survivors inside it, the clustering of the survivors and  *)
(* the weighted average.                                                   *)
(*                                                                         *)
(* The sweep over the sorted edges is replaced by the count it computes:   *)
(* the running count at a lower edge is the number of intervals open       *)
(* there, because the sort puts lower edges before equal midpoints and     *)
(* upper edges.  Each round of the clustering is a step, and so is each    *)
(* source added to the average.  Offsets and distances are integers;       *)
(* selection jitters are compared by their squares; the sums of the        *)
(* average are kept over a common denominator.  The system jitter is left  *)
(* out, and so is the error bar's make-up: distance is what root_distance  *)
(* returns.                                                                *)
(***************************************************************************)
EXTENDS Integers, FiniteSets, FiniteSetsExt

CONSTANTS
    Candidate,       \* [offset, distance, stratum, usable, prefer, jitter]
    MaxCandidates,
    MaxStratum, MaxDistance, MinSurvivors

ASSUME SelectConstants ==
    /\ Candidate \subseteq [offset : Int, distance : Nat \ {0}, stratum : Nat,
                            usable : BOOLEAN, prefer : BOOLEAN, jitter : Nat]
    /\ MaxCandidates \in Nat /\ MaxStratum \in Nat
    /\ MaxDistance \in Nat /\ MinSurvivors \in Nat \ {0}

VARIABLES
    candidates,
    outcome,
    interval,                   \* <<low, high>>
    survivors, falsetickers,    \* ids: positions in candidates
    left,                       \* survivors still to be added
    sums                        \* combine: both sums, times scale

results == <<interval, survivors, falsetickers, left, sums>>
selectVars == <<candidates, outcome, results>>

-----------------------------------------------------------------------------
(* The majority's interval. *)

Low(i) == candidates[i].offset - candidates[i].distance
High(i) == candidates[i].offset + candidates[i].distance
Mid(i) == candidates[i].offset

IsFit(c) ==
    c.usable /\ c.stratum < MaxStratum /\ c.distance < MaxDistance
Fit == {i \in DOMAIN candidates : IsFit(candidates[i])}

(* How many of the fit claim that the time is x.                           *)
Claims(x) == Cardinality({i \in Fit : Low(i) <= x /\ x <= High(i)})

(* Where the sweep upwards first finds `wanted` intervals open, and where  *)
(* the sweep downwards does.                                               *)
Lows(wanted) == {Low(i) : i \in {j \in Fit : Claims(Low(j)) >= wanted}}
Highs(wanted) == {High(i) : i \in {j \in Fit : Claims(High(j)) >= wanted}}

Outside(low, high) == Cardinality({i \in Fit : Mid(i) < low \/ Mid(i) > high})

(* The interval found when `allow` falsetickers are allowed, as <<low,     *)
(* high>>, if there is one.                                                *)
Agreed(allow) ==
    LET wanted == Cardinality(Fit) - allow IN
    {e \in Lows(wanted) \X Highs(wanted) :
        /\ \A x \in Lows(wanted) : e[1] <= x
        /\ \A x \in Highs(wanted) : x <= e[2]
        /\ Outside(e[1], e[2]) <= allow
        /\ e[2] > e[1]}

(* As many falsetickers as leave a majority.                               *)
HalfMayLie == {a \in 0..Cardinality(Fit) : 2 * a <= Cardinality(Fit)}
Allowances == {a \in 0..Cardinality(Fit) : 2 * a < Cardinality(Fit)}

Agreements == {a \in Allowances : Agreed(a) # {}}
Interval == CHOOSE e \in Agreed(Min(Agreements)) : TRUE

(* The midpoint has to lie inside: a vague interval that merely spans the  *)
(* agreement does not make its source right.                               *)
Inside(e) == {i \in Fit : e[1] <= Mid(i) /\ Mid(i) <= e[2]}

-----------------------------------------------------------------------------
(* Clustering and the average. *)

Metric(i) == MaxDistance * candidates[i].stratum + candidates[i].distance

(* (n - 1) times the square of a survivor's selection jitter.              *)
Spread(S, i) == 
    MapThenSumSet(LAMBDA j : (Mid(i) - Mid(j)) * (Mid(i) - Mid(j)), S)

(* The first of those with the largest weighted jitter.                    *)
Weighted(S, i) == Spread(S, i) * Metric(i) * Metric(i)
Worst(S) ==
    CHOOSE i \in S :
       \A j \in S :
          \/ Weighted(S, i) > Weighted(S, j)
          \/ Weighted(S, i) = Weighted(S, j) /\ i <= j

MinJitter(S) == Min({candidates[i].jitter : i \in S})

TrimPreferred(S) ==
    /\ Cardinality(S) > MinSurvivors
    /\ Spread(S, Worst(S))
          >= (Cardinality(S) - 1) * MinJitter(S) * MinJitter(S)
TrimOneMore(S) ==
    /\ Cardinality(S) >= MinSurvivors
    /\ Spread(S, Worst(S))
          >= (Cardinality(S) - 1) * MinJitter(S) * MinJitter(S)
    /\ ~candidates[Worst(S)].prefer
Trimmable(S) ==
    /\ Cardinality(S) > MinSurvivors
    /\ Spread(S, Worst(S))
          >= (Cardinality(S) - 1) * MinJitter(S) * MinJitter(S)
    /\ ~candidates[Worst(S)].prefer

(* Preferred first, then by the metric, then as they stand.                *)
Leads(i, j) ==
    \/ candidates[i].prefer /\ ~candidates[j].prefer
    \/ /\ candidates[i].prefer = candidates[j].prefer
       /\ \/ Metric(i) < Metric(j)
          \/ Metric(i) = Metric(j) /\ i <= j
Leader(S) == CHOOSE i \in S : \A j \in S : Leads(i, j)
SystemPeer == Leader(survivors)

(* The sums of 1/distance and of offset/distance.                          *)
NoSums == [weight |-> 0, offset |-> 0, scale |-> 1]
Added(i) ==
    LET d == candidates[i].distance IN
    [weight |-> sums.weight * d + sums.scale,
     offset |-> sums.offset * d + sums.scale * Mid(i),
     scale  |-> sums.scale * d]

-----------------------------------------------------------------------------
(* One selection. *)

SelectInit ==
    /\ candidates \in UNION {[1..n -> Candidate] : n \in 1..MaxCandidates}
    /\ outcome = "pending"
    /\ interval = <<0, 0>>
    /\ survivors = {} /\ falsetickers = {} /\ left = {}
    /\ sums = NoSums

Agree ==
    /\ outcome = "pending"
    /\ Agreements # {}
    /\ Inside(Interval) # {}
    /\ outcome' = "clustering"
    /\ interval' = Interval
    /\ survivors' = Inside(Interval)
    /\ falsetickers' = Fit \ Inside(Interval)
    /\ UNCHANGED <<candidates, left, sums>>

Disagree ==
    /\ outcome = "pending"
    /\ Agreements # {} => Inside(Interval) = {}
    /\ outcome' = IF Fit = {} THEN "no candidates" ELSE "no majority"
    /\ UNCHANGED <<candidates, results>>

Trim ==
    /\ outcome = "clustering"
    /\ Trimmable(survivors)
    /\ survivors' = survivors \ {Worst(survivors)}
    /\ UNCHANGED <<candidates, outcome, interval, falsetickers, left, sums>>

Sort ==
    /\ outcome = "clustering"
    /\ ~Trimmable(survivors)
    /\ outcome' = "combining"
    /\ left' = survivors
    /\ UNCHANGED <<candidates, interval, survivors, falsetickers, sums>>

Combine ==
    /\ outcome = "combining"
    /\ sums' = Added(Leader(left))
    /\ left' = left \ {Leader(left)}
    /\ outcome' = IF left' = {} THEN "ok" ELSE "combining"
    /\ UNCHANGED <<candidates, interval, survivors, falsetickers>>

SelectNext == Agree \/ Disagree \/ Trim \/ Sort \/ Combine

SelectSpec == SelectInit /\ [][SelectNext]_selectVars

-----------------------------------------------------------------------------
(* Properties *)

Ok == outcome = "ok"
Chosen == outcome \in {"clustering", "combining", "ok"}
Refused == outcome \in {"no candidates", "no majority"}

(* What is chosen is consistent: the survivors are fit and not called      *)
(* falsetickers, clustering leaves at least MinSurvivors of those it began *)
(* with, and the average divides.                                          *)
SelectTypeOK ==
    /\ candidates \in UNION {[1..n -> Candidate] : n \in 1..MaxCandidates}
    /\ outcome \in {"pending", "no candidates", "no majority", "clustering",
                    "combining", "ok"}
    /\ interval \in Int \X Int
    /\ survivors \subseteq Fit \ falsetickers /\ falsetickers \subseteq Fit
    /\ left \subseteq survivors
    /\ sums \in [weight : Nat, offset : Int, scale : Nat \ {0}]
    /\ Chosen => \/ survivors = Fit \ falsetickers
                 \/ Cardinality(survivors) >= MinSurvivors
    /\ Ok => sums.weight > 0

(* Whatever is chosen, more than half of the fit sources stand behind it.  *)
(* An even split is never decided.                                         *)
MajorityAgrees ==
    Ok => 2 * Cardinality(falsetickers) < Cardinality(Fit)

(* The sources that tell the truth if the time is t.                       *)
Truthful(t) == {i \in Fit : Low(i) <= t /\ t <= High(i)}
MostTruthful(t) == 2 * Cardinality(Truthful(t)) > Cardinality(Fit)

Times == UNION {Low(i)..High(i) : i \in Fit}

(* Byzantine agreement: wherever the time is, if most sources tell the     *)
(* truth the clock is never sent beyond what the truthful claim, however   *)
(* the liars place, narrow or widen their intervals.                       *)
HonestMajorityRules ==
    Ok => \A t \in Times :
             MostTruthful(t) =>
                \E i, j \in Truthful(t) :
                   /\ sums.offset >= sums.weight * Low(i)
                   /\ sums.offset <= sums.weight * High(j)

(* And the liars cannot prevent a decision: a majority each of whose       *)
(* offsets lies strictly inside all their intervals is always heard.       *)
LiarsCannotStop ==
    Refused =>
       ~\E S \in SUBSET Fit :
          /\ 2 * Cardinality(S) > Cardinality(Fit)
          /\ \A i, j \in S : Low(i) < Mid(j) /\ Mid(j) < High(i)

(* Marzullo's agreement as a whole, valid, by a majority, and reached.     *)
MajorityRules == MajorityAgrees /\ HonestMajorityRules /\ LiarsCannotStop

(* The one followed is a survivor, and a preferred one if any that is not  *)
(* a falseticker is: clustering does not take it away.                     *)
PreferredLeads ==
    Ok => /\ SystemPeer \in survivors
          /\ (\E i \in Fit \ falsetickers : candidates[i].prefer)
             => candidates[SystemPeer].prefer

(* The inductive invariant: the interval found has most midpoints inside   *)
(* and is within what any truthful majority claims, nobody preferred was   *)
(* trimmed, and the average so far lies in it.                             *)
Backed(e) ==
    /\ 2 * Cardinality(Fit \ Inside(e)) < Cardinality(Fit)
    /\ \A t \in Times :
          MostTruthful(t) =>
             \E i, j \in Truthful(t) : Low(i) <= e[1] /\ e[2] <= High(j)
SelectIInv ==
    /\ SelectTypeOK /\ LiarsCannotStop
    /\ Chosen => /\ Backed(interval)
                 /\ survivors # {} /\ survivors \subseteq Inside(interval)
                 /\ falsetickers = Fit \ Inside(interval)
                 /\ \A i \in Inside(interval) \ survivors : ~candidates[i].prefer
    /\ sums.weight * interval[1] <= sums.offset
    /\ sums.offset <= sums.weight * interval[2]
    /\ outcome = "combining" <=> left # {}
    /\ outcome \in {"pending", "clustering"} => sums = NoSums
=============================================================================
