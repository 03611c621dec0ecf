----------------------------- MODULE MCEstimate -----------------------------
(* What the daemon makes of what servers send, in four parts that stand    *)
(* side by side: a behaviour is of one of them.  An NTS association; the   *)
(* fields of its datagrams; the measurements of one source, in eras of     *)
(* sixty-four, one of which ends at wall time 4, by a clock that is a      *)
(* little out, or by as much as an offset cannot say; and the choice       *)
(* among up to four sources, certain and vague ones at every distance from *)
(* one another, a preferred one, a worse stratum, one too far to be fit.   *)
EXTENDS Session, Datagram, Before2038, Select

VARIABLE part

mcVars == <<part, sessionVars, datagramVars, measureVars, selectVars>>

MCDelays == 1..2
MCGaps == 1..2
MCSteps == {-2, -1, 0, 2}
MCErrors == {-17, -1, 1, 16}

Claim(offset, distance, stratum, prefer, jitter) ==
    [offset |-> offset, distance |-> distance, stratum |-> stratum,
     usable |-> TRUE, prefer |-> prefer, jitter |-> jitter]

MCCandidate ==
    {Claim(o, d, 1, FALSE, 1) : o \in {-3, -1, 0, 2}, d \in {1, 3}}
    \cup {Claim(0, 2, 2, FALSE, 0), Claim(2, 2, 1, TRUE, 1),
          Claim(-3, 1, 1, TRUE, 1), Claim(0, 5, 1, FALSE, 1),
          [Claim(1, 1, 1, FALSE, 1) EXCEPT !.usable = FALSE]}

NoDatagram == DatagramInit /\ size = 100 /\ Len(held) = Target
NoMeasurement == MeasureInit /\ err = 1
NoSelection == candidates = <<Claim(0, 1, 1, FALSE, 1)>> /\ SelectInit

MCInit ==
    /\ SessionInit
    /\ \/ part = "session" /\ NoDatagram /\ NoMeasurement /\ NoSelection
       \/ part = "datagram" /\ DatagramInit /\ NoMeasurement /\ NoSelection
       \/ part = "measure" /\ MeasureInit /\ NoDatagram /\ NoSelection
       \/ part = "select" /\ SelectInit /\ NoDatagram /\ NoMeasurement

MCNext ==
    /\ UNCHANGED part
    /\ \/ /\ part = "session" /\ SessionNext
          /\ UNCHANGED <<datagramVars, measureVars, selectVars>>
       \/ /\ part = "datagram" /\ DatagramNext
          /\ UNCHANGED <<sessionVars, measureVars, selectVars>>
       \/ /\ part = "measure" /\ MeasureNext
          /\ UNCHANGED <<sessionVars, datagramVars, selectVars>>
       \/ /\ part = "select" /\ SelectNext
          /\ UNCHANGED <<sessionVars, datagramVars, measureVars>>

MCSpec == MCInit /\ [][MCNext]_mcVars

(* The types of the four parts: the stores within their sizes, legal       *)
(* fields, one offset for each sample, survivors among the fit.            *)
EstimateTypeOK == SessionTypeOK /\ DatagramTypeOK /\ MeasureTypeOK /\ SelectTypeOK
=============================================================================
