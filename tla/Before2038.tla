----------------------------- MODULE Before2038 -----------------------------
(***************************************************************************)
(* Measurement while the wall clock is within half an era of 1970, the     *)
(* time destination_to_seconds reads words near (timed/src/source.rs), and *)
(* within half an era of the truth, which is as far as the difference of   *)
(* two timestamps goes (ntp/src/timestamp.rs).                             *)
(***************************************************************************)
EXTENDS Measurement

ASSUME WithinHalfAnEra == MaxTime < Half /\ MaxErr + 2 * MaxWait + Drain < Half

-----------------------------------------------------------------------------
(* The inductive invariant: what is outstanding was dated by a clock that  *)
(* was behind the truth by as much as it says.                             *)

OutTrue ==
    out # NoRequest =>
       /\ out.err \in -MaxErr..MaxErr
       /\ out.sent - out.err \in 0..MaxTime
       /\ out.origin = Word(out.sent - out.err)

MeasureIInv ==
    IInv /\ MeasureTypeOK /\ wall <= MaxTime /\ OutTrue /\ WithinHalfDelay
=============================================================================
