--------------------------- MODULE MCMeasurement ---------------------------
(* One source in sixteen half-words, past the end of the first of them: a  *)
(* gap may be that long.                                                   *)
EXTENDS Measurement

MCDelays == 1..2
MCGaps == {1, 16}
MCSteps == {-1, 0, 1}
MCErrors == {-1, 0, 1}
=============================================================================
