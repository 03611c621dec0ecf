------------------------------ MODULE MCSource ------------------------------
(* Source with the widths of the code cut down and its order of durations  *)
(* kept: the burst's gap below the timeout below the shortest interval.    *)
EXTENDS Source

MCKinds == {"good", "unsynchronised", "unusable", "RATE", "NTSN", "DENY"}
=============================================================================
