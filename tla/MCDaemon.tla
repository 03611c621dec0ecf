------------------------------ MODULE MCDaemon ------------------------------
(* Two sources, a list that drops the first of them, and one that names    *)
(* the second twice.                                                       *)
EXTENDS Daemon

CONSTANTS A, B

MCHosts == {A, B}
MCTables == {<<A, B>>, <<B, B>>, <<B>>}
=============================================================================
