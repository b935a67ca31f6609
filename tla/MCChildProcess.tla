--------------------------- MODULE MCChildProcess ---------------------------
(* ChildProcess for TLC: every task is a program of its own. *)
EXTENDS ChildProcess

CONSTANTS g1, g2, t1, t2

OwnPrograms == [t \in Tasks |-> IF t = t1 THEN g1 ELSE g2]
=============================================================================
