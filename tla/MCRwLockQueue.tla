--------------------------- MODULE MCRwLockQueue ----------------------------
(* RwLockQueue for TLC.                                                    *)
EXTENDS RwLockQueue

CONSTANTS t1, t2

\* A reader, a writer, and one that does both and downgrades.
SomeCalls == [t \in Threads |-> CASE t = t1 -> {"read", "try_read"} [] t = t2 -> {"write", "try_write"}
                                  [] OTHER -> {"read", "write", "downgrade"}]
=============================================================================
