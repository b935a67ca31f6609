--------------------------- MODULE MCTlsStorage -----------------------------
(***************************************************************************)
(* A thread's variables "a", "b" and "c" for TLC: a destructor may use its *)
(* own variable, which is being destroyed or has been replaced, and the    *)
(* variables that come after it.                                           *)
(***************************************************************************)
EXTENDS TlsStorage, TLC

CONSTANTS b1, b2, b3, b4, b5

DropChain == {<<"a", "a">>, <<"b", "b">>, <<"c", "c">>,
              <<"a", "b">>, <<"a", "c">>, <<"b", "c">>}
Symmetry == Permutations(Blocks)
=============================================================================
