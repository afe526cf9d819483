------------------------------ MODULE MCStorage ------------------------------
(* TLC instance of RuntimeStorage.  All contents have one size, the case   *)
(* in which the length checks of head tell nothing apart.                  *)
EXTENDS RuntimeStorage, TLC
MCSize == [c \in Contents |-> 1]
Symmetry == Permutations(Threads)
=============================================================================
