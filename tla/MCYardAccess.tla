---------------------------- MODULE MCYardAccess ----------------------------
(* TLC instance of YardAccess.  Handlers are interchangeable.  One of the  *)
(* two members shares an email with the guest.                             *)
EXTENDS YardAccess, TLC

CONSTANTS m1, m2, i1, e1, e2

MCEmailOf == (m1 :> e1) @@ (m2 :> e2) @@ (i1 :> e1)
Symmetry == Permutations(Handlers)
=============================================================================
