--------------------------- MODULE MCYardDeploys ---------------------------
(* TLC instance of YardDeploys.  Handlers are interchangeable.             *)
EXTENDS YardDeploys, TLC

Symmetry == Permutations(Handlers)
=============================================================================
