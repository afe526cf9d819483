--------------------------- MODULE MCCredentials ---------------------------
(* TLC instance of Credentials: a trust of the workspace and one of a      *)
(* project, assertions signed before and after the provider rotates.       *)
EXTENDS Credentials, TLC

CONSTANTS c1, c2, a1, a2

MCKeyOf == (a1 :> 1) @@ (a2 :> 2)
MCExpiryOf == (a1 :> 3) @@ (a2 :> 2)
MCMatches == (a1 :> {c1, c2}) @@ (a2 :> {c1})
MCAllowed == (c1 :> {"upload", "yard"}) @@ (c2 :> {"upload"})
Symmetry == Permutations(Handlers)
=============================================================================
