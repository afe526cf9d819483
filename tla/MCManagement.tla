--------------------------- MODULE MCManagement ----------------------------
(* TLC instance of Management: grants to a user and to a group, a chain of *)
(* three application roles, a policy that drops one, and a cycle.          *)
EXTENDS Management, TLC

CONSTANTS x1, x2, r1, r2, r3

MCPrincipalOf == (x1 :> <<"user", 1>>) @@ (x2 :> <<"group", 1>>)
Chain == [inherits |-> (r1 :> {r2}) @@ (r2 :> {r3}) @@ (r3 :> {}), default |-> None]
Shorter == [inherits |-> (r2 :> {r3}) @@ (r3 :> {}), default |-> r2]
Cycle == [inherits |-> (r1 :> {r2}) @@ (r2 :> {r1}), default |-> None]
MCGraphs == {Chain, Shorter, Cycle}
MCRoleChoices == {{}, {r1}}
MCClockOf == (<<"user", 1>> :> 1) @@ (<<"user", 2>> :> 0) @@ (<<"group", 1>> :> 0) @@ (<<"group", 2>> :> 0)
Symmetry == Permutations(Handlers)
=============================================================================
