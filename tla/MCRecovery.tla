----------------------------- MODULE MCRecovery -----------------------------
(* A TLC instance of Recovery.                                             *)
EXTENDS Recovery, TLC

CONSTANTS k1, k2

MCParts == {[number |-> 1, dataset |-> "workspace", small |-> TRUE],
                   [number |-> 2, dataset |-> "projects", small |-> TRUE],
                   [number |-> 3, dataset |-> "objects", small |-> TRUE],
                   [number |-> 4, dataset |-> "versions", small |-> TRUE],
                   [number |-> 5, dataset |-> "shares", small |-> TRUE],
                   [number |-> 6, dataset |-> "retention_policies", small |-> TRUE]}

(* The record with one version in each workspace, all live ...             *)
MCBase ==
  [parts |-> MCParts,
   workspaces |-> {[ref |-> "w1", deleted |-> FALSE],
                   [ref |-> "w2", deleted |-> FALSE]},
   projects |-> {[ref |-> "p1", ws |-> "w1", deleted |-> FALSE],
                 [ref |-> "p2", ws |-> "w2", deleted |-> FALSE]},
   objects |-> {[ref |-> "o1", ws |-> "w1", project |-> "p1", deleted |-> FALSE],
                [ref |-> "o2", ws |-> "w2", project |-> "p2", deleted |-> FALSE]},
   versions |-> {[ref |-> k1, ws |-> "w1", project |-> "p1", object |-> "o1",
                  number |-> 1, status |-> "ready", deleted |-> FALSE],
                 [ref |-> k2, ws |-> "w2", project |-> "p2", object |-> "o2",
                  number |-> 1, status |-> "ready", deleted |-> FALSE]},
   shares |-> {[ref |-> "s1", ws |-> "w1", version |-> k1, status |-> "expired"],
               [ref |-> "s2", ws |-> "w2", version |-> k2, status |-> "active"]},
   retention |-> {[project |-> "p2"]}]

(* ... and with one record of the second workspace changed.                *)
Gone(records, ref) ==
  {IF r.ref = ref THEN [r EXCEPT !.deleted = TRUE] ELSE r : r \in records}

MCExports ==
  {MCBase,
   [MCBase EXCEPT !.parts = {p \in @ : p.number < 6}],
   [MCBase EXCEPT !.workspaces = Gone(@, "w2")],
   [MCBase EXCEPT !.workspaces = Gone(@, "w2"),
      !.objects = {IF o.ref = "o2" THEN [o EXCEPT !.ws = "w1"] ELSE o : o \in @}],
   [MCBase EXCEPT !.projects = Gone(@, "p2")],
   [MCBase EXCEPT !.objects = Gone(@, "o2")],
   [MCBase EXCEPT !.versions =
      {IF v.ref = k2 THEN [v EXCEPT !.status = "pending"] ELSE v : v \in @}],
   [MCBase EXCEPT !.versions =
      {IF v.ref = k2 THEN [v EXCEPT !.project = "p1"] ELSE v : v \in @}]}

Symmetry == Permutations(Operators) \cup Permutations(Dirs)
=============================================================================
