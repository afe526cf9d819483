------------------------------ MODULE MCClients ------------------------------
(* Two terminals, two yard names, one fault.                               *)
EXTENDS ClientSurfaces, TLC

CONSTANTS a, b

MCProcs == {a, b}
MCNames == {"main", "docs"}
MCSecrets == 1..6
Race(ops, within, envs) == [ops |-> ops, profiles |-> within, envs |-> envs]

MCRaces == {Race({"whoami", "login", "logout"}, {"cloud"}, BOOLEAN),
            Race({"whoami", "profile_add"}, {"cloud", "home"}, {FALSE}),
            Race({"delete_web_yard", "deploy_web_yard"}, {"home"}, {FALSE}),
            Race({"delete_web_yard", "rollback_web_yard"}, {"home"}, {FALSE}),
            Race({"request_account_export", "prepare_account_deletion"}, {"cloud"}, {FALSE})}

Symmetry == Permutations(MCProcs)

=============================================================================
