------------------------------- MODULE Clients -------------------------------
(***************************************************************************)
(* Blob Yard's client programs at work: terminals in which a person runs   *)
(* commands or an agent holds an MCP session, sharing one credential store *)
(* and one configuration, against the hosted service ("cloud") and one     *)
(* standalone server ("home").  Every request of an operation loads the    *)
(* credential, refreshes and saves it for the hosted service, and is sent; *)
(* answers may be lost and processes killed anywhere in between.           *)
(***************************************************************************)
EXTENDS Surfaces, Integers, FiniteSets, SequencesExt

CONSTANTS
    Procs,      \* terminals
    Names,      \* names of Web Yards, "main" among them
    Secrets,    \* refresh tokens and standalone bearer tokens, as numbers from 1
    Absent,
    MaxYards,   \* bound: Web Yards ever created
    MaxFaults,  \* bound: lost answers and killed processes
    Races       \* bound: operations that may run beside each other, with their
                \* profiles and whether the environment may hold a token

ASSUME ClientsAssumption ==
    /\ Secrets \subseteq Nat /\ {1, 2} \subseteq Secrets /\ Absent \notin Secrets
    /\ IsFiniteSet(Names) /\ "main" \in Names
    /\ Absent \notin Names \cup {"tool", "resource", "key", "ok", "invalid_params", "shareUrl",
                                 "previewUrl", "inboxUrl", "invitationUrl"}

VARIABLES
    proc,       \* what each terminal is doing
    session,    \* the MCP session open in a terminal, or Absent
    store,      \* the credential store, per profile
    profiles,   \* standalone profiles in the user's configuration file
    settings,   \* which scope some configuration layer names; the project's yards;
                \* and, of the bound Races, the one this behaviour is about
    live,       \* tokens that the services honour, of those somebody has
    unspent,    \* the standalone server's setup token is unspent
    yards,      \* the project's Web Yards, by identifier
    seen,       \* idempotency keys that the hosted service has seen
    applied,    \* how often a retried mutation took effect
    served,     \* the deploys that went live, by name and terminal
    faults

clientVars == <<proc, session, store, profiles, settings, live, unspent, yards, seen,
                applied, served, faults>>
service == <<live, unspent, yards, seen, applied, served>>
files == <<store, profiles, settings>>

Resting ==
    [at |-> "idle", surface |-> Absent, op |-> Absent, args |-> {}, obeys |-> TRUE,
     profile |-> Absent, env |-> FALSE, key |-> Absent, token |-> Absent, yard |-> Absent,
     id |-> Absent, todo |-> Nothing, left |-> Nothing, failing |-> FALSE, bad |-> FALSE,
     touched |-> Absent, shown |-> {}, outcome |-> Absent]

\* A record with some of its fields changed.
With(changes, r) ==
    [f \in DOMAIN changes \cup DOMAIN r |-> IF f \in DOMAIN changes THEN changes[f] ELSE r[f]]

Update(p, changes) == proc' = [proc EXCEPT ![p] = With(changes, @)]

Cloud(p) == proc[p].profile = "cloud"

-----------------------------------------------------------------------------
(* Answers.                                                                *)

Issued(op) ==
    CASE op = "create_share"             -> "shareUrl"
      [] op = "create_preview"           -> "previewUrl"
      [] op = "create_inbox"             -> "inboxUrl"
      [] op = "create_yard_guest_invite" -> "invitationUrl"
      [] OTHER -> Absent

\* What the MCP server redacts: links that this call did not issue, and every
\* field that is named, or whose address is marked, as a credential.
Sensitive(field, issued) ==
    IF field \in {"shareUrl", "previewUrl", "inboxUrl", "invitationUrl"}
    THEN field # issued
    ELSE field \in {"downloadUrl", "rawToken", "confirmationToken", "recoveryToken"}

Shown(p, revealed) ==
    IF proc[p].surface = "command" THEN revealed
    ELSE {f \in revealed :
            ~Sensitive(f, IF proc[p].surface = "tool" THEN Issued(proc[p].op) ELSE Absent)}

\* A command ends with exit status zero exactly when it succeeded.
End(outcome, shown) ==
    [at |-> "answered", outcome |-> outcome, shown |-> shown, args |-> {}, left |-> Nothing,
     token |-> Absent, env |-> FALSE, id |-> Absent, todo |-> Nothing, failing |-> FALSE, bad |-> FALSE]

-----------------------------------------------------------------------------
(* Deploys: each selected yard is deployed in turn, whatever became of the *)
(* ones before it; a deploy that fails after its start is reported failed. *)

DeployRequests(args) ==
    (IF "public" \in args THEN Nothing ELSE One("ListWebYards", Scoped, Nothing))
    \o Requests["deploy_web_yard"]

SelectYards(args, name) ==
    LET configured == settings.yards
    IN  IF "all" \in args THEN SetToSeq(configured)
        ELSE IF "yard" \in args
             THEN IF "directory" \in args \/ name \in configured THEN << name >> ELSE Nothing
        ELSE CASE configured = {} -> IF "directory" \in args THEN << "main" >> ELSE Nothing
               [] Cardinality(configured) = 1 -> SetToSeq(configured)
               [] OTHER -> Nothing

NextYard(p, good) ==
    IF proc[p].todo = Nothing
    THEN With([args |-> proc[p].args \cap {"all"}],
              End(IF good /\ ~proc[p].bad THEN "ok" ELSE "failed", {}))
    ELSE [at |-> "load", yard |-> Head(proc[p].todo), todo |-> Tail(proc[p].todo),
          left |-> DeployRequests(proc[p].args), id |-> Absent, failing |-> FALSE,
          bad |-> proc[p].bad \/ ~good]

\* Leaving an operation on an error.
Failure(p) ==
    IF proc[p].op # "deploy_web_yard" THEN End("failed", {})
    ELSE IF proc[p].id # Absent /\ ~proc[p].failing
         THEN [at |-> "load", failing |-> TRUE, token |-> Absent,
               left |-> One("FailYardDeploy", {"deployId", "failureCode", "failureMessage"}, Nothing)]
         ELSE NextYard(p, FALSE)

\* Going on after a request that was answered well.
Proceed(p) ==
    LET rest == Tail(proc[p].left)
        e    == Head(proc[p].left).endpoint
    IN  IF rest # Nothing THEN [at |-> "load", left |-> rest, token |-> Absent]
        ELSE IF proc[p].op = "deploy_web_yard" THEN NextYard(p, ~proc[p].failing)
        ELSE End("ok", Shown(p, Reveals(e)))

-----------------------------------------------------------------------------
(* Starting.                                                               *)

\* The scope an operation cannot do without.
Needs(op, args) ==
    IF op = "list_objects" /\ "prefix" \in args THEN {}
    ELSE Scoped \cap UNION {Requests[op][i].always : i \in DOMAIN Requests[op]}

\* What stops an operation before its first request: an unknown profile, a
\* missing scope, no yard to deploy, a deletion nobody agreed to, an agent's
\* deploy without consent.
Refused(op, args, profile, name, agreed) ==
    \/ profile # "cloud" /\ profile \notin profiles
    \/ ~(Needs(op, args) \subseteq args \cup settings.scope)
    \/ op = "deploy_web_yard" /\ SelectYards(args, name) = Nothing
    \/ op = "delete_web_yard" /\ ~agreed

\* The arguments that still matter once the operation runs.
Kept(op, args) ==
    args \cap ({"public", "all"} \cup UNION {DOMAIN Requests[op][i].maybe : i \in DOMAIN Requests[op]})

Launch(p, surface, op, args, profile, env, key, name, agreed) ==
    LET base == [Resting EXCEPT !.surface = surface, !.op = op, !.args = Kept(op, args),
                             !.profile = profile, !.env = env, !.key = key]
        chosen == SelectYards(args, name)
    IN  proc' = [proc EXCEPT ![p] =
          IF Refused(op, args, profile, name, agreed) THEN With(End("failed", {}), base)
          ELSE IF op = "deploy_web_yard"
               THEN With([at |-> "load", yard |-> Head(chosen), todo |-> Tail(chosen),
                          left |-> DeployRequests(args)], base)
          ELSE With([at |-> IF op = "login" THEN "send" ELSE "load",
                     yard |-> IF "yard" \in args THEN name ELSE Absent,
                     left |-> Requests[op]], base)]

\* Argument sets a caller may come with: what a table requires and any of the
\* operation's own options, or everything it accepts.
Offered(table, op) ==
    {table[op].accepts}
    \cup {table[op].requires \cup s :
             s \in SUBSET (table[op].accepts \ (table[op].requires \cup Scoped))}

\* Bound: alone, an operation runs once, on untouched services.
Solitary == [ops |-> {}, profiles |-> {"cloud", "home"}, envs |-> {FALSE}]

\* Bound: in a race the callers come with these arguments.
InRace(op, args) ==
    settings.race # Solitary =>
        args = CASE op = "deploy_web_yard" -> {"directory", "yard", "public"}
                 [] op = "delete_web_yard" -> {"yard"} \cup (args \cap {"force", "confirm"})
                 [] OTHER -> args \ Scoped

MayRun(p, op) ==
    /\ proc[p] = Resting
    /\ IF settings.race # Solitary THEN op \in settings.race.ops
       ELSE /\ \A q \in Procs \ {p} : proc[q] = Resting /\ session[q] = Absent
            /\ faults = 0 /\ seen = {} /\ Len(yards) <= 1 /\ \A i \in DOMAIN yards : ~yards[i].gone
            /\ store.cloud = 1 /\ store.home \in {2, Absent}

\* Bound: the choices that matter to the operation only.
NamesFor(args) == IF "yard" \in args THEN Names ELSE {"main"}
KeysFor(op) ==
    IF \E i \in DOMAIN Requests[op] : Requests[op][i].endpoint \in SupportsIdempotency \ {"RequestUpload"}
    THEN {Absent, "key"} ELSE {Absent}

RunCommand(p) ==
    \E op \in DOMAIN Commands :
        /\ MayRun(p, op) /\ session[p] = Absent
        /\ \E args \in Offered(Commands, op), profile \in settings.race.profiles,
              env \in settings.race.envs,
              key \in KeysFor(op), agreed \in BOOLEAN :
             /\ InRace(op, args)
             /\ agreed = (op = "delete_web_yard" => "force" \in args \/ agreed)
             /\ \E name \in NamesFor(args) :
                  Launch(p, "command", op, args, profile, env, key, name, agreed)
        /\ UNCHANGED <<session, files, service, faults>>

-----------------------------------------------------------------------------
(* The MCP server in a terminal (bound: in one terminal at a time, and     *)
(* without a token in its environment).                                    *)

ServeMcp(p) ==
    /\ proc[p] = Resting /\ \A q \in Procs : session[q] = Absent
    /\ \E profile \in settings.race.profiles \cap ({"cloud"} \cup profiles) :
         session' = [session EXCEPT ![p] = [ready |-> FALSE, profile |-> profile]]
    /\ UNCHANGED <<proc, files, service, faults>>

InitializeMcp(p) ==
    /\ proc[p] = Resting /\ session[p] # Absent
    /\ ~session[p].ready
    /\ session' = [session EXCEPT ![p].ready = TRUE]
    /\ UNCHANGED <<proc, files, service, faults>>

\* Standard input ends.
CloseMcp(p) ==
    /\ proc[p] = Resting /\ session[p] # Absent
    /\ session' = [session EXCEPT ![p] = Absent]
    /\ UNCHANGED <<proc, files, service, faults>>

\* A call that leaves something out, or adds something unknown.
Malformed(op) ==
    {Catalog[op].requires \ {a} : a \in Catalog[op].requires}
    \cup {Catalog[op].requires \cup {"unknown"}}

CallTool(p) ==
    /\ session[p] # Absent
    /\ \E op \in DOMAIN Catalog :
        /\ MayRun(p, op)
        /\ \E args \in Offered(Catalog, op) \cup Malformed(op) :
            /\ InRace(op, args)
            /\ \/ /\ ~session[p].ready
                  /\ proc' = [proc EXCEPT ![p] =
                       With(End("not_initialized", {}),
                            [Resting EXCEPT !.surface = "tool", !.op = op])]
               \/ /\ session[p].ready /\ ~Admits(Tools, op, args)
                  /\ proc' = [proc EXCEPT ![p] =
                       With(End("invalid_params", {}),
                            [Resting EXCEPT !.surface = "tool", !.op = op, !.args = args,
                                            !.obeys = Admits(Catalog, op, args)])]
               \/ /\ session[p].ready /\ Admits(Tools, op, args)
                  /\ \E name \in NamesFor(args) :
                       Launch(p, "tool", op, args, session[p].profile, FALSE, Absent, name, TRUE)
    /\ UNCHANGED <<session, files, service, faults>>

\* A resource is a tool under another name: the caller, a project's objects
\* or its retention policy.
ReadResource(p) ==
    /\ session[p] # Absent
    /\ session[p].ready
    /\ \E op \in {"whoami", "list_objects", "get_retention"} :
        /\ MayRun(p, op)
        /\ Launch(p, "resource", op, IF op = "whoami" THEN {} ELSE {"project"},
                  session[p].profile, FALSE, Absent, "main", TRUE)
    /\ UNCHANGED <<session, files, service, faults>>

-----------------------------------------------------------------------------
(* The credential.                                                         *)

Held == {proc[p].token : p \in Procs}

Known == Held \cup {store[f] : f \in DOMAIN store}

\* A token that nobody has: the one which the service hands out next.
Unheld ==
    LET unused == Secrets \ Known
    IN  {t \in unused : \A u \in unused : t <= u}

Load(p) ==
    /\ proc[p].at = "load"
    /\ LET stored == store[proc[p].profile]
       IN  CASE proc[p].env -> Update(p, [at |-> "send", token |-> Absent])
             [] ~proc[p].env /\ stored = Absent -> Update(p, Failure(p))
             [] OTHER -> Update(p, [token |-> stored,
                    at |-> IF Cloud(p) /\ proc[p].op # "logout" THEN "refresh" ELSE "send"])
    /\ UNCHANGED <<session, files, service, faults>>

\* The hosted service trades a refresh token for a new one, once.
Rotate(old, new) == live' = ((live \cap Known) \ {old}) \cup {new}

Refresh(p) ==
    /\ proc[p].at = "refresh"
    /\ \/ /\ proc[p].token \in live
          /\ \E new \in Unheld :
               /\ Rotate(proc[p].token, new)
               /\ \/ Update(p, [at |-> "save", token |-> new]) /\ UNCHANGED faults
                  \/ faults < MaxFaults /\ faults' = faults + 1 /\ Update(p, Failure(p))
       \/ /\ proc[p].token \notin live
          /\ Update(p, Failure(p))
          /\ UNCHANGED <<live, faults>>
    /\ UNCHANGED <<session, files, unspent, yards, seen, applied, served>>

\* Mutant: the rotated token is not saved.
SaveNothing(p) ==
    /\ proc[p].at = "save"
    /\ Update(p, [at |-> "send", token |-> Absent])
    /\ UNCHANGED <<session, files, service, faults>>

Save(p) ==
    /\ proc[p].at = "save"
    /\ store' = [store EXCEPT ![proc[p].profile] = proc[p].token]
    /\ Update(p, [at |-> "send", token |-> Absent])
    /\ UNCHANGED <<session, profiles, settings, service, faults>>

\* The end of logout, and of login.
Forget(p) ==
    /\ proc[p].at = "forget"
    /\ store' = [store EXCEPT ![proc[p].profile] = Absent]
    /\ Update(p, End("ok", {}))
    /\ UNCHANGED <<session, profiles, settings, service, faults>>

Keep(p) ==
    /\ proc[p].at = "keep"
    /\ store' = [store EXCEPT !["cloud"] = proc[p].token]
    /\ Update(p, End("ok", {}))
    /\ UNCHANGED <<session, profiles, settings, service, faults>>

-----------------------------------------------------------------------------
(* Requests.                                                               *)

\* Mutant: the digest leaves the endpoint out.
RetryDigestBare(endpoint, key) == key

\* The idempotency key sent for a caller's retry key.
RetryDigest(endpoint, key) == << endpoint, key >>

There(id) == id \in DOMAIN yards /\ ~yards[id].gone

Named(name) == {id \in DOMAIN yards : ~yards[id].gone /\ yards[id].name = name}

\* The yard that a command means, of those the service lists: the named one,
\* or the only one.
SelectYard(name) ==
    IF name # Absent THEN Named(name)
    ELSE {id \in DOMAIN yards : There(id) /\ \A j \in DOMAIN yards : There(j) => j = id}

\* The fields of the request about to leave.
Sent(p) == FieldsOf(Head(proc[p].left), proc[p].args \cup (settings.scope \cap {"project"}))

\* What the request does in the service that receives it, and whether it is
\* answered well.
Effect(p, e, ok) ==
    LET id == proc[p].id
        digest == RetryDigest(e, proc[p].key)
        keyed == e \in SupportsIdempotency /\ proc[p].key # Absent
    IN
    \/ /\ e = "StartYardDeploy" /\ ok
       /\ \/ Named(proc[p].yard) # {} /\ UNCHANGED yards
          \/ /\ Named(proc[p].yard) = {} /\ Len(yards) < MaxYards
             /\ yards' = Append(yards, [name |-> proc[p].yard, current |-> FALSE, gone |-> FALSE])
       /\ UNCHANGED <<live, seen, applied, served>>
    \/ /\ e = "StartYardDeploy" /\ ~ok
       /\ Named(proc[p].yard) = {} /\ Len(yards) = MaxYards
       /\ UNCHANGED <<live, yards, seen, applied, served>>
    \/ /\ e = "FinaliseYardDeploy" /\ ok = There(id)
       /\ yards' = IF ok THEN [yards EXCEPT ![id].current = TRUE] ELSE yards
       /\ served' = IF ok THEN served \cup {<<proc[p].yard, p>>} ELSE served
       /\ UNCHANGED <<live, seen, applied>>
    \/ /\ e = "DeleteWebYard" /\ ok = There(id)
       /\ yards' = IF ok THEN [yards EXCEPT ![id].gone = TRUE] ELSE yards
       /\ UNCHANGED <<live, seen, applied, served>>
    \/ /\ e = "Logout"
       /\ ok = (proc[p].env \/ proc[p].token \in live)
       /\ live' = live \ {proc[p].token}
       /\ UNCHANGED <<yards, seen, applied, served>>
    \/ /\ keyed /\ ok
       /\ seen' = seen \cup {digest}
       /\ applied' = IF digest \in seen THEN applied
                     ELSE [applied EXCEPT ![e] = @ + 1]
       /\ UNCHANGED <<live, yards, served>>
    \/ /\ e \notin {"StartYardDeploy", "FinaliseYardDeploy", "DeleteWebYard", "Logout"}
       /\ ~keyed
       /\ ok = (/\ (~Cloud(p) /\ ~proc[p].env) => proc[p].token \in live
                /\ ~Cloud(p) => Understood(e, Sent(p))
                /\ (id # Absent /\ e # "ListWebYards") => There(id))
       /\ UNCHANGED <<live, yards, seen, applied, served>>

\* The answer arrives.
Receive(p, e, ok) ==
    IF ~ok THEN Update(p, Failure(p))
    ELSE CASE e = "ListWebYards" /\ proc[p].op = "deploy_web_yard" ->
              \/ Update(p, Proceed(p))
              \/ /\ \A i \in DOMAIN yards : There(i) => (yards[i].name # proc[p].yard \/ ~yards[i].current)
                 /\ Update(p, Failure(p))
           [] e = "ListWebYards" /\ proc[p].op \notin {"deploy_web_yard", "list_web_yards"} ->
              \/ \E id \in SelectYard(proc[p].yard) : Update(p, With([id |-> id], Proceed(p)))
              \/ SelectYard(proc[p].yard) = {} /\ Update(p, Failure(p))
           [] e = "StartYardDeploy" ->
              \E id \in {i \in DOMAIN yards' : ~yards'[i].gone /\ yards'[i].name = proc[p].yard} :
                  Update(p, With([id |-> id], Proceed(p)))
           [] e \in {"DeleteWebYard", "RollbackWebYard"} ->
              Update(p, With([touched |-> proc[p].id], Proceed(p)))
           [] e = "Logout" /\ ~proc[p].env -> Update(p, [at |-> "forget", token |-> Absent])
           [] e = "DeviceStart" -> Update(p, [at |-> "send", left |-> Tail(proc[p].left)])
           [] OTHER -> Update(p, Proceed(p))

Send(p) ==
    /\ proc[p].at = "send"
    /\ LET e == Head(proc[p].left).endpoint
       IN  /\ e # "DevicePoll"
           /\ \/ /\ ~Available(e, Cloud(p))
                 /\ Update(p, Failure(p))
                 /\ UNCHANGED <<live, yards, seen, applied, served, faults>>
              \/ /\ Available(e, Cloud(p))
                 /\ \E ok \in BOOLEAN : Effect(p, e, ok) /\ Receive(p, e, ok)
                 /\ UNCHANGED faults
              \/ /\ Available(e, Cloud(p))
                 /\ faults < MaxFaults /\ faults' = faults + 1
                 /\ Update(p, Failure(p))
                 /\ \/ \E ok \in BOOLEAN : Effect(p, e, ok)
                    \/ UNCHANGED <<live, yards, seen, applied, served>>
    /\ UNCHANGED <<session, files, unspent>>

\* A device login polls until the person decides or the code expires.
PollDevice(p) ==
    /\ proc[p].at = "send" /\ proc[p].op = "login"
    /\ Head(proc[p].left).endpoint = "DevicePoll"
    /\ \/ UNCHANGED <<proc, live>>
       \/ Update(p, Failure(p)) /\ UNCHANGED live
       \/ \E new \in Unheld : live' = (live \cap Known) \cup {new} /\ Update(p, [at |-> "keep", token |-> new])
    /\ UNCHANGED <<session, files, unspent, yards, seen, applied, served, faults>>

-----------------------------------------------------------------------------
(* Adding a standalone profile with the server's setup token.              *)

AddProfile(p) ==
    /\ MayRun(p, "profile_add") /\ session[p] = Absent
    /\ LET base == [Resting EXCEPT !.surface = "command", !.op = "profile_add", !.profile = "home"]
       IN  proc' = [proc EXCEPT ![p] = IF "home" \in profiles THEN With(End("failed", {}), base)
                                       ELSE [base EXCEPT !.at = "exchange"]]
    /\ UNCHANGED <<session, files, service, faults>>

Exchange(p) ==
    /\ proc[p].at = "exchange"
    /\ \/ /\ unspent /\ unspent' = FALSE
          /\ \E new \in Unheld :
               /\ live' = (live \cap Known) \cup {new}
               /\ \/ Update(p, [at |-> "keep_home", token |-> new]) /\ UNCHANGED faults
                  \/ faults < MaxFaults /\ faults' = faults + 1 /\ Update(p, Failure(p))
       \/ /\ ~unspent
          /\ Update(p, Failure(p))
          /\ UNCHANGED <<live, unspent, faults>>
    /\ UNCHANGED <<session, files, yards, seen, applied, served>>

KeepHome(p) ==
    /\ proc[p].at = "keep_home"
    /\ store' = [store EXCEPT !["home"] = proc[p].token]
    /\ Update(p, [at |-> "write", token |-> Absent])
    /\ UNCHANGED <<session, profiles, settings, service, faults>>

\* The configuration file is read again, extended and replaced; when that
\* fails the token is deleted.
WriteProfile(p) ==
    /\ proc[p].at = "write"
    /\ \/ /\ "home" \notin profiles
          /\ profiles' = profiles \cup {"home"}
          /\ Update(p, End("ok", {}))
          /\ UNCHANGED store
       \/ /\ store' = [store EXCEPT !["home"] = Absent]
          /\ Update(p, End("failed", {}))
          /\ UNCHANGED profiles
    /\ UNCHANGED <<session, settings, service, faults>>

-----------------------------------------------------------------------------

\* The answer is printed or written to the agent; the terminal is free again.
Render(p) ==
    /\ proc[p].at = "answered"
    /\ proc' = [proc EXCEPT ![p] = Resting]
    /\ served' = {s \in served : s[2] # p}
    /\ UNCHANGED <<session, files, live, unspent, yards, seen, applied, faults>>

Kill(p) ==
    /\ proc[p].at \notin {"idle", "answered"} /\ faults < MaxFaults
    /\ faults' = faults + 1
    /\ proc' = [proc EXCEPT ![p] = Resting]
    /\ session' = [session EXCEPT ![p] = Absent]
    /\ served' = {s \in served : s[2] # p}
    /\ UNCHANGED <<files, live, unspent, yards, seen, applied>>

ClientsInit ==
    /\ proc = [p \in Procs |-> Resting]
    /\ session = [p \in Procs |-> Absent]
    /\ settings \in [scope : {{}, {"workspace"}, Scoped}, yards : {{}}, race : {Solitary}]
                    \cup [scope : {Scoped}, yards : {{"main"}, Names}, race : {Solitary}]
                    \cup [scope : {Scoped}, yards : {{}}, race : Races]
    /\ \E signed \in IF "login" \in settings.race.ops THEN BOOLEAN ELSE {TRUE},
          added \in IF "deploy_web_yard" \in settings.race.ops THEN {TRUE}
                    ELSE IF "home" \in settings.race.profiles THEN BOOLEAN ELSE {FALSE} :
         /\ store = [cloud |-> IF signed THEN 1 ELSE Absent, home |-> IF added THEN 2 ELSE Absent]
         /\ profiles = IF added THEN {"home"} ELSE {}
         /\ unspent = ~added
         /\ live = {store.cloud, store.home} \ {Absent}
    /\ yards \in IF settings.race = Solitary \/ "deploy_web_yard" \in settings.race.ops
                 THEN {Nothing, << [name |-> "main", current |-> TRUE, gone |-> FALSE] >>}
                 ELSE {Nothing}
    /\ seen = {}
    /\ applied = [e \in SupportsIdempotency |-> 0]
    /\ served = {}
    /\ faults = 0

ClientsNext ==
    \E p \in Procs :
        \/ RunCommand(p) \/ ServeMcp(p) \/ InitializeMcp(p) \/ CloseMcp(p) \/ CallTool(p)
        \/ ReadResource(p) \/ Load(p) \/ Refresh(p) \/ Save(p) \/ Forget(p) \/ Keep(p)
        \/ Send(p) \/ PollDevice(p) \/ AddProfile(p) \/ Exchange(p) \/ KeepHome(p)
        \/ WriteProfile(p) \/ Render(p) \/ Kill(p)

ClientsSpec == ClientsInit /\ [][ClientsNext]_clientVars

-----------------------------------------------------------------------------
(* Properties.                                                             *)

\* The state is well formed; the credential store holds refresh tokens only.
ClientsTypeOK ==
    /\ \A p \in Procs : proc[p].op \in Operations \cup {Absent, "profile_add"}
                        /\ proc[p].token \in Secrets \cup {Absent}
                        /\ proc[p].id \in DOMAIN yards \cup {Absent}
    /\ \A f \in DOMAIN store : store[f] \in Secrets \cup {Absent}
    /\ live \subseteq Secrets
    /\ profiles \subseteq {"home"}

\* The parsers accept every call that the catalogue's schema for the tool
\* admits (tool_call.rs and its siblings against catalog.rs and its siblings).
CatalogueMatchesParser ==
    \A p \in Procs : proc[p].outcome = "invalid_params" => ~proc[p].obeys

\* A tool that the catalogue calls read-only sends nothing but reads, in all
\* of its requests (catalog_annotations.rs against the runner's requests).
ReadOnlyToolsRead ==
    \A p \in Procs :
        proc[p].surface = "tool" /\ proc[p].op \in ReadOnly =>
            \A i \in DOMAIN proc[p].left : proc[p].left[i].endpoint \in SafeEndpoints

\* Whatever leaves for a standalone server finds a route there whose decoder
\* takes exactly these fields, for every combination of a command's arguments.
RequestsAreUnderstood ==
    \A p \in Procs :
        proc[p].at = "send" /\ ~Cloud(p) /\ Available(Head(proc[p].left).endpoint, FALSE) =>
            Understood(Head(proc[p].left).endpoint, Sent(p))

\* An agent whose call succeeded is shown the one link that the call was made
\* to issue, which nobody can read again, and no other link or credential
\* (sanitize.rs).
OnlyTheIssuedLink ==
    \A p \in Procs :
        (proc[p].surface \in {"tool", "resource"} /\ proc[p].outcome = "ok") =>
            proc[p].shown = {Issued(proc[p].op)} \ {Absent}

\* While no answer was lost and no process killed, and nobody is between the
\* service's change of the credential and the store's, the stored credential
\* of the hosted service is one that the service honours, however refreshes,
\* logins and logouts of the terminals interleave (access_token, logout).
StoredTokenIsLive ==
    (faults = 0 /\ \A p \in Procs : proc[p].at \notin {"save", "forget"}) =>
        store.cloud \in live \cup {Absent}

\* A profile in the configuration has a credential, whatever was interrupted;
\* and an attempt to add one that ran to its end leaves both or neither.
ProfileHasItsToken ==
    /\ "home" \in profiles => store.home # Absent
    /\ (faults = 0 /\ \A p \in Procs : proc[p].op # "profile_add") =>
           (store.home # Absent => "home" \in profiles)

\* A deletion or rollback hits a yard of the name it was given and that the
\* command itself had found under it, also when the name was deleted and
\* deployed again in between (selected_named_yard).
ActsOnTheYardNamed ==
    \A p \in Procs :
        proc[p].touched # Absent => yards[proc[p].touched].name = proc[p].yard

\* A mutation repeated with one retry key takes effect once, and a command
\* that reports success took effect (retry_digest, SupportsIdempotency).
RetryAppliesOnce ==
    /\ \A e \in SupportsIdempotency : applied[e] <= 1
    /\ \A p \in Procs :
        (proc[p].outcome = "ok" /\ proc[p].key # Absent) =>
            \A i \in DOMAIN Requests[proc[p].op] :
                LET e == Requests[proc[p].op][i].endpoint
                IN  e \in SupportsIdempotency => applied[e] = 1

\* A deploy that reports success published every yard it selected, and with
\* --all one failure is neither fatal to the others nor forgotten.
BatchIsReported ==
    \A p \in Procs :
        (proc[p].op = "deploy_web_yard" /\ proc[p].outcome = "ok") =>
            IF "all" \in proc[p].args THEN settings.yards \X {p} \subseteq served
            ELSE <<proc[p].yard, p>> \in served

\* The five hand-written tables of the same operations describe the same
\* thing: what the catalogue advertises the parsers accept, what it calls
\* read-only only reads, and what the commands send the server's decoders
\* take (catalog.rs, tool_call.rs, catalog_annotations.rs, the runner's
\* requests, the handlers' request types).
SurfacesAgree == ClientsTypeOK /\ CatalogueMatchesParser /\ ReadOnlyToolsRead /\ RequestsAreUnderstood

\* Credentials are kept where the client will look for them, are worth
\* something there, and are shown to nobody (access_token, run_from_standard_input,
\* sanitize.rs).
CredentialsAreKept == StoredTokenIsLive /\ ProfileHasItsToken /\ OnlyTheIssuedLink

\* A command acts on what it was told to, once, and tells what became of it
\* (select_yard, retry_digest, deploy_all).
CommandsDoAsTold == ActsOnTheYardNamed /\ RetryAppliesOnce /\ BatchIsReported
=============================================================================
