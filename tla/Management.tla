----------------------------- MODULE Management -----------------------------
(***************************************************************************)
(* Who manages a Yard and what its application may know of a signed-in     *)
(* user: workspace groups with a denormalised member count, management     *)
(* roles, the approved application policy, and the roles of access grants. *)
(*                                                                         *)
(* Changes of a role, of the policy or of a grant's roles take two         *)
(* transactions: the handler reads what is there, writes an audit event    *)
(* with it, and the repository refuses an event that does not tell the     *)
(* present state.  Lists are read page by page, each page a transaction.   *)
(*                                                                         *)
(* One workspace with one active Yard.  Identifiers are numbers because    *)
(* lists are ordered by them.                                              *)
(***************************************************************************)
EXTENDS Integers, FiniteSets, FiniteSetsExt

CONSTANTS
  NUsers, NGroups,
  LastTime,      \* clock readings are 0..LastTime
  ClockOf,       \* the reading of the request that creates a group, <<"group", g>>, or adds a user
  Grants,        \* access grants that may be made
  PrincipalOf,   \* whom each is made to: <<"user", u>> or <<"group", g>>
  AppRoles,      \* application roles
  Graphs,        \* the application policies that are submitted
  RoleChoices,   \* the sets of application roles that are submitted for grants
  Handlers, None,
  RoleRequests,  \* the management roles that are asked for, None to revoke
  PageSize,      \* items of a page: 50 in the code
  MaxGroups, MaxMembers, MaxUserGroups, MaxGroupGrants, MaxAssignments,
  MaxBusy,       \* bound on requests and walks in flight
  MaxChanges,    \* bound on committed changes
  MaxRaced       \* bound on the changes committed before the last request arrives

Users == 1..NUsers
Groups == 1..NGroups
Times == 0..LastTime
Roles == {"owner", "admin", "developer", "auditor"}

\* [inherits, default]: the declared roles are DOMAIN inherits.
IsGraph(g) ==
  /\ DOMAIN g.inherits \subseteq AppRoles /\ IsFiniteSet(DOMAIN g.inherits)
  /\ \A r \in DOMAIN g.inherits : g.inherits[r] \subseteq AppRoles
  /\ g.default \in AppRoles \cup {None}

ASSUME ManagementAssumption ==
  /\ {NUsers, NGroups, LastTime, MaxGroups, MaxMembers, MaxUserGroups} \subseteq Nat
  /\ {MaxGroupGrants, MaxAssignments, MaxBusy, MaxChanges, MaxRaced} \subseteq Nat
  /\ PageSize \in Nat \ {0}
  /\ ClockOf \in [({"user"} \X Users) \cup ({"group"} \X Groups) -> Times]
  /\ RoleRequests \subseteq Roles \cup {None}
  /\ PrincipalOf \in [Grants -> ({"user"} \X Users) \cup ({"group"} \X Groups)]
  /\ \A g \in Graphs : IsGraph(g)
  /\ RoleChoices \subseteq SUBSET AppRoles
  /\ None \notin Roles \cup AppRoles \cup Nat \cup (Int \X Int)
  /\ None \notin [groups : SUBSET Groups, role : Roles \cup {None}, app : SUBSET AppRoles]

VARIABLES
  user,     \* local_users.status
  group,    \* workspace_groups: status, member_count, created_at_ms, whether the name changed
  members,  \* workspace_group_members: <<group, user, added_at_ms>>
  role,     \* yard_management_role_assignments
  policy,   \* yard_application_policies
  grant,    \* yard_access_grants: status and app_roles
  handler,
  walk,     \* a client that follows the cursors of a list
  ledger,   \* what the audit log says, for one who reads nothing else
  changes

vars == <<user, group, members, role, policy, grant, handler, walk, ledger, changes>>

NoGroup == [status |-> "none", count |-> 0, created |-> 0, renamed |-> FALSE]
NoPolicy == [revision |-> 0, graph |-> None, effective |-> None]
NoGrant == [status |-> "none", roles |-> {}]
Idle == [step |-> "idle", op |-> "none", subject |-> None, to |-> None, from |-> None, cursor |-> None]
NoWalk == [list |-> "none", group |-> None, cursor |-> None, seen |-> {}, stable |-> {}, done |-> FALSE]

Init ==
  /\ user = [u \in Users |-> "none"]
  /\ group = [g \in Groups |-> NoGroup]
  /\ members = {}
  /\ role = [u \in Users |-> None]
  /\ policy = NoPolicy
  /\ grant = [x \in Grants |-> NoGrant]
  /\ handler = [h \in Handlers |-> Idle]
  /\ walk = NoWalk
  /\ ledger = [members |-> {}, role |-> role, revision |-> 0, roles |-> [x \in Grants |-> {}],
               chained |-> TRUE]
  /\ changes = 0

Count == changes < MaxChanges /\ changes' = changes + 1

\* The bounds allow one more request.
Room ==
  /\ changes < MaxRaced
  /\ Cardinality({h \in Handlers : handler[h] # Idle}) + (IF walk.list = "none" THEN 0 ELSE 1) < MaxBusy

Row(g, u) == {m \in members : m[1] = g /\ m[2] = u}
RowsOf(g) == {m \in members : m[1] = g}
GroupsOf(u) == {m \in members : m[2] = u}

-----------------------------------------------------------------------------
(* Local users.                                                            *)

CreateUser(u) ==
  /\ user[u] = "none"
  /\ user' = [user EXCEPT ![u] = "active"]
  /\ UNCHANGED <<group, members, role, policy, grant, handler, ledger, changes>>

\* The rows of a deactivated user go; the counts of the groups stay.
RemoveRowsOnly(u) ==
  /\ members' = members \ GroupsOf(u)
  /\ UNCHANGED group

\* remove_user_memberships
RemoveUserMemberships(u) ==
  /\ members' = members \ GroupsOf(u)
  /\ group' = [g \in Groups |-> [group[g] EXCEPT !.count = @ - Cardinality(Row(g, u))]]

\* A deactivated user keeps the management role, which admits to nothing.
DeactivateUser(u) ==
  /\ Count
  /\ user[u] = "active"
  /\ user' = [user EXCEPT ![u] = "deactivated"]
  /\ RemoveUserMemberships(u)
  /\ ledger' = [ledger EXCEPT !.members = {m \in @ : m[2] # u}]
  /\ UNCHANGED <<role, policy, grant, handler>>

-----------------------------------------------------------------------------
(* Workspace groups.                                                       *)

ActiveGroups == {g \in Groups : group[g].status = "active"}
ActiveGrantsOf(p) == {x \in Grants : PrincipalOf[x] = p /\ grant[x].status = "active"}

\* No grant may already name the new identifier.
CreateGroup(g) ==
  /\ Count
  /\ group[g].status = "none"
  /\ Cardinality(ActiveGroups) < MaxGroups
  /\ \A x \in Grants : PrincipalOf[x] = <<"group", g>> => grant[x].status = "none"
  /\ group' = [group EXCEPT ![g] = [status |-> "active", count |-> 0, created |-> ClockOf[<<"group", g>>],
                                  renamed |-> FALSE]]
  /\ UNCHANGED <<user, members, role, policy, grant, handler, ledger>>

\* The previous name is read in the transaction and put into the event there.
RenameGroup(g) ==
  /\ Count
  /\ group[g].status = "active"
  /\ ~ group[g].renamed
  /\ group' = [group EXCEPT ![g].renamed = TRUE]
  /\ UNCHANGED <<user, members, role, policy, grant, handler, ledger>>

AddMember(g, u) ==
  /\ Count
  /\ group[g].status = "active"
  /\ user[u] = "active"
  /\ group[g].count < MaxMembers
  /\ Cardinality(GroupsOf(u)) < MaxUserGroups
  /\ Row(g, u) = {}
  /\ members' = members \cup {<<g, u, ClockOf[<<"user", u>>]>>}
  /\ group' = [group EXCEPT ![g].count = @ + 1]
  /\ ledger' = [ledger EXCEPT !.members = @ \cup {<<g, u>>}]
  /\ UNCHANGED <<user, role, policy, grant, handler>>

RemoveMember(g, u) ==
  /\ Count
  /\ group[g].status = "active"
  /\ Row(g, u) # {}
  /\ members' = members \ Row(g, u)
  /\ group' = [group EXCEPT ![g].count = @ - 1]
  /\ ledger' = [ledger EXCEPT !.members = @ \ {<<g, u>>}]
  /\ UNCHANGED <<user, role, policy, grant, handler>>

\* Deactivation ends the memberships and the grants of the group.
DeactivateGroup(g) ==
  /\ Count
  /\ group[g].status = "active"
  /\ Cardinality(ActiveGrantsOf(<<"group", g>>)) <= MaxGroupGrants
  /\ grant' = [x \in Grants |-> IF x \in ActiveGrantsOf(<<"group", g>>)
                                  THEN [grant[x] EXCEPT !.status = "revoked"] ELSE grant[x]]
  /\ members' = members \ RowsOf(g)
  /\ group' = [group EXCEPT ![g].status = "deactivated", ![g].count = 0]
  /\ ledger' = [ledger EXCEPT !.members = {m \in @ : m[1] # g}]
  /\ UNCHANGED <<user, role, policy, handler>>

-----------------------------------------------------------------------------
(* Lists: the items after the cursor, in order, one page at a time.        *)

Precedence == [owner |-> 0, admin |-> 1, developer |-> 2, auditor |-> 3]

\* Groups and members are listed latest first, management roles by precedence.
GroupKeys == {<<LastTime - group[g].created, NGroups - g>> : g \in {x \in Groups : group[x] # NoGroup}}
MemberKeys(g) == {<<LastTime - m[3], NUsers - m[2]>> : m \in RowsOf(g)}
RoleKeys == {<<Precedence[role[u]], u>> : u \in {x \in Users : role[x] # None}}

KeysOf(list, g) == CASE list = "groups" -> GroupKeys
                     [] list = "members" -> MemberKeys(g)
                     [] list = "roles" -> RoleKeys
                     [] OTHER -> {}

Before(a, b) == a[1] < b[1] \/ (a[1] = b[1] /\ a[2] < b[2])

After(keys, cursor) == {k \in keys : cursor = None \/ Before(cursor, k)}
Rank(keys, k) == Cardinality({j \in keys : Before(j, k)})

\* The cursor names the item that did not fit.
PageSkipping(keys, cursor) ==
  LET rest == After(keys, cursor) IN
    [items |-> {k \in rest : Rank(rest, k) < PageSize},
     next |-> IF Cardinality(rest) <= PageSize THEN None
              ELSE CHOOSE k \in rest : Rank(rest, k) = PageSize]

\* One more item than the page holds is read; the cursor names the last one shown.
Page(keys, cursor) ==
  LET rest == After(keys, cursor) IN
    [items |-> {k \in rest : Rank(rest, k) < PageSize},
     next |-> IF Cardinality(rest) <= PageSize THEN None
              ELSE CHOOSE k \in rest : Rank(rest, k) = PageSize - 1]

BeginWalk(list, g) ==
  /\ walk.list = "none"
  /\ Room
  /\ IF list = "members" THEN group[g].status = "active" ELSE g = 1
  /\ walk' = [NoWalk EXCEPT !.list = list, !.group = g, !.stable = KeysOf(list, g)]
  /\ UNCHANGED <<user, group, members, role, policy, grant, handler, ledger, changes>>

\* The members of a group that was deactivated meanwhile are not listed: the walk fails.
WalkPage ==
  /\ walk.list # "none"
  /\ ~ walk.done
  /\ LET page == Page(KeysOf(walk.list, walk.group), walk.cursor) IN
       walk' = IF walk.list = "members" /\ group[walk.group].status # "active" THEN NoWalk
               ELSE [walk EXCEPT !.seen = @ \cup page.items, !.cursor = page.next,
                                 !.done = page.next = None]
  /\ UNCHANGED <<user, group, members, role, policy, grant, handler, ledger, changes>>

EndWalk ==
  /\ walk.done
  /\ walk' = NoWalk
  /\ UNCHANGED <<user, group, members, role, policy, grant, handler, ledger, changes>>

-----------------------------------------------------------------------------
(* Management roles.                                                       *)

Assigned == {u \in Users : role[u] # None}
Owners == {u \in Users : role[u] = "owner"}

\* validate_state
RolesIntact == Cardinality(Assigned) <= MaxAssignments /\ (Assigned # {} => Owners # {})

Step(h, record) == handler' = [handler EXCEPT ![h] = record]

\* A change of u's role to r, or its revocation when r is None.
BeginRoleChange(h, u, r) ==
  /\ handler[h] = Idle
  /\ Room
  /\ Step(h, [Idle EXCEPT !.step = "look", !.op = "role", !.subject = u, !.to = r])
  /\ UNCHANGED <<user, group, members, role, policy, grant, ledger, changes>>

\* role_for_user reads pages until the user turns up.
LookUpRole(h) ==
  LET r == handler[h]
      page == Page(RoleKeys, r.cursor)
      found == \E k \in page.items : k[2] = r.subject
  IN /\ r.step = "look"
     /\ Step(h, IF ~ RolesIntact THEN Idle
                ELSE IF found THEN [r EXCEPT !.step = "write", !.from = role[r.subject], !.cursor = None]
                ELSE IF page.next # None THEN [r EXCEPT !.cursor = page.next]
                ELSE IF r.to = None THEN Idle
                ELSE [r EXCEPT !.step = "write", !.cursor = None])
     /\ UNCHANGED <<user, group, members, role, policy, grant, ledger, changes>>

\* The first assignment makes an owner, and the last owner stays one.
KeepsOwner(u, r) ==
  /\ Assigned = {} => r = "owner"
  /\ Owners = {u} => r = "owner"

\* The audit event is not compared with the row.
TellsAnything(from, present) == TRUE

\* action_event compares the event's metadata with the state of the transaction.
Tells(from, present) == from = present

MaySetRole(r) ==
  /\ r.to # None
  /\ user[r.subject] = "active"
  /\ role[r.subject] = None => Cardinality(Assigned) < MaxAssignments

MayRevokeRole(r) == r.to = None /\ role[r.subject] # None

\* set and revoke of yard_management_roles
MayChangeRole(r) ==
  /\ r.op = "role"
  /\ RolesIntact
  /\ MaySetRole(r) \/ MayRevokeRole(r)
  /\ KeepsOwner(r.subject, r.to)
  /\ Tells(r.from, role[r.subject])

ChangeRole(h) ==
  LET r == handler[h] IN
  /\ Count
  /\ r.step = "write"
  /\ MayChangeRole(r)
  /\ role' = [role EXCEPT ![r.subject] = r.to]
  /\ ledger' = [ledger EXCEPT !.role[r.subject] = r.to,
                              !.chained = @ /\ ledger.role[r.subject] = r.from]
  /\ Step(h, Idle)
  /\ UNCHANGED <<user, group, members, policy, grant>>

-----------------------------------------------------------------------------
(* Application policies.                                                   *)

\* Everything a set of roles inherits: the worklist of has_cycle and inherited_closure.
Inherited(g, start) ==
  LET reach[seen \in SUBSET DOMAIN g.inherits] ==
        LET more == seen \cup UNION {g.inherits[r] : r \in seen}
        IN IF more = seen THEN seen ELSE reach[more]
  IN reach[start]

HasCycle(g, r) == r \in Inherited(g, g.inherits[r])


Expand(g) == [r \in DOMAIN g.inherits |-> Inherited(g, {r})]

\* validate_graph
ValidGraph(g) ==
  /\ g.default \in DOMAIN g.inherits \cup {None}
  /\ \A r \in DOMAIN g.inherits : g.inherits[r] \subseteq DOMAIN g.inherits
  /\ \A r \in DOMAIN g.inherits : ~ HasCycle(g, r)

ReadPolicy(h, g) ==
  /\ handler[h] = Idle
  /\ Room
  /\ ValidGraph(g)
  /\ Step(h, [Idle EXCEPT !.step = "write", !.op = "policy", !.to = g, !.from = policy.revision])
  /\ UNCHANGED <<user, group, members, role, policy, grant, ledger, changes>>

MaySetPolicy(r) ==
  /\ r.op = "policy"
  /\ RolesIntact
  /\ Owners # {}
  /\ ValidGraph(r.to)
  /\ Tells(r.from, policy.revision)

SetPolicy(h) ==
  LET r == handler[h] IN
  /\ Count
  /\ r.step = "write"
  /\ MaySetPolicy(r)
  /\ policy' = [revision |-> policy.revision + 1, graph |-> r.to, effective |-> Expand(r.to)]
  /\ ledger' = [ledger EXCEPT !.revision = r.from + 1, !.chained = @ /\ ledger.revision = r.from]
  /\ Step(h, Idle)
  /\ UNCHANGED <<user, group, members, role, grant>>

-----------------------------------------------------------------------------
(* Access grants and their application roles.                              *)

\* validated_roles
ValidRoles(roles) == roles # {} => policy.revision > 0 /\ roles \subseteq DOMAIN policy.effective

Grant(x, roles) ==
  /\ Count
  /\ grant[x].status = "none"
  /\ LET p == PrincipalOf[x] IN
       IF p[1] = "user" THEN user[p[2]] = "active"
       ELSE /\ group[p[2]].status = "active"
            /\ Cardinality(ActiveGrantsOf(p)) < MaxGroupGrants
  /\ ValidRoles(roles)
  /\ grant' = [grant EXCEPT ![x] = [status |-> "active", roles |-> roles]]
  /\ ledger' = [ledger EXCEPT !.roles[x] = roles]
  /\ UNCHANGED <<user, group, members, role, policy, handler>>

RevokeGrant(x) ==
  /\ Count
  /\ grant[x].status = "active"
  /\ grant' = [grant EXCEPT ![x].status = "revoked"]
  /\ UNCHANGED <<user, group, members, role, policy, handler, ledger>>

ReadGrant(h, x, roles) ==
  /\ handler[h] = Idle
  /\ Room
  /\ grant[x].status = "active"
  /\ Step(h, [Idle EXCEPT !.step = "write", !.op = "grant", !.subject = x,
                          !.to = roles, !.from = grant[x].roles])
  /\ UNCHANGED <<user, group, members, role, policy, grant, ledger, changes>>

MaySetGrantRoles(r) ==
  /\ r.op = "grant"
  /\ grant[r.subject].status = "active"
  /\ ValidRoles(r.to)
  /\ Tells(r.from, grant[r.subject].roles)

SetGrantRoles(h) ==
  LET r == handler[h] IN
  /\ Count
  /\ r.step = "write"
  /\ MaySetGrantRoles(r)
  /\ grant' = [grant EXCEPT ![r.subject].roles = r.to]
  /\ ledger' = [ledger EXCEPT !.roles[r.subject] = r.to,
                              !.chained = @ /\ ledger.roles[r.subject] = r.from]
  /\ Step(h, Idle)
  /\ UNCHANGED <<user, group, members, role, policy>>

\* The repository answers with an error and the handler passes it on.
Refuse(h) ==
  /\ handler[h].step = "write"
  /\ ~ (MayChangeRole(handler[h]) \/ MaySetPolicy(handler[h]) \/ MaySetGrantRoles(handler[h]))
  /\ Step(h, Idle)
  /\ UNCHANGED <<user, group, members, role, policy, grant, ledger, changes>>

-----------------------------------------------------------------------------
(* What the application is told of a signed-in member (resolve).           *)

\* GROUP_ROLES_SQL: a group that does not count right speaks for nobody.
Speaks(g) ==
  /\ group[g].status = "active"
  /\ group[g].count = Cardinality(RowsOf(g))
  /\ group[g].count <= MaxMembers
  /\ \A m \in RowsOf(g) : user[m[2]] = "active"
  /\ Cardinality(ActiveGrantsOf(<<"group", g>>)) <= MaxGroupGrants

SpeakingGroups(u) ==
  {g \in Groups : Row(g, u) # {} /\ Speaks(g) /\ ActiveGrantsOf(<<"group", g>>) # {}}

RolesGranted(xs) == UNION {grant[x].roles : x \in xs}

\* effective_application_authority: a role that the policy does not declare is passed over.
Effective(assigned) ==
  IF policy.revision = 0 THEN {}
  ELSE UNION {policy.effective[r] : r \in (assigned \cup {policy.graph.default}) \cap DOMAIN policy.effective}

Resolve(u) ==
  IF ~ RolesIntact \/ Cardinality(GroupsOf(u)) > MaxUserGroups THEN None
  ELSE [groups |-> SpeakingGroups(u),
        role |-> role[u],
        app |-> Effective(RolesGranted(ActiveGrantsOf(<<"user", u>>)
                  \cup UNION {ActiveGrantsOf(<<"group", g>>) : g \in SpeakingGroups(u)}))]

-----------------------------------------------------------------------------

Change ==
  \/ \E u \in Users : CreateUser(u) \/ DeactivateUser(u)
  \/ \E g \in Groups : CreateGroup(g) \/ RenameGroup(g) \/ DeactivateGroup(g)
  \/ \E g \in Groups, u \in Users : AddMember(g, u) \/ RemoveMember(g, u)
  \/ \E h \in Handlers, u \in Users, r \in RoleRequests : BeginRoleChange(h, u, r)
  \/ \E h \in Handlers : LookUpRole(h) \/ ChangeRole(h) \/ SetPolicy(h) \/ SetGrantRoles(h) \/ Refuse(h)
  \/ \E h \in Handlers, g \in Graphs : ReadPolicy(h, g)
  \/ \E x \in Grants, roles \in RoleChoices : Grant(x, roles)
  \/ \E x \in Grants : RevokeGrant(x)
  \/ \E h \in Handlers, x \in Grants, roles \in RoleChoices : ReadGrant(h, x, roles)

\* A change leaves the client's cursor alone; what it listed may no longer be there.
Unwalked ==
  \E list \in {walk.list}, g \in {walk.group} :
    walk' = [walk EXCEPT !.stable = @ \cap KeysOf(list, g)']

Next ==
  \/ Change /\ Unwalked
  \/ \E list \in {"groups", "members", "roles"}, g \in Groups : BeginWalk(list, g)
  \/ WalkPage
  \/ EndWalk

Spec == Init /\ [][Next]_vars

-----------------------------------------------------------------------------
(* Properties.                                                             *)

\* Every variable has its type; a member count is never negative.
TypeOK ==
  /\ user \in [Users -> {"none", "active", "deactivated"}]
  /\ group \in [Groups -> [status : {"none", "active", "deactivated"}, count : Nat, created : Times,
                          renamed : BOOLEAN]]
  /\ members \subseteq Groups \X Users \X Times
  /\ role \in [Users -> Roles \cup {None}]
  /\ policy.revision \in Nat
  /\ grant \in [Grants -> [status : {"none", "active", "revoked"}, roles : SUBSET AppRoles]]
  /\ \A h \in Handlers : handler[h].step \in {"idle", "look", "write"}
  /\ changes \in 0..MaxChanges

\* A Yard with management roles has an owner, however the changes of several
\* handlers interleave: set and revoke of yard_management_roles.
YardKeepsOwner == Assigned # {} => Owners # {}

\* The audit log alone tells the roles, the policy's revision, the roles of the
\* grants and the memberships, and every event starts where the one before
\* ended: action_event refuses what a handler read too early.
LedgerAgrees ==
  /\ ledger.chained
  /\ ledger.role = role
  /\ ledger.revision = policy.revision
  /\ ledger.roles = [x \in Grants |-> grant[x].roles]
  /\ ledger.members = {<<m[1], m[2]>> : m \in members}

\* The roles that r inherits: the least set with r that inheritance does not leave.
Below(g, r) ==
  {q \in DOMAIN g.inherits :
     \A S \in SUBSET DOMAIN g.inherits :
       (r \in S /\ \A s \in S : g.inherits[s] \subseteq S) => q \in S}

\* An approved policy has no inheritance cycle and its stored closure is the
\* least one: canonicalize_application_policy.
PolicyIsSound ==
  policy.revision > 0 =>
    LET g == policy.graph IN
    \A r \in DOMAIN g.inherits :
      /\ policy.effective[r] = Below(g, r)
      /\ \A q \in g.inherits[r] : r \notin Below(g, q)

\* The grants that reach u by the memberships of the audit log.
Reaching(u) ==
  {x \in Grants : /\ grant[x].status = "active"
                  /\ \/ PrincipalOf[x] = <<"user", u>>
                     \/ \E g \in Groups : PrincipalOf[x] = <<"group", g>> /\ <<g, u>> \in ledger.members}

\* An active user is told every role that a grant to the user or to one of the
\* user's groups gives, and no other: the consistency checks of resolve never
\* hide authority that was given, and nothing survives its withdrawal.
IdentityIsExact ==
  \A u \in Users : user[u] = "active" =>
    /\ Resolve(u) # None
    /\ Resolve(u).role = ledger.role[u]
    /\ Resolve(u).groups = {g \in Groups : \E x \in Reaching(u) : PrincipalOf[x] = <<"group", g>>}
    /\ Resolve(u).app =
         IF policy.revision = 0 THEN {}
         ELSE {q \in DOMAIN policy.graph.inherits :
                 \E r \in RolesGranted(Reaching(u)) \cup {policy.graph.default} :
                   r \in DOMAIN policy.graph.inherits /\ q \in Below(policy.graph, r)}

\* A client that follows the cursors to the end has seen every item that was
\* there all the time, whatever was added, removed or moved meanwhile.
WalkIsComplete == walk.done => walk.stable \subseteq walk.seen

\* The audit log tells who may do what, and a Yard that has managers has an owner
\* (yard_management_roles, action_event).
AuthorityIsRecorded == TypeOK /\ YardKeepsOwner /\ LedgerAgrees

\* Policies and identities are exactly what was approved and granted
\* (canonicalize_application_policy, resolve).
AuthorityIsExact == PolicyIsSound /\ IdentityIsExact
=============================================================================
