-------------------------- MODULE ManagementProofs --------------------------
(***************************************************************************)
(* Theorems about Management, for any numbers of users, groups, grants and *)
(* requests and any page size: the audit log agrees with what it tells of, *)
(* a managed Yard keeps an owner, a client that follows the cursors misses *)
(* nothing, and an application is told exactly what was granted; and, in   *)
(* the last part, about the operator commands of Recovery.                 *)
(***************************************************************************)
EXTENDS Management, Recovery, FiniteSetTheorems, FunctionTheorems, WellFoundedInduction,
        TLAPS

GroupRows ==
  [status : {"none", "active", "deactivated"}, count : Nat, created : Times, renamed : BOOLEAN]
GrantRows == [status : {"none", "active", "revoked"}, roles : SUBSET AppRoles]
Ledgers ==
  [members : SUBSET (Groups \X Users), role : [Users -> Roles \cup {None}], revision : Nat,
   roles : [Grants -> SUBSET AppRoles], chained : BOOLEAN]

(* What a request holds: an operation's subject and what it is to become.  *)
CallHolds(r) ==
  /\ r \in [step : {"idle", "look", "write"}, op : {r.op}, subject : {r.subject}, to : {r.to},
            from : {r.from}, cursor : {r.cursor}]
  /\ r.op = "role" => r.subject \in Users /\ r.to \in Roles \cup {None}
  /\ r.op = "grant" => r.subject \in Grants /\ r.to \in SUBSET AppRoles

CallsHold ==
  /\ handler = [h \in Handlers |-> handler[h]]
  /\ \A h \in Handlers : CallHolds(handler[h])

(* A member of a group has one row, the count of a group counts its rows,  *)
(* and only an active group has any.                                       *)
MembersHold ==
  /\ IsFiniteSet(members)
  /\ \A m, n \in members : m[1] = n[1] /\ m[2] = n[2] => m = n
  /\ \A g \in Groups : group[g].count = Cardinality(RowsOf(g))
  /\ \A g \in Groups : group[g].status # "active" => RowsOf(g) = {}

AuthorityHolds ==
  /\ TypeOK
  /\ CallsHold
  /\ MembersHold
  /\ YardKeepsOwner
  /\ ledger \in Ledgers
  /\ LedgerAgrees

(* What a walk still owes: an item that was there all the time has been    *)
(* seen, or comes after the cursor.                                        *)
WalkRows ==
  [list : {"none", "groups", "members", "roles"}, group : Groups \cup {None},
   cursor : (Int \X Int) \cup {None}, seen : SUBSET (Int \X Int), stable : SUBSET (Int \X Int),
   done : BOOLEAN]

WalkHolds ==
  /\ walk \in WalkRows
  /\ walk.list = "members" => walk.group \in Groups
  /\ walk.stable \subseteq KeysOf(walk.list, walk.group)
  /\ \A k \in walk.stable : k \in walk.seen \/ (~ walk.done /\ k \in After({k}, walk.cursor))

-----------------------------------------------------------------------------
(* Lists.                                                                  *)

Pairs == Int \X Int

LEMMA BeforeOrders ==
  ASSUME NEW a \in Pairs, NEW b \in Pairs, NEW c \in Pairs
  PROVE  /\ ~ Before(a, a)
         /\ Before(a, b) \/ a = b \/ Before(b, a)
         /\ Before(a, b) /\ Before(b, c) => Before(a, c)
<1>1. a = <<a[1], a[2]>> /\ b = <<b[1], b[2]>> /\ a[1] \in Int /\ a[2] \in Int /\ b[1] \in Int
      /\ b[2] \in Int /\ c[1] \in Int /\ c[2] \in Int
  BY DEF Pairs
<1>2. Before(a, b) \/ a = b \/ Before(b, a)
  <2>1. CASE a[1] = b[1] /\ a[2] = b[2]
    BY <1>1, <2>1
  <2>2. CASE ~ (a[1] = b[1] /\ a[2] = b[2])
    BY <1>1, <2>2 DEF Before
  <2> QED BY <2>1, <2>2
<1> QED BY <1>1, <1>2 DEF Before

(* An item's rank grows with the order and stays below their number.       *)
LEMMA RankIsOrdered ==
  ASSUME NEW keys \in SUBSET Pairs, IsFiniteSet(keys), NEW k \in keys
  PROVE  /\ Rank(keys, k) \in Nat
         /\ Rank(keys, k) < Cardinality(keys)
         /\ \A j \in keys : Before(j, k) => Rank(keys, j) < Rank(keys, k)
<1> DEFINE Ahead(j) == {i \in keys : Before(i, j)}
<1>1. \A j \in keys : IsFiniteSet(Ahead(j)) /\ Cardinality(Ahead(j)) \in Nat
                      /\ Rank(keys, j) = Cardinality(Ahead(j))
  BY FS_Subset, FS_CardinalityType DEF Rank
<1>2. Cardinality(keys) \in Nat
  BY FS_CardinalityType
<1>3. Rank(keys, k) < Cardinality(keys)
  <2>1. Ahead(k) \in SUBSET keys /\ k \notin Ahead(k)
    BY BeforeOrders
  <2>2. Cardinality(Ahead(k)) <= Cardinality(keys) /\ Cardinality(keys) # Cardinality(Ahead(k))
    BY <2>1, FS_Subset
  <2> QED BY <1>1, <1>2, <2>2
<1>4. ASSUME NEW j \in keys, Before(j, k) PROVE Rank(keys, j) < Rank(keys, k)
  <2>1. Ahead(j) \in SUBSET Ahead(k)
    BY <1>4, BeforeOrders
  <2>2. j \in Ahead(k) /\ j \notin Ahead(j)
    BY <1>4, BeforeOrders
  <2> HIDE DEF Ahead
  <2>3. Cardinality(Ahead(j)) <= Cardinality(Ahead(k)) /\ Cardinality(Ahead(k)) # Cardinality(Ahead(j))
    <3>1. IsFiniteSet(Ahead(k)) /\ Ahead(k) # Ahead(j)
      BY <1>1, <2>2
    <3> QED BY <2>1, <3>1, FS_Subset
  <2> QED BY <1>1, <2>3
<1> QED BY <1>1, <1>3, <1>4

(* Every rank below their number is some item's: else the ranks would map  *)
(* the items one to one into fewer numbers.                                *)
LEMMA RankIsTaken ==
  ASSUME NEW keys \in SUBSET Pairs, IsFiniteSet(keys), NEW n \in Nat, n < Cardinality(keys)
  PROVE  \E k \in keys : Rank(keys, k) = n
<1> SUFFICES ASSUME \A k \in keys : Rank(keys, k) # n PROVE FALSE
  OBVIOUS
<1> DEFINE c == Cardinality(keys)
           T == (0..(c - 1)) \ {n}
           f == [k \in keys |-> Rank(keys, k)]
<1>1. c \in Nat
  BY FS_CardinalityType
<1>2. f \in [keys -> T]
  <2>1. \A k \in keys : Rank(keys, k) \in T
    BY <1>1, RankIsOrdered
  <2> QED BY <2>1
<1>3. IsFiniteSet(T) /\ Cardinality(T) < c
  <2>1. IsFiniteSet(0..(c - 1)) /\ Cardinality(0..(c - 1)) = c
    <3>1. 0 \in Int /\ c - 1 \in Int /\ (c - 1) - 0 + 1 = c /\ (0 > c - 1 => c = 0)
      BY <1>1
    <3> HIDE DEF c
    <3> QED BY <3>1, FS_Interval
  <2>2. n \in 0..(c - 1)
    BY <1>1
  <2>3. IsFiniteSet(T) /\ Cardinality(T) = c - 1
    BY <2>1, <2>2, FS_RemoveElement
  <2> QED BY <1>1, <2>3
<1>4. PICK x \in keys, y \in keys : x # y /\ f[x] = f[y]
  <2> HIDE DEF c, T, f
  <2> QED BY <1>2, <1>3, FS_PigeonHole DEF c
<1>5. Rank(keys, x) = Rank(keys, y) /\ Rank(keys, x) \in Nat
  BY <1>4, RankIsOrdered
<1>6. Before(x, y) \/ Before(y, x)
  BY <1>4, BeforeOrders
<1> QED BY <1>5, <1>6, RankIsOrdered

(* A page and its cursor divide what comes after the last cursor.          *)
LEMMA PageDivides ==
  ASSUME NEW keys \in SUBSET Pairs, IsFiniteSet(keys), NEW cursor \in Pairs \cup {None}
  PROVE  LET page == Page(keys, cursor) IN
         /\ page.items \subseteq keys
         /\ page.next \in Pairs \cup {None}
         /\ \A k \in After(keys, cursor) :
              k \in page.items \/ (page.next # None /\ Before(page.next, k))
<1> DEFINE rest == After(keys, cursor)
           page == Page(keys, cursor)
<1>1. rest \in SUBSET keys /\ rest \in SUBSET Pairs
  BY DEF After
<1>2. IsFiniteSet(rest) /\ Cardinality(rest) \in Nat
  BY <1>1, FS_Subset, FS_CardinalityType
<1>3. page.items = {k \in rest : Rank(rest, k) < PageSize}
      /\ page.next = IF Cardinality(rest) <= PageSize THEN None
                     ELSE CHOOSE k \in rest : Rank(rest, k) = PageSize - 1
  BY DEF Page
<1>4. PageSize \in Nat \ {0} /\ None \notin Pairs
  BY ManagementAssumption DEF Pairs
<1> HIDE DEF rest, page
<1>5. CASE Cardinality(rest) <= PageSize
  <2>1. \A k \in rest : Rank(rest, k) < PageSize
    BY <1>1, <1>2, <1>4, <1>5, RankIsOrdered
  <2> QED BY <1>1, <1>3, <1>5, <2>1 DEF rest, page
<1>6. CASE ~ (Cardinality(rest) <= PageSize)
  <2>1. PageSize - 1 \in Nat /\ PageSize - 1 < Cardinality(rest)
    BY <1>2, <1>4, <1>6
  <2>2. \E k \in rest : Rank(rest, k) = PageSize - 1
    BY <1>1, <1>2, <2>1, RankIsTaken
  <2>3. page.next \in rest /\ Rank(rest, page.next) = PageSize - 1
    BY <1>3, <1>6, <2>2
  <2>4. ASSUME NEW k \in rest PROVE k \in page.items \/ Before(page.next, k)
    <3>1. Before(page.next, k) \/ page.next = k \/ Before(k, page.next)
      BY <1>1, <2>3, BeforeOrders
    <3>2. ASSUME page.next = k PROVE Rank(rest, k) < PageSize
      BY <1>4, <2>3, <3>2
    <3>3. ASSUME Before(k, page.next) PROVE Rank(rest, k) < PageSize
      <4>1. Rank(rest, k) < Rank(rest, page.next) /\ Rank(rest, k) \in Nat
        BY <1>1, <1>2, <2>3, <3>3, RankIsOrdered
      <4> QED BY <1>4, <2>3, <4>1
    <3> QED BY <1>3, <3>1, <3>2, <3>3
  <2>5. page.items \subseteq keys /\ page.next \in Pairs /\ page.next # None
    BY <1>1, <1>3, <1>4, <2>3
  <2> QED BY <2>4, <2>5 DEF rest, page
<1> QED BY <1>5, <1>6

(* The keys of a list are finitely many pairs of integers.                 *)
LEMMA KeysAreFinite ==
  ASSUME TypeOK, IsFiniteSet(members), NEW list,
         NEW g, list = "members" => g \in Groups
  PROVE  IsFiniteSet(KeysOf(list, g)) /\ KeysOf(list, g) \in SUBSET Pairs
<1>0. NUsers \in Nat /\ NGroups \in Nat /\ LastTime \in Nat
  BY ManagementAssumption
<1>1. GroupKeys \in SUBSET Pairs
  <2> SUFFICES ASSUME NEW i \in Groups
               PROVE  <<LastTime - group[i].created, NGroups - i>> \in Pairs
    BY DEF GroupKeys
  <2>1. group[i].created \in Int /\ i \in Int
    BY <1>0 DEF TypeOK, Times, Groups
  <2> QED BY <1>0, <2>1 DEF Pairs
<1>2. IsFiniteSet(GroupKeys)
  <2> DEFINE S == {x \in Groups : group[x] # NoGroup}
             f == [i \in S |-> <<LastTime - group[i].created, NGroups - i>>]
  <2>1. IsFiniteSet(Groups)
    BY <1>0, FS_Interval DEF Groups
  <2>2. IsFiniteSet(S)
    BY <2>1, FS_Subset
  <2>3. f \in Surjection(S, GroupKeys)
    BY DEF Surjection, GroupKeys
  <2> HIDE DEF S, f
  <2> QED BY <2>2, <2>3, FS_Surjection
<1>3. RoleKeys \in SUBSET Pairs
  <2> SUFFICES ASSUME NEW u \in Users, role[u] # None
               PROVE  <<Precedence[role[u]], u>> \in Pairs
    BY DEF RoleKeys
  <2>1. role[u] \in Roles /\ u \in Int
    BY <1>0 DEF TypeOK, Users
  <2>2. Precedence[role[u]] \in Int
    BY <2>1 DEF Roles, Precedence
  <2> QED BY <2>1, <2>2 DEF Pairs
<1>4. IsFiniteSet(RoleKeys)
  <2> DEFINE S == {x \in Users : role[x] # None}
             f == [u \in S |-> <<Precedence[role[u]], u>>]
  <2>1. IsFiniteSet(Users)
    BY <1>0, FS_Interval DEF Users
  <2>2. IsFiniteSet(S)
    BY <2>1, FS_Subset
  <2>3. f \in Surjection(S, RoleKeys)
    BY DEF Surjection, RoleKeys
  <2> HIDE DEF S, f
  <2> QED BY <2>2, <2>3, FS_Surjection
<1>5. ASSUME g \in Groups PROVE MemberKeys(g) \in SUBSET Pairs
  <2> SUFFICES ASSUME NEW m \in members
               PROVE  <<LastTime - m[3], NUsers - m[2]>> \in Pairs
    BY DEF MemberKeys, RowsOf
  <2>1. m[3] \in Times /\ m[2] \in Users
    BY DEF TypeOK
  <2>2. m[3] \in Int /\ m[2] \in Int
    BY <1>0, <2>1 DEF Times, Users
  <2> QED BY <1>0, <2>2 DEF Pairs
<1>6. ASSUME g \in Groups PROVE IsFiniteSet(MemberKeys(g))
  <2> DEFINE S == RowsOf(g)
             f == [m \in S |-> <<LastTime - m[3], NUsers - m[2]>>]
  <2>1. S \in SUBSET members
    BY DEF RowsOf
  <2>2. IsFiniteSet(S)
    BY <2>1, FS_Subset
  <2>3. f \in Surjection(S, MemberKeys(g))
    BY DEF Surjection, MemberKeys
  <2> HIDE DEF S, f
  <2> QED BY <2>2, <2>3, FS_Surjection
<1>7. IsFiniteSet({}) /\ {} \in SUBSET Pairs
  BY FS_EmptySet
<1>8. CASE list = "groups"
  BY <1>1, <1>2, <1>8 DEF KeysOf
<1>9. CASE list = "members"
  BY <1>5, <1>6, <1>9 DEF KeysOf
<1>10. CASE list = "roles"
  BY <1>3, <1>4, <1>10 DEF KeysOf
<1>11. CASE list \notin {"groups", "members", "roles"}
  BY <1>7, <1>11 DEF KeysOf
<1> QED BY <1>8, <1>9, <1>10, <1>11

-----------------------------------------------------------------------------
(* The walk of a client.                                                   *)

LEMMA NoWalkHolds ==
  ASSUME walk = NoWalk
  PROVE  WalkHolds
  BY DEF WalkHolds, WalkRows, NoWalk, KeysOf

LEMMA BeginWalkKeeps ==
  ASSUME TypeOK, IsFiniteSet(members), NEW list \in {"groups", "members", "roles"},
         NEW g \in Groups, BeginWalk(list, g)
  PROVE  WalkHolds'
<1> DEFINE w == [NoWalk EXCEPT !.list = list, !.group = g, !.stable = KeysOf(list, g)]
<1>1. KeysOf(list, g) \in SUBSET (Int \X Int)
  BY KeysAreFinite DEF Pairs
<1>2. /\ w.list = list /\ w.group = g /\ w.stable = KeysOf(list, g) /\ w.cursor = None
      /\ w.done = FALSE /\ w \in WalkRows
  BY <1>1 DEF NoWalk, WalkRows
<1>3. walk' = w /\ UNCHANGED <<user, group, members, role>>
  BY DEF BeginWalk
<1> HIDE DEF w
<1>5. walk'.stable \subseteq KeysOf(walk.list, walk.group)'
  <2>1. KeysOf(walk.list, walk.group)' = KeysOf(walk'.list, walk'.group)
    BY <1>3 DEF KeysOf, GroupKeys, MemberKeys, RoleKeys, RowsOf
  <2>2. walk'.list = list /\ walk'.group = g /\ walk'.stable = KeysOf(list, g)
    BY <1>2, <1>3
  <2> QED BY <2>1, <2>2
<1>6. \A k \in walk'.stable : k \in walk'.seen \/ (~ walk'.done /\ k \in After({k}, walk'.cursor))
  BY <1>2, <1>3 DEF After
<1> QED BY <1>2, <1>3, <1>5, <1>6 DEF WalkHolds

LEMMA WalkPageKeeps ==
  ASSUME TypeOK, IsFiniteSet(members), WalkHolds, WalkPage
  PROVE  WalkHolds'
<1> DEFINE keys == KeysOf(walk.list, walk.group)
           page == Page(keys, walk.cursor)
           w == [walk EXCEPT !.seen = walk.seen \cup page.items, !.cursor = page.next,
                             !.done = page.next = None]
<1>1. UNCHANGED <<user, group, members, role>> /\ (walk' = NoWalk \/ walk' = w) /\ ~ walk.done
  BY DEF WalkPage
<1>2. CASE walk' = NoWalk
  BY <1>1, <1>2 DEF WalkHolds, WalkRows, NoWalk, KeysOf
<1>3. CASE walk' = w
  <2>1. walk \in WalkRows
    BY DEF WalkHolds
  <2>2. keys \in SUBSET Pairs /\ IsFiniteSet(keys) /\ walk.stable \subseteq keys
    BY KeysAreFinite DEF WalkHolds
  <2>3. walk.cursor \in Pairs \cup {None}
    BY <2>1 DEF WalkRows, Pairs
  <2>4. /\ page.items \subseteq keys /\ page.next \in Pairs \cup {None}
        /\ \A k \in After(keys, walk.cursor) :
             k \in page.items \/ (page.next # None /\ Before(page.next, k))
    BY <2>2, <2>3, PageDivides
  <2> HIDE DEF page
  <2>5. /\ w \in WalkRows /\ w.list = walk.list /\ w.group = walk.group
        /\ w.stable = walk.stable /\ w.seen = walk.seen \cup page.items /\ w.cursor = page.next
        /\ (w.done <=> page.next = None)
    BY <2>1, <2>2, <2>4 DEF WalkRows, Pairs
  <2> HIDE DEF w, keys
  <2>6. walk'.stable \subseteq KeysOf(walk.list, walk.group)'
    <3>1. KeysOf(walk.list, walk.group)' = KeysOf(walk'.list, walk'.group)
      BY <1>1 DEF KeysOf, GroupKeys, MemberKeys, RoleKeys, RowsOf
    <3> QED BY <1>3, <2>2, <2>5, <3>1 DEF keys
  <2>7. ASSUME NEW k \in walk'.stable
        PROVE  k \in walk'.seen \/ (~ walk'.done /\ k \in After({k}, walk'.cursor))
    <3>1. k \in keys /\ (k \in walk.seen \/ k \in After({k}, walk.cursor))
      BY <1>3, <2>2, <2>5, <2>7 DEF WalkHolds
    <3>2. k \in After({k}, walk.cursor) => k \in After(keys, walk.cursor)
      BY <3>1 DEF After
    <3>3. k \in walk.seen \/ k \in page.items \/ (page.next # None /\ Before(page.next, k))
      BY <2>4, <3>1, <3>2
    <3> QED BY <1>3, <2>5, <3>3 DEF After
  <2> QED BY <1>3, <2>1, <2>5, <2>6, <2>7 DEF WalkHolds
<1> QED BY <1>1, <1>2, <1>3

(* Whatever changes, the client's cursor and what it saw stay.             *)
LEMMA UnwalkedKeeps ==
  ASSUME WalkHolds, Unwalked
  PROVE  WalkHolds'
<1> DEFINE keys == KeysOf(walk.list, walk.group)'
<1>1. walk \in WalkRows
  BY DEF WalkHolds
<1>2. PICK list \in {walk.list}, g \in {walk.group} :
        walk' = [walk EXCEPT !.stable = walk.stable \cap KeysOf(list, g)']
  BY DEF Unwalked
<1>3. /\ walk' \in WalkRows /\ walk'.list = list /\ walk'.group = g /\ walk'.cursor = walk.cursor
      /\ walk'.seen = walk.seen /\ walk'.done = walk.done
      /\ walk'.stable = walk.stable \cap KeysOf(list, g)'
      /\ list = walk.list /\ g = walk.group
  BY <1>1, <1>2 DEF WalkRows
<1>4. KeysOf(walk.list, walk.group)' = KeysOf(list, g)'
  BY <1>3 DEF KeysOf, MemberKeys, RowsOf
<1>5. walk'.stable \subseteq KeysOf(walk.list, walk.group)' /\ walk'.stable \subseteq walk.stable
  BY <1>3, <1>4
<1> QED BY <1>3, <1>5 DEF WalkHolds

-----------------------------------------------------------------------------
(* Changes.  Steps of a request that write nothing but the request.        *)

LEMMA RequestKeeps ==
  ASSUME AuthorityHolds, NEW h \in Handlers, NEW r, CallHolds(r), Step(h, r),
         UNCHANGED <<user, group, members, role, policy, grant, ledger>>,
         changes' \in 0..MaxChanges
  PROVE  AuthorityHolds'
<1>1. handler' = [handler EXCEPT ![h] = r] /\ handler = [k \in Handlers |-> handler[k]]
      /\ \A k \in Handlers : CallHolds(handler[k])
  BY DEF Step, AuthorityHolds, CallsHold
<1>2. handler' = [k \in Handlers |-> handler'[k]]
      /\ \A k \in Handlers : handler'[k] = r \/ handler'[k] = handler[k]
  BY <1>1
<1>3. \A k \in Handlers : CallHolds(handler'[k])
  BY <1>1, <1>2
<1>4. CallsHold'
  BY <1>2, <1>3 DEF CallsHold, CallHolds
<1>5. TypeOK'
  BY <1>3 DEF AuthorityHolds, TypeOK, CallHolds
<1>6. MembersHold' /\ YardKeepsOwner' /\ LedgerAgrees' /\ ledger' \in Ledgers
  BY DEF AuthorityHolds, MembersHold, RowsOf, YardKeepsOwner, Assigned, Owners, LedgerAgrees
<1> QED BY <1>4, <1>5, <1>6 DEF AuthorityHolds

LEMMA IdleHolds == CallHolds(Idle)
  BY DEF CallHolds, Idle

LEMMA CountBounds ==
  ASSUME TypeOK
  PROVE  changes \in 0..MaxChanges /\ (Count => changes' \in 0..MaxChanges)
  BY ManagementAssumption DEF TypeOK, Count

LEMMA RequestsKeep ==
  ASSUME AuthorityHolds, NEW h \in Handlers,
         \/ \E u \in Users, r \in RoleRequests : BeginRoleChange(h, u, r)
         \/ LookUpRole(h)
         \/ \E g \in Graphs : ReadPolicy(h, g)
         \/ \E x \in Grants, roles \in RoleChoices : ReadGrant(h, x, roles)
         \/ Refuse(h)
  PROVE  AuthorityHolds'
<1>0. changes \in 0..MaxChanges
  BY CountBounds DEF AuthorityHolds
<1>1. ASSUME NEW u \in Users, NEW r \in RoleRequests, BeginRoleChange(h, u, r)
      PROVE  AuthorityHolds'
  <2> DEFINE c == [Idle EXCEPT !.step = "look", !.op = "role", !.subject = u, !.to = r]
  <2>1. CallHolds(c)
    BY ManagementAssumption DEF CallHolds, Idle
  <2>2. Step(h, c) /\ UNCHANGED <<user, group, members, role, policy, grant, ledger, changes>>
    BY <1>1 DEF BeginRoleChange
  <2> HIDE DEF c
  <2> QED BY <1>0, <2>1, <2>2, RequestKeeps
<1>2. CASE LookUpRole(h)
  <2> DEFINE c == handler[h]
  <2>1. CallHolds(c)
    BY DEF AuthorityHolds, CallsHold
  <2>2. \A from, cursor :
          /\ CallHolds([c EXCEPT !.step = "write", !.from = from, !.cursor = cursor])
          /\ CallHolds([c EXCEPT !.cursor = cursor])
          /\ CallHolds([c EXCEPT !.step = "write", !.cursor = cursor])
    <3> TAKE from, cursor
    <3>1. /\ c \in [step : {"idle", "look", "write"}, op : {c.op}, subject : {c.subject}, to : {c.to},
                    from : {c.from}, cursor : {c.cursor}]
          /\ c.op = "role" => c.subject \in Users /\ c.to \in Roles \cup {None}
          /\ c.op = "grant" => c.subject \in Grants /\ c.to \in SUBSET AppRoles
      BY <2>1 DEF CallHolds
    <3> HIDE DEF c
    <3>2. CallHolds([c EXCEPT !.step = "write", !.from = from, !.cursor = cursor])
      BY <3>1 DEF CallHolds
    <3>3. CallHolds([c EXCEPT !.cursor = cursor])
      BY <3>1 DEF CallHolds
    <3>4. CallHolds([c EXCEPT !.step = "write", !.cursor = cursor])
      BY <3>1 DEF CallHolds
    <3> QED BY <3>2, <3>3, <3>4
  <2>3. PICK r : CallHolds(r) /\ Step(h, r)
    <3> DEFINE page == Page(RoleKeys, c.cursor)
               found == \E k \in page.items : k[2] = c.subject
    <3> HIDE DEF page
    <3>1. Step(h, IF ~ RolesIntact THEN Idle
                  ELSE IF found THEN [c EXCEPT !.step = "write", !.from = role[c.subject], !.cursor = None]
                  ELSE IF page.next # None THEN [c EXCEPT !.cursor = page.next]
                  ELSE IF c.to = None THEN Idle
                  ELSE [c EXCEPT !.step = "write", !.cursor = None])
      BY <1>2 DEF LookUpRole, page
    <3> HIDE DEF c, found
    <3> QED BY <2>2, <3>1, IdleHolds
  <2>4. UNCHANGED <<user, group, members, role, policy, grant, ledger, changes>>
    BY <1>2 DEF LookUpRole
  <2> QED BY <1>0, <2>3, <2>4, RequestKeeps
<1>3. ASSUME NEW g \in Graphs, ReadPolicy(h, g) PROVE AuthorityHolds'
  <2> DEFINE c == [Idle EXCEPT !.step = "write", !.op = "policy", !.to = g, !.from = policy.revision]
  <2>1. CallHolds(c)
    BY DEF CallHolds, Idle
  <2>2. Step(h, c) /\ UNCHANGED <<user, group, members, role, policy, grant, ledger, changes>>
    BY <1>3 DEF ReadPolicy
  <2> HIDE DEF c
  <2> QED BY <1>0, <2>1, <2>2, RequestKeeps
<1>4. ASSUME NEW x \in Grants, NEW roles \in RoleChoices, ReadGrant(h, x, roles)
      PROVE  AuthorityHolds'
  <2> DEFINE c == [Idle EXCEPT !.step = "write", !.op = "grant", !.subject = x,
                               !.to = roles, !.from = grant[x].roles]
  <2>1. CallHolds(c)
    BY ManagementAssumption DEF CallHolds, Idle
  <2>2. Step(h, c) /\ UNCHANGED <<user, group, members, role, policy, grant, ledger, changes>>
    BY <1>4 DEF ReadGrant
  <2> HIDE DEF c
  <2> QED BY <1>0, <2>1, <2>2, RequestKeeps
<1>5. CASE Refuse(h)
  BY <1>0, <1>5, IdleHolds, RequestKeeps DEF Refuse
<1> QED BY <1>1, <1>2, <1>3, <1>4, <1>5

-----------------------------------------------------------------------------
(* Roles, the policy and grants: the event that is written starts where    *)
(* the last one ended, because Tells compared it with the present.         *)

LEMMA DoneTyped ==
  ASSUME AuthorityHolds, NEW h \in Handlers, Step(h, Idle)
  PROVE  CallsHold' /\ (\A k \in Handlers : handler'[k].step \in {"idle", "look", "write"})
<1>1. /\ handler' = [k \in Handlers |-> handler'[k]]
      /\ \A k \in Handlers : handler'[k] = Idle \/ handler'[k] = handler[k]
  BY DEF Step, AuthorityHolds, CallsHold
<1>2. \A k \in Handlers : CallHolds(handler'[k])
  BY <1>1, IdleHolds DEF AuthorityHolds, CallsHold
<1> QED BY <1>1, <1>2 DEF CallsHold, CallHolds

LEMMA ChangeRoleKeeps ==
  ASSUME AuthorityHolds, NEW h \in Handlers, ChangeRole(h)
  PROVE  AuthorityHolds'
<1> DEFINE r == handler[h]
           u == handler[h].subject
           to == handler[h].to
<1>1. CallHolds(r) /\ MayChangeRole(r)
  BY DEF AuthorityHolds, CallsHold, ChangeRole
<1>2. /\ u \in Users /\ to \in Roles \cup {None} /\ r.from = role[u] /\ KeepsOwner(u, to)
  BY <1>1 DEF CallHolds, MayChangeRole, Tells
<1>3. /\ role' = [role EXCEPT ![u] = to] /\ Step(h, Idle) /\ Count
      /\ ledger' = [ledger EXCEPT !.role[u] = to,
                                  !.chained = ledger.chained /\ ledger.role[u] = r.from]
      /\ UNCHANGED <<user, group, members, policy, grant>>
  BY DEF ChangeRole
<1>4. ledger.role = role /\ ledger.chained /\ ledger \in Ledgers /\ role \in [Users -> Roles \cup {None}]
  BY DEF AuthorityHolds, LedgerAgrees, TypeOK
<1>5. /\ ledger' \in Ledgers /\ ledger'.role = role' /\ ledger'.chained
      /\ ledger'.members = ledger.members /\ ledger'.revision = ledger.revision
      /\ ledger'.roles = ledger.roles
  <2> HIDE DEF r, u, to
  <2>1. [ledger.role EXCEPT ![u] = to] \in [Users -> Roles \cup {None}]
    BY <1>2, <1>4
  <2>2. (ledger.chained /\ ledger.role[u] = r.from) \in BOOLEAN
        /\ (ledger.chained /\ ledger.role[u] = r.from)
    BY <1>2, <1>4
  <2> QED BY <1>2, <1>3, <1>4, <2>1, <2>2 DEF Ledgers
<1>6. TypeOK'
  BY <1>2, <1>3, DoneTyped, CountBounds DEF AuthorityHolds, TypeOK
<1>7. YardKeepsOwner'
  <2>1. role' \in [Users -> Roles \cup {None}] /\ \A v \in Users : v # u => role'[v] = role[v]
    BY <1>2, <1>3, <1>4
  <2>2. role'[u] = to
    BY <1>2, <1>3, <1>4
  <2>3. CASE to = "owner"
    BY <1>2, <2>2, <2>3 DEF YardKeepsOwner, Owners
  <2>4. CASE to # "owner"
    <3>1. Assigned # {} /\ Owners # {u}
      BY <1>2, <2>4 DEF KeepsOwner
    <3>2. PICK v \in Owners : v # u
      BY <3>1 DEF AuthorityHolds, YardKeepsOwner
    <3> QED BY <2>1, <3>2 DEF YardKeepsOwner, Owners
  <2> QED BY <2>3, <2>4
<1>8. MembersHold' /\ LedgerAgrees'
  BY <1>3, <1>5 DEF AuthorityHolds, MembersHold, RowsOf, LedgerAgrees
<1> QED BY <1>3, <1>5, <1>6, <1>7, <1>8, DoneTyped DEF AuthorityHolds

LEMMA SetPolicyKeeps ==
  ASSUME AuthorityHolds, NEW h \in Handlers, SetPolicy(h)
  PROVE  AuthorityHolds'
<1> DEFINE r == handler[h]
<1>1. r.from = policy.revision
  BY DEF SetPolicy, MaySetPolicy, Tells
<1>2. /\ policy'.revision = policy.revision + 1 /\ Step(h, Idle) /\ Count
      /\ ledger' = [ledger EXCEPT !.revision = r.from + 1,
                                  !.chained = ledger.chained /\ ledger.revision = r.from]
      /\ UNCHANGED <<user, group, members, role, grant>>
  BY DEF SetPolicy
<1>3. ledger.revision = policy.revision /\ ledger.chained /\ ledger \in Ledgers
      /\ policy.revision \in Nat
  BY DEF AuthorityHolds, LedgerAgrees, TypeOK
<1>4. /\ ledger' \in Ledgers /\ ledger'.revision = policy'.revision /\ ledger'.chained
      /\ ledger'.members = ledger.members /\ ledger'.role = ledger.role
      /\ ledger'.roles = ledger.roles
  <2> HIDE DEF r
  <2>1. (ledger.chained /\ ledger.revision = r.from) \in BOOLEAN
        /\ (ledger.chained /\ ledger.revision = r.from)
    BY <1>1, <1>3
  <2> DEFINE next == r.from + 1
  <2>2. next \in Nat /\ policy'.revision = next
    BY <1>1, <1>2, <1>3
  <2>3. ledger' = [ledger EXCEPT !.revision = next,
                                 !.chained = ledger.chained /\ ledger.revision = r.from]
    BY <1>2
  <2> HIDE DEF next
  <2> QED BY <1>3, <2>1, <2>2, <2>3 DEF Ledgers
<1>5. TypeOK'
  BY <1>2, <1>3, DoneTyped, CountBounds DEF AuthorityHolds, TypeOK
<1>6. MembersHold' /\ LedgerAgrees' /\ YardKeepsOwner'
  BY <1>2, <1>4 DEF AuthorityHolds, MembersHold, RowsOf, LedgerAgrees, YardKeepsOwner, Assigned, Owners
<1> QED BY <1>2, <1>4, <1>5, <1>6, DoneTyped DEF AuthorityHolds

LEMMA SetGrantRolesKeeps ==
  ASSUME AuthorityHolds, NEW h \in Handlers, SetGrantRoles(h)
  PROVE  AuthorityHolds'
<1> DEFINE r == handler[h]
           x == handler[h].subject
           to == handler[h].to
<1>1. CallHolds(r) /\ MaySetGrantRoles(r)
  BY DEF AuthorityHolds, CallsHold, SetGrantRoles
<1>2. /\ x \in Grants /\ to \in SUBSET AppRoles /\ r.from = grant[x].roles
  BY <1>1 DEF CallHolds, MaySetGrantRoles, Tells
<1>3. /\ grant' = [grant EXCEPT ![x].roles = to] /\ Step(h, Idle) /\ Count
      /\ ledger' = [ledger EXCEPT !.roles[x] = to,
                                  !.chained = ledger.chained /\ ledger.roles[x] = r.from]
      /\ UNCHANGED <<user, group, members, role, policy>>
  BY DEF SetGrantRoles
<1>4. /\ ledger.roles = [y \in Grants |-> grant[y].roles] /\ ledger.chained /\ ledger \in Ledgers
      /\ grant \in [Grants -> GrantRows]
  BY DEF AuthorityHolds, LedgerAgrees, TypeOK, GrantRows
<1> HIDE DEF r, x, to
<1>5. /\ grant' \in [Grants -> GrantRows] /\ grant'[x].roles = to
      /\ \A y \in Grants : y # x => grant'[y] = grant[y]
  <2>1. [grant[x] EXCEPT !.roles = to] \in GrantRows /\ [grant[x] EXCEPT !.roles = to].roles = to
    BY <1>2, <1>4 DEF GrantRows
  <2>2. grant' = [grant EXCEPT ![x] = [grant[x] EXCEPT !.roles = to]]
    BY <1>3
  <2> QED BY <1>2, <1>4, <2>1, <2>2
<1>6. /\ ledger' \in Ledgers /\ ledger'.roles = [ledger.roles EXCEPT ![x] = to] /\ ledger'.chained
      /\ ledger'.members = ledger.members /\ ledger'.role = ledger.role
      /\ ledger'.revision = ledger.revision
  <2>1. [ledger.roles EXCEPT ![x] = to] \in [Grants -> SUBSET AppRoles]
    BY <1>2, <1>4 DEF Ledgers
  <2>2. (ledger.chained /\ ledger.roles[x] = r.from) \in BOOLEAN
        /\ (ledger.chained /\ ledger.roles[x] = r.from)
    BY <1>2, <1>4
  <2> QED BY <1>2, <1>3, <1>4, <2>1, <2>2 DEF Ledgers
<1>7. ledger'.roles = [y \in Grants |-> grant'[y].roles]
  BY <1>2, <1>4, <1>5, <1>6
<1>8. TypeOK'
  BY <1>3, <1>5, DoneTyped, CountBounds DEF AuthorityHolds, TypeOK, GrantRows
<1>9. MembersHold' /\ LedgerAgrees' /\ YardKeepsOwner'
  BY <1>3, <1>6, <1>7
     DEF AuthorityHolds, MembersHold, RowsOf, LedgerAgrees, YardKeepsOwner, Assigned, Owners
<1> QED BY <1>3, <1>6, <1>8, <1>9, DoneTyped DEF AuthorityHolds

LEMMA GrantsKeep ==
  ASSUME AuthorityHolds, NEW x \in Grants,
         (\E roles \in RoleChoices : Grant(x, roles)) \/ RevokeGrant(x)
  PROVE  AuthorityHolds'
<1>1. /\ ledger.roles = [y \in Grants |-> grant[y].roles] /\ ledger \in Ledgers
      /\ grant \in [Grants -> GrantRows]
  BY DEF AuthorityHolds, LedgerAgrees, TypeOK, GrantRows
<1>2. ASSUME NEW roles \in RoleChoices, Grant(x, roles) PROVE AuthorityHolds'
  <2> DEFINE new == [status |-> "active", roles |-> roles]
  <2>1. new \in GrantRows /\ new.roles = roles /\ roles \in SUBSET AppRoles
    BY ManagementAssumption DEF GrantRows
  <2>2. /\ grant' = [grant EXCEPT ![x] = new] /\ ledger' = [ledger EXCEPT !.roles[x] = roles]
        /\ Count /\ UNCHANGED <<user, group, members, role, policy, handler>>
    BY <1>2 DEF Grant
  <2> HIDE DEF new
  <2>3. /\ ledger' \in Ledgers /\ ledger'.roles = [ledger.roles EXCEPT ![x] = roles]
        /\ ledger'.members = ledger.members /\ ledger'.role = ledger.role
        /\ ledger'.revision = ledger.revision /\ ledger'.chained = ledger.chained
    <3>1. [ledger.roles EXCEPT ![x] = roles] \in [Grants -> SUBSET AppRoles]
      BY <1>1, <2>1 DEF Ledgers
    <3> QED BY <1>1, <2>2, <3>1 DEF Ledgers
  <2>4. grant' \in [Grants -> GrantRows] /\ ledger'.roles = [y \in Grants |-> grant'[y].roles]
    BY <1>1, <2>1, <2>2, <2>3
  <2>5. TypeOK'
    BY <2>2, <2>4, CountBounds DEF AuthorityHolds, TypeOK, GrantRows
  <2>6. MembersHold' /\ LedgerAgrees' /\ YardKeepsOwner' /\ CallsHold'
    BY <2>2, <2>3, <2>4
       DEF AuthorityHolds, MembersHold, RowsOf, LedgerAgrees, YardKeepsOwner, Assigned, Owners,
           CallsHold, CallHolds
  <2> QED BY <2>3, <2>5, <2>6 DEF AuthorityHolds
<1>3. ASSUME RevokeGrant(x) PROVE AuthorityHolds'
  <2> DEFINE new == [grant[x] EXCEPT !.status = "revoked"]
  <2>1. new \in GrantRows /\ new.roles = grant[x].roles
    BY <1>1 DEF GrantRows
  <2>2. /\ grant' = [grant EXCEPT ![x] = new]
        /\ Count /\ UNCHANGED <<user, group, members, role, policy, handler, ledger>>
    BY <1>3 DEF RevokeGrant
  <2> HIDE DEF new
  <2>3. /\ grant' \in [Grants -> GrantRows]
        /\ [y \in Grants |-> grant'[y].roles] = [y \in Grants |-> grant[y].roles]
    BY <1>1, <2>1, <2>2
  <2>4. TypeOK'
    BY <2>2, <2>3, CountBounds DEF AuthorityHolds, TypeOK, GrantRows
  <2>5. MembersHold' /\ LedgerAgrees' /\ YardKeepsOwner' /\ CallsHold' /\ ledger' \in Ledgers
    BY <2>2, <2>3
       DEF AuthorityHolds, MembersHold, RowsOf, LedgerAgrees, YardKeepsOwner, Assigned, Owners,
           CallsHold, CallHolds
  <2> QED BY <2>4, <2>5 DEF AuthorityHolds
<1> QED BY <1>2, <1>3

-----------------------------------------------------------------------------
(* Memberships: a step that moves the rows and the counts together.        *)

RowsTyped == IsFiniteSet(members) /\ members \subseteq Groups \X Users \X Times

LEMMA RowSets ==
  ASSUME AuthorityHolds, NEW g \in Groups
  PROVE  /\ IsFiniteSet(RowsOf(g)) /\ Cardinality(RowsOf(g)) \in Nat
         /\ RowsOf(g) \subseteq members /\ group[g].count = Cardinality(RowsOf(g))
<1>1. RowsOf(g) \in SUBSET members /\ IsFiniteSet(members)
  BY DEF RowsOf, AuthorityHolds, MembersHold
<1> QED BY <1>1, FS_Subset, FS_CardinalityType DEF AuthorityHolds, MembersHold

(* What such a step has to show.                                           *)
LEMMA MembersMove ==
  ASSUME AuthorityHolds, UNCHANGED <<role, policy, handler>>, Count,
         user' \in [Users -> {"none", "active", "deactivated"}],
         group' \in [Groups -> GroupRows],
         members' \subseteq Groups \X Users \X Times,
         MembersHold',
         grant' \in [Grants -> GrantRows],
         \A x \in Grants : grant'[x].roles = grant[x].roles,
         ledger' = [ledger EXCEPT !.members = {<<m[1], m[2]>> : m \in members'}]
  PROVE  AuthorityHolds'
<1>1. TypeOK'
  BY CountBounds DEF AuthorityHolds, TypeOK, GroupRows, GrantRows
<1>2. {<<m[1], m[2]>> : m \in members'} \in SUBSET (Groups \X Users)
  OBVIOUS
<1>3. /\ ledger' \in Ledgers /\ ledger'.members = {<<m[1], m[2]>> : m \in members'}
      /\ ledger'.role = ledger.role /\ ledger'.revision = ledger.revision
      /\ ledger'.roles = ledger.roles /\ ledger'.chained = ledger.chained
  <2> DEFINE T == {<<m[1], m[2]>> : m \in members'}
  <2>1. ledger \in Ledgers /\ T \in SUBSET (Groups \X Users) /\ ledger' = [ledger EXCEPT !.members = T]
    BY <1>2 DEF AuthorityHolds
  <2> HIDE DEF T
  <2>2. /\ ledger' \in Ledgers /\ ledger'.members = T
        /\ ledger'.role = ledger.role /\ ledger'.revision = ledger.revision
        /\ ledger'.roles = ledger.roles /\ ledger'.chained = ledger.chained
    BY <2>1 DEF Ledgers
  <2> QED BY <2>2 DEF T
<1>4. LedgerAgrees'
  BY <1>3 DEF AuthorityHolds, LedgerAgrees
<1>5. YardKeepsOwner' /\ CallsHold'
  BY DEF AuthorityHolds, YardKeepsOwner, Assigned, Owners, CallsHold, CallHolds
<1> QED BY <1>1, <1>3, <1>4, <1>5 DEF AuthorityHolds

LEMMA Unmoved ==
  ASSUME AuthorityHolds
  PROVE  /\ ledger.members = {<<m[1], m[2]>> : m \in members}
         /\ ledger \in Ledgers
         /\ user \in [Users -> {"none", "active", "deactivated"}]
         /\ group \in [Groups -> GroupRows] /\ grant \in [Grants -> GrantRows]
         /\ members \subseteq Groups \X Users \X Times /\ IsFiniteSet(members)
  BY DEF AuthorityHolds, LedgerAgrees, TypeOK, GroupRows, GrantRows, MembersHold

LEMMA AddMemberKeeps ==
  ASSUME AuthorityHolds, NEW g \in Groups, NEW u \in Users, AddMember(g, u)
  PROVE  AuthorityHolds'
<1> DEFINE t == ClockOf[<<"user", u>>]
           new == <<g, u, t>>
           r == [group[g] EXCEPT !.count = group[g].count + 1]
<1>1. t \in Times
  BY ManagementAssumption
<1>2. /\ Row(g, u) = {} /\ group[g].status = "active" /\ members' = members \cup {new}
      /\ group' = [group EXCEPT ![g] = r] /\ Count
      /\ ledger' = [ledger EXCEPT !.members = ledger.members \cup {<<g, u>>}]
      /\ UNCHANGED <<user, role, policy, grant, handler>>
  BY DEF AddMember
<1>3. group[g] \in GroupRows /\ group[g].count \in Nat
  BY Unmoved, RowSets
<1>4. r \in GroupRows /\ r.count = group[g].count + 1 /\ r.status = "active"
  BY <1>2, <1>3 DEF GroupRows
<1> HIDE DEF r, t
<1>5. group' \in [Groups -> GroupRows] /\ group'[g] = r /\ \A i \in Groups : i # g => group'[i] = group[i]
  BY <1>2, <1>4, Unmoved
<1>6. members' \subseteq Groups \X Users \X Times
  BY <1>1, <1>2, Unmoved
<1>7. new \notin members /\ \A m \in members : ~ (m[1] = g /\ m[2] = u)
  BY <1>2 DEF Row
<1>8. MembersHold'
  <2>1. IsFiniteSet(members')
    BY <1>2, Unmoved, FS_AddElement
  <2>2. \A m, n \in members' : m[1] = n[1] /\ m[2] = n[2] => m = n
    <3>1. \A m, n \in members : m[1] = n[1] /\ m[2] = n[2] => m = n
      BY DEF AuthorityHolds, MembersHold
    <3>2. new[1] = g /\ new[2] = u
      OBVIOUS
    <3> HIDE DEF new
    <3> QED BY <1>2, <1>7, <3>1, <3>2
  <2>3. RowsOf(g)' = RowsOf(g) \cup {new}
    BY <1>2 DEF RowsOf
  <2>4. \A i \in Groups : i # g => RowsOf(i)' = RowsOf(i)
    BY <1>2 DEF RowsOf
  <2>5. group'[g].count = Cardinality(RowsOf(g)')
    <3>1. new \notin RowsOf(g) /\ IsFiniteSet(RowsOf(g)) /\ group[g].count = Cardinality(RowsOf(g))
      BY <1>7, RowSets
    <3>2. Cardinality(RowsOf(g) \cup {new}) = Cardinality(RowsOf(g)) + 1
      BY <3>1, FS_AddElement
    <3> QED BY <1>4, <1>5, <2>3, <3>1, <3>2
  <2>6. \A i \in Groups : group'[i].count = Cardinality(RowsOf(i)')
    BY <1>5, <2>4, <2>5, RowSets
  <2>7. \A i \in Groups : group'[i].status # "active" => RowsOf(i)' = {}
    BY <1>4, <1>5, <2>4 DEF AuthorityHolds, MembersHold
  <2> QED BY <2>1, <2>2, <2>6, <2>7 DEF MembersHold, RowsOf
<1>9. ledger.members \cup {<<g, u>>} = {<<m[1], m[2]>> : m \in members'}
  <2>1. <<new[1], new[2]>> = <<g, u>>
    OBVIOUS
  <2>2. ledger.members = {<<m[1], m[2]>> : m \in members} /\ members' = members \cup {new}
    BY <1>2, Unmoved
  <2> HIDE DEF new
  <2>3. \A e \in ledger.members \cup {<<g, u>>} : \E m \in members' : e = <<m[1], m[2]>>
    BY <2>1, <2>2
  <2>4. \A m \in members' : <<m[1], m[2]>> \in ledger.members \cup {<<g, u>>}
    BY <2>1, <2>2
  <2> QED BY <2>3, <2>4
<1> HIDE DEF new
<1> QED BY <1>2, <1>5, <1>6, <1>8, <1>9, Unmoved, MembersMove

LEMMA RemoveMemberKeeps ==
  ASSUME AuthorityHolds, NEW g \in Groups, NEW u \in Users, RemoveMember(g, u)
  PROVE  AuthorityHolds'
<1> DEFINE r == [group[g] EXCEPT !.count = group[g].count - 1]
<1>1. /\ Row(g, u) # {} /\ group[g].status = "active" /\ members' = members \ Row(g, u)
      /\ group' = [group EXCEPT ![g] = r] /\ Count
      /\ ledger' = [ledger EXCEPT !.members = ledger.members \ {<<g, u>>}]
      /\ UNCHANGED <<user, role, policy, grant, handler>>
  BY DEF RemoveMember
<1>2. PICK old \in members : old[1] = g /\ old[2] = u
  BY <1>1 DEF Row
<1>3. Row(g, u) = {old}
  BY <1>2 DEF Row, AuthorityHolds, MembersHold
<1>4. RowsOf(g)' = RowsOf(g) \ {old} /\ old \in RowsOf(g)
      /\ \A i \in Groups : i # g => RowsOf(i)' = RowsOf(i)
  BY <1>1, <1>2, <1>3 DEF RowsOf
<1>5. Cardinality(RowsOf(g)') = Cardinality(RowsOf(g)) - 1 /\ Cardinality(RowsOf(g)') \in Nat
  <2>1. IsFiniteSet(RowsOf(g))
    BY RowSets
  <2>2. IsFiniteSet(RowsOf(g) \ {old}) /\ Cardinality(RowsOf(g) \ {old}) = Cardinality(RowsOf(g)) - 1
    BY <1>4, <2>1, FS_RemoveElement
  <2> QED BY <1>4, <2>2, FS_CardinalityType
<1>6. r \in GroupRows /\ r.count = Cardinality(RowsOf(g)') /\ r.status = "active"
  <2>1. group[g] \in GroupRows /\ group[g].count - 1 = Cardinality(RowsOf(g)')
        /\ group[g].count - 1 \in Nat
    BY <1>5, Unmoved, RowSets
  <2> QED BY <1>1, <2>1 DEF GroupRows
<1> HIDE DEF r
<1>7. group' \in [Groups -> GroupRows] /\ group'[g] = r /\ \A i \in Groups : i # g => group'[i] = group[i]
  BY <1>1, <1>6, Unmoved
<1>8. members' \subseteq members /\ members' \subseteq Groups \X Users \X Times
  BY <1>1, Unmoved
<1>9. MembersHold'
  <2>1. IsFiniteSet(members')
    BY <1>8, Unmoved, FS_Subset
  <2>2. \A m, n \in members' : m[1] = n[1] /\ m[2] = n[2] => m = n
    BY <1>8 DEF AuthorityHolds, MembersHold
  <2>3. \A i \in Groups : group'[i].count = Cardinality(RowsOf(i)')
    BY <1>4, <1>6, <1>7, RowSets
  <2>4. \A i \in Groups : group'[i].status # "active" => RowsOf(i)' = {}
    BY <1>4, <1>6, <1>7 DEF AuthorityHolds, MembersHold
  <2> QED BY <2>1, <2>2, <2>3, <2>4 DEF MembersHold, RowsOf
<1>10. ledger.members \ {<<g, u>>} = {<<m[1], m[2]>> : m \in members'}
  <2>1. ledger.members = {<<m[1], m[2]>> : m \in members} /\ members' = members \ {old}
    BY <1>1, <1>3, Unmoved
  <2>2. \A m \in members : <<m[1], m[2]>> = <<g, u>> <=> m = old
    BY <1>2 DEF AuthorityHolds, MembersHold
  <2> QED BY <2>1, <2>2
<1> QED BY <1>1, <1>7, <1>8, <1>9, <1>10, Unmoved, MembersMove

LEMMA DeactivateUserKeeps ==
  ASSUME AuthorityHolds, NEW u \in Users, DeactivateUser(u)
  PROVE  AuthorityHolds'
<1>1. /\ user' = [user EXCEPT ![u] = "deactivated"] /\ members' = members \ GroupsOf(u)
      /\ group' = [g \in Groups |-> [group[g] EXCEPT !.count = group[g].count - Cardinality(Row(g, u))]]
      /\ Count /\ ledger' = [ledger EXCEPT !.members = {m \in ledger.members : m[2] # u}]
      /\ UNCHANGED <<role, policy, grant, handler>>
  BY DEF DeactivateUser, RemoveUserMemberships
<1>2. ASSUME NEW g \in Groups
      PROVE  /\ RowsOf(g)' = RowsOf(g) \ Row(g, u)
             /\ Cardinality(RowsOf(g)') = Cardinality(RowsOf(g)) - Cardinality(Row(g, u))
             /\ Cardinality(RowsOf(g)') \in Nat
  <2>1. RowsOf(g)' = RowsOf(g) \ Row(g, u)
    BY <1>1 DEF RowsOf, Row, GroupsOf
  <2>2. RowsOf(g) \cap Row(g, u) = Row(g, u)
    BY DEF RowsOf, Row
  <2>3. IsFiniteSet(RowsOf(g))
    BY RowSets
  <2>4. IsFiniteSet(RowsOf(g) \ Row(g, u))
        /\ Cardinality(RowsOf(g) \ Row(g, u)) = Cardinality(RowsOf(g)) - Cardinality(Row(g, u))
    BY <2>2, <2>3, FS_Difference
  <2> QED BY <2>1, <2>4, FS_CardinalityType
<1>3. ASSUME NEW g \in Groups
      PROVE  /\ group'[g] \in GroupRows /\ group'[g].count = Cardinality(RowsOf(g)')
             /\ group'[g].status = group[g].status
  <2> DEFINE n == Cardinality(RowsOf(g)')
  <2>1. group'[g] = [group[g] EXCEPT !.count = n] /\ n \in Nat /\ group[g] \in GroupRows
    BY <1>1, <1>2, Unmoved, RowSets
  <2> HIDE DEF n
  <2>2. group'[g] \in GroupRows /\ group'[g].count = n /\ group'[g].status = group[g].status
    BY <2>1 DEF GroupRows
  <2> QED BY <2>2 DEF n
<1>4. group' \in [Groups -> GroupRows]
  <2>1. group' = [g \in Groups |-> group'[g]]
    BY <1>1
  <2>2. \A g \in Groups : group'[g] \in GroupRows
    BY <1>3
  <2> QED BY <2>1, <2>2
<1>5. members' \subseteq members /\ members' \subseteq Groups \X Users \X Times
  BY <1>1, Unmoved
<1>6. MembersHold'
  <2>1. IsFiniteSet(members')
    BY <1>5, Unmoved, FS_Subset
  <2>2. \A m, n \in members' : m[1] = n[1] /\ m[2] = n[2] => m = n
    BY <1>5 DEF AuthorityHolds, MembersHold
  <2>3. \A g \in Groups : group'[g].status # "active" => RowsOf(g)' = {}
    BY <1>2, <1>3 DEF AuthorityHolds, MembersHold
  <2> QED BY <1>3, <2>1, <2>2, <2>3 DEF MembersHold, RowsOf
<1>7. {m \in ledger.members : m[2] # u} = {<<m[1], m[2]>> : m \in members'}
  <2>1. ledger.members = {<<m[1], m[2]>> : m \in members}
        /\ members' = {m \in members : m[2] # u}
    BY <1>1, Unmoved DEF GroupsOf
  <2>2. \A e \in ledger.members : e[2] # u => \E m \in members' : e = <<m[1], m[2]>>
    BY <2>1
  <2>3. \A m \in members' : <<m[1], m[2]>> \in {e \in ledger.members : e[2] # u}
    BY <2>1
  <2> QED BY <2>2, <2>3
<1>8. user' \in [Users -> {"none", "active", "deactivated"}]
  BY <1>1, Unmoved
<1> QED BY <1>1, <1>4, <1>5, <1>6, <1>7, <1>8, Unmoved, MembersMove

LEMMA DeactivateGroupKeeps ==
  ASSUME AuthorityHolds, NEW g \in Groups, DeactivateGroup(g)
  PROVE  AuthorityHolds'
<1> DEFINE r == [group[g] EXCEPT !.status = "deactivated", !.count = 0]
           X == ActiveGrantsOf(<<"group", g>>)
<1>1. /\ members' = members \ RowsOf(g) /\ Count
      /\ grant' = [x \in Grants |-> IF x \in X THEN [grant[x] EXCEPT !.status = "revoked"] ELSE grant[x]]
      /\ ledger' = [ledger EXCEPT !.members = {m \in ledger.members : m[1] # g}]
      /\ UNCHANGED <<user, role, policy, handler>>
  BY DEF DeactivateGroup
<1>2. group' = [group EXCEPT ![g] = r]
  BY Unmoved DEF DeactivateGroup
<1>3. r \in GroupRows /\ r.count = 0
  BY Unmoved DEF GroupRows
<1> HIDE DEF r, X
<1>4. group' \in [Groups -> GroupRows] /\ group'[g] = r /\ \A i \in Groups : i # g => group'[i] = group[i]
  BY <1>2, <1>3, Unmoved
<1>5. ASSUME NEW x \in Grants PROVE grant'[x] \in GrantRows /\ grant'[x].roles = grant[x].roles
  <2>1. grant[x] \in GrantRows
    BY Unmoved
  <2>2. [grant[x] EXCEPT !.status = "revoked"] \in GrantRows
        /\ [grant[x] EXCEPT !.status = "revoked"].roles = grant[x].roles
    BY <2>1 DEF GrantRows
  <2> QED BY <1>1, <2>1, <2>2
<1>6. grant' \in [Grants -> GrantRows]
  <2>1. grant' = [x \in Grants |-> grant'[x]]
    BY <1>1
  <2>2. \A x \in Grants : grant'[x] \in GrantRows
    BY <1>5
  <2> QED BY <2>1, <2>2
<1>7. members' \subseteq members /\ members' \subseteq Groups \X Users \X Times
  BY <1>1, Unmoved
<1>8. MembersHold'
  <2>1. IsFiniteSet(members')
    BY <1>7, Unmoved, FS_Subset
  <2>2. \A m, n \in members' : m[1] = n[1] /\ m[2] = n[2] => m = n
    BY <1>7 DEF AuthorityHolds, MembersHold
  <2>3. RowsOf(g)' = {} /\ \A i \in Groups : i # g => RowsOf(i)' = RowsOf(i)
    BY <1>1 DEF RowsOf
  <2>4. \A i \in Groups : group'[i].count = Cardinality(RowsOf(i)')
    BY <1>3, <1>4, <2>3, RowSets, FS_EmptySet
  <2>5. \A i \in Groups : group'[i].status # "active" => RowsOf(i)' = {}
    BY <1>4, <2>3 DEF AuthorityHolds, MembersHold
  <2> QED BY <2>1, <2>2, <2>4, <2>5 DEF MembersHold, RowsOf
<1>9. {m \in ledger.members : m[1] # g} = {<<m[1], m[2]>> : m \in members'}
  <2>1. ledger.members = {<<m[1], m[2]>> : m \in members}
        /\ members' = {m \in members : m[1] # g}
    BY <1>1, Unmoved DEF RowsOf
  <2>2. \A e \in ledger.members : e[1] # g => \E m \in members' : e = <<m[1], m[2]>>
    BY <2>1
  <2>3. \A m \in members' : <<m[1], m[2]>> \in {e \in ledger.members : e[1] # g}
    BY <2>1
  <2> QED BY <2>2, <2>3
<1> QED BY <1>1, <1>4, <1>5, <1>6, <1>7, <1>8, <1>9, Unmoved, MembersMove

(* Steps that leave the rows of members alone.                             *)
LEMMA OtherGroupStepsKeep ==
  ASSUME AuthorityHolds,
         \/ \E u \in Users : CreateUser(u)
         \/ \E g \in Groups : CreateGroup(g) \/ RenameGroup(g)
  PROVE  AuthorityHolds'
<1>1. ASSUME NEW u \in Users, CreateUser(u) PROVE AuthorityHolds'
  <2>1. /\ user' = [user EXCEPT ![u] = "active"]
        /\ UNCHANGED <<group, members, role, policy, grant, handler, ledger, changes>>
    BY <1>1 DEF CreateUser
  <2>2. TypeOK'
    BY <2>1 DEF AuthorityHolds, TypeOK
  <2>3. MembersHold' /\ LedgerAgrees' /\ YardKeepsOwner' /\ CallsHold' /\ ledger' \in Ledgers
    BY <2>1 DEF AuthorityHolds, MembersHold, RowsOf, LedgerAgrees, YardKeepsOwner, Assigned, Owners,
                CallsHold, CallHolds
  <2> QED BY <2>2, <2>3 DEF AuthorityHolds
<1>2. ASSUME NEW g \in Groups, NEW r \in GroupRows, group' = [group EXCEPT ![g] = r],
             r.count = group[g].count, r.status # "active" => group[g].status # "active", Count,
             UNCHANGED <<user, members, role, policy, grant, handler, ledger>>
      PROVE  AuthorityHolds'
  <2>1. group' \in [Groups -> GroupRows] /\ group'[g] = r
        /\ \A i \in Groups : i # g => group'[i] = group[i]
    BY <1>2, Unmoved
  <2>2. MembersHold'
    BY <1>2, <2>1 DEF AuthorityHolds, MembersHold, RowsOf
  <2>3. TypeOK'
    BY <1>2, <2>1, CountBounds DEF AuthorityHolds, TypeOK, GroupRows
  <2>4. LedgerAgrees' /\ YardKeepsOwner' /\ CallsHold' /\ ledger' \in Ledgers
    BY <1>2 DEF AuthorityHolds, LedgerAgrees, YardKeepsOwner, Assigned, Owners, CallsHold, CallHolds
  <2> QED BY <2>2, <2>3, <2>4 DEF AuthorityHolds
<1>3. ASSUME NEW g \in Groups, CreateGroup(g) PROVE AuthorityHolds'
  <2> DEFINE r == [status |-> "active", count |-> 0, created |-> ClockOf[<<"group", g>>],
                   renamed |-> FALSE]
  <2>1. ClockOf[<<"group", g>>] \in Times
    BY ManagementAssumption
  <2>2. r \in GroupRows /\ r.count = 0 /\ r.status = "active"
    BY <2>1 DEF GroupRows
  <2>3. group[g].count = 0
    <3>1. RowsOf(g) = {}
      BY <1>3 DEF CreateGroup, AuthorityHolds, MembersHold
    <3> QED BY <3>1, RowSets, FS_EmptySet
  <2>4. group' = [group EXCEPT ![g] = r] /\ Count
        /\ UNCHANGED <<user, members, role, policy, grant, handler, ledger>>
    BY <1>3 DEF CreateGroup
  <2> HIDE DEF r
  <2> QED BY <1>2, <2>2, <2>3, <2>4
<1>4. ASSUME NEW g \in Groups, RenameGroup(g) PROVE AuthorityHolds'
  <2> DEFINE r == [group[g] EXCEPT !.renamed = TRUE]
  <2>1. r \in GroupRows /\ r.count = group[g].count /\ r.status = group[g].status
    BY Unmoved DEF GroupRows
  <2>2. group' = [group EXCEPT ![g] = r] /\ Count
        /\ UNCHANGED <<user, members, role, policy, grant, handler, ledger>>
    BY <1>4 DEF RenameGroup
  <2> HIDE DEF r
  <2> QED BY <1>2, <2>1, <2>2
<1> QED BY <1>1, <1>3, <1>4

LEMMA ChangeKeeps ==
  ASSUME AuthorityHolds, Change
  PROVE  AuthorityHolds'
<1>1. ASSUME NEW u \in Users, CreateUser(u) \/ DeactivateUser(u) PROVE AuthorityHolds'
  BY <1>1, OtherGroupStepsKeep, DeactivateUserKeeps
<1>2. ASSUME NEW g \in Groups, CreateGroup(g) \/ RenameGroup(g) \/ DeactivateGroup(g)
      PROVE  AuthorityHolds'
  BY <1>2, OtherGroupStepsKeep, DeactivateGroupKeeps
<1>3. ASSUME NEW g \in Groups, NEW u \in Users, AddMember(g, u) \/ RemoveMember(g, u)
      PROVE  AuthorityHolds'
  BY <1>3, AddMemberKeeps, RemoveMemberKeeps
<1>4. ASSUME NEW h \in Handlers, NEW u \in Users, NEW r \in RoleRequests, BeginRoleChange(h, u, r)
      PROVE  AuthorityHolds'
  BY <1>4, RequestsKeep
<1>5. ASSUME NEW h \in Handlers,
             LookUpRole(h) \/ ChangeRole(h) \/ SetPolicy(h) \/ SetGrantRoles(h) \/ Refuse(h)
      PROVE  AuthorityHolds'
  BY <1>5, RequestsKeep, ChangeRoleKeeps, SetPolicyKeeps, SetGrantRolesKeeps
<1>6. ASSUME NEW h \in Handlers, NEW g \in Graphs, ReadPolicy(h, g) PROVE AuthorityHolds'
  BY <1>6, RequestsKeep
<1>7. ASSUME NEW x \in Grants, (\E roles \in RoleChoices : Grant(x, roles)) \/ RevokeGrant(x)
      PROVE  AuthorityHolds'
  BY <1>7, GrantsKeep
<1>8. ASSUME NEW h \in Handlers, NEW x \in Grants, NEW roles \in RoleChoices, ReadGrant(h, x, roles)
      PROVE  AuthorityHolds'
  BY <1>8, RequestsKeep
<1> QED BY <1>1, <1>2, <1>3, <1>4, <1>5, <1>6, <1>7, <1>8, Zenon DEF Change

LEMMA StandingStill ==
  ASSUME AuthorityHolds,
         UNCHANGED <<user, group, members, role, policy, grant, handler, ledger, changes>>
  PROVE  AuthorityHolds'
<1>1. TypeOK' /\ CallsHold' /\ MembersHold'
  BY DEF AuthorityHolds, TypeOK, CallsHold, CallHolds, MembersHold, RowsOf
<1>2. YardKeepsOwner' /\ LedgerAgrees' /\ ledger' \in Ledgers
  BY DEF AuthorityHolds, LedgerAgrees, YardKeepsOwner, Assigned, Owners
<1> QED BY <1>1, <1>2 DEF AuthorityHolds

-----------------------------------------------------------------------------
(* The specification.                                                      *)

IInv == AuthorityHolds /\ WalkHolds

LEMMA StartsWell == Init => IInv
<1> SUFFICES ASSUME Init PROVE IInv
  OBVIOUS
<1>1. TypeOK
  <2>1. NoGroup \in GroupRows /\ NoGrant \in GrantRows
    <3>1. 0 \in Times
      BY ManagementAssumption DEF Times
    <3> QED BY <3>1 DEF GroupRows, GrantRows, NoGroup, NoGrant
  <2>2. 0 \in 0..MaxChanges
    BY ManagementAssumption
  <2> QED BY <2>1, <2>2 DEF Init, TypeOK, GroupRows, GrantRows, NoPolicy, Idle
<1>2. CallsHold
  BY IdleHolds DEF Init, CallsHold
<1>3. MembersHold
  <2>1. \A g \in Groups : group[g].count = 0 /\ RowsOf(g) = {}
    BY DEF Init, NoGroup, RowsOf
  <2> QED BY <2>1, FS_EmptySet DEF Init, MembersHold
<1>4. YardKeepsOwner
  BY DEF Init, YardKeepsOwner, Assigned
<1>5. ledger \in Ledgers
  BY DEF Init, Ledgers
<1>6. LedgerAgrees
  BY DEF Init, LedgerAgrees, NoPolicy, NoGrant
<1>7. WalkHolds
  BY NoWalkHolds DEF Init
<1> QED BY <1>1, <1>2, <1>3, <1>4, <1>5, <1>6, <1>7 DEF IInv, AuthorityHolds

LEMMA IInvStep == IInv /\ [Next]_vars => IInv'
<1> SUFFICES ASSUME IInv, [Next]_vars PROVE IInv'
  OBVIOUS
<1>0. TypeOK /\ IsFiniteSet(members)
  BY DEF IInv, AuthorityHolds, MembersHold
<1>1. CASE Change /\ Unwalked
  BY <1>1, ChangeKeeps, UnwalkedKeeps DEF IInv
<1>2. ASSUME NEW list \in {"groups", "members", "roles"}, NEW g \in Groups, BeginWalk(list, g)
      PROVE  IInv'
  <2>1. WalkHolds'
    BY <1>0, <1>2, BeginWalkKeeps
  <2>2. AuthorityHolds'
    BY <1>2, StandingStill DEF IInv, BeginWalk
  <2> QED BY <2>1, <2>2 DEF IInv
<1>3. CASE WalkPage
  <2>1. WalkHolds'
    BY <1>0, <1>3, WalkPageKeeps DEF IInv
  <2>2. AuthorityHolds'
    BY <1>3, StandingStill DEF IInv, WalkPage
  <2> QED BY <2>1, <2>2 DEF IInv
<1>4. CASE EndWalk
  <2>1. WalkHolds'
    BY <1>4 DEF EndWalk, WalkHolds, WalkRows, NoWalk, KeysOf
  <2>2. AuthorityHolds'
    BY <1>4, StandingStill DEF IInv, EndWalk
  <2> QED BY <2>1, <2>2 DEF IInv
<1>5. CASE UNCHANGED vars
  <2>1. UNCHANGED <<user, group, members, role, policy, grant, handler, walk, ledger, changes>>
    BY <1>5 DEF vars
  <2>2. AuthorityHolds'
    BY <2>1, StandingStill DEF IInv
  <2>3. WalkHolds'
    BY <2>1 DEF IInv, WalkHolds, KeysOf, GroupKeys, MemberKeys, RoleKeys, RowsOf, After
  <2> QED BY <2>2, <2>3 DEF IInv
<1> QED BY <1>1, <1>2, <1>3, <1>4, <1>5 DEF Next

LEMMA IInvAlways == Spec => []IInv
  BY StartsWell, IInvStep, PTL DEF Spec

(* The audit log alone tells who may do what, and a Yard that has managers *)
(* has an owner, however the two transactions of several changes           *)
(* interleave (yard_management_roles, action_event).                       *)
THEOREM AuthorityIsRecordedHolds == Spec => []AuthorityIsRecorded
<1>1. IInv => AuthorityIsRecorded
  BY DEF IInv, AuthorityHolds, AuthorityIsRecorded
<1> QED BY <1>1, IInvAlways, PTL

(* A client that follows the cursors to the end has seen every item that   *)
(* was there all the time, for any page size and whatever was added,       *)
(* removed or moved meanwhile (the lists of groups, members and roles).    *)
THEOREM WalkIsCompleteHolds == Spec => []WalkIsComplete
<1>1. IInv => WalkIsComplete
  BY DEF IInv, WalkHolds, WalkIsComplete
<1> QED BY <1>1, IInvAlways, PTL

-----------------------------------------------------------------------------
(* What an approved policy gives, and what resolve tells of it, is exact.  *)

(* A policy's roles inherit declared roles only.                           *)
Declared(g) ==
  /\ IsFiniteSet(DOMAIN g.inherits)
  /\ \A r \in DOMAIN g.inherits : g.inherits[r] \subseteq DOMAIN g.inherits

(* The roles of S and what they inherit directly.                          *)
Onward(g, S) == S \cup UNION {g.inherits[r] : r \in S}

(* The least set with seen that inheritance does not leave.                *)
Closure(g, seen) ==
  {q \in DOMAIN g.inherits :
     \A S \in SUBSET DOMAIN g.inherits :
       (seen \subseteq S /\ \A s \in S : g.inherits[s] \subseteq S) => q \in S}

(* The smallest of a set of numbers that is not empty.                     *)
LEMMA SmallestOf ==
  ASSUME NEW T \in SUBSET Nat, T # {}
  PROVE  \E m \in T : \A n \in T : m <= n
<1> DEFINE Less == OpToRel(<, Nat)
<1>1. IsWellFoundedOn(Less, Nat)
  BY NatLessThanWellFounded, Zenon
<1>2. \A m, n \in T : <<n, m>> \in Less <=> n < m
  BY DEF OpToRel
<1> HIDE DEF Less
<1>3. PICK m \in T : \A n \in T : ~ (<<n, m>> \in Less)
  BY <1>1, WFMin
<1>4. ASSUME NEW n \in T PROVE m <= n
  <2>1. m \in Nat /\ n \in Nat /\ ~ (n < m)
    BY <1>2, <1>3
  <2> QED BY <2>1
<1> QED BY <1>4

(* Going on from seen does not leave its closure, and ends there.          *)
LEMMA ClosureGoesOn ==
  ASSUME NEW g, Declared(g), NEW seen \in SUBSET DOMAIN g.inherits
  PROVE  /\ Onward(g, seen) \in SUBSET DOMAIN g.inherits
         /\ seen \subseteq Onward(g, seen)
         /\ Closure(g, Onward(g, seen)) = Closure(g, seen)
         /\ Onward(g, seen) = seen => Closure(g, seen) = seen
<1> DEFINE D == DOMAIN g.inherits
           more == Onward(g, seen)
<1>1. more \in SUBSET D /\ seen \subseteq more
  BY DEF Declared, Onward
<1>2. ASSUME NEW S \in SUBSET D, \A s \in S : g.inherits[s] \subseteq S
      PROVE  seen \subseteq S <=> more \subseteq S
  BY <1>2, <1>1 DEF Onward
<1>3. Closure(g, more) = Closure(g, seen)
  <2> HIDE DEF more
  <2> QED BY <1>2 DEF Closure
<1>4. ASSUME more = seen PROVE Closure(g, seen) = seen
  <2>1. \A s \in seen : g.inherits[s] \subseteq seen
    BY <1>4 DEF Onward
  <2> QED BY <2>1 DEF Closure
<1> QED BY <1>1, <1>3, <1>4

(* What the worklist computes for every set it starts from.                *)
Works(g, f) ==
  f = [seen \in SUBSET DOMAIN g.inherits |->
         IF Onward(g, seen) = seen THEN seen ELSE f[Onward(g, seen)]]

LEMMA ClosureWorks ==
  ASSUME NEW g, Declared(g)
  PROVE  Works(g, [seen \in SUBSET DOMAIN g.inherits |-> Closure(g, seen)])
<1> DEFINE f == [seen \in SUBSET DOMAIN g.inherits |-> Closure(g, seen)]
<1>1. ASSUME NEW seen \in SUBSET DOMAIN g.inherits
      PROVE  Closure(g, seen) = IF Onward(g, seen) = seen THEN seen ELSE f[Onward(g, seen)]
  BY ClosureGoesOn
<1>2. f = [seen \in SUBSET DOMAIN g.inherits |->
             IF Onward(g, seen) = seen THEN seen ELSE f[Onward(g, seen)]]
  BY <1>1
<1> HIDE DEF f
<1>3. Works(g, f)
  BY <1>2 DEF Works
<1> QED BY <1>3 DEF f

(* No other function does: a set with another result, and with the fewest  *)
(* roles left to see, would pass it on to one with fewer.                  *)
LEMMA WorklistEndsAtClosure ==
  ASSUME NEW g, Declared(g), NEW f, Works(g, f), NEW start \in SUBSET DOMAIN g.inherits
  PROVE  f[start] = Closure(g, start)
<1> DEFINE D == DOMAIN g.inherits
           Left(seen) == Cardinality(D \ seen)
           Wrong == {seen \in SUBSET D : f[seen] # Closure(g, seen)}
           Lefts == {n \in Nat : \E seen \in Wrong : n = Left(seen)}
<1>1. \A seen \in SUBSET D : f[seen] = IF Onward(g, seen) = seen THEN seen ELSE f[Onward(g, seen)]
  BY DEF Works
<1>2. \A seen \in SUBSET D : IsFiniteSet(D \ seen) /\ Left(seen) \in Nat
  BY FS_Subset, FS_CardinalityType DEF Declared
<1>3. SUFFICES ASSUME start \in Wrong PROVE FALSE
  OBVIOUS
<1>4. Left(start) \in Lefts
  BY <1>2, <1>3
<1>5. PICK m \in Lefts : \A n \in Lefts : m <= n
  <2>1. Lefts \in SUBSET Nat /\ Lefts # {}
    BY <1>4
  <2> HIDE DEF Lefts
  <2> QED BY <2>1, SmallestOf
<1>6. PICK seen \in Wrong : m = Left(seen)
  BY <1>5
<1> DEFINE more == Onward(g, seen)
<1>7. more \in SUBSET D /\ seen \subseteq more /\ more # seen /\ f[seen] = f[more]
      /\ Closure(g, more) = Closure(g, seen)
  BY <1>1, <1>6, ClosureGoesOn
<1>8. more \in Wrong
  BY <1>6, <1>7
<1>9. Left(more) < Left(seen)
  <2>1. D \ more \in SUBSET (D \ seen) /\ D \ more # D \ seen
    BY <1>7
  <2>2. IsFiniteSet(D \ seen) /\ Left(seen) \in Nat /\ Left(more) \in Nat
    BY <1>2, <1>6, <1>7
  <2>3. Left(more) <= Left(seen) /\ Left(more) # Left(seen)
    BY <2>1, <2>2, FS_Subset
  <2> HIDE DEF Left
  <2> QED BY <2>2, <2>3
<1>10. Left(more) \in Lefts
  BY <1>2, <1>7, <1>8
<1>11. Left(more) \in Nat /\ Left(seen) \in Nat /\ Left(seen) <= Left(more)
  BY <1>2, <1>5, <1>6, <1>7, <1>10
<1> HIDE DEF Left
<1> QED BY <1>9, <1>11

LEMMA InheritedIsClosure ==
  ASSUME NEW g, Declared(g), NEW start \in SUBSET DOMAIN g.inherits
  PROVE  Inherited(g, start) = Closure(g, start)
<1> DEFINE reach == CHOOSE f : Works(g, f)
<1>1. Works(g, reach)
  BY ClosureWorks
<1>2. Inherited(g, start) = reach[start]
  BY DEF Inherited, Works, Onward
<1> HIDE DEF reach
<1> QED BY <1>1, <1>2, WorklistEndsAtClosure

(* An approved policy is what it says: no role inherits itself, and the    *)
(* stored roles are those it inherits.                                     *)
LEMMA GraphIsSound ==
  ASSUME NEW g \in Graphs, ValidGraph(g)
  PROVE  /\ DOMAIN Expand(g) = DOMAIN g.inherits
         /\ \A r \in DOMAIN g.inherits : Expand(g)[r] = Below(g, r)
         /\ \A r \in DOMAIN g.inherits : \A q \in g.inherits[r] : r \notin Below(g, q)
<1>1. Declared(g)
  BY ManagementAssumption DEF Declared, IsGraph, ValidGraph
<1>2. ASSUME NEW r \in DOMAIN g.inherits PROVE Inherited(g, {r}) = Below(g, r)
  BY <1>1, InheritedIsClosure DEF Below, Closure
<1>3. ASSUME NEW r \in DOMAIN g.inherits, NEW q \in g.inherits[r] PROVE r \notin Below(g, q)
  <2>1. r \notin Closure(g, g.inherits[r])
    BY <1>1, InheritedIsClosure DEF ValidGraph, HasCycle, Declared
  <2> QED BY <1>3, <2>1 DEF Below, Closure
<1> QED BY <1>2, <1>3 DEF Expand

-----------------------------------------------------------------------------
(* The stored closure is the one of an approved graph, and so is what a    *)
(* request is about to store.                                              *)
PolicyHolds ==
  /\ policy.revision > 0 =>
       /\ policy.graph \in Graphs
       /\ ValidGraph(policy.graph)
       /\ policy.effective = Expand(policy.graph)
  /\ \A h \in Handlers : handler[h].op = "policy" => handler[h].to \in Graphs

(* Active grants of a group are within the limit that resolve checks.      *)
Sparing(g) ==
  /\ IsFiniteSet(ActiveGrantsOf(<<"group", g>>))
  /\ Cardinality(ActiveGrantsOf(<<"group", g>>)) <= MaxGroupGrants

MembersWithin ==
  /\ \A u \in Users : Cardinality(GroupsOf(u)) <= MaxUserGroups
  /\ \A g \in Groups : group[g].count <= MaxMembers
  /\ \A m \in members : user[m[2]] = "active"

GrantsWithin == \A g \in Groups : Sparing(g)

(* What resolve checks again before it tells anything.                     *)
LimitsHold ==
  /\ Cardinality(Assigned) <= MaxAssignments
  /\ MembersWithin
  /\ GrantsWithin

ExactHolds == PolicyHolds /\ LimitsHold

(* Policies.                                                               *)
LEMMA PolicyKeeps ==
  ASSUME CallsHold, PolicyHolds, Change
  PROVE  PolicyHolds'
<1>1. handler = [h \in Handlers |-> handler[h]]
  BY DEF CallsHold
<1>2. ASSUME UNCHANGED <<policy, handler>> PROVE PolicyHolds'
  BY <1>2 DEF PolicyHolds
<1>3. ASSUME NEW h \in Handlers, NEW r, Step(h, r), UNCHANGED policy,
             r.op = "policy" => r.to \in Graphs
      PROVE  PolicyHolds'
  <2>1. \A k \in Handlers : handler'[k] = r \/ handler'[k] = handler[k]
    BY <1>1, <1>3 DEF Step
  <2> QED BY <1>3, <2>1 DEF PolicyHolds
<1>4. Idle.op # "policy"
  BY DEF Idle
<1>5. ASSUME NEW h \in Handlers, NEW u \in Users, NEW r \in RoleRequests, BeginRoleChange(h, u, r)
      PROVE  PolicyHolds'
  <2> DEFINE c == [Idle EXCEPT !.step = "look", !.op = "role", !.subject = u, !.to = r]
  <2>1. c.op # "policy"
    BY DEF Idle
  <2>2. Step(h, c) /\ UNCHANGED policy
    BY <1>5 DEF BeginRoleChange
  <2> HIDE DEF c
  <2> QED BY <1>3, <2>1, <2>2
<1>6. ASSUME NEW h \in Handlers, NEW x \in Grants, NEW roles \in RoleChoices, ReadGrant(h, x, roles)
      PROVE  PolicyHolds'
  <2> DEFINE c == [Idle EXCEPT !.step = "write", !.op = "grant", !.subject = x,
                               !.to = roles, !.from = grant[x].roles]
  <2>1. c.op # "policy"
    BY DEF Idle
  <2>2. Step(h, c) /\ UNCHANGED policy
    BY <1>6 DEF ReadGrant
  <2> HIDE DEF c
  <2> QED BY <1>3, <2>1, <2>2
<1>7. ASSUME NEW h \in Handlers, NEW g \in Graphs, ReadPolicy(h, g) PROVE PolicyHolds'
  <2> DEFINE c == [Idle EXCEPT !.step = "write", !.op = "policy", !.to = g, !.from = policy.revision]
  <2>1. c.to = g
    BY DEF Idle
  <2>2. Step(h, c) /\ UNCHANGED policy
    BY <1>7 DEF ReadPolicy
  <2> HIDE DEF c
  <2> QED BY <1>3, <2>1, <2>2
<1>8. ASSUME NEW h \in Handlers, LookUpRole(h) PROVE PolicyHolds'
  <2> DEFINE c == handler[h]
  <2>1. c \in [step : {"idle", "look", "write"}, op : {c.op}, subject : {c.subject}, to : {c.to},
               from : {c.from}, cursor : {c.cursor}]
    BY DEF CallsHold, CallHolds
  <2>2. c.op = "policy" => c.to \in Graphs
    BY DEF PolicyHolds
  <2>3. PICK r : Step(h, r) /\ (r = Idle \/ (r.op = c.op /\ r.to = c.to))
    <3> DEFINE page == Page(RoleKeys, c.cursor)
               found == \E k \in page.items : k[2] = c.subject
    <3> HIDE DEF page
    <3>1. Step(h, IF ~ RolesIntact THEN Idle
                  ELSE IF found THEN [c EXCEPT !.step = "write", !.from = role[c.subject], !.cursor = None]
                  ELSE IF page.next # None THEN [c EXCEPT !.cursor = page.next]
                  ELSE IF c.to = None THEN Idle
                  ELSE [c EXCEPT !.step = "write", !.cursor = None])
      BY <1>8 DEF LookUpRole, page
    <3> HIDE DEF c, found
    <3>2. \A from, cursor :
            LET a == [c EXCEPT !.step = "write", !.from = from, !.cursor = cursor]
                b == [c EXCEPT !.cursor = cursor]
                d == [c EXCEPT !.step = "write", !.cursor = cursor]
            IN  a.op = c.op /\ a.to = c.to /\ b.op = c.op /\ b.to = c.to /\ d.op = c.op /\ d.to = c.to
      BY <2>1
    <3>3. CASE ~ RolesIntact
      BY <3>1, <3>3
    <3>4. CASE RolesIntact /\ found
      <4> DEFINE e == [c EXCEPT !.step = "write", !.from = role[c.subject], !.cursor = None]
      <4>1. Step(h, e)
        BY <3>1, <3>4
      <4>2. e.op = c.op /\ e.to = c.to
        BY <3>2
      <4> HIDE DEF e
      <4> QED BY <4>1, <4>2
    <3>5. CASE RolesIntact /\ ~ found /\ page.next # None
      BY <3>1, <3>2, <3>5
    <3>6. CASE RolesIntact /\ ~ found /\ page.next = None
      <4>1. CASE c.to = None
        BY <3>1, <3>6, <4>1
      <4>2. CASE c.to # None
        BY <3>1, <3>2, <3>6, <4>2
      <4> QED BY <4>1, <4>2
    <3> QED BY <3>3, <3>4, <3>5, <3>6
  <2>4. UNCHANGED policy
    BY <1>8 DEF LookUpRole
  <2> HIDE DEF c
  <2> QED BY <1>3, <1>4, <2>2, <2>3, <2>4
<1>9. ASSUME NEW h \in Handlers, ChangeRole(h) \/ SetGrantRoles(h) \/ Refuse(h) PROVE PolicyHolds'
  BY <1>3, <1>4, <1>9 DEF ChangeRole, SetGrantRoles, Refuse
<1>10. ASSUME NEW h \in Handlers, SetPolicy(h) PROVE PolicyHolds'
  <2> DEFINE c == handler[h]
  <2>1. c.to \in Graphs /\ ValidGraph(c.to)
    BY <1>10 DEF SetPolicy, MaySetPolicy, PolicyHolds
  <2>2. Step(h, Idle) /\ policy'.graph = c.to /\ policy'.effective = Expand(c.to)
    BY <1>10 DEF SetPolicy
  <2>3. \A k \in Handlers : handler'[k] = Idle \/ handler'[k] = handler[k]
    BY <1>1, <2>2 DEF Step
  <2>4. policy'.graph \in Graphs /\ ValidGraph(policy'.graph) /\ policy'.effective = Expand(policy'.graph)
    BY <2>1, <2>2
  <2> HIDE DEF c
  <2>5. \A k \in Handlers : handler'[k].op = "policy" => handler'[k].to \in Graphs
    BY <1>4, <2>3 DEF PolicyHolds
  <2> QED BY <2>4, <2>5 DEF PolicyHolds
<1>11. ASSUME NEW u \in Users, CreateUser(u) \/ DeactivateUser(u) PROVE PolicyHolds'
  BY <1>2, <1>11 DEF CreateUser, DeactivateUser
<1>12. ASSUME NEW g \in Groups, CreateGroup(g) \/ RenameGroup(g) \/ DeactivateGroup(g)
       PROVE  PolicyHolds'
  BY <1>2, <1>12 DEF CreateGroup, RenameGroup, DeactivateGroup
<1>13. ASSUME NEW g \in Groups, NEW u \in Users, AddMember(g, u) \/ RemoveMember(g, u)
       PROVE  PolicyHolds'
  BY <1>2, <1>13 DEF AddMember, RemoveMember
<1>14. ASSUME NEW x \in Grants, (\E roles \in RoleChoices : Grant(x, roles)) \/ RevokeGrant(x)
       PROVE  PolicyHolds'
  BY <1>2, <1>14 DEF Grant, RevokeGrant
<1> QED BY <1>5, <1>6, <1>7, <1>8, <1>9, <1>10, <1>11, <1>12, <1>13, <1>14, Zenon DEF Change

(* Roles.                                                                  *)
LEMMA AssignedKeeps ==
  ASSUME AuthorityHolds, LimitsHold, Change
  PROVE  Cardinality(Assigned)' <= MaxAssignments
<1>1. IsFiniteSet(Users)
  <2>1. 1 \in Int /\ NUsers \in Int
    BY ManagementAssumption
  <2> QED BY <2>1, FS_Interval DEF Users
<1>2. Cardinality(Assigned) <= MaxAssignments
  BY DEF LimitsHold
<1>3. IsFiniteSet(Assigned) /\ Cardinality(Assigned) \in Nat
  <2>1. Assigned \in SUBSET Users
    BY DEF Assigned
  <2>2. IsFiniteSet(Assigned)
    BY <1>1, <2>1, FS_Subset
  <2> QED BY <2>2, FS_CardinalityType
<1>4. ASSUME UNCHANGED role PROVE Cardinality(Assigned)' <= MaxAssignments
  <2>1. Assigned' = Assigned
    BY <1>4 DEF Assigned
  <2> QED BY <1>2, <2>1
<1>5. ASSUME NEW h \in Handlers, ChangeRole(h) PROVE Cardinality(Assigned)' <= MaxAssignments
  <2>1. PICK r : r = handler[h]
    OBVIOUS
  <2>2. CallHolds(r) /\ MayChangeRole(r) /\ role' = [role EXCEPT ![r.subject] = r.to]
    BY <1>5, <2>1 DEF AuthorityHolds, CallsHold, ChangeRole
  <2>3. r.subject \in Users /\ role \in [Users -> Roles \cup {None}]
    BY <2>2 DEF CallHolds, MayChangeRole, AuthorityHolds, TypeOK
  <2>4. CASE r.to # None /\ role[r.subject] = None
    <3>1. Cardinality(Assigned) < MaxAssignments
      BY <2>2, <2>4 DEF MayChangeRole, MaySetRole, MayRevokeRole
    <3>2. Assigned' = Assigned \cup {r.subject} /\ r.subject \notin Assigned
      BY <2>2, <2>3, <2>4 DEF Assigned
    <3>3. Cardinality(Assigned \cup {r.subject}) = Cardinality(Assigned) + 1
      BY <1>3, <3>2, FS_AddElement
    <3> QED BY <1>3, <3>1, <3>2, <3>3, ManagementAssumption
  <2>5. CASE r.to # None /\ role[r.subject] # None
    <3>1. Assigned' = Assigned
      BY <2>2, <2>3, <2>5 DEF Assigned
    <3> QED BY <1>2, <3>1
  <2>6. CASE r.to = None
    <3>1. Assigned' \in SUBSET Assigned
      BY <2>2, <2>3, <2>6 DEF Assigned
    <3>2. IsFiniteSet(Assigned') /\ Cardinality(Assigned') <= Cardinality(Assigned)
      BY <1>3, <3>1, FS_Subset
    <3>3. Cardinality(Assigned') \in Nat
      BY <3>2, FS_CardinalityType
    <3> QED BY <1>2, <1>3, <3>2, <3>3, ManagementAssumption
  <2> QED BY <2>4, <2>5, <2>6
<1>6. UNCHANGED role \/ \E h \in Handlers : ChangeRole(h)
  <2>1. ASSUME NEW u \in Users, CreateUser(u) \/ DeactivateUser(u) PROVE UNCHANGED role
    BY <2>1 DEF CreateUser, DeactivateUser
  <2>2. ASSUME NEW g \in Groups, CreateGroup(g) \/ RenameGroup(g) \/ DeactivateGroup(g)
        PROVE  UNCHANGED role
    BY <2>2 DEF CreateGroup, RenameGroup, DeactivateGroup
  <2>3. ASSUME NEW g \in Groups, NEW u \in Users, AddMember(g, u) \/ RemoveMember(g, u)
        PROVE  UNCHANGED role
    BY <2>3 DEF AddMember, RemoveMember
  <2>4. ASSUME NEW h \in Handlers, NEW u \in Users, NEW r \in RoleRequests, BeginRoleChange(h, u, r)
        PROVE  UNCHANGED role
    BY <2>4 DEF BeginRoleChange
  <2>5. ASSUME NEW h \in Handlers, LookUpRole(h) \/ SetPolicy(h) \/ SetGrantRoles(h) \/ Refuse(h)
        PROVE  UNCHANGED role
    BY <2>5 DEF LookUpRole, SetPolicy, SetGrantRoles, Refuse
  <2>6. ASSUME NEW h \in Handlers, NEW g \in Graphs, ReadPolicy(h, g) PROVE UNCHANGED role
    BY <2>6 DEF ReadPolicy
  <2>7. ASSUME NEW x \in Grants, (\E roles \in RoleChoices : Grant(x, roles)) \/ RevokeGrant(x)
        PROVE  UNCHANGED role
    BY <2>7 DEF Grant, RevokeGrant
  <2>8. ASSUME NEW h \in Handlers, NEW x \in Grants, NEW roles \in RoleChoices, ReadGrant(h, x, roles)
        PROVE  UNCHANGED role
    BY <2>8 DEF ReadGrant
  <2> QED BY <2>1, <2>2, <2>3, <2>4, <2>5, <2>6, <2>7, <2>8, Zenon DEF Change
<1> QED BY <1>4, <1>5, <1>6

-----------------------------------------------------------------------------
(* Members.                                                                *)

LEMMA ShrinkingKeeps ==
  ASSUME AuthorityHolds, AuthorityHolds', MembersWithin, members' \subseteq members,
         \A m \in members' : user'[m[2]] = "active"
  PROVE  MembersWithin'
<1>1. ASSUME NEW S, NEW T, IsFiniteSet(T), S \subseteq T, NEW n \in Nat, Cardinality(T) <= n
      PROVE  Cardinality(S) <= n
  <2>1. IsFiniteSet(S) /\ Cardinality(S) <= Cardinality(T)
    BY <1>1, FS_Subset
  <2>2. Cardinality(S) \in Nat /\ Cardinality(T) \in Nat
    BY <1>1, <2>1, FS_CardinalityType
  <2> QED BY <1>1, <2>1, <2>2
<1>2. ASSUME NEW u \in Users PROVE Cardinality(GroupsOf(u)') <= MaxUserGroups
  <2>1. GroupsOf(u)' \subseteq GroupsOf(u)
    BY DEF GroupsOf
  <2>2. GroupsOf(u) \in SUBSET members /\ IsFiniteSet(members)
    BY DEF GroupsOf, AuthorityHolds, MembersHold
  <2>3. IsFiniteSet(GroupsOf(u))
    BY <2>2, FS_Subset
  <2>4. Cardinality(GroupsOf(u)) <= MaxUserGroups /\ MaxUserGroups \in Nat
    BY ManagementAssumption DEF MembersWithin
  <2> QED BY <1>1, <2>1, <2>3, <2>4
<1>3. ASSUME NEW g \in Groups PROVE group'[g].count <= MaxMembers
  <2>1. RowsOf(g)' \subseteq RowsOf(g)
    BY DEF RowsOf
  <2>2. IsFiniteSet(RowsOf(g)) /\ group[g].count = Cardinality(RowsOf(g))
    BY RowSets
  <2>3. Cardinality(RowsOf(g)) <= MaxMembers /\ MaxMembers \in Nat
    BY <2>2, ManagementAssumption DEF MembersWithin
  <2>4. group'[g].count = Cardinality(RowsOf(g)')
    BY DEF AuthorityHolds, MembersHold
  <2> QED BY <1>1, <2>1, <2>2, <2>3, <2>4
<1> QED BY <1>2, <1>3 DEF MembersWithin

LEMMA MembersWithinKeeps ==
  ASSUME AuthorityHolds, AuthorityHolds', MembersWithin, Change
  PROVE  MembersWithin'
<1>0. members \subseteq Groups \X Users \X Times /\ IsFiniteSet(members)
      /\ group \in [Groups -> GroupRows] /\ user \in [Users -> {"none", "active", "deactivated"}]
      /\ \A m \in members : user[m[2]] = "active" /\ m[2] \in Users
  BY Unmoved DEF MembersWithin
<1>1. ASSUME UNCHANGED <<user, members>> PROVE MembersWithin'
  BY <1>0, <1>1, ShrinkingKeeps
<1>2. ASSUME NEW u \in Users, CreateUser(u) PROVE MembersWithin'
  BY <1>0, <1>2, ShrinkingKeeps DEF CreateUser
<1>3. ASSUME NEW u \in Users, DeactivateUser(u) PROVE MembersWithin'
  <2>1. members' = members \ GroupsOf(u) /\ user' = [user EXCEPT ![u] = "deactivated"]
    BY <1>3 DEF DeactivateUser, RemoveUserMemberships
  <2>2. \A m \in members' : m \in members /\ m[2] # u
    BY <2>1 DEF GroupsOf
  <2> QED BY <1>0, <2>1, <2>2, ShrinkingKeeps
<1>4. ASSUME NEW g \in Groups, DeactivateGroup(g) PROVE MembersWithin'
  <2>1. members' \subseteq members /\ UNCHANGED user
    BY <1>4 DEF DeactivateGroup
  <2> QED BY <1>0, <2>1, ShrinkingKeeps
<1>5. ASSUME NEW g \in Groups, NEW u \in Users, RemoveMember(g, u) PROVE MembersWithin'
  <2>1. members' \subseteq members /\ UNCHANGED user
    BY <1>5 DEF RemoveMember
  <2> QED BY <1>0, <2>1, ShrinkingKeeps
<1>6. ASSUME NEW g \in Groups, NEW u \in Users, AddMember(g, u) PROVE MembersWithin'
  <2>1. PICK new : new = <<g, u, ClockOf[<<"user", u>>]>>
    OBVIOUS
  <2>2. /\ members' = members \cup {new} /\ UNCHANGED user /\ user[u] = "active"
        /\ group[g].count < MaxMembers /\ Cardinality(GroupsOf(u)) < MaxUserGroups
    BY <1>6, <2>1 DEF AddMember
  <2>3. new[2] = u /\ new[1] = g
    BY <2>1
  <2>4. \A m \in members' : user'[m[2]] = "active"
    BY <1>0, <2>2, <2>3
  <2>5. \A v \in Users : GroupsOf(v)' = IF v = u THEN GroupsOf(u) \cup {new} ELSE GroupsOf(v)
    BY <2>2, <2>3 DEF GroupsOf
  <2>6. IsFiniteSet(GroupsOf(u)) /\ Cardinality(GroupsOf(u)) \in Nat
    <3>1. GroupsOf(u) \in SUBSET members
      BY DEF GroupsOf
    <3>2. IsFiniteSet(GroupsOf(u))
      BY <1>0, <3>1, FS_Subset
    <3> QED BY <3>2, FS_CardinalityType
  <2>7. Cardinality(GroupsOf(u) \cup {new}) <= MaxUserGroups
    <3>1. Cardinality(GroupsOf(u) \cup {new})
            = IF new \in GroupsOf(u) THEN Cardinality(GroupsOf(u)) ELSE Cardinality(GroupsOf(u)) + 1
      BY <2>6, FS_AddElement
    <3> QED BY <2>2, <2>6, <3>1, ManagementAssumption
  <2>8. \A v \in Users : Cardinality(GroupsOf(v)') <= MaxUserGroups
    BY <2>5, <2>7 DEF MembersWithin
  <2>9. ASSUME NEW i \in Groups PROVE group'[i].count <= MaxMembers
    <3>1. PICK r : r = [group[g] EXCEPT !.count = group[g].count + 1]
      OBVIOUS
    <3>2. group[g] \in GroupRows /\ group' = [group EXCEPT ![g] = r]
      BY <1>0, <1>6, <3>1 DEF AddMember
    <3>3. r.count = group[g].count + 1 /\ group[g].count \in Nat
      BY <3>1, <3>2 DEF GroupRows
    <3>4. group'[g] = r /\ (i # g => group'[i] = group[i])
      BY <1>0, <3>2
    <3>5. r.count <= MaxMembers
      BY <2>2, <3>3, ManagementAssumption
    <3> QED BY <3>4, <3>5 DEF MembersWithin
  <2> QED BY <2>4, <2>8, <2>9 DEF MembersWithin
<1>7. ASSUME NEW g \in Groups, CreateGroup(g) \/ RenameGroup(g) PROVE MembersWithin'
  BY <1>1, <1>7 DEF CreateGroup, RenameGroup
<1>8. ASSUME NEW h \in Handlers, NEW u \in Users, NEW r \in RoleRequests, BeginRoleChange(h, u, r)
      PROVE  MembersWithin'
  BY <1>1, <1>8 DEF BeginRoleChange
<1>9. ASSUME NEW h \in Handlers,
             LookUpRole(h) \/ ChangeRole(h) \/ SetPolicy(h) \/ SetGrantRoles(h) \/ Refuse(h)
      PROVE  MembersWithin'
  BY <1>1, <1>9 DEF LookUpRole, ChangeRole, SetPolicy, SetGrantRoles, Refuse
<1>10. ASSUME NEW h \in Handlers, NEW g \in Graphs, ReadPolicy(h, g) PROVE MembersWithin'
  BY <1>1, <1>10 DEF ReadPolicy
<1>11. ASSUME NEW x \in Grants, (\E roles \in RoleChoices : Grant(x, roles)) \/ RevokeGrant(x)
       PROVE  MembersWithin'
  BY <1>1, <1>11 DEF Grant, RevokeGrant
<1>12. ASSUME NEW h \in Handlers, NEW x \in Grants, NEW roles \in RoleChoices, ReadGrant(h, x, roles)
       PROVE  MembersWithin'
  BY <1>1, <1>12 DEF ReadGrant
<1> QED BY <1>2, <1>3, <1>4, <1>5, <1>6, <1>7, <1>8, <1>9, <1>10, <1>11, <1>12, Zenon DEF Change

(* Grants.                                                                 *)
LEMMA GrantsWithinKeeps ==
  ASSUME AuthorityHolds, GrantsWithin, Change
  PROVE  GrantsWithin'
<1>0. grant \in [Grants -> GrantRows] /\ MaxGroupGrants \in Nat
  BY Unmoved, ManagementAssumption
<1>1. ASSUME \A x \in Grants : grant'[x].status = "active" => grant[x].status = "active"
      PROVE  GrantsWithin'
  <2> SUFFICES ASSUME NEW g \in Groups PROVE Sparing(g)'
    BY DEF GrantsWithin
  <2> DEFINE old == ActiveGrantsOf(<<"group", g>>)
             new == ActiveGrantsOf(<<"group", g>>)'
  <2>1. new \in SUBSET old
    BY <1>1 DEF ActiveGrantsOf
  <2>2. IsFiniteSet(old) /\ Cardinality(old) <= MaxGroupGrants
    BY DEF GrantsWithin, Sparing
  <2> HIDE DEF old, new
  <2>3. IsFiniteSet(new) /\ Cardinality(new) <= Cardinality(old)
    BY <2>1, <2>2, FS_Subset
  <2>4. Cardinality(new) \in Nat /\ Cardinality(old) \in Nat
    BY <2>2, <2>3, FS_CardinalityType
  <2>5. IsFiniteSet(new) /\ Cardinality(new) <= MaxGroupGrants
    BY <1>0, <2>2, <2>3, <2>4
  <2> QED BY <2>5 DEF Sparing, new
<1>2. ASSUME UNCHANGED grant PROVE GrantsWithin'
  BY <1>1, <1>2
<1>3. ASSUME NEW x \in Grants, NEW roles \in RoleChoices, Grant(x, roles) PROVE GrantsWithin'
  <2>1. grant' = [grant EXCEPT ![x] = [status |-> "active", roles |-> roles]]
    BY <1>3 DEF Grant
  <2>2. grant'[x].status = "active" /\ \A y \in Grants : y # x => grant'[y] = grant[y]
    BY <1>0, <2>1
  <2> SUFFICES ASSUME NEW g \in Groups PROVE Sparing(g)'
    BY DEF GrantsWithin
  <2> DEFINE old == ActiveGrantsOf(<<"group", g>>)
             new == ActiveGrantsOf(<<"group", g>>)'
  <2>3. IsFiniteSet(old) /\ Cardinality(old) <= MaxGroupGrants
    BY DEF GrantsWithin, Sparing
  <2>4. CASE PrincipalOf[x] = <<"group", g>>
    <3>1. Cardinality(old) < MaxGroupGrants
      BY <1>3, <2>4 DEF Grant
    <3>2. new = old \cup {x}
      BY <2>2, <2>4 DEF ActiveGrantsOf
    <3> HIDE DEF old, new
    <3>3. IsFiniteSet(new) /\ (Cardinality(new) = Cardinality(old) \/ Cardinality(new) = Cardinality(old) + 1)
      BY <2>3, <3>2, FS_AddElement
    <3>4. Cardinality(old) \in Nat
      BY <2>3, FS_CardinalityType
    <3>5. IsFiniteSet(new) /\ Cardinality(new) <= MaxGroupGrants
      BY <1>0, <3>1, <3>3, <3>4
    <3> QED BY <3>5 DEF Sparing, new
  <2>5. CASE PrincipalOf[x] # <<"group", g>>
    <3>1. new = old
      BY <2>2, <2>5 DEF ActiveGrantsOf
    <3> HIDE DEF old
    <3> QED BY <2>3, <3>1 DEF Sparing
  <2> QED BY <2>4, <2>5
<1>4. ASSUME NEW x \in Grants, RevokeGrant(x) PROVE GrantsWithin'
  <2>1. \A y \in Grants : y # x => grant'[y] = grant[y]
    BY <1>0, <1>4 DEF RevokeGrant
  <2>2. grant[x].status = "active"
    BY <1>4 DEF RevokeGrant
  <2> QED BY <1>1, <2>1, <2>2
<1>5. ASSUME NEW h \in Handlers, SetGrantRoles(h) PROVE GrantsWithin'
  <2>1. PICK x : x = handler[h].subject
    OBVIOUS
  <2>2. PICK to : grant' = [grant EXCEPT ![x].roles = to] /\ grant[x].status = "active"
    BY <1>5, <2>1 DEF SetGrantRoles, MaySetGrantRoles
  <2>3. \A y \in Grants : y # x => grant'[y] = grant[y]
    BY <1>0, <2>2
  <2> QED BY <1>1, <2>2, <2>3
<1>6. ASSUME NEW g \in Groups, DeactivateGroup(g) PROVE GrantsWithin'
  <2>1. PICK X : grant' = [x \in Grants |-> IF x \in X THEN [grant[x] EXCEPT !.status = "revoked"]
                                             ELSE grant[x]]
    BY <1>6 DEF DeactivateGroup
  <2>2. ASSUME NEW x \in Grants, grant'[x].status = "active" PROVE grant[x].status = "active"
    <3>1. grant[x] \in GrantRows
      BY <1>0
    <3>2. [grant[x] EXCEPT !.status = "revoked"].status = "revoked"
      BY <3>1 DEF GrantRows
    <3>3. grant'[x] = [grant[x] EXCEPT !.status = "revoked"] \/ grant'[x] = grant[x]
      BY <2>1
    <3> QED BY <2>2, <3>2, <3>3
  <2> QED BY <1>1, <2>2
<1>7. ASSUME NEW u \in Users, CreateUser(u) \/ DeactivateUser(u) PROVE GrantsWithin'
  BY <1>2, <1>7 DEF CreateUser, DeactivateUser
<1>8. ASSUME NEW g \in Groups, CreateGroup(g) \/ RenameGroup(g) PROVE GrantsWithin'
  BY <1>2, <1>8 DEF CreateGroup, RenameGroup
<1>9. ASSUME NEW g \in Groups, NEW u \in Users, AddMember(g, u) \/ RemoveMember(g, u)
      PROVE  GrantsWithin'
  BY <1>2, <1>9 DEF AddMember, RemoveMember
<1>10. ASSUME NEW h \in Handlers, NEW u \in Users, NEW r \in RoleRequests, BeginRoleChange(h, u, r)
       PROVE  GrantsWithin'
  BY <1>2, <1>10 DEF BeginRoleChange
<1>11. ASSUME NEW h \in Handlers, LookUpRole(h) \/ ChangeRole(h) \/ SetPolicy(h) \/ Refuse(h)
       PROVE  GrantsWithin'
  BY <1>2, <1>11 DEF LookUpRole, ChangeRole, SetPolicy, Refuse
<1>12. ASSUME NEW h \in Handlers, NEW g \in Graphs, ReadPolicy(h, g) PROVE GrantsWithin'
  BY <1>2, <1>12 DEF ReadPolicy
<1>13. ASSUME NEW h \in Handlers, NEW x \in Grants, NEW roles \in RoleChoices, ReadGrant(h, x, roles)
       PROVE  GrantsWithin'
  BY <1>2, <1>13 DEF ReadGrant
<1> QED BY <1>3, <1>4, <1>5, <1>6, <1>7, <1>8, <1>9, <1>10, <1>11, <1>12, <1>13, Zenon DEF Change

-----------------------------------------------------------------------------
(* What is told of a user.                                                 *)

(* No check of resolve hides a group of an active grant from its member.   *)
LEMMA GroupsSpeak ==
  ASSUME AuthorityHolds, LimitsHold, NEW g \in Groups, RowsOf(g) # {}
  PROVE  Speaks(g)
<1>1. group[g].status = "active" /\ group[g].count = Cardinality(RowsOf(g))
  BY DEF AuthorityHolds, MembersHold
<1>2. group[g].count <= MaxMembers /\ \A m \in RowsOf(g) : user[m[2]] = "active"
  BY DEF LimitsHold, MembersWithin, RowsOf
<1>3. Cardinality(ActiveGrantsOf(<<"group", g>>)) <= MaxGroupGrants
  BY DEF LimitsHold, GrantsWithin, Sparing
<1> QED BY <1>1, <1>2, <1>3 DEF Speaks

LEMMA GroupsReach ==
  ASSUME AuthorityHolds, LimitsHold, NEW u \in Users
  PROVE  /\ SpeakingGroups(u) = {g \in Groups : \E x \in Reaching(u) : PrincipalOf[x] = <<"group", g>>}
         /\ ActiveGrantsOf(<<"user", u>>) \cup UNION {ActiveGrantsOf(<<"group", g>>) : g \in SpeakingGroups(u)}
              = Reaching(u)
<1>1. \A g \in Groups : <<g, u>> \in ledger.members <=> Row(g, u) # {}
  <2>1. ledger.members = {<<m[1], m[2]>> : m \in members}
    BY Unmoved
  <2> QED BY <2>1 DEF Row
<1>2. \A g \in Groups : Row(g, u) # {} => Speaks(g)
  <2> SUFFICES ASSUME NEW g \in Groups, Row(g, u) # {} PROVE Speaks(g)
    OBVIOUS
  <2>1. RowsOf(g) # {}
    BY DEF Row, RowsOf
  <2> QED BY <2>1, GroupsSpeak
<1>3. SpeakingGroups(u) = {g \in Groups : <<g, u>> \in ledger.members /\ ActiveGrantsOf(<<"group", g>>) # {}}
  BY <1>1, <1>2 DEF SpeakingGroups
<1>4. \A g, i : <<"group", g>> = <<"group", i>> => g = i
  OBVIOUS
<1>5. \A x \in Grants : \A g \in Groups : PrincipalOf[x] = <<"group", g>> => PrincipalOf[x] # <<"user", u>>
  OBVIOUS
<1>6. ASSUME NEW g \in Groups
      PROVE  g \in SpeakingGroups(u) <=> \E x \in Reaching(u) : PrincipalOf[x] = <<"group", g>>
  <2>1. ASSUME g \in SpeakingGroups(u) PROVE \E x \in Reaching(u) : PrincipalOf[x] = <<"group", g>>
    BY <1>3, <2>1 DEF ActiveGrantsOf, Reaching
  <2>2. ASSUME NEW x \in Reaching(u), PrincipalOf[x] = <<"group", g>> PROVE g \in SpeakingGroups(u)
    BY <1>3, <1>4, <1>5, <2>2 DEF ActiveGrantsOf, Reaching
  <2> QED BY <2>1, <2>2
<1>7. SpeakingGroups(u) \subseteq Groups
  BY DEF SpeakingGroups
<1>8. ASSUME NEW x
      PROVE  x \in Reaching(u) <=>
               x \in ActiveGrantsOf(<<"user", u>>) \/ \E g \in SpeakingGroups(u) : x \in ActiveGrantsOf(<<"group", g>>)
  BY <1>3, <1>7 DEF Reaching, ActiveGrantsOf
<1> QED BY <1>6, <1>7, <1>8

(* Roles in force: what the approved policy gives to the roles assigned.   *)
LEMMA EffectiveIsExact ==
  ASSUME AuthorityHolds, PolicyHolds, NEW assigned
  PROVE  Effective(assigned) =
           IF policy.revision = 0 THEN {}
           ELSE {q \in DOMAIN policy.graph.inherits :
                   \E r \in assigned \cup {policy.graph.default} :
                     r \in DOMAIN policy.graph.inherits /\ q \in Below(policy.graph, r)}
<1>1. CASE policy.revision = 0
  BY <1>1 DEF Effective
<1>2. CASE policy.revision # 0 /\ policy.revision > 0
  <2>1. PICK g : g = policy.graph
    OBVIOUS
  <2>2. g \in Graphs /\ ValidGraph(g) /\ policy.effective = Expand(g)
    BY <1>2, <2>1 DEF PolicyHolds
  <2>3. DOMAIN policy.effective = DOMAIN g.inherits
        /\ \A r \in DOMAIN g.inherits : policy.effective[r] = Below(g, r)
    BY <2>2, GraphIsSound
  <2>4. \A r : Below(g, r) \subseteq DOMAIN g.inherits
    BY DEF Below
  <2>5. Effective(assigned) = UNION {policy.effective[r] : r \in (assigned \cup {g.default}) \cap DOMAIN g.inherits}
    BY <1>2, <2>1, <2>3 DEF Effective
  <2>6. ASSUME NEW q
        PROVE  q \in Effective(assigned) <=>
                 /\ q \in DOMAIN g.inherits
                 /\ \E r \in assigned \cup {g.default} : r \in DOMAIN g.inherits /\ q \in Below(g, r)
    BY <2>3, <2>4, <2>5
  <2>7. Effective(assigned) =
          {q \in DOMAIN g.inherits :
             \E r \in assigned \cup {g.default} : r \in DOMAIN g.inherits /\ q \in Below(g, r)}
    BY <2>6
  <2> QED BY <1>2, <2>1, <2>7
<1> QED BY <1>1, <1>2 DEF AuthorityHolds, TypeOK

LEMMA IdentityFollows ==
  ASSUME AuthorityHolds, ExactHolds
  PROVE  IdentityIsExact
<1> SUFFICES ASSUME NEW u \in Users
             PROVE  /\ Resolve(u) # None
                    /\ Resolve(u).role = ledger.role[u]
                    /\ Resolve(u).groups = {g \in Groups : \E x \in Reaching(u) : PrincipalOf[x] = <<"group", g>>}
                    /\ Resolve(u).app =
                         IF policy.revision = 0 THEN {}
                         ELSE {q \in DOMAIN policy.graph.inherits :
                                 \E r \in RolesGranted(Reaching(u)) \cup {policy.graph.default} :
                                   r \in DOMAIN policy.graph.inherits /\ q \in Below(policy.graph, r)}
  BY DEF IdentityIsExact
<1>1. RolesIntact /\ Cardinality(GroupsOf(u)) <= MaxUserGroups
  BY DEF AuthorityHolds, YardKeepsOwner, RolesIntact, ExactHolds, LimitsHold, MembersWithin
<1>2. Cardinality(GroupsOf(u)) \in Nat
  <2>1. GroupsOf(u) \in SUBSET members /\ IsFiniteSet(members)
    BY Unmoved DEF GroupsOf
  <2>2. IsFiniteSet(GroupsOf(u))
    BY <2>1, FS_Subset
  <2> QED BY <2>2, FS_CardinalityType
<1> DEFINE groups == SpeakingGroups(u)
           app == Effective(RolesGranted(Reaching(u)))
<1>3. Resolve(u) = [groups |-> groups, role |-> role[u], app |-> app]
  <2>1. ~ (~ RolesIntact \/ Cardinality(GroupsOf(u)) > MaxUserGroups)
    BY <1>1, <1>2, ManagementAssumption
  <2>2. app = Effective(RolesGranted(ActiveGrantsOf(<<"user", u>>)
                \cup UNION {ActiveGrantsOf(<<"group", g>>) : g \in SpeakingGroups(u)}))
    BY GroupsReach, Zenon DEF ExactHolds
  <2> HIDE DEF app
  <2> QED BY <2>1, <2>2, Zenon DEF Resolve
<1>4. groups = {g \in Groups : \E x \in Reaching(u) : PrincipalOf[x] = <<"group", g>>}
  BY GroupsReach DEF ExactHolds
<1>5. app = IF policy.revision = 0 THEN {}
            ELSE {q \in DOMAIN policy.graph.inherits :
                    \E r \in RolesGranted(Reaching(u)) \cup {policy.graph.default} :
                      r \in DOMAIN policy.graph.inherits /\ q \in Below(policy.graph, r)}
  BY EffectiveIsExact DEF ExactHolds
<1>6. role[u] \in Roles \cup {None} /\ ledger.role[u] = role[u]
  BY DEF AuthorityHolds, TypeOK, LedgerAgrees
<1>7. app \in SUBSET AppRoles
  <2>1. CASE policy.revision = 0
    BY <2>1 DEF Effective
  <2>2. CASE policy.revision # 0
    <3>1. policy.graph \in Graphs
      BY <2>2 DEF AuthorityHolds, TypeOK, ExactHolds, PolicyHolds
    <3>2. DOMAIN policy.graph.inherits \subseteq AppRoles
      BY <3>1, ManagementAssumption DEF IsGraph
    <3> HIDE DEF app
    <3> QED BY <1>5, <2>2, <3>2
  <2> QED BY <2>1, <2>2
<1>8. groups \in SUBSET Groups
  BY DEF SpeakingGroups
<1> HIDE DEF groups, app
<1>9. Resolve(u) # None
  BY <1>3, <1>6, <1>7, <1>8, ManagementAssumption
<1> QED BY <1>3, <1>4, <1>5, <1>6, <1>9

LEMMA ExactFollows ==
  ASSUME AuthorityHolds, ExactHolds
  PROVE  AuthorityIsExact
<1>1. PolicyIsSound
  BY GraphIsSound DEF ExactHolds, PolicyHolds, PolicyIsSound
<1> QED BY <1>1, IdentityFollows DEF AuthorityIsExact

LEMMA ExactStart ==
  ASSUME Init
  PROVE  ExactHolds
<1>1. PolicyHolds
  BY DEF Init, PolicyHolds, NoPolicy, Idle
<1>2. \A g \in Groups : ActiveGrantsOf(<<"group", g>>) = {}
  BY DEF Init, ActiveGrantsOf, NoGrant
<1>3. \A u \in Users : GroupsOf(u) = {}
  BY DEF Init, GroupsOf
<1>4. Assigned = {}
  BY DEF Init, Assigned
<1>5. \A g \in Groups : group[g].count = 0
  BY DEF Init, NoGroup
<1>6. /\ 0 <= MaxAssignments /\ 0 <= MaxUserGroups /\ 0 <= MaxMembers /\ 0 <= MaxGroupGrants
  BY ManagementAssumption
<1>7. Cardinality({}) = 0 /\ IsFiniteSet({})
  BY FS_EmptySet
<1>8. MembersWithin
  BY <1>3, <1>5, <1>6, <1>7 DEF Init, MembersWithin
<1>9. GrantsWithin
  BY <1>2, <1>6, <1>7 DEF GrantsWithin, Sparing
<1>10. Cardinality(Assigned) <= MaxAssignments
  BY <1>4, <1>6, <1>7
<1> QED BY <1>1, <1>8, <1>9, <1>10 DEF ExactHolds, LimitsHold

LEMMA ExactStands ==
  ASSUME ExactHolds, UNCHANGED <<user, group, members, role, policy, grant, handler>>
  PROVE  ExactHolds'
<1>1. PolicyHolds'
  BY DEF ExactHolds, PolicyHolds
<1>2. Assigned' = Assigned /\ \A u \in Users : GroupsOf(u)' = GroupsOf(u)
  BY DEF Assigned, GroupsOf
<1>3. \A g \in Groups : ActiveGrantsOf(<<"group", g>>)' = ActiveGrantsOf(<<"group", g>>)
  BY DEF ActiveGrantsOf
<1>4. MembersWithin'
  BY <1>2 DEF ExactHolds, LimitsHold, MembersWithin
<1>5. GrantsWithin'
  BY <1>3 DEF ExactHolds, LimitsHold, GrantsWithin, Sparing
<1> QED BY <1>1, <1>2, <1>4, <1>5 DEF ExactHolds, LimitsHold

LEMMA ExactStep == IInv /\ IInv' /\ ExactHolds /\ [Next]_vars => ExactHolds'
<1> SUFFICES ASSUME IInv, IInv', ExactHolds, [Next]_vars PROVE ExactHolds'
  OBVIOUS
<1>1. CASE Change
  <2>1. AuthorityHolds /\ AuthorityHolds' /\ CallsHold
    BY DEF IInv, AuthorityHolds
  <2>2. PolicyHolds'
    BY <1>1, <2>1, PolicyKeeps DEF ExactHolds
  <2>3. LimitsHold'
    BY <1>1, <2>1, AssignedKeeps, MembersWithinKeeps, GrantsWithinKeeps DEF ExactHolds, LimitsHold
  <2> QED BY <2>2, <2>3 DEF ExactHolds
<1>2. CASE \/ \E list \in {"groups", "members", "roles"}, g \in Groups : BeginWalk(list, g)
           \/ WalkPage \/ EndWalk \/ UNCHANGED vars
  <2>1. UNCHANGED <<user, group, members, role, policy, grant, handler>>
    BY <1>2 DEF BeginWalk, WalkPage, EndWalk, vars
  <2> QED BY <2>1, ExactStands
<1> QED BY <1>1, <1>2 DEF Next

(* Every active user is told what the approved policy and the grants       *)
(* recorded in the audit log give, and nothing else, and an approved       *)
(* policy has no cycle (canonicalize_application_policy, resolve).         *)
THEOREM AuthorityIsExactHolds == Spec => []AuthorityIsExact
<1>1. Init => ExactHolds
  BY ExactStart
<1>2. Spec => []ExactHolds
  BY <1>1, ExactStep, IInvAlways, PTL DEF Spec
<1>3. IInv /\ ExactHolds => AuthorityIsExact
  BY ExactFollows DEF IInv
<1> QED BY <1>2, <1>3, IInvAlways, PTL

-----------------------------------------------------------------------------
(* The operator commands of Recovery, for any number of commands,          *)
(* destinations, keys and faults and for every export.                     *)

Rows == [Keys -> States]
Holdings == [Keys -> Stored]
Commands ==
  [name : {"none", "backup", "restore", "migrate", "reconcile"},
   step : {"idle", "copy", "empty", "put", "rename", "cleanup", "poll", "prepare",
           "downloaded", "keys", "observe"},
   dir : Dirs \cup {Absent}, shared : BOOLEAN, rows : Rows, files : Holdings,
   todo : SUBSET Keys, own : Holdings, imported : SUBSET Keys, schema : Nat,
   polls : Nat, export : Exports \cup {Absent}, clean : BOOLEAN, quiet : BOOLEAN]
Backups == [rows : Rows, files : Holdings, schema : Nat]

(* A type that remembers what Recovery's TypeOK does not ask.              *)
Typed ==
  /\ rows \in Rows /\ bytes \in Holdings
  /\ schema \in 1..MaxSchema /\ binary \in 1..MaxSchema
  /\ bucket \in Holdings /\ stray \subseteq Keys
  /\ site \in [Dirs -> Installations \cup {Absent}]
  /\ command \in [Operators -> Commands]
  /\ faults \in 0..MaxFaults

(* What a copy made so far is right; nothing is pending in its snapshot.   *)
BackupHolds(c) ==
  c.step = "copy" =>
    /\ \A k \in Keys : c.rows[k] # "pending"
    /\ \A k \in Complete(c.rows) \ c.todo : c.files[k] = "right"

Lost(b) == {k \in Complete(b.rows) : b.files[k] # "right"}

Published ==
  backup # Absent =>
    /\ \A k \in Keys : backup.rows[k] # "pending"
    /\ IsFiniteSet(Lost(backup)) /\ Cardinality(Lost(backup)) <= faults

(* What a restore or a migration put so far is where it put it; together   *)
(* with what is left it is all that its rows name.                         *)
ImportHolds(c, b) ==
  /\ c.imported # {} => c.step \in {"put", "rename", "cleanup"}
  /\ c.step \in {"empty", "put", "rename", "cleanup"} => c.imported \subseteq Complete(c.rows)
  /\ c.step \in {"empty", "put"} => Complete(c.rows) = c.todo \cup c.imported
  /\ c.step = "downloaded" => Complete(c.rows) = c.todo
  /\ c.step = "rename" => Complete(c.rows) = c.imported
  /\ c.step \in {"poll", "prepare", "downloaded", "empty", "put", "rename"} => c.dir \in Dirs
  /\ c.step = "prepare" => c.export \in Exports
  /\ \A k \in c.imported : (IF c.shared THEN b[k] ELSE c.own[k]) = "right"

(* What is in the bucket belongs to one importing command or to            *)
(* installations.                                                          *)
Apart ==
  /\ \A o, p \in Operators :
       o # p /\ command[o].shared /\ command[p].shared =>
         command[o].imported \cap command[p].imported = {}
  /\ \A d \in Dirs, o \in Operators :
       site[d] # Absent /\ site[d].shared /\ command[o].shared =>
         Complete(site[d].rows) \cap command[o].imported = {}

(* A reconciliation nobody disturbed has judged every key it is done with. *)
ReportHolds(c) ==
  c.name = "reconcile" /\ c.quiet =>
    /\ c.rows = rows
    /\ c.step \in {"keys", "observe"}
    /\ c.step = "observe" =>
         LET physical == {k \in Keys : bytes[k] # "none"}
         IN /\ c.todo \subseteq Complete(rows) \cap physical
            /\ c.clean <=> /\ physical = Complete(rows)
                           /\ \A k \in (Complete(rows) \cap physical) \ c.todo : bytes[k] = "right"

(* The backup that is left, if any, restores.                              *)
BackupSafe == (backup # Absent => backup \in Backups) /\ Published

Core ==
  /\ Typed
  /\ schema <= binary
  /\ \A o \in Operators : /\ BackupHolds(command[o])
                          /\ ImportHolds(command[o], bucket)
                          /\ ReportHolds(command[o])
  /\ Apart
  /\ InstallationIsWhole
  /\ FailureLeavesNothing

RecoveryInv == Core /\ BackupSafe

-----------------------------------------------------------------------------
(* A command that has not begun, or that ended, is well typed and holds    *)
(* nothing.                                                                *)
LEMMA IdleIsFine ==
  /\ AtRest \in Commands /\ AtRest.name = "none" /\ AtRest.imported = {} /\ ~AtRest.shared
  /\ BackupHolds(AtRest) /\ \A b : ImportHolds(AtRest, b) /\ ReportHolds(AtRest)
<1>1. Nothing \in Rows /\ Nothing \in Holdings
  BY DEF Nothing, Rows, Holdings, States, Stored
<1>2. /\ AtRest \in Commands /\ AtRest.name = "none" /\ AtRest.imported = {} /\ ~AtRest.shared
      /\ AtRest.step = "idle"
  BY <1>1 DEF AtRest, Commands
<1> QED BY <1>2 DEF BackupHolds, ImportHolds, ReportHolds

(* One command moves on; the keys it changes in the bucket were free or    *)
(* its own, and what it put it has still, took back or left for stray.     *)
Takes(o, c, b) ==
  /\ \A k \in c.imported : c.shared =>
       bucket[k] = "none" \/ (command[o].shared /\ k \in command[o].imported)
  /\ \A k \in Keys : b[k] # bucket[k] =>
       bucket[k] = "none" \/ (command[o].shared /\ k \in command[o].imported)
  /\ \A k \in Keys : b[k] # "none" =>
       \/ k \in stray' \/ (c.shared /\ k \in c.imported)
       \/ bucket[k] # "none" /\ ~(command[o].shared /\ k \in command[o].imported)

(* What the bucket holds for others stays theirs.                          *)
LEMMA Moves ==
  ASSUME Core, NEW o \in Operators, NEW c \in Commands, NEW b \in Holdings,
         command' = [command EXCEPT ![o] = c], bucket' = b, UNCHANGED <<source, site>>,
         faults' \in 0..MaxFaults, stray \subseteq stray', stray' \subseteq Keys,
         BackupHolds(c), ImportHolds(c, b), ReportHolds(c), Takes(o, c, b)
  PROVE  Core'
<1>1. /\ command \in [Operators -> Commands] /\ command' \in [Operators -> Commands]
      /\ command'[o] = c /\ \A p \in Operators \ {o} : command'[p] = command[p]
      /\ bucket \in Holdings /\ \A p \in Operators : command[p].imported \subseteq Keys
      /\ UNCHANGED <<rows, bytes, schema, binary, site>>
  BY DEF Core, Typed, Commands, source
<1>2. Typed'
  BY <1>1 DEF Core, Typed
<1>3. \A p \in Operators \ {o}, k \in Keys : command[p].shared /\ k \in command[p].imported =>
        bucket[k] = "right" /\ b[k] = "right"
  BY <1>1 DEF Core, ImportHolds, Takes, Apart
<1>4. ASSUME NEW p \in Operators
      PROVE  BackupHolds(command'[p]) /\ ImportHolds(command'[p], b) /\ ReportHolds(command'[p])
  <2>1. CASE p = o
    BY <1>1, <2>1
  <2>2. CASE p # o
    BY <1>1, <1>3, <2>2 DEF Core, ImportHolds
  <2> QED BY <2>1, <2>2
<1>5. \A p \in Operators : ReportHolds(command[p])'
  BY <1>1, <1>4 DEF ReportHolds
<1>6. \A d \in Dirs, k \in Keys : site[d] # Absent /\ site[d].shared /\ k \in Complete(site[d].rows) =>
        /\ bucket[k] = "right" /\ b[k] = "right"
        /\ ~(c.shared /\ k \in c.imported)
  BY <1>1 DEF Core, InstallationIsWhole, Apart, Takes, Complete
<1>7. Apart'
  <2>1. \A p \in Operators \ {o} : c.shared /\ command[p].shared =>
          c.imported \cap command[p].imported = {}
    BY <1>1, <1>3 DEF Core, Apart, Takes, Commands
  <2>2. \A d \in Dirs : Complete(site[d].rows) \subseteq Keys
    BY DEF Complete
  <2> QED BY <1>1, <1>6, <2>1, <2>2 DEF Core, Apart
<1>8. InstallationIsWhole'
  BY <1>1, <1>6 DEF Core, InstallationIsWhole, Complete
<1>9. FailureLeavesNothing'
  <2> SUFFICES ASSUME NEW k \in Keys, b[k] # "none", k \notin stray', ~(c.shared /\ k \in c.imported)
               PROVE  \/ \E d \in Dirs : /\ site[d] # Absent /\ site[d].shared
                                         /\ k \in Complete(site[d].rows)
                      \/ \E p \in Operators : command'[p].shared /\ k \in command'[p].imported
    BY <1>1 DEF FailureLeavesNothing
  <2>1. bucket[k] # "none" /\ ~(command[o].shared /\ k \in command[o].imported) /\ k \notin stray
    BY DEF Takes
  <2> QED BY <1>1, <2>1 DEF Core, FailureLeavesNothing
<1>10. schema' <= binary'
  BY <1>1 DEF Core
<1> QED BY <1>1, <1>2, <1>4, <1>5, <1>7, <1>8, <1>9, <1>10 DEF Core

(* A step that leaves the bucket and what the command put as they are.     *)
LEMMA Goes ==
  ASSUME Core, NEW o \in Operators, NEW c \in Commands,
         command' = [command EXCEPT ![o] = c], UNCHANGED <<source, site, bucket, stray>>,
         faults' = faults,
         \/ c.imported = command[o].imported /\ c.shared = command[o].shared
         \/ c.imported = {} /\ command[o].imported = {},
         BackupHolds(c), ImportHolds(c, bucket), ReportHolds(c)
  PROVE  Core'
<1>1. /\ faults' \in 0..MaxFaults /\ stray \subseteq stray' /\ stray' \subseteq Keys /\ bucket \in Holdings
      /\ bucket' = bucket
  BY DEF Core, Typed
<1>2. c.imported \subseteq Keys
  BY DEF Commands
<1>3. Takes(o, c, bucket)
  BY <1>1, <1>2 DEF Takes
<1> QED BY <1>1, <1>3, Moves

(* A command that ends having put nothing.                                 *)
LEMMA Ends ==
  ASSUME Core, NEW o \in Operators, Finish(o), UNCHANGED <<source, site, bucket, stray>>,
         faults' = faults, command[o].imported = {}
  PROVE  Core'
BY IdleIsFine, Goes DEF Finish, Set

-----------------------------------------------------------------------------
(* What Begin gives: the command that begins held nothing before.          *)
LEMMA BeginGoes ==
  ASSUME Core, NEW o \in Operators, NEW c \in Commands, Begin(o, c),
         UNCHANGED <<source, site, bucket, stray, faults>>, c.imported = {},
         BackupHolds(c), ImportHolds(c, bucket), ReportHolds(c)
  PROVE  Core'
BY IdleIsFine, Goes DEF Begin, Set

(* A backup begins with nothing copied and nothing pending.                *)
LEMMA BackupBeginKeeps ==
  ASSUME Core, NEW o \in Operators, BackupBegin(o)
  PROVE  Core'
<1> DEFINE c == [AtRest EXCEPT !.name = "backup", !.step = "copy", !.rows = rows,
                         !.todo = Complete(rows), !.schema = schema]
<1>1. /\ Begin(o, c) /\ UNCHANGED <<source, site, bucket, stray, faults>>
      /\ \A k \in Keys : rows[k] # "pending"
  BY DEF BackupBegin
<1>2. rows \in Rows /\ Complete(rows) \subseteq Keys /\ schema \in Nat
  BY DEF Core, Typed, Complete
<1>3. /\ c \in Commands /\ c.name = "backup" /\ c.step = "copy" /\ c.rows = rows
      /\ c.todo = Complete(rows) /\ c.imported = {}
  BY <1>2, IdleIsFine DEF Commands
<1> HIDE DEF c
<1>4. BackupHolds(c) /\ ImportHolds(c, bucket) /\ ReportHolds(c)
  BY <1>1, <1>3 DEF BackupHolds, ImportHolds, ReportHolds
<1> QED BY <1>1, <1>3, <1>4, BeginGoes

(* An object is copied only when its bytes are right.                      *)
LEMMA CopyObjectKeeps ==
  ASSUME Core, NEW o \in Operators, NEW k \in Keys, CopyObject(o, k)
  PROVE  Core'
<1> DEFINE c == [command[o] EXCEPT !.todo = @ \ {k}, !.files[k] = "right"]
<1>1. /\ command[o] \in Commands /\ command[o].name = "backup" /\ command[o].step = "copy"
      /\ UNCHANGED <<source, site, bucket, stray>> /\ faults' = faults
      /\ Finish(o) \/ command' = [command EXCEPT ![o] = c]
      /\ BackupHolds(command[o]) /\ ImportHolds(command[o], bucket)
  BY DEF CopyObject, At, Set, Core, Typed, bounds
<1>2. command[o].imported = {}
  BY <1>1 DEF ImportHolds
<1>3. /\ c \in Commands /\ c.name = "backup" /\ c.step = "copy" /\ c.rows = command[o].rows
      /\ c.todo = command[o].todo \ {k} /\ c.imported = {}
      /\ \A j \in Keys : c.files[j] = IF j = k THEN "right" ELSE command[o].files[j]
  BY <1>1, <1>2 DEF Commands, Holdings, Stored
<1> HIDE DEF c
<1>4. BackupHolds(c) /\ ImportHolds(c, bucket) /\ ReportHolds(c)
  BY <1>1, <1>3 DEF BackupHolds, ImportHolds, ReportHolds, Complete
<1> QED BY <1>1, <1>2, <1>3, <1>4, Ends, Goes

(* A restore begins with all that the backup's rows name left to do.       *)
LEMMA RestoreBeginKeeps ==
  ASSUME Core, BackupSafe, NEW o \in Operators, NEW d \in Dirs, NEW shared \in BOOLEAN,
         RestoreBegin(o, d, shared)
  PROVE  Core'
<1> DEFINE c == [AtRest EXCEPT !.name = "restore", !.step = "empty", !.dir = d,
                         !.shared = shared, !.rows = backup.rows,
                         !.todo = Complete(backup.rows),
                         !.schema = backup.schema]
<1>1. /\ Begin(o, c) /\ UNCHANGED <<source, site, bucket, stray, faults>>
      /\ backup \in Backups
  BY DEF RestoreBegin, BackupSafe
<1>2. backup.rows \in Rows /\ Complete(backup.rows) \subseteq Keys /\ backup.schema \in Nat
  BY <1>1 DEF Backups, Complete
<1>3. /\ c \in Commands /\ c.name = "restore" /\ c.step = "empty" /\ c.dir = d
      /\ c.todo = Complete(c.rows) /\ c.imported = {}
  BY <1>2, IdleIsFine DEF Commands
<1> HIDE DEF c
<1>4. BackupHolds(c) /\ ImportHolds(c, bucket) /\ ReportHolds(c)
  BY <1>3 DEF BackupHolds, ImportHolds, ReportHolds
<1> QED BY <1>1, <1>3, <1>4, BeginGoes

(* So does a migration, which knows nothing yet.                           *)
LEMMA MigrateBeginKeeps ==
  ASSUME Core, NEW o \in Operators, NEW d \in Dirs, NEW shared \in BOOLEAN,
         MigrateBegin(o, d, shared)
  PROVE  Core'
<1> DEFINE c == [AtRest EXCEPT !.name = "migrate", !.step = "poll", !.dir = d,
                         !.shared = shared, !.schema = binary]
<1>1. Begin(o, c) /\ UNCHANGED <<source, site, bucket, stray, faults>>
  BY DEF MigrateBegin
<1>2. binary \in Nat
  BY DEF Core, Typed
<1>3. c \in Commands /\ c.name = "migrate" /\ c.step = "poll" /\ c.dir = d /\ c.imported = {}
  BY <1>2, IdleIsFine DEF Commands
<1> HIDE DEF c
<1>4. BackupHolds(c) /\ ImportHolds(c, bucket) /\ ReportHolds(c)
  BY <1>3 DEF BackupHolds, ImportHolds, ReportHolds
<1> QED BY <1>1, <1>3, <1>4, BeginGoes

(* A reconciliation begins with the rows as they are.                      *)
LEMMA ReconcileRowsKeeps ==
  ASSUME Core, NEW o \in Operators, ReconcileRows(o)
  PROVE  Core'
<1> DEFINE c == [AtRest EXCEPT !.name = "reconcile", !.step = "keys", !.rows = rows]
<1>1. Begin(o, c) /\ UNCHANGED <<source, site, bucket, stray, faults>>
  BY DEF ReconcileRows
<1>2. rows \in Rows
  BY DEF Core, Typed
<1>3. c \in Commands /\ c.name = "reconcile" /\ c.step = "keys" /\ c.imported = {} /\ c.rows = rows
  BY <1>2, IdleIsFine DEF Commands
<1> HIDE DEF c
<1>4. BackupHolds(c) /\ ImportHolds(c, bucket) /\ ReportHolds(c)
  BY <1>3 DEF BackupHolds, ImportHolds, ReportHolds
<1> QED BY <1>1, <1>3, <1>4, BeginGoes

(* A command that only turns to another step keeps what it put.            *)
LEMMA TurnKeeps ==
  ASSUME Core, NEW o \in Operators, NEW s, GoTo(o, s),
         UNCHANGED <<source, site, bucket, stray>>, faults' = faults,
         command[o].name # "reconcile" \/ ~command[o].quiet,
         \/ s = "cleanup" /\ command[o].step \in {"empty", "put", "rename"}
         \/ s = "put" /\ command[o].step = "empty"
         \/ s = "empty" /\ command[o].step = "downloaded"
         \/ s = "rename" /\ command[o].step = "put" /\ command[o].todo = {}
  PROVE  Core'
<1> DEFINE c == [command[o] EXCEPT !.step = s]
<1>1. /\ command[o] \in Commands /\ ImportHolds(command[o], bucket)
      /\ command' = [command EXCEPT ![o] = c]
      /\ s \in {"cleanup", "put", "empty", "rename"}
  BY DEF GoTo, Set, Core, Typed
<1>2. /\ c \in Commands /\ c.step = s /\ c.name = command[o].name /\ c.rows = command[o].rows
      /\ c.todo = command[o].todo /\ c.imported = command[o].imported
      /\ c.shared = command[o].shared /\ c.own = command[o].own /\ c.dir = command[o].dir /\ c.quiet = command[o].quiet
  BY <1>1 DEF Commands
<1> HIDE DEF c
<1>3. BackupHolds(c) /\ ReportHolds(c)
  BY <1>1, <1>2 DEF BackupHolds, ReportHolds
<1>4. ImportHolds(c, bucket)
  BY <1>1, <1>2 DEF ImportHolds
<1> QED BY <1>1, <1>2, <1>3, <1>4, Goes

(* An importing command is no reconciliation that nobody disturbed.        *)
LEMMA ImportingIsNotReconciling ==
  ASSUME Core, NEW o \in Operators, command[o].step \notin {"keys", "observe"}
  PROVE  command[o].name # "reconcile" \/ ~command[o].quiet
BY DEF Core, ReportHolds

(* Steps of an import that only look.                                      *)
LEMMA LookingKeeps ==
  ASSUME Core, NEW o \in Operators, RequireEmpty(o) \/ ImportBegin(o) \/ Imported(o)
  PROVE  Core'
<1>0. command[o] \in Commands /\ ImportHolds(command[o], bucket)
  BY DEF Core, Typed
<1>1. CASE RequireEmpty(o)
  <2>1. /\ command[o].step = "empty" /\ UNCHANGED <<source, site, bucket, stray>> /\ faults' = faults
        /\ GoTo(o, "put") \/ Finish(o)
    BY <1>1 DEF RequireEmpty, bounds
  <2>2. CASE GoTo(o, "put")
    BY <2>1, <2>2, TurnKeeps, ImportingIsNotReconciling
  <2>3. CASE Finish(o)
    BY <1>0, <2>1, <2>3, Ends DEF ImportHolds
  <2> QED BY <2>1, <2>2, <2>3
<1>2. CASE ImportBegin(o)
  <2>1. /\ command[o].step = "downloaded" /\ UNCHANGED <<source, site, bucket, stray>> /\ faults' = faults
        /\ GoTo(o, "empty") \/ Finish(o)
    BY <1>2 DEF ImportBegin, At, bounds
  <2>2. CASE GoTo(o, "empty")
    BY <2>1, <2>2, TurnKeeps, ImportingIsNotReconciling
  <2>3. CASE Finish(o)
    BY <1>0, <2>1, <2>3, Ends DEF ImportHolds
  <2> QED BY <2>1, <2>2, <2>3
<1>3. CASE Imported(o)
  <2>1. /\ command[o].step = "put" /\ command[o].todo = {}
        /\ UNCHANGED <<source, site, bucket, stray>> /\ faults' = faults
        /\ GoTo(o, "rename") \/ GoTo(o, "cleanup")
    BY <1>3 DEF Imported, bounds
  <2> QED BY <2>1, TurnKeeps, ImportingIsNotReconciling
<1> QED BY <1>1, <1>2, <1>3

(* An object is put only where there was none, and is the command's then.  *)
LEMMA PutObjectKeeps ==
  ASSUME Core, NEW o \in Operators, NEW k \in Keys, PutObject(o, k)
  PROVE  Core'
<1>1. /\ command[o] \in Commands /\ ImportHolds(command[o], bucket) /\ bucket \in Holdings
      /\ command[o].step = "put" /\ k \in command[o].todo
      /\ UNCHANGED <<source, site, stray>> /\ faults' = faults /\ faults \in 0..MaxFaults
      /\ stray \subseteq Keys
      /\ command[o].name # "reconcile" \/ ~command[o].quiet
  BY ImportingIsNotReconciling DEF PutObject, Core, Typed, bounds
<1>2. CASE Held(o)[k] = "none" /\ Readable(o, k)
  <2> DEFINE c == [command[o] EXCEPT !.todo = @ \ {k}, !.imported = @ \cup {k}]
             e == [c EXCEPT !.own[k] = "right"]
             b == [bucket EXCEPT ![k] = "right"]
  <2>1. /\ c \in Commands /\ c.step = "put" /\ c.name = command[o].name /\ c.rows = command[o].rows
        /\ c.todo = command[o].todo \ {k} /\ c.imported = command[o].imported \cup {k}
        /\ c.shared = command[o].shared /\ c.own = command[o].own /\ c.dir = command[o].dir /\ c.quiet = command[o].quiet
    BY <1>1 DEF Commands
  <2>2. Hold(o, c, k, "right")
    BY <1>1, <1>2 DEF PutObject
  <2> HIDE DEF c
  <2>3. CASE command[o].shared
    <3>1. command' = [command EXCEPT ![o] = c] /\ bucket' = b /\ bucket[k] = "none"
      BY <1>2, <2>1, <2>2, <2>3 DEF Hold, Set, Held
    <3>2. b \in Holdings /\ \A j \in Keys : b[j] = IF j = k THEN "right" ELSE bucket[j]
      BY <1>1 DEF Holdings, Stored
    <3> HIDE DEF b
    <3>3. BackupHolds(c) /\ ReportHolds(c)
      BY <1>1, <2>1 DEF BackupHolds, ReportHolds
    <3>4. ImportHolds(c, b)
      BY <1>1, <2>1, <2>3, <3>2 DEF ImportHolds, Commands
    <3>5. Takes(o, c, b)
      BY <1>1, <2>1, <2>3, <3>1, <3>2 DEF Takes
    <3> QED BY <1>1, <2>1, <3>1, <3>2, <3>3, <3>4, <3>5, Moves
  <2>4. CASE ~command[o].shared
    <3>1. command' = [command EXCEPT ![o] = e] /\ bucket' = bucket
      BY <2>1, <2>2, <2>4 DEF Hold, Set
    <3>2. /\ e \in Commands /\ e.step = "put" /\ e.name = command[o].name /\ e.rows = command[o].rows
          /\ e.todo = c.todo /\ e.dir = c.dir /\ e.imported = c.imported /\ ~e.shared /\ e.quiet = c.quiet
          /\ \A j \in Keys : e.own[j] = IF j = k THEN "right" ELSE command[o].own[j]
      BY <2>1, <2>4 DEF Commands, Holdings, Stored
    <3> HIDE DEF e
    <3>3. BackupHolds(e) /\ ReportHolds(e)
      BY <1>1, <2>1, <3>2 DEF BackupHolds, ReportHolds
    <3>4. ImportHolds(e, bucket)
      BY <1>1, <2>1, <2>4, <3>2 DEF ImportHolds, Commands
    <3>5. Takes(o, e, bucket)
      BY <2>4, <3>2 DEF Takes
    <3> QED BY <1>1, <3>1, <3>2, <3>3, <3>4, <3>5, Moves
  <2> QED BY <2>3, <2>4
<1>3. CASE ~(Held(o)[k] = "none" /\ Readable(o, k))
  <2>1. GoTo(o, "cleanup") /\ UNCHANGED bucket
    BY <1>3 DEF PutObject
  <2> QED BY <1>1, <2>1, TurnKeeps
<1> QED BY <1>2, <1>3

(* A put without an answer leaves nothing, or an object nobody claims.     *)
LEMMA PutFailsKeeps ==
  ASSUME Core, NEW o \in Operators, NEW k \in Keys, PutFails(o, k)
  PROVE  Core'
<1> DEFINE c == [command[o] EXCEPT !.step = "cleanup"]
           g == [bucket EXCEPT ![k] = "right"]
<1>1. /\ command[o] \in Commands /\ ImportHolds(command[o], bucket) /\ bucket \in Holdings
      /\ command[o].step = "put" /\ command[o].shared /\ bucket[k] = "none"
      /\ command' = [command EXCEPT ![o] = c]
      /\ UNCHANGED <<source, site>> /\ faults' \in 0..MaxFaults
      /\ stray \subseteq Keys
      /\ command[o].name # "reconcile" \/ ~command[o].quiet
  BY ImportingIsNotReconciling, RecoveryAssumption DEF PutFails, Core, Typed, GoTo, Set
<1>2. /\ c \in Commands /\ c.step = "cleanup" /\ c.name = command[o].name /\ c.rows = command[o].rows
      /\ c.imported = command[o].imported /\ c.quiet = command[o].quiet
      /\ c.shared = command[o].shared /\ c.own = command[o].own /\ c.dir = command[o].dir
  BY <1>1 DEF Commands
<1>3. g \in Holdings /\ \A j \in Keys : g[j] = IF j = k THEN "right" ELSE bucket[j]
  BY <1>1 DEF Holdings, Stored
<1>4. PICK b \in Holdings :
        /\ bucket' = b /\ \A j \in Keys \ {k} : b[j] = bucket[j]
        /\ b[k] # "none" => k \in stray'
        /\ stray \subseteq stray' /\ stray' \subseteq Keys
  <2>1. CASE bucket' = g /\ stray' = stray \cup {k}
    BY <1>1, <1>3, <2>1
  <2>2. CASE UNCHANGED <<bucket, stray>>
    BY <1>1, <2>2
  <2> QED BY <2>1, <2>2 DEF PutFails
<1> HIDE DEF c, g
<1>5. BackupHolds(c) /\ ReportHolds(c)
  BY <1>1, <1>2 DEF BackupHolds, ReportHolds
<1>6. k \notin command[o].imported
  BY <1>1 DEF ImportHolds
<1>7. ImportHolds(c, b)
  BY <1>1, <1>2, <1>4, <1>6 DEF ImportHolds, Commands
<1>8. Takes(o, c, b)
  BY <1>1, <1>2, <1>4 DEF Takes
<1> QED BY <1>1, <1>2, <1>4, <1>5, <1>7, <1>8, Moves

(* What is taken back was the command's.                                   *)
LEMMA TakeBackKeeps ==
  ASSUME Core, NEW o \in Operators, NEW k \in Keys, TakeBack(o, k)
  PROVE  Core'
<1> DEFINE c == [command[o] EXCEPT !.imported = @ \ {k}]
           e == [c EXCEPT !.own[k] = "none"]
           b == [bucket EXCEPT ![k] = "none"]
<1>1. /\ command[o] \in Commands /\ ImportHolds(command[o], bucket) /\ bucket \in Holdings
      /\ command[o].step = "cleanup" /\ k \in command[o].imported
      /\ UNCHANGED <<source, site, stray>> /\ faults' = faults /\ faults \in 0..MaxFaults
      /\ stray \subseteq Keys /\ Hold(o, c, k, "none")
      /\ command[o].name # "reconcile" \/ ~command[o].quiet
  BY ImportingIsNotReconciling DEF TakeBack, Core, Typed, bounds
<1>2. /\ c \in Commands /\ c.step = "cleanup" /\ c.name = command[o].name /\ c.rows = command[o].rows
      /\ c.imported = command[o].imported \ {k} /\ c.quiet = command[o].quiet
      /\ c.shared = command[o].shared /\ c.own = command[o].own /\ c.dir = command[o].dir
  BY <1>1 DEF Commands
<1>3. b \in Holdings /\ \A j \in Keys : b[j] = IF j = k THEN "none" ELSE bucket[j]
  BY <1>1 DEF Holdings, Stored
<1> HIDE DEF c, b
<1>4. CASE command[o].shared
  <2>1. command' = [command EXCEPT ![o] = c] /\ bucket' = b
    BY <1>1, <1>2, <1>4 DEF Hold, Set, b
  <2>2. BackupHolds(c) /\ ReportHolds(c)
    BY <1>1, <1>2 DEF BackupHolds, ReportHolds
  <2>3. ImportHolds(c, b)
    BY <1>1, <1>2, <1>3, <1>4 DEF ImportHolds, Commands
  <2>4. Takes(o, c, b)
    BY <1>1, <1>2, <1>3, <1>4 DEF Takes
  <2> QED BY <1>1, <1>2, <1>3, <2>1, <2>2, <2>3, <2>4, Moves
<1>5. CASE ~command[o].shared
  <2>1. command' = [command EXCEPT ![o] = e] /\ bucket' = bucket
    BY <1>1, <1>2, <1>5 DEF Hold, Set
  <2>2. /\ e \in Commands /\ e.step = "cleanup" /\ e.name = c.name /\ e.rows = c.rows
        /\ e.imported = c.imported /\ ~e.shared /\ e.quiet = c.quiet
        /\ \A j \in Keys \ {k} : e.own[j] = c.own[j]
    BY <1>2, <1>5 DEF Commands, Holdings, Stored
  <2> HIDE DEF e
  <2>3. BackupHolds(e) /\ ReportHolds(e)
    BY <1>1, <1>2, <2>2 DEF BackupHolds, ReportHolds
  <2>4. ImportHolds(e, bucket)
    BY <1>1, <1>2, <1>5, <2>2 DEF ImportHolds, Commands
  <2>5. Takes(o, e, bucket)
    BY <1>5, <2>2 DEF Takes
  <2> QED BY <1>1, <2>1, <2>2, <2>3, <2>4, <2>5, Moves
<1> QED BY <1>4, <1>5

(* What could not be taken back is stray.                                  *)
LEMMA TakeBackFailsKeeps ==
  ASSUME Core, NEW o \in Operators, NEW k \in Keys, TakeBackFails(o, k)
  PROVE  Core'
<1> DEFINE c == [command[o] EXCEPT !.imported = @ \ {k}]
<1>1. /\ command[o] \in Commands /\ ImportHolds(command[o], bucket) /\ bucket \in Holdings
      /\ command[o].step = "cleanup" /\ command[o].shared /\ k \in command[o].imported
      /\ command' = [command EXCEPT ![o] = c]
      /\ UNCHANGED <<source, site>> /\ bucket' = bucket /\ faults' \in 0..MaxFaults
      /\ stray \subseteq Keys /\ stray' = stray \cup {k}
      /\ command[o].name # "reconcile" \/ ~command[o].quiet
  BY ImportingIsNotReconciling, RecoveryAssumption DEF TakeBackFails, Core, Typed, Set
<1>2. /\ c \in Commands /\ c.step = "cleanup" /\ c.name = command[o].name /\ c.rows = command[o].rows
      /\ c.imported = command[o].imported \ {k} /\ c.quiet = command[o].quiet
      /\ c.shared = command[o].shared /\ c.own = command[o].own /\ c.dir = command[o].dir
  BY <1>1 DEF Commands
<1> HIDE DEF c
<1>3. BackupHolds(c) /\ ReportHolds(c)
  BY <1>1, <1>2 DEF BackupHolds, ReportHolds
<1>4. ImportHolds(c, bucket)
  BY <1>1, <1>2 DEF ImportHolds
<1>5. Takes(o, c, bucket)
  BY <1>1, <1>2 DEF Takes
<1> QED BY <1>1, <1>2, <1>3, <1>4, <1>5, Moves

(* A killed command's objects in a bucket are stray.                       *)
LEMMA CrashKeeps ==
  ASSUME Core, NEW o \in Operators, Crash(o)
  PROVE  Core'
<1>1. /\ command' = [command EXCEPT ![o] = AtRest]
      /\ UNCHANGED <<source, site>> /\ bucket' = bucket /\ faults' = faults
      /\ command[o] \in Commands /\ bucket \in Holdings /\ faults \in 0..MaxFaults
      /\ stray \subseteq Keys
      /\ stray' = IF command[o].shared THEN stray \cup command[o].imported ELSE stray
  BY DEF Crash, Finish, Set, Core, Typed
<1>2. command[o].imported \subseteq Keys
  BY <1>1 DEF Commands
<1>3. Takes(o, AtRest, bucket)
  BY <1>1, <1>2, IdleIsFine DEF Takes
<1> QED BY <1>1, <1>2, <1>3, IdleIsFine, Moves

(* The stage becomes the installation: what the command put is, from here, *)
(* what the installation names.                                            *)
LEMMA ActivateKeeps ==
  ASSUME Core, NEW o \in Operators, Activate(o)
  PROVE  Core'
<1> DEFINE c == command[o]
           d == c.dir
           new == [rows |-> c.rows, shared |-> c.shared, own |-> c.own, schema |-> c.schema]
<1>1. /\ c \in Commands /\ ImportHolds(c, bucket) /\ bucket \in Holdings
      /\ c.step = "rename" /\ faults' = faults
      /\ UNCHANGED <<source, bucket, stray>>
      /\ c.name # "reconcile" \/ ~c.quiet
  BY ImportingIsNotReconciling DEF Activate, Core, Typed, bounds
<1>2. CASE site[d] = Absent
  <2>1. site' = [site EXCEPT ![d] = new] /\ command' = [command EXCEPT ![o] = AtRest]
    BY <1>2 DEF Activate, Finish, Set
  <2>2. new \in Installations /\ new # Absent /\ d \in Dirs /\ new.rows = c.rows /\ new.shared = c.shared /\ new.own = c.own
    BY <1>1, RecoveryAssumption DEF Commands, Installations, Rows, Holdings, ImportHolds
  <2> HIDE DEF new
  <2>3. /\ site \in [Dirs -> Installations \cup {Absent}] /\ site' \in [Dirs -> Installations \cup {Absent}]
        /\ \A x \in Dirs : site'[x] = IF x = d THEN new ELSE site[x]
    BY <2>1, <2>2 DEF Core, Typed
  <2>4. /\ command' \in [Operators -> Commands] /\ command'[o] = AtRest
        /\ \A p \in Operators \ {o} : command'[p] = command[p]
    BY <2>1, IdleIsFine DEF Core, Typed
  <2>5. UNCHANGED <<rows, bytes, schema, binary, bucket, stray, faults>>
    BY <1>1 DEF source
  <2>6. Typed'
    BY <2>3, <2>4, <2>5 DEF Core, Typed
  <2>7. \A p \in Operators : /\ BackupHolds(command[p])' /\ ImportHolds(command[p], bucket)'
                             /\ ReportHolds(command[p])'
    <3> SUFFICES ASSUME NEW p \in Operators
                 PROVE  /\ BackupHolds(command'[p]) /\ ImportHolds(command'[p], bucket')
                        /\ ReportHolds(command'[p])
      BY <2>5 DEF ReportHolds
    <3> QED BY <2>4, <2>5, IdleIsFine DEF Core
  <2>8. Complete(c.rows) = c.imported
    BY <1>1 DEF ImportHolds
  <2>9. Apart'
    BY <2>2, <2>3, <2>4, <2>5, <2>8, IdleIsFine DEF Core, Apart
  <2>10. InstallationIsWhole'
    BY <1>1, <2>2, <2>3, <2>5, <2>8 DEF Core, InstallationIsWhole, ImportHolds, Complete
  <2>11. FailureLeavesNothing'
    <3> SUFFICES ASSUME NEW k \in Keys, bucket[k] # "none", k \notin stray
                 PROVE  \/ \E x \in Dirs : /\ site'[x] # Absent /\ site'[x].shared
                                           /\ k \in Complete(site'[x].rows)
                        \/ \E p \in Operators : command'[p].shared /\ k \in command'[p].imported
      BY <2>5 DEF FailureLeavesNothing
    <3>1. CASE c.shared /\ k \in c.imported
      <4>1. /\ site'[d] = new /\ new # Absent /\ d \in Dirs /\ new.shared = c.shared
            /\ Complete(new.rows) = c.imported
        BY <2>2, <2>3, <2>8
      <4>2. site'[d] # Absent /\ site'[d].shared /\ k \in Complete(site'[d].rows)
        BY <3>1, <4>1
      <4> QED BY <4>1, <4>2
    <3>2. CASE ~(c.shared /\ k \in c.imported)
      BY <1>2, <2>3, <2>4, <3>2 DEF Core, FailureLeavesNothing
    <3> QED BY <3>1, <3>2
  <2> QED BY <2>5, <2>6, <2>7, <2>9, <2>10, <2>11 DEF Core
<1>3. CASE site[d] # Absent
  <2>1. GoTo(o, "cleanup") /\ UNCHANGED site
    BY <1>3 DEF Activate
  <2> QED BY <1>1, <2>1, TurnKeeps
<1> QED BY <1>2, <1>3

(* What Prepare imports are versions of the export.                        *)
LEMMA PreparedIsExported ==
  ASSUME NEW e, NEW asked, Prepare(e, asked) # Invalid
  PROVE  Prepare(e, asked).versions \subseteq e.versions
<1> DEFINE ws == SelectWorkspaces(e.workspaces, asked)
           ps == IF ws = Invalid THEN Invalid ELSE SelectProjects(e.projects, ws)
           os == IF ps = Invalid THEN Invalid ELSE SelectObjects(e.objects, ws, ps)
           vs == IF os = Invalid THEN Invalid ELSE SelectVersions(e.versions, ws, ps, os)
<1>1. vs # Invalid /\ Prepare(e, asked).versions = vs
  BY DEF Prepare
<1>2. vs = SelectVersions(e.versions, ws, ps, os)
  BY <1>1
<1> HIDE DEF ws, ps, os
<1> QED BY <1>1, <1>2 DEF SelectVersions, Live

(* Waiting for an export, and taking its answer.                           *)
LEMMA PollExportKeeps ==
  ASSUME Core, NEW o \in Operators, PollExport(o)
  PROVE  Core'
<1>1. /\ command[o] \in Commands /\ ImportHolds(command[o], bucket)
      /\ command[o].name = "migrate" /\ command[o].step = "poll"
      /\ UNCHANGED <<source, site, bucket, stray>> /\ faults' = faults
  BY DEF PollExport, At, Core, Typed, bounds
<1>2. command[o].imported = {} /\ command[o].dir \in Dirs
  BY <1>1 DEF ImportHolds
<1> SUFFICES ASSUME NEW c \in Commands, command' = [command EXCEPT ![o] = c],
                    c.name = "migrate", c.imported = {}, c.dir \in Dirs,
                    c.step = "poll" \/ (c.step = "prepare" /\ c.export \in Exports)
             PROVE  Core'
  <2>1. CASE Finish(o)
    BY <1>1, <1>2, <2>1, Ends
  <2>2. CASE Set(o, [command[o] EXCEPT !.polls = @ + 1])
    <3> DEFINE c == [command[o] EXCEPT !.polls = @ + 1]
    <3>1. /\ c \in Commands /\ c.name = "migrate" /\ c.imported = {} /\ c.step = "poll"
          /\ c.dir \in Dirs
      BY <1>1, <1>2 DEF Commands
    <3> QED BY <2>2, <3>1 DEF Set
  <2>3. ASSUME NEW e \in Exports,
               Set(o, [command[o] EXCEPT !.step = "prepare", !.polls = 0, !.export = e])
        PROVE  Core'
    <3> DEFINE c == [command[o] EXCEPT !.step = "prepare", !.polls = 0, !.export = e]
    <3>1. /\ c \in Commands /\ c.name = "migrate" /\ c.imported = {} /\ c.step = "prepare"
          /\ c.dir \in Dirs /\ c.export = e
      BY <1>1, <1>2 DEF Commands
    <3> QED BY <2>3, <3>1 DEF Set
  <2> QED BY <2>1, <2>2, <2>3 DEF PollExport
<1>3. BackupHolds(c) /\ ImportHolds(c, bucket) /\ ReportHolds(c)
  BY DEF BackupHolds, ImportHolds, ReportHolds
<1> QED BY <1>1, <1>2, <1>3, Goes

(* The projected export is what is left to import.                         *)
LEMMA PrepareMigrationKeeps ==
  ASSUME Core, NEW o \in Operators, PrepareMigration(o)
  PROVE  Core'
<1> DEFINE e == command[o].export
           plan == Prepare(e, Asked)
           keys == {v.ref : v \in plan.versions}
           ok == SnapshotIsValid(plan)
           left == [k \in Keys |-> IF k \in keys THEN "complete" ELSE "none"]
           c == [command[o] EXCEPT !.step = "downloaded", !.export = Absent,
                                   !.todo = keys, !.clean = ok, !.rows = left]
<1>1. /\ command[o] \in Commands /\ ImportHolds(command[o], bucket)
      /\ command[o].name = "migrate" /\ command[o].step = "prepare"
      /\ UNCHANGED <<source, site, bucket, stray>> /\ faults' = faults
      /\ Finish(o) \/ (plan # Invalid /\ command' = [command EXCEPT ![o] = c])
  BY DEF PrepareMigration, At, Core, Typed, bounds, Set
<1>2. command[o].imported = {} /\ command[o].dir \in Dirs /\ e \in Exports
  BY <1>1 DEF ImportHolds
<1>3. CASE Finish(o)
  BY <1>1, <1>2, <1>3, Ends
<1>4. CASE plan # Invalid /\ command' = [command EXCEPT ![o] = c]
  <2>1. keys \subseteq Keys
    BY <1>2, <1>4, PreparedIsExported, RecoveryAssumption
  <2>2. ok \in BOOLEAN
    BY DEF SnapshotIsValid
  <2>3. left \in Rows /\ Complete(left) = keys
    BY <2>1 DEF Rows, States, Complete
  <2> HIDE DEF ok, left, keys
  <2>4. /\ c \in Commands /\ c.name = "migrate" /\ c.step = "downloaded" /\ c.imported = {}
        /\ c.dir \in Dirs /\ c.todo = keys /\ c.rows = left
    BY <1>1, <1>2, <2>1, <2>2, <2>3 DEF Commands
  <2>5. command' = [command EXCEPT ![o] = c]
    BY <1>4
  <2> HIDE DEF c
  <2>6. BackupHolds(c) /\ ImportHolds(c, bucket) /\ ReportHolds(c)
    BY <2>3, <2>4 DEF BackupHolds, ImportHolds, ReportHolds
  <2> QED BY <1>1, <1>2, <2>4, <2>5, <2>6, Goes
<1> QED BY <1>1, <1>3, <1>4

(* Listing the keys judges them against the rows listed before.            *)
LEMMA ReconcileKeysKeeps ==
  ASSUME Core, NEW o \in Operators, ReconcileKeys(o)
  PROVE  Core'
<1> DEFINE physical == {k \in Keys : bytes[k] # "none"}
           complete == Complete(command[o].rows)
           same == physical = complete
           c == [command[o] EXCEPT !.step = "observe", !.todo = complete \cap physical,
                                   !.clean = same]
<1>1. /\ command[o] \in Commands /\ ImportHolds(command[o], bucket) /\ ReportHolds(command[o])
      /\ command[o].name = "reconcile" /\ command[o].step = "keys"
      /\ UNCHANGED <<source, site, bucket, stray>> /\ faults' = faults
      /\ command' = [command EXCEPT ![o] = c]
  BY DEF ReconcileKeys, At, Core, Typed, bounds, Set
<1>2. command[o].imported = {}
  BY <1>1 DEF ImportHolds
<1>3. same \in BOOLEAN /\ complete \cap physical \subseteq Keys
  OBVIOUS
<1> HIDE DEF same, complete
<1>4. /\ c \in Commands /\ c.name = "reconcile" /\ c.step = "observe" /\ c.imported = {}
      /\ c.rows = command[o].rows /\ c.todo = complete \cap physical /\ c.clean = same
      /\ c.quiet = command[o].quiet
  BY <1>1, <1>2, <1>3 DEF Commands
<1> HIDE DEF c
<1>5. BackupHolds(c) /\ ImportHolds(c, bucket)
  BY <1>4 DEF BackupHolds, ImportHolds
<1>6. ReportHolds(c)
  BY <1>1, <1>4 DEF ReportHolds, same, complete
<1> QED BY <1>1, <1>2, <1>4, <1>5, <1>6, Goes

(* An object that is read is judged.                                       *)
LEMMA InspectCompleteKeeps ==
  ASSUME Core, NEW o \in Operators, NEW k \in Keys, InspectComplete(o, k)
  PROVE  Core'
<1> DEFINE ok == command[o].clean /\ bytes[k] = "right"
           c == [command[o] EXCEPT !.todo = @ \ {k}, !.clean = ok]
<1>1. /\ command[o] \in Commands /\ ImportHolds(command[o], bucket) /\ ReportHolds(command[o])
      /\ command[o].name = "reconcile" /\ command[o].step = "observe" /\ k \in command[o].todo
      /\ UNCHANGED <<source, site, bucket, stray>> /\ faults' = faults
      /\ command' = [command EXCEPT ![o] = c]
  BY DEF InspectComplete, At, Core, Typed, bounds, Set
<1>2. command[o].imported = {}
  BY <1>1 DEF ImportHolds
<1>3. ok \in BOOLEAN
  OBVIOUS
<1> HIDE DEF ok
<1>4. /\ c \in Commands /\ c.name = "reconcile" /\ c.step = "observe" /\ c.imported = {}
      /\ c.rows = command[o].rows /\ c.todo = command[o].todo \ {k} /\ c.clean = ok
      /\ c.quiet = command[o].quiet
  BY <1>1, <1>2, <1>3 DEF Commands
<1> HIDE DEF c
<1>5. BackupHolds(c) /\ ImportHolds(c, bucket)
  BY <1>4 DEF BackupHolds, ImportHolds
<1>6. ReportHolds(c)
  <2> DEFINE physical == {j \in Keys : bytes[j] # "none"}
             C == Complete(rows)
  <2> SUFFICES ASSUME c.quiet
               PROVE  /\ c.rows = rows
                      /\ c.todo \subseteq C \cap physical
                      /\ c.clean <=> /\ physical = C
                                     /\ \A j \in (C \cap physical) \ c.todo : bytes[j] = "right"
    BY <1>4 DEF ReportHolds
  <2>1. /\ command[o].rows = rows /\ command[o].todo \subseteq C \cap physical
        /\ command[o].clean <=> /\ physical = C
                                /\ \A j \in (C \cap physical) \ command[o].todo : bytes[j] = "right"
    BY <1>1, <1>4 DEF ReportHolds
  <2>2. ok <=> command[o].clean /\ bytes[k] = "right"
    BY DEF ok
  <2> HIDE DEF C, physical
  <2>3. k \in C \cap physical /\ (C \cap physical) \ c.todo = ((C \cap physical) \ command[o].todo) \cup {k}
    BY <1>1, <1>4, <2>1
  <2> QED BY <1>4, <2>1, <2>2, <2>3
<1> QED BY <1>1, <1>2, <1>4, <1>5, <1>6, Goes

(* Commands that end.                                                      *)
LEMMA EndKeeps ==
  ASSUME Core, NEW o \in Operators, BackupPersist(o) \/ ReconcileReport(o) \/ CleanedUp(o)
  PROVE  Core'
<1>1. /\ Finish(o) /\ UNCHANGED <<source, site, bucket, stray>> /\ faults' = faults
      /\ command[o].step \in {"copy", "observe"} \/ command[o].imported = {}
      /\ ImportHolds(command[o], bucket)
  BY DEF BackupPersist, ReconcileReport, CleanedUp, At, bounds, Core
<1>2. command[o].imported = {}
  BY <1>1 DEF ImportHolds
<1> QED BY <1>1, <1>2, Ends

(* Commands are as they were, but for what the server's steps tell them.   *)
LEMMA ServeKeeps ==
  ASSUME Core, NEW k \in Keys, NEW state \in States, NEW content \in Stored,
         Serve(k, state, content)
  PROVE  Core'
<1>1. /\ rows' \in Rows /\ bytes' \in Holdings
      /\ UNCHANGED <<schema, binary, site, bucket, stray, faults>>
  BY DEF Serve, Core, Typed, Rows, Holdings
<1>2. ASSUME NEW o \in Operators
      PROVE  /\ command'[o] \in Commands
             /\ command'[o].name = "reconcile" => ~command'[o].quiet
             /\ command'[o].imported = command[o].imported /\ command'[o].shared = command[o].shared
             /\ BackupHolds(command'[o]) /\ ImportHolds(command'[o], bucket)
  <2> DEFINE q == command[o].quiet /\ command[o].name # "reconcile"
             c == [command[o] EXCEPT !.quiet = q]
  <2>1. command'[o] = c /\ command[o] \in Commands
    BY DEF Serve, Core, Typed
  <2>2. q \in BOOLEAN
    OBVIOUS
  <2>3. q => command[o].name # "reconcile"
    OBVIOUS
  <2> HIDE DEF q
  <2>4. /\ c \in Commands /\ c.quiet = q /\ c.name = command[o].name /\ c.step = command[o].step
        /\ c.rows = command[o].rows /\ c.files = command[o].files /\ c.todo = command[o].todo
        /\ c.imported = command[o].imported /\ c.shared = command[o].shared
        /\ c.own = command[o].own /\ c.dir = command[o].dir /\ c.export = command[o].export
    BY <2>1, <2>2 DEF Commands
  <2> HIDE DEF c
  <2>5. BackupHolds(command[o]) /\ ImportHolds(command[o], bucket)
    BY DEF Core
  <2>6. BackupHolds(c)
    BY <2>4, <2>5 DEF BackupHolds
  <2>7. ImportHolds(c, bucket)
    BY <2>4, <2>5 DEF ImportHolds
  <2> QED BY <2>1, <2>3, <2>4, <2>6, <2>7
<1>3. command' \in [Operators -> Commands]
  <2>1. command' = [o \in Operators |-> command'[o]]
    BY DEF Serve
  <2> QED BY <1>2, <2>1
<1>4. \A o \in Operators : /\ BackupHolds(command[o])' /\ ImportHolds(command[o], bucket)'
                           /\ ReportHolds(command[o])'
  BY <1>1, <1>2 DEF ReportHolds
<1>5. Typed'
  BY <1>1, <1>3 DEF Core, Typed
<1>6. Apart' /\ InstallationIsWhole'
  BY <1>1, <1>2 DEF Core, Apart, InstallationIsWhole
<1>7. FailureLeavesNothing'
  BY <1>1, <1>2 DEF Core, FailureLeavesNothing
<1> QED BY <1>1, <1>4, <1>5, <1>6, <1>7 DEF Core

(* Steps of the binary and of the backup's medium.                         *)
LEMMA StillKeeps ==
  ASSUME Core, UNCHANGED <<rows, bytes, site, bucket, command, stray>>,
         faults' \in 0..MaxFaults, schema' \in 1..MaxSchema, binary' \in 1..MaxSchema,
         schema' <= binary'
  PROVE  Core'
<1>1. Typed'
  BY DEF Core, Typed
<1>2. \A o \in Operators : /\ BackupHolds(command[o])' /\ ImportHolds(command[o], bucket)'
                           /\ ReportHolds(command[o])'
  BY DEF Core, ReportHolds
<1>3. Apart' /\ InstallationIsWhole' /\ FailureLeavesNothing'
  BY DEF Core, Apart, InstallationIsWhole, FailureLeavesNothing
<1> QED BY <1>1, <1>2, <1>3 DEF Core

(* Every step keeps what is said of sites, bucket and commands.            *)
LEMMA CoreKept ==
  ASSUME Core, BackupSafe, [RecoveryNext]_(recoveryVars)
  PROVE  Core'
<1>0. /\ rows \in Rows /\ bytes \in Holdings /\ faults \in 0..MaxFaults
      /\ schema \in 1..MaxSchema /\ binary \in 1..MaxSchema /\ MaxSchema \in Nat /\ MaxFaults \in Nat
      /\ schema <= binary
  BY RecoveryAssumption DEF Core, Typed
<1>1. CASE ServerStep
  <2>1. PICK k \in Keys : \/ Reserve(k) \/ PutBytes(k) \/ CompleteUpload(k) \/ AbortUpload(k)
                          \/ DeleteBytes(k) \/ DeleteRow(k) \/ Damage(k)
    BY <1>1 DEF ServerStep
  <2>2. PICK state \in States, content \in Stored : Serve(k, state, content)
    <3>1. rows[k] \in States /\ bytes[k] \in Stored
      BY <1>0 DEF Rows, Holdings
    <3>2. /\ {"pending", "complete", "aborted", "none"} \subseteq States
          /\ {"none", "right", "wrong"} \subseteq Stored
      BY DEF States, Stored
    <3> QED BY <2>1, <3>1, <3>2
            DEF Reserve, PutBytes, CompleteUpload, AbortUpload, DeleteBytes, DeleteRow, Damage
  <2> QED BY <2>2, ServeKeeps
<1>2. CASE VersionStep
  <2>1. /\ UNCHANGED <<rows, bytes, site, bucket, command, stray>> /\ faults' = faults
        /\ schema' \in 1..MaxSchema /\ binary' \in 1..MaxSchema /\ schema' <= binary'
    <3>1. CASE Start
      BY <1>0, <3>1 DEF Start, bounds
    <3>2. CASE UpgradePreflight
      BY <1>0, <3>2 DEF UpgradePreflight, bounds
    <3>3. CASE RollbackPreflight
      BY <1>0, <3>3 DEF RollbackPreflight, bounds
    <3> QED BY <1>2, <3>1, <3>2, <3>3 DEF VersionStep
  <2> QED BY <1>0, <2>1, StillKeeps
<1>3. CASE FaultStep
  <2>1. ASSUME NEW k \in Keys, DamageBackup(k)
        PROVE  Core'
    BY <1>0, <2>1, StillKeeps DEF DamageBackup, source
  <2> QED BY <1>3, <2>1, PutFailsKeeps, TakeBackFailsKeeps, CrashKeeps DEF FaultStep
<1>4. ASSUME NEW o \in Operators, BeginStep(o) \/ CommandStep(o)
      PROVE  Core'
  <2>1. CASE BeginStep(o)
    BY <2>1, BackupBeginKeeps, ReconcileRowsKeeps, RestoreBeginKeeps, MigrateBeginKeeps DEF BeginStep
  <2>2. CASE CommandStep(o)
    BY <2>2, CopyObjectKeeps, InspectCompleteKeeps, PutObjectKeeps, TakeBackKeeps, EndKeeps,
       ReconcileKeysKeeps, PollExportKeeps, PrepareMigrationKeeps, LookingKeeps, ActivateKeeps
       DEF CommandStep
  <2> QED BY <1>4, <2>1, <2>2
<1>5. CASE UNCHANGED recoveryVars
  BY <1>0, <1>5, StillKeeps DEF recoveryVars, source, bounds
<1> QED BY <1>1, <1>2, <1>3, <1>4, <1>5 DEF RecoveryNext

(* The backup changes only when one is published, whole, or when its       *)
(* medium loses a file.                                                    *)
LEMMA PublishedWhole ==
  ASSUME Core, NEW o \in Operators, BackupPersist(o), BackupSafe
  PROVE  BackupSafe'
<1>1. /\ command[o] \in Commands /\ BackupHolds(command[o]) /\ command[o].step = "copy"
      /\ command[o].todo = {} /\ faults' = faults /\ faults \in 0..MaxFaults
  BY DEF BackupPersist, At, bounds, Core, Typed
<1>2. CASE backup # Absent
  BY <1>1, <1>2 DEF BackupPersist, BackupSafe, Published
<1>3. CASE backup = Absent
  <2> DEFINE new == [rows |-> command[o].rows, files |-> command[o].files,
                     schema |-> command[o].schema]
  <2>1. backup' = new
    BY <1>3 DEF BackupPersist
  <2>2. new \in Backups /\ new.rows = command[o].rows /\ new.files = command[o].files
    BY <1>1 DEF Commands, Backups
  <2> HIDE DEF new
  <2>3. Lost(new) = {} /\ \A k \in Keys : new.rows[k] # "pending"
    BY <1>1, <2>2 DEF BackupHolds, Lost
  <2>4. IsFiniteSet(Lost(new)) /\ Cardinality(Lost(new)) <= faults
    BY <1>1, <2>3, FS_EmptySet
  <2> QED BY <1>1, <2>1, <2>2, <2>3, <2>4 DEF BackupSafe, Published
<1> QED BY <1>2, <1>3

(* Each file the medium loses is a fault.                                  *)
LEMMA DamageCounted ==
  ASSUME Core, NEW k \in Keys, DamageBackup(k), BackupSafe
  PROVE  BackupSafe'
<1>1. /\ backup \in Backups /\ faults' = faults + 1 /\ faults \in 0..MaxFaults
      /\ \A j \in Keys : backup.rows[j] # "pending"
      /\ IsFiniteSet(Lost(backup)) /\ Cardinality(Lost(backup)) <= faults
  BY DEF DamageBackup, BackupSafe, Published, Core, Typed
<1>2. PICK c \in {"none", "wrong"} : backup' = [backup EXCEPT !.files[k] = c]
  BY DEF DamageBackup
<1>3. /\ backup' \in Backups /\ backup'.rows = backup.rows
      /\ \A j \in Keys : backup'.files[j] = IF j = k THEN c ELSE backup.files[j]
  BY <1>1, <1>2 DEF Backups, Holdings, Stored
<1>4. Lost(backup') = Lost(backup) \/ Lost(backup') = Lost(backup) \cup {k}
  BY <1>3 DEF Lost, Complete
<1>5. IsFiniteSet(Lost(backup')) /\ Cardinality(Lost(backup')) <= Cardinality(Lost(backup)) + 1
  <2> DEFINE L == Lost(backup)
  <2>1. IsFiniteSet(L) /\ Cardinality(L) \in Nat
    BY <1>1, FS_CardinalityType
  <2> HIDE DEF L
  <2>2. IsFiniteSet(L \cup {k}) /\ Cardinality(L \cup {k}) <= Cardinality(L) + 1
    <3>1. /\ IsFiniteSet(L \cup {k})
          /\ Cardinality(L \cup {k}) = IF k \in L THEN Cardinality(L) ELSE Cardinality(L) + 1
      BY <2>1, FS_AddElement, Zenon
    <3> QED BY <2>1, <3>1
  <2>3. Lost(backup') = L \/ Lost(backup') = L \cup {k}
    BY <1>4 DEF L
  <2>4. Cardinality(L) <= Cardinality(L) + 1
    BY <2>1
  <2>5. IsFiniteSet(Lost(backup')) /\ Cardinality(Lost(backup')) <= Cardinality(L) + 1
    BY <2>1, <2>2, <2>3, <2>4
  <2> QED BY <2>5 DEF L
<1>6. Cardinality(Lost(backup)) \in Nat /\ Cardinality(Lost(backup')) \in Nat
  BY <1>1, <1>5, FS_CardinalityType
<1> QED BY <1>1, <1>3, <1>5, <1>6 DEF BackupSafe, Published

LEMMA BackupKept ==
  ASSUME Core, BackupSafe, [RecoveryNext]_(recoveryVars)
  PROVE  BackupSafe'
<1>1. CASE backup' = backup /\ faults' \in {faults, faults + 1}
  <2>1. faults \in Nat /\ (IsFiniteSet(Lost(backup)) => Cardinality(Lost(backup)) \in Nat)
    BY FS_CardinalityType DEF Core, Typed
  <2> QED BY <1>1, <2>1 DEF BackupSafe, Published
<1>2. CASE \E k \in Keys : DamageBackup(k)
  BY <1>2, DamageCounted
<1>3. CASE \E o \in Operators : BackupPersist(o)
  BY <1>3, PublishedWhole
<1>4. \/ backup' = backup /\ faults' \in {faults, faults + 1}
      \/ \E k \in Keys : DamageBackup(k)
      \/ \E o \in Operators : BackupPersist(o)
  <2>1. CASE ServerStep
    BY <2>1 DEF ServerStep, Reserve, PutBytes, CompleteUpload, AbortUpload, DeleteBytes, DeleteRow,
                Damage, Serve
  <2>2. CASE VersionStep
    BY <2>2 DEF VersionStep, Start, UpgradePreflight, RollbackPreflight, bounds
  <2>3. CASE FaultStep
    BY <2>3 DEF FaultStep, PutFails, TakeBackFails, Crash
  <2>4. ASSUME NEW o \in Operators, BeginStep(o)
        PROVE  backup' = backup /\ faults' = faults
    BY <2>4 DEF BeginStep, BackupBegin, ReconcileRows, RestoreBegin, MigrateBegin
  <2>5. ASSUME NEW o \in Operators, CommandStep(o), ~BackupPersist(o)
        PROVE  backup' = backup /\ faults' = faults
    BY <2>5 DEF CommandStep, CopyObject, InspectComplete, PutObject, TakeBack, ReconcileKeys,
                ReconcileReport, PollExport, PrepareMigration, ImportBegin, RequireEmpty, Imported,
                Activate, CleanedUp, bounds
  <2>6. CASE UNCHANGED recoveryVars
    BY <2>6 DEF recoveryVars, bounds
  <2> QED BY <2>1, <2>2, <2>3, <2>4, <2>5, <2>6 DEF RecoveryNext
<1> QED BY <1>1, <1>2, <1>3, <1>4

-----------------------------------------------------------------------------
LEMMA InitHolds ==
  ASSUME RecoveryInit
  PROVE  RecoveryInv
<1>1. PICK S \in SUBSET Keys :
       LET r == [k \in Keys |-> IF k \in S THEN "complete" ELSE "none"]
           b == [k \in Keys |-> IF k \in S THEN "right" ELSE "none"]
       IN  \/ rows = r /\ bytes = b /\ backup = Absent
           \/ /\ rows = Nothing /\ bytes = Nothing
              /\ backup = [rows |-> r, files |-> b, schema |-> 1]
  BY DEF RecoveryInit
<1> DEFINE r == [k \in Keys |-> IF k \in S THEN "complete" ELSE "none"]
           b == [k \in Keys |-> IF k \in S THEN "right" ELSE "none"]
<1>2. r \in Rows /\ b \in Holdings /\ Nothing \in Rows /\ Nothing \in Holdings
  BY DEF Rows, Holdings, States, Stored, Nothing
<1>3. /\ site \in [Dirs -> Installations \cup {Absent}] /\ \A d \in Dirs : site[d] = Absent
      /\ command \in [Operators -> Commands] /\ \A o \in Operators : command[o] = AtRest
      /\ bucket = Nothing /\ stray = {} /\ faults = 0 /\ schema = 1 /\ binary = 1
  BY IdleIsFine DEF RecoveryInit
<1>4. MaxSchema \in Nat \ {0} /\ MaxFaults \in Nat
  BY RecoveryAssumption
<1>5. rows \in Rows /\ bytes \in Holdings
  BY <1>1, <1>2
<1>6. Typed
  BY <1>2, <1>3, <1>4, <1>5 DEF Typed
<1>7. \A o \in Operators : /\ BackupHolds(command[o]) /\ ImportHolds(command[o], bucket)
                           /\ ReportHolds(command[o])
  BY <1>3, IdleIsFine
<1>8. Apart /\ InstallationIsWhole /\ FailureLeavesNothing
  BY <1>3, IdleIsFine DEF Apart, InstallationIsWhole, FailureLeavesNothing, Nothing
<1>9. BackupSafe
  <2>1. CASE backup = Absent
    BY <2>1 DEF BackupSafe, Published
  <2>2. CASE backup = [rows |-> r, files |-> b, schema |-> 1]
    <3>1. backup \in Backups /\ backup.rows = r /\ backup.files = b
      BY <1>2, <2>2 DEF Backups
    <3>2. \A k \in Keys : r[k] # "pending" /\ (r[k] = "complete" => b[k] = "right")
      OBVIOUS
    <3>3. Lost(backup) = {} /\ \A k \in Keys : backup.rows[k] # "pending"
      BY <3>1, <3>2 DEF Lost, Complete
    <3>4. IsFiniteSet(Lost(backup)) /\ Cardinality(Lost(backup)) <= faults
      BY <1>3, <3>3, FS_EmptySet
    <3> QED BY <3>1, <3>3, <3>4 DEF BackupSafe, Published
  <2> QED BY <1>1, <2>1, <2>2
<1> QED BY <1>3, <1>6, <1>7, <1>8, <1>9 DEF RecoveryInv, Core

LEMMA InvKept ==
  ASSUME RecoveryInv, [RecoveryNext]_(recoveryVars)
  PROVE  RecoveryInv'
BY CoreKept, BackupKept DEF RecoveryInv

(* The ways back stay open: a published backup restores, but for what its  *)
(* medium lost, and whatever binaries the preflights let in open the       *)
(* schema they find.                                                       *)
THEOREM GoingBackIsSafeHolds == RecoverySpec => []GoingBackIsSafe
<1>1. RecoveryInv => GoingBackIsSafe
  <2> SUFFICES ASSUME RecoveryInv PROVE GoingBackIsSafe
    OBVIOUS
  <2>1. BackupIsWhole
    BY DEF RecoveryInv, BackupSafe, Published, BackupIsWhole, Lost
  <2>2. RecoveryTypeOK
    BY DEF RecoveryInv, Core, Typed, RecoveryTypeOK, Commands, Rows, Holdings
  <2> QED BY <2>1, <2>2 DEF RecoveryInv, Core, GoingBackIsSafe, BinaryOpensSchema
<1> QED BY <1>1, RecoveryAssumption, InitHolds, InvKept, PTL DEF RecoverySpec

(* What an export's projection selects.                                    *)
LEMMA PlanSelects ==
  ASSUME NEW e, NEW asked, Prepare(e, asked) # Invalid
  PROVE  LET plan == Prepare(e, asked)
             ws == plan.workspaces
             ps == plan.projects
             vs == plan.versions
             os == SelectObjects(e.objects, ws, ps)
         IN  /\ ws # {} /\ ws = {w \in Live(e.workspaces) : asked = {} \/ w.ref \in asked}
             /\ ps = {p \in Live(e.projects) : \E w \in ws : w.ref = p.ws}
             /\ os = {o \in Live(e.objects) : /\ \E w \in ws : w.ref = o.ws
                                              /\ \E p \in ps : p.ref = o.project}
             /\ vs = {v \in Live(e.versions) : v.status = "ready" /\ \E o \in os : o.ref = v.object}
             /\ \A v \in vs, o \in os : o.ref = v.object => VersionRelates(v, o, ws, ps)
             /\ plan.shares = SelectShares(e.shares, ws, vs)
             /\ plan.retention = SelectRetention(e.retention, ps)
<1> DEFINE plan == Prepare(e, asked)
           ws == SelectWorkspaces(e.workspaces, asked)
           ps == IF ws = Invalid THEN Invalid ELSE SelectProjects(e.projects, ws)
           os == IF ps = Invalid THEN Invalid ELSE SelectObjects(e.objects, ws, ps)
           vs == IF os = Invalid THEN Invalid ELSE SelectVersions(e.versions, ws, ps, os)
<1>1. /\ vs # Invalid
      /\ plan.workspaces = ws /\ plan.projects = ps /\ plan.versions = vs
      /\ plan.shares = SelectShares(e.shares, ws, vs)
      /\ plan.retention = SelectRetention(e.retention, ps)
  BY DEF Prepare
<1>2. /\ ws # Invalid /\ ps # Invalid /\ os # Invalid
      /\ ps = SelectProjects(e.projects, ws)
      /\ os = SelectObjects(e.objects, ws, ps)
      /\ vs = SelectVersions(e.versions, ws, ps, os)
  BY <1>1
<1>3. ws # {} /\ ws = {w \in Live(e.workspaces) : asked = {} \/ w.ref \in asked}
  BY <1>2 DEF SelectWorkspaces
<1> HIDE DEF ws
<1>4. ps = {p \in Live(e.projects) : \E w \in ws : w.ref = p.ws}
  BY <1>2 DEF SelectProjects
<1> HIDE DEF ps
<1>5. os = {o \in Live(e.objects) : /\ \E w \in ws : w.ref = o.ws
                                    /\ \E p \in ps : p.ref = o.project}
  BY <1>2 DEF SelectObjects
<1> HIDE DEF os
<1>6. /\ vs = {v \in Live(e.versions) : v.status = "ready" /\ \E o \in os : o.ref = v.object}
      /\ \A v \in vs, o \in os : o.ref = v.object => VersionRelates(v, o, ws, ps)
  BY <1>1, <1>2 DEF SelectVersions
<1> HIDE DEF vs, plan
<1> QED BY <1>1, <1>2, <1>3, <1>4, <1>5, <1>6 DEF plan

(* What is selected is what is live, with all that it refers to.           *)
LEMMA MigrationCloses == MigrationIsClosed
<1> SUFFICES ASSUME NEW e, Prepare(e, Asked) # Invalid
    PROVE  LET plan == Prepare(e, Asked)
               LiveWs(w) == /\ Asked = {} \/ w \in Asked
                            /\ \E x \in e.workspaces : x.ref = w /\ ~x.deleted
               LiveProject(p) == \E x \in e.projects : x.ref = p /\ ~x.deleted /\ LiveWs(x.ws)
               LiveObject(b) == \E x \in e.objects :
                 x.ref = b /\ ~x.deleted /\ LiveWs(x.ws) /\ LiveProject(x.project)
           IN  /\ {v.ref : v \in plan.versions} =
                    {v.ref : v \in {x \in e.versions :
                       ~x.deleted /\ x.status = "ready" /\ LiveObject(x.object)}}
               /\ SnapshotIsValid(plan)
               /\ \A s \in plan.shares : s.address =>
                    \E x \in e.shares : x.ref = s.ref /\ x.status = "active"
  BY DEF MigrationIsClosed
<1> DEFINE plan == Prepare(e, Asked)
           ws == plan.workspaces
           ps == plan.projects
           vs == plan.versions
           os == SelectObjects(e.objects, ws, ps)
           LiveWs(w) == /\ Asked = {} \/ w \in Asked
                        /\ \E x \in e.workspaces : x.ref = w /\ ~x.deleted
           LiveProject(p) == \E x \in e.projects : x.ref = p /\ ~x.deleted /\ LiveWs(x.ws)
           LiveObject(b) == \E x \in e.objects :
             x.ref = b /\ ~x.deleted /\ LiveWs(x.ws) /\ LiveProject(x.project)
<1>1. /\ ws # {} /\ ws = {w \in Live(e.workspaces) : Asked = {} \/ w.ref \in Asked}
      /\ ps = {p \in Live(e.projects) : \E w \in ws : w.ref = p.ws}
      /\ os = {o \in Live(e.objects) : /\ \E w \in ws : w.ref = o.ws
                                       /\ \E p \in ps : p.ref = o.project}
      /\ vs = {v \in Live(e.versions) : v.status = "ready" /\ \E o \in os : o.ref = v.object}
      /\ \A v \in vs, o \in os : o.ref = v.object => VersionRelates(v, o, ws, ps)
      /\ plan.shares = SelectShares(e.shares, ws, vs)
      /\ plan.retention = SelectRetention(e.retention, ps)
  BY PlanSelects
<1> HIDE DEF plan, os
<1>2. \A w : LiveWs(w) <=> \E x \in ws : x.ref = w
  BY <1>1 DEF Live
<1>3. \A p : LiveProject(p) <=> \E x \in ps : x.ref = p
  <2> HIDE DEF LiveWs
  <2> QED BY <1>1, <1>2 DEF Live
<1>4. \A b : LiveObject(b) <=> \E x \in os : x.ref = b
  <2> HIDE DEF LiveWs, LiveProject
  <2> QED BY <1>1, <1>2, <1>3 DEF Live
<1>5. vs = {x \in e.versions : ~x.deleted /\ x.status = "ready" /\ LiveObject(x.object)}
  <2> HIDE DEF LiveObject
  <2> QED BY <1>1, <1>4 DEF Live
<1>6. SnapshotIsValid(plan)
  <2>1. \A p \in ps : \E w \in ws : w.ref = p.ws
    BY <1>1
  <2>2. \A v \in vs : \E p \in ps : p.ref = v.project
    <3> SUFFICES ASSUME NEW v \in vs PROVE \E p \in ps : p.ref = v.project
      OBVIOUS
    <3>1. PICK o \in os : o.ref = v.object
      BY <1>1
    <3>2. VersionRelates(v, o, ws, ps)
      BY <1>1, <3>1
    <3> QED BY <3>2 DEF VersionRelates
  <2>3. \A h \in plan.shares : \E v \in vs : v.ref = h.version
    BY <1>1 DEF SelectShares
  <2>4. \A r \in plan.retention : \E p \in ps : p.ref = r.project
    BY <1>1 DEF SelectRetention
  <2> QED BY <1>1, <2>1, <2>2, <2>3, <2>4 DEF SnapshotIsValid
<1>7. \A s \in plan.shares : s.address => \E x \in e.shares : x.ref = s.ref /\ x.status = "active"
  <2> SUFFICES ASSUME NEW s \in SelectShares(e.shares, ws, vs), s.address
               PROVE  \E x \in e.shares : x.ref = s.ref /\ x.status = "active"
    BY <1>1
  <2>1. PICK x \in e.shares :
          s = [ref |-> x.ref, version |-> x.version, status |-> ShareStatus(x.status),
               address |-> x.status = "active"]
    BY DEF SelectShares
  <2>2. s.ref = x.ref /\ (s.address <=> x.status = "active")
    BY <2>1, Zenon
  <2> QED BY <2>2
<1> QED BY <1>5, <1>6, <1>7 DEF plan

(* A restore or a migration that ends has made a whole installation of     *)
(* what it was given, or has taken back what it put, whatever shares its   *)
(* bucket, fails or is killed (recovery_restore.rs,                        *)
(* hosted_migration_import.rs).                                            *)
THEOREM InstallationsAreWholeHolds == RecoverySpec => []InstallationsAreWhole
<1>1. RecoveryInv => InstallationsAreWhole
  BY MigrationCloses DEF RecoveryInv, Core, InstallationsAreWhole
<1> QED BY <1>1, RecoveryAssumption, InitHolds, InvKept, PTL DEF RecoverySpec

(* A report on an installation nobody wrote to meanwhile is clean exactly  *)
(* when rows and bytes agree (reconciliation.rs).                          *)
THEOREM ReportIsExactHolds == RecoverySpec => []ReportIsExact
<1>1. RecoveryInv => ReportIsExact
  <2> SUFFICES ASSUME RecoveryInv, NEW o \in Operators, At(o, "reconcile", "observe"),
                      command[o].todo = {}, command[o].quiet
               PROVE  command[o].clean <=>
                        \A k \in Keys : bytes[k] = IF rows[k] = "complete" THEN "right" ELSE "none"
    BY DEF ReportIsExact, ReportIsExact
  <2>1. command[o].clean <=>
          /\ {k \in Keys : bytes[k] # "none"} = Complete(rows)
          /\ \A k \in Complete(rows) \cap {k \in Keys : bytes[k] # "none"} : bytes[k] = "right"
    BY DEF RecoveryInv, Core, ReportHolds, At
  <2> QED BY <2>1 DEF Complete
<1> QED BY <1>1, RecoveryAssumption, InitHolds, InvKept, PTL DEF RecoverySpec
=============================================================================
