------------------------- MODULE YardDeploysProofs --------------------------
(***************************************************************************)
(* Theorems about YardDeploys, for any number of yards, deploys, uploads   *)
(* and requests and any history depth: the stable host answers, only a     *)
(* newer deploy takes it by finalising, and the history keeps what it      *)
(* should and no more.                                                     *)
(***************************************************************************)
EXTENDS YardDeploys, FiniteSetTheorems, FunctionTheorems, TLAPS

Own(d) == {v \in Versions : v[1] = d}

(* A deploy with what it was finalised with and its cleanup plan: files    *)
(* are the deploy's own, a plan comes with pruning and covers what was     *)
(* served, and what is served is stored.                                   *)
RowHolds(d, it, m, plan) ==
  /\ it \in DeployRows /\ m \in SUBSET Own(d) /\ plan \in Plans
  /\ it.files \subseteq Own(d) /\ plan.items \subseteq Own(d)
  /\ it.status = "none" <=> it.yard = None
  /\ it.status \in {"live", "superseded"} =>
       /\ it.finalised
       /\ it.files = m \ taken
       /\ it.files \subseteq bytes
       /\ \A v \in it.files : row[v] = "complete"
  /\ it.status \in {"none", "uploading", "failed"} => ~ it.finalised /\ it.files = {} /\ m = {}
  /\ it.status = "pruned" => it.files = {} /\ m \subseteq plan.items \cup taken
  /\ it.status # "pruned" => plan.status = "none"

RowsHold == \A d \in Deploys : RowHolds(d, deploy[d], manifest[d], cleanup[d])

(* A version that is there has its bytes, unless its deploy's plan is at   *)
(* them, and one that an operator deleted never comes back.                *)
VersionsHold ==
  \A v \in Versions :
    /\ row[v] = "complete" =>
         v \in bytes \/ (cleanup[v[1]].status = "pending" /\ v \in cleanup[v[1]].items)
    /\ v \in taken => row[v] = "gone"

(* A yard's current deploy is its live one, and a yard of which a deploy   *)
(* was finalised has one.                                                  *)
YardHolds(y) ==
  /\ yard[y].status # "active" => yard[y].current = None
  /\ yard[y].status = "none" => Of(y) = {}
  /\ yard[y].status = "deleted" => \A d \in Of(y) : deploy[d].status = "pruned"
  /\ yard[y].current # None => deploy[yard[y].current].yard = y /\ deploy[yard[y].current].status = "live"
  /\ \A d \in Of(y) :
       /\ deploy[d].status = "live" => yard[y].current = d
       /\ deploy[d].finalised /\ yard[y].status = "active" => yard[y].current # None

YardsHold == \A y \in Yards : YardHolds(y)

CallHolds(it) ==
  /\ it.step # "idle" => it.deploy \in Deploys /\ it.yard \in Yards
  /\ it.step = "finalise" => deploy[it.deploy].yard = it.yard /\ it.files \subseteq Own(it.deploy)

CallsHold == \A h \in Handlers : CallHolds(handler[h])

Typed ==
  /\ yard \in [Yards -> YardRows]
  /\ deploy \in [Deploys -> DeployRows]
  /\ row \in [Versions -> {"none", "complete", "gone"}]
  /\ bytes \subseteq Versions
  /\ cleanup \in [Deploys -> Plans]
  /\ manifest \in [Deploys -> SUBSET Versions]
  /\ taken \subseteq Versions
  /\ handler \in [Handlers -> Calls]

IInv == Typed /\ RowsHold /\ VersionsHold /\ YardsHold /\ CallsHold /\ HistoryBounded

LEMMA IInvImplies == IInv => TypeOK /\ AliasServes /\ HistoryIsKept
<1> SUFFICES ASSUME IInv PROVE TypeOK /\ AliasServes /\ HistoryIsKept
  OBVIOUS
<1>1. TypeOK
  BY DEF IInv, Typed, RowsHold, RowHolds, TypeOK
<1>2. AliasServes
  <2> SUFFICES ASSUME NEW y \in Yards, yard[y].status = "active", NEW x \in Of(y), deploy[x].finalised
               PROVE  /\ StableDeploy(y) # {}
                      /\ {d \in Of(y) : deploy[d].status = "live"} = StableDeploy(y)
    BY DEF AliasServes
  <2> DEFINE c == yard[y].current
  <2>1. YardHolds(y)
    BY DEF IInv, YardsHold
  <2>2. c # None /\ c \in Deploys \cup {None}
    BY <2>1 DEF YardHolds, IInv, Typed, YardRows
  <2>3. c \in Of(y) /\ deploy[c].status = "live"
    BY <2>1, <2>2 DEF YardHolds, Of
  <2>4. c \in StableDeploy(y)
    BY <2>3 DEF StableDeploy
  <2>5. \A d \in Of(y) : deploy[d].status = "live" => d \in StableDeploy(y)
    BY <2>1 DEF YardHolds, StableDeploy
  <2>6. StableDeploy(y) \subseteq {d \in Of(y) : deploy[d].status = "live"}
    BY DEF StableDeploy
  <2> QED BY <2>4, <2>5, <2>6
<1>3. RetainedFilesStay
  BY DEF IInv, RowsHold, RowHolds, RetainedFilesStay, ImmutableDeploys, Of
<1>4. PrunedIsScheduled
  <2> SUFFICES ASSUME NEW d \in Deploys
               PROVE  /\ deploy[d].status = "pruned" => manifest[d] \subseteq cleanup[d].items \cup taken
                      /\ deploy[d].status # "none" /\ yard[deploy[d].yard].status = "deleted" =>
                           deploy[d].status = "pruned"
    BY DEF PrunedIsScheduled
  <2>1. RowHolds(d, deploy[d], manifest[d], cleanup[d])
    BY DEF IInv, RowsHold
  <2>2. ASSUME deploy[d].status # "none" PROVE deploy[d].yard \in Yards /\ d \in Of(deploy[d].yard)
    BY <2>1, <2>2 DEF RowHolds, DeployRows, Of
  <2> QED BY <2>1, <2>2 DEF RowHolds, IInv, YardsHold, YardHolds
<1> QED BY <1>1, <1>2, <1>3, <1>4 DEF HistoryIsKept, IInv

-----------------------------------------------------------------------------
(* What every step has to show.                                            *)

LEMMA DeployNumbers ==
  /\ Deploys \subseteq Nat /\ Yards \subseteq Nat /\ None \notin Deploys /\ None \notin Yards
  /\ IsFiniteSet(Deploys) /\ HistoryDepth \in Nat \ {0}
<1>1. MaxDeploys \in Nat /\ MaxYards \in Nat /\ HistoryDepth \in Nat \ {0}
  BY YardDeploysAssumption
<1>2. IsFiniteSet(1..MaxDeploys)
  BY <1>1, FS_Interval
<1> QED BY <1>1, <1>2 DEF Deploys, Yards, None

Settled == {"live", "failed", "superseded"}
Kept(y) == {d \in Of(y) : deploy[d].status \in Settled}

LEMMA KeptFits ==
  ASSUME HistoryBounded, NEW y \in Yards
  PROVE  IsFiniteSet(Kept(y)) /\ Cardinality(Kept(y)) \in Nat /\ Cardinality(Kept(y)) <= HistoryDepth
<1>1. Kept(y) \in SUBSET Deploys
  BY DEF Kept, Of
<1>2. Kept(y) = {d \in Of(y) : deploy[d].status \in {"live", "failed", "superseded"}}
  BY DEF Kept, Settled
<1> QED BY <1>1, <1>2, DeployNumbers, FS_Subset, FS_CardinalityType DEF HistoryBounded

(* A history that grows nowhere stays within its depth.                    *)
LEMMA FewerKept ==
  ASSUME HistoryBounded, \A y \in Yards : Kept(y)' \subseteq Kept(y)
  PROVE  HistoryBounded'
<1> SUFFICES ASSUME NEW y \in Yards PROVE Cardinality(Kept(y)') <= HistoryDepth
  BY DEF HistoryBounded, Kept, Settled, Of
<1>1. /\ IsFiniteSet(Kept(y)) /\ Cardinality(Kept(y)) \in Nat
      /\ Cardinality(Kept(y)) <= HistoryDepth
  BY KeptFits
<1>2. Kept(y)' \in SUBSET Kept(y)
  OBVIOUS
<1> DEFINE K == Kept(y)'
<1>3. IsFiniteSet(K) /\ Cardinality(K) <= Cardinality(Kept(y))
  <2> HIDE DEF K
  <2>1. K \in SUBSET Kept(y)
    BY <1>2 DEF K
  <2> QED BY <1>1, <2>1, FS_Subset
<1>4. Cardinality(K) \in Nat
  <2> HIDE DEF K
  <2> QED BY <1>3, FS_CardinalityType
<1>5. HistoryDepth \in Nat
  BY DeployNumbers
<1> HIDE DEF K
<1>6. Cardinality(K) <= HistoryDepth
  BY <1>1, <1>3, <1>4, <1>5
<1> QED BY <1>6 DEF K

(* Requests in flight stay true: a deploy never changes its yard.          *)
LEMMA CallsFollow ==
  ASSUME IInv, handler' \in [Handlers -> Calls],
         \A h \in Handlers : handler'[h] = handler[h] \/ handler'[h] = Idle,
         \A d \in Deploys : deploy[d].yard # None => deploy'[d].yard = deploy[d].yard
  PROVE  CallsHold'
<1> SUFFICES ASSUME NEW h \in Handlers PROVE CallHolds(handler[h])'
  BY DEF CallsHold
<1>1. CallHolds(handler[h])
  BY DEF IInv, CallsHold
<1>2. CASE handler'[h] = Idle
  BY <1>2 DEF CallHolds, Idle
<1>3. CASE handler'[h] = handler[h]
  BY <1>1, <1>3, DeployNumbers DEF CallHolds
<1> QED BY <1>2, <1>3

LEMMA IdleIsCall == Idle \in Calls /\ Idle.step = "idle"
  BY DEF Idle, Calls

(* Steps that only move a request.                                         *)
LEMMA CallKeeps ==
  ASSUME IInv, NEW h \in Handlers, NEW r \in Calls, CallHolds(r),
         handler' = [handler EXCEPT ![h] = r],
         UNCHANGED <<yard, deploy, row, bytes, cleanup, manifest, taken>>
  PROVE  IInv'
<1>1. handler \in [Handlers -> Calls]
  BY DEF IInv, Typed
<1>2. handler' \in [Handlers -> Calls]
      /\ \A k \in Handlers : handler'[k] = r \/ handler'[k] = handler[k]
  BY <1>1
<1>3. Typed'
  BY <1>2 DEF IInv, Typed
<1>4. CallsHold'
  BY <1>2 DEF IInv, CallsHold, CallHolds
<1>5. RowsHold' /\ VersionsHold' /\ YardsHold' /\ HistoryBounded'
  BY DEF IInv, RowsHold, RowHolds, VersionsHold, YardsHold, YardHolds, Of, HistoryBounded
<1> QED BY <1>3, <1>4, <1>5 DEF IInv

-----------------------------------------------------------------------------
(* Pruning.                                                                *)

(* The newest n of a set of deploys are no more than n: each has a place   *)
(* of its own below n.                                                     *)
LEMMA NewestAreFew ==
  ASSUME NEW S \in SUBSET Deploys, NEW n \in Nat
  PROVE  LET T == {d \in S : Cardinality({e \in S : Newer(e, d)}) < n} IN
         IsFiniteSet(T) /\ Cardinality(T) <= n
<1> DEFINE Over(d) == {e \in S : Newer(e, d)}
           T == {d \in S : Cardinality(Over(d)) < n}
           f == [d \in T |-> Cardinality(Over(d))]
<1>1. IsFiniteSet(S) /\ S \subseteq Nat
  BY DeployNumbers, FS_Subset
<1>2. \A d \in S : IsFiniteSet(Over(d)) /\ Cardinality(Over(d)) \in Nat
  BY <1>1, FS_Subset, FS_CardinalityType
<1>3. ASSUME NEW d \in S, NEW e \in S, d > e PROVE Cardinality(Over(d)) # Cardinality(Over(e))
  <2>1. Over(d) \in SUBSET Over(e)
    <3> SUFFICES ASSUME NEW x \in S, x > d PROVE x > e
      BY DEF Newer
    <3>1. x \in Nat /\ d \in Nat /\ e \in Nat
      BY <1>1
    <3> QED BY <1>3, <3>1
  <2>2. d \in Over(e) /\ d \notin Over(d)
    BY <1>1, <1>3 DEF Newer
  <2>3. IsFiniteSet(Over(e)) /\ Over(d) # Over(e)
    BY <1>2, <2>2
  <2> HIDE DEF Over
  <2> QED BY <2>1, <2>3, FS_Subset
<1>4. f \in Injection(T, 0..(n - 1))
  <2>1. \A d \in T : Cardinality(Over(d)) \in 0..(n - 1)
    BY <1>2
  <2>2. \A d, e \in T : Cardinality(Over(d)) = Cardinality(Over(e)) => d = e
    <3> TAKE d, e \in T
    <3>1. d \in S /\ e \in S /\ d \in Nat /\ e \in Nat
      BY <1>1
    <3>2. d > e \/ e > d \/ d = e
      BY <3>1
    <3> HIDE DEF Over
    <3> QED BY <1>3, <3>1, <3>2
  <2> QED BY <2>1, <2>2 DEF Injection, IsInjective
<1>5. IsFiniteSet(0..(n - 1)) /\ Cardinality(0..(n - 1)) = n
  <2>1. 0 \in Int /\ n - 1 \in Int /\ (n - 1) - 0 + 1 = n /\ (0 > n - 1 => n = 0)
    OBVIOUS
  <2> QED BY <2>1, FS_Interval
<1>6. IsFiniteSet(T) /\ Cardinality(T) <= n
  <2> HIDE DEF T, f
  <2> QED BY <1>4, <1>5, FS_Injection
<1> QED BY <1>6

(* prune leaves no more settled deploys than the history is deep.          *)
LEMMA SurplusLeavesFew ==
  ASSUME NEW table, NEW y \in Yards, NEW current \in Deploys \cup {None}
  PROVE  LET left == {d \in Of(y) \ Surplus(table, y, current) : table[d].status \in Settled} IN
         IsFiniteSet(left) /\ Cardinality(left) <= HistoryDepth
<1> DEFINE S == Of(y) \ {current}
           n == IF current = None THEN HistoryDepth ELSE HistoryDepth - 1
           T == {d \in S : Cardinality({e \in S : Newer(e, d)}) < n}
           left == {d \in Of(y) \ Surplus(table, y, current) : table[d].status \in Settled}
<1>1. S \in SUBSET Deploys /\ n \in Nat /\ HistoryDepth \in Nat
  BY DeployNumbers DEF Of
<1>2. IsFiniteSet(T) /\ Cardinality(T) <= n
  BY <1>1, NewestAreFew
<1>3. \A d \in S : Cardinality({e \in S : Newer(e, d)}) \in Nat
  <2> TAKE d \in S
  <2>1. IsFiniteSet(S) /\ {e \in S : Newer(e, d)} \in SUBSET S
    BY <1>1, DeployNumbers, FS_Subset
  <2> QED BY <2>1, FS_Subset, FS_CardinalityType
<1>4. \A d \in left : d \in T \/ d = current
  <2> SUFFICES ASSUME NEW d \in Of(y), d \notin Surplus(table, y, current),
                      table[d].status \in Settled, d # current
               PROVE  d \in T
    OBVIOUS
  <2> DEFINE rank == Cardinality({e \in S : Newer(e, d)})
  <2>1. d \in S /\ ~ (rank >= n)
    BY DEF Surplus, Settled
  <2>2. rank \in Nat
    BY <1>3, <2>1
  <2>3. rank < n
    <3> HIDE DEF rank, n
    <3> QED BY <1>1, <2>1, <2>2
  <2> QED BY <2>1, <2>3
<1>5. Cardinality(T) \in Nat
  BY <1>2, FS_CardinalityType
<1>6. CASE current = None
  <2>1. None \notin Of(y)
    BY DeployNumbers DEF Of
  <2>2. left \in SUBSET T
    BY <1>4, <1>6, <2>1
  <2>3. IsFiniteSet(left) /\ Cardinality(left) <= Cardinality(T)
    <3> HIDE DEF left, T
    <3> QED BY <1>2, <2>2, FS_Subset
  <2>4. Cardinality(left) \in Nat
    <3> HIDE DEF left
    <3> QED BY <2>3, FS_CardinalityType
  <2>5. n = HistoryDepth
    BY <1>6
  <2> HIDE DEF left, T, n
  <2>6. Cardinality(left) <= HistoryDepth
    BY <1>1, <1>2, <1>5, <2>3, <2>4, <2>5
  <2> QED BY <2>3, <2>6 DEF left
<1>7. CASE current # None
  <2>1. left \in SUBSET (T \cup {current})
    BY <1>4
  <2>2. n + 1 = HistoryDepth
    BY <1>1, <1>7
  <2>3. IsFiniteSet(T \cup {current}) /\ Cardinality(T \cup {current}) <= n + 1
        /\ Cardinality(T \cup {current}) \in Nat
    <3> HIDE DEF T, n
    <3>1. /\ IsFiniteSet(T \cup {current})
          /\ Cardinality(T \cup {current}) = IF current \in T THEN Cardinality(T) ELSE Cardinality(T) + 1
      BY <1>2, FS_AddElement
    <3> QED BY <1>1, <1>2, <1>5, <3>1
  <2> HIDE DEF left, T, n
  <2>4. IsFiniteSet(left) /\ Cardinality(left) <= Cardinality(T \cup {current})
    BY <2>1, <2>3, FS_Subset
  <2>5. Cardinality(left) \in Nat
    BY <2>4, FS_CardinalityType
  <2>6. Cardinality(left) <= HistoryDepth
    BY <1>1, <2>2, <2>3, <2>4, <2>5
  <2> QED BY <2>4, <2>6 DEF left
<1> QED BY <1>6, <1>7

(* One deploy is pruned: its plan covers what it served.                   *)
LEMMA PruneRow ==
  ASSUME NEW d, NEW it, NEW m, NEW plan, RowHolds(d, it, m, plan),
         it.status \notin {"none", "pruned"},
         NEW new \in Plans,
         it.files = {} => new = plan,
         it.files # {} => new.items = {v \in it.files : row[v] = "complete"}
  PROVE  RowHolds(d, [it EXCEPT !.status = "pruned", !.files = {}], m, new)
<1> DEFINE r == [it EXCEPT !.status = "pruned", !.files = {}]
<1>1. it \in DeployRows
  BY DEF RowHolds
<1>2. r \in DeployRows /\ r.status = "pruned" /\ r.files = {} /\ r.yard = it.yard
  BY <1>1 DEF DeployRows
<1> HIDE DEF r
<1>3. it.status \in {"uploading", "failed", "live", "superseded"}
  BY <1>1 DEF DeployRows
<1>4. new.items \subseteq Own(d) /\ m \subseteq new.items \cup taken
  <2>1. CASE it.status \in {"uploading", "failed"}
    BY <2>1 DEF RowHolds
  <2>2. CASE it.status \in {"live", "superseded"}
    BY <2>2 DEF RowHolds
  <2> QED BY <1>3, <2>1, <2>2
<1>5. it.yard # None
  BY DEF RowHolds
<1>6. RowHolds(d, r, m, new)
  BY <1>2, <1>4, <1>5 DEF RowHolds
<1> QED BY <1>6 DEF r

(* What pruning makes of a table: the deploys that go lose their files to  *)
(* plans, the others stay as the transaction left them.                    *)
LEMMA PruneKeeps ==
  ASSUME IInv, NEW table, NEW gone \in SUBSET Deploys, MarkPruned(table, gone),
         UNCHANGED <<row, bytes, taken>>,
         \A d \in Deploys : RowHolds(d, table[d], manifest'[d], cleanup[d]),
         \A d \in gone : table[d].status \notin {"none", "pruned"}
  PROVE  /\ RowsHold' /\ VersionsHold'
         /\ deploy' \in [Deploys -> DeployRows] /\ cleanup' \in [Deploys -> Plans]
         /\ \A d \in Deploys :
              /\ deploy'[d].yard = table[d].yard /\ deploy'[d].finalised = table[d].finalised
              /\ deploy'[d].status = IF d \in gone THEN "pruned" ELSE table[d].status
<1>1. /\ deploy' = [d \in Deploys |-> deploy'[d]] /\ cleanup' = [d \in Deploys |-> cleanup'[d]]
      /\ \A d \in Deploys :
           /\ deploy'[d] = IF d \in gone THEN [table[d] EXCEPT !.status = "pruned", !.files = {}]
                           ELSE table[d]
           /\ cleanup'[d] = IF d \in gone /\ cleanup[d].status = "none" /\ table[d].files # {}
                              THEN [status |-> "pending", items |-> CleanupItems(table, d)]
                              ELSE cleanup[d]
  BY DEF MarkPruned
<1>2. ASSUME NEW d \in Deploys
      PROVE  /\ RowHolds(d, deploy'[d], manifest'[d], cleanup'[d])
             /\ deploy'[d].yard = table[d].yard /\ deploy'[d].finalised = table[d].finalised
             /\ deploy'[d].status = IF d \in gone THEN "pruned" ELSE table[d].status
             /\ cleanup'[d] = cleanup[d] \/ cleanup[d].status = "none"
  <2> DEFINE it == table[d]
             new == cleanup'[d]
  <2>1. RowHolds(d, it, manifest'[d], cleanup[d])
    OBVIOUS
  <2>2. it \in DeployRows /\ cleanup[d] \in Plans
    BY <2>1 DEF RowHolds
  <2>3. CASE d \notin gone
    BY <1>1, <2>1, <2>3
  <2>4. CASE d \in gone
    <3>1. it.status \notin {"none", "pruned"} /\ cleanup[d].status = "none"
      BY <2>1, <2>4 DEF RowHolds
    <3>2. CleanupItems(table, d) = {v \in it.files : row[v] = "complete"}
      <4>1. \A v \in it.files : \A e \in Deploys \ {d} : v \notin table[e].files
        BY DEF RowHolds, Own
      <4> QED BY <4>1 DEF CleanupItems
    <3>3. {v \in it.files : row[v] = "complete"} \in SUBSET Versions
      BY <2>2 DEF DeployRows
    <3>4. /\ it.files = {} => new = cleanup[d]
          /\ it.files # {} => new = [status |-> "pending", items |-> {v \in it.files : row[v] = "complete"}]
      BY <1>1, <2>4, <3>1, <3>2
    <3>5. /\ new \in Plans
          /\ it.files # {} => new.items = {v \in it.files : row[v] = "complete"}
      BY <2>2, <3>3, <3>4 DEF Plans
    <3>6. deploy'[d] = [it EXCEPT !.status = "pruned", !.files = {}]
      BY <1>1, <2>4
    <3>7. RowHolds(d, deploy'[d], manifest'[d], new)
      <4> DEFINE m == manifest'[d]
                 plan == cleanup[d]
      <4>1. RowHolds(d, it, m, plan)
        BY <2>1
      <4>2. it.files = {} => new = plan
        BY <3>4
      <4> HIDE DEF it, new, m, plan
      <4>3. RowHolds(d, [it EXCEPT !.status = "pruned", !.files = {}], m, new)
        BY <3>1, <3>5, <4>1, <4>2, PruneRow
      <4> QED BY <3>6, <4>3 DEF m
    <3>8. deploy'[d].yard = it.yard /\ deploy'[d].finalised = it.finalised /\ deploy'[d].status = "pruned"
      BY <2>2, <3>6 DEF DeployRows
    <3> QED BY <2>4, <3>1, <3>7, <3>8
  <2> QED BY <2>3, <2>4
<1>3. RowsHold'
  BY <1>2 DEF RowsHold, RowHolds
<1>4. deploy' \in [Deploys -> DeployRows] /\ cleanup' \in [Deploys -> Plans]
  <2>1. \A d \in Deploys : deploy'[d] \in DeployRows /\ cleanup'[d] \in Plans
    BY <1>2 DEF RowHolds
  <2> QED BY <1>1, <2>1
<1>5. VersionsHold'
  <2>1. \A v \in Versions : v[1] \in Deploys
    BY DEF Versions
  <2> QED BY <1>2, <2>1 DEF IInv, VersionsHold
<1> QED BY <1>2, <1>3, <1>4, <1>5

LEMMA PrunedIsBounded ==
  ASSUME HistoryBounded, NEW table, NEW y \in Yards, NEW current \in Deploys \cup {None},
         \A d \in Deploys :
           /\ deploy'[d].yard = deploy[d].yard
           /\ deploy'[d].status = IF d \in Surplus(table, y, current) THEN "pruned" ELSE table[d].status
           /\ d \notin Of(y) => (table[d].status \in Settled => deploy[d].status \in Settled)
  PROVE  HistoryBounded'
<1> SUFFICES ASSUME NEW x \in Yards PROVE Cardinality(Kept(x)') <= HistoryDepth
  BY DEF HistoryBounded, Kept, Settled, Of
<1> DEFINE K == Kept(x)'
<1>1. K = {d \in Of(x) : deploy'[d].status \in Settled}
  BY DEF Kept, Of
<1>2. \A d : d \in Surplus(table, y, current) => d \in Of(y)
  BY DEF Surplus
<1>3. HistoryDepth \in Nat
  BY DeployNumbers
<1>4. CASE x = y
  <2> DEFINE left == {d \in Of(y) \ Surplus(table, y, current) : table[d].status \in Settled}
  <2>1. IsFiniteSet(left) /\ Cardinality(left) <= HistoryDepth
    BY SurplusLeavesFew
  <2>2. K \in SUBSET left
    BY <1>1, <1>4 DEF Of, Settled
  <2> HIDE DEF K, left
  <2>3. IsFiniteSet(K) /\ Cardinality(K) <= Cardinality(left)
    BY <2>1, <2>2, FS_Subset
  <2>4. Cardinality(K) \in Nat /\ Cardinality(left) \in Nat
    BY <2>1, <2>3, FS_CardinalityType
  <2>5. Cardinality(K) <= HistoryDepth
    BY <1>3, <2>1, <2>3, <2>4
  <2> QED BY <2>5 DEF K
<1>5. CASE x # y
  <2>1. K \in SUBSET Kept(x)
    BY <1>1, <1>2, <1>5 DEF Kept, Of
  <2>2. IsFiniteSet(Kept(x)) /\ Cardinality(Kept(x)) \in Nat /\ Cardinality(Kept(x)) <= HistoryDepth
    BY KeptFits
  <2> HIDE DEF K
  <2>3. IsFiniteSet(K) /\ Cardinality(K) <= Cardinality(Kept(x))
    BY <2>1, <2>2, FS_Subset
  <2>4. Cardinality(K) \in Nat
    BY <2>3, FS_CardinalityType
  <2>5. Cardinality(K) <= HistoryDepth
    BY <1>3, <2>2, <2>3, <2>4
  <2> QED BY <2>5 DEF K
<1> QED BY <1>4, <1>5

-----------------------------------------------------------------------------
(* Finalising.                                                             *)

LEMMA FinaliseKeeps ==
  ASSUME IInv, NEW h \in Handlers, FinaliseDeploy(h),
         NEW d, d = handler[h].deploy, NEW y, y = handler[h].yard,
         NEW files, files = handler[h].files
  PROVE  IInv'
<1> DEFINE status == PromoteStatus(d)
           old == yard[y].current
           current == IF status = "live" THEN d ELSE old
           table == Finalised(d, status, files)
           gone == Surplus(table, y, current)
<1>1. /\ yard[y].status = "active" /\ deploy[d].status = "uploading"
      /\ \A v \in files : row[v] = "complete"
      /\ yard' = [yard EXCEPT ![y].current = current]
      /\ MarkPruned(table, gone)
      /\ manifest' = [manifest EXCEPT ![d] = files]
      /\ handler' = [handler EXCEPT ![h] = Idle]
      /\ UNCHANGED <<row, bytes, taken>>
  BY DEF FinaliseDeploy, Done
<1>2. d \in Deploys /\ y \in Yards /\ deploy[d].yard = y /\ files \subseteq Own(d)
  BY DEF IInv, CallsHold, CallHolds, FinaliseDeploy
<1>3. status \in {"live", "superseded"} /\ current \in Deploys \cup {None} /\ old \in Deploys \cup {None}
  BY <1>2 DEF PromoteStatus, IInv, Typed, YardRows
<1>4. YardHolds(y) /\ old # d /\ (old # None => deploy[old].yard = y /\ deploy[old].status = "live")
  <2>1. YardHolds(y)
    BY <1>2 DEF IInv, YardsHold
  <2>2. old # None => deploy[old].yard = y /\ deploy[old].status = "live"
    BY <2>1 DEF YardHolds
  <2> QED BY <1>1, <1>2, <2>1, <2>2, DeployNumbers
<1>5. status = "superseded" => old # None
  <2> SUFFICES ASSUME status = "superseded" PROVE old # None
    OBVIOUS
  <2>1. \E e \in Of(y) : deploy[e].finalised
    BY <1>2 DEF PromoteStatus
  <2> QED BY <1>1, <1>4, <2>1 DEF YardHolds
<1>6. \A e \in Deploys :
        /\ e = d => table[e] = [deploy[d] EXCEPT !.status = status, !.finalised = TRUE, !.files = files]
        /\ e # d /\ status = "live" /\ e = old =>
             table[e] = [deploy[e] EXCEPT !.status = "superseded"]
        /\ e # d /\ ~ (status = "live" /\ e = old) => table[e] = deploy[e]
  <2> TAKE e \in Deploys
  <2>1. table[e] =
          IF e = d THEN [deploy[d] EXCEPT !.status = status, !.finalised = TRUE, !.files = files]
          ELSE IF status = "live" /\ e = old /\ deploy[e].status = "live"
                 THEN [deploy[e] EXCEPT !.status = "superseded"]
          ELSE deploy[e]
    BY <1>2 DEF Finalised
  <2>2. e = old => deploy[e].status = "live"
    BY <1>4, DeployNumbers
  <2> HIDE DEF table, status, old
  <2> QED BY <2>1, <2>2
<1>7. \A e \in Deploys : RowHolds(e, deploy[e], manifest[e], cleanup[e])
  BY DEF IInv, RowsHold
<1> HIDE DEF table, status
<1>8. \A e \in Deploys : RowHolds(e, table[e], manifest'[e], cleanup[e])
  <2> TAKE e \in Deploys
  <2>1. manifest'[d] = files /\ (e # d => manifest'[e] = manifest[e])
    BY <1>1, <1>2 DEF IInv, Typed
  <2>2. CASE e = d
    <3>1. RowHolds(d, deploy[d], manifest[d], cleanup[d]) /\ deploy[d] \in DeployRows
          /\ cleanup[d].status = "none"
      BY <1>1, <1>2, <1>7 DEF RowHolds
    <3>2. files \in SUBSET Versions /\ files \cap taken = {} /\ files \subseteq bytes
      BY <1>1, <1>2, <3>1 DEF IInv, VersionsHold, Own
    <3> DEFINE r == [deploy[d] EXCEPT !.status = status, !.finalised = TRUE, !.files = files]
    <3>3. r \in DeployRows /\ r.status = status /\ r.finalised /\ r.files = files
          /\ r.yard = deploy[d].yard
      BY <1>3, <3>1, <3>2 DEF DeployRows
    <3> HIDE DEF r
    <3>4. files = files \ taken
      BY <3>2
    <3>5. RowHolds(d, r, files, cleanup[d])
      BY <1>1, <1>2, <1>3, <3>1, <3>2, <3>3, <3>4, DeployNumbers DEF RowHolds
    <3> QED BY <1>6, <2>1, <2>2, <3>5 DEF r
  <2>3. CASE e # d /\ status = "live" /\ e = old
    <3> DEFINE r == [deploy[e] EXCEPT !.status = "superseded"]
    <3>1. RowHolds(e, deploy[e], manifest[e], cleanup[e]) /\ deploy[e].status = "live"
      BY <1>4, <1>7, <2>3, DeployNumbers
    <3>2. r \in DeployRows /\ r.status = "superseded" /\ r.finalised = deploy[e].finalised
          /\ r.files = deploy[e].files /\ r.yard = deploy[e].yard
      BY <3>1 DEF RowHolds, DeployRows
    <3> HIDE DEF r
    <3>3. RowHolds(e, r, manifest[e], cleanup[e])
      BY <3>1, <3>2 DEF RowHolds
    <3> QED BY <1>6, <2>1, <2>3, <3>3 DEF r
  <2>4. CASE e # d /\ ~ (status = "live" /\ e = old)
    BY <1>6, <1>7, <2>1, <2>4
  <2> QED BY <2>2, <2>3, <2>4
<1>9. \A e \in Deploys :
        /\ table[e].yard = deploy[e].yard
        /\ e # d => table[e].finalised = deploy[e].finalised
        /\ e # d => table[e].status =
             IF status = "live" /\ e = old THEN "superseded" ELSE deploy[e].status
        /\ e = d => table[e].status = status
  <2> TAKE e \in Deploys
  <2>1. deploy[e] \in DeployRows
    BY <1>7 DEF RowHolds
  <2>2. CASE e = d
    <3>1. table[e] = [deploy[e] EXCEPT !.status = status, !.finalised = TRUE, !.files = files]
      BY <1>6, <2>2
    <3> QED BY <2>1, <2>2, <3>1 DEF DeployRows
  <2>3. CASE e # d /\ status = "live" /\ e = old
    <3>1. table[e] = [deploy[e] EXCEPT !.status = "superseded"]
      BY <1>6, <2>3
    <3> QED BY <2>1, <2>3, <3>1 DEF DeployRows
  <2>4. CASE e # d /\ ~ (status = "live" /\ e = old)
    BY <1>6, <2>4
  <2> QED BY <2>2, <2>3, <2>4
<1>10. gone \in SUBSET Deploys /\ gone \subseteq Of(y) \ {current}
       /\ \A e \in gone : table[e].status \notin {"none", "pruned"}
  BY DEF Surplus, Of
<1> HIDE DEF gone
<1>11. /\ RowsHold' /\ VersionsHold'
       /\ deploy' \in [Deploys -> DeployRows] /\ cleanup' \in [Deploys -> Plans]
       /\ \A e \in Deploys :
            /\ deploy'[e].yard = table[e].yard /\ deploy'[e].finalised = table[e].finalised
            /\ deploy'[e].status = IF e \in gone THEN "pruned" ELSE table[e].status
  BY <1>1, <1>8, <1>10, PruneKeeps
<1>12. /\ yard' \in [Yards -> YardRows] /\ yard'[y].status = "active" /\ yard'[y].current = current
       /\ \A x \in Yards : x # y => yard'[x] = yard[x]
  <2> DEFINE r == [yard[y] EXCEPT !.current = current]
  <2>1. yard[y] \in YardRows
    BY <1>2 DEF IInv, Typed
  <2>2. r \in YardRows /\ r.status = "active" /\ r.current = current
    BY <1>1, <1>3, <2>1 DEF YardRows
  <2>3. yard' = [yard EXCEPT ![y] = r]
    BY <1>1
  <2> HIDE DEF r, current
  <2> QED BY <1>2, <2>2, <2>3 DEF IInv, Typed
<1>13. Typed'
  <2>1. manifest' \in [Deploys -> SUBSET Versions]
    BY <1>1, <1>2 DEF IInv, Typed, Own
  <2>2. handler' \in [Handlers -> Calls]
    BY <1>1, IdleIsCall DEF IInv, Typed
  <2> QED BY <1>1, <1>11, <1>12, <2>1, <2>2 DEF IInv, Typed
<1>14. \A x \in Yards : Of(x)' = Of(x)
  BY <1>9, <1>11 DEF Of
<1>15. YardsHold'
  <2> SUFFICES ASSUME NEW x \in Yards PROVE YardHolds(x)'
    BY DEF YardsHold
  <2>1. CASE x = y
    <3>1. current # None /\ current \in Of(y) /\ current \notin gone /\ table[current].status = "live"
      BY <1>2, <1>3, <1>4, <1>5, <1>9, <1>10, DeployNumbers DEF Of
    <3>2. deploy'[current].yard = y /\ deploy'[current].status = "live"
      BY <1>9, <1>11, <3>1 DEF Of
    <3>3. \A e \in Of(y) : deploy'[e].status = "live" => e = current
      <4> TAKE e \in Of(y)
      <4>1. e \in Deploys
        BY DEF Of
      <4>2. deploy'[e].status = "live" => table[e].status = "live"
        BY <1>11, <4>1
      <4>3. CASE e = d
        BY <1>9, <4>1, <4>2, <4>3
      <4>4. CASE e # d
        BY <1>3, <1>4, <1>9, <4>1, <4>2, <4>4 DEF YardHolds
      <4> QED BY <4>3, <4>4
    <3> HIDE DEF current
    <3>4. Of(x)' = Of(x)
      BY <1>14
    <3> QED BY <1>12, <2>1, <3>1, <3>2, <3>3, <3>4 DEF YardHolds
  <2>2. CASE x # y
    <3>1. YardHolds(x) /\ yard'[x] = yard[x] /\ Of(x)' = Of(x) /\ x # None
      BY <1>12, <1>14, <2>2, DeployNumbers DEF IInv, YardsHold
    <3>2. \A e \in Of(x) : e # d /\ e # old /\ e \notin gone /\ e \in Deploys
      BY <1>2, <1>4, <1>10, <2>2, DeployNumbers DEF Of
    <3>3. \A e \in Of(x) : deploy'[e].status = deploy[e].status
                           /\ deploy'[e].finalised = deploy[e].finalised
      BY <1>9, <1>11, <3>2
    <3>4. ASSUME yard[x].current # None
          PROVE  deploy'[yard[x].current].yard = x /\ deploy'[yard[x].current].status = "live"
      <4>1. yard[x].current \in Of(x)
        BY <3>1, <3>4 DEF YardHolds, Of, IInv, Typed, YardRows
      <4> QED BY <1>9, <1>11, <3>1, <3>3, <3>4, <4>1 DEF YardHolds, Of
    <3> QED BY <3>1, <3>3, <3>4 DEF YardHolds
  <2> QED BY <2>1, <2>2
<1>16. CallsHold'
  <2>1. \A k \in Handlers : handler'[k] = handler[k] \/ handler'[k] = Idle
    BY <1>1 DEF IInv, Typed
  <2> QED BY <1>9, <1>11, <1>13, <2>1, CallsFollow DEF Typed
<1>17. HistoryBounded'
  <2>1. \A e \in Deploys : e \notin Of(y) => (table[e].status \in Settled => deploy[e].status \in Settled)
    BY <1>2, <1>4, <1>9, DeployNumbers DEF Of, Settled
  <2>2. \A e \in Deploys :
          /\ deploy'[e].yard = deploy[e].yard
          /\ deploy'[e].status = IF e \in Surplus(table, y, current) THEN "pruned" ELSE table[e].status
          /\ e \notin Of(y) => (table[e].status \in Settled => deploy[e].status \in Settled)
    BY <1>9, <1>11, <2>1 DEF gone
  <2>3. HistoryBounded
    BY DEF IInv
  <2> HIDE DEF current
  <2> QED BY <1>2, <1>3, <2>2, <2>3, PrunedIsBounded
<1> QED BY <1>11, <1>13, <1>15, <1>16, <1>17 DEF IInv

-----------------------------------------------------------------------------
(* Failing, rolling back and deleting a yard.                              *)

LEMMA FailKeeps ==
  ASSUME IInv, NEW d \in Deploys, FailDeploy(d)
  PROVE  IInv'
<1> DEFINE y == deploy[d].yard
           r == [deploy[d] EXCEPT !.status = "failed"]
           table == [deploy EXCEPT ![d].status = "failed"]
           current == yard[deploy[d].yard].current
           gone == Surplus(table, y, current)
<1>1. /\ deploy[d].status = "uploading" /\ MarkPruned(table, gone)
      /\ UNCHANGED <<yard, row, bytes, manifest, taken, handler>>
  BY DEF FailDeploy
<1>2. \A e \in Deploys : RowHolds(e, deploy[e], manifest[e], cleanup[e])
  BY DEF IInv, RowsHold
<1>3. y \in Yards /\ current \in Deploys \cup {None} /\ deploy[d] \in DeployRows
  <2>1. deploy[d] \in DeployRows /\ y # None
    BY <1>1, <1>2 DEF RowHolds
  <2>2. y \in Yards
    BY <2>1 DEF DeployRows
  <2> QED BY <2>1, <2>2 DEF IInv, Typed, YardRows
<1>4. table[d] = r /\ \A e \in Deploys : e # d => table[e] = deploy[e]
  BY DEF IInv, Typed
<1>5. r \in DeployRows /\ r.status = "failed" /\ r.yard = y /\ r.finalised = deploy[d].finalised
      /\ r.files = deploy[d].files
  BY <1>3 DEF DeployRows
<1> HIDE DEF table, r
<1>6. \A e \in Deploys : RowHolds(e, table[e], manifest[e], cleanup[e])
  <2>1. RowHolds(d, r, manifest[d], cleanup[d])
    BY <1>1, <1>2, <1>5 DEF RowHolds
  <2> QED BY <1>2, <1>4, <2>1
<1>7. gone \in SUBSET Deploys /\ gone \subseteq Of(y) \ {current}
      /\ \A e \in gone : table[e].status \notin {"none", "pruned"}
  BY DEF Surplus, Of
<1> HIDE DEF gone
<1>8. /\ RowsHold' /\ VersionsHold'
      /\ deploy' \in [Deploys -> DeployRows] /\ cleanup' \in [Deploys -> Plans]
      /\ \A e \in Deploys :
           /\ deploy'[e].yard = table[e].yard /\ deploy'[e].finalised = table[e].finalised
           /\ deploy'[e].status = IF e \in gone THEN "pruned" ELSE table[e].status
  BY <1>1, <1>6, <1>7, PruneKeeps
<1>9. \A e \in Deploys :
        /\ deploy'[e].yard = deploy[e].yard /\ deploy'[e].finalised = deploy[e].finalised
        /\ deploy'[e].status = IF e \in gone THEN "pruned"
                               ELSE IF e = d THEN "failed" ELSE deploy[e].status
  BY <1>4, <1>5, <1>8
<1>10. Typed' /\ CallsHold'
  <2>1. Typed'
    BY <1>1, <1>8 DEF IInv, Typed
  <2> QED BY <1>1, <1>9, <2>1, CallsFollow DEF Typed
<1>11. YardsHold'
  <2> SUFFICES ASSUME NEW x \in Yards PROVE YardHolds(x)'
    BY DEF YardsHold
  <2> DEFINE c == yard[x].current
  <2>1. YardHolds(x) /\ yard'[x] = yard[x] /\ Of(x)' = Of(x)
    BY <1>1, <1>9 DEF IInv, YardsHold, Of
  <2>2. ASSUME c # None PROVE deploy'[c].yard = x /\ deploy'[c].status = "live"
    <3>1. c \in Deploys /\ deploy[c].yard = x /\ deploy[c].status = "live"
      BY <2>1, <2>2 DEF YardHolds, IInv, Typed, YardRows
    <3>2. c # d /\ c \notin gone
      BY <1>1, <1>7, <3>1 DEF Of
    <3> QED BY <1>9, <3>1, <3>2
  <2>3. \A e \in Of(x) : /\ deploy'[e].finalised = deploy[e].finalised
                         /\ deploy'[e].status = "live" => deploy[e].status = "live"
                         /\ deploy[e].status = "pruned" => deploy'[e].status = "pruned"
    BY <1>1, <1>9 DEF Of
  <2> QED BY <2>1, <2>2, <2>3 DEF YardHolds
<1>12. HistoryBounded'
  <2>1. \A e \in Deploys :
          /\ deploy'[e].yard = deploy[e].yard
          /\ deploy'[e].status = IF e \in Surplus(table, y, current) THEN "pruned" ELSE table[e].status
          /\ e \notin Of(y) => (table[e].status \in Settled => deploy[e].status \in Settled)
    BY <1>4, <1>8, <1>9 DEF gone, Of
  <2>2. HistoryBounded
    BY DEF IInv
  <2> HIDE DEF current, y
  <2> QED BY <1>3, <2>1, <2>2, PrunedIsBounded
<1> QED BY <1>8, <1>10, <1>11, <1>12 DEF IInv

LEMMA DeleteYardKeeps ==
  ASSUME IInv, NEW y \in Yards, DeleteYard(y)
  PROVE  IInv'
<1> DEFINE gone == {d \in Of(y) : deploy[d].status # "pruned"}
           r == [status |-> "deleted", current |-> None]
<1>1. /\ yard[y].status = "active" /\ yard' = [yard EXCEPT ![y] = r]
      /\ MarkPruned(deploy, gone)
      /\ UNCHANGED <<row, bytes, manifest, taken, handler>>
  BY DEF DeleteYard
<1>2. \A e \in Deploys : RowHolds(e, deploy[e], manifest[e], cleanup[e])
  BY DEF IInv, RowsHold
<1>3. gone \in SUBSET Deploys /\ \A e \in gone : deploy[e].status \notin {"none", "pruned"}
  <2>1. \A e \in Of(y) : deploy[e].status # "none"
    BY <1>2, DeployNumbers DEF Of, RowHolds
  <2> QED BY <2>1 DEF Of
<1> HIDE DEF gone
<1>4. /\ RowsHold' /\ VersionsHold'
      /\ deploy' \in [Deploys -> DeployRows] /\ cleanup' \in [Deploys -> Plans]
      /\ \A e \in Deploys :
           /\ deploy'[e].yard = deploy[e].yard /\ deploy'[e].finalised = deploy[e].finalised
           /\ deploy'[e].status = IF e \in gone THEN "pruned" ELSE deploy[e].status
  BY <1>1, <1>2, <1>3, PruneKeeps
<1>5. r \in YardRows /\ r.status = "deleted" /\ r.current = None
  BY DEF YardRows
<1> HIDE DEF r
<1>6. yard' \in [Yards -> YardRows] /\ yard'[y] = r /\ \A x \in Yards : x # y => yard'[x] = yard[x]
  BY <1>1, <1>5 DEF IInv, Typed
<1>7. Typed' /\ CallsHold'
  <2>1. Typed'
    BY <1>1, <1>4, <1>6 DEF IInv, Typed
  <2> QED BY <1>1, <1>4, <2>1, CallsFollow DEF Typed
<1>8. \A x \in Yards : Of(x)' = Of(x)
  BY <1>4 DEF Of
<1>9. YardsHold'
  <2> SUFFICES ASSUME NEW x \in Yards PROVE YardHolds(x)'
    BY DEF YardsHold
  <2>1. CASE x = y
    <3>1. \A e \in Of(y) : deploy'[e].status = "pruned"
      BY <1>4 DEF Of, gone
    <3> QED BY <1>5, <1>6, <1>8, <2>1, <3>1 DEF YardHolds
  <2>2. CASE x # y
    <3>1. YardHolds(x) /\ yard'[x] = yard[x] /\ Of(x)' = Of(x)
      BY <1>6, <1>8, <2>2 DEF IInv, YardsHold
    <3>2. \A e \in Of(x) : e \notin gone /\ e \in Deploys
      BY <2>2 DEF gone, Of
    <3>3. yard[x].current # None => yard[x].current \in Of(x)
      BY <3>1 DEF YardHolds, Of, IInv, Typed, YardRows
    <3> QED BY <1>4, <3>1, <3>2, <3>3 DEF YardHolds
  <2> QED BY <2>1, <2>2
<1>10. HistoryBounded'
  <2>1. \A x \in Yards : Kept(x)' \subseteq Kept(x)
    BY <1>4, <1>8 DEF Kept, Settled, Of
  <2> QED BY <2>1, FewerKept DEF IInv
<1> QED BY <1>4, <1>7, <1>9, <1>10 DEF IInv

LEMMA RollbackKeeps ==
  ASSUME IInv, NEW h \in Handlers, Rollback(h),
         NEW d, d = handler[h].deploy, NEW y, y = handler[h].yard
  PROVE  IInv'
<1> DEFINE old == yard[y].current
           up == [deploy[d] EXCEPT !.status = "live"]
           r == [yard[y] EXCEPT !.current = d]
<1>1. /\ yard[y].status = "active" /\ d \in RollbackTargets(y)
      /\ yard' = [yard EXCEPT ![y] = r] /\ handler' = [handler EXCEPT ![h] = Idle]
      /\ UNCHANGED <<row, bytes, cleanup, manifest, taken>>
  BY DEF Rollback, Done
<1>2. /\ y \in Yards /\ d \in Deploys /\ deploy[d].yard = y /\ deploy[d].status = "superseded"
      /\ old # d
  <2>1. y \in Yards /\ d \in Deploys
    BY DEF IInv, CallsHold, CallHolds, Rollback
  <2> QED BY <1>1, <2>1 DEF RollbackTargets, Of
<1>3. YardHolds(y) /\ (old # None => deploy[old].yard = y /\ deploy[old].status = "live")
  <2>1. YardHolds(y)
    BY <1>2 DEF IInv, YardsHold
  <2> QED BY <2>1 DEF YardHolds
<1>4. \A e \in Deploys : RowHolds(e, deploy[e], manifest[e], cleanup[e]) /\ deploy[e] \in DeployRows
  BY DEF IInv, RowsHold, RowHolds
<1>5. \A e \in Deploys :
        deploy'[e] = IF e = d THEN [deploy[e] EXCEPT !.status = "live"]
                     ELSE IF e = old /\ deploy[e].status = "live"
                            THEN [deploy[e] EXCEPT !.status = "superseded"] ELSE deploy[e]
  BY DEF Rollback
<1>6. \A e \in Deploys :
        /\ RowHolds(e, deploy'[e], manifest[e], cleanup[e])
        /\ deploy'[e] \in DeployRows
        /\ deploy'[e].yard = deploy[e].yard /\ deploy'[e].finalised = deploy[e].finalised
        /\ deploy'[e].status = IF e = d THEN "live" ELSE IF e = old THEN "superseded"
                               ELSE deploy[e].status
  <2> TAKE e \in Deploys
  <2>0. ASSUME NEW s \in {"live", "superseded"}, deploy[e].status \in {"live", "superseded"},
               deploy'[e] = [deploy[e] EXCEPT !.status = s]
        PROVE  /\ RowHolds(e, deploy'[e], manifest[e], cleanup[e])
               /\ deploy'[e] \in DeployRows
               /\ deploy'[e].yard = deploy[e].yard /\ deploy'[e].finalised = deploy[e].finalised
               /\ deploy'[e].status = s
    <3> DEFINE new == [deploy[e] EXCEPT !.status = s]
    <3>1. /\ new \in DeployRows /\ new.status = s /\ new.yard = deploy[e].yard
          /\ new.finalised = deploy[e].finalised /\ new.files = deploy[e].files
      BY <1>4 DEF DeployRows
    <3>2. deploy'[e] = new
      BY <2>0
    <3> HIDE DEF new
    <3>3. RowHolds(e, new, manifest[e], cleanup[e])
      BY <1>4, <2>0, <3>1 DEF RowHolds
    <3> QED BY <3>1, <3>2, <3>3
  <2>1. CASE e = d
    BY <1>2, <1>5, <2>0, <2>1
  <2>2. CASE e # d /\ e = old
    BY <1>3, <1>5, <2>0, <2>2, DeployNumbers
  <2>3. CASE e # d /\ e # old
    BY <1>4, <1>5, <2>3
  <2> QED BY <2>1, <2>2, <2>3
<1>7. deploy' \in [Deploys -> DeployRows]
  <2>1. deploy' = [e \in Deploys |-> deploy'[e]]
    BY DEF Rollback
  <2> QED BY <1>6, <2>1
<1>8. r \in YardRows /\ r.status = "active" /\ r.current = d
  BY <1>1, <1>2 DEF IInv, Typed, YardRows
<1> HIDE DEF r
<1>9. yard' \in [Yards -> YardRows] /\ yard'[y] = r /\ \A x \in Yards : x # y => yard'[x] = yard[x]
  BY <1>1, <1>2, <1>8 DEF IInv, Typed
<1>10. Typed' /\ CallsHold'
  <2>1. Typed' /\ \A k \in Handlers : handler'[k] = handler[k] \/ handler'[k] = Idle
    BY <1>1, <1>7, <1>9, IdleIsCall DEF IInv, Typed
  <2> QED BY <1>6, <2>1, CallsFollow DEF Typed
<1>11. RowsHold' /\ VersionsHold'
  BY <1>1, <1>6 DEF IInv, RowsHold, RowHolds, VersionsHold
<1>12. \A x \in Yards : Of(x)' = Of(x)
  BY <1>6 DEF Of
<1>13. YardsHold'
  <2> SUFFICES ASSUME NEW x \in Yards PROVE YardHolds(x)'
    BY DEF YardsHold
  <2>0. YardHolds(x) /\ Of(x)' = Of(x)
    BY <1>12 DEF IInv, YardsHold
  <2>1. CASE x = y
    <3>1. deploy'[d].yard = y /\ deploy'[d].status = "live"
      BY <1>2, <1>6
    <3>2. \A e \in Of(y) : deploy'[e].status = "live" => e = d
      BY <1>3, <1>6 DEF Of, YardHolds
    <3>3. d # None
      BY <1>2, DeployNumbers
    <3> QED BY <1>8, <1>9, <2>0, <2>1, <3>1, <3>2, <3>3 DEF YardHolds
  <2>2. CASE x # y
    <3>1. yard'[x] = yard[x] /\ \A e \in Of(x) : e # d /\ e # old /\ e \in Deploys
      BY <1>2, <1>3, <1>9, <2>2, DeployNumbers DEF Of
    <3>2. yard[x].current # None => yard[x].current \in Of(x)
      BY <2>0 DEF YardHolds, Of, IInv, Typed, YardRows
    <3>3. \A e \in Of(x) : /\ deploy'[e].status = deploy[e].status /\ deploy'[e].yard = deploy[e].yard
                           /\ deploy'[e].finalised = deploy[e].finalised
      BY <1>6, <3>1
    <3> QED BY <2>0, <3>1, <3>2, <3>3 DEF YardHolds
  <2> QED BY <2>1, <2>2
<1>14. HistoryBounded'
  <2>1. \A e \in Deploys : deploy'[e].status \in Settled => deploy[e].status \in Settled
    BY <1>2, <1>3, <1>6, DeployNumbers DEF Settled
  <2>2. \A x \in Yards : Kept(x)' \subseteq Kept(x)
    BY <1>12, <2>1 DEF Kept, Settled, Of
  <2> QED BY <2>2, FewerKept DEF IInv
<1> QED BY <1>10, <1>11, <1>13, <1>14 DEF IInv

-----------------------------------------------------------------------------
(* Starting, uploading and reading.                                        *)

LEMMA StartKeeps ==
  ASSUME IInv, NEW d \in Deploys, StartDeploy(d)
  PROVE  IInv'
<1>1. PICK y \in SelectedYard :
        /\ yard' = [yard EXCEPT ![y].status = "active"]
        /\ deploy' = [deploy EXCEPT ![d] = [NoDeploy EXCEPT !.status = "uploading", !.yard = y]]
  BY DEF StartDeploy
<1>2. /\ deploy[d].status = "none" /\ UNCHANGED <<row, bytes, cleanup, manifest, taken, handler>>
  BY DEF StartDeploy
<1>3. y \in Yards /\ yard[y].status \in {"active", "none"}
  BY DEF SelectedYard
<1> DEFINE r == [yard[y] EXCEPT !.status = "active"]
           new == [NoDeploy EXCEPT !.status = "uploading", !.yard = y]
<1>4. r \in YardRows /\ r.status = "active" /\ r.current = yard[y].current
  BY <1>3 DEF IInv, Typed, YardRows
<1>5. /\ new \in DeployRows /\ new.status = "uploading" /\ new.yard = y /\ ~ new.finalised
      /\ new.files = {}
  BY <1>3 DEF NoDeploy, DeployRows
<1>6. yard' = [yard EXCEPT ![y] = r] /\ deploy' = [deploy EXCEPT ![d] = new]
  BY <1>1
<1> HIDE DEF r, new
<1>7. /\ yard' \in [Yards -> YardRows] /\ yard'[y] = r
      /\ \A x \in Yards : x # y => yard'[x] = yard[x]
      /\ deploy' \in [Deploys -> DeployRows] /\ deploy'[d] = new
      /\ \A e \in Deploys : e # d => deploy'[e] = deploy[e]
  BY <1>3, <1>4, <1>5, <1>6 DEF IInv, Typed
<1>8. RowHolds(d, deploy[d], manifest[d], cleanup[d]) /\ deploy[d].yard = None
  BY <1>2 DEF IInv, RowsHold, RowHolds
<1>9. Typed' /\ CallsHold'
  <2>1. Typed'
    BY <1>2, <1>7 DEF IInv, Typed
  <2>2. \A e \in Deploys : deploy[e].yard # None => deploy'[e].yard = deploy[e].yard
    BY <1>7, <1>8
  <2> QED BY <1>2, <2>1, <2>2, CallsFollow DEF Typed
<1>10. RowsHold' /\ VersionsHold'
  <2>1. RowHolds(d, new, manifest[d], cleanup[d])
    BY <1>2, <1>3, <1>5, <1>8, DeployNumbers DEF RowHolds
  <2>2. \A e \in Deploys : RowHolds(e, deploy'[e], manifest[e], cleanup[e])
    BY <1>7, <2>1 DEF IInv, RowsHold
  <2> QED BY <1>2, <2>2 DEF IInv, RowsHold, RowHolds, VersionsHold
<1>11. \A x \in Yards : Of(x)' = IF x = y THEN Of(x) \cup {d} ELSE Of(x)
  BY <1>5, <1>7, <1>8, DeployNumbers DEF Of
<1>12. \A x \in Yards : d \notin Of(x)
  BY <1>8, DeployNumbers DEF Of
<1>13. YardsHold'
  <2> SUFFICES ASSUME NEW x \in Yards PROVE YardHolds(x)'
    BY DEF YardsHold
  <2>1. YardHolds(x)
    BY DEF IInv, YardsHold
  <2>2. /\ yard'[x].current = yard[x].current
        /\ yard'[x].status = IF x = y THEN "active" ELSE yard[x].status
    BY <1>4, <1>7
  <2>3. yard[x].current # None =>
          deploy'[yard[x].current].yard = x /\ deploy'[yard[x].current].status = "live"
    <3>1. yard[x].current # None => yard[x].current \in Of(x)
      BY <2>1 DEF YardHolds, Of, IInv, Typed, YardRows
    <3> QED BY <1>7, <1>12, <2>1, <3>1 DEF YardHolds, Of
  <2>4. \A e \in Of(x) : deploy'[e] = deploy[e]
    BY <1>7, <1>12 DEF Of
  <2>5. CASE x = y
    <3>1. \A e \in Of(x)' : /\ deploy'[e].status = "live" => yard[x].current = e
                            /\ deploy'[e].finalised => yard[x].current # None
      <4>1. yard[x].status = "none" => Of(x) = {}
        BY <2>1 DEF YardHolds
      <4> QED BY <1>3, <1>5, <1>7, <1>11, <2>1, <2>4, <2>5, <4>1 DEF YardHolds
    <3> QED BY <2>2, <2>3, <2>5, <3>1 DEF YardHolds
  <2>6. CASE x # y
    <3>1. Of(x)' = Of(x)
      BY <1>11, <2>6
    <3> QED BY <2>1, <2>2, <2>3, <2>4, <2>6, <3>1 DEF YardHolds
  <2> QED BY <2>5, <2>6
<1>14. HistoryBounded'
  <2>1. \A x \in Yards : Kept(x)' \subseteq Kept(x)
    BY <1>5, <1>7, <1>11 DEF Kept, Settled, Of
  <2> QED BY <2>1, FewerKept DEF IInv
<1> QED BY <1>9, <1>10, <1>13, <1>14 DEF IInv

(* Deploys and yards that are as they were, and the same history.          *)
LEMMA SameTables ==
  ASSUME IInv, UNCHANGED <<yard, deploy>>
  PROVE  YardsHold' /\ HistoryBounded'
BY DEF IInv, YardsHold, YardHolds, Of, HistoryBounded

LEMMA UploadKeeps ==
  ASSUME IInv, NEW d \in Deploys, NEW r \in 1..MaxRevisions, UploadFile(d, r)
  PROVE  IInv'
<1> DEFINE v == <<d, r>>
<1>1. /\ row[v] = "none" /\ row' = [row EXCEPT ![v] = "complete"] /\ bytes' = bytes \cup {v}
      /\ UNCHANGED <<yard, deploy, cleanup, manifest, taken, handler>>
  BY DEF UploadFile
<1>2. v \in Versions
  BY DEF Versions
<1> HIDE DEF v
<1>3. row' \in [Versions -> {"none", "complete", "gone"}] /\ row'[v] = "complete"
      /\ \A w \in Versions : w # v => row'[w] = row[w]
  BY <1>1, <1>2 DEF IInv, Typed
<1>4. Typed' /\ CallsHold'
  BY <1>1, <1>2, <1>3 DEF IInv, Typed, CallsHold, CallHolds
<1>5. v \notin taken
  BY <1>1, <1>2 DEF IInv, VersionsHold
<1>6. RowsHold'
  <2> SUFFICES ASSUME NEW e \in Deploys PROVE RowHolds(e, deploy[e], manifest[e], cleanup[e])'
    BY DEF RowsHold
  <2>1. RowHolds(e, deploy[e], manifest[e], cleanup[e])
    BY DEF IInv, RowsHold
  <2>2. \A w \in deploy[e].files : w \in Versions /\ (row[w] = "complete" => row'[w] = "complete")
    BY <1>3, <2>1 DEF RowHolds, Own
  <2> QED BY <1>1, <2>1, <2>2 DEF RowHolds
<1>7. VersionsHold'
  <2> SUFFICES ASSUME NEW w \in Versions
               PROVE  /\ row'[w] = "complete" =>
                           w \in bytes' \/ (cleanup'[w[1]].status = "pending" /\ w \in cleanup'[w[1]].items)
                      /\ w \in taken' => row'[w] = "gone"
    BY DEF VersionsHold
  <2>1. CASE w = v
    BY <1>1, <1>5, <2>1
  <2>2. CASE w # v
    BY <1>1, <1>3, <2>2 DEF IInv, VersionsHold
  <2> QED BY <2>1, <2>2
<1> QED BY <1>1, <1>4, <1>6, <1>7, SameTables DEF IInv

LEMMA ReadKeeps ==
  ASSUME IInv, NEW h \in Handlers, NEW d \in Deploys, ReadManifest(h, d)
  PROVE  IInv'
<1> DEFINE r == [Idle EXCEPT !.step = "finalise", !.deploy = d, !.yard = deploy[d].yard,
                             !.files = Latest(d), !.status = PromoteStatus(d)]
<1>1. deploy[d].status # "none" /\ handler' = [handler EXCEPT ![h] = r]
      /\ UNCHANGED <<yard, deploy, row, bytes, cleanup, manifest, taken>>
  BY DEF ReadManifest
<1>2. deploy[d].yard \in Yards
  <2>1. RowHolds(d, deploy[d], manifest[d], cleanup[d])
    BY DEF IInv, RowsHold
  <2> QED BY <1>1, <2>1 DEF RowHolds, DeployRows
<1>3. Latest(d) \in SUBSET Versions /\ Latest(d) \subseteq Own(d)
  BY DEF Latest, Own
<1>4. PromoteStatus(d) \in {"live", "superseded"}
  BY DEF PromoteStatus
<1>5. r \in Calls
  BY <1>2, <1>3, <1>4 DEF Idle, Calls
<1>6. r.step = "finalise" /\ r.deploy = d /\ r.yard = deploy[d].yard /\ r.files = Latest(d)
  BY DEF Idle
<1> HIDE DEF r
<1>7. CallHolds(r)
  BY <1>2, <1>3, <1>6 DEF CallHolds
<1> QED BY <1>1, <1>5, <1>7, CallKeeps

LEMMA SelectKeeps ==
  ASSUME IInv, NEW h \in Handlers, NEW y \in Yards, SelectRollback(h, y)
  PROVE  IInv'
<1>1. PICK d \in RollbackTargets(y) :
        handler' = [handler EXCEPT ![h] = [Idle EXCEPT !.step = "rollback", !.deploy = d, !.yard = y]]
  BY DEF SelectRollback
<1> DEFINE r == [Idle EXCEPT !.step = "rollback", !.deploy = d, !.yard = y]
<1>2. d \in Deploys
  BY DEF RollbackTargets, Of
<1>3. r \in Calls /\ r.step = "rollback" /\ r.deploy = d /\ r.yard = y
  BY <1>2 DEF Idle, Calls
<1>4. handler' = [handler EXCEPT ![h] = r]
  BY <1>1
<1> HIDE DEF r
<1>5. CallHolds(r)
  BY <1>2, <1>3 DEF CallHolds
<1>6. UNCHANGED <<yard, deploy, row, bytes, cleanup, manifest, taken>>
  BY DEF SelectRollback
<1> QED BY <1>3, <1>4, <1>5, <1>6, CallKeeps

LEMMA GiveUpKeeps ==
  ASSUME IInv, NEW h \in Handlers, GiveUp(h)
  PROVE  IInv'
<1>1. CallHolds(Idle)
  BY IdleIsCall DEF CallHolds
<1> QED BY <1>1, IdleIsCall, CallKeeps DEF GiveUp, Done

-----------------------------------------------------------------------------
(* Deletion of stored versions.                                            *)

LEMMA CleanKeeps ==
  ASSUME IInv, NEW d \in Deploys, CleanBytes(d)
  PROVE  IInv'
<1>1. PICK v \in cleanup[d].items \cap bytes : bytes' = bytes \ {v}
  BY DEF CleanBytes
<1>2. cleanup[d].status = "pending" /\ UNCHANGED <<yard, deploy, row, cleanup, manifest, taken, handler>>
  BY DEF CleanBytes
<1>3. Typed' /\ CallsHold'
  BY <1>1, <1>2 DEF IInv, Typed, CallsHold, CallHolds
<1>4. deploy[d].status = "pruned" /\ v \in Own(d)
  <2>1. RowHolds(d, deploy[d], manifest[d], cleanup[d])
    BY DEF IInv, RowsHold
  <2> QED BY <1>1, <1>2, <2>1 DEF RowHolds
<1>5. RowsHold'
  <2> SUFFICES ASSUME NEW e \in Deploys PROVE RowHolds(e, deploy[e], manifest[e], cleanup[e])'
    BY DEF RowsHold
  <2>1. RowHolds(e, deploy[e], manifest[e], cleanup[e])
    BY DEF IInv, RowsHold
  <2>2. deploy[e].status \in {"live", "superseded"} => v \notin deploy[e].files
    BY <1>4, <2>1 DEF RowHolds, Own
  <2> QED BY <1>1, <1>2, <2>1, <2>2 DEF RowHolds
<1>6. VersionsHold'
  <2>1. v[1] = d
    BY <1>4 DEF Own
  <2> QED BY <1>1, <1>2, <2>1 DEF IInv, VersionsHold
<1> QED BY <1>2, <1>3, <1>5, <1>6, SameTables DEF IInv

(* Rows that go take nothing a host serves but what the operator took.     *)
LEMMA RemoveKeeps ==
  ASSUME IInv, NEW gone \in SUBSET Versions, RemoveRows(gone),
         UNCHANGED <<yard, manifest, handler>>,
         bytes' \subseteq bytes, bytes \ gone \subseteq bytes',
         taken \subseteq taken', taken' \subseteq taken \cup gone,
         cleanup' \in [Deploys -> Plans],
         \A d \in Deploys :
           /\ cleanup'[d].items = cleanup[d].items
           /\ cleanup[d].status = "none" => cleanup'[d].status = "none"
           /\ cleanup'[d].status # cleanup[d].status => cleanup[d].items \subseteq gone
           /\ deploy[d].status \in {"live", "superseded"} => Own(d) \cap gone \subseteq taken'
  PROVE  IInv'
<1>1. row' = [v \in Versions |-> IF v \in gone THEN "gone" ELSE row[v]]
  BY DEF RemoveRows
<1>2. \A d \in Deploys :
        /\ deploy'[d] = [deploy[d] EXCEPT !.files = @ \ gone]
        /\ deploy[d] \in DeployRows
  BY DEF RemoveRows, IInv, Typed
<1>3. \A d \in Deploys :
        /\ deploy'[d] \in DeployRows
        /\ deploy'[d].status = deploy[d].status /\ deploy'[d].yard = deploy[d].yard
        /\ deploy'[d].finalised = deploy[d].finalised
        /\ deploy'[d].files = deploy[d].files \ gone
  <2> TAKE d \in Deploys
  <2> DEFINE left == deploy[d].files \ gone
             new == [deploy[d] EXCEPT !.files = left]
  <2>1. left \in SUBSET Versions
    BY <1>2 DEF DeployRows
  <2>2. deploy'[d] = new
    BY <1>2
  <2> HIDE DEF left
  <2>3. /\ new \in DeployRows /\ new.status = deploy[d].status /\ new.yard = deploy[d].yard
        /\ new.finalised = deploy[d].finalised /\ new.files = left
    BY <1>2, <2>1 DEF DeployRows
  <2> HIDE DEF new
  <2> QED BY <2>2, <2>3 DEF left
<1>4. deploy' \in [Deploys -> DeployRows]
  <2>1. deploy' = [d \in Deploys |-> deploy'[d]]
    BY DEF RemoveRows
  <2> QED BY <1>3, <2>1
<1>5. Typed'
  BY <1>1, <1>4 DEF IInv, Typed
<1>6. CallsHold'
  BY <1>3, <1>5, CallsFollow DEF Typed
<1>7. RowsHold'
  <2> SUFFICES ASSUME NEW d \in Deploys PROVE RowHolds(d, deploy[d], manifest[d], cleanup[d])'
    BY DEF RowsHold
  <2>1. RowHolds(d, deploy[d], manifest[d], cleanup[d])
    BY DEF IInv, RowsHold
  <2>2. cleanup'[d] \in Plans
    OBVIOUS
  <2>3. ASSUME deploy[d].status \in {"live", "superseded"}
        PROVE  /\ deploy'[d].files = manifest[d] \ taken'
               /\ deploy'[d].files \subseteq bytes'
               /\ \A v \in deploy'[d].files : row'[v] = "complete"
    <3>1. /\ deploy[d].files = manifest[d] \ taken /\ deploy[d].files \subseteq bytes
          /\ \A v \in deploy[d].files : row[v] = "complete"
          /\ manifest[d] \subseteq Own(d) /\ Own(d) \subseteq Versions
      BY <2>1, <2>3 DEF RowHolds, Own
    <3>2. manifest[d] \cap gone \subseteq taken'
      BY <2>3, <3>1
    <3> QED BY <1>1, <1>3, <3>1, <3>2
  <2> QED BY <1>3, <2>1, <2>2, <2>3 DEF RowHolds
<1>8. VersionsHold'
  <2> SUFFICES ASSUME NEW v \in Versions
               PROVE  /\ row'[v] = "complete" =>
                           v \in bytes' \/ (cleanup'[v[1]].status = "pending" /\ v \in cleanup'[v[1]].items)
                      /\ v \in taken' => row'[v] = "gone"
    BY DEF VersionsHold
  <2>1. v[1] \in Deploys
    BY DEF Versions
  <2> QED BY <1>1, <2>1 DEF IInv, VersionsHold
<1>9. \A y \in Yards : Of(y)' = Of(y)
  BY <1>3 DEF Of
<1>10. YardsHold'
  <2> SUFFICES ASSUME NEW y \in Yards PROVE YardHolds(y)'
    BY DEF YardsHold
  <2>1. YardHolds(y) /\ yard'[y] = yard[y] /\ yard[y].current \in Deploys \cup {None}
    BY DEF IInv, YardsHold, Typed, YardRows
  <2>2. \A d \in Of(y) : d \in Deploys
    BY DEF Of
  <2> QED BY <1>3, <1>9, <2>1, <2>2 DEF YardHolds
<1>11. HistoryBounded'
  <2>1. \A y \in Yards : Kept(y)' \subseteq Kept(y)
    BY <1>3, <1>9 DEF Kept, Of
  <2> QED BY <2>1, FewerKept DEF IInv
<1> QED BY <1>5, <1>6, <1>7, <1>8, <1>10, <1>11 DEF IInv

LEMMA FinishKeeps ==
  ASSUME IInv, NEW d \in Deploys, FinishCleanup(d)
  PROVE  IInv'
<1> DEFINE gone == cleanup[d].items
<1>1. /\ cleanup[d].status = "pending" /\ gone \cap bytes = {} /\ RemoveRows(gone)
      /\ cleanup' = [cleanup EXCEPT ![d].status = "complete"]
      /\ UNCHANGED <<yard, bytes, manifest, taken, handler>>
  BY DEF FinishCleanup
<1>2. cleanup \in [Deploys -> Plans] /\ cleanup[d] \in Plans
  BY DEF IInv, Typed
<1> DEFINE r == [cleanup[d] EXCEPT !.status = "complete"]
<1>3. r \in Plans /\ r.status = "complete" /\ r.items = gone
  BY <1>2 DEF Plans
<1>4. cleanup' = [cleanup EXCEPT ![d] = r]
  BY <1>1
<1>5. gone \in SUBSET Versions /\ gone \subseteq Own(d) /\ deploy[d].status = "pruned"
  <2>1. RowHolds(d, deploy[d], manifest[d], cleanup[d])
    BY DEF IInv, RowsHold
  <2> QED BY <1>1, <2>1 DEF RowHolds, Own
<1> HIDE DEF r
<1>6. cleanup' \in [Deploys -> Plans]
      /\ \A e \in Deploys :
           /\ cleanup'[e].items = cleanup[e].items
           /\ cleanup[e].status = "none" => cleanup'[e].status = "none"
           /\ cleanup'[e].status # cleanup[e].status => e = d
  BY <1>1, <1>2, <1>3, <1>4
<1>7. \A e \in Deploys : deploy[e].status \in {"live", "superseded"} => Own(e) \cap gone \subseteq taken'
  BY <1>5 DEF Own
<1>8. \A e \in Deploys : cleanup'[e].status # cleanup[e].status => cleanup[e].items \subseteq gone
  BY <1>6
<1> HIDE DEF gone
<1> QED BY <1>1, <1>5, <1>6, <1>7, <1>8, RemoveKeeps

LEMMA DeleteKeeps ==
  ASSUME IInv, NEW v \in Versions, DeleteObject(v)
  PROVE  IInv'
<1>1. /\ bytes' = bytes \ {v} /\ RemoveRows({v}) /\ taken' = taken \cup {v}
      /\ UNCHANGED <<yard, cleanup, manifest, handler>>
  BY DEF DeleteObject
<1>2. {v} \in SUBSET Versions /\ cleanup' \in [Deploys -> Plans]
  BY <1>1 DEF IInv, Typed
<1>3. \A d \in Deploys : /\ cleanup'[d].items = cleanup[d].items
                         /\ cleanup'[d].status = cleanup[d].status
                         /\ Own(d) \cap {v} \subseteq taken'
  BY <1>1
<1> QED BY <1>1, <1>2, <1>3, RemoveKeeps

-----------------------------------------------------------------------------
(* The specification.                                                      *)

LEMMA InitIsSound == Init => IInv
<1> SUFFICES ASSUME Init PROVE IInv
  OBVIOUS
<1>1. /\ yard = [y \in Yards |-> NoYard] /\ deploy = [d \in Deploys |-> NoDeploy]
      /\ row = [v \in Versions |-> "none"] /\ bytes = {} /\ taken = {}
      /\ cleanup = [d \in Deploys |-> NoPlan] /\ manifest = [d \in Deploys |-> {}]
      /\ handler = [h \in Handlers |-> Idle]
  BY DEF Init
<1>2. NoYard \in YardRows /\ NoYard.status = "none" /\ NoYard.current = None
  BY DEF NoYard, YardRows
<1>3. /\ NoDeploy \in DeployRows /\ NoDeploy.status = "none" /\ NoDeploy.yard = None
      /\ ~ NoDeploy.finalised /\ NoDeploy.files = {}
  BY DEF NoDeploy, DeployRows
<1>4. NoPlan \in Plans /\ NoPlan.status = "none" /\ NoPlan.items = {}
  BY DEF NoPlan, Plans
<1>5. Typed
  BY <1>1, <1>2, <1>3, <1>4, IdleIsCall DEF Typed
<1>6. RowsHold /\ VersionsHold
  BY <1>1, <1>3, <1>4 DEF RowsHold, RowHolds, VersionsHold
<1>7. \A y \in Yards : Of(y) = {}
  BY <1>1, <1>3, DeployNumbers DEF Of
<1>8. YardsHold
  BY <1>1, <1>2, <1>7 DEF YardsHold, YardHolds
<1>9. CallsHold
  BY <1>1, IdleIsCall DEF CallsHold, CallHolds
<1>10. HistoryBounded
  <2> SUFFICES ASSUME NEW y \in Yards
               PROVE  Cardinality({d \in Of(y) : deploy[d].status \in {"live", "failed", "superseded"}})
                        <= HistoryDepth
    BY DEF HistoryBounded
  <2>1. {d \in Of(y) : deploy[d].status \in {"live", "failed", "superseded"}} = {}
    BY <1>7
  <2>2. Cardinality({}) = 0
    BY FS_EmptySet
  <2>3. 0 <= HistoryDepth
    BY DeployNumbers
  <2> QED BY <2>1, <2>2, <2>3
<1> QED BY <1>5, <1>6, <1>8, <1>9, <1>10 DEF IInv

LEMMA StepKeeps == IInv /\ [Next]_vars => IInv'
<1> SUFFICES ASSUME IInv, [Next]_vars PROVE IInv'
  OBVIOUS
<1>1. ASSUME NEW h \in Handlers, NEW d \in Deploys, ReadManifest(h, d) PROVE IInv'
  BY <1>1, ReadKeeps
<1>2. ASSUME NEW h \in Handlers, FinaliseDeploy(h) PROVE IInv'
  BY <1>2, FinaliseKeeps
<1>3. ASSUME NEW h \in Handlers, GiveUp(h) PROVE IInv'
  BY <1>3, GiveUpKeeps
<1>4. ASSUME NEW h \in Handlers, Rollback(h) PROVE IInv'
  BY <1>4, RollbackKeeps
<1>5. ASSUME NEW h \in Handlers, NEW y \in Yards, SelectRollback(h, y) PROVE IInv'
  BY <1>5, SelectKeeps
<1>6. ASSUME NEW d \in Deploys, NEW r \in 1..MaxRevisions, UploadFile(d, r) PROVE IInv'
  BY <1>6, UploadKeeps
<1>7. ASSUME NEW d \in Deploys, StartDeploy(d) PROVE IInv'
  BY <1>7, StartKeeps
<1>8. ASSUME NEW d \in Deploys, FailDeploy(d) PROVE IInv'
  BY <1>8, FailKeeps
<1>9. ASSUME NEW d \in Deploys, CleanBytes(d) PROVE IInv'
  BY <1>9, CleanKeeps
<1>10. ASSUME NEW d \in Deploys, FinishCleanup(d) PROVE IInv'
  BY <1>10, FinishKeeps
<1>11. ASSUME NEW y \in Yards, DeleteYard(y) PROVE IInv'
  BY <1>11, DeleteYardKeeps
<1>12. ASSUME NEW v \in Versions, DeleteObject(v) PROVE IInv'
  BY <1>12, DeleteKeeps
<1>13. ASSUME UNCHANGED vars PROVE IInv'
  BY <1>13 DEF vars, IInv, Typed, RowsHold, RowHolds, VersionsHold, YardsHold, YardHolds, Of,
               CallsHold, CallHolds, HistoryBounded
<1> QED BY <1>1, <1>2, <1>3, <1>4, <1>5, <1>6, <1>7, <1>8, <1>9, <1>10, <1>11, <1>12, <1>13 DEF Next

THEOREM InvariantHolds == Spec => []IInv
BY InitIsSound, StepKeeps, PTL DEF Spec

(* A yard's stable host answers from its first finalised deploy to the     *)
(* deletion of the yard, with the one deploy that is live: whatever the    *)
(* order in which finalise, rollback, fail and prune reach the database.   *)
THEOREM AliasServesHolds == Spec => []AliasServes
<1>1. IInv => AliasServes
  BY IInvImplies
<1> QED BY <1>1, InvariantHolds, PTL

(* Every deploy whose host answers has the files it was finalised with and *)
(* their bytes but for what an operator deleted, what pruning drops is in  *)
(* a cleanup plan, and no more than HistoryDepth settled deploys stay.     *)
THEOREM HistoryIsKeptHolds == Spec => []HistoryIsKept
<1>1. IInv => HistoryIsKept
  BY IInvImplies
<1> QED BY <1>1, InvariantHolds, PTL

LEMMA OnlyNewestTakes ==
  ASSUME IInv, [Next]_vars
  PROVE  \A y \in Yards, d \in Deploys :
           yard[y].current # d /\ yard'[y].current = d /\ ~deploy[d].finalised =>
             \A e \in Of(y) : deploy[e].finalised => Newer(d, e)
<1> SUFFICES ASSUME NEW y \in Yards, NEW d \in Deploys, yard[y].current # d, yard'[y].current = d,
                    ~deploy[d].finalised, NEW e \in Of(y), deploy[e].finalised
             PROVE  Newer(d, e)
  OBVIOUS
<1>1. yard \in [Yards -> YardRows] /\ d # None
  BY DeployNumbers DEF IInv, Typed
<1>2. ASSUME NEW h \in Handlers, FinaliseDeploy(h) PROVE Newer(d, e)
  <2> DEFINE x == handler[h].yard
             mine == handler[h].deploy
             now == IF PromoteStatus(mine) = "live" THEN mine ELSE yard[x].current
  <2>1. /\ handler[h].step = "finalise" /\ deploy[mine].status = "uploading"
        /\ yard' = [yard EXCEPT ![x].current = now]
    BY <1>2 DEF FinaliseDeploy
  <2>2. mine \in Deploys /\ x \in Yards /\ deploy[mine].yard = x
    BY <2>1 DEF IInv, CallsHold, CallHolds
  <2>3. x = y /\ now = d
    <3>1. yard[x] \in YardRows /\ yard[y] \in YardRows
      BY <1>1, <2>2
    <3> HIDE DEF now, x, mine
    <3> QED BY <1>1, <2>1, <2>2, <3>1 DEF YardRows
  <2>4. PromoteStatus(mine) = "live" /\ mine = d
    BY <2>3
  <2>5. ~ Newer(e, d)
    BY <2>2, <2>3, <2>4 DEF PromoteStatus
  <2>6. e \in Nat /\ d \in Nat /\ e # d
    BY DeployNumbers DEF Of
  <2> QED BY <2>5, <2>6 DEF Newer
<1>3. ASSUME NEW h \in Handlers, Rollback(h) PROVE Newer(d, e)
  <2> DEFINE x == handler[h].yard
             target == handler[h].deploy
  <2>1. handler[h].step = "rollback" /\ target \in RollbackTargets(x)
        /\ yard' = [yard EXCEPT ![x].current = target]
    BY <1>3 DEF Rollback
  <2>2. target \in Deploys /\ deploy[target].status = "superseded"
    BY <2>1 DEF RollbackTargets, Of
  <2>3. deploy[target].finalised
    BY <2>2 DEF IInv, RowsHold, RowHolds
  <2>4. d = target
    <3>1. yard[y] \in YardRows
      BY <1>1
    <3> HIDE DEF x, target
    <3> QED BY <1>1, <2>1, <3>1 DEF YardRows
  <2> QED BY <2>3, <2>4
<1>4. ASSUME NEW c \in Deploys, StartDeploy(c) PROVE Newer(d, e)
  <2>1. PICK x \in SelectedYard : yard' = [yard EXCEPT ![x].status = "active"]
    BY <1>4 DEF StartDeploy
  <2>2. yard'[y].current = yard[y].current
    BY <1>1, <2>1 DEF YardRows
  <2> QED BY <2>2
<1>5. ASSUME NEW x \in Yards, DeleteYard(x) PROVE Newer(d, e)
  <2>1. yard'[y].current \in {None, yard[y].current}
    BY <1>1, <1>5 DEF DeleteYard
  <2> QED BY <1>1, <2>1
<1>6. CASE UNCHANGED yard
  BY <1>6
<1> QED BY <1>2, <1>3, <1>4, <1>5, <1>6 DEF Next, vars, ReadManifest, GiveUp, SelectRollback,
           UploadFile, FailDeploy, CleanBytes, FinishCleanup, DeleteObject

(* Finalising gives the stable host only to a deploy newer than every one  *)
(* finalised before it.                                                    *)
THEOREM NewestWinsHolds == Spec => NewestWins
<1>1. IInv /\ [Next]_vars =>
        [\A y \in Yards, d \in Deploys :
           yard[y].current # d /\ yard'[y].current = d /\ ~deploy[d].finalised =>
             \A e \in Of(y) : deploy[e].finalised => Newer(d, e)]_vars
  BY OnlyNewestTakes
<1> QED BY <1>1, InvariantHolds, PTL DEF Spec, NewestWins
=============================================================================
