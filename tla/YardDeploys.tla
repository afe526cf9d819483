---------------------------- MODULE YardDeploys ----------------------------
(***************************************************************************)
(* Web Yards: a named site whose stable host follows its current deploy,   *)
(* and whose earlier deploys stay reachable on hosts of their own until    *)
(* they fall out of the history.  A client starts a deploy, uploads its    *)
(* files below a root that is the deploy's own, and finalises it; others   *)
(* finalise, fail, roll back and delete at the same time.  Handlers read   *)
(* the clock, the deploy and its objects first and write in one            *)
(* transaction later.                                                      *)
(*                                                                         *)
(* Deploys are numbered in the order of created_at_ms and id.  A request   *)
(* reads the clock before its transaction, so they need not be inserted in *)
(* that order.                                                             *)
(*                                                                         *)
(* Versions of a deploy's one required file, index.html, stand for its     *)
(* uploads.  Lifecycle models who executes a cleanup plan and how they     *)
(* fail; here its steps are taken by whoever comes.                        *)
(***************************************************************************)
EXTENDS Naturals, FiniteSets

CONSTANTS
  MaxYards,      \* bound on yards ever created under the one name
  MaxDeploys,    \* bound on deploys
  MaxRevisions,  \* bound on uploads of one deploy's index.html
  MaxUploads,    \* bound on uploads altogether
  MaxTaken,      \* bound on versions an operator deletes by their URI
  HistoryDepth,  \* HISTORY_DEPTH
  Handlers       \* requests in flight

ASSUME YardDeploysAssumption ==
  /\ MaxYards \in Nat
  /\ MaxDeploys \in Nat
  /\ MaxRevisions \in Nat
  /\ MaxUploads \in Nat
  /\ MaxTaken \in Nat
  /\ HistoryDepth \in Nat \ {0}

Yards == 1..MaxYards
Deploys == 1..MaxDeploys
Versions == Deploys \X (1..MaxRevisions)
None == 0

VARIABLES
  yard,      \* web_yards: status and current_deploy_id
  deploy,    \* yard_deploys and the non-null version_ids of their yard_deploy_files
  row,       \* object_versions below the deploys' roots, "gone" once removed
  bytes,     \* the versions whose storage key exists
  cleanup,   \* deletion_operations of reason yard_cleanup, with their items
  manifest,  \* history: the versions each deploy was finalised with
  taken,     \* history: the versions an operator deleted by their URI
  handler

vars == <<yard, deploy, row, bytes, cleanup, manifest, taken, handler>>

NoYard == [status |-> "none", current |-> None]
NoDeploy == [status |-> "none", yard |-> None, finalised |-> FALSE, files |-> {}]
NoPlan == [status |-> "none", items |-> {}]
Idle == [step |-> "idle", deploy |-> None, yard |-> None, files |-> {}, status |-> "none"]

Init ==
  /\ yard = [y \in Yards |-> NoYard]
  /\ deploy = [d \in Deploys |-> NoDeploy]
  /\ row = [v \in Versions |-> "none"]
  /\ bytes = {}
  /\ cleanup = [d \in Deploys |-> NoPlan]
  /\ manifest = [d \in Deploys |-> {}]
  /\ taken = {}
  /\ handler = [h \in Handlers |-> Idle]

IsIdle(h) == handler[h].step = "idle"
Done(h) == handler' = [handler EXCEPT ![h] = Idle]

(* ORDER BY created_at_ms DESC, id DESC.                                   *)
Newer(d, e) == d > e

Of(y) == {d \in Deploys : deploy[d].yard = y}

----------------------------------------------------------------------------
(* Pruning, inside the transaction of whoever changes the history          *)

(* Mutant: the current deploy is pruned by its age like the others.        *)
SurplusByAge(table, y, current) ==
  {d \in Of(y) :
     /\ table[d].status \in {"live", "failed", "superseded"}
     /\ Cardinality({e \in Of(y) : Newer(e, d)}) >= HistoryDepth}

(* prune, over the table as the transaction has left it so far: the newest *)
(* HistoryDepth stay, the current one counted first; what is not settled   *)
(* keeps its place and is passed over.                                     *)
Surplus(table, y, current) ==
  {d \in Of(y) \ {current} :
     /\ table[d].status \in {"live", "failed", "superseded"}
     /\ Cardinality({e \in Of(y) \ {current} : Newer(e, d)})
          >= IF current = None THEN HistoryDepth ELSE HistoryDepth - 1}

(* yard_cleanup::plan: complete versions of the deploy that no deploy that *)
(* is not pruned shares.                                                   *)
CleanupItems(table, d) ==
  {v \in table[d].files :
     /\ row[v] = "complete"
     /\ \A e \in Deploys \ {d} : v \in table[e].files => table[e].status = "pruned"}

(* mark_pruned: plan, drop the file rows, set the status.                  *)
MarkPruned(table, gone) ==
  /\ cleanup' = [d \in Deploys |->
       IF d \in gone /\ cleanup[d].status = "none" /\ table[d].files # {}
         THEN [status |-> "pending", items |-> CleanupItems(table, d)] ELSE cleanup[d]]
  /\ deploy' = [d \in Deploys |-> IF d \in gone
                  THEN [table[d] EXCEPT !.status = "pruned", !.files = {}] ELSE table[d]]

----------------------------------------------------------------------------
(* POST /v1/yards/deploys/start                                            *)

(* active_named_yard, or the yard this request creates.                    *)
SelectedYard ==
  LET named == {y \in Yards : yard[y].status = "active"}
      fresh == {y \in Yards : yard[y].status = "none" /\ \A x \in Yards : x < y => yard[x].status # "none"}
  IN IF named # {} THEN named ELSE fresh

(* A client_deploy_id seen before is answered from its row.                *)
StartDeploy(d) ==
  /\ deploy[d].status = "none"
  /\ \E y \in SelectedYard :
       /\ yard' = [yard EXCEPT ![y].status = "active"]
       /\ deploy' = [deploy EXCEPT ![d] = [NoDeploy EXCEPT !.status = "uploading", !.yard = y]]
  /\ UNCHANGED <<row, bytes, cleanup, manifest, taken, handler>>

(* Uploads to the deploy's root are ordinary uploads: nothing ties them to *)
(* the deploy's status.                                                    *)
UploadFile(d, r) ==
  /\ deploy[d].status # "none"
  /\ row[<<d, r>>] = "none"
  /\ Cardinality({v \in Versions : row[v] # "none"}) < MaxUploads
  /\ \A q \in 1..MaxRevisions : q < r => row[<<d, q>>] # "none"
  /\ row' = [row EXCEPT ![<<d, r>>] = "complete"]
  /\ bytes' = bytes \cup {<<d, r>>}
  /\ UNCHANGED <<yard, deploy, cleanup, manifest, taken, handler>>

----------------------------------------------------------------------------
(* POST /v1/yards/deploys/finalise                                         *)

(* list_stored_objects: the latest complete version of every path.         *)
Latest(d) ==
  {v \in Versions : /\ v[1] = d /\ row[v] = "complete"
                    /\ \A w \in Versions : w[1] = d /\ row[w] = "complete" => w[2] <= v[2]}

(* predicted_status of the handler and promote_status of the transaction.  *)
PromoteStatus(d) ==
  IF \E e \in Of(deploy[d].yard) : deploy[e].finalised /\ Newer(e, d) THEN "superseded" ELSE "live"

ReadManifest(h, d) ==
  /\ IsIdle(h)
  /\ deploy[d].status # "none"
  /\ yard[deploy[d].yard].status = "active"
  /\ Latest(d) # {}
  /\ handler' = [handler EXCEPT ![h] = [Idle EXCEPT !.step = "finalise", !.deploy = d,
                   !.yard = deploy[d].yard, !.files = Latest(d), !.status = PromoteStatus(d)]]
  /\ UNCHANGED <<yard, deploy, row, bytes, cleanup, manifest, taken>>

(* The table with d finalised as status, before pruning.                   *)
Finalised(d, status, files) ==
  [e \in Deploys |->
     IF e = d THEN [deploy[d] EXCEPT !.status = status, !.finalised = TRUE, !.files = files]
     ELSE IF status = "live" /\ e = yard[deploy[d].yard].current /\ deploy[e].status = "live"
            THEN [deploy[e] EXCEPT !.status = "superseded"]
     ELSE deploy[e]]

(* Mutant: what the handler read is not checked again.                     *)
FinaliseStale(h) ==
  LET d == handler[h].deploy
      y == handler[h].yard
      status == handler[h].status
      current == IF status = "live" THEN d ELSE yard[y].current
      table == Finalised(d, status, handler[h].files) IN
  /\ handler[h].step = "finalise"
  /\ yard[y].status = "active"
  /\ deploy[d].status = "uploading"
  /\ yard' = [yard EXCEPT ![y].current = current]
  /\ MarkPruned(table, Surplus(table, y, current))
  /\ manifest' = [manifest EXCEPT ![d] = handler[h].files]
  /\ Done(h)
  /\ UNCHANGED <<row, bytes, taken>>

(* Mutant: a deploy that finishes last always takes the alias.             *)
FinaliseLastWins(h) ==
  LET d == handler[h].deploy
      y == handler[h].yard
      table == Finalised(d, "live", handler[h].files) IN
  /\ handler[h].step = "finalise"
  /\ yard[y].status = "active"
  /\ deploy[d].status = "uploading"
  /\ \A v \in handler[h].files : row[v] = "complete"
  /\ yard' = [yard EXCEPT ![y].current = d]
  /\ MarkPruned(table, Surplus(table, y, d))
  /\ manifest' = [manifest EXCEPT ![d] = handler[h].files]
  /\ Done(h)
  /\ UNCHANGED <<row, bytes, taken>>

(* finalise of the repository: every file still complete, the audited      *)
(* status the one it arrives at, the history pruned.                       *)
FinaliseDeploy(h) ==
  LET d == handler[h].deploy
      y == handler[h].yard
      status == PromoteStatus(d)
      current == IF status = "live" THEN d ELSE yard[y].current
      table == Finalised(d, status, handler[h].files) IN
  /\ handler[h].step = "finalise"
  /\ yard[y].status = "active"
  /\ deploy[d].status = "uploading"
  /\ \A v \in handler[h].files : row[v] = "complete"
  /\ handler[h].status = status
  /\ yard' = [yard EXCEPT ![y].current = current]
  /\ MarkPruned(table, Surplus(table, y, current))
  /\ manifest' = [manifest EXCEPT ![d] = handler[h].files]
  /\ Done(h)
  /\ UNCHANGED <<row, bytes, taken>>

(* A request ends without a change: refused, answered from the row of a    *)
(* deploy finalised before, or cut off.                                    *)
GiveUp(h) ==
  /\ ~IsIdle(h)
  /\ Done(h)
  /\ UNCHANGED <<yard, deploy, row, bytes, cleanup, manifest, taken>>

----------------------------------------------------------------------------
(* POST /v1/yards/deploys/fail, /v1/yards/rollback and /v1/yards/delete    *)

FailDeploy(d) ==
  LET y == deploy[d].yard
      table == [deploy EXCEPT ![d].status = "failed"] IN
  /\ deploy[d].status = "uploading"
  /\ MarkPruned(table, Surplus(table, y, yard[y].current))
  /\ UNCHANGED <<yard, row, bytes, manifest, taken, handler>>

(* selected_rollback_id of the handler, rollback_target of the repository: *)
(* the deploy asked for, or the newest; a superseded one.                  *)
RollbackTargets(y) == {d \in Of(y) \ {yard[y].current} : deploy[d].status = "superseded"}

SelectRollback(h, y) ==
  /\ IsIdle(h)
  /\ \E d \in RollbackTargets(y) :
       handler' = [handler EXCEPT ![h] = [Idle EXCEPT !.step = "rollback", !.deploy = d, !.yard = y]]
  /\ UNCHANGED <<yard, deploy, row, bytes, cleanup, manifest, taken>>

Rollback(h) ==
  LET d == handler[h].deploy
      y == handler[h].yard IN
  /\ handler[h].step = "rollback"
  /\ yard[y].status = "active"
  /\ d \in RollbackTargets(y)
  /\ deploy' = [e \in Deploys |->
       IF e = d THEN [deploy[e] EXCEPT !.status = "live"]
       ELSE IF e = yard[y].current /\ deploy[e].status = "live"
              THEN [deploy[e] EXCEPT !.status = "superseded"] ELSE deploy[e]]
  /\ yard' = [yard EXCEPT ![y].current = d]
  /\ Done(h)
  /\ UNCHANGED <<row, bytes, cleanup, manifest, taken>>

DeleteYard(y) ==
  /\ yard[y].status = "active"
  /\ yard' = [yard EXCEPT ![y] = [status |-> "deleted", current |-> None]]
  /\ MarkPruned(deploy, {d \in Of(y) : deploy[d].status # "pruned"})
  /\ UNCHANGED <<row, bytes, manifest, taken, handler>>

----------------------------------------------------------------------------
(* Deletion of stored versions                                             *)

(* Rows of the given versions go; the foreign key sets file rows to NULL.  *)
RemoveRows(versions) ==
  /\ row' = [v \in Versions |-> IF v \in versions THEN "gone" ELSE row[v]]
  /\ deploy' = [d \in Deploys |-> [deploy[d] EXCEPT !.files = @ \ versions]]

CleanBytes(d) ==
  /\ cleanup[d].status = "pending"
  /\ \E v \in cleanup[d].items \cap bytes : bytes' = bytes \ {v}
  /\ UNCHANGED <<yard, deploy, row, cleanup, manifest, taken, handler>>

FinishCleanup(d) ==
  /\ cleanup[d].status = "pending"
  /\ cleanup[d].items \cap bytes = {}
  /\ RemoveRows(cleanup[d].items)
  /\ cleanup' = [cleanup EXCEPT ![d].status = "complete"]
  /\ UNCHANGED <<yard, bytes, manifest, taken, handler>>

(* DELETE /v1/objects reaches a deploy's files like any others.            *)
DeleteObject(v) ==
  /\ row[v] = "complete"
  /\ Cardinality(taken) < MaxTaken
  /\ bytes' = bytes \ {v}
  /\ RemoveRows({v})
  /\ taken' = taken \cup {v}
  /\ UNCHANGED <<yard, cleanup, manifest, handler>>

Next ==
  \/ \E h \in Handlers :
       \/ \E d \in Deploys : ReadManifest(h, d)
       \/ FinaliseDeploy(h) \/ GiveUp(h) \/ Rollback(h)
       \/ \E y \in Yards : SelectRollback(h, y)
  \/ \E d \in Deploys :
       \/ \E r \in 1..MaxRevisions : UploadFile(d, r)
       \/ StartDeploy(d) \/ FailDeploy(d) \/ CleanBytes(d) \/ FinishCleanup(d)
  \/ \E y \in Yards : DeleteYard(y)
  \/ \E v \in Versions : DeleteObject(v)

Spec == Init /\ [][Next]_vars

----------------------------------------------------------------------------
(* What the hosts answer                                                   *)

(* stable_deploy and immutable_deploy: the deploy behind each host.        *)
StableDeploy(y) ==
  {d \in Of(y) : yard[y].status = "active" /\ yard[y].current = d /\ deploy[d].status = "live"}

ImmutableDeploys(y) ==
  {d \in Of(y) : yard[y].status = "active" /\ deploy[d].status \in {"live", "superseded"}}

----------------------------------------------------------------------------
(* Properties                                                              *)

YardRows == [status : {"none", "active", "deleted"}, current : Deploys \cup {None}]
DeployRows ==
  [status : {"none", "uploading", "live", "failed", "superseded", "pruned"},
   yard : Yards \cup {None}, finalised : BOOLEAN, files : SUBSET Versions]
Plans == [status : {"none", "pending", "complete"}, items : SUBSET Versions]
Calls ==
  [step : {"idle", "finalise", "rollback"}, deploy : Deploys \cup {None},
   yard : Yards \cup {None}, files : SUBSET Versions, status : {"none", "live", "superseded"}]

(* Tables and handlers hold values of their types, and a row's columns are *)
(* the ones the table's CHECK wants for its status.                        *)
TypeOK ==
  /\ yard \in [Yards -> YardRows]
  /\ deploy \in [Deploys -> DeployRows]
  /\ \A d \in Deploys :
       /\ deploy[d].status \in {"live", "superseded"} => deploy[d].finalised
       /\ deploy[d].status \in {"uploading", "failed"} => ~deploy[d].finalised /\ deploy[d].files = {}
  /\ row \in [Versions -> {"none", "complete", "gone"}]
  /\ bytes \subseteq Versions
  /\ cleanup \in [Deploys -> Plans]
  /\ manifest \in [Deploys -> SUBSET Versions]
  /\ taken \subseteq Versions
  /\ handler \in [Handlers -> Calls]

(* Once a yard has a finalised deploy its stable host answers until the    *)
(* yard is deleted, and the deploy it answers with is the only live one:   *)
(* no race of finalise, rollback and pruning leaves it dangling.           *)
AliasServes ==
  \A y \in Yards :
    yard[y].status = "active" /\ (\E d \in Of(y) : deploy[d].finalised) =>
      /\ StableDeploy(y) # {}
      /\ {d \in Of(y) : deploy[d].status = "live"} = StableDeploy(y)

(* A deploy whose host answers has exactly the files it was finalised with *)
(* and their bytes, except for those an operator deleted by their URI: no  *)
(* cleanup plan of another deploy or yard reaches them.                    *)
RetainedFilesStay ==
  \A y \in Yards : \A d \in ImmutableDeploys(y) :
    /\ deploy[d].files = manifest[d] \ taken
    /\ deploy[d].files \subseteq bytes

(* At most HistoryDepth settled deploys of a yard are kept.                *)
HistoryBounded ==
  \A y \in Yards :
    Cardinality({d \in Of(y) : deploy[d].status \in {"live", "failed", "superseded"}}) <= HistoryDepth

(* What a pruned deploy served is scheduled for deletion or was deleted    *)
(* already, and every deploy of a deleted yard is pruned, requests that    *)
(* began before the deletion included.                                     *)
PrunedIsScheduled ==
  \A d \in Deploys :
    /\ deploy[d].status = "pruned" => manifest[d] \subseteq cleanup[d].items \cup taken
    /\ deploy[d].status # "none" /\ yard[deploy[d].yard].status = "deleted" => deploy[d].status = "pruned"

(* Finalising moves the stable host only to a deploy that is newer than    *)
(* every deploy finalised before: an upload that started earlier and       *)
(* finished later does not replace a later one, nor undo a rollback.       *)
NewestWins ==
  [][\A y \in Yards, d \in Deploys :
       yard[y].current # d /\ yard'[y].current = d /\ ~deploy[d].finalised =>
         \A e \in Of(y) : deploy[e].finalised => Newer(d, e)]_vars

(* What prune keeps is served whole, what it drops is scheduled, and it    *)
(* keeps no more than HistoryDepth deploys, however finalise, rollback,    *)
(* fail and delete interleave.                                             *)
HistoryIsKept == TypeOK /\ RetainedFilesStay /\ HistoryBounded /\ PrunedIsScheduled
=============================================================================
