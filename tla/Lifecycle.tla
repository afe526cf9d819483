----------------------------- MODULE Lifecycle -----------------------------
(***************************************************************************)
(* The object lifecycle of Blob Yard Core: version numbers, durable        *)
(* deletion plans (object deletes, retention runs, yard cleanups), their   *)
(* execution against storage, and what a restart resumes.                  *)
(*                                                                         *)
(* A plan is written in one SQLite transaction; its bytes are then deleted *)
(* one storage call at a time; a second transaction removes the version    *)
(* rows, completes the plan and writes the audit event.  The server's      *)
(* handlers, its startup and the retention command (a process of its own)  *)
(* all execute plans, and more than one may execute the same plan.         *)
(*                                                                         *)
(* Versions are numbered here in the order of created_at_ms, and Uploads   *)
(* is abstracted to a reservation that completes or is aborted.            *)
(***************************************************************************)
EXTENDS Naturals, FiniteSets, FiniteSetsExt

CONSTANTS
  Paths,        \* object paths of one project
  YardPaths,    \* the paths under .blobyard-yard/, which retention protects
  MaxVersions,  \* bound on versions ever reserved
  MaxOps,       \* bound on deletion operations ever planned
  MaxKeep,      \* bound on keep_latest
  Globs,        \* the sets of paths a policy's globs match
  Executors,    \* handlers and commands in flight
  MaxFaults     \* bound on failed storage calls and crashes

ASSUME LifecycleAssumption ==
  /\ YardPaths \subseteq Paths
  /\ Globs \subseteq SUBSET Paths
  /\ MaxVersions \in Nat
  /\ MaxOps \in Nat
  /\ MaxKeep \in Nat \ {0}
  /\ MaxFaults \in Nat

Versions == 1..MaxVersions
Ops == 1..MaxOps
Reasons == {"object_delete", "retention", "yard_cleanup"}
Policies == [keep : 1..MaxKeep, glob : Globs]
Disabled == [keep |-> 1, glob |-> {}]

VARIABLES
  row,          \* object_versions.state, "gone" once the row is removed
  path,         \* object_versions.object_path
  number,       \* object_versions.version
  bytes,        \* the versions whose storage key exists
  op,           \* deletion_operations and their deletion_items
  run,          \* retention_runs.status
  policy,       \* the project's retention policy
  enabled,      \* retention_policies.enabled
  audits,       \* history: audit events written for each operation
  exec,         \* what every executor is doing
  up,           \* the server answers requests
  faults

versions == <<row, path, number, bytes>>
vars == <<versions, op, run, policy, enabled, audits, exec, up, faults>>

NoOp == [reason |-> "none", path |-> "none", sel |-> 0, status |-> "none",
         items |-> {}, policy |-> Disabled]

Idle == [step |-> "idle", op |-> 0, todo |-> {}]

Init ==
  /\ row = [v \in Versions |-> "none"]
  /\ path = [v \in Versions |-> "none"]
  /\ number = [v \in Versions |-> 0]
  /\ bytes = {}
  /\ op = [o \in Ops |-> NoOp]
  /\ run = [o \in Ops |-> "none"]
  /\ policy = Disabled
  /\ enabled = FALSE
  /\ audits = [o \in Ops |-> 0]
  /\ exec = [x \in Executors |-> Idle]
  /\ up = TRUE
  /\ faults = 0

Rows == {v \in Versions : row[v] \in {"pending", "complete", "aborted"}}

Planned == {o \in Ops : op[o].status # "none"}

Pending(reason) == {o \in Ops : op[o].reason = reason /\ op[o].status = "pending"}

IsIdle(x) == exec[x].step = "idle"

Rest(x) == exec' = [exec EXCEPT ![x] = Idle]

(* execute_deletion: nothing to do for a plan that is already complete.    *)
Execute(x, o, items) ==
  exec' = [exec EXCEPT ![x] = [step |-> "bytes", op |-> o, todo |-> items]]

----------------------------------------------------------------------------
(* Uploads, as far as the lifecycle is concerned                           *)

(* target_operation: the object deletes of a target with a status.         *)
Target(p, sel, status) ==
  {o \in Ops : /\ op[o].reason = "object_delete" /\ op[o].status = status
               /\ op[o].path = p /\ op[o].sel = sel}

(* next_version: one more than the highest number among the path's rows    *)
(* and the items of the operations whose object_path is that path: object  *)
(* deletes, as a run's is .retention and a cleanup's a deploy's directory. *)
NextNumber(p) ==
  1 + Max({0} \cup {number[v] : v \in {w \in Rows : path[w] = p}}
              \cup UNION {{number[v] : v \in op[o].items} : o \in UNION {Target(p, sel, status) :
                    sel \in 0..MaxVersions, status \in {"pending", "complete"}}})

(* A reservation of the path's next version.                               *)
ReserveUpload(p) ==
  /\ up
  /\ \E v \in Versions :
       /\ row[v] = "none"
       /\ \A w \in Versions : w < v => row[w] # "none"
       /\ row' = [row EXCEPT ![v] = "pending"]
       /\ path' = [path EXCEPT ![v] = p]
       /\ number' = [number EXCEPT ![v] = NextNumber(p)]
  /\ UNCHANGED <<bytes, op, run, policy, enabled, audits, exec, up, faults>>

CompleteUpload(v) ==
  /\ up
  /\ row[v] = "pending"
  /\ row' = [row EXCEPT ![v] = "complete"]
  /\ bytes' = bytes \cup {v}
  /\ UNCHANGED <<path, number, op, run, policy, enabled, audits, exec, up, faults>>

AbortUpload(v) ==
  /\ up
  /\ row[v] = "pending"
  /\ row' = [row EXCEPT ![v] = "aborted"]
  /\ UNCHANGED <<path, number, bytes, op, run, policy, enabled, audits, exec, up, faults>>

----------------------------------------------------------------------------
(* Planning                                                                *)

(* A new operation with its items, in the transaction that plans it.       *)
InsertOperation(reason, p, sel, items, o) ==
  /\ op[o].status = "none"
  /\ \A q \in Ops : q < o => op[q].status # "none"
  /\ op' = [op EXCEPT ![o] = [reason |-> reason, path |-> p, sel |-> sel,
                              status |-> "pending", items |-> items,
                              policy |-> IF reason = "retention" THEN policy ELSE Disabled]]

Selected(p, sel) == {v \in Rows : path[v] = p /\ sel \in {0, number[v]}}

(* DELETE /v1/objects: a pending operation on the same target is resumed;  *)
(* with nothing left to delete the last completed one answers; a version   *)
(* still being uploaded is a conflict.                                     *)
DeleteObject(x, p, sel) ==
  /\ up
  /\ IsIdle(x)
  /\ \/ \E o \in Target(p, sel, "pending") :
          /\ Execute(x, o, op[o].items)
          /\ UNCHANGED op
     \/ /\ Target(p, sel, "pending") = {}
        /\ Selected(p, sel) # {}
        /\ \A v \in Selected(p, sel) : row[v] # "pending"
        /\ \E o \in Ops :
             LET items == {v \in Selected(p, sel) : row[v] = "complete"} IN
             /\ InsertOperation("object_delete", p, sel, items, o)
             /\ Execute(x, o, items)
  /\ UNCHANGED <<versions, run, policy, enabled, audits, up, faults>>

(* matching_versions: complete, not protected, in the policy's glob; the   *)
(* newest keep_latest of them stay.                                        *)
Matching == {v \in Versions : row[v] = "complete" /\ path[v] \in policy.glob \ YardPaths}
Surplus == {v \in Matching : Cardinality({w \in Matching : w > v}) >= policy.keep}

(* Mutant: a pending run is left alone instead of resumed.                 *)
BeginRetentionAfresh(x) ==
  /\ IsIdle(x)
  /\ enabled
  /\ Pending("retention") = {}
  /\ \E o \in Ops :
       /\ InsertOperation("retention", ".retention", 0, Surplus, o)
       /\ run' = [run EXCEPT ![o] = "running"]
       /\ Execute(x, o, Surplus)
  /\ UNCHANGED <<versions, policy, enabled, audits, up, faults>>

(* begin_retention: resume the project's pending run or plan a new one.    *)
BeginRetention(x) ==
  /\ IsIdle(x)
  /\ enabled
  /\ \/ \E o \in Pending("retention") :
          /\ run' = [run EXCEPT ![o] = "running"]
          /\ Execute(x, o, op[o].items)
          /\ UNCHANGED op
     \/ /\ Pending("retention") = {}
        /\ \E o \in Ops :
             /\ InsertOperation("retention", ".retention", 0, Surplus, o)
             /\ run' = [run EXCEPT ![o] = "running"]
             /\ Execute(x, o, Surplus)
  /\ UNCHANGED <<versions, policy, enabled, audits, up, faults>>

(* Pruning a yard deploy plans the removal of its files, once per deploy   *)
(* (INSERT OR IGNORE); a path of YardPaths stands for the files of one     *)
(* deploy.  The handler that pruned it, or a later one, executes the plan. *)
PlanYardCleanup(p) ==
  /\ up
  /\ p \in YardPaths
  /\ \A o \in Ops : op[o].reason = "yard_cleanup" => op[o].path # p
  /\ \E v \in Rows : path[v] = p
  /\ \E o \in Ops :
       InsertOperation("yard_cleanup", p, 0, {v \in Versions : row[v] = "complete" /\ path[v] = p}, o)
  /\ UNCHANGED <<versions, run, policy, enabled, audits, exec, up, faults>>

(* execute_for_yard, and resume while the server starts.                   *)
ResumeYardCleanup(x) ==
  /\ IsIdle(x)
  /\ \E o \in Pending("yard_cleanup") : Execute(x, o, op[o].items)
  /\ UNCHANGED <<versions, op, run, policy, enabled, audits, up, faults>>

----------------------------------------------------------------------------
(* Execution                                                               *)

(* storage.delete of one item; a missing object is as good as deleted.     *)
DeleteBytes(x) ==
  /\ exec[x].step = "bytes"
  /\ \E v \in exec[x].todo :
       /\ bytes' = bytes \ {v}
       /\ exec' = [exec EXCEPT ![x].todo = @ \ {v}]
  /\ UNCHANGED <<row, path, number, op, run, policy, enabled, audits, up, faults>>

(* What finish_deletion removes: the items' rows, and for an object delete *)
(* the aborted versions of the target.                                     *)
Removed(o) ==
  op[o].items \cup
  {v \in Versions : /\ op[o].reason = "object_delete" /\ row[v] = "aborted"
                    /\ path[v] = op[o].path /\ op[o].sel \in {0, number[v]}}

(* Mutant: metadata goes first.                                            *)
FinishBeforeBytes(x) ==
  /\ exec[x].step = "bytes"
  /\ LET o == exec[x].op IN
     /\ op[o].status = "pending"
     /\ row' = [v \in Versions |-> IF v \in Removed(o) THEN "gone" ELSE row[v]]
     /\ op' = [op EXCEPT ![o].status = "complete"]
     /\ run' = IF op[o].reason = "retention" THEN [run EXCEPT ![o] = "complete"] ELSE run
     /\ audits' = [audits EXCEPT ![o] = @ + 1]
  /\ Rest(x)
  /\ UNCHANGED <<path, number, bytes, policy, enabled, up, faults>>

FinishDeletion(x) ==
  /\ exec[x].step = "bytes"
  /\ exec[x].todo = {}
  /\ LET o == exec[x].op IN
     IF op[o].status = "complete" THEN UNCHANGED <<row, op, run, audits>>
     ELSE /\ row' = [v \in Versions |-> IF v \in Removed(o) THEN "gone" ELSE row[v]]
          /\ op' = [op EXCEPT ![o].status = "complete"]
          /\ run' = IF op[o].reason = "retention" THEN [run EXCEPT ![o] = "complete"] ELSE run
          /\ audits' = [audits EXCEPT ![o] = @ + 1]
  /\ Rest(x)
  /\ UNCHANGED <<path, number, bytes, policy, enabled, up, faults>>

(* A storage call fails: the executor stops with the plan still pending; a *)
(* retention run is marked failed first.                                   *)
StorageFails(x) ==
  /\ exec[x].step = "bytes"
  /\ exec[x].todo # {}
  /\ faults < MaxFaults
  /\ faults' = faults + 1
  /\ IF op[exec[x].op].reason = "retention"
       THEN exec' = [exec EXCEPT ![x] = [@ EXCEPT !.step = "fail", !.todo = {}]]
       ELSE Rest(x)
  /\ UNCHANGED <<versions, op, run, policy, enabled, audits, up>>

FailRetention(x) ==
  /\ exec[x].step = "fail"
  /\ run' = [run EXCEPT ![exec[x].op] = IF @ = "complete" THEN @ ELSE "failed"]
  /\ Rest(x)
  /\ UNCHANGED <<versions, op, policy, enabled, audits, up, faults>>

----------------------------------------------------------------------------
(* PUT and DELETE /v1/retention                                            *)

(* Mutant: a policy is replaced under a run that was planned with it.      *)
SetRetentionAnytime(new) ==
  /\ up
  /\ policy' = new
  /\ enabled' = TRUE
  /\ UNCHANGED <<versions, op, run, audits, exec, up, faults>>

(* Both refuse while a retention operation is pending (assert_no_pending). *)
SetRetention(new) ==
  /\ up
  /\ Pending("retention") = {}
  /\ policy' = new
  /\ enabled' = TRUE
  /\ UNCHANGED <<versions, op, run, audits, exec, up, faults>>

ClearRetention ==
  /\ up
  /\ Pending("retention") = {}
  /\ enabled
  /\ enabled' = FALSE
  /\ UNCHANGED <<versions, op, run, policy, audits, exec, up, faults>>

----------------------------------------------------------------------------
(* The host stops: every executor is lost, plans stay.                     *)
Crash ==
  /\ faults < MaxFaults
  /\ faults' = faults + 1
  /\ up' = FALSE
  /\ exec' = [x \in Executors |-> Idle]
  /\ UNCHANGED <<versions, op, run, policy, enabled, audits>>

(* initialize: the router is built once the pending yard cleanups are      *)
(* done; a failed storage call ends the attempt and the next one starts    *)
(* over.                                                                   *)
StartServer ==
  /\ ~up
  /\ Pending("yard_cleanup") = {}
  /\ up' = TRUE
  /\ UNCHANGED <<versions, op, run, policy, enabled, audits, exec, faults>>

ExecutorStep(x) == DeleteBytes(x) \/ FinishDeletion(x) \/ FailRetention(x)

Next ==
  \/ \E p \in Paths : ReserveUpload(p) \/ PlanYardCleanup(p)
  \/ \E v \in Versions : CompleteUpload(v) \/ AbortUpload(v)
  \/ \E x \in Executors, p \in Paths, sel \in 0..MaxVersions : DeleteObject(x, p, sel)
  \/ \E x \in Executors :
       BeginRetention(x) \/ ResumeYardCleanup(x) \/ ExecutorStep(x) \/ StorageFails(x)
  \/ \E new \in Policies : SetRetention(new)
  \/ ClearRetention
  \/ Crash \/ StartServer

Spec == Init /\ [][Next]_vars

(* Executors run on; the retention command is run again and again, as its  *)
(* schedule asks; the server is started again, and a start resumes the     *)
(* yard cleanups before anything else.                                     *)
Fairness ==
  /\ \A x \in Executors : WF_vars(ExecutorStep(x))
  /\ SF_vars(\E x \in Executors : BeginRetention(x))
  /\ SF_vars(~up /\ \E x \in Executors : ResumeYardCleanup(x))
  /\ WF_vars(StartServer)

LiveSpec == Spec /\ Fairness

----------------------------------------------------------------------------
(* Properties                                                              *)

OpRows ==
  [reason : Reasons \cup {"none"}, path : Paths \cup {"none", ".retention"},
   sel : 0..MaxVersions, status : {"none", "pending", "complete"},
   items : SUBSET Versions, policy : Policies \cup {Disabled}]
ExecRows == [step : {"idle", "bytes", "fail"}, op : Ops \cup {0}, todo : SUBSET Versions]

(* Tables and locals hold values of their types.                           *)
TypeOK ==
  /\ row \in [Versions -> {"none", "pending", "complete", "aborted", "gone"}]
  /\ path \in [Versions -> Paths \cup {"none"}]
  /\ number \in [Versions -> 0..MaxVersions]
  /\ bytes \subseteq Versions
  /\ op \in [Ops -> OpRows]
  /\ run \in [Ops -> {"none", "running", "failed", "complete"}]
  /\ policy \in Policies \cup {Disabled}
  /\ enabled \in BOOLEAN
  /\ audits \in [Ops -> 0..1]
  /\ exec \in [Executors -> ExecRows]
  /\ up \in BOOLEAN
  /\ faults \in 0..MaxFaults

(* A version's row goes only when its bytes are gone: no order of          *)
(* overlapping plans, failures, crashes and resumptions leaves bytes that  *)
(* no row names.                                                           *)
RowsOutliveBytes == \A v \in Versions : row[v] = "gone" => v \notin bytes

(* While a retention run is pending its policy stays enabled and is the    *)
(* one it was planned with: it is found again by retained_projects, and    *)
(* resuming it deletes what the current policy allows.                     *)
PendingRunResumable ==
  \A o \in Pending("retention") : enabled /\ op[o].policy = policy

(* The audit trail and the run table agree with the plans: a plan is       *)
(* complete exactly when its one audit event is written and its run is     *)
(* marked complete, however many executors finish or fail it.              *)
CompletedOnce ==
  \A o \in Planned :
    /\ (op[o].status = "complete") <=> (audits[o] = 1)
    /\ op[o].reason = "retention" => ((op[o].status = "complete") <=> (run[o] = "complete"))

(* A retention run that failed or was cut short is finished by a later     *)
(* one; and a server that stopped answers again, which it does only once   *)
(* the yard cleanups cut short are finished.                               *)
PlansFinish ==
  /\ Pending("retention") # {} ~> Pending("retention") = {}
  /\ ~up ~> up /\ Pending("yard_cleanup") = {}

(* Plans, runs, policy and audit trail agree, so that a plan which was cut *)
(* short is found again and one which ended is never told twice.           *)
PlansAreAccounted == TypeOK /\ PendingRunResumable /\ CompletedOnce
=============================================================================
