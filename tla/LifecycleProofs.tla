-------------------------- MODULE LifecycleProofs --------------------------
(***************************************************************************)
(* Theorems about Lifecycle, for any number of versions, plans, executors  *)
(* and faults; and about AppManifest, for any manifest and any schedule.   *)
(***************************************************************************)
EXTENDS Lifecycle, AppManifest, FiniteSetTheorems, WellFoundedInduction, TLAPS

(* The largest of a set of numbers that is not empty and has a bound.      *)
LEMMA LeastNumber ==
  ASSUME NEW T \in SUBSET Nat, T # {}
  PROVE  \E m \in T : \A n \in T : m <= n
<1> DEFINE R == OpToRel(<, Nat)
<1>1. IsWellFoundedOn(R, Nat)
  BY NatLessThanWellFounded, Zenon
<1>2. \A m, n \in T : <<n, m>> \in R <=> n < m
  BY DEF OpToRel
<1> HIDE DEF R
<1>3. PICK m \in T : \A n \in T : ~ (<<n, m>> \in R)
  BY <1>1, WFMin
<1>4. ASSUME NEW n \in T PROVE m <= n
  <2>1. m \in Nat /\ n \in Nat /\ ~ (n < m)
    BY <1>2, <1>3
  <2> QED BY <2>1
<1> QED BY <1>4

LEMMA MaxIsLargest ==
  ASSUME NEW S \in SUBSET Nat, NEW b \in Nat, \A x \in S : x <= b, S # {}
  PROVE  Max(S) \in S /\ \A x \in S : x <= Max(S)
<1> DEFINE B == {n \in Nat : \A x \in S : x <= n}
<1>1. PICK m \in B : \A n \in B : m <= n
  BY LeastNumber
<1>2. m \in S
  <2>1. SUFFICES ASSUME m \notin S PROVE FALSE
    OBVIOUS
  <2>2. PICK y \in S : TRUE
    OBVIOUS
  <2>3. m \in Nat /\ y \in Nat /\ y <= m /\ y # m
    BY <2>1, <2>2
  <2>4. m - 1 \in B
    BY <2>1, <2>3
  <2> QED BY <1>1, <2>3, <2>4
<1>3. \E x \in S : \A y \in S : x >= y
  BY <1>1, <1>2
<1> QED BY <1>3 DEF Max

-----------------------------------------------------------------------------

(* Versions are reserved in order, and a version's number is at most the   *)
(* number of versions reserved before it.                                  *)
NumbersFollow ==
  \A v \in Versions : row[v] # "none" =>
    /\ number[v] <= v
    /\ \A w \in Versions : w < v => row[w] # "none"

(* What is planned was complete, and is until its row goes.                *)
ItemsWereComplete ==
  \A o \in Ops : \A v \in op[o].items : row[v] \in {"complete", "gone"}

(* An executor works on a plan, and what it has left behind has no bytes.  *)
ExecHolds(x) ==
  /\ exec[x].step # "idle" => exec[x].op \in Ops /\ op[exec[x].op].status # "none"
  /\ exec[x].step = "fail" => op[exec[x].op].reason = "retention"
  /\ exec[x].step = "bytes" => \A v \in op[exec[x].op].items \ exec[x].todo : v \notin bytes

ExecsHold == \A x \in Executors : ExecHolds(x)

(* Only complete rows have bytes.                                          *)
BytesAreNamed == \A v \in bytes : row[v] = "complete"

Typed == TypeOK /\ NumbersFollow

Held == ItemsWereComplete /\ ExecsHold /\ BytesAreNamed

(* A plan and its run start together and end together.                     *)
OpHolds(o) ==
  /\ op[o].status = "complete" <=> audits[o] = 1
  /\ op[o].reason = "retention" => (op[o].status = "complete" <=> run[o] = "complete")
  /\ op[o].status = "none" => op[o] = NoOp

OpsHold == \A o \in Ops : OpHolds(o)

IInv == Typed /\ Held /\ OpsHold /\ PendingRunResumable

LEMMA Bounds ==
  /\ MaxVersions \in Nat /\ MaxOps \in Nat /\ MaxFaults \in Nat /\ MaxKeep \in Nat \ {0}
  /\ Versions \subseteq Nat \ {0} /\ Ops \subseteq Nat \ {0}
  /\ \A v \in Versions : v <= MaxVersions
  BY LifecycleAssumption DEF Versions, Ops

LEMMA Blanks ==
  /\ NoOp \in OpRows /\ NoOp.status = "none" /\ NoOp.reason = "none" /\ NoOp.items = {}
  /\ Idle \in ExecRows /\ Idle.step = "idle"
  BY Bounds DEF NoOp, OpRows, Idle, ExecRows

(* The next number of a path is at most the number of the reservation.     *)
LEMMA NextNumberFollows ==
  ASSUME Typed, ItemsWereComplete, NEW p \in Paths, NEW v \in Versions, row[v] = "none"
  PROVE  NextNumber(p) \in Nat /\ NextNumber(p) <= v
<1> DEFINE Used == {number[w] : w \in {u \in Rows : path[u] = p}}
           Plans == UNION {Target(p, sel, status) :
                             sel \in 0..MaxVersions, status \in {"pending", "complete"}}
           Kept == UNION {{number[w] : w \in op[o].items} : o \in Plans}
           S == {0} \cup Used \cup Kept
<1>1. ASSUME NEW w \in Versions, row[w] # "none" PROVE number[w] \in Nat /\ number[w] <= v - 1
  <2>1. v \in Nat \ {0} /\ w \in Nat /\ number[w] \in Nat /\ number[w] <= w /\ w # v
    BY <1>1, Bounds DEF Typed, TypeOK, NumbersFollow
  <2>2. ~ (v < w)
    BY <1>1 DEF Typed, NumbersFollow
  <2> QED BY <2>1, <2>2
<1>2. Used \subseteq {number[w] : w \in {u \in Versions : row[u] # "none"}}
  BY DEF Rows
<1>3. Plans \subseteq Ops
  BY DEF Target
<1>4. \A o \in Ops : \A w \in op[o].items : w \in Versions /\ row[w] # "none"
  BY DEF Typed, TypeOK, OpRows, ItemsWereComplete
<1>5. Kept \subseteq {number[w] : w \in {u \in Versions : row[u] # "none"}}
  <2> HIDE DEF Plans
  <2> QED BY <1>3, <1>4
<1>6. v \in Nat \ {0} /\ v - 1 \in Nat
  BY Bounds
<1>7. S \in SUBSET Nat /\ (\A x \in S : x <= v - 1) /\ S # {}
  <2> HIDE DEF Used, Kept
  <2> QED BY <1>1, <1>2, <1>5, <1>6
<1>8. NextNumber(p) = 1 + Max(S)
  BY DEF NextNumber
<1> HIDE DEF S
<1>9. Max(S) \in S
  BY <1>6, <1>7, MaxIsLargest
<1>10. Max(S) \in Nat /\ Max(S) <= v - 1
  BY <1>7, <1>9
<1> QED BY <1>6, <1>8, <1>10

LEMMA UploadTyped ==
  ASSUME Typed, ItemsWereComplete,
         \/ \E p \in Paths : ReserveUpload(p)
         \/ \E v \in Versions : CompleteUpload(v) \/ AbortUpload(v)
  PROVE  Typed'
<1>1. ASSUME NEW p \in Paths, ReserveUpload(p) PROVE Typed'
  <2>1. PICK v \in Versions :
          /\ row[v] = "none"
          /\ \A w \in Versions : w < v => row[w] # "none"
          /\ row' = [row EXCEPT ![v] = "pending"]
          /\ path' = [path EXCEPT ![v] = p]
          /\ number' = [number EXCEPT ![v] = NextNumber(p)]
    BY <1>1 DEF ReserveUpload
  <2>2. UNCHANGED <<bytes, op, run, policy, enabled, audits, exec, up, faults>>
    BY <1>1 DEF ReserveUpload
  <2>3. NextNumber(p) \in Nat /\ NextNumber(p) <= v /\ v \in Nat /\ v <= MaxVersions
    BY <2>1, NextNumberFollows, Bounds
  <2>4. NextNumber(p) \in 0..MaxVersions
    BY <2>3, Bounds
  <2>5. TypeOK'
    BY <2>1, <2>2, <2>4 DEF Typed, TypeOK
  <2>6. NumbersFollow'
    BY <2>1, <2>3 DEF Typed, TypeOK, NumbersFollow
  <2> QED BY <2>5, <2>6 DEF Typed
<1>2. ASSUME NEW v \in Versions, CompleteUpload(v) \/ AbortUpload(v) PROVE Typed'
  BY <1>2 DEF CompleteUpload, AbortUpload, Typed, TypeOK, NumbersFollow
<1> QED BY <1>1, <1>2

-----------------------------------------------------------------------------
(* Planning and execution, taken apart for the proofs below.               *)

NewOp(reason, p, sel, items) ==
  [reason |-> reason, path |-> p, sel |-> sel, status |-> "pending", items |-> items,
   policy |-> IF reason = "retention" THEN policy ELSE Disabled]

LEMMA NewOpRow ==
  ASSUME Typed, NEW reason \in Reasons, NEW p \in Paths \cup {".retention"},
         NEW sel \in 0..MaxVersions, NEW items \in SUBSET Versions
  PROVE  /\ NewOp(reason, p, sel, items) \in OpRows
         /\ NewOp(reason, p, sel, items).status = "pending"
         /\ NewOp(reason, p, sel, items).reason = reason
         /\ NewOp(reason, p, sel, items).items = items
         /\ reason = "retention" => NewOp(reason, p, sel, items).policy = policy
<1>1. (IF reason = "retention" THEN policy ELSE Disabled) \in Policies \cup {Disabled}
  BY DEF Typed, TypeOK
<1> QED BY <1>1 DEF NewOp, OpRows

LEMMA NewExecRow ==
  ASSUME NEW o \in Ops, NEW items \in SUBSET Versions
  PROVE  [step |-> "bytes", op |-> o, todo |-> items] \in ExecRows
  BY DEF ExecRows

(* Who plans what: a new plan holds complete versions only.                *)
Plans(o, reason, items) ==
  /\ op[o] = NoOp
  /\ reason \in Reasons
  /\ items \subseteq {v \in Versions : row[v] = "complete"}
  /\ \E p \in Paths \cup {".retention"}, sel \in 0..MaxVersions :
       op' = [op EXCEPT ![o] = NewOp(reason, p, sel, items)]

LEMMA InsertPlans ==
  ASSUME Typed, OpsHold, NEW o \in Ops, NEW reason \in Reasons, NEW p \in Paths \cup {".retention"},
         NEW sel \in 0..MaxVersions,
         NEW items \in SUBSET {v \in Versions : row[v] = "complete"},
         InsertOperation(reason, p, sel, items, o)
  PROVE  Plans(o, reason, items)
  BY DEF InsertOperation, Plans, NewOp, OpsHold, OpHolds

(* The steps of the lifecycle but uploads and policies: a plan is made, an *)
(* executor takes one up, goes on, ends or stops.                          *)
Unmoved == <<versions, policy, enabled, audits, up, faults>>

PlanStep(o) ==
  \/ /\ \E items \in SUBSET Versions :
          Plans(o, "yard_cleanup", items)
     /\ UNCHANGED <<run, exec, Unmoved>>
  \/ \E x \in Executors, items \in SUBSET Versions :
       /\ Plans(o, "object_delete", items)
       /\ Execute(x, o, items)
       /\ UNCHANGED <<run, Unmoved>>
  \/ \E x \in Executors, items \in SUBSET Versions :
       /\ enabled
       /\ Plans(o, "retention", items)
       /\ run' = [run EXCEPT ![o] = "running"]
       /\ Execute(x, o, items)
       /\ UNCHANGED Unmoved

TakeUp(o) ==
  /\ op[o].status = "pending"
  /\ \E x \in Executors : Execute(x, o, op[o].items)
  /\ \/ run' = run
     \/ op[o].reason = "retention" /\ run' = [run EXCEPT ![o] = "running"]
  /\ UNCHANGED <<op, Unmoved>>

LEMMA PlanningSteps ==
  ASSUME Typed, OpsHold,
         \/ \E p \in Paths : PlanYardCleanup(p)
         \/ \E x \in Executors, p \in Paths, sel \in 0..MaxVersions : DeleteObject(x, p, sel)
         \/ \E x \in Executors : BeginRetention(x) \/ ResumeYardCleanup(x)
  PROVE  \E o \in Ops : PlanStep(o) \/ TakeUp(o)
<1>0. 0 \in 0..MaxVersions
  BY Bounds
<1>1. ASSUME NEW p \in Paths, PlanYardCleanup(p) PROVE \E o \in Ops : PlanStep(o)
  <2> DEFINE items == {v \in Versions : row[v] = "complete" /\ path[v] = p}
  <2>1. PICK o \in Ops : InsertOperation("yard_cleanup", p, 0, items, o)
    BY <1>1 DEF PlanYardCleanup
  <2>2. items \in SUBSET {v \in Versions : row[v] = "complete"}
    OBVIOUS
  <2>3. UNCHANGED <<run, exec, Unmoved>>
    BY <1>1 DEF PlanYardCleanup, Unmoved
  <2> HIDE DEF items
  <2>4. Plans(o, "yard_cleanup", items)
    BY <1>0, <2>1, <2>2, InsertPlans DEF Reasons
  <2> QED BY <2>2, <2>3, <2>4 DEF PlanStep
<1>2. ASSUME NEW x \in Executors, NEW p \in Paths, NEW sel \in 0..MaxVersions, DeleteObject(x, p, sel)
      PROVE  \E o \in Ops : PlanStep(o) \/ TakeUp(o)
  <2>0. UNCHANGED <<run, Unmoved>>
    BY <1>2 DEF DeleteObject, Unmoved
  <2>1. CASE \E o \in Target(p, sel, "pending") : Execute(x, o, op[o].items) /\ UNCHANGED op
    BY <2>0, <2>1 DEF Target, TakeUp
  <2>2. CASE \E o \in Ops :
               LET items == {v \in Selected(p, sel) : row[v] = "complete"} IN
               InsertOperation("object_delete", p, sel, items, o) /\ Execute(x, o, items)
    <3> DEFINE items == {v \in Selected(p, sel) : row[v] = "complete"}
    <3>1. PICK o \in Ops : InsertOperation("object_delete", p, sel, items, o) /\ Execute(x, o, items)
      BY <2>2
    <3>2. items \in SUBSET {v \in Versions : row[v] = "complete"}
      BY DEF Selected, Rows
    <3> HIDE DEF items
    <3>3. Plans(o, "object_delete", items)
      BY <3>1, <3>2, InsertPlans DEF Reasons
    <3> QED BY <2>0, <3>1, <3>2, <3>3 DEF PlanStep
  <2> QED BY <1>2, <2>1, <2>2 DEF DeleteObject
<1>3. ASSUME NEW x \in Executors, BeginRetention(x)
      PROVE  \E o \in Ops : PlanStep(o) \/ TakeUp(o)
  <2>0. enabled /\ UNCHANGED Unmoved
    BY <1>3 DEF BeginRetention, Unmoved
  <2>1. CASE \E o \in Pending("retention") :
               /\ run' = [run EXCEPT ![o] = "running"]
               /\ Execute(x, o, op[o].items) /\ UNCHANGED op
    BY <2>0, <2>1 DEF Pending, TakeUp
  <2>2. CASE \E o \in Ops : /\ InsertOperation("retention", ".retention", 0, Surplus, o)
                            /\ run' = [run EXCEPT ![o] = "running"]
                            /\ Execute(x, o, Surplus)
    <3>1. PICK o \in Ops : /\ InsertOperation("retention", ".retention", 0, Surplus, o)
                           /\ run' = [run EXCEPT ![o] = "running"]
                           /\ Execute(x, o, Surplus)
      BY <2>2
    <3>2. Surplus \in SUBSET {v \in Versions : row[v] = "complete"}
      BY DEF Surplus, Matching
    <3>3. Plans(o, "retention", Surplus)
      BY <1>0, <3>1, <3>2, InsertPlans DEF Reasons
    <3> QED BY <2>0, <3>1, <3>2, <3>3 DEF PlanStep
  <2> QED BY <1>3, <2>1, <2>2 DEF BeginRetention
<1>4. ASSUME NEW x \in Executors, ResumeYardCleanup(x) PROVE \E o \in Ops : TakeUp(o)
  <2>1. UNCHANGED <<op, run, Unmoved>>
    BY <1>4 DEF ResumeYardCleanup, Unmoved
  <2> QED BY <1>4, <2>1 DEF ResumeYardCleanup, Pending, TakeUp
<1> QED BY <1>1, <1>2, <1>3, <1>4

-----------------------------------------------------------------------------
(* Every step keeps the invariant.                                         *)

LEMMA UploadKeeps ==
  ASSUME IInv,
         \/ \E p \in Paths : ReserveUpload(p)
         \/ \E v \in Versions : CompleteUpload(v) \/ AbortUpload(v)
  PROVE  IInv'
<1> USE DEF IInv
<1>1. Typed'
  BY UploadTyped DEF Held
<1>2. UNCHANGED <<op, run, policy, enabled, audits, exec>>
  BY DEF ReserveUpload, CompleteUpload, AbortUpload
<1>3. OpsHold' /\ PendingRunResumable'
  BY <1>2 DEF OpsHold, OpHolds, PendingRunResumable, Pending
<1>4. PICK v \in Versions :
        /\ row[v] \in {"none", "pending"}
        /\ \/ row' = [row EXCEPT ![v] = "pending"] /\ bytes' = bytes
           \/ row' = [row EXCEPT ![v] = "aborted"] /\ bytes' = bytes
           \/ row' = [row EXCEPT ![v] = "complete"] /\ bytes' = bytes \cup {v}
  BY DEF ReserveUpload, CompleteUpload, AbortUpload
<1>5. \A o \in Ops : v \notin op[o].items /\ op[o].items \subseteq Versions
  BY <1>4 DEF Held, ItemsWereComplete, Typed, TypeOK, OpRows
<1>6. /\ \/ row'[v] \in {"pending", "aborted"} /\ bytes' = bytes
         \/ row'[v] = "complete" /\ bytes' = bytes \cup {v}
      /\ \A w \in Versions \ {v} : row'[w] = row[w]
  BY <1>4 DEF Typed, TypeOK
<1>7. ItemsWereComplete'
  BY <1>2, <1>5, <1>6 DEF Held, ItemsWereComplete
<1>8. ExecsHold'
  <2> SUFFICES ASSUME NEW x \in Executors PROVE ExecHolds(x)'
    BY DEF ExecsHold
  <2>1. ExecHolds(x)
    BY DEF Held, ExecsHold
  <2> QED BY <1>2, <1>5, <1>6, <2>1 DEF ExecHolds
<1>9. BytesAreNamed'
  BY <1>4, <1>6 DEF Held, BytesAreNamed, Typed, TypeOK
<1> QED BY <1>1, <1>3, <1>7, <1>8, <1>9 DEF Held

LEMMA ExecuteHolds ==
  ASSUME IInv, NEW x \in Executors, NEW o \in Ops, NEW items \in SUBSET Versions,
         Execute(x, o, items), op'[o].status # "none", op'[o].items = items, bytes' = bytes,
         \A q \in Ops \ {o} : op'[q] = op[q], op[o].status # "none" => op'[o] = op[o]
  PROVE  exec' \in [Executors -> ExecRows] /\ ExecsHold'
<1> DEFINE r == [step |-> "bytes", op |-> o, todo |-> items]
<1>1. r \in ExecRows /\ r.step = "bytes" /\ r.op = o /\ r.todo = items
  BY NewExecRow
<1>2. exec \in [Executors -> ExecRows] /\ exec' = [exec EXCEPT ![x] = r]
  BY DEF IInv, Typed, TypeOK, Execute
<1> HIDE DEF r
<1>3. ASSUME NEW y \in Executors PROVE ExecHolds(y)'
  <2>1. CASE y = x
    BY <1>1, <1>2, <2>1 DEF ExecHolds
  <2>2. CASE y # x
    <3>1. exec'[y] = exec[y] /\ ExecHolds(y)
      BY <1>2, <2>2 DEF IInv, Held, ExecsHold
    <3>2. exec[y].step # "idle" => op'[exec[y].op] = op[exec[y].op]
      BY <3>1 DEF ExecHolds
    <3>3. exec[y].step # "bytes" \/ exec[y].step # "idle"
      OBVIOUS
    <3>4. exec[y].step = "fail" => exec[y].step # "idle"
      OBVIOUS
    <3> QED BY <3>1, <3>2 DEF ExecHolds
  <2> QED BY <2>1, <2>2
<1> QED BY <1>1, <1>2, <1>3 DEF ExecsHold

LEMMA PlanKeeps ==
  ASSUME IInv, NEW o \in Ops, PlanStep(o)
  PROVE  IInv'
<1> USE DEF IInv
<1>1. PICK reason \in Reasons, items \in SUBSET Versions :
        /\ Plans(o, reason, items)
        /\ \/ reason # "retention" /\ run' = run
           \/ reason = "retention" /\ enabled /\ run' = [run EXCEPT ![o] = "running"]
        /\ \/ exec' = exec
           \/ \E x \in Executors : Execute(x, o, items)
        /\ UNCHANGED Unmoved
  <2>1. "yard_cleanup" \in Reasons /\ "object_delete" \in Reasons /\ "retention" \in Reasons
    BY DEF Reasons
  <2> QED BY <2>1 DEF PlanStep
<1>2. PICK new \in OpRows :
        /\ new.status = "pending" /\ new.reason = reason /\ new.items = items
        /\ reason = "retention" => new.policy = policy
        /\ op' = [op EXCEPT ![o] = new]
  <2>1. PICK p \in Paths \cup {".retention"}, sel \in 0..MaxVersions :
          op' = [op EXCEPT ![o] = NewOp(reason, p, sel, items)]
    BY <1>1 DEF Plans
  <2> DEFINE new == NewOp(reason, p, sel, items)
  <2>2. /\ new \in OpRows /\ new.status = "pending" /\ new.reason = reason /\ new.items = items
        /\ reason = "retention" => new.policy = policy
    BY NewOpRow
  <2> HIDE DEF new
  <2>3. op' = [op EXCEPT ![o] = new]
    BY <2>1 DEF new
  <2> QED BY <2>2, <2>3
<1>3. op \in [Ops -> OpRows] /\ op'[o] = new /\ \A q \in Ops \ {o} : op'[q] = op[q]
  BY <1>2 DEF Typed, TypeOK
<1>4. op[o].status = "none" /\ items \subseteq {v \in Versions : row[v] = "complete"}
  BY <1>1, Blanks DEF Plans
<1>5. UNCHANGED <<row, path, number, bytes, policy, enabled, audits, up, faults>>
  BY <1>1 DEF Unmoved, versions
<1>6. exec' \in [Executors -> ExecRows] /\ ExecsHold'
  <2>1. CASE exec' = exec
    <3> SUFFICES ASSUME NEW x \in Executors PROVE ExecHolds(x)'
      BY <2>1 DEF ExecsHold, Typed, TypeOK
    <3>1. ExecHolds(x)
      BY DEF Held, ExecsHold
    <3>2. exec[x].step # "idle" => op'[exec[x].op] = op[exec[x].op]
      BY <1>3, <1>4, <3>1 DEF ExecHolds
    <3> QED BY <1>5, <2>1, <3>1, <3>2 DEF ExecHolds
  <2>2. CASE \E x \in Executors : Execute(x, o, items)
    BY <1>2, <1>3, <1>4, <1>5, <2>2, ExecuteHolds
  <2> QED BY <1>1, <2>1, <2>2
<1>7. run' \in [Ops -> {"none", "running", "failed", "complete"}]
  BY <1>1 DEF Typed, TypeOK
<1>8. Typed'
  BY <1>2, <1>3, <1>5, <1>6, <1>7 DEF Typed, TypeOK, NumbersFollow
<1>9. ItemsWereComplete' /\ BytesAreNamed'
  BY <1>2, <1>3, <1>4, <1>5 DEF Held, ItemsWereComplete, BytesAreNamed
<1>10. OpsHold'
  <2> SUFFICES ASSUME NEW q \in Ops PROVE OpHolds(q)'
    BY DEF OpsHold
  <2>1. OpHolds(q) /\ OpHolds(o)
    BY DEF OpsHold
  <2>2. CASE q = o
    BY <1>1, <1>2, <1>3, <1>4, <1>5, <2>1, <2>2 DEF OpHolds, Typed, TypeOK
  <2>3. CASE q # o
    <3>1. run'[q] = run[q]
      BY <1>1, <2>3 DEF Typed, TypeOK
    <3> QED BY <1>3, <1>5, <2>1, <2>3, <3>1 DEF OpHolds
  <2> QED BY <2>2, <2>3
<1>11. PendingRunResumable'
  BY <1>1, <1>2, <1>3, <1>5 DEF PendingRunResumable, Pending
<1> QED BY <1>6, <1>8, <1>9, <1>10, <1>11 DEF Held

LEMMA TakeUpKeeps ==
  ASSUME IInv, NEW o \in Ops, TakeUp(o)
  PROVE  IInv'
<1> USE DEF IInv
<1>1. op[o].status = "pending" /\ op[o].items \in SUBSET Versions
  BY DEF TakeUp, Typed, TypeOK, OpRows
<1>2. UNCHANGED <<row, path, number, bytes, op, policy, enabled, audits, up, faults>>
  BY DEF TakeUp, Unmoved, versions
<1>3. exec' \in [Executors -> ExecRows] /\ ExecsHold'
  BY <1>1, <1>2, ExecuteHolds DEF TakeUp
<1>4. /\ run' \in [Ops -> {"none", "running", "failed", "complete"}]
      /\ \A q \in Ops : run'[q] = run[q] \/ (q = o /\ run'[q] = "running")
  BY DEF TakeUp, Typed, TypeOK
<1>5. Typed' /\ ItemsWereComplete' /\ BytesAreNamed' /\ PendingRunResumable'
  BY <1>2, <1>3, <1>4 DEF Typed, TypeOK, NumbersFollow, Held, ItemsWereComplete, BytesAreNamed,
     PendingRunResumable, Pending
<1>6. OpsHold'
  BY <1>1, <1>2, <1>4 DEF OpsHold, OpHolds
<1> QED BY <1>3, <1>5, <1>6 DEF Held

LEMMA DeleteBytesKeeps ==
  ASSUME IInv, NEW x \in Executors, DeleteBytes(x)
  PROVE  IInv'
<1> USE DEF IInv
<1>1. PICK v \in exec[x].todo :
        bytes' = bytes \ {v} /\ exec' = [exec EXCEPT ![x].todo = exec[x].todo \ {v}]
  BY DEF DeleteBytes, Typed, TypeOK
<1>2. UNCHANGED <<row, path, number, op, run, policy, enabled, audits, up, faults>>
  BY DEF DeleteBytes
<1>3. /\ exec' \in [Executors -> ExecRows]
      /\ \A y \in Executors :
           /\ exec'[y].step = exec[y].step /\ exec'[y].op = exec[y].op
           /\ exec[y].todo \subseteq exec'[y].todo \cup {v}
  BY <1>1 DEF Typed, TypeOK, ExecRows
<1>4. Typed' /\ OpsHold' /\ PendingRunResumable'
  BY <1>1, <1>2, <1>3 DEF Typed, TypeOK, NumbersFollow, OpsHold, OpHolds, PendingRunResumable, Pending
<1>5. ItemsWereComplete' /\ BytesAreNamed'
  BY <1>1, <1>2 DEF Held, ItemsWereComplete, BytesAreNamed
<1>6. ExecsHold'
  <2> SUFFICES ASSUME NEW y \in Executors PROVE ExecHolds(y)'
    BY DEF ExecsHold
  <2>1. ExecHolds(y)
    BY DEF Held, ExecsHold
  <2> QED BY <1>1, <1>2, <1>3, <2>1 DEF ExecHolds
<1> QED BY <1>4, <1>5, <1>6 DEF Held

LEMMA CompletedRow ==
  ASSUME NEW old \in OpRows
  PROVE  LET new == [old EXCEPT !.status = "complete"] IN
         /\ new \in OpRows
         /\ new.status = "complete" /\ new.reason = old.reason /\ new.items = old.items
  BY DEF OpRows

(* An executor that stops.                                                 *)
LEMMA RestHolds ==
  ASSUME IInv, NEW x \in Executors, Rest(x)
  PROVE  /\ exec' \in [Executors -> ExecRows]
         /\ \A y \in Executors : exec'[y] = exec[y] \/ exec'[y] = Idle
  BY Blanks DEF IInv, Typed, TypeOK, Rest

LEMMA FinishKeeps ==
  ASSUME IInv, NEW x \in Executors, FinishDeletion(x)
  PROVE  IInv'
<1> USE DEF IInv
<1> DEFINE o == exec[x].op
<1>1. UNCHANGED <<path, number, bytes, policy, enabled, up, faults>> /\ Rest(x)
  BY DEF FinishDeletion
<1>2. /\ o \in Ops /\ op[o].status # "none" /\ op[o] \in OpRows
      /\ \A v \in op[o].items : v \notin bytes
  BY DEF FinishDeletion, Held, ExecsHold, ExecHolds, Typed, TypeOK
<1>3. CASE UNCHANGED <<row, op, run, audits>>
  <2>1. Typed' /\ OpsHold' /\ PendingRunResumable' /\ ItemsWereComplete' /\ BytesAreNamed'
    BY <1>1, <1>3, RestHolds DEF Typed, TypeOK, NumbersFollow, OpsHold, OpHolds, PendingRunResumable,
       Pending, Held, ItemsWereComplete, BytesAreNamed
  <2>2. ExecsHold'
    BY <1>1, <1>3, RestHolds, Blanks DEF Held, ExecsHold, ExecHolds
  <2> QED BY <2>1, <2>2 DEF Held
<1>4. CASE /\ op[o].status # "complete"
           /\ row' = [v \in Versions |-> IF v \in Removed(o) THEN "gone" ELSE row[v]]
           /\ op' = [op EXCEPT ![o].status = "complete"]
           /\ run' = IF op[o].reason = "retention" THEN [run EXCEPT ![o] = "complete"] ELSE run
           /\ audits' = [audits EXCEPT ![o] = @ + 1]
  <2>1. PICK new \in OpRows :
          /\ new = [op[o] EXCEPT !.status = "complete"]
          /\ new.status = "complete" /\ new.reason = op[o].reason /\ new.items = op[o].items
    BY <1>2, CompletedRow
  <2>2. /\ op' = [op EXCEPT ![o] = new] /\ op'[o] = new
        /\ \A q \in Ops \ {o} : op'[q] = op[q]
    BY <1>2, <1>4, <2>1 DEF Typed, TypeOK
  <2>3. \A q \in Ops : /\ op'[q].reason = op[q].reason /\ op'[q].items = op[q].items
                       /\ op[q].status # "none" => op'[q].status # "none"
    BY <2>1, <2>2
  <2>4. \A v \in Versions :
          \/ row'[v] = row[v]
          \/ row'[v] = "gone" /\ v \notin bytes /\ row[v] # "none"
    <3>1. \A v \in Removed(o) : v \notin bytes /\ row[v] # "none"
      BY <1>2 DEF Removed, Held, BytesAreNamed, ItemsWereComplete
    <3> QED BY <1>4, <3>1
  <2>5. \A v \in Versions : row[v] = "complete" => row'[v] \in {"complete", "gone"}
    BY <2>4
  <2>6. \A v \in Versions : row[v] = "gone" => row'[v] = "gone"
    BY <2>4
  <2>7. op[o].status = "pending" /\ audits[o] = 0
    <3>1. op[o].status = "pending"
      BY <1>2, <1>4 DEF OpRows
    <3>2. audits[o] \in 0..1 /\ audits[o] # 1
      BY <1>2, <3>1 DEF OpsHold, OpHolds, Typed, TypeOK
    <3> QED BY <3>1, <3>2
  <2>8. /\ audits' \in [Ops -> 0..1] /\ audits'[o] = 1
        /\ \A q \in Ops \ {o} : audits'[q] = audits[q]
    BY <1>2, <1>4, <2>7 DEF Typed, TypeOK
  <2>9. /\ run' \in [Ops -> {"none", "running", "failed", "complete"}]
        /\ op[o].reason = "retention" => run'[o] = "complete"
        /\ \A q \in Ops \ {o} : run'[q] = run[q]
    BY <1>2, <1>4 DEF Typed, TypeOK
  <2>10. row' \in [Versions -> {"none", "pending", "complete", "aborted", "gone"}]
    BY <1>4 DEF Typed, TypeOK
  <2>11. TypeOK'
    BY <1>1, <2>1, <2>2, <2>8, <2>9, <2>10, RestHolds DEF Typed, TypeOK
  <2>12. NumbersFollow'
    BY <1>1, <2>4 DEF Typed, NumbersFollow
  <2>13. ItemsWereComplete'
    <3>1. \A q \in Ops : \A v \in op[q].items : v \in Versions /\ row[v] \in {"complete", "gone"}
      BY DEF Held, ItemsWereComplete, Typed, TypeOK, OpRows
    <3> QED BY <2>3, <2>5, <2>6, <3>1 DEF ItemsWereComplete
  <2>14. BytesAreNamed'
    BY <1>1, <2>4 DEF Held, BytesAreNamed, Typed, TypeOK
  <2>15. ExecsHold'
    BY <1>1, <2>3, RestHolds, Blanks DEF Held, ExecsHold, ExecHolds
  <2>16. OpsHold'
    <3> SUFFICES ASSUME NEW q \in Ops PROVE OpHolds(q)'
      BY DEF OpsHold
    <3>1. OpHolds(q)
      BY DEF OpsHold
    <3>2. CASE q = o
      BY <2>1, <2>2, <2>8, <2>9, <3>2 DEF OpHolds
    <3>3. CASE q # o
      BY <2>2, <2>8, <2>9, <3>1, <3>3 DEF OpHolds
    <3> QED BY <3>2, <3>3
  <2>17. PendingRunResumable'
    BY <1>1, <2>1, <2>2 DEF PendingRunResumable, Pending
  <2> QED BY <2>11, <2>12, <2>13, <2>14, <2>15, <2>16, <2>17 DEF Typed, Held
<1> QED BY <1>3, <1>4 DEF FinishDeletion

LEMMA FailKeeps ==
  ASSUME IInv, NEW x \in Executors, StorageFails(x) \/ FailRetention(x)
  PROVE  IInv'
<1> USE DEF IInv
<1>1. UNCHANGED <<row, path, number, bytes, op, policy, enabled, audits, up>>
  BY DEF StorageFails, FailRetention, versions
<1>2. /\ exec' \in [Executors -> ExecRows]
      /\ \A y \in Executors :
           \/ exec'[y] = exec[y]
           \/ exec'[y] = Idle
           \/ /\ exec[y].step = "bytes" /\ exec'[y].step = "fail" /\ exec'[y].op = exec[y].op
              /\ op[exec[y].op].reason = "retention"
  <2>1. CASE Rest(x)
    BY <2>1, RestHolds
  <2>2. CASE /\ exec[x].step = "bytes" /\ op[exec[x].op].reason = "retention"
             /\ exec' = [exec EXCEPT ![x] = [@ EXCEPT !.step = "fail", !.todo = {}]]
    <3> DEFINE r == [exec[x] EXCEPT !.step = "fail", !.todo = {}]
    <3>1. r \in ExecRows /\ r.step = "fail" /\ r.op = exec[x].op
      BY DEF Typed, TypeOK, ExecRows
    <3>2. exec' = [exec EXCEPT ![x] = r]
      BY <2>2 DEF Typed, TypeOK
    <3> HIDE DEF r
    <3> QED BY <2>2, <3>1, <3>2 DEF Typed, TypeOK
  <2> QED BY <2>1, <2>2 DEF StorageFails, FailRetention
<1>3. ExecsHold'
  BY <1>1, <1>2, Blanks DEF Held, ExecsHold, ExecHolds
<1>4. /\ run' \in [Ops -> {"none", "running", "failed", "complete"}]
      /\ \A o \in Ops : run'[o] = "complete" <=> run[o] = "complete"
  BY DEF StorageFails, FailRetention, Typed, TypeOK
<1>5. faults' \in 0..MaxFaults
  BY Bounds DEF StorageFails, FailRetention, Typed, TypeOK
<1>6. Typed' /\ ItemsWereComplete' /\ BytesAreNamed' /\ PendingRunResumable' /\ OpsHold'
  BY <1>1, <1>2, <1>4, <1>5 DEF Typed, TypeOK, NumbersFollow, Held, ItemsWereComplete, BytesAreNamed,
     PendingRunResumable, Pending, OpsHold, OpHolds
<1> QED BY <1>3, <1>6 DEF Held

LEMMA RestOfNextKeeps ==
  ASSUME IInv,
         \/ \E new \in Policies : SetRetention(new)
         \/ ClearRetention
         \/ Crash
         \/ StartServer
         \/ UNCHANGED vars
  PROVE  IInv'
<1> USE DEF IInv
<1>1. UNCHANGED <<row, path, number, bytes, op, run, audits>>
  BY DEF SetRetention, ClearRetention, Crash, StartServer, vars, versions
<1>2. exec' \in [Executors -> ExecRows] /\ ExecsHold'
  <2>1. \A y \in Executors : exec'[y] = exec[y] \/ exec'[y] = Idle
    BY DEF SetRetention, ClearRetention, Crash, StartServer, vars
  <2>2. exec' \in [Executors -> ExecRows]
    BY Blanks DEF SetRetention, ClearRetention, Crash, StartServer, vars, Typed, TypeOK
  <2>3. ExecsHold'
    BY <1>1, <2>1, Blanks DEF Held, ExecsHold, ExecHolds
  <2> QED BY <2>2, <2>3
<1>3. /\ policy' \in Policies \cup {Disabled} /\ enabled' \in BOOLEAN
      /\ Pending("retention") = {} \/ (policy' = policy /\ enabled' = enabled)
  BY DEF SetRetention, ClearRetention, Crash, StartServer, vars, Typed, TypeOK
<1>4. up' \in BOOLEAN /\ faults' \in 0..MaxFaults
  <2>1. CASE Crash
    <3>1. faults \in Nat /\ faults + 1 <= MaxFaults /\ faults' = faults + 1 /\ up' = FALSE
      BY <2>1, Bounds DEF Crash, Typed, TypeOK
    <3>2. faults + 1 \in 0..MaxFaults
      BY <3>1, Bounds
    <3> QED BY <3>1, <3>2
  <2>2. CASE ~ Crash
    BY <2>2 DEF SetRetention, ClearRetention, Crash, StartServer, vars, Typed, TypeOK
  <2> QED BY <2>1, <2>2
<1>5. PendingRunResumable'
  BY <1>1, <1>3 DEF PendingRunResumable, Pending
<1>6. Typed' /\ ItemsWereComplete' /\ BytesAreNamed' /\ OpsHold'
  BY <1>1, <1>2, <1>3, <1>4 DEF Typed, TypeOK, NumbersFollow, Held, ItemsWereComplete, BytesAreNamed,
     OpsHold, OpHolds
<1> QED BY <1>2, <1>5, <1>6 DEF Held

LEMMA EveryStepKeeps ==
  ASSUME IInv, [Next]_vars PROVE IInv'
<1>1. Typed /\ OpsHold
  BY DEF IInv
<1>2. CASE \/ \E p \in Paths : PlanYardCleanup(p)
           \/ \E x \in Executors, p \in Paths, sel \in 0..MaxVersions : DeleteObject(x, p, sel)
           \/ \E x \in Executors : BeginRetention(x) \/ ResumeYardCleanup(x)
  BY <1>1, <1>2, PlanningSteps, PlanKeeps, TakeUpKeeps
<1> QED BY <1>2, UploadKeeps, DeleteBytesKeeps, FinishKeeps, FailKeeps, RestOfNextKeeps
        DEF Next, ExecutorStep

LEMMA InvariantStarts == Init => IInv
<1> SUFFICES ASSUME Init PROVE IInv
  OBVIOUS
<1>1. Typed
  <2>1. 0 \in 0..MaxVersions /\ 0 \in 0..MaxFaults
    BY Bounds
  <2>2. /\ row \in [Versions -> {"none", "pending", "complete", "aborted", "gone"}]
        /\ \A v \in Versions : row[v] = "none"
        /\ path \in [Versions -> Paths \cup {"none"}]
        /\ number \in [Versions -> 0..MaxVersions] /\ bytes \subseteq Versions
    BY <2>1 DEF Init
  <2>3. /\ op \in [Ops -> OpRows] /\ exec \in [Executors -> ExecRows]
        /\ run \in [Ops -> {"none", "running", "failed", "complete"}]
        /\ audits \in [Ops -> 0..1]
    BY Blanks DEF Init
  <2>4. policy \in Policies \cup {Disabled} /\ enabled \in BOOLEAN /\ up \in BOOLEAN
        /\ faults \in 0..MaxFaults
    BY <2>1 DEF Init
  <2> QED BY <2>2, <2>3, <2>4 DEF Typed, TypeOK, NumbersFollow
<1>2. Held
  BY Blanks DEF Init, Held, ItemsWereComplete, ExecsHold, ExecHolds, BytesAreNamed
<1>3. OpsHold /\ PendingRunResumable
  BY Blanks DEF Init, OpsHold, OpHolds, PendingRunResumable, Pending
<1> QED BY <1>1, <1>2, <1>3 DEF IInv

LEMMA InvariantHolds == Spec => []IInv
  BY InvariantStarts, EveryStepKeeps, PTL DEF Spec

(* A version's row goes only when its bytes are gone: no order of          *)
(* overlapping plans, failures, crashes and resumptions leaves bytes that  *)
(* no row names.                                                           *)
THEOREM RowsOutliveBytesHolds == Spec => []RowsOutliveBytes
<1>1. IInv => RowsOutliveBytes
  BY DEF IInv, Held, BytesAreNamed, RowsOutliveBytes
<1> QED BY <1>1, InvariantHolds, PTL

(* Plans, runs, policy and audit trail agree, so that a plan which was cut *)
(* short is found again and one which ended is never told twice.           *)
THEOREM PlansAreAccountedHolds == Spec => []PlansAreAccounted
<1>1. IInv => PlansAreAccounted
  BY DEF IInv, Typed, PlansAreAccounted, CompletedOnce, Planned, OpsHold, OpHolds
<1> QED BY <1>1, InvariantHolds, PTL

-----------------------------------------------------------------------------
(* The validator behind `blobyard app validate`.  First: a field of a      *)
(* schedule is accepted exactly when it stands for some time.              *)

(* The five fields of a schedule, whose names stand within their limits.   *)
LEMMA CronFieldIs ==
  ASSUME NEW field \in ToSet(CronFields)
  PROVE  /\ field.min \in Nat /\ field.max \in Nat /\ field.min <= field.max
         /\ field.names \in Nat
         /\ \A n \in 1..field.names : field.min + n - 1 <= field.max
<1>1. PICK f \in 1..5 : field = CronFields[f]
  BY DEF ToSet, CronFields
<1>2. field \in {Field(0, 59, 0), Field(0, 23, 0), Field(1, 31, 0), Field(1, 12, 12), Field(0, 7, 7)}
  BY <1>1 DEF CronFields
<1> QED BY <1>2 DEF Field

LEMMA ValueIsWithin ==
  ASSUME NEW field \in ToSet(CronFields), NEW v \in [number : Nat] \cup [name : Nat]
  PROVE  ValueOf(field, v) \subseteq field.min..field.max
<1>1. CASE v \in [number : Nat]
  BY <1>1 DEF ValueOf
<1>2. CASE v \in [name : Nat]
  BY <1>2, CronFieldIs DEF ValueOf
<1> QED BY <1>1, <1>2

LEMMA NothingRemains ==
  ASSUME NEW n \in 1..MaxStep
  PROVE  0 % n = 0
  BY DEF MaxStep

LEMMA ItemFires ==
  ASSUME NEW field \in ToSet(CronFields), NEW item \in CronItems, Steps(item)
  PROVE  ValidItem(field, item) <=> Instants(field, item) # {}
<1> DEFINE bounds == IF item.star THEN {<<field.min, field.max>>}
                     ELSE ValueOf(field, item.range[1])
                            \X ValueOf(field, item.range[Len(item.range)])
           step == IF item.steps = <<>> THEN 1 ELSE item.steps[1]
           low == field.min
           high == field.max
<1>0. /\ \A i \in DOMAIN item.steps : item.steps[i] \in 1..MaxStep
      /\ item.star \/ Len(item.range) <= 2
  BY DEF Steps
<1>1. low \in Nat /\ high \in Nat /\ low <= high
  BY CronFieldIs
<1>2. item.star \in BOOLEAN /\ item.steps \in Seq(Nat) /\ Len(item.range) \in Nat
      /\ (~ item.star => item.range # <<>> /\ DOMAIN item.range = 1..Len(item.range))
      /\ \A i \in DOMAIN item.range : item.range[i] \in [number : Nat] \cup [name : Nat]
  BY ManifestsAreToml DEF ManifestAssumption
<1>3. step \in 1..MaxStep
  <2>1. 1 \in 1..MaxStep
    BY DEF MaxStep
  <2>2. item.steps # <<>> => 1 \in DOMAIN item.steps
    BY <1>2
  <2> QED BY <1>0, <2>1, <2>2
<1>4. Instants(field, item) =
        {v \in low..high : \E b \in bounds : v \in b[1]..b[2] /\ (v - b[1]) % step = 0}
  BY DEF Instants
<1>5. CASE item.star
  <2>1. low \in low..high /\ (low - low) % step = 0
    BY <1>1, <1>3, NothingRemains
  <2>2. low \in Instants(field, item)
    BY <1>1, <1>4, <1>5, <2>1
  <2>3. Instants(field, item) # {}
    BY <2>2
  <2>4. ValidItem(field, item)
    BY <1>5 DEF ValidItem, Steps
  <2> QED BY <2>3, <2>4
<1>6. CASE ~ item.star
  <2> DEFINE starts == ValueOf(field, item.range[1])
             ends == ValueOf(field, item.range[Len(item.range)])
  <2>1. Len(item.range) \in 1..2 /\ 1 \in DOMAIN item.range
        /\ Len(item.range) \in DOMAIN item.range
    <3>1. Len(item.range) # 0
      <4>1. ASSUME Len(item.range) = 0 PROVE item.range \in Seq({}) /\ FALSE
        BY <1>2, <1>6, <4>1
      <4> QED BY <4>1
    <3>2. DOMAIN item.range = 1..Len(item.range) /\ Len(item.range) \in Nat
      BY <1>2, <1>6
    <3>3. Len(item.range) <= 2
      BY <1>0, <1>6
    <3> DEFINE n == Len(item.range)
               D == DOMAIN item.range
    <3>4. n \in Nat /\ n # 0 /\ n <= 2 /\ D = 1..n
      BY <3>1, <3>2, <3>3
    <3> HIDE DEF n, D
    <3>5. n \in 1..2 /\ 1 \in D /\ n \in D
      BY <3>4
    <3> QED BY <3>5 DEF n, D
  <2>2. starts \subseteq low..high /\ ends \subseteq low..high
    BY <1>2, <2>1, ValueIsWithin
  <2>3. ValidItem(field, item) <=> \E start \in starts, end \in ends : start <= end
    BY <1>6, <2>1 DEF ValidItem, Steps
  <2>4. bounds = starts \X ends
    BY <1>6
  <2> HIDE DEF starts, ends, bounds, step
  <2>5. ASSUME NEW start \in starts, NEW end \in ends, start <= end
        PROVE  start \in Instants(field, item)
    <3>1. start \in start..end /\ start - start = 0
      BY <1>1, <2>2, <2>5
    <3>2. (start - start) % step = 0
      BY <1>3, <3>1, NothingRemains
    <3> DEFINE b == <<start, end>>
    <3>3. b \in bounds /\ b[1] = start /\ b[2] = end
      BY <2>4
    <3>4. start \in low..high /\ start \in b[1]..b[2] /\ (start - b[1]) % step = 0
      BY <2>2, <3>1, <3>2, <3>3
    <3> HIDE DEF b
    <3> QED BY <1>4, <3>3, <3>4
  <2>6. ASSUME NEW v \in Instants(field, item)
        PROVE  \E start \in starts, end \in ends : start <= end
    <3>1. PICK b \in bounds : v \in b[1]..b[2] /\ v \in low..high
      BY <1>4, <2>6
    <3>2. b[1] \in starts /\ b[2] \in ends
      BY <2>4, <3>1
    <3>3. b[1] <= b[2]
      <4>1. b[1] \in low..high /\ b[2] \in low..high
        BY <2>2, <3>2
      <4>2. b[1] \in Int /\ b[2] \in Int /\ v \in Int
        BY <1>1, <3>1, <4>1
      <4> QED BY <3>1, <4>2
    <3> QED BY <3>2, <3>3
  <2> QED BY <2>3, <2>5, <2>6
<1> QED BY <1>2, <1>5, <1>6

(* A part of a schedule is accepted exactly when it is made of limits and  *)
(* a step and stands for some time (valid_item).                           *)
LEMMA SchedulesFireHolds == SchedulesFire
<1>1. ASSUME NEW field \in ToSet(CronFields), NEW item \in CronItems, ValidItem(field, item)
      PROVE  Steps(item)
  BY <1>1 DEF ValidItem, Steps
<1> QED BY <1>1, ItemFires DEF SchedulesFire

-----------------------------------------------------------------------------
(* A role is reported as circular exactly when it is its own ancestor.     *)

(* A table of roles as TOML has it.                                        *)
WellMade(roles) ==
  /\ IsFiniteSet(DOMAIN roles)
  /\ \A r \in DOMAIN roles :
       LET parents == Items(roles[r], "inherits")
       IN  Len(parents) \in Nat /\ DOMAIN parents = 1..Len(parents)

LEMMA ParentsAreNames ==
  ASSUME NEW roles, WellMade(roles), NEW r
  PROVE  /\ Parents(roles, r) \in Seq(RoleNames(roles))
         /\ r \notin DOMAIN roles => Parents(roles, r) = <<>>
<1>1. CASE r \in DOMAIN roles
  <2> DEFINE parents == Items(roles[r], "inherits")
             n == Len(parents)
  <2>1. n \in Nat /\ DOMAIN parents = 1..n
    BY <1>1 DEF WellMade
  <2>2. Parents(roles, r) = [i \in 1..n |-> parents[i].string]
    BY <1>1, <2>1 DEF Parents
  <2> HIDE DEF n
  <2>3. \A i \in 1..n : Parents(roles, r)[i] \in RoleNames(roles)
    <3>1. \A i \in 1..n : Parents(roles, r)[i] \in ToSet(Parents(roles, r))
      BY <2>2 DEF ToSet
    <3> QED BY <1>1, <3>1 DEF RoleNames
  <2> QED BY <1>1, <2>1, <2>2, <2>3
<1>2. CASE r \notin DOMAIN roles
  BY <1>2 DEF Parents
<1> QED BY <1>1, <1>2

LEMMA MembersOf ==
  ASSUME NEW U, NEW s \in Seq(U)
  PROVE  /\ s = <<>> => ToSet(s) = {}
         /\ s # <<>> => /\ Head(s) \in U /\ Tail(s) \in Seq(U) /\ Len(Tail(s)) < Len(s)
                        /\ ToSet(s) = {Head(s)} \cup ToSet(Tail(s))
         /\ ToSet(s) \subseteq U
<1>1. s # <<>> => ToSet(s) = {Head(s)} \cup ToSet(Tail(s))
  <2> SUFFICES ASSUME s # <<>> PROVE ToSet(s) = {Head(s)} \cup ToSet(Tail(s))
    OBVIOUS
  <2>1. Len(s) \in Nat /\ Len(s) > 0 /\ DOMAIN s = 1..Len(s) /\ Head(s) = s[1]
        /\ DOMAIN Tail(s) = 1..(Len(s) - 1) /\ \A i \in 1..(Len(s) - 1) : Tail(s)[i] = s[i + 1]
    OBVIOUS
  <2>2. ASSUME NEW x \in ToSet(s) PROVE x \in {Head(s)} \cup ToSet(Tail(s))
    <3>1. PICK i \in 1..Len(s) : x = s[i]
      BY <2>1, <2>2 DEF ToSet
    <3>2. CASE i = 1
      BY <2>1, <3>1, <3>2
    <3>3. CASE i # 1
      <4>1. i - 1 \in 1..(Len(s) - 1) /\ Tail(s)[i - 1] = x
        BY <2>1, <3>1, <3>3
      <4> QED BY <2>1, <4>1 DEF ToSet
    <3> QED BY <3>2, <3>3
  <2>3. ASSUME NEW x \in ToSet(Tail(s)) PROVE x \in ToSet(s)
    <3>1. PICK i \in 1..(Len(s) - 1) : x = Tail(s)[i]
      BY <2>1, <2>3 DEF ToSet
    <3>2. i + 1 \in 1..Len(s) /\ s[i + 1] = x
      BY <2>1, <3>1
    <3> QED BY <2>1, <3>2 DEF ToSet
  <2>4. Head(s) \in ToSet(s)
    BY <2>1 DEF ToSet
  <2> QED BY <2>2, <2>3, <2>4
<1>2. ToSet(s) \subseteq U
  BY DEF ToSet
<1>3. s = <<>> => ToSet(s) = {}
  BY DEF ToSet
<1>4. s # <<>> => Head(s) \in U /\ Tail(s) \in Seq(U) /\ Len(Tail(s)) < Len(s)
  OBVIOUS
<1> QED BY <1>1, <1>2, <1>3, <1>4

LEMMA JoinMembers ==
  ASSUME NEW U, NEW s \in Seq(U), NEW t \in Seq(U)
  PROVE  t \o s \in Seq(U) /\ ToSet(t \o s) = ToSet(t) \cup ToSet(s)
<1>1. /\ t \o s \in Seq(U) /\ Len(s) \in Nat /\ Len(t) \in Nat
      /\ DOMAIN s = 1..Len(s) /\ DOMAIN t = 1..Len(t) /\ DOMAIN (t \o s) = 1..(Len(t) + Len(s))
      /\ \A i \in 1..(Len(t) + Len(s)) : (t \o s)[i] = IF i <= Len(t) THEN t[i] ELSE s[i - Len(t)]
  OBVIOUS
<1>2. ASSUME NEW i \in 1..(Len(t) + Len(s)) PROVE (t \o s)[i] \in ToSet(t) \cup ToSet(s)
  <2>1. CASE i <= Len(t)
    BY <1>1, <2>1 DEF ToSet
  <2>2. CASE ~ (i <= Len(t))
    <3>1. i - Len(t) \in 1..Len(s)
      BY <1>1, <2>2
    <3> QED BY <1>1, <2>2, <3>1 DEF ToSet
  <2> QED BY <2>1, <2>2
<1>3. ASSUME NEW i \in 1..Len(t) PROVE t[i] \in ToSet(t \o s)
  <2>1. i \in 1..(Len(t) + Len(s)) /\ (t \o s)[i] = t[i]
    BY <1>1
  <2> QED BY <1>1, <2>1 DEF ToSet
<1>4. ASSUME NEW i \in 1..Len(s) PROVE s[i] \in ToSet(t \o s)
  <2>1. i + Len(t) \in 1..(Len(t) + Len(s)) /\ (t \o s)[i + Len(t)] = s[i]
    BY <1>1
  <2> QED BY <1>1, <2>1 DEF ToSet
<1> QED BY <1>1, <1>2, <1>3, <1>4 DEF ToSet

(* What the roles of S lead to without the visited ones has the origin:    *)
(* every set has it that contains them and is closed in this sense.        *)
Leads(roles, origin, visited, S) ==
  \A C \in SUBSET RoleNames(roles) :
    /\ S \ visited \subseteq C
    /\ \A c \in C : ToSet(Parents(roles, c)) \ visited \subseteq C
    => origin \in C

Stages(roles, origin) == (SUBSET (RoleNames(roles) \ {origin})) \X Seq(RoleNames(roles))

Seen(at) == <<at[1], Tail(at[2])>>
Into(roles, at) ==
  <<at[1] \cup {Head(at[2])}, Parents(roles, Head(at[2])) \o Tail(at[2])>>

(* What the search makes of a stage, in terms of what f makes of the next. *)
Onwards(roles, origin, f, at) ==
  IF at[2] = <<>> THEN "acyclic"
  ELSE IF Head(at[2]) = origin THEN "cyclic"
  ELSE IF Head(at[2]) \in at[1] THEN f[Seen(at)]
  ELSE f[Into(roles, at)]

Searches(roles, origin, f) ==
  f = [at \in Stages(roles, origin) |-> Onwards(roles, origin, f, at)]

Verdict(roles, origin, at) ==
  IF Leads(roles, origin, at[1], ToSet(at[2])) THEN "cyclic" ELSE "acyclic"

(* A role that is looked into counts as visited, as far as the origin is   *)
(* concerned.                                                              *)
LEMMA VisitingKeeps ==
  ASSUME NEW roles, WellMade(roles), NEW origin, NEW visited, NEW h \in RoleNames(roles),
         NEW rest, h # origin, h \notin visited
  PROVE  Leads(roles, origin, visited, {h} \cup rest)
           <=> Leads(roles, origin, visited \cup {h}, ToSet(Parents(roles, h)) \cup rest)
<1> DEFINE P(c) == ToSet(Parents(roles, c))
           U == RoleNames(roles)
<1> HIDE DEF P
<1>1. Leads(roles, origin, visited, {h} \cup rest) <=>
        \A C \in SUBSET U : ({h} \cup rest) \ visited \subseteq C
                              /\ (\A c \in C : P(c) \ visited \subseteq C) => origin \in C
  BY DEF Leads, P
<1>2. Leads(roles, origin, visited \cup {h}, P(h) \cup rest) <=>
        \A C \in SUBSET U : (P(h) \cup rest) \ (visited \cup {h}) \subseteq C
                              /\ (\A c \in C : P(c) \ (visited \cup {h}) \subseteq C) => origin \in C
  BY DEF Leads, P
<1>3. ASSUME Leads(roles, origin, visited \cup {h}, P(h) \cup rest),
             NEW C \in SUBSET U, ({h} \cup rest) \ visited \subseteq C,
             \A c \in C : P(c) \ visited \subseteq C
      PROVE  origin \in C
  <2>1. (P(h) \cup rest) \ (visited \cup {h}) \subseteq C
    BY <1>3
  <2>2. \A c \in C : P(c) \ (visited \cup {h}) \subseteq C
    BY <1>3
  <2> QED BY <1>2, <1>3, <2>1, <2>2
<1>4. ASSUME Leads(roles, origin, visited, {h} \cup rest),
             NEW C \in SUBSET U, (P(h) \cup rest) \ (visited \cup {h}) \subseteq C,
             \A c \in C : P(c) \ (visited \cup {h}) \subseteq C
      PROVE  origin \in C
  <2> DEFINE B == C \cup {h}
  <2>1. B \in SUBSET U /\ ({h} \cup rest) \ visited \subseteq B
    BY <1>4
  <2>2. \A c \in B : P(c) \ visited \subseteq B
    BY <1>4
  <2>3. origin \in B
    BY <1>1, <1>4, <2>1, <2>2
  <2> QED BY <2>3
<1> QED BY <1>1, <1>2, <1>3, <1>4 DEF P

(* A stage of the search, and the one after it.                            *)
LEMMA StageGoesOn ==
  ASSUME NEW roles, WellMade(roles), NEW origin, NEW at \in Stages(roles, origin),
         at[2] # <<>>, Head(at[2]) # origin
  PROVE  /\ Head(at[2]) \in at[1] =>
              /\ Seen(at) \in Stages(roles, origin)
              /\ Verdict(roles, origin, Seen(at)) = Verdict(roles, origin, at)
         /\ Head(at[2]) \notin at[1] =>
              /\ Into(roles, at) \in Stages(roles, origin)
              /\ Verdict(roles, origin, Into(roles, at)) = Verdict(roles, origin, at)
<1> DEFINE U == RoleNames(roles)
           V == at[1]
           s == at[2]
           h == Head(s)
<1>1. V \in SUBSET (U \ {origin}) /\ s \in Seq(U)
  BY DEF Stages
<1>2. /\ h \in U /\ Tail(s) \in Seq(U) /\ ToSet(s) = {h} \cup ToSet(Tail(s))
      /\ ToSet(Tail(s)) \subseteq U
  BY <1>1, MembersOf
<1>3. CASE h \in V
  <2>1. ToSet(s) \ V = ToSet(Tail(s)) \ V
    BY <1>2, <1>3
  <2>2. Leads(roles, origin, V, ToSet(s)) <=> Leads(roles, origin, V, ToSet(Tail(s)))
    BY <2>1 DEF Leads
  <2>3. <<V, Tail(s)>> \in Stages(roles, origin)
    BY <1>1, <1>2 DEF Stages
  <2> QED BY <1>3, <2>2, <2>3 DEF Verdict, Seen
<1>4. CASE h \notin V
  <2> DEFINE p == Parents(roles, h)
  <2>1. p \in Seq(U)
    BY ParentsAreNames
  <2>2. p \o Tail(s) \in Seq(U) /\ ToSet(p \o Tail(s)) = ToSet(p) \cup ToSet(Tail(s))
    BY <1>2, <2>1, JoinMembers
  <2>3. Leads(roles, origin, V, ToSet(s))
          <=> Leads(roles, origin, V \cup {h}, ToSet(p \o Tail(s)))
    <3>1. h # origin /\ h \in U
      BY <1>2
    <3> HIDE DEF p, h, s, V
    <3>2. Leads(roles, origin, V, {h} \cup ToSet(Tail(s)))
            <=> Leads(roles, origin, V \cup {h}, ToSet(p) \cup ToSet(Tail(s)))
      BY <1>4, <3>1, VisitingKeeps DEF p
    <3> QED BY <1>2, <2>2, <3>2
  <2>4. <<V \cup {h}, p \o Tail(s)>> \in Stages(roles, origin)
    BY <1>1, <1>2, <2>2 DEF Stages
  <2> QED BY <1>4, <2>3, <2>4 DEF Verdict, Into
<1> QED BY <1>3, <1>4

LEMMA StageEnds ==
  ASSUME NEW roles, NEW origin, NEW at \in Stages(roles, origin)
  PROVE  /\ at[2] = <<>> => Verdict(roles, origin, at) = "acyclic"
         /\ at[2] # <<>> /\ Head(at[2]) = origin => Verdict(roles, origin, at) = "cyclic"
<1>1. at[1] \in SUBSET (RoleNames(roles) \ {origin}) /\ at[2] \in Seq(RoleNames(roles))
  BY DEF Stages
<1>2. ASSUME at[2] = <<>> PROVE ~ Leads(roles, origin, at[1], ToSet(at[2]))
  <2>1. ToSet(at[2]) = {}
    BY <1>2 DEF ToSet
  <2> QED BY <2>1 DEF Leads
<1>3. ASSUME at[2] # <<>>, Head(at[2]) = origin
      PROVE  Leads(roles, origin, at[1], ToSet(at[2]))
  <2>1. origin \in ToSet(at[2]) \ at[1]
    BY <1>1, <1>3, MembersOf
  <2> QED BY <2>1 DEF Leads
<1> QED BY <1>2, <1>3 DEF Verdict

LEMMA VerdictSearches ==
  ASSUME NEW roles, WellMade(roles), NEW origin
  PROVE  Searches(roles, origin, [at \in Stages(roles, origin) |-> Verdict(roles, origin, at)])
<1> DEFINE f == [at \in Stages(roles, origin) |-> Verdict(roles, origin, at)]
<1>1. \A at \in Stages(roles, origin) : f[at] = Verdict(roles, origin, at)
  OBVIOUS
<1>2. DOMAIN f = Stages(roles, origin) /\ f = [at \in Stages(roles, origin) |-> f[at]]
  OBVIOUS
<1> HIDE DEF f
<1>3. ASSUME NEW at \in Stages(roles, origin) PROVE f[at] = Onwards(roles, origin, f, at)
  <2>1. CASE at[2] = <<>> \/ Head(at[2]) = origin
    BY <1>1, <2>1, StageEnds DEF Onwards
  <2>2. CASE at[2] # <<>> /\ Head(at[2]) # origin
    BY <1>1, <2>2, StageGoesOn DEF Onwards
  <2> QED BY <2>1, <2>2
<1>4. f = [at \in Stages(roles, origin) |-> Onwards(roles, origin, f, at)]
  BY <1>2, <1>3
<1>5. Searches(roles, origin, f)
  BY <1>4 DEF Searches
<1> QED BY <1>5 DEF f

(* No other function does: a stage with another result, with the fewest    *)
(* roles to visit and then the fewest waiting, would pass it on.           *)
LEMMA SearchesIsVerdict ==
  ASSUME NEW roles, WellMade(roles), NEW origin, NEW f, Searches(roles, origin, f),
         NEW start \in Stages(roles, origin)
  PROVE  f[start] = Verdict(roles, origin, start)
<1> DEFINE D == DOMAIN roles
           Left(at) == Cardinality(D \ at[1])
           Wrong == {at \in Stages(roles, origin) : f[at] # Verdict(roles, origin, at)}
           Lefts == {n \in Nat : \E at \in Wrong : n = Left(at)}
<1>1. \A at \in Stages(roles, origin) : f[at] = Onwards(roles, origin, f, at)
  BY DEF Searches
<1>2. \A at \in Stages(roles, origin) :
        /\ at[1] \in SUBSET (RoleNames(roles) \ {origin}) /\ at[2] \in Seq(RoleNames(roles))
        /\ IsFiniteSet(D \ at[1]) /\ Left(at) \in Nat /\ Len(at[2]) \in Nat
  BY FS_Subset, FS_CardinalityType DEF WellMade, Stages
<1>3. SUFFICES ASSUME start \in Wrong PROVE FALSE
  OBVIOUS
<1> HIDE DEF Left
<1>4. Left(start) \in Lefts
  BY <1>2, <1>3
<1>5. PICK m \in Lefts : \A n \in Lefts : m <= n
  <2>1. Lefts \in SUBSET Nat /\ Lefts # {}
    BY <1>4
  <2> HIDE DEF Lefts
  <2> QED BY <2>1, LeastNumber
<1> DEFINE Fewest == {at \in Wrong : Left(at) = m}
           Lens == {n \in Nat : \E at \in Fewest : n = Len(at[2])}
<1>6. PICK least \in Lens : \A n \in Lens : least <= n
  <2>1. PICK at \in Wrong : m = Left(at)
    BY <1>5
  <2>2. Len(at[2]) \in Lens
    BY <1>2, <2>1
  <2>3. Lens \in SUBSET Nat /\ Lens # {}
    BY <2>2
  <2> HIDE DEF Lens
  <2> QED BY <2>3, LeastNumber
<1>7. PICK at \in Fewest : least = Len(at[2])
  BY <1>6
<1>8. at \in Stages(roles, origin) /\ at \in Wrong /\ Left(at) = m /\ f[at] # Verdict(roles, origin, at)
  BY <1>7
<1>9. at[2] # <<>> /\ Head(at[2]) # origin
  BY <1>1, <1>8, StageEnds DEF Onwards
<1> DEFINE h == Head(at[2])
           rest == Tail(at[2])
<1>10. rest \in Seq(RoleNames(roles)) /\ Len(rest) < Len(at[2]) /\ Len(rest) \in Nat
       /\ h \in RoleNames(roles)
  <2> DEFINE s == at[2]
  <2>1. s \in Seq(RoleNames(roles)) /\ s # <<>>
    BY <1>2, <1>8, <1>9
  <2> HIDE DEF s
  <2>2. Head(s) \in RoleNames(roles) /\ Tail(s) \in Seq(RoleNames(roles)) /\ Len(Tail(s)) < Len(s)
    BY <2>1, MembersOf
  <2>3. Len(Tail(s)) \in Nat
    BY <2>2
  <2> QED BY <2>2, <2>3 DEF s
<1> HIDE DEF rest, h
<1>11. ASSUME NEW next \in Wrong, D \ next[1] = D \ at[1], next[2] = rest
       PROVE  FALSE
  <2>1. Left(next) = Left(at)
    BY <1>11 DEF Left
  <2>2. Len(rest) \in Lens
    BY <1>8, <1>10, <1>11, <2>1
  <2>3. least <= Len(rest)
    BY <1>6, <2>2
  <2>4. least \in Nat
    BY <1>6
  <2> QED BY <1>7, <1>10, <2>3, <2>4
<1>12. CASE h \in at[1]
  <2>1. Seen(at) \in Wrong
    BY <1>1, <1>8, <1>9, <1>12, StageGoesOn DEF Onwards, h
  <2>2. Seen(at)[1] = at[1] /\ Seen(at)[2] = rest
    BY DEF Seen, rest
  <2> QED BY <1>11, <2>1, <2>2
<1>13. CASE h \notin at[1]
  <2>1. Into(roles, at) \in Wrong
    BY <1>1, <1>8, <1>9, <1>13, StageGoesOn DEF Onwards, h
  <2>2. Into(roles, at)[1] = at[1] \cup {h} /\ Into(roles, at)[2] = Parents(roles, h) \o rest
    BY DEF Into, rest, h
  <2>3. CASE h \notin D
    <3>1. Parents(roles, h) \o rest = rest
      BY <1>10, <2>3, ParentsAreNames
    <3> QED BY <1>11, <2>1, <2>2, <2>3, <3>1
  <2>4. CASE h \in D
    <3> DEFINE next == Into(roles, at)
    <3>1. Left(next) \in Lefts /\ next \in Stages(roles, origin)
      BY <1>2, <2>1
    <3>2. m <= Left(next)
      BY <1>5, <3>1
    <3>3. D \ next[1] \in SUBSET (D \ at[1]) /\ D \ next[1] # D \ at[1]
      BY <1>13, <2>2, <2>4
    <3>4. IsFiniteSet(D \ at[1]) /\ Left(at) \in Nat /\ Left(next) \in Nat
      BY <1>2, <1>8, <3>1
    <3>5. Left(next) <= Left(at) /\ Left(next) # Left(at)
      BY <3>3, <3>4, FS_Subset DEF Left
    <3> QED BY <1>8, <3>2, <3>4, <3>5
  <2> QED BY <2>3, <2>4
<1> QED BY <1>12, <1>13

(* has_cycle finds what is there: a role is reported exactly when it is    *)
(* its own ancestor, although the branches share what they have visited.   *)
LEMMA HasCycleIsExact ==
  ASSUME NEW roles, WellMade(roles), NEW r \in DOMAIN roles
  PROVE  HasCycle(roles, r) <=> OwnAncestor(roles, r)
<1> DEFINE search == CHOOSE f : Searches(roles, r, f)
           start == <<{}, Parents(roles, r)>>
<1>1. Searches(roles, r, search)
  BY VerdictSearches
<1>2. HasCycle(roles, r) <=> search[start] = "cyclic"
  BY DEF HasCycle, Searches, Onwards, Stages, Seen, Into
<1>3. start \in Stages(roles, r)
  BY ParentsAreNames DEF Stages
<1> HIDE DEF search
<1>4. search[start] = Verdict(roles, r, start)
  BY <1>1, <1>3, SearchesIsVerdict
<1>5. Leads(roles, r, {}, ToSet(Parents(roles, r))) <=> OwnAncestor(roles, r)
  BY DEF Leads, OwnAncestor
<1> QED BY <1>2, <1>4, <1>5 DEF Verdict

-----------------------------------------------------------------------------
(* What the schema admits can be decoded.  A schema fits a type when what  *)
(* it finds no fault with decodes as the type; n counts the parts within   *)
(* parts that are looked at.                                               *)

Fits0(s, t) == \A v, place : LeafErrors(s, v, place) = {} => Decodes1(t, v)
Fits1(s, t) == \A v, place : Errors1(s, v, place) = {} => Decodes2(t, v)
Fits2(s, t) == \A v, place : Errors2(s, v, place) = {} => Decodes3(t, v)
Fits3(s, t) == \A v, place : Errors3(s, v, place) = {} => Decodes4(t, v)
Fits4(s, t) == \A v, place : SchemaErrors(s, v, place) = {} => Decodes(t, v)

(* A part without parts of its own fits at every depth alike.              *)
LeafFits(s, t) == Fits0(s, t) /\ Fits1(s, t) /\ Fits2(s, t) /\ Fits3(s, t)

Plain(s) == {"required", "name", "item"} \cap DOMAIN s = {}
Simple(t) == {"vec", "map", "must"} \cap DOMAIN t = {}

LEMMA PlainErrors ==
  ASSUME NEW s, Plain(s), NEW v, NEW place
  PROVE  /\ Errors1(s, v, place) = LeafErrors(s, v, place)
         /\ Errors2(s, v, place) = LeafErrors(s, v, place)
         /\ Errors3(s, v, place) = LeafErrors(s, v, place)
<1>1. "required" \notin DOMAIN s /\ "name" \notin DOMAIN s /\ "item" \notin DOMAIN s
  BY DEF Plain
<1> QED BY <1>1 DEF Errors1, Errors2, Errors3, PartErrors

LEMMA SimpleDecodes ==
  ASSUME NEW t, Simple(t), NEW v
  PROVE  /\ Decodes1(t, v) = DecodesLeaf(t, v) /\ Decodes2(t, v) = DecodesLeaf(t, v)
         /\ Decodes3(t, v) = DecodesLeaf(t, v) /\ Decodes4(t, v) = DecodesLeaf(t, v)
<1>1. "vec" \notin DOMAIN t /\ "map" \notin DOMAIN t /\ "must" \notin DOMAIN t
  BY DEF Simple
<1> QED BY <1>1 DEF Decodes1, Decodes2, Decodes3, Decodes4, DecodesPart

LEMMA SimpleFits ==
  ASSUME NEW s, NEW t, Plain(s), Simple(t),
         \A v, place : LeafErrors(s, v, place) = {} => DecodesLeaf(t, v)
  PROVE  LeafFits(s, t)
  BY PlainErrors, SimpleDecodes DEF LeafFits, Fits0, Fits1, Fits2, Fits3

LEMMA PatternFits == \A p : LeafFits(Pattern(p), Text)
<1> SUFFICES ASSUME NEW p PROVE LeafFits(Pattern(p), Text)
  OBVIOUS
<1>1. Plain(Pattern(p)) /\ Simple(Text) /\ "pattern" \in DOMAIN Pattern(p)
  BY DEF Plain, Simple, Pattern, Text
<1>2. "scalar" \in DOMAIN Text /\ Text.scalar = "string" /\ Text # Byte
  BY DEF Text, Byte
<1>3. ASSUME NEW v, NEW place, LeafErrors(Pattern(p), v, place) = {} PROVE DecodesLeaf(Text, v)
  <2>1. Is(v, "string")
    BY <1>1, <1>3 DEF LeafErrors
  <2> QED BY <1>2, <2>1 DEF DecodesLeaf
<1> QED BY <1>1, <1>3, SimpleFits

LEMMA EnumFits == \A values : LeafFits(Enum(values), Choice(values))
<1> SUFFICES ASSUME NEW values PROVE LeafFits(Enum(values), Choice(values))
  OBVIOUS
<1>1. /\ Plain(Enum(values)) /\ Simple(Choice(values))
      /\ "pattern" \notin DOMAIN Enum(values) /\ "enum" \in DOMAIN Enum(values)
      /\ Enum(values).enum = values /\ Choice(values).choice = values
      /\ "scalar" \notin DOMAIN Choice(values)
  BY DEF Plain, Simple, Enum, Choice
<1>2. ASSUME NEW v, NEW place, LeafErrors(Enum(values), v, place) = {}
      PROVE  DecodesLeaf(Choice(values), v)
  BY <1>1, <1>2 DEF LeafErrors, DecodesLeaf
<1> QED BY <1>1, <1>2, SimpleFits

LEMMA BetweenFits == \A low, high \in 0..255 : LeafFits(Between(low, high), Byte)
<1> SUFFICES ASSUME NEW low \in 0..255, NEW high \in 0..255 PROVE LeafFits(Between(low, high), Byte)
  OBVIOUS
<1> DEFINE s == Between(low, high)
<1>1. /\ Plain(s) /\ Simple(Byte)
      /\ "pattern" \notin DOMAIN s /\ "enum" \notin DOMAIN s /\ "low" \in DOMAIN s
      /\ s.low = low /\ s.high = high
      /\ "scalar" \in DOMAIN Byte /\ Byte.scalar = "integer"
  BY DEF Plain, Simple, Between, Byte
<1> HIDE DEF s
<1>2. ASSUME NEW v, NEW place, LeafErrors(s, v, place) = {} PROVE DecodesLeaf(Byte, v)
  <2>1. Is(v, "integer") /\ v.integer \in low..high
    BY <1>1, <1>2 DEF LeafErrors
  <2>2. v.integer \in 0..255
    BY <2>1
  <2> QED BY <1>1, <2>1, <2>2 DEF DecodesLeaf
<1> QED BY <1>1, <1>2, SimpleFits DEF s

LEMMA BooleanFits == LeafFits(Boolean, Word)
<1>1. /\ Plain(Boolean) /\ Simple(Word)
      /\ "pattern" \notin DOMAIN Boolean /\ "enum" \notin DOMAIN Boolean
      /\ "low" \notin DOMAIN Boolean /\ "flag" \in DOMAIN Boolean
      /\ "scalar" \in DOMAIN Word /\ Word.scalar = "boolean" /\ Word # Byte
  BY DEF Plain, Simple, Boolean, Word, Byte
<1>2. ASSUME NEW v, NEW place, LeafErrors(Boolean, v, place) = {} PROVE DecodesLeaf(Word, v)
  <2>1. Is(v, "boolean")
    BY <1>1, <1>2 DEF LeafErrors
  <2> QED BY <1>1, <2>1 DEF DecodesLeaf
<1> QED BY <1>1, <1>2, SimpleFits

LEMMA StringsFit == \A max, p : LeafFits(Strings(max, p), Vec(Text))
<1> SUFFICES ASSUME NEW max, NEW p PROVE LeafFits(Strings(max, p), Vec(Text))
  OBVIOUS
<1> DEFINE s == Strings(max, p)
           t == Vec(Text)
<1>1. /\ Plain(s) /\ "pattern" \notin DOMAIN s /\ "enum" \notin DOMAIN s
      /\ "low" \notin DOMAIN s /\ "flag" \notin DOMAIN s
      /\ "vec" \in DOMAIN t /\ t.vec = Text
  BY DEF Plain, Strings, Vec
<1> HIDE DEF s, t
<1>2. Simple(Text) /\ "scalar" \in DOMAIN Text /\ Text.scalar = "string" /\ Text # Byte
  BY DEF Simple, Text, Byte
<1>3. ASSUME NEW v, NEW place, LeafErrors(s, v, place) = {}
      PROVE  /\ Decodes1(t, v) /\ Decodes2(t, v)
             /\ Decodes3(t, v) /\ Decodes4(t, v)
  <2>1. Is(v, "array") /\ \A i \in DOMAIN v.array : Is(v.array[i], "string")
    BY <1>1, <1>3 DEF LeafErrors
  <2>2. \A i \in DOMAIN v.array : DecodesLeaf(Text, v.array[i])
    BY <1>2, <2>1 DEF DecodesLeaf
  <2>3. \A i \in DOMAIN v.array : /\ Decodes1(Text, v.array[i]) /\ Decodes2(Text, v.array[i])
                                  /\ Decodes3(Text, v.array[i])
    BY <1>2, <2>2, SimpleDecodes
  <2>4. Decodes1(t, v)
    BY <1>1, <2>1, <2>2 DEF Decodes1, DecodesPart
  <2>5. Decodes2(t, v)
    BY <1>1, <2>1, <2>3 DEF Decodes2, DecodesPart
  <2>6. Decodes3(t, v)
    BY <1>1, <2>1, <2>3 DEF Decodes3, DecodesPart
  <2>7. Decodes4(t, v)
    BY <1>1, <2>1, <2>3 DEF Decodes4, DecodesPart
  <2> QED BY <2>4, <2>5, <2>6, <2>7
<1>4. \A v, place : /\ Errors1(s, v, place) = LeafErrors(s, v, place)
                   /\ Errors2(s, v, place) = LeafErrors(s, v, place)
                   /\ Errors3(s, v, place) = LeafErrors(s, v, place)
  BY <1>1, PlainErrors
<1>5. Fits0(s, t) /\ Fits1(s, t) /\ Fits2(s, t) /\ Fits3(s, t)
  BY <1>3, <1>4 DEF Fits0, Fits1, Fits2, Fits3
<1> QED BY <1>5 DEF LeafFits, s, t

(* A table fits when its fields do, and what must be there is required.    *)
Parts(s, t) ==
  /\ DOMAIN s = {"required", "fields"} /\ DOMAIN t = {"must", "may"}
  /\ DOMAIN t.must \subseteq s.required
  /\ DOMAIN s.fields \subseteq DOMAIN t.must \cup DOMAIN t.may

LEMMA ObjectParts ==
  ASSUME NEW required, NEW fields, NEW must, NEW may, DOMAIN must \subseteq required,
         DOMAIN fields \subseteq DOMAIN must \cup DOMAIN may
  PROVE  Parts(Object(required, fields), Struct(must, may))
  BY DEF Parts, Object, Struct

LEMMA ObjectFits1 ==
  ASSUME NEW s, NEW t, Parts(s, t), \A k \in DOMAIN s.fields : Fits0(s.fields[k], FieldType(t, k))
  PROVE  Fits1(s, t)
<1> SUFFICES ASSUME NEW v, NEW place, Errors1(s, v, place) = {} PROVE Decodes2(t, v)
  BY DEF Fits1
<1> DEFINE given == DOMAIN v.table
           known == DOMAIN s.fields
           strange == {Append(place, k) : k \in (given \ known) \cup (s.required \ given)}
           inner == {LeafErrors(s.fields[k], v.table[k], Append(place, k)) : k \in given \cap known}
<1>a. Is(v, "table") /\ strange \cup UNION inner = {}
  BY DEF Parts, Errors1, PartErrors
<1>b. ASSUME NEW k \in (given \ known) \cup (s.required \ given) PROVE FALSE
  <2>1. Append(place, k) \in strange
    BY <1>b
  <2> HIDE DEF strange, inner
  <2> QED BY <1>a, <2>1
<1>c. \A k \in given \cap known : LeafErrors(s.fields[k], v.table[k], Append(place, k)) = {}
  BY <1>a
<1>1. /\ Is(v, "table") /\ s.required \subseteq DOMAIN v.table
      /\ DOMAIN v.table \subseteq DOMAIN s.fields
      /\ \A k \in DOMAIN v.table : LeafErrors(s.fields[k], v.table[k], Append(place, k)) = {}
  BY <1>a, <1>b, <1>c
<1>2. \A k \in DOMAIN v.table : Decodes1(FieldType(t, k), v.table[k])
  BY <1>1 DEF Fits0
<1> QED BY <1>1, <1>2 DEF Parts, Decodes2, DecodesPart

LEMMA ObjectFits2 ==
  ASSUME NEW s, NEW t, Parts(s, t), \A k \in DOMAIN s.fields : Fits1(s.fields[k], FieldType(t, k))
  PROVE  Fits2(s, t)
<1> SUFFICES ASSUME NEW v, NEW place, Errors2(s, v, place) = {} PROVE Decodes3(t, v)
  BY DEF Fits2
<1> DEFINE given == DOMAIN v.table
           known == DOMAIN s.fields
           strange == {Append(place, k) : k \in (given \ known) \cup (s.required \ given)}
           inner == {Errors1(s.fields[k], v.table[k], Append(place, k)) : k \in given \cap known}
<1>a. Is(v, "table") /\ strange \cup UNION inner = {}
  BY DEF Parts, Errors2, PartErrors
<1>b. ASSUME NEW k \in (given \ known) \cup (s.required \ given) PROVE FALSE
  <2>1. Append(place, k) \in strange
    BY <1>b
  <2> HIDE DEF strange, inner
  <2> QED BY <1>a, <2>1
<1>c. \A k \in given \cap known : Errors1(s.fields[k], v.table[k], Append(place, k)) = {}
  BY <1>a
<1>1. /\ Is(v, "table") /\ s.required \subseteq DOMAIN v.table
      /\ DOMAIN v.table \subseteq DOMAIN s.fields
      /\ \A k \in DOMAIN v.table : Errors1(s.fields[k], v.table[k], Append(place, k)) = {}
  BY <1>a, <1>b, <1>c
<1>2. \A k \in DOMAIN v.table : Decodes2(FieldType(t, k), v.table[k])
  BY <1>1 DEF Fits1
<1> QED BY <1>1, <1>2 DEF Parts, Decodes3, DecodesPart

LEMMA ObjectFits3 ==
  ASSUME NEW s, NEW t, Parts(s, t), \A k \in DOMAIN s.fields : Fits2(s.fields[k], FieldType(t, k))
  PROVE  Fits3(s, t)
<1> SUFFICES ASSUME NEW v, NEW place, Errors3(s, v, place) = {} PROVE Decodes4(t, v)
  BY DEF Fits3
<1> DEFINE given == DOMAIN v.table
           known == DOMAIN s.fields
           strange == {Append(place, k) : k \in (given \ known) \cup (s.required \ given)}
           inner == {Errors2(s.fields[k], v.table[k], Append(place, k)) : k \in given \cap known}
<1>a. Is(v, "table") /\ strange \cup UNION inner = {}
  BY DEF Parts, Errors3, PartErrors
<1>b. ASSUME NEW k \in (given \ known) \cup (s.required \ given) PROVE FALSE
  <2>1. Append(place, k) \in strange
    BY <1>b
  <2> HIDE DEF strange, inner
  <2> QED BY <1>a, <2>1
<1>c. \A k \in given \cap known : Errors2(s.fields[k], v.table[k], Append(place, k)) = {}
  BY <1>a
<1>1. /\ Is(v, "table") /\ s.required \subseteq DOMAIN v.table
      /\ DOMAIN v.table \subseteq DOMAIN s.fields
      /\ \A k \in DOMAIN v.table : Errors2(s.fields[k], v.table[k], Append(place, k)) = {}
  BY <1>a, <1>b, <1>c
<1>2. \A k \in DOMAIN v.table : Decodes3(FieldType(t, k), v.table[k])
  BY <1>1 DEF Fits2
<1> QED BY <1>1, <1>2 DEF Parts, Decodes4, DecodesPart

LEMMA ObjectFits4 ==
  ASSUME NEW s, NEW t, Parts(s, t), \A k \in DOMAIN s.fields : Fits3(s.fields[k], FieldType(t, k))
  PROVE  Fits4(s, t)
<1> SUFFICES ASSUME NEW v, NEW place, SchemaErrors(s, v, place) = {} PROVE Decodes(t, v)
  BY DEF Fits4
<1> DEFINE given == DOMAIN v.table
           known == DOMAIN s.fields
           strange == {Append(place, k) : k \in (given \ known) \cup (s.required \ given)}
           inner == {Errors3(s.fields[k], v.table[k], Append(place, k)) : k \in given \cap known}
<1>a. Is(v, "table") /\ strange \cup UNION inner = {}
  BY DEF Parts, SchemaErrors, PartErrors
<1>b. ASSUME NEW k \in (given \ known) \cup (s.required \ given) PROVE FALSE
  <2>1. Append(place, k) \in strange
    BY <1>b
  <2> HIDE DEF strange, inner
  <2> QED BY <1>a, <2>1
<1>c. \A k \in given \cap known : Errors3(s.fields[k], v.table[k], Append(place, k)) = {}
  BY <1>a
<1>1. /\ Is(v, "table") /\ s.required \subseteq DOMAIN v.table
      /\ DOMAIN v.table \subseteq DOMAIN s.fields
      /\ \A k \in DOMAIN v.table : Errors3(s.fields[k], v.table[k], Append(place, k)) = {}
  BY <1>a, <1>b, <1>c
<1>2. \A k \in DOMAIN v.table : Decodes4(FieldType(t, k), v.table[k])
  BY <1>1 DEF Fits3
<1> QED BY <1>1, <1>2 DEF Parts, Decodes, DecodesPart

(* A list fits when its items do.                                          *)
LEMMA ManyFits ==
  ASSUME NEW max, NEW item, NEW type, Fits2(item, type)
  PROVE  Fits3(Many(max, item), Vec(type))
<1> DEFINE s == Many(max, item)
           t == Vec(type)
<1>1. /\ "required" \notin DOMAIN s /\ "name" \notin DOMAIN s /\ "item" \in DOMAIN s
      /\ s.item = item /\ "vec" \in DOMAIN t /\ t.vec = type
  BY DEF Many, Vec
<1> HIDE DEF s, t
<1> SUFFICES ASSUME NEW v, NEW place, Errors3(s, v, place) = {} PROVE Decodes4(t, v)
  BY DEF Fits3, s, t
<1>2. Is(v, "array") /\ \A i \in DOMAIN v.array : Errors2(item, v.array[i], Append(place, i)) = {}
  BY <1>1 DEF Errors3, PartErrors
<1>3. \A i \in DOMAIN v.array : Decodes3(type, v.array[i])
  BY <1>2 DEF Fits2
<1> QED BY <1>1, <1>2, <1>3 DEF Decodes4, DecodesPart

(* A table of tables fits when they do.                                    *)
LEMMA KeyedFits ==
  ASSUME NEW min, NEW max, NEW p, NEW item, NEW type, Fits1(item, type)
  PROVE  Fits2(Keyed(min, max, p, item), BTreeMap(type))
<1> DEFINE s == Keyed(min, max, p, item)
           t == BTreeMap(type)
<1>1. /\ "required" \notin DOMAIN s /\ "name" \in DOMAIN s /\ s.item = item
      /\ "vec" \notin DOMAIN t /\ "map" \in DOMAIN t /\ t.map = type
  BY DEF Keyed, BTreeMap
<1> HIDE DEF s, t
<1> SUFFICES ASSUME NEW v, NEW place, Errors2(s, v, place) = {} PROVE Decodes3(t, v)
  BY DEF Fits2, s, t
<1>2. /\ Is(v, "table")
      /\ \A k \in DOMAIN v.table : Errors1(item, v.table[k], Append(place, k)) = {}
  BY <1>1 DEF Errors2, PartErrors
<1>3. \A k \in DOMAIN v.table : Decodes2(type, v.table[k])
  BY <1>2 DEF Fits1
<1> QED BY <1>1, <1>2, <1>3 DEF Decodes3, DecodesPart

(* A role.                                                                 *)
LEMMA RoleFits == Fits1(RoleSchema, ManifestRole)
<1> DEFINE s == RoleSchema
           t == ManifestRole
<1>1. Parts(s, t)
  BY DEF Parts, RoleSchema, ManifestRole, Object, Struct
<1>2. DOMAIN s.fields = {"inherits", "permissions"}
  BY DEF RoleSchema, ManifestRole, Object, Struct
<1>3. s.fields["inherits"] = Strings(8, "role") /\ FieldType(t, "inherits") = Vec(Text)
  BY DEF FieldType, RoleSchema, ManifestRole, Object, Struct
<1>4. /\ s.fields["permissions"] = Strings(64, "permission")
      /\ FieldType(t, "permissions") = Vec(Text)
  BY DEF FieldType, RoleSchema, ManifestRole, Object, Struct
<1> HIDE DEF s, t
<1>5. Fits0(s.fields["inherits"], FieldType(t, "inherits"))
  BY <1>3, StringsFit DEF LeafFits
<1>6. Fits0(s.fields["permissions"], FieldType(t, "permissions"))
  BY <1>4, StringsFit DEF LeafFits
<1>7. \A k \in DOMAIN s.fields : Fits0(s.fields[k], FieldType(t, k))
  BY <1>2, <1>5, <1>6
<1> QED BY <1>1, <1>7, ObjectFits1 DEF s, t

(* The retries of a job: the number of attempts fits in eight bits.        *)
LEMMA RetryFits == Fits1(RetrySchema, Retry)
<1> DEFINE s == RetrySchema
           t == Retry
<1>1. Parts(s, t)
  BY DEF Parts, RetrySchema, Retry, Object, Struct
<1>2. DOMAIN s.fields = {"max_attempts", "backoff"}
  BY DEF RetrySchema, Retry, Object, Struct
<1>3. s.fields["max_attempts"] = Between(1, 10) /\ FieldType(t, "max_attempts") = Byte
  BY DEF FieldType, RetrySchema, Retry, Object, Struct
<1>4. /\ s.fields["backoff"] = Enum({"fixed", "exponential"})
      /\ FieldType(t, "backoff") = Choice({"fixed", "exponential"})
  BY DEF FieldType, RetrySchema, Retry, Object, Struct
<1> HIDE DEF s, t
<1>5. Fits0(s.fields["max_attempts"], FieldType(t, "max_attempts"))
  <2>1. LeafFits(Between(1, 10), Byte)
    <3>1. 1 \in 0..255 /\ 10 \in 0..255
      OBVIOUS
    <3> QED BY <3>1, BetweenFits, Zenon
  <2> QED BY <1>3, <2>1 DEF LeafFits
<1>6. Fits0(s.fields["backoff"], FieldType(t, "backoff"))
  BY <1>4, EnumFits DEF LeafFits
<1>7. \A k \in DOMAIN s.fields : Fits0(s.fields[k], FieldType(t, k))
  BY <1>2, <1>5, <1>6
<1> QED BY <1>1, <1>7, ObjectFits1 DEF s, t

(* A bucket.                                                               *)
LEMMA BucketFits == Fits2(BucketSchema, Bucket)
<1> DEFINE s == BucketSchema
           t == Bucket
<1>1. Parts(s, t)
  BY DEF Parts, BucketSchema, Bucket, Object, Struct
<1>2. DOMAIN s.fields = {"name", "visibility", "max_object_size"}
  BY DEF BucketSchema, Bucket, Object, Struct
<1>3. s.fields["name"] = Pattern("label") /\ FieldType(t, "name") = Text
  BY DEF FieldType, BucketSchema, Bucket, Object, Struct
<1>4. /\ s.fields["visibility"] = Enum({"private", "public-read"})
      /\ FieldType(t, "visibility") = Choice({"private", "public-read"})
  BY DEF FieldType, BucketSchema, Bucket, Object, Struct
<1>5. s.fields["max_object_size"] = Pattern("size") /\ FieldType(t, "max_object_size") = Text
  BY DEF FieldType, BucketSchema, Bucket, Object, Struct
<1> HIDE DEF s, t
<1>6. Fits1(s.fields["name"], FieldType(t, "name"))
  BY <1>3, PatternFits DEF LeafFits
<1>7. Fits1(s.fields["visibility"], FieldType(t, "visibility"))
  BY <1>4, EnumFits DEF LeafFits
<1>8. Fits1(s.fields["max_object_size"], FieldType(t, "max_object_size"))
  BY <1>5, PatternFits DEF LeafFits
<1>9. \A k \in DOMAIN s.fields : Fits1(s.fields[k], FieldType(t, k))
  BY <1>2, <1>6, <1>7, <1>8
<1> QED BY <1>1, <1>9, ObjectFits2 DEF s, t

(* A function.                                                             *)
LEMMA FunctionFits == Fits2(FunctionSchema, Function)
<1> DEFINE s == FunctionSchema
           t == Function
<1>1. Parts(s, t)
  BY DEF Parts, FunctionSchema, Function, Object, Struct
<1>2. DOMAIN s.fields = {"name", "entry", "type", "permissions", "database", "buckets",
                         "secrets", "network", "email", "event", "queue"}
  BY DEF FunctionSchema, Function, Object, Struct
<1>3. s.fields["name"] = Pattern("label") /\ FieldType(t, "name") = Text
  BY DEF FieldType, FunctionSchema, Function, Object, Struct
<1>4. s.fields["entry"] = Pattern("entry") /\ FieldType(t, "entry") = Text
  BY DEF FieldType, FunctionSchema, Function, Object, Struct
<1>5. /\ s.fields["type"] = Enum({"rpc", "http", "webhook", "event", "scheduled", "queue"})
      /\ FieldType(t, "type") = FunctionType
  BY DEF FieldType, FunctionSchema, Function, Object, Struct
<1>6. /\ s.fields["permissions"] = Strings(16, "permission")
      /\ FieldType(t, "permissions") = Vec(Text)
  BY DEF FieldType, FunctionSchema, Function, Object, Struct
<1>7. /\ s.fields["database"] = Enum({"none", "read", "read-write"})
      /\ FieldType(t, "database") = Choice({"none", "read", "read-write"})
  BY DEF FieldType, FunctionSchema, Function, Object, Struct
<1>8. s.fields["buckets"] = Strings(16, "grant") /\ FieldType(t, "buckets") = Vec(Text)
  BY DEF FieldType, FunctionSchema, Function, Object, Struct
<1>9. s.fields["secrets"] = Strings(16, "secret") /\ FieldType(t, "secrets") = Vec(Text)
  BY DEF FieldType, FunctionSchema, Function, Object, Struct
<1>10. s.fields["network"] = Strings(16, "target") /\ FieldType(t, "network") = Vec(Text)
  BY DEF FieldType, FunctionSchema, Function, Object, Struct
<1>11. s.fields["email"] = Boolean /\ FieldType(t, "email") = Word
  BY DEF FieldType, FunctionSchema, Function, Object, Struct
<1>12. s.fields["event"] = Pattern("permission") /\ FieldType(t, "event") = Text
  BY DEF FieldType, FunctionSchema, Function, Object, Struct
<1>13. s.fields["queue"] = Pattern("label") /\ FieldType(t, "queue") = Text
  BY DEF FieldType, FunctionSchema, Function, Object, Struct
<1> HIDE DEF s, t
<1>14. Fits1(s.fields["name"], FieldType(t, "name"))
  BY <1>3, PatternFits DEF LeafFits
<1>15. Fits1(s.fields["entry"], FieldType(t, "entry"))
  BY <1>4, PatternFits DEF LeafFits
<1>16. Fits1(s.fields["type"], FieldType(t, "type"))
  BY <1>5, EnumFits DEF LeafFits, FunctionType
<1>17. Fits1(s.fields["permissions"], FieldType(t, "permissions"))
  BY <1>6, StringsFit DEF LeafFits
<1>18. Fits1(s.fields["database"], FieldType(t, "database"))
  BY <1>7, EnumFits DEF LeafFits
<1>19. Fits1(s.fields["buckets"], FieldType(t, "buckets"))
  BY <1>8, StringsFit DEF LeafFits
<1>20. Fits1(s.fields["secrets"], FieldType(t, "secrets"))
  BY <1>9, StringsFit DEF LeafFits
<1>21. Fits1(s.fields["network"], FieldType(t, "network"))
  BY <1>10, StringsFit DEF LeafFits
<1>22. Fits1(s.fields["email"], FieldType(t, "email"))
  BY <1>11, BooleanFits DEF LeafFits
<1>23. Fits1(s.fields["event"], FieldType(t, "event"))
  BY <1>12, PatternFits DEF LeafFits
<1>24. Fits1(s.fields["queue"], FieldType(t, "queue"))
  BY <1>13, PatternFits DEF LeafFits
<1>25. \A k \in DOMAIN s.fields : Fits1(s.fields[k], FieldType(t, k))
  BY <1>2, <1>14, <1>15, <1>16, <1>17, <1>18, <1>19, <1>20, <1>21, <1>22, <1>23, <1>24
<1> QED BY <1>1, <1>25, ObjectFits2 DEF s, t

(* A job, with its retries.                                                *)
LEMMA JobFits == Fits2(JobSchema, Job)
<1> DEFINE s == JobSchema
           t == Job
<1>1. Parts(s, t)
  BY DEF Parts, JobSchema, Job, Object, Struct
<1>2. DOMAIN s.fields = {"name", "function", "schedule", "timezone", "retry"}
  BY DEF JobSchema, Job, Object, Struct
<1>3. s.fields["name"] = Pattern("label") /\ FieldType(t, "name") = Text
  BY DEF FieldType, JobSchema, Job, Object, Struct
<1>4. s.fields["function"] = Pattern("label") /\ FieldType(t, "function") = Text
  BY DEF FieldType, JobSchema, Job, Object, Struct
<1>5. s.fields["schedule"] = Pattern("cron") /\ FieldType(t, "schedule") = Text
  BY DEF FieldType, JobSchema, Job, Object, Struct
<1>6. s.fields["timezone"] = Pattern("zone") /\ FieldType(t, "timezone") = Text
  BY DEF FieldType, JobSchema, Job, Object, Struct
<1>7. s.fields["retry"] = RetrySchema /\ FieldType(t, "retry") = Retry
  BY DEF FieldType, JobSchema, Job, Object, Struct
<1> HIDE DEF s, t
<1>8. Fits1(s.fields["name"], FieldType(t, "name"))
  BY <1>3, PatternFits DEF LeafFits
<1>9. Fits1(s.fields["function"], FieldType(t, "function"))
  BY <1>4, PatternFits DEF LeafFits
<1>10. Fits1(s.fields["schedule"], FieldType(t, "schedule"))
  BY <1>5, PatternFits DEF LeafFits
<1>11. Fits1(s.fields["timezone"], FieldType(t, "timezone"))
  BY <1>6, PatternFits DEF LeafFits
<1>12. Fits1(s.fields["retry"], FieldType(t, "retry"))
  BY <1>7, RetryFits
<1>13. \A k \in DOMAIN s.fields : Fits1(s.fields[k], FieldType(t, k))
  BY <1>2, <1>8, <1>9, <1>10, <1>11, <1>12
<1> QED BY <1>1, <1>13, ObjectFits2 DEF s, t

(* A route.                                                                *)
LEMMA RouteFits == Fits2(RouteSchema, Route)
<1> DEFINE s == RouteSchema
           t == Route
<1>1. Parts(s, t)
  BY DEF Parts, RouteSchema, Route, Object, Struct
<1>2. DOMAIN s.fields = {"path", "method", "function", "auth"}
  BY DEF RouteSchema, Route, Object, Struct
<1>3. s.fields["path"] = Pattern("route") /\ FieldType(t, "path") = Text
  BY DEF FieldType, RouteSchema, Route, Object, Struct
<1>4. /\ s.fields["method"] = Enum({"GET", "HEAD", "POST", "PUT", "PATCH", "DELETE"})
      /\ FieldType(t, "method") = Choice({"GET", "HEAD", "POST", "PUT", "PATCH", "DELETE"})
  BY DEF FieldType, RouteSchema, Route, Object, Struct
<1>5. s.fields["function"] = Pattern("label") /\ FieldType(t, "function") = Text
  BY DEF FieldType, RouteSchema, Route, Object, Struct
<1>6. /\ s.fields["auth"] = Enum({"required", "public"})
      /\ FieldType(t, "auth") = Choice({"required", "public"})
  BY DEF FieldType, RouteSchema, Route, Object, Struct
<1> HIDE DEF s, t
<1>7. Fits1(s.fields["path"], FieldType(t, "path"))
  BY <1>3, PatternFits DEF LeafFits
<1>8. Fits1(s.fields["method"], FieldType(t, "method"))
  BY <1>4, EnumFits DEF LeafFits
<1>9. Fits1(s.fields["function"], FieldType(t, "function"))
  BY <1>5, PatternFits DEF LeafFits
<1>10. Fits1(s.fields["auth"], FieldType(t, "auth"))
  BY <1>6, EnumFits DEF LeafFits
<1>11. \A k \in DOMAIN s.fields : Fits1(s.fields[k], FieldType(t, k))
  BY <1>2, <1>7, <1>8, <1>9, <1>10
<1> QED BY <1>1, <1>11, ObjectFits2 DEF s, t

LEMMA RolesFit == Fits2(Keyed(1, 32, "role", RoleSchema), BTreeMap(ManifestRole))
  BY RoleFits, KeyedFits

(* The roles.                                                              *)
LEMMA AuthFits == Fits3(AuthSchema, ManifestAuth)
<1> DEFINE s == AuthSchema
           t == ManifestAuth
<1>1. Parts(s, t)
  BY DEF Parts, AuthSchema, ManifestAuth, Object, Struct
<1>2. DOMAIN s.fields = {"default_role", "roles"}
  BY DEF AuthSchema, ManifestAuth, Object, Struct
<1>3. s.fields["default_role"] = Pattern("role") /\ FieldType(t, "default_role") = Text
  BY DEF FieldType, AuthSchema, ManifestAuth, Object, Struct
<1>4. /\ s.fields["roles"] = Keyed(1, 32, "role", RoleSchema)
      /\ FieldType(t, "roles") = BTreeMap(ManifestRole)
  BY DEF FieldType, AuthSchema, ManifestAuth, Object, Struct
<1> HIDE DEF s, t
<1>5. Fits2(s.fields["default_role"], FieldType(t, "default_role"))
  BY <1>3, PatternFits DEF LeafFits
<1>6. Fits2(s.fields["roles"], FieldType(t, "roles"))
  BY <1>4, RolesFit
<1>7. \A k \in DOMAIN s.fields : Fits2(s.fields[k], FieldType(t, k))
  BY <1>2, <1>5, <1>6
<1> QED BY <1>1, <1>7, ObjectFits3 DEF s, t

(* The limits.                                                             *)
LEMMA LimitsFit == Fits3(LimitsSchema, Limits)
<1> DEFINE s == LimitsSchema
           t == Limits
<1>1. Parts(s, t)
  BY DEF Parts, LimitsSchema, Limits, Object, Struct
<1>2. DOMAIN s.fields = {"function_class", "function_timeout", "concurrency"}
  BY DEF LimitsSchema, Limits, Object, Struct
<1>3. /\ s.fields["function_class"] = Enum({"standard"})
      /\ FieldType(t, "function_class") = Choice({"standard"})
  BY DEF FieldType, LimitsSchema, Limits, Object, Struct
<1>4. /\ s.fields["function_timeout"] = Pattern("duration")
      /\ FieldType(t, "function_timeout") = Text
  BY DEF FieldType, LimitsSchema, Limits, Object, Struct
<1>5. s.fields["concurrency"] = Between(1, 100) /\ FieldType(t, "concurrency") = Byte
  BY DEF FieldType, LimitsSchema, Limits, Object, Struct
<1> HIDE DEF s, t
<1>6. Fits2(s.fields["function_class"], FieldType(t, "function_class"))
  BY <1>3, EnumFits DEF LeafFits
<1>7. Fits2(s.fields["function_timeout"], FieldType(t, "function_timeout"))
  BY <1>4, PatternFits DEF LeafFits
<1>8. Fits2(s.fields["concurrency"], FieldType(t, "concurrency"))
  <2>1. LeafFits(Between(1, 100), Byte)
    <3>1. 1 \in 0..255 /\ 100 \in 0..255
      OBVIOUS
    <3> QED BY <3>1, BetweenFits, Zenon
  <2> QED BY <1>5, <2>1 DEF LeafFits
<1>9. \A k \in DOMAIN s.fields : Fits2(s.fields[k], FieldType(t, k))
  BY <1>2, <1>6, <1>7, <1>8
<1> QED BY <1>1, <1>9, ObjectFits3 DEF s, t

(* The application.                                                        *)
LEMMA ApplicationFits ==
  Fits3(Object({"name", "runtime"}, [name |-> Pattern("label"),
                runtime |-> Enum({"blobyard-js-1"})]),
        Struct([name |-> Text, runtime |-> Choice({"blobyard-js-1"})], <<>>))
<1> DEFINE s == Object({"name", "runtime"}, [name |-> Pattern("label"),
                        runtime |-> Enum({"blobyard-js-1"})])
           t == Struct([name |-> Text, runtime |-> Choice({"blobyard-js-1"})], <<>>)
<1>1. Parts(s, t)
  BY DEF Parts, Object, Struct
<1>2. DOMAIN s.fields = {"name", "runtime"}
  BY DEF Object, Struct
<1>3. s.fields["name"] = Pattern("label") /\ FieldType(t, "name") = Text
  BY DEF FieldType, Object, Struct
<1>4. /\ s.fields["runtime"] = Enum({"blobyard-js-1"})
      /\ FieldType(t, "runtime") = Choice({"blobyard-js-1"})
  BY DEF FieldType, Object, Struct
<1> HIDE DEF s, t
<1>5. Fits2(s.fields["name"], FieldType(t, "name"))
  BY <1>3, PatternFits DEF LeafFits
<1>6. Fits2(s.fields["runtime"], FieldType(t, "runtime"))
  BY <1>4, EnumFits DEF LeafFits
<1>7. \A k \in DOMAIN s.fields : Fits2(s.fields[k], FieldType(t, k))
  BY <1>2, <1>5, <1>6
<1> QED BY <1>1, <1>7, ObjectFits3 DEF s, t

(* The frontend.                                                           *)
LEMMA FrontendFits ==
  Fits3(Object({"directory"}, [directory |-> Pattern("path"), spa_fallback |-> Boolean,
                clean_urls |-> Boolean]),
        Struct([directory |-> Text], [spa_fallback |-> Word, clean_urls |-> Word]))
<1> DEFINE s == Object({"directory"}, [directory |-> Pattern("path"),
                        spa_fallback |-> Boolean, clean_urls |-> Boolean])
           t == Struct([directory |-> Text], [spa_fallback |-> Word, clean_urls |-> Word])
<1>1. Parts(s, t)
  BY DEF Parts, Object, Struct
<1>2. DOMAIN s.fields = {"directory", "spa_fallback", "clean_urls"}
  BY DEF Object, Struct
<1>3. s.fields["directory"] = Pattern("path") /\ FieldType(t, "directory") = Text
  BY DEF FieldType, Object, Struct
<1>4. s.fields["spa_fallback"] = Boolean /\ FieldType(t, "spa_fallback") = Word
  BY DEF FieldType, Object, Struct
<1>5. s.fields["clean_urls"] = Boolean /\ FieldType(t, "clean_urls") = Word
  BY DEF FieldType, Object, Struct
<1> HIDE DEF s, t
<1>6. Fits2(s.fields["directory"], FieldType(t, "directory"))
  BY <1>3, PatternFits DEF LeafFits
<1>7. Fits2(s.fields["spa_fallback"], FieldType(t, "spa_fallback"))
  BY <1>4, BooleanFits DEF LeafFits
<1>8. Fits2(s.fields["clean_urls"], FieldType(t, "clean_urls"))
  BY <1>5, BooleanFits DEF LeafFits
<1>9. \A k \in DOMAIN s.fields : Fits2(s.fields[k], FieldType(t, k))
  BY <1>2, <1>6, <1>7, <1>8
<1> QED BY <1>1, <1>9, ObjectFits3 DEF s, t

(* The database.                                                           *)
LEMMA DatabaseFits ==
  Fits3(Object({"migrations"}, [migrations |-> Pattern("path")]),
        Struct([migrations |-> Text], <<>>))
<1> DEFINE s == Object({"migrations"}, [migrations |-> Pattern("path")])
           t == Struct([migrations |-> Text], <<>>)
<1>1. Parts(s, t)
  BY DEF Parts, Object, Struct
<1>2. DOMAIN s.fields = {"migrations"}
  BY DEF Object, Struct
<1>3. s.fields["migrations"] = Pattern("path") /\ FieldType(t, "migrations") = Text
  BY DEF FieldType, Object, Struct
<1> HIDE DEF s, t
<1>4. Fits2(s.fields["migrations"], FieldType(t, "migrations"))
  BY <1>3, PatternFits DEF LeafFits
<1>5. \A k \in DOMAIN s.fields : Fits2(s.fields[k], FieldType(t, k))
  BY <1>2, <1>4
<1> QED BY <1>1, <1>5, ObjectFits3 DEF s, t

(* The health check.                                                       *)
LEMMA HealthFits == Fits3(HealthSchema, Struct([function |-> Text], [timeout |-> Text]))
<1> DEFINE s == HealthSchema
           t == Struct([function |-> Text], [timeout |-> Text])
<1>1. Parts(s, t)
  BY DEF Parts, HealthSchema, Object, Struct
<1>2. DOMAIN s.fields = {"function", "timeout"}
  BY DEF HealthSchema, Object, Struct
<1>3. s.fields["function"] = Pattern("label") /\ FieldType(t, "function") = Text
  BY DEF FieldType, HealthSchema, Object, Struct
<1>4. s.fields["timeout"] = Pattern("duration") /\ FieldType(t, "timeout") = Text
  BY DEF FieldType, HealthSchema, Object, Struct
<1> HIDE DEF s, t
<1>5. Fits2(s.fields["function"], FieldType(t, "function"))
  BY <1>3, PatternFits DEF LeafFits
<1>6. Fits2(s.fields["timeout"], FieldType(t, "timeout"))
  BY <1>4, PatternFits DEF LeafFits
<1>7. \A k \in DOMAIN s.fields : Fits2(s.fields[k], FieldType(t, k))
  BY <1>2, <1>5, <1>6
<1> QED BY <1>1, <1>7, ObjectFits3 DEF s, t

(* The manifest.                                                           *)
LEMMA RootFits == Fits4(RootSchema, ApplicationManifest)
<1> DEFINE s == RootSchema
           t == ApplicationManifest
<1>1. Parts(s, t)
  BY DEF Parts, RootSchema, ApplicationManifest, Object, Struct
<1>2. DOMAIN s.fields = {"schema_version", "application", "frontend", "auth", "database",
                         "buckets", "functions", "jobs", "routes", "limits", "health"}
  BY DEF RootSchema, ApplicationManifest, Object, Struct
<1>3. s.fields["schema_version"] = Between(1, 1) /\ FieldType(t, "schema_version") = Byte
  BY DEF FieldType, RootSchema, ApplicationManifest, Object, Struct
<1>4. /\ s.fields["application"] = Object({"name", "runtime"}, [name |-> Pattern("label"), runtime |-> Enum({"blobyard-js-1"})])
      /\ FieldType(t, "application") = Struct([name |-> Text, runtime |-> Choice({"blobyard-js-1"})], <<>>)
  BY DEF FieldType, RootSchema, ApplicationManifest, Object, Struct
<1>5. /\ s.fields["frontend"] = Object({"directory"}, [directory |-> Pattern("path"), spa_fallback |-> Boolean, clean_urls |-> Boolean])
      /\ FieldType(t, "frontend") = Struct([directory |-> Text], [spa_fallback |-> Word, clean_urls |-> Word])
  BY DEF FieldType, RootSchema, ApplicationManifest, Object, Struct
<1>6. s.fields["auth"] = AuthSchema /\ FieldType(t, "auth") = ManifestAuth
  BY DEF FieldType, RootSchema, ApplicationManifest, Object, Struct
<1>7. /\ s.fields["database"] = Object({"migrations"}, [migrations |-> Pattern("path")])
      /\ FieldType(t, "database") = Struct([migrations |-> Text], <<>>)
  BY DEF FieldType, RootSchema, ApplicationManifest, Object, Struct
<1>8. s.fields["buckets"] = Many(16, BucketSchema) /\ FieldType(t, "buckets") = Vec(Bucket)
  BY DEF FieldType, RootSchema, ApplicationManifest, Object, Struct
<1>9. /\ s.fields["functions"] = Many(64, FunctionSchema)
      /\ FieldType(t, "functions") = Vec(Function)
  BY DEF FieldType, RootSchema, ApplicationManifest, Object, Struct
<1>10. s.fields["jobs"] = Many(32, JobSchema) /\ FieldType(t, "jobs") = Vec(Job)
  BY DEF FieldType, RootSchema, ApplicationManifest, Object, Struct
<1>11. s.fields["routes"] = Many(64, RouteSchema) /\ FieldType(t, "routes") = Vec(Route)
  BY DEF FieldType, RootSchema, ApplicationManifest, Object, Struct
<1>12. s.fields["limits"] = LimitsSchema /\ FieldType(t, "limits") = Limits
  BY DEF FieldType, RootSchema, ApplicationManifest, Object, Struct
<1>13. /\ s.fields["health"] = HealthSchema
       /\ FieldType(t, "health") = Struct([function |-> Text], [timeout |-> Text])
  BY DEF FieldType, RootSchema, ApplicationManifest, Object, Struct
<1> HIDE DEF s, t
<1>14. Fits3(s.fields["schema_version"], FieldType(t, "schema_version"))
  <2>1. LeafFits(Between(1, 1), Byte)
    <3>1. 1 \in 0..255 /\ 1 \in 0..255
      OBVIOUS
    <3> QED BY <3>1, BetweenFits, Zenon
  <2> QED BY <1>3, <2>1 DEF LeafFits
<1>15. Fits3(s.fields["application"], FieldType(t, "application"))
  BY <1>4, ApplicationFits
<1>16. Fits3(s.fields["frontend"], FieldType(t, "frontend"))
  BY <1>5, FrontendFits
<1>17. Fits3(s.fields["auth"], FieldType(t, "auth"))
  BY <1>6, AuthFits
<1>18. Fits3(s.fields["database"], FieldType(t, "database"))
  BY <1>7, DatabaseFits
<1>19. Fits3(s.fields["buckets"], FieldType(t, "buckets"))
  BY <1>8, BucketFits, ManyFits
<1>20. Fits3(s.fields["functions"], FieldType(t, "functions"))
  BY <1>9, FunctionFits, ManyFits
<1>21. Fits3(s.fields["jobs"], FieldType(t, "jobs"))
  BY <1>10, JobFits, ManyFits
<1>22. Fits3(s.fields["routes"], FieldType(t, "routes"))
  BY <1>11, RouteFits, ManyFits
<1>23. Fits3(s.fields["limits"], FieldType(t, "limits"))
  BY <1>12, LimitsFit
<1>24. Fits3(s.fields["health"], FieldType(t, "health"))
  BY <1>13, HealthFits
<1>25. \A k \in DOMAIN s.fields : Fits3(s.fields[k], FieldType(t, k))
  BY <1>2, <1>14, <1>15, <1>16, <1>17, <1>18, <1>19, <1>20, <1>21, <1>22, <1>23, <1>24
<1> QED BY <1>1, <1>25, ObjectFits4 DEF s, t

LEMMA SchemaFitsTypes ==
  ASSUME NEW m, Admitted(m)
  PROVE  Decodes(ApplicationManifest, m)
  BY RootFits DEF Admitted, Fits4

-----------------------------------------------------------------------------
(* What the references of an accepted manifest lead to.                    *)

LEMMA AcceptedHasNoErrors ==
  ASSUME NEW m, ParseToml(m) = {}
  PROVE  /\ Decodes(ApplicationManifest, m)
         /\ RoleErrors(m) = {} /\ FunctionErrors(m) = {} /\ ResourceErrors(m) = {}
  BY DEF ParseToml, CrossErrors

(* Jobs, routes and the health check name functions that are there.        *)
LEMMA FunctionsAreThere ==
  ASSUME NEW m, FunctionErrors(m) = {}
  PROVE  /\ \A i \in DOMAIN Items(m, "jobs") : \E k \in DOMAIN Items(m, "functions") :
              /\ Get(Items(m, "functions")[k], "name") = Get(Items(m, "jobs")[i], "function")
              /\ Get(Items(m, "functions")[k], "type") = "scheduled"
         /\ \A i \in DOMAIN Items(m, "routes") : Declares(m, Get(Items(m, "routes")[i], "function"))
         /\ Has(m, "health") => Declares(m, Get(m.table["health"], "function"))
<1> DEFINE functions == Items(m, "functions")
           scheduled(name) == \E i \in DOMAIN functions :
                                /\ Get(functions[i], "name") = name
                                /\ Get(functions[i], "type") = "scheduled"
           jobs == Items(m, "jobs")
           routes == Items(m, "routes")
           idle == {j \in DOMAIN jobs : ~ scheduled(Get(jobs[j], "function"))}
           lost == {j \in DOMAIN routes : ~ Declares(m, Get(routes[j], "function"))}
           atJobs == {<<"jobs", i, "function">> : i \in idle}
           atRoutes == {<<"routes", i, "function">> : i \in lost}
           atHealth == IF Has(m, "health") /\ ~ Declares(m, Get(m.table["health"], "function"))
                       THEN {<<"health", "function">>} ELSE {}
<1>1. atJobs = {} /\ atRoutes = {} /\ atHealth = {}
  BY DEF FunctionErrors
<1>2. ASSUME NEW i \in idle PROVE FALSE
  <2> HIDE DEF idle
  <2>1. <<"jobs", i, "function">> \in atJobs
    OBVIOUS
  <2> HIDE DEF atJobs
  <2> QED BY <1>1, <2>1
<1>3. ASSUME NEW i \in lost PROVE FALSE
  <2> HIDE DEF lost
  <2>1. <<"routes", i, "function">> \in atRoutes
    OBVIOUS
  <2> HIDE DEF atRoutes
  <2> QED BY <1>1, <2>1
<1>4. Has(m, "health") => Declares(m, Get(m.table["health"], "function"))
  BY <1>1
<1>5. \A i \in DOMAIN jobs : scheduled(Get(jobs[i], "function"))
  BY <1>2
<1>6. \A i \in DOMAIN routes : Declares(m, Get(routes[i], "function"))
  BY <1>3
<1> QED BY <1>4, <1>5, <1>6

(* What is found wrong with the roles, part by part.                       *)
DefaultErrors(m) ==
  IF /\ Has(m, "auth") /\ Has(m.table["auth"], "default_role")
     /\ Get(m.table["auth"], "default_role") \notin DOMAIN Roles(m)
  THEN {<<"auth", "default_role">>} ELSE {}

Lost(roles, r) == {j \in DOMAIN Parents(roles, r) : Parents(roles, r)[j] \notin DOMAIN roles}
LostOf(roles, r) == {<<"auth", "roles", r, "inherits", i>> : i \in Lost(roles, r)}
ParentErrors(m) == UNION {LostOf(Roles(m), r) : r \in DOMAIN Roles(m)}

CycleErrors(m) ==
  {<<"auth", "roles", r, "inherits">> : r \in {q \in DOMAIN Roles(m) : HasCycle(Roles(m), q)}}

Permitted(m) == UNION {ToSet(Items(Roles(m)[r], "permissions")) : r \in DOMAIN Roles(m)}
Forbidden(m, f) ==
  {j \in DOMAIN Items(Items(m, "functions")[f], "permissions") :
     Items(Items(m, "functions")[f], "permissions")[j] \notin Permitted(m)}
ForbiddenOf(m, f) == {<<"functions", f, "permissions", i>> : i \in Forbidden(m, f)}
PermissionErrors(m) == UNION {ForbiddenOf(m, f) : f \in DOMAIN Items(m, "functions")}

LEMMA RoleErrorsAre ==
  \A m : RoleErrors(m)
           = DefaultErrors(m) \cup ParentErrors(m) \cup CycleErrors(m) \cup PermissionErrors(m)
  BY Zenon DEF RoleErrors, DefaultErrors, ParentErrors, LostOf, Lost, CycleErrors, PermissionErrors,
        ForbiddenOf, Forbidden, Permitted

(* Every permission that a function asks for is some role's.               *)
LEMMA PermissionsAreThere ==
  ASSUME NEW m, RoleErrors(m) = {}, NEW i \in DOMAIN Items(m, "functions"),
         NEW j \in DOMAIN Items(Items(m, "functions")[i], "permissions")
  PROVE  \E r \in DOMAIN Roles(m) :
           Items(Items(m, "functions")[i], "permissions")[j]
             \in ToSet(Items(Roles(m)[r], "permissions"))
<1> DEFINE asked == Items(Items(m, "functions")[i], "permissions")
<1>1. PermissionErrors(m) = {}
  BY RoleErrorsAre
<1>2. asked[j] \in Permitted(m)
  <2> SUFFICES ASSUME j \in Forbidden(m, i) PROVE FALSE
    BY DEF Forbidden
  <2>1. <<"functions", i, "permissions", j>> \in ForbiddenOf(m, i)
    BY DEF ForbiddenOf
  <2>2. <<"functions", i, "permissions", j>> \in PermissionErrors(m)
    BY <2>1 DEF PermissionErrors
  <2> QED BY <1>1, <2>2
<1> QED BY <1>2 DEF Permitted

(* Buckets and the database that a function uses are there.                *)
LEMMA ResourcesAreThere ==
  ASSUME NEW m, ResourceErrors(m) = {}, NEW i \in DOMAIN Items(m, "functions")
  PROVE  LET f == Items(m, "functions")[i]
         IN  /\ \A j \in DOMAIN Items(f, "buckets") : \E b \in DOMAIN Items(m, "buckets") :
                  BucketOf[Items(f, "buckets")[j].string] = Get(Items(m, "buckets")[b], "name")
             /\ Reads(f, "database", "read") \/ Reads(f, "database", "read-write")
                  => Has(m, "database")
<1> DEFINE functions == Items(m, "functions")
           f == functions[i]
           buckets == {Get(Items(m, "buckets")[b], "name") : b \in DOMAIN Items(m, "buckets")}
           wrongTriggers(g) == {t \in Triggers : Has(g, t) # (Get(g, "type") = t)}
           wrong(g) == {h \in DOMAIN Items(g, "buckets") :
                          BucketOf[Items(g, "buckets")[h].string] \notin buckets}
           atGrants(k) == {<<"functions", k, "buckets", h>> : h \in wrong(functions[k])}
           atBase(k) == IF (Reads(functions[k], "database", "read")
                              \/ Reads(functions[k], "database", "read-write"))
                            /\ ~ Has(m, "database")
                        THEN {<<"functions", k, "database">>} ELSE {}
           errors(k) == atGrants(k) \cup atBase(k)
                          \cup {<<"functions", k, t>> : t \in wrongTriggers(functions[k])}
<1>1. UNION {errors(k) : k \in DOMAIN functions} = {}
  BY DEF ResourceErrors
<1>2. errors(i) = {}
  <2> HIDE DEF errors
  <2> QED BY <1>1
<1>3. atGrants(i) = {} /\ atBase(i) = {}
  <2> HIDE DEF atGrants, atBase
  <2> QED BY <1>2
<1>4. \A j \in DOMAIN Items(f, "buckets") : BucketOf[Items(f, "buckets")[j].string] \in buckets
  <2> SUFFICES ASSUME NEW j \in wrong(f) PROVE FALSE
    OBVIOUS
  <2> HIDE DEF wrong
  <2>1. <<"functions", i, "buckets", j>> \in atGrants(i)
    OBVIOUS
  <2> HIDE DEF atGrants
  <2> QED BY <1>3, <2>1
<1>5. Reads(f, "database", "read") \/ Reads(f, "database", "read-write") => Has(m, "database")
  <2> SUFFICES ASSUME Reads(f, "database", "read") \/ Reads(f, "database", "read-write"),
                      ~ Has(m, "database")
               PROVE  FALSE
    OBVIOUS
  <2>1. atBase(i) = {<<"functions", i, "database">>}
    OBVIOUS
  <2> HIDE DEF atBase
  <2> QED BY <1>3, <2>1
<1>6. \A j \in DOMAIN Items(f, "buckets") : \E b \in DOMAIN Items(m, "buckets") :
        BucketOf[Items(f, "buckets")[j].string] = Get(Items(m, "buckets")[b], "name")
  BY <1>4
<1> QED BY <1>5, <1>6

(* A function's database is one of three words.                            *)
LEMMA DatabaseIsAWord ==
  ASSUME NEW m, Decodes(ApplicationManifest, m), NEW i \in DOMAIN Items(m, "functions"),
         Has(Items(m, "functions")[i], "database")
  PROVE  Get(Items(m, "functions")[i], "database") \in {"none", "read", "read-write"}
<1> DEFINE t == ApplicationManifest
           f == Items(m, "functions")[i]
<1>1. /\ "vec" \notin DOMAIN t /\ "map" \notin DOMAIN t /\ "must" \in DOMAIN t
      /\ FieldType(t, "functions") = Vec(Function)
  BY DEF ApplicationManifest, Struct, FieldType
<1>2. Has(m, "functions") /\ Items(m, "functions") = m.table["functions"].array
  BY DEF Items, Has
<1> HIDE DEF t
<1>3. \A k \in DOMAIN m.table : Decodes4(FieldType(t, k), m.table[k])
  BY <1>1 DEF Decodes, DecodesPart, t
<1>4. Decodes4(Vec(Function), m.table["functions"])
  BY <1>1, <1>2, <1>3 DEF Has
<1>5. "vec" \in DOMAIN Vec(Function) /\ Vec(Function).vec = Function
  BY DEF Vec
<1>6. Decodes3(Function, f)
  BY <1>2, <1>4, <1>5 DEF Decodes4, DecodesPart
<1>7. /\ "vec" \notin DOMAIN Function /\ "map" \notin DOMAIN Function /\ "must" \in DOMAIN Function
      /\ FieldType(Function, "database") = Choice({"none", "read", "read-write"})
  BY DEF Function, Struct, FieldType
<1> HIDE DEF f
<1>8. \A k \in DOMAIN f.table : Decodes2(FieldType(Function, k), f.table[k])
  BY <1>6, <1>7 DEF Decodes3, DecodesPart
<1>9. Decodes2(Choice({"none", "read", "read-write"}), f.table["database"])
  BY <1>7, <1>8 DEF Has, f
<1>10. LET c == Choice({"none", "read", "read-write"})
       IN  Simple(c) /\ "scalar" \notin DOMAIN c /\ c.choice = {"none", "read", "read-write"}
  BY DEF Simple, Choice
<1>11. DecodesLeaf(Choice({"none", "read", "read-write"}), f.table["database"])
  BY <1>9, <1>10, SimpleDecodes
<1> QED BY <1>10, <1>11 DEF DecodesLeaf, Get, f

LEMMA ValidIsClosed ==
  ASSUME NEW m, ParseToml(m) = {}
  PROVE  Closed(m)
<1> DEFINE functions == Items(m, "functions")
           named == {Get(f, "name") : f \in ToSet(functions)}
           roles == Roles(m)
<1>1. /\ Decodes(ApplicationManifest, m)
      /\ RoleErrors(m) = {} /\ FunctionErrors(m) = {} /\ ResourceErrors(m) = {}
  BY AcceptedHasNoErrors
<1>2. \A name : Declares(m, name) => name \in named
  BY DEF Declares, ToSet
<1>3. \A j \in ToSet(Items(m, "jobs")) : \E f \in ToSet(functions) :
        Get(f, "name") = Get(j, "function") /\ Get(f, "type") = "scheduled"
  <2> TAKE j \in ToSet(Items(m, "jobs"))
  <2>1. PICK i \in DOMAIN Items(m, "jobs") : j = Items(m, "jobs")[i]
    BY DEF ToSet
  <2>2. PICK k \in DOMAIN functions : /\ Get(functions[k], "name") = Get(j, "function")
                                      /\ Get(functions[k], "type") = "scheduled"
    BY <1>1, <2>1, FunctionsAreThere
  <2> QED BY <2>2 DEF ToSet
<1>4. {Get(r, "function") : r \in ToSet(Items(m, "routes"))} \subseteq named
  <2>1. \A i \in DOMAIN Items(m, "routes") : Get(Items(m, "routes")[i], "function") \in named
    BY <1>1, <1>2, FunctionsAreThere
  <2> HIDE DEF named
  <2> QED BY <2>1 DEF ToSet
<1>5. Has(m, "health") => Get(m.table["health"], "function") \in named
  BY <1>1, <1>2, FunctionsAreThere
<1>6. ASSUME NEW f \in ToSet(functions)
      PROVE  /\ \A p \in ToSet(Items(f, "permissions")) :
                  \E r \in DOMAIN roles : p \in ToSet(Items(roles[r], "permissions"))
             /\ {BucketOf[g.string] : g \in ToSet(Items(f, "buckets"))}
                  \subseteq {Get(b, "name") : b \in ToSet(Items(m, "buckets"))}
             /\ Has(f, "database") /\ Get(f, "database") # "none" => Has(m, "database")
  <2>1. PICK i \in DOMAIN functions : f = functions[i]
    BY <1>6 DEF ToSet
  <2>2. \A p \in ToSet(Items(f, "permissions")) :
          \E r \in DOMAIN roles : p \in ToSet(Items(roles[r], "permissions"))
    <3> TAKE p \in ToSet(Items(f, "permissions"))
    <3>1. PICK j \in DOMAIN Items(f, "permissions") : p = Items(f, "permissions")[j]
      BY DEF ToSet
    <3> QED BY <1>1, <2>1, <3>1, PermissionsAreThere
  <2>3. ASSUME NEW g \in ToSet(Items(f, "buckets"))
        PROVE  \E b \in ToSet(Items(m, "buckets")) : BucketOf[g.string] = Get(b, "name")
    <3>1. PICK j \in DOMAIN Items(f, "buckets") : g = Items(f, "buckets")[j]
      BY <2>3 DEF ToSet
    <3>2. PICK b \in DOMAIN Items(m, "buckets") :
            BucketOf[g.string] = Get(Items(m, "buckets")[b], "name")
      BY <1>1, <2>1, <3>1, ResourcesAreThere
    <3> QED BY <3>2 DEF ToSet
  <2>4. Has(f, "database") /\ Get(f, "database") # "none" => Has(m, "database")
    BY <1>1, <2>1, ResourcesAreThere, DatabaseIsAWord DEF Reads
  <2> QED BY <2>2, <2>3, <2>4
<1> QED BY <1>3, <1>4, <1>5, <1>6 DEF Closed

-----------------------------------------------------------------------------
(* Inheritance is reported where it is wrong, and there alone: no other    *)
(* part of the validation reports at such a place.                         *)

LEMMA ElsewhereErrors ==
  ASSUME NEW m, NEW p \in FunctionErrors(m) \cup ResourceErrors(m) \cup RouteErrors(m)
                            \cup ScheduleErrors(m) \cup PermissionErrors(m)
  PROVE  p[1] # "auth"
<1>1. CASE p \in FunctionErrors(m)
  BY <1>1 DEF FunctionErrors
<1>2. CASE p \in ResourceErrors(m)
  BY <1>2 DEF ResourceErrors
<1>3. CASE p \in RouteErrors(m)
  BY <1>3 DEF RouteErrors
<1>4. CASE p \in ScheduleErrors(m)
  BY <1>4 DEF ScheduleErrors
<1>5. CASE p \in PermissionErrors(m)
  BY <1>5 DEF PermissionErrors, ForbiddenOf
<1> QED BY <1>1, <1>2, <1>3, <1>4, <1>5

LEMMA InheritanceErrors ==
  ASSUME NEW m, Admitted(m), Decodes(ApplicationManifest, m), NEW p, p[1] = "auth"
  PROVE  p \in ParseToml(m) <=> p \in DefaultErrors(m) \cup ParentErrors(m) \cup CycleErrors(m)
<1>1. ParseToml(m) = CrossErrors(m)
  BY DEF ParseToml, Admitted
<1>2. p \in CrossErrors(m) <=>
        \/ p \in DefaultErrors(m) \cup ParentErrors(m) \cup CycleErrors(m)
        \/ p \in FunctionErrors(m) \cup ResourceErrors(m) \cup RouteErrors(m)
                   \cup ScheduleErrors(m) \cup PermissionErrors(m)
  BY RoleErrorsAre DEF CrossErrors
<1> QED BY <1>1, <1>2, ElsewhereErrors

LEMMA CyclesAreReported ==
  ASSUME NEW m, Admitted(m), Decodes(ApplicationManifest, m), NEW r \in DOMAIN Roles(m)
  PROVE  <<"auth", "roles", r, "inherits">> \in ParseToml(m) <=> HasCycle(Roles(m), r)
<1> DEFINE p == <<"auth", "roles", r, "inherits">>
<1>1. p \in ParseToml(m) <=> p \in DefaultErrors(m) \cup ParentErrors(m) \cup CycleErrors(m)
  BY InheritanceErrors
<1>2. p \notin DefaultErrors(m)
  BY DEF DefaultErrors
<1>3. p \notin ParentErrors(m)
  BY DEF ParentErrors, LostOf
<1>4. p \in CycleErrors(m) <=> HasCycle(Roles(m), r)
  BY DEF CycleErrors
<1> QED BY <1>1, <1>2, <1>3, <1>4

LEMMA LostParentsAreReported ==
  ASSUME NEW m, Admitted(m), Decodes(ApplicationManifest, m), NEW r \in DOMAIN Roles(m),
         NEW i \in DOMAIN Parents(Roles(m), r)
  PROVE  <<"auth", "roles", r, "inherits", i>> \in ParseToml(m)
           <=> Parents(Roles(m), r)[i] \notin DOMAIN Roles(m)
<1> DEFINE p == <<"auth", "roles", r, "inherits", i>>
<1>1. p \in ParseToml(m) <=> p \in DefaultErrors(m) \cup ParentErrors(m) \cup CycleErrors(m)
  BY InheritanceErrors
<1>2. p \notin DefaultErrors(m)
  BY DEF DefaultErrors
<1>3. p \notin CycleErrors(m)
  BY DEF CycleErrors
<1>4. p \in ParentErrors(m) => i \in Lost(Roles(m), r)
  BY DEF ParentErrors, LostOf
<1>5. i \in Lost(Roles(m), r) => p \in ParentErrors(m)
  <2> SUFFICES ASSUME i \in Lost(Roles(m), r) PROVE p \in ParentErrors(m)
    OBVIOUS
  <2>1. p \in LostOf(Roles(m), r)
    BY DEF LostOf
  <2> QED BY <2>1 DEF ParentErrors
<1> QED BY <1>1, <1>2, <1>3, <1>4, <1>5 DEF Lost

LEMMA CyclesAreFoundHolds ==
  ASSUME NEW m \in Manifests, Admitted(m)
  PROVE  CyclesAreFound(m, ParseToml(m))
<1> SUFFICES ASSUME NEW r \in DOMAIN Roles(m)
             PROVE  /\ <<"auth", "roles", r, "inherits">> \in ParseToml(m)
                         <=> OwnAncestor(Roles(m), r)
                    /\ \A i \in DOMAIN Parents(Roles(m), r) :
                         <<"auth", "roles", r, "inherits", i>> \in ParseToml(m)
                           <=> Parents(Roles(m), r)[i] \notin DOMAIN Roles(m)
  BY DEF CyclesAreFound
<1>1. Decodes(ApplicationManifest, m)
  BY SchemaFitsTypes
<1>2. WellMade(Roles(m))
  BY ManifestsAreToml DEF ManifestAssumption, WellMade
<1>3. HasCycle(Roles(m), r) <=> OwnAncestor(Roles(m), r)
  BY <1>2, HasCycleIsExact
<1> QED BY <1>1, <1>3, CyclesAreReported, LostParentsAreReported

(* The last answer is about the file as it is.                             *)
AnswerIsCurrent ==
  /\ manifestFile \in Manifests \cup {NoFile}
  /\ manifestAnswer.code \in {"valid", "invalid"} =>
       /\ manifestFile \in Manifests
       /\ manifestAnswer.errors = ParseToml(manifestFile)
       /\ manifestAnswer.code = "valid" => manifestAnswer.errors = {}

LEMMA AnswerStaysCurrent == AnswerIsCurrent /\ [ManifestNext]_manifestVars => AnswerIsCurrent'
<1> SUFFICES ASSUME AnswerIsCurrent, [ManifestNext]_manifestVars
             PROVE  AnswerIsCurrent'
  OBVIOUS
<1> USE DEF AnswerIsCurrent, Says
<1>1. CASE AppInit
  <2>1. {Blank, Scaffold} \subseteq Manifests
    BY ManifestsAreToml DEF ManifestAssumption
  <2>2. /\ manifestFile' \in Manifests \cup {NoFile}
        /\ manifestAnswer'.code \in {"conflict", "created", "internal"}
    BY <1>1, <2>1 DEF AppInit
  <2> QED BY <2>2
<1>2. CASE AppValidate
  <2>1. CASE manifestAnswer' = Says("not_found", {})
    BY <1>2, <2>1 DEF AppValidate
  <2>2. CASE manifestAnswer' = Says("internal", {})
    BY <1>2, <2>2 DEF AppValidate
  <2>3. CASE /\ manifestFile # NoFile
             /\ LET errors == ParseToml(manifestFile)
                IN  manifestAnswer' = Says(IF errors = {} THEN "valid" ELSE "invalid", errors)
    BY <1>2, <2>3 DEF AppValidate
  <2> QED BY <1>2, <2>1, <2>2, <2>3 DEF AppValidate
<1>3. CASE AuthorEdits
  BY <1>3 DEF AuthorEdits, Silence
<1>4. CASE UNCHANGED manifestVars
  BY <1>4 DEF manifestVars
<1> QED BY <1>1, <1>2, <1>3, <1>4 DEF ManifestNext

LEMMA CurrentMeansSomething == AnswerIsCurrent => AcceptedMeansSomething
<1> SUFFICES ASSUME AnswerIsCurrent, manifestAnswer.code \in {"valid", "invalid"}
             PROVE  /\ Admitted(manifestFile) =>
                         /\ Decodes(ApplicationManifest, manifestFile)
                         /\ CyclesAreFound(manifestFile, manifestAnswer.errors)
                    /\ manifestAnswer.code = "valid" =>
                         Admitted(manifestFile) /\ Closed(manifestFile)
  BY SchedulesFireHolds DEF AcceptedMeansSomething
<1>1. manifestFile \in Manifests /\ manifestAnswer.errors = ParseToml(manifestFile)
  BY DEF AnswerIsCurrent
<1>2. Admitted(manifestFile) => /\ Decodes(ApplicationManifest, manifestFile)
                                /\ CyclesAreFound(manifestFile, manifestAnswer.errors)
  BY <1>1, SchemaFitsTypes, CyclesAreFoundHolds
<1>3. ASSUME manifestAnswer.code = "valid"
      PROVE  Admitted(manifestFile) /\ Closed(manifestFile)
  <2>1. ParseToml(manifestFile) = {}
    BY <1>1, <1>3 DEF AnswerIsCurrent
  <2>2. Admitted(manifestFile)
    BY <2>1 DEF ParseToml, Admitted
  <2> QED BY <2>1, <2>2, ValidIsClosed
<1> QED BY <1>2, <1>3

(* A manifest that `blobyard app validate` calls valid means something: it *)
(* can be decoded, what it refers to is there, circular inheritance is     *)
(* reported and its schedules fire (ApplicationManifest::parse_toml).      *)
THEOREM AcceptedMeansSomethingHolds == ManifestSpec => []AcceptedMeansSomething
<1>1. ManifestInit => AnswerIsCurrent
  BY DEF ManifestInit, AnswerIsCurrent, Silence, Says
<1> QED BY <1>1, AnswerStaysCurrent, CurrentMeansSomething, PTL DEF ManifestSpec
=============================================================================
