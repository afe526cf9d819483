--------------------------- MODULE UploadsProofs ---------------------------
(***************************************************************************)
(* Theorems about Uploads, for any number of uploads, parts, handlers and  *)
(* faults; and, in the second part, about the commands of Transfers, which *)
(* are the clients of such a server, for any number of processes.          *)
(***************************************************************************)
EXTENDS Uploads, TransferPromises, TLAPS

(* A handler at rest is a well-typed handler.                              *)
LEMMA IdleIsCall ==
  /\ Idle \in Calls
  /\ Idle.step = "idle"
  BY UploadsAssumption DEF Idle, Calls, Steps, Bodies, NoParts

(* What the code keeps in a handler's locals stays well typed, for each of *)
(* the ways a handler changes them.                                        *)
LEMMA AnswerType ==
  ASSUME CallTypeOK, NEW h \in Handlers, Answer(h)
  PROVE  CallTypeOK'
  BY IdleIsCall DEF CallTypeOK, Answer, At, On, Seen

LEMMA GoToType ==
  ASSUME CallTypeOK, NEW h \in Handlers, NEW s \in Steps, GoTo(h, s),
         s # "idle" => On(h) \in Uploads,
         s \in {"attach", "cleanup", "validate", "assemble", "rmdir", "abortParts"}
            => Seen(h) \in Ids,
         s \in {"storePart", "recordPart"} => call[h].num \in Parts,
         s \in {"validate", "assemble"} => call[h].plan \in [Parts -> Bodies]
  PROVE  CallTypeOK'
  BY DEF CallTypeOK, GoTo, At, On, Seen, Calls

LEMMA AcceptType ==
  ASSUME CallTypeOK, NEW h \in Handlers, NEW u \in Uploads, NEW m \in Ids \cup {None},
         NEW s \in Steps \ {"storePart", "recordPart", "validate", "assemble"},
         s \in {"attach", "cleanup", "rmdir", "abortParts"} => m \in Ids,
         Accept(h, u, m, s)
  PROVE  CallTypeOK'
  BY IdleIsCall, UploadsAssumption DEF CallTypeOK, Accept, At, On, Seen, Calls, Idle, NoParts

LEMMA VerifyType ==
  ASSUME CallTypeOK, NEW h \in Handlers, NEW b \in Bodies, NEW s \in {"record", "rmdir"},
         ~At(h, "idle"),
         s = "rmdir" => Seen(h) \in Ids,
         Verify(h, b, s)
  PROVE  CallTypeOK'
<1> DEFINE new == [call[h] EXCEPT !.body = b, !.step = s]
<1>1. call[h] \in Calls
  BY DEF CallTypeOK
<1>2. /\ new \in Calls
      /\ new.step = s
      /\ new.on = call[h].on
      /\ new.seen = call[h].seen
  BY <1>1 DEF Calls, Steps
<1>3. call' = [call EXCEPT ![h] = new]
  BY DEF Verify
<1> HIDE DEF new
<1> QED BY <1>2, <1>3 DEF CallTypeOK, At, On, Seen

LEMMA ProceedType ==
  ASSUME CallTypeOK, NEW h \in Handlers, NEW s \in Steps, Proceed(h, s),
         s # "idle" => On(h) \in Uploads,
         s \in {"attach", "cleanup", "validate", "assemble", "rmdir", "abortParts"}
            => Seen(h) \in Ids,
         s \in {"storePart", "recordPart"} => call[h].num \in Parts,
         s \in {"validate", "assemble"} => call[h].plan \in [Parts -> Bodies]
  PROVE  CallTypeOK'
  BY AnswerType, GoToType DEF Proceed

LEMMA AssembledIsBody ==
  ASSUME NEW files PROVE Assembled(files) \in Bodies
  BY DEF Assembled, Bodies

LEMMA AfterReservationStep ==
  ASSUME NEW u \in Uploads PROVE AfterReservation(u) \in {"begin", "idle"}
  BY DEF AfterReservation

(* Every request the server accepts leaves all types right.                *)
LEMMA ArrivalType ==
  ASSUME TypeOK, NEW h \in Handlers, NEW u \in Uploads, Arrival(h, u)
  PROVE  TypeOK'
<1>1. CASE RequestUpload(h, u)
  <2>1. CallTypeOK'
    BY <1>1, AnswerType, AcceptType DEF TypeOK, RequestUpload, Steps
  <2>2. RepositoryTypeOK'
    BY <1>1 DEF TypeOK, RepositoryTypeOK, RequestUpload, repo
  <2> QED BY <1>1, <2>1, <2>2 DEF TypeOK, StorageTypeOK, RequestUpload, storage
<1>2. CASE PutUpload(h, u)
  <2>1. CallTypeOK'
    BY <1>2, AcceptType DEF TypeOK, PutUpload, Steps
  <2> QED BY <1>2, <2>1 DEF TypeOK, RepositoryTypeOK, StorageTypeOK, PutUpload, storage, repo
<1>3. CASE \E n \in Parts, c \in Bodies : PutPart(h, u, n, c)
  <2>1. PICK n \in Parts, c \in Bodies : PutPart(h, u, n, c)
    BY <1>3
  <2>2. CallTypeOK'
    BY <2>1, UploadsAssumption DEF TypeOK, RepositoryTypeOK, PutPart, CallTypeOK, At, On, Seen, Calls, Idle,
       Steps, NoParts
  <2> QED BY <2>1, <2>2 DEF TypeOK, RepositoryTypeOK, StorageTypeOK, PutPart, storage, repo
<1>4. CASE CompleteUpload(h, u)
  <2>1. CallTypeOK'
    BY <1>4, AcceptType DEF TypeOK, RepositoryTypeOK, CompleteUpload, Steps
  <2> QED BY <1>4, <2>1 DEF TypeOK, RepositoryTypeOK, StorageTypeOK, CompleteUpload, storage, repo
<1>5. CASE AbortUpload(h, u)
  <2>1. CallTypeOK'
    BY <1>5, AcceptType DEF TypeOK, RepositoryTypeOK, AbortUpload, Steps
  <2> QED BY <1>5, <2>1 DEF TypeOK, RepositoryTypeOK, StorageTypeOK, AbortUpload, storage, repo
<1> QED BY <1>1, <1>2, <1>3, <1>4, <1>5 DEF Arrival

(* Every step of a running handler leaves all types right.                 *)
LEMMA HandlerStepType ==
  ASSUME TypeOK, NEW h \in Handlers, HandlerStep(h)
  PROVE  TypeOK'
<1> USE DEF TypeOK
<1>1. CASE Replay(h)
  <2>1. CallTypeOK'
    BY <1>1, ProceedType, AfterReservationStep DEF Replay, CallTypeOK, At, Steps
  <2> QED BY <1>1, <2>1 DEF RepositoryTypeOK, StorageTypeOK, Replay, storage, repo
<1>2. CASE RenewUpload(h)
  <2>1. On(h) \in Uploads
    BY <1>2 DEF RenewUpload, CallTypeOK, At
  <2>2. CallTypeOK'
    BY <1>2, <2>1, AnswerType, GoToType DEF RenewUpload, Steps
  <2> QED BY <1>2, <2>1, <2>2 DEF RepositoryTypeOK, StorageTypeOK, RenewUpload, storage
<1>3. CASE Reread(h)
  <2>1. CallTypeOK'
    BY <1>3, ProceedType, AfterReservationStep DEF Reread, CallTypeOK, At, Steps
  <2> QED BY <1>3, <2>1 DEF RepositoryTypeOK, StorageTypeOK, Reread, storage, repo
<1>4. CASE \E m \in Ids : BeginMultipart(h, m)
  <2>1. PICK m \in Ids : BeginMultipart(h, m)
    BY <1>4
  <2>2. On(h) \in Uploads
    BY <2>1 DEF BeginMultipart, CallTypeOK, At
  <2>3. CallTypeOK'
    BY <2>1, <2>2, AcceptType DEF BeginMultipart, Steps
  <2>4. StorageTypeOK'
    BY <2>1, <2>2 DEF StorageTypeOK, BeginMultipart, NoParts, Bodies
  <2> QED BY <2>1, <2>3, <2>4 DEF RepositoryTypeOK, BeginMultipart, repo
<1>5. CASE BeginRefused(h)
  BY <1>5, AnswerType DEF RepositoryTypeOK, StorageTypeOK, BeginRefused, storage, repo
<1>6. CASE AttachMultipart(h)
  <2>1. On(h) \in Uploads /\ Seen(h) \in Ids
    BY <1>6 DEF AttachMultipart, CallTypeOK, At
  <2>2. CallTypeOK'
    BY <1>6, <2>1, AnswerType, GoToType DEF AttachMultipart, Steps
  <2> QED BY <1>6, <2>1, <2>2 DEF RepositoryTypeOK, StorageTypeOK, AttachMultipart, storage
<1>7. CASE CleanupCreated(h)
  <2>1. CallTypeOK'
    BY <1>7, AnswerType DEF CleanupCreated
  <2> QED BY <1>7, <2>1 DEF RepositoryTypeOK, StorageTypeOK, CleanupCreated, repo
<1>8. CASE Store(h)
  <2>1. On(h) \in Uploads /\ ~At(h, "idle")
    BY <1>8 DEF Store, CallTypeOK, At
  <2>2. CallTypeOK'
    BY <1>8, <2>1, VerifyType, GoToType DEF Store, Steps, Bodies
  <2> QED BY <1>8, <2>1, <2>2 DEF RepositoryTypeOK, StorageTypeOK, Store, repo, KeyStates, Bodies
<1>9. CASE Head(h)
  <2>1. On(h) \in Uploads /\ ~At(h, "idle")
    BY <1>9 DEF Head, CallTypeOK, At
  <2>2. CallTypeOK'
    BY <1>9, <2>1, VerifyType, AnswerType DEF Head, Readable
  <2> QED BY <1>9, <2>2 DEF RepositoryTypeOK, StorageTypeOK, Head, repo, storage
<1>10. CASE RecordUploadedBytes(h)
  <2>1. On(h) \in Uploads
    BY <1>10 DEF RecordUploadedBytes, CallTypeOK, At
  <2>2. CallTypeOK'
    BY <1>10, <2>1, ProceedType, AnswerType DEF RecordUploadedBytes, Steps
  <2> QED BY <1>10, <2>1, <2>2 DEF RepositoryTypeOK, StorageTypeOK, RecordUploadedBytes, storage
<1>11. CASE StorePart(h)
  <2>1. On(h) \in Uploads /\ call[h].num \in Parts /\ call[h].body \in Bodies /\ Seen(h) \in Ids \cup {None}
    BY <1>11 DEF StorePart, CallTypeOK, At, Calls, Seen
  <2>2. CallTypeOK'
    BY <1>11, <2>1, GoToType, AnswerType DEF StorePart, Steps
  <2>3. StorageTypeOK'
    BY <1>11, <2>1 DEF StorageTypeOK, StorePart
  <2> QED BY <1>11, <2>2, <2>3 DEF RepositoryTypeOK, StorePart, repo
<1>12. CASE RecordUploadedPart(h)
  <2>1. On(h) \in Uploads /\ call[h].num \in Parts /\ call[h].body \in Bodies
    BY <1>12 DEF RecordUploadedPart, CallTypeOK, At, Calls
  <2>2. CallTypeOK'
    BY <1>12, AnswerType DEF RecordUploadedPart
  <2>3. \/ part' = part
        \/ part' = [part EXCEPT ![On(h)] = [@ EXCEPT ![call[h].num] = call[h].body]]
    BY <1>12 DEF RecordUploadedPart
  <2>4. part[On(h)] \in [Parts -> {"none", "granted"} \cup Bodies]
    BY <2>1 DEF RepositoryTypeOK
  <2>5. [part[On(h)] EXCEPT ![call[h].num] = call[h].body]
          \in [Parts -> {"none", "granted"} \cup Bodies]
    BY <2>1, <2>4
  <2>6. part' \in [Uploads -> [Parts -> {"none", "granted"} \cup Bodies]]
    BY <2>1, <2>3, <2>5 DEF RepositoryTypeOK
  <2> QED BY <1>12, <2>2, <2>6 DEF RepositoryTypeOK, StorageTypeOK, RecordUploadedPart, storage
<1>13. CASE ListUploadParts(h)
  <2>1. On(h) \in Uploads /\ Seen(h) \in Ids \cup {None}
    BY <1>13 DEF ListUploadParts, CallTypeOK, At, Calls, Seen
  <2>2. CASE Answer(h)
    BY <1>13, <2>2, AnswerType DEF ListUploadParts, RepositoryTypeOK, StorageTypeOK, repo, storage
  <2>3. CASE /\ Seen(h) # None
             /\ \A n \in Parts : part[On(h)][n] \in Bodies
             /\ call' = [call EXCEPT ![h] = [@ EXCEPT !.plan = part[On(h)], !.step = "validate"]]
    <3> DEFINE new == [call[h] EXCEPT !.plan = part[On(h)], !.step = "validate"]
    <3>1. part[On(h)] \in [Parts -> Bodies]
      BY <2>1, <2>3 DEF RepositoryTypeOK
    <3>2. call[h] \in Calls
      BY DEF CallTypeOK
    <3>3. /\ new \in Calls
          /\ new.step = "validate"
          /\ new.on = call[h].on
          /\ new.seen = call[h].seen
          /\ new.plan = part[On(h)]
      BY <3>1, <3>2 DEF Calls, Steps
    <3>4. call' = [call EXCEPT ![h] = new]
      BY <2>3
    <3> HIDE DEF new
    <3>5. CallTypeOK'
      BY <2>1, <2>3, <3>1, <3>3, <3>4 DEF CallTypeOK, At, On, Seen
    <3> QED BY <1>13, <3>5 DEF ListUploadParts, RepositoryTypeOK, StorageTypeOK, repo, storage
  <2> QED BY <1>13, <2>2, <2>3 DEF ListUploadParts
<1>14. CASE ValidateParts(h)
  <2>1. On(h) \in Uploads /\ Seen(h) \in Ids /\ call[h].plan \in [Parts -> Bodies]
    BY <1>14 DEF ValidateParts, CallTypeOK, At
  <2>2. CallTypeOK'
    BY <1>14, <2>1, ProceedType DEF ValidateParts, Steps
  <2> QED BY <1>14, <2>2 DEF RepositoryTypeOK, StorageTypeOK, ValidateParts, repo, storage
<1>15. CASE AssembleParts(h)
  <2>1. On(h) \in Uploads /\ Seen(h) \in Ids /\ ~At(h, "idle") /\ dir[Seen(h)] \in Uploads \cup {None}
    BY <1>15 DEF AssembleParts, CallTypeOK, At, StorageTypeOK
  <2>2. CallTypeOK'
    BY <1>15, <2>1, VerifyType, AnswerType, GoToType, AssembledIsBody DEF AssembleParts, Steps
  <2>3. object' \in [Uploads -> KeyStates]
    BY <1>15, <2>1, AssembledIsBody DEF AssembleParts, StorageTypeOK, KeyStates
  <2> QED BY <1>15, <2>2, <2>3 DEF RepositoryTypeOK, StorageTypeOK, AssembleParts, repo
<1>16. CASE RemoveDirectory(h)
  <2>1. On(h) \in Uploads
    BY <1>16 DEF RemoveDirectory, CallTypeOK, At
  <2>2. CallTypeOK'
    BY <1>16, <2>1, ProceedType DEF RemoveDirectory, Steps
  <2> QED BY <1>16, <2>2 DEF RepositoryTypeOK, StorageTypeOK, RemoveDirectory, repo
<1>17. CASE CommitUpload(h)
  <2>1. CallTypeOK'
    BY <1>17, AnswerType DEF CommitUpload
  <2> QED BY <1>17, <2>1 DEF RepositoryTypeOK, StorageTypeOK, CommitUpload, storage
<1>18. CASE AbortMultipart(h)
  <2>1. On(h) \in Uploads
    BY <1>18 DEF AbortMultipart, CallTypeOK, At
  <2>2. CallTypeOK'
    BY <1>18, <2>1, GoToType DEF AbortMultipart, Steps
  <2> QED BY <1>18, <2>1, <2>2 DEF RepositoryTypeOK, StorageTypeOK, AbortMultipart, repo
<1>19. CASE DeleteObject(h)
  <2>1. On(h) \in Uploads
    BY <1>19 DEF DeleteObject, CallTypeOK, At
  <2>2. CallTypeOK'
    BY <1>19, <2>1, GoToType DEF DeleteObject, Steps
  <2>3. StorageTypeOK'
    BY <1>19, <2>1 DEF StorageTypeOK, DeleteObject, Deleted, KeyStates
  <2> QED BY <1>19, <2>2, <2>3 DEF RepositoryTypeOK, DeleteObject, repo
<1>20. CASE CommitAbort(h)
  <2>1. CallTypeOK'
    BY <1>20, AnswerType DEF CommitAbort
  <2>2. RepositoryTypeOK'
    BY <1>20 DEF RepositoryTypeOK, CommitAbort, NoParts
  <2> QED BY <1>20, <2>1, <2>2 DEF StorageTypeOK, CommitAbort, storage
<1> QED BY <1>1, <1>2, <1>3, <1>4, <1>5, <1>6, <1>7, <1>8, <1>9, <1>10, <1>11, <1>12,
           <1>13, <1>14, <1>15, <1>16, <1>17, <1>18, <1>19, <1>20 DEF HandlerStep

(* Time, failures and crashes leave all types right.                       *)
LEMMA EnvironmentType ==
  ASSUME TypeOK,
         \/ \E h \in Handlers : HandlerFails(h) \/ AttachFails(h)
         \/ \E u \in Uploads : ExpireUpload(u)
         \/ \E u \in Uploads, ns \in SUBSET Parts : RequestParts(u, ns)
         \/ Crash
  PROVE  TypeOK'
<1> USE DEF TypeOK
<1>1. Fault => faults' \in 0..MaxFaults
  BY UploadsAssumption DEF Fault
<1>2. ASSUME NEW h \in Handlers, HandlerFails(h) PROVE TypeOK'
  <2>1. CallTypeOK'
    BY <1>2, AnswerType DEF HandlerFails
  <2> QED BY <1>1, <1>2, <2>1 DEF RepositoryTypeOK, StorageTypeOK, HandlerFails, repo, storage
<1>3. ASSUME NEW h \in Handlers, AttachFails(h) PROVE TypeOK'
  <2>1. On(h) \in Uploads /\ Seen(h) \in Ids
    BY <1>3 DEF AttachFails, CallTypeOK, At
  <2>2. CallTypeOK'
    BY <1>3, <2>1, GoToType DEF AttachFails, Steps
  <2> QED BY <1>1, <1>3, <2>2 DEF RepositoryTypeOK, StorageTypeOK, AttachFails, repo, storage
<1>4. ASSUME NEW u \in Uploads, ExpireUpload(u) PROVE TypeOK'
  BY <1>1, <1>4 DEF RepositoryTypeOK, StorageTypeOK, CallTypeOK, At, On, Seen, ExpireUpload, storage
<1>5. ASSUME NEW u \in Uploads, NEW ns \in SUBSET Parts, RequestParts(u, ns) PROVE TypeOK'
  <2>1. RepositoryTypeOK'
    BY <1>5 DEF RepositoryTypeOK, RequestParts
  <2> QED BY <1>5, <2>1 DEF StorageTypeOK, CallTypeOK, At, On, Seen, RequestParts, storage
<1>6. CASE Crash
  <2>1. CallTypeOK'
    BY <1>6, IdleIsCall DEF Crash, CallTypeOK, At, On, Seen
  <2>2. StorageTypeOK'
    BY <1>6 DEF Crash, StorageTypeOK, KeyStates
  <2> QED BY <1>1, <1>6, <2>1, <2>2 DEF RepositoryTypeOK, Crash, repo
<1> QED BY <1>2, <1>3, <1>4, <1>5, <1>6

LEMMA InitType == Init => TypeOK
  BY UploadsAssumption, IdleIsCall DEF Init, TypeOK, RepositoryTypeOK, StorageTypeOK, CallTypeOK,
     At, On, Seen, NoParts, KeyStates

LEMMA NextType == TypeOK /\ [Next]_vars => TypeOK'
<1> SUFFICES ASSUME TypeOK, [Next]_vars PROVE TypeOK'
  OBVIOUS
<1>1. CASE Next
  BY <1>1, ArrivalType, HandlerStepType, EnvironmentType DEF Next
<1>2. CASE UNCHANGED vars
  BY <1>2 DEF vars, repo, storage, TypeOK, RepositoryTypeOK, StorageTypeOK, CallTypeOK, At, On, Seen
<1> QED BY <1>1, <1>2

(* The tables, the stored files and the handlers' locals keep their types, *)
(* and no handler reaches a step without the locals that step uses.        *)
THEOREM TypeCorrect == Spec => []TypeOK
  BY InitType, NextType, PTL DEF Spec

----------------------------------------------------------------------------
(* A staged directory belongs to one upload: the one whose handler created *)
(* it.  Identifiers are never reused.                                      *)
DirectoriesOwned ==
  /\ \A m \in Ids : m \notin used => dir[m] = None
  /\ \A u \in Uploads : provider[u] # None =>
       provider[u] \in used /\ dir[provider[u]] \in {u, None}
  /\ \A h \in Handlers : Seen(h) # None =>
       Seen(h) \in used /\ dir[Seen(h)] \in {On(h), None}

(* A handler that was told by the storage adapter what a key holds, and    *)
(* has not yet acted on it.                                                *)
Informed(h) == call[h].step \in {"record", "rmdir"}

(* What the adapter told a handler is still true, unless the bytes were    *)
(* deleted by an abort: nothing overwrites a key.                          *)
EvidenceHolds ==
  \A h \in Handlers :
    Informed(h) /\ ~purged[On(h)] => object[On(h)] = call[h].body

(* The inductive invariant.                                                *)
BytesInv ==
  /\ TypeOK
  /\ DirectoriesOwned
  /\ EvidenceHolds
  /\ RecordedBytesAreDeclared

(* Most steps touch neither the stored bytes nor the directories: they     *)
(* only move a handler on, with a provider id it already had or one it     *)
(* reads from its reservation.                                             *)
Quiet ==
  /\ UNCHANGED <<object, purged, dir, used, provider>>
  /\ \A u \in Uploads :
       reservation'[u] \in {"uploaded", "complete"} => reservation[u] \in {"uploaded", "complete"}
  /\ \A k \in Handlers :
       /\ call'[k].step \in {"record", "rmdir"} => call'[k] = call[k]
       /\ \/ call'[k].seen = None
          \/ call'[k].seen = call[k].seen /\ call'[k].on = call[k].on
          \/ call'[k].on \in Uploads /\ call'[k].seen = provider[call'[k].on]

LEMMA QuietStep ==
  ASSUME BytesInv, TypeOK', Quiet
  PROVE  BytesInv'
<1>1. DirectoriesOwned'
  BY DEF BytesInv, DirectoriesOwned, Quiet, Seen, On
<1>2. EvidenceHolds'
  BY DEF BytesInv, EvidenceHolds, Informed, Quiet, On
<1>3. RecordedBytesAreDeclared'
  BY DEF BytesInv, RecordedBytesAreDeclared, Quiet
<1> QED BY <1>1, <1>2, <1>3 DEF BytesInv

LEMMA AnswerIsQuiet ==
  ASSUME TypeOK, NEW h \in Handlers, Answer(h), NEW k \in Handlers
  PROVE  /\ call'[k].step \in {"record", "rmdir"} => call'[k] = call[k]
         /\ call'[k].seen = None \/ (call'[k].seen = call[k].seen /\ call'[k].on = call[k].on)
  BY DEF TypeOK, CallTypeOK, Answer, Idle

LEMMA GoToIsQuiet ==
  ASSUME TypeOK, NEW h \in Handlers, NEW s \in Steps \ {"record", "rmdir"}, GoTo(h, s),
         NEW k \in Handlers
  PROVE  /\ call'[k].step \in {"record", "rmdir"} => call'[k] = call[k]
         /\ call'[k].seen = call[k].seen /\ call'[k].on = call[k].on
  BY DEF TypeOK, CallTypeOK, GoTo, Calls

LEMMA AcceptIsQuiet ==
  ASSUME TypeOK, NEW h \in Handlers, NEW u \in Uploads, NEW m \in Ids \cup {None},
         NEW s \in Steps \ {"record", "rmdir"}, Accept(h, u, m, s), NEW k \in Handlers
  PROVE  /\ call'[k].step \in {"record", "rmdir"} => call'[k] = call[k]
         /\ \/ call'[k].seen = call[k].seen /\ call'[k].on = call[k].on
            \/ call'[k].on = u /\ call'[k].seen = m
  BY DEF TypeOK, CallTypeOK, Accept, Idle

LEMMA ArrivalBytes ==
  ASSUME BytesInv, NEW h \in Handlers, NEW u \in Uploads, Arrival(h, u)
  PROVE  BytesInv'
<1>0. TypeOK /\ TypeOK'
  BY ArrivalType DEF BytesInv
<1>1. CASE RequestUpload(h, u)
  <2>1. Answer(h) \/ \E s \in {"begin", "replay"} : Accept(h, u, None, s)
    BY <1>1 DEF RequestUpload
  <2>2. ASSUME NEW k \in Handlers
        PROVE  /\ call'[k].step \in {"record", "rmdir"} => call'[k] = call[k]
               /\ call'[k].seen = None \/ (call'[k].seen = call[k].seen /\ call'[k].on = call[k].on)
    BY <1>0, <2>1, AnswerIsQuiet, AcceptIsQuiet DEF Steps
  <2>3. \A v \in Uploads :
          reservation'[v] \in {"uploaded", "complete"} => reservation[v] \in {"uploaded", "complete"}
    BY <1>0, <1>1 DEF RequestUpload, repo, TypeOK, RepositoryTypeOK
  <2>4. Quiet
    BY <1>1, <2>2, <2>3 DEF Quiet, RequestUpload, repo, storage
  <2> QED BY <1>0, <2>4, QuietStep
<1>2. CASE PutUpload(h, u)
  <2>1. Quiet
    BY <1>0, <1>2, AcceptIsQuiet DEF Quiet, PutUpload, repo, storage, Steps
  <2> QED BY <1>0, <2>1, QuietStep
<1>3. CASE \E n \in Parts, c \in Bodies : PutPart(h, u, n, c)
  <2>1. PICK n \in Parts, c \in Bodies : PutPart(h, u, n, c)
    BY <1>3
  <2>2. ASSUME NEW k \in Handlers
        PROVE  /\ call'[k].step \in {"record", "rmdir"} => call'[k] = call[k]
               /\ \/ call'[k].seen = call[k].seen /\ call'[k].on = call[k].on
                  \/ call'[k].on = u /\ call'[k].seen = provider[u]
    BY <1>0, <2>1 DEF PutPart, TypeOK, CallTypeOK, Idle
  <2>3. Quiet
    BY <2>1, <2>2 DEF Quiet, PutPart, repo, storage
  <2> QED BY <1>0, <2>3, QuietStep
<1>4. CASE CompleteUpload(h, u)
  <2>1. provider[u] \in Ids \cup {None}
    BY <1>0 DEF TypeOK, RepositoryTypeOK
  <2>2. Quiet
    BY <1>0, <1>4, <2>1, AcceptIsQuiet DEF Quiet, CompleteUpload, repo, storage, Steps
  <2> QED BY <1>0, <2>2, QuietStep
<1>5. CASE AbortUpload(h, u)
  <2>1. provider[u] \in Ids \cup {None}
    BY <1>0 DEF TypeOK, RepositoryTypeOK
  <2>2. Quiet
    BY <1>0, <1>5, <2>1, AcceptIsQuiet DEF Quiet, AbortUpload, repo, storage, Steps
  <2> QED BY <1>0, <2>2, QuietStep
<1> QED BY <1>1, <1>2, <1>3, <1>4, <1>5 DEF Arrival

(* The steps that do not touch the stored bytes, the directories or the    *)
(* provider id.                                                            *)
LEMMA QuietHandlerStep ==
  ASSUME BytesInv, NEW h \in Handlers,
         \/ Replay(h) \/ RenewUpload(h) \/ Reread(h) \/ BeginRefused(h)
         \/ StorePart(h) \/ RecordUploadedPart(h) \/ ListUploadParts(h)
         \/ ValidateParts(h) \/ CommitUpload(h) \/ CommitAbort(h)
  PROVE  BytesInv'
<1>1. TypeOK /\ TypeOK'
  BY HandlerStepType DEF BytesInv, HandlerStep
<1>2. /\ UNCHANGED <<object, purged, dir, used, provider>>
      /\ \A u \in Uploads :
           reservation'[u] \in {"uploaded", "complete"} => reservation[u] \in {"uploaded", "complete"}
  BY <1>1 DEF Replay, RenewUpload, Reread, BeginRefused, StorePart, RecordUploadedPart,
     ListUploadParts, ValidateParts, CommitUpload, CommitAbort, repo, storage, TypeOK, RepositoryTypeOK
<1>3. \/ Answer(h)
      \/ \E s \in Steps \ {"record", "rmdir"} : GoTo(h, s)
      \/ call' = [call EXCEPT ![h] = [@ EXCEPT !.plan = part[On(h)], !.step = "validate"]]
  <2>1. Replay(h) \/ Reread(h) => ~At(h, "idle")
    BY DEF Replay, Reread, At
  <2>2. (Replay(h) \/ Reread(h)) => On(h) \in Uploads
    BY <1>1, <2>1 DEF TypeOK, CallTypeOK
  <2> QED BY <2>2, AfterReservationStep DEF Replay, RenewUpload, Reread, BeginRefused, StorePart, RecordUploadedPart,
     ListUploadParts, ValidateParts, CommitUpload, CommitAbort, Proceed, Steps
<1>4. ASSUME NEW k \in Handlers
      PROVE  /\ call'[k].step \in {"record", "rmdir"} => call'[k] = call[k]
             /\ call'[k].seen = None \/ (call'[k].seen = call[k].seen /\ call'[k].on = call[k].on)
  <2>1. CASE call' = [call EXCEPT ![h] = [@ EXCEPT !.plan = part[On(h)], !.step = "validate"]]
    BY <1>1, <2>1 DEF TypeOK, CallTypeOK, Calls
  <2> QED BY <1>1, <1>3, <2>1, AnswerIsQuiet, GoToIsQuiet
<1>5. Quiet
  BY <1>2, <1>4 DEF Quiet
<1> QED BY <1>1, <1>5, QuietStep

(* The steps that create, attach or remove a staged directory.             *)
LEMMA DirectoryStep ==
  ASSUME BytesInv, NEW h \in Handlers,
         \/ \E m \in Ids : BeginMultipart(h, m)
         \/ AttachMultipart(h) \/ CleanupCreated(h)
         \/ RemoveDirectory(h) \/ AbortMultipart(h)
  PROVE  BytesInv'
<1>1. TypeOK /\ TypeOK'
  BY HandlerStepType DEF BytesInv, HandlerStep
<1>2. CASE \E m \in Ids : BeginMultipart(h, m)
  <2>1. PICK m \in Ids : BeginMultipart(h, m)
    BY <1>2
  <2>2. On(h) \in Uploads
    BY <1>1, <2>1 DEF BeginMultipart, TypeOK, CallTypeOK, At
  <2>3. \A k \in Handlers :
          /\ call'[k].step \in {"record", "rmdir"} => call'[k] = call[k]
          /\ \/ call'[k].seen = call[k].seen /\ call'[k].on = call[k].on
             \/ call'[k].on = On(h) /\ call'[k].seen = m
    BY <1>1, <2>1, <2>2, AcceptIsQuiet DEF BeginMultipart, Steps
  <2>4. DirectoriesOwned'
    BY <1>1, <2>1, <2>2, <2>3 DEF BytesInv, DirectoriesOwned, BeginMultipart, Seen, On, repo, TypeOK,
       StorageTypeOK
  <2>5. EvidenceHolds' /\ RecordedBytesAreDeclared'
    BY <2>1, <2>3 DEF BytesInv, EvidenceHolds, Informed, RecordedBytesAreDeclared, BeginMultipart, On, repo
  <2> QED BY <1>1, <2>4, <2>5 DEF BytesInv
<1>3. CASE AttachMultipart(h)
  <2>1. On(h) \in Uploads /\ Seen(h) \in Ids
    BY <1>1, <1>3 DEF AttachMultipart, TypeOK, CallTypeOK, At
  <2>2. \A k \in Handlers :
          /\ call'[k].step \in {"record", "rmdir"} => call'[k] = call[k]
          /\ call'[k].seen = None \/ (call'[k].seen = call[k].seen /\ call'[k].on = call[k].on)
    BY <1>1, <1>3, AnswerIsQuiet, GoToIsQuiet DEF AttachMultipart, Steps
  <2>3. provider' = provider \/ provider' = [provider EXCEPT ![On(h)] = Seen(h)]
    BY <1>3 DEF AttachMultipart
  <2>4. DirectoriesOwned'
    BY <1>1, <1>3, <2>1, <2>2, <2>3, UploadsAssumption DEF BytesInv, DirectoriesOwned, AttachMultipart, Seen, On, storage,
       TypeOK, RepositoryTypeOK
  <2>5. EvidenceHolds' /\ RecordedBytesAreDeclared'
    BY <1>3, <2>2 DEF BytesInv, EvidenceHolds, Informed, RecordedBytesAreDeclared, AttachMultipart, On, storage
  <2> QED BY <1>1, <2>4, <2>5 DEF BytesInv
<1>4. CASE CleanupCreated(h) \/ AbortMultipart(h) \/ RemoveDirectory(h)
  <2>1. dir' = [dir EXCEPT ![Seen(h)] = None] /\ Seen(h) \in Ids
    BY <1>1, <1>4 DEF CleanupCreated, AbortMultipart, RemoveDirectory, TypeOK, CallTypeOK, At
  <2>2. UNCHANGED <<object, purged, used, reservation, provider>>
    BY <1>4 DEF CleanupCreated, AbortMultipart, RemoveDirectory, repo
  <2>3. \A k \in Handlers :
          /\ call'[k].step \in {"record", "rmdir"} =>
               call[k].step \in {"record", "rmdir"} /\ call'[k].on = call[k].on /\ call'[k].body = call[k].body
          /\ call'[k].seen = None \/ (call'[k].seen = call[k].seen /\ call'[k].on = call[k].on)
    <3>1. CASE CleanupCreated(h)
      BY <1>1, <3>1, AnswerIsQuiet DEF CleanupCreated
    <3>2. CASE AbortMultipart(h)
      BY <1>1, <3>2, GoToIsQuiet DEF AbortMultipart, Steps
    <3>3. CASE RemoveDirectory(h)
      BY <1>1, <3>3, AnswerIsQuiet DEF RemoveDirectory, Proceed, GoTo, At, TypeOK, CallTypeOK, Calls
    <3> QED BY <1>4, <3>1, <3>2, <3>3
  <2>4. DirectoriesOwned'
    BY <1>1, <2>1, <2>2, <2>3 DEF BytesInv, DirectoriesOwned, Seen, On, TypeOK, StorageTypeOK, RepositoryTypeOK
  <2>5. EvidenceHolds' /\ RecordedBytesAreDeclared'
    BY <2>2, <2>3 DEF BytesInv, EvidenceHolds, Informed, RecordedBytesAreDeclared, On
  <2> QED BY <1>1, <2>4, <2>5 DEF BytesInv
<1> QED BY <1>2, <1>3, <1>4

LEMMA VerifyEffect ==
  ASSUME TypeOK, NEW h \in Handlers, NEW b, NEW s, Verify(h, b, s)
  PROVE  /\ \A k \in Handlers : k # h => call'[k] = call[k]
         /\ call'[h].body = b /\ call'[h].step = s
         /\ call'[h].on = call[h].on /\ call'[h].seen = call[h].seen
<1>1. call[h] \in Calls /\ call \in [Handlers -> Calls]
  BY DEF TypeOK, CallTypeOK
<1>2. call' = [call EXCEPT ![h] = [call[h] EXCEPT !.body = b, !.step = s]]
  BY DEF Verify
<1> QED BY <1>1, <1>2 DEF Calls

LEMMA AnswerEffect ==
  ASSUME TypeOK, NEW h \in Handlers, Answer(h)
  PROVE  /\ \A k \in Handlers : k # h => call'[k] = call[k]
         /\ call'[h].step = "idle" /\ call'[h].seen = None
  BY DEF TypeOK, CallTypeOK, Answer, Idle

LEMMA GoToEffect ==
  ASSUME TypeOK, NEW h \in Handlers, NEW s, GoTo(h, s)
  PROVE  /\ \A k \in Handlers : k # h => call'[k] = call[k]
         /\ call'[h].step = s /\ call'[h].on = call[h].on /\ call'[h].seen = call[h].seen
  BY DEF TypeOK, CallTypeOK, GoTo, Calls

(* A handler is only ever told of readable bytes of its own upload.        *)
LEMMA EvidenceReadable ==
  ASSUME BytesInv, NEW k \in Handlers, Informed(k), ~purged[On(k)]
  PROVE  On(k) \in Uploads /\ object[On(k)] = call[k].body /\ object[On(k)] \in Bodies
  BY DEF BytesInv, TypeOK, CallTypeOK, Calls, EvidenceHolds, Informed, At, On

(* The steps that write or delete the bytes of a key, read them, or record *)
(* that they were received.                                                *)
LEMMA ObjectStep ==
  ASSUME BytesInv, NEW h \in Handlers,
         \/ Store(h) \/ Head(h) \/ RecordUploadedBytes(h)
         \/ AssembleParts(h) \/ DeleteObject(h)
  PROVE  BytesInv'
<1>1. TypeOK /\ TypeOK'
  BY HandlerStepType DEF BytesInv, HandlerStep
<1>2. On(h) \in Uploads
  BY <1>1 DEF Store, Head, RecordUploadedBytes, AssembleParts, DeleteObject, TypeOK, CallTypeOK, At
<1>3. /\ UNCHANGED <<dir, used, provider>>
      /\ \A k \in Handlers :
           call'[k].seen = None \/ (call'[k].seen = call[k].seen /\ call'[k].on = call[k].on)
  <2>1. UNCHANGED <<dir, used, provider>>
    BY DEF Store, Head, RecordUploadedBytes, AssembleParts, DeleteObject, repo, storage
  <2>2. Answer(h) \/ (\E s : GoTo(h, s)) \/ (\E b, s : Verify(h, b, s))
    BY DEF Store, Head, RecordUploadedBytes, AssembleParts, DeleteObject, Proceed
  <2> QED BY <1>1, <2>1, <2>2, AnswerEffect, GoToEffect, VerifyEffect
<1>4. DirectoriesOwned'
  BY <1>3 DEF BytesInv, DirectoriesOwned, Seen, On
<1>5. CASE Store(h)
  <2>1. CASE object[On(h)] = "absent"
    <3>1. /\ object' = [object EXCEPT ![On(h)] = "declared"]
          /\ \A k \in Handlers : k # h => call'[k] = call[k]
          /\ call'[h].body = "declared" /\ call'[h].on = On(h)
          /\ UNCHANGED <<reservation, purged>>
      BY <1>1, <1>5, <2>1, VerifyEffect DEF Store, On, repo
    <3>2. EvidenceHolds'
      BY <1>1, <1>2, <2>1, <3>1, EvidenceReadable DEF EvidenceHolds, Informed, On, TypeOK, Bodies, StorageTypeOK
    <3>3. RecordedBytesAreDeclared'
      BY <1>1, <1>2, <3>1 DEF BytesInv, RecordedBytesAreDeclared, TypeOK, StorageTypeOK
    <3> QED BY <1>1, <1>4, <3>2, <3>3 DEF BytesInv
  <2>2. CASE object[On(h)] # "absent"
    <3>1. Quiet
      BY <1>1, <1>5, <2>2, GoToIsQuiet DEF Quiet, Store, repo, Steps
    <3> QED BY <1>1, <3>1, QuietStep
  <2> QED BY <2>1, <2>2
<1>6. CASE Head(h)
  <2>1. /\ UNCHANGED <<object, purged, reservation>>
        /\ \A k \in Handlers : k # h => call'[k] = call[k]
        /\ call'[h].step = "idle" \/ (call'[h].body = object[On(h)] /\ call'[h].on = On(h))
    BY <1>1, <1>6, VerifyEffect, AnswerEffect DEF Head, On, repo, storage
  <2>2. EvidenceHolds' /\ RecordedBytesAreDeclared'
    BY <2>1 DEF BytesInv, EvidenceHolds, Informed, RecordedBytesAreDeclared, On
  <2> QED BY <1>1, <1>4, <2>2 DEF BytesInv
<1>7. CASE RecordUploadedBytes(h)
  <2>1. /\ UNCHANGED <<object, purged>>
        /\ \A k \in Handlers : call'[k].step \in {"record", "rmdir"} => call'[k] = call[k]
    BY <1>1, <1>7, AnswerIsQuiet, GoToIsQuiet DEF RecordUploadedBytes, Proceed, storage, Steps
  <2>2. EvidenceHolds'
    BY <2>1 DEF BytesInv, EvidenceHolds, Informed, On
  <2>3. RecordedBytesAreDeclared'
    BY <1>1, <1>2, <1>7, <2>1 DEF BytesInv, EvidenceHolds, Informed, At, RecordedBytesAreDeclared, RecordUploadedBytes,
       TypeOK, RepositoryTypeOK
  <2> QED BY <1>1, <1>4, <2>2, <2>3 DEF BytesInv
<1>8. CASE AssembleParts(h)
  <2>1. Seen(h) \in Ids /\ (dir[Seen(h)] # None => dir[Seen(h)] = On(h))
    BY <1>1, <1>8, UploadsAssumption DEF AssembleParts, BytesInv, DirectoriesOwned, TypeOK, CallTypeOK, At
  <2>2. /\ UNCHANGED <<purged, reservation>>
        /\ \A k \in Handlers : k # h => call'[k] = call[k]
        /\ object' = object \/ (object[On(h)] = "absent" /\ object' = [object EXCEPT ![On(h)] = object'[On(h)]])
        /\ call'[h].step \in {"record", "rmdir"} =>
             call'[h].on = On(h) /\ call'[h].body = object'[On(h)]
    <3>1. UNCHANGED <<purged, reservation>>
      BY <1>8 DEF AssembleParts, repo
    <3>2. CASE /\ object[On(h)] = "absent"
               /\ object' = [object EXCEPT ![On(h)] = Assembled(staged[Seen(h)])]
               /\ Verify(h, Assembled(staged[Seen(h)]), "rmdir")
      BY <1>1, <1>2, <3>1, <3>2, VerifyEffect DEF On, TypeOK, StorageTypeOK
    <3>3. CASE object' = object /\ (Answer(h) \/ GoTo(h, "head"))
      BY <1>1, <3>1, <3>3, AnswerEffect, GoToEffect
    <3>4. CASE /\ object[On(h)] = "absent"
               /\ object' = [object EXCEPT ![On(h)] = Assembled(call[h].plan)]
               /\ Answer(h)
      BY <1>1, <1>2, <3>1, <3>4, AnswerEffect DEF TypeOK, StorageTypeOK
    <3> QED BY <1>8, <2>1, <3>2, <3>3, <3>4 DEF AssembleParts
  <2>3. \A u \in Uploads : object[u] # "absent" => object'[u] = object[u]
    BY <1>1, <1>2, <2>2 DEF TypeOK, StorageTypeOK
  <2>4. EvidenceHolds'
    BY <1>1, <2>2, <2>3, EvidenceReadable DEF EvidenceHolds, Informed, On, Bodies
  <2>5. RecordedBytesAreDeclared'
    BY <2>2, <2>3 DEF BytesInv, RecordedBytesAreDeclared
  <2> QED BY <1>1, <1>4, <2>4, <2>5 DEF BytesInv
<1>9. CASE DeleteObject(h)
  <2>1. /\ UNCHANGED reservation
        /\ \A k \in Handlers : call'[k].step \in {"record", "rmdir"} => call'[k] = call[k]
        /\ \A u \in Uploads : u # On(h) => object'[u] = object[u] /\ purged'[u] = purged[u]
        /\ purged'[On(h)] = (purged[On(h)] \/ object[On(h)] \in Readable)
    BY <1>1, <1>9, GoToIsQuiet DEF DeleteObject, repo, Steps, TypeOK, StorageTypeOK
  <2>2. ASSUME NEW k \in Handlers, Informed(k)', ~purged'[call'[k].on]
        PROVE  object'[call'[k].on] = call'[k].body
    <3>1. Informed(k) /\ call'[k] = call[k]
      BY <2>1, <2>2 DEF Informed
    <3>2. On(k) \in Uploads
      BY <1>1, <3>1 DEF TypeOK, CallTypeOK, Informed, At
    <3>3. ~purged[On(k)]
      BY <2>1, <2>2, <3>1, <3>2 DEF On
    <3>4. On(k) # On(h)
      BY <2>1, <2>2, <3>1, <3>3, EvidenceReadable DEF On, Readable
    <3> QED BY <2>1, <3>1, <3>2, <3>3, <3>4, EvidenceReadable DEF On
  <2>3. EvidenceHolds'
    BY <2>2 DEF EvidenceHolds, On
  <2>4. RecordedBytesAreDeclared'
    BY <1>1, <2>1 DEF BytesInv, RecordedBytesAreDeclared, Readable, Bodies
  <2> QED BY <1>1, <1>4, <2>3, <2>4 DEF BytesInv
<1> QED BY <1>5, <1>6, <1>7, <1>8, <1>9

LEMMA EnvironmentBytes ==
  ASSUME BytesInv,
         \/ \E h \in Handlers : HandlerFails(h) \/ AttachFails(h)
         \/ \E u \in Uploads : ExpireUpload(u)
         \/ \E u \in Uploads, ns \in SUBSET Parts : RequestParts(u, ns)
         \/ Crash
  PROVE  BytesInv'
<1>1. TypeOK /\ TypeOK'
  BY EnvironmentType DEF BytesInv
<1>2. ASSUME NEW h \in Handlers, HandlerFails(h) \/ AttachFails(h) PROVE BytesInv'
  <2>1. Quiet
    BY <1>1, <1>2, AnswerIsQuiet, GoToIsQuiet DEF Quiet, HandlerFails, AttachFails, repo, storage, Steps
  <2> QED BY <1>1, <2>1, QuietStep
<1>3. CASE \/ \E u \in Uploads : ExpireUpload(u)
           \/ \E u \in Uploads, ns \in SUBSET Parts : RequestParts(u, ns)
  <2>1. Quiet
    BY <1>3 DEF Quiet, ExpireUpload, RequestParts, storage
  <2> QED BY <1>1, <2>1, QuietStep
<1>4. CASE Crash
  <2>1. /\ \A k \in Handlers : call'[k] = Idle
        /\ UNCHANGED <<reservation, provider, dir, used>>
    BY <1>4 DEF Crash, repo
  <2>2. DirectoriesOwned' /\ EvidenceHolds'
    BY <2>1 DEF BytesInv, DirectoriesOwned, EvidenceHolds, Informed, Seen, On, Idle
  <2>3. \A u \in Uploads : object'[u] = object[u] \/ object[u] = "absent" \/ purged'[u]
    BY <1>4 DEF Crash, HalfPut, HalfDeleted
  <2>4. \A u \in Uploads : purged[u] => purged'[u]
    BY <1>4 DEF Crash
  <2>5. RecordedBytesAreDeclared'
    BY <2>1, <2>3, <2>4 DEF BytesInv, RecordedBytesAreDeclared
  <2> QED BY <1>1, <2>2, <2>5 DEF BytesInv
<1> QED BY <1>2, <1>3, <1>4

LEMMA InitBytes == Init => BytesInv
<1> SUFFICES ASSUME Init PROVE BytesInv
  OBVIOUS
<1>1. TypeOK
  BY InitType
<1>2. DirectoriesOwned /\ EvidenceHolds /\ RecordedBytesAreDeclared
  BY DEF Init, DirectoriesOwned, EvidenceHolds, Informed, RecordedBytesAreDeclared, Seen, On, Idle
<1> QED BY <1>1, <1>2 DEF BytesInv

LEMMA NextBytes == BytesInv /\ [Next]_vars => BytesInv'
<1> SUFFICES ASSUME BytesInv, [Next]_vars PROVE BytesInv'
  OBVIOUS
<1>1. ASSUME NEW h \in Handlers, HandlerStep(h) PROVE BytesInv'
  BY <1>1, QuietHandlerStep, DirectoryStep, ObjectStep DEF HandlerStep
<1>2. CASE UNCHANGED vars
  <2>1. TypeOK'
    BY <1>2, NextType DEF BytesInv
  <2>2. Quiet
    BY <1>2 DEF Quiet, vars, repo, storage
  <2> QED BY <2>1, <2>2, QuietStep
<1> QED BY <1>1, <1>2, ArrivalBytes, EnvironmentBytes DEF Next

(* Once record_uploaded_bytes has accepted an upload, its storage key      *)
(* holds exactly the declared bytes until an abort request deletes them,   *)
(* whatever concurrent PUTs, completions, failures and crashes do.         *)
THEOREM BytesCorrect == Spec => []RecordedBytesAreDeclared
<1>1. BytesInv => RecordedBytesAreDeclared
  BY DEF BytesInv
<1> QED BY <1>1, InitBytes, NextBytes, PTL DEF Spec
----------------------------------------------------------------------------
(* A version row is always in the state its reservation row implies.       *)
VersionsAgree == \A u \in Uploads : version[u] = VersionOf(reservation[u])

LifecycleInv == TypeOK /\ VersionsAgree

(* What a step may do to the tables.                                       *)
LegalStep ==
  \A u \in Uploads :
    /\ reservation'[u] # reservation[u] => <<reservation[u], reservation'[u]>> \in LegalMoves
    /\ version'[u] = VersionOf(reservation'[u])
    /\ provider[u] # None => provider'[u] = provider[u]

LEMMA LegalNext == LifecycleInv /\ [Next]_vars => LegalStep
<1> SUFFICES ASSUME LifecycleInv, [Next]_vars PROVE LegalStep
  OBVIOUS
<1>1. TypeOK /\ VersionsAgree
  BY DEF LifecycleInv
<1>2. CASE UNCHANGED <<reservation, version, provider>>
  BY <1>1, <1>2 DEF LegalStep, VersionsAgree
<1>3. ASSUME NEW h \in Handlers, NEW u \in Uploads, Arrival(h, u) PROVE LegalStep
  <2>1. CASE RequestUpload(h, u)
    BY <1>1, <2>1 DEF RequestUpload, LegalStep, VersionsAgree, LegalMoves, VersionOf, TypeOK,
       RepositoryTypeOK, repo
  <2> QED BY <1>2, <1>3, <2>1 DEF Arrival, PutUpload, PutPart, CompleteUpload, AbortUpload, repo
<1>4. ASSUME NEW h \in Handlers, HandlerStep(h) PROVE LegalStep
  <2>1. CASE AttachMultipart(h)
    BY <1>1, <2>1 DEF AttachMultipart, LegalStep, VersionsAgree, TypeOK, RepositoryTypeOK
  <2>2. CASE RecordUploadedBytes(h)
    BY <1>1, <2>2 DEF RecordUploadedBytes, LegalStep, VersionsAgree, LegalMoves, VersionOf, TypeOK,
       RepositoryTypeOK
  <2>3. CASE CommitUpload(h)
    BY <1>1, <2>3 DEF CommitUpload, LegalStep, VersionsAgree, LegalMoves, VersionOf, TypeOK,
       RepositoryTypeOK
  <2>4. CASE CommitAbort(h)
    BY <1>1, <2>4 DEF CommitAbort, LegalStep, VersionsAgree, LegalMoves, VersionOf, TypeOK,
       RepositoryTypeOK
  <2> QED BY <1>2, <1>4, <2>1, <2>2, <2>3, <2>4
       DEF HandlerStep, Replay, RenewUpload, Reread, BeginMultipart, BeginRefused, CleanupCreated, Store,
           Head, StorePart, RecordUploadedPart, ListUploadParts, ValidateParts, AssembleParts,
           RemoveDirectory, AbortMultipart, DeleteObject, repo
<1>5. CASE \/ \E h \in Handlers : HandlerFails(h) \/ AttachFails(h)
           \/ \E u \in Uploads : ExpireUpload(u)
           \/ \E u \in Uploads, ns \in SUBSET Parts : RequestParts(u, ns)
           \/ Crash \/ UNCHANGED vars
  BY <1>2, <1>5 DEF HandlerFails, AttachFails, ExpireUpload, RequestParts, Crash, vars, repo
<1> QED BY <1>3, <1>4, <1>5 DEF Next

(* No interleaving takes a reservation back or out of a terminal state,    *)
(* moves it without its version, or gives it a second provider id.         *)
THEOREM LifecycleCorrect == Spec => ReservationLifecycle
<1>1. Init => LifecycleInv
  BY InitType DEF Init, LifecycleInv, VersionsAgree, VersionOf
<1>2. LegalStep => VersionsAgree'
  BY DEF LegalStep, VersionsAgree
<1>3. LifecycleInv /\ [Next]_vars => LifecycleInv'
  BY <1>2, NextType, LegalNext DEF LifecycleInv
<1>4. LifecycleInv /\ [Next]_vars => [LegalStep]_vars
  BY LegalNext
<1> QED BY <1>1, <1>3, <1>4, PTL DEF Spec, ReservationLifecycle, LegalStep

----------------------------------------------------------------------------
(* Received parts.  A handler between the creation of a multipart upload   *)
(* and its attachment or cleanup is the only one with that identifier,     *)
(* which is no reservation's; every other handler's identifier is the one  *)
(* of its reservation.                                                     *)
Creating(h) == call[h].step \in {"attach", "cleanup"}

CreatedHold ==
  /\ \A h \in Handlers : Creating(h) =>
       /\ dir[Seen(h)] = On(h)
       /\ \A u \in Uploads : provider[u] # Seen(h)
       /\ \A k \in Handlers : Creating(k) /\ Seen(k) = Seen(h) => k = h
  /\ \A h \in Handlers : ~Creating(h) /\ Seen(h) # None =>
       On(h) \in Uploads /\ Seen(h) = provider[On(h)]

(* A handler that stored a part finds it there when it records it.         *)
StoredHold ==
  \A h \in Handlers : At(h, "recordPart") =>
    Seen(h) # None /\ staged[Seen(h)][call[h].num] \in Bodies

(* Only what is below the reservation's identifier counts as received, and *)
(* it is there until the object is, or an abort request came.              *)
PartsHold ==
  \A u \in Uploads :
    /\ provider[u] = None => \A n \in Parts : part[u][n] \notin Bodies
    /\ provider[u] # None /\ object[u] \notin Readable /\ ~purged[u] /\ ~dropped[u] =>
         /\ dir[provider[u]] = u
         /\ \A n \in Parts : part[u][n] \in Bodies => staged[provider[u]][n] \in Bodies

PartsInv == BytesInv /\ CreatedHold /\ StoredHold /\ PartsHold

(* Where a handler may come to be without a directory made or removed.     *)
Follows(k) ==
  \/ call'[k] = call[k]
  \/ call'[k].seen = None /\ call'[k].step \notin {"attach", "cleanup", "recordPart"}
  \/ /\ call'[k].on \in Uploads /\ call'[k].seen = provider[call'[k].on]
     /\ call'[k].step \notin {"attach", "cleanup", "recordPart"}
  \/ /\ Creating(k) /\ call'[k].step \in {"attach", "cleanup"}
     /\ call'[k].seen = call[k].seen /\ call'[k].on = call[k].on

(* Most steps leave the directories and the identifiers alone.             *)
LEMMA SteadyStep ==
  ASSUME PartsInv, BytesInv', UNCHANGED <<dir, staged, provider>>,
         \A k \in Handlers : Follows(k),
         \A u \in Uploads :
           /\ purged[u] => purged'[u]
           /\ dropped[u] => dropped'[u]
           /\ object[u] \in Readable => object'[u] \in Readable \/ purged'[u]
           /\ \A n \in Parts : part'[u][n] \in Bodies =>
                \/ part[u][n] \in Bodies
                \/ provider[u] # None /\ staged[provider[u]][n] \in Bodies
  PROVE  PartsInv'
<1>1. CreatedHold'
  <2>1. ASSUME NEW h \in Handlers, Creating(h)'
        PROVE  /\ Creating(h) /\ call'[h].seen = call[h].seen /\ call'[h].on = call[h].on
    BY <2>1 DEF Creating, Follows
  <2>2. ASSUME NEW h \in Handlers, Creating(h)'
        PROVE  /\ dir[call'[h].seen] = call'[h].on
               /\ \A u \in Uploads : provider[u] # call'[h].seen
               /\ \A k \in Handlers : Creating(k)' /\ call'[k].seen = call'[h].seen => k = h
    BY <2>1, <2>2 DEF PartsInv, CreatedHold, Seen, On
  <2>3. ASSUME NEW h \in Handlers, ~Creating(h)', call'[h].seen # None
        PROVE  call'[h].on \in Uploads /\ call'[h].seen = provider[call'[h].on]
    BY <2>3 DEF PartsInv, CreatedHold, Follows, Creating, Seen, On
  <2> QED BY <2>2, <2>3 DEF CreatedHold, Seen, On, Creating
<1>2. StoredHold'
  BY DEF PartsInv, StoredHold, Follows, At, Seen
<1>3. PartsHold'
  <2> SUFFICES ASSUME NEW u \in Uploads
               PROVE  /\ provider[u] = None => \A n \in Parts : part'[u][n] \notin Bodies
                      /\ /\ provider[u] # None /\ object'[u] \notin Readable
                         /\ ~purged'[u] /\ ~dropped'[u]
                         => /\ dir[provider[u]] = u
                            /\ \A n \in Parts :
                                 part'[u][n] \in Bodies => staged[provider[u]][n] \in Bodies
    BY DEF PartsHold
  <2> QED BY DEF PartsInv, PartsHold
<1> QED BY <1>1, <1>2, <1>3 DEF PartsInv

LEMMA AnswerFollows ==
  ASSUME TypeOK, NEW h \in Handlers, Answer(h)
  PROVE  \A k \in Handlers : Follows(k)
BY DEF TypeOK, CallTypeOK, Answer, Idle, Follows

LEMMA GoToFollows ==
  ASSUME PartsInv, NEW h \in Handlers, ~Creating(h),
         NEW s \in Steps \ {"attach", "cleanup", "recordPart"}, GoTo(h, s)
  PROVE  \A k \in Handlers : Follows(k)
<1>1. \A k \in Handlers : k # h => call'[k] = call[k]
  BY DEF PartsInv, BytesInv, TypeOK, CallTypeOK, GoTo
<1>2. call'[h].step = s /\ call'[h].seen = call[h].seen /\ call'[h].on = call[h].on
  BY GoToEffect DEF PartsInv, BytesInv
<1>3. Seen(h) # None => On(h) \in Uploads /\ Seen(h) = provider[On(h)]
  BY DEF PartsInv, CreatedHold
<1> QED BY <1>1, <1>2, <1>3 DEF Follows, Seen, On

LEMMA AcceptFollows ==
  ASSUME TypeOK, NEW h \in Handlers, NEW u \in Uploads, NEW m \in {None, provider[u]},
         NEW s \in Steps \ {"attach", "cleanup", "recordPart"}, Accept(h, u, m, s)
  PROVE  \A k \in Handlers : Follows(k)
<1>1. \A k \in Handlers : k # h => call'[k] = call[k]
  BY DEF TypeOK, CallTypeOK, Accept
<1>2. call'[h].step = s /\ call'[h].seen = m /\ call'[h].on = u
  BY DEF TypeOK, CallTypeOK, Accept, Idle
<1> QED BY <1>1, <1>2 DEF Follows

LEMMA VerifyFollows ==
  ASSUME PartsInv, NEW h \in Handlers, ~Creating(h), NEW b,
         NEW s \in Steps \ {"attach", "cleanup", "recordPart"}, Verify(h, b, s)
  PROVE  \A k \in Handlers : Follows(k)
<1>1. /\ \A k \in Handlers : k # h => call'[k] = call[k]
      /\ call'[h].step = s /\ call'[h].seen = call[h].seen /\ call'[h].on = call[h].on
  BY VerifyEffect DEF PartsInv, BytesInv
<1>2. Seen(h) # None => On(h) \in Uploads /\ Seen(h) = provider[On(h)]
  BY DEF PartsInv, CreatedHold
<1> QED BY <1>1, <1>2 DEF Follows, Seen, On

LEMMA ArrivalParts ==
  ASSUME PartsInv, NEW h \in Handlers, NEW u \in Uploads, Arrival(h, u)
  PROVE  PartsInv'
<1>0. TypeOK /\ BytesInv'
  BY ArrivalBytes DEF PartsInv, BytesInv
<1>1. UNCHANGED <<dir, staged, provider, purged, dropped, object, part>>
  BY DEF Arrival, RequestUpload, PutUpload, PutPart, CompleteUpload, AbortUpload, repo, storage
<1>2. \A k \in Handlers : Follows(k)
  <2>1. CASE RequestUpload(h, u)
    <3>1. Answer(h) \/ Accept(h, u, None, "begin") \/ Accept(h, u, None, "replay")
      BY <2>1 DEF RequestUpload
    <3> QED BY <1>0, <3>1, AnswerFollows, AcceptFollows DEF Steps
  <2>2. CASE PutUpload(h, u)
    BY <1>0, <2>2, AcceptFollows DEF PutUpload, Steps
  <2>3. CASE \E n \in Parts, c \in Bodies : PutPart(h, u, n, c)
    BY <1>0, <2>3 DEF PutPart, TypeOK, CallTypeOK, Idle, Follows
  <2>4. CASE CompleteUpload(h, u)
    <3>1. Accept(h, u, provider[u], "plan") \/ Accept(h, u, provider[u], "commit")
      BY <2>4 DEF CompleteUpload
    <3> QED BY <1>0, <3>1, AcceptFollows DEF Steps
  <2>5. CASE AbortUpload(h, u)
    <3>1. Accept(h, u, provider[u], "delete") \/ Accept(h, u, provider[u], "abortParts")
      BY <2>5 DEF AbortUpload
    <3> QED BY <1>0, <3>1, AcceptFollows DEF Steps
  <2> QED BY <2>1, <2>2, <2>3, <2>4, <2>5 DEF Arrival
<1> QED BY <1>0, <1>1, <1>2, SteadyStep

(* What a handler step does to the parts' evidence when it neither makes   *)
(* nor removes a directory nor stores a part.                              *)
LEMMA SteadyHandler ==
  ASSUME PartsInv, NEW h \in Handlers,
         \/ Replay(h) \/ RenewUpload(h) \/ Reread(h) \/ BeginRefused(h)
         \/ Store(h) \/ Head(h) \/ RecordUploadedBytes(h) \/ RecordUploadedPart(h)
         \/ ListUploadParts(h) \/ ValidateParts(h) \/ AssembleParts(h)
         \/ CommitUpload(h) \/ DeleteObject(h) \/ CommitAbort(h)
  PROVE  PartsInv'
<1>0. TypeOK /\ BytesInv'
  BY QuietHandlerStep, ObjectStep DEF PartsInv, BytesInv
<1>1. ~Creating(h) /\ On(h) \in Uploads
  BY <1>0 DEF Replay, RenewUpload, Reread, BeginRefused, Store, Head, RecordUploadedBytes,
     RecordUploadedPart, ListUploadParts, ValidateParts, AssembleParts, CommitUpload, DeleteObject,
     CommitAbort, At, Creating, TypeOK, CallTypeOK
<1>2. UNCHANGED <<dir, staged, provider, dropped>>
  BY DEF Replay, RenewUpload, Reread, BeginRefused, Store, Head, RecordUploadedBytes,
     RecordUploadedPart, ListUploadParts, ValidateParts, AssembleParts, CommitUpload, DeleteObject,
     CommitAbort, repo, storage
<1>3. \/ Answer(h)
      \/ \E s \in Steps \ {"attach", "cleanup", "recordPart"} : GoTo(h, s)
      \/ \E b : Verify(h, b, "record") \/ Verify(h, b, "rmdir")
      \/ call' = [call EXCEPT ![h] = [@ EXCEPT !.plan = part[On(h)], !.step = "validate"]]
  BY <1>1, AfterReservationStep DEF Replay, RenewUpload, Reread, BeginRefused, Store, Head,
     RecordUploadedBytes, RecordUploadedPart, ListUploadParts, ValidateParts, AssembleParts,
     CommitUpload, DeleteObject, CommitAbort, Proceed, Steps
<1>4. \A k \in Handlers : Follows(k)
  <2>1. CASE call' = [call EXCEPT ![h] = [@ EXCEPT !.plan = part[On(h)], !.step = "validate"]]
    <3>1. /\ \A k \in Handlers : k # h => call'[k] = call[k]
          /\ call'[h].step = "validate" /\ call'[h].seen = call[h].seen /\ call'[h].on = call[h].on
      BY <1>0, <2>1 DEF TypeOK, CallTypeOK, Calls
    <3>2. Seen(h) # None => On(h) \in Uploads /\ Seen(h) = provider[On(h)]
      BY <1>1 DEF PartsInv, CreatedHold
    <3> QED BY <3>1, <3>2 DEF Follows, Seen, On
  <2>2. CASE Answer(h)
    BY <1>0, <2>2, AnswerFollows
  <2>3. ASSUME NEW s \in Steps \ {"attach", "cleanup", "recordPart"}, GoTo(h, s)
        PROVE  \A k \in Handlers : Follows(k)
    BY <1>1, <2>3, GoToFollows
  <2>4. ASSUME NEW b, NEW s \in Steps \ {"attach", "cleanup", "recordPart"}, Verify(h, b, s)
        PROVE  \A k \in Handlers : Follows(k)
    BY <1>1, <2>4, VerifyFollows
  <2> QED BY <1>3, <2>1, <2>2, <2>3, <2>4 DEF Steps
<1>5. \A u \in Uploads :
        /\ purged[u] => purged'[u]
        /\ object[u] \in Readable => object'[u] \in Readable \/ purged'[u]
  <2>1. CASE UNCHANGED <<object, purged>>
    BY <2>1
  <2>2. CASE Store(h)
    BY <1>0, <1>1, <2>2 DEF Store, TypeOK, StorageTypeOK, Readable, Bodies
  <2>3. CASE AssembleParts(h)
    <3>1. UNCHANGED purged
      BY <2>3 DEF AssembleParts
    <3>2. PICK x, b : object' = object \/ (object[x] = "absent" /\ object' = [object EXCEPT ![x] = b])
      BY <2>3 DEF AssembleParts
    <3> QED BY <1>0, <3>1, <3>2 DEF TypeOK, StorageTypeOK, Readable, Bodies
  <2>4. CASE DeleteObject(h)
    BY <1>0, <1>1, <2>4 DEF DeleteObject, TypeOK, StorageTypeOK
  <2> QED BY <2>1, <2>2, <2>3, <2>4 DEF Replay, RenewUpload, Reread, BeginRefused, Head,
       RecordUploadedBytes, RecordUploadedPart, ListUploadParts, ValidateParts, CommitUpload,
       CommitAbort, storage
<1>6. ASSUME NEW u \in Uploads, NEW n \in Parts, part'[u][n] \in Bodies
      PROVE  \/ part[u][n] \in Bodies
             \/ provider[u] # None /\ staged[provider[u]][n] \in Bodies
  <2>1. CASE UNCHANGED part
    BY <1>6, <2>1
  <2>2. CASE CommitAbort(h)
    <3>1. \A v \in Uploads : part'[v] = part[v] \/ part'[v] = NoParts
      BY <1>0, <2>2 DEF CommitAbort, TypeOK, RepositoryTypeOK
    <3> QED BY <1>6, <3>1 DEF NoParts, Bodies
  <2>3. CASE RecordUploadedPart(h) /\ part' = [part EXCEPT ![On(h)][call[h].num] = call[h].body]
    <3>1. Seen(h) # None /\ staged[Seen(h)][call[h].num] \in Bodies /\ Seen(h) = provider[On(h)]
      BY <1>1, <2>3 DEF RecordUploadedPart, PartsInv, StoredHold, CreatedHold
    <3>2. (u = On(h) /\ n = call[h].num) \/ part'[u][n] = part[u][n]
      BY <1>0, <1>1, <2>3 DEF TypeOK, RepositoryTypeOK
    <3> QED BY <1>6, <3>1, <3>2
  <2> QED BY <2>1, <2>2, <2>3 DEF Replay, RenewUpload, Reread, BeginRefused, Store, Head,
       RecordUploadedBytes, RecordUploadedPart, ListUploadParts, ValidateParts, AssembleParts,
       CommitUpload, DeleteObject, repo
<1> QED BY <1>0, <1>2, <1>4, <1>5, <1>6, SteadyStep

LEMMA StorePartKeeps ==
  ASSUME PartsInv, NEW h \in Handlers, StorePart(h)
  PROVE  PartsInv'
<1> DEFINE m == Seen(h)
           n == call[h].num
<1>0. TypeOK /\ BytesInv'
  BY QuietHandlerStep DEF PartsInv, BytesInv
<1>1. At(h, "storePart") /\ On(h) \in Uploads /\ n \in Parts /\ call[h].body \in Bodies
      /\ UNCHANGED <<provider, part, object, dir, purged, dropped>>
  BY <1>0 DEF StorePart, At, TypeOK, CallTypeOK, Calls, repo
<1>2. CASE Answer(h) /\ UNCHANGED staged
  BY <1>0, <1>1, <1>2, AnswerFollows, SteadyStep
<1>3. CASE m # None /\ staged' = [staged EXCEPT ![m][n] = call[h].body] /\ GoTo(h, "recordPart")
  <2>1. m \in Ids /\ m = provider[On(h)]
    BY <1>0, <1>1, <1>3 DEF At, Creating, PartsInv, CreatedHold, TypeOK, CallTypeOK, Calls, Seen
  <2>2. staged'[m][n] \in Bodies
        /\ \A i \in Ids, p \in Parts : staged[i][p] \in Bodies => staged'[i][p] \in Bodies
    BY <1>0, <1>1, <1>3, <2>1 DEF TypeOK, StorageTypeOK
  <2>3. /\ \A k \in Handlers : k # h => call'[k] = call[k]
        /\ call'[h].step = "recordPart" /\ call'[h].seen = m /\ call'[h].on = On(h) /\ call'[h].num = n
    BY <1>0, <1>3 DEF TypeOK, CallTypeOK, GoTo, Calls, Seen, On
  <2>4. CreatedHold'
    <3>1. \A k \in Handlers : /\ Creating(k)' => Creating(k) /\ k # h
                              /\ call'[k].seen = call[k].seen /\ call'[k].on = call[k].on
      BY <2>3 DEF Creating, Seen, On
    <3>2. \A k \in Handlers : k # h => (Creating(k)' <=> Creating(k))
      BY <2>3 DEF Creating
    <3>3. call[h].on \in Uploads /\ call[h].seen = provider[call[h].on]
      BY <1>1, <2>1 DEF On, Seen
    <3> QED BY <1>1, <3>1, <3>2, <3>3 DEF PartsInv, CreatedHold, Seen, On
  <2>5. StoredHold'
    <3> SUFFICES ASSUME NEW k \in Handlers, At(k, "recordPart")'
                 PROVE  call'[k].seen # None /\ staged'[call'[k].seen][call'[k].num] \in Bodies
      BY DEF StoredHold, Seen
    <3>1. CASE k = h
      BY <1>3, <2>2, <2>3, <3>1
    <3>2. CASE k # h
      <4>1. call'[k] = call[k] /\ At(k, "recordPart")
        BY <2>3, <3>2 DEF At
      <4>2. Seen(k) # None /\ staged[Seen(k)][call[k].num] \in Bodies
        BY <4>1 DEF PartsInv, StoredHold
      <4>3. Seen(k) \in Ids /\ call[k].num \in Parts
        BY <1>0, <4>1, <4>2 DEF TypeOK, CallTypeOK, At, Calls, Seen
      <4> QED BY <2>2, <4>1, <4>2, <4>3 DEF Seen
    <3> QED BY <3>1, <3>2
  <2>6. PartsHold'
    <3> SUFFICES ASSUME NEW u \in Uploads
                 PROVE  /\ provider[u] = None => \A p \in Parts : part[u][p] \notin Bodies
                        /\ /\ provider[u] # None /\ object[u] \notin Readable
                           /\ ~purged[u] /\ ~dropped[u]
                           => /\ dir[provider[u]] = u
                              /\ \A p \in Parts :
                                   part[u][p] \in Bodies => staged'[provider[u]][p] \in Bodies
      BY <1>1 DEF PartsHold
    <3>1. provider[u] \in Ids \cup {None}
      BY <1>0 DEF TypeOK, RepositoryTypeOK
    <3> QED BY <2>2, <3>1 DEF PartsInv, PartsHold
  <2> QED BY <1>0, <2>4, <2>5, <2>6 DEF PartsInv
<1> QED BY <1>2, <1>3 DEF StorePart

(* A fresh identifier is nobody else's.                                    *)
LEMMA BeginKeeps ==
  ASSUME PartsInv, NEW h \in Handlers, NEW m \in Ids, BeginMultipart(h, m)
  PROVE  PartsInv'
<1>0. TypeOK /\ BytesInv' /\ DirectoriesOwned
  BY DirectoryStep DEF PartsInv, BytesInv
<1>1. /\ At(h, "begin") /\ On(h) \in Uploads /\ m \notin used
      /\ dir' = [dir EXCEPT ![m] = On(h)] /\ staged' = [staged EXCEPT ![m] = NoParts]
      /\ UNCHANGED <<provider, part, object, purged, dropped>>
  BY <1>0 DEF BeginMultipart, repo, TypeOK, CallTypeOK, At
<1>2. /\ \A k \in Handlers : k # h => call'[k] = call[k]
      /\ call'[h].step = "attach" /\ call'[h].seen = m /\ call'[h].on = On(h)
  BY <1>0 DEF BeginMultipart, Accept, TypeOK, CallTypeOK, Idle, On
<1>3. /\ \A u \in Uploads : provider[u] # m
      /\ \A k \in Handlers : Seen(k) # m
  BY <1>0, <1>1, UploadsAssumption DEF DirectoriesOwned
<1>4. /\ dir'[m] = On(h)
      /\ \A i \in Ids : i # m => dir'[i] = dir[i] /\ staged'[i] = staged[i]
  BY <1>0, <1>1 DEF TypeOK, StorageTypeOK
<1>5. /\ \A k \in Handlers : Seen(k) \in Ids \cup {None} /\ (Creating(k) => Seen(k) \in Ids)
      /\ \A u \in Uploads : provider[u] \in Ids \cup {None}
  BY <1>0 DEF TypeOK, CallTypeOK, RepositoryTypeOK, Calls, Seen, Creating
<1>6. CreatedHold'
  <2> SUFFICES ASSUME NEW k \in Handlers
               PROVE  /\ Creating(k)' =>
                           /\ dir'[call'[k].seen] = call'[k].on
                           /\ \A u \in Uploads : provider[u] # call'[k].seen
                           /\ \A i \in Handlers : Creating(i)' /\ call'[i].seen = call'[k].seen => i = k
                      /\ ~Creating(k)' /\ call'[k].seen # None =>
                           call'[k].on \in Uploads /\ call'[k].seen = provider[call'[k].on]
    BY <1>1 DEF CreatedHold, Seen, On
  <2>1. \A i \in Handlers : i # h => (Creating(i)' <=> Creating(i)) /\ call'[i].seen = Seen(i)
                                     /\ call'[i].on = On(i)
    BY <1>2 DEF Creating, Seen, On
  <2>2. CASE k = h
    BY <1>2, <1>3, <1>4, <2>1, <2>2 DEF Creating
  <2>3. CASE k # h
    <3>1. Creating(k) => Seen(k) \in Ids /\ Seen(k) # m
      BY <1>3, <1>5
    <3> QED BY <1>2, <1>3, <1>4, <2>1, <2>3, <3>1 DEF PartsInv, CreatedHold
  <2> QED BY <2>2, <2>3
<1>7. StoredHold'
  <2> SUFFICES ASSUME NEW k \in Handlers, At(k, "recordPart")'
               PROVE  call'[k].seen # None /\ staged'[call'[k].seen][call'[k].num] \in Bodies
    BY DEF StoredHold, Seen
  <2>1. call'[k] = call[k] /\ At(k, "recordPart")
    BY <1>2 DEF At
  <2>2. Seen(k) # None /\ staged[Seen(k)][call[k].num] \in Bodies /\ Seen(k) \in Ids /\ Seen(k) # m
    BY <1>3, <1>5, <2>1 DEF PartsInv, StoredHold
  <2> QED BY <1>4, <2>1, <2>2 DEF Seen
<1>8. PartsHold'
  <2>1. \A u \in Uploads : provider[u] # None =>
          dir'[provider[u]] = dir[provider[u]] /\ staged'[provider[u]] = staged[provider[u]]
    BY <1>3, <1>4, <1>5
  <2> QED BY <1>1, <2>1 DEF PartsInv, PartsHold
<1> QED BY <1>0, <1>6, <1>7, <1>8 DEF PartsInv

(* The identifier that is attached is the one its handler created, and     *)
(* nothing was received before.                                            *)
LEMMA AttachKeeps ==
  ASSUME PartsInv, NEW h \in Handlers, AttachMultipart(h)
  PROVE  PartsInv'
<1> DEFINE u == On(h)
           m == Seen(h)
<1>0. TypeOK /\ BytesInv'
  BY DirectoryStep DEF PartsInv, BytesInv
<1>1. /\ At(h, "attach") /\ u \in Uploads /\ m \in Ids /\ Creating(h)
      /\ UNCHANGED <<part, object, purged, dropped, dir, staged>>
  BY <1>0 DEF AttachMultipart, storage, TypeOK, CallTypeOK, At, Creating
<1>2. CASE GoTo(h, "cleanup") /\ UNCHANGED provider
  <2>1. /\ \A k \in Handlers : k # h => call'[k] = call[k]
        /\ call'[h].step = "cleanup" /\ call'[h].seen = call[h].seen /\ call'[h].on = call[h].on
    BY <1>0, <1>2 DEF TypeOK, CallTypeOK, GoTo, Calls
  <2>2. \A k \in Handlers : Follows(k)
    BY <1>1, <2>1 DEF Follows
  <2> QED BY <1>0, <1>1, <1>2, <2>2, SteadyStep
<1>3. CASE provider[u] = None /\ provider' = [provider EXCEPT ![u] = m] /\ Answer(h)
  <2>1. /\ \A k \in Handlers : k # h => call'[k] = call[k]
        /\ call'[h].step = "idle" /\ call'[h].seen = None
    BY <1>0, <1>3, AnswerEffect
  <2>2. provider'[u] = m /\ \A v \in Uploads : v # u => provider'[v] = provider[v]
    BY <1>0, <1>1, <1>3 DEF TypeOK, RepositoryTypeOK
  <2>3. dir[m] = u /\ \A k \in Handlers : Creating(k) /\ Seen(k) = m => k = h
    BY <1>1 DEF PartsInv, CreatedHold
  <2>4. \A k \in Handlers : k # h => (Creating(k)' <=> Creating(k)) /\ call'[k].seen = Seen(k)
                                     /\ call'[k].on = On(k)
    BY <2>1 DEF Creating, Seen, On
  <2>5. ~Creating(h)'
    BY <2>1 DEF Creating
  <2>6. CreatedHold'
    <3>1. ASSUME NEW k \in Handlers, Creating(k)'
          PROVE  /\ dir'[call'[k].seen] = call'[k].on
                 /\ \A v \in Uploads : provider'[v] # call'[k].seen
                 /\ \A i \in Handlers : Creating(i)' /\ call'[i].seen = call'[k].seen => i = k
      BY <1>1, <2>2, <2>3, <2>4, <2>5, <3>1 DEF PartsInv, CreatedHold
    <3>2. ASSUME NEW k \in Handlers, ~Creating(k)', call'[k].seen # None
          PROVE  call'[k].on \in Uploads /\ call'[k].seen = provider'[call'[k].on]
      <4>1. k # h /\ ~Creating(k) /\ Seen(k) # None
        BY <2>1, <2>4, <3>2
      <4>2. On(k) \in Uploads /\ Seen(k) = provider[On(k)]
        BY <4>1 DEF PartsInv, CreatedHold
      <4>3. On(k) # u
        BY <1>3, <4>1, <4>2
      <4> QED BY <2>2, <2>4, <4>1, <4>2, <4>3
    <3> QED BY <3>1, <3>2 DEF CreatedHold, Seen, On
  <2>7. StoredHold'
    BY <1>1, <2>1 DEF PartsInv, StoredHold, At, Seen
  <2>8. PartsHold'
    <3>1. \A n \in Parts : part[u][n] \notin Bodies
      BY <1>1, <1>3 DEF PartsInv, PartsHold
    <3>2. m # None
      BY <1>1, UploadsAssumption
    <3> QED BY <1>1, <2>2, <2>3, <3>1, <3>2 DEF PartsInv, PartsHold
  <2> QED BY <1>0, <2>6, <2>7, <2>8 DEF PartsInv
<1> QED BY <1>2, <1>3 DEF AttachMultipart

(* A directory goes only with its handler's identifier: the loser's own,   *)
(* or the reservation's once the object is there or an abort request came. *)
LEMMA RemovalKeeps ==
  ASSUME PartsInv, NEW h \in Handlers, CleanupCreated(h) \/ RemoveDirectory(h) \/ AbortMultipart(h)
  PROVE  PartsInv'
<1> DEFINE u == On(h)
           m == Seen(h)
<1>0. TypeOK /\ BytesInv' /\ BytesInv
  BY DirectoryStep DEF PartsInv, BytesInv
<1>1. /\ call[h].step \in {"cleanup", "rmdir", "abortParts"} /\ u \in Uploads /\ m \in Ids
      /\ dir' = [dir EXCEPT ![m] = None]
      /\ UNCHANGED <<provider, part, object, purged, staged>>
      /\ \A v \in Uploads : dropped[v] => dropped'[v]
  BY <1>0 DEF CleanupCreated, RemoveDirectory, AbortMultipart, repo, TypeOK, CallTypeOK, At, StorageTypeOK
<1>2. /\ \A k \in Handlers : k # h => call'[k] = call[k]
      /\ call'[h].step \notin {"attach", "cleanup", "recordPart"}
      /\ call'[h].seen = None \/ (call'[h].seen = m /\ call'[h].on = u)
      /\ call[h].step = "cleanup" => call'[h].seen = None
  <2>1. CASE CleanupCreated(h)
    BY <1>0, <2>1, AnswerEffect DEF CleanupCreated
  <2>2. CASE RemoveDirectory(h)
    BY <1>0, <2>2, AnswerEffect, GoToEffect DEF RemoveDirectory, Proceed, Seen, On, At
  <2>3. CASE AbortMultipart(h)
    BY <1>0, <2>3, GoToEffect DEF AbortMultipart, Seen, On, At
  <2> QED BY <2>1, <2>2, <2>3
<1>3. \A k \in Handlers : Creating(k) /\ k # h => Seen(k) \in Ids /\ Seen(k) # m
  <2> TAKE k \in Handlers
  <2> HAVE Creating(k) /\ k # h
  <2>1. Seen(k) \in Ids
    BY <1>0 DEF TypeOK, CallTypeOK, Creating
  <2>2. CASE Creating(h)
    BY <2>1, <2>2 DEF PartsInv, CreatedHold
  <2>3. CASE ~Creating(h)
    <3>1. m # None
      BY <1>1, UploadsAssumption
    <3>2. m = provider[u]
      BY <2>3, <3>1 DEF PartsInv, CreatedHold
    <3> QED BY <1>1, <2>1, <3>2 DEF PartsInv, CreatedHold
  <2> QED BY <2>1, <2>2, <2>3
<1>4. \A i \in Ids : i # m => dir'[i] = dir[i]
  BY <1>0, <1>1 DEF TypeOK, StorageTypeOK
<1>5. CreatedHold'
  <2>1. ~Creating(h)'
    BY <1>2 DEF Creating
  <2>2. \A k \in Handlers : k # h => (Creating(k)' <=> Creating(k)) /\ call'[k].seen = Seen(k)
                                     /\ call'[k].on = On(k)
    BY <1>2 DEF Creating, Seen, On
  <2>3. ASSUME NEW k \in Handlers, Creating(k)'
        PROVE  /\ dir'[call'[k].seen] = call'[k].on
               /\ \A v \in Uploads : provider'[v] # call'[k].seen
               /\ \A i \in Handlers : Creating(i)' /\ call'[i].seen = call'[k].seen => i = k
    BY <1>1, <1>3, <1>4, <2>1, <2>2, <2>3 DEF PartsInv, CreatedHold
  <2>4. ASSUME NEW k \in Handlers, ~Creating(k)', call'[k].seen # None
        PROVE  call'[k].on \in Uploads /\ call'[k].seen = provider'[call'[k].on]
    <3>1. CASE k # h
      BY <1>1, <2>2, <2>4, <3>1 DEF PartsInv, CreatedHold
    <3>2. CASE k = h
      <4>1. ~Creating(h) /\ m # None /\ call'[h].seen = m /\ call'[h].on = u
        BY <1>1, <1>2, <2>4, <3>2, UploadsAssumption DEF Creating
      <4> QED BY <1>1, <3>2, <4>1 DEF PartsInv, CreatedHold
    <3> QED BY <3>1, <3>2
  <2> QED BY <2>3, <2>4 DEF CreatedHold, Seen, On
<1>6. StoredHold'
  BY <1>1, <1>2 DEF PartsInv, StoredHold, At, Seen
<1>7. ASSUME NEW v \in Uploads, provider[v] # None, object[v] \notin Readable, ~purged[v], ~dropped'[v],
             dir[provider[v]] = v
      PROVE  provider[v] # m
  <2> SUFFICES ASSUME provider[v] = m PROVE FALSE
    OBVIOUS
  <2>1. v = u
    <3>1. v # None
      BY UploadsAssumption
    <3>2. dir[m] \in {u, None}
      BY <1>1, UploadsAssumption DEF PartsInv, BytesInv, DirectoriesOwned
    <3> QED BY <1>7, <3>1, <3>2
  <2>2. CASE CleanupCreated(h)
    <3>1. Creating(h)
      BY <2>2 DEF CleanupCreated, At, Creating
    <3> QED BY <3>1 DEF PartsInv, CreatedHold
  <2>3. CASE RemoveDirectory(h)
    <3>1. Informed(h)
      BY <2>3 DEF RemoveDirectory, At, Informed
    <3> QED BY <1>0, <1>7, <2>1, <3>1, EvidenceReadable DEF Readable
  <2>4. CASE AbortMultipart(h)
    BY <1>0, <1>7, <2>1, <2>4 DEF AbortMultipart, TypeOK, StorageTypeOK
  <2> QED BY <2>2, <2>3, <2>4
<1>8. PartsHold'
  <2> SUFFICES ASSUME NEW v \in Uploads
               PROVE  /\ provider[v] = None => \A n \in Parts : part[v][n] \notin Bodies
                      /\ /\ provider[v] # None /\ object[v] \notin Readable
                         /\ ~purged[v] /\ ~dropped'[v]
                         => /\ dir'[provider[v]] = v
                            /\ \A n \in Parts : part[v][n] \in Bodies => staged[provider[v]][n] \in Bodies
    BY <1>1 DEF PartsHold
  <2>1. provider[v] \in Ids \cup {None}
    BY <1>0 DEF TypeOK, RepositoryTypeOK
  <2> QED BY <1>1, <1>4, <1>7, <2>1 DEF PartsInv, PartsHold
<1> QED BY <1>0, <1>5, <1>6, <1>8 DEF PartsInv

LEMMA EnvironmentParts ==
  ASSUME PartsInv,
         \/ \E h \in Handlers : HandlerFails(h) \/ AttachFails(h)
         \/ \E u \in Uploads : ExpireUpload(u)
         \/ \E u \in Uploads, ns \in SUBSET Parts : RequestParts(u, ns)
         \/ Crash
  PROVE  PartsInv'
<1>0. TypeOK /\ BytesInv'
  BY EnvironmentBytes DEF PartsInv, BytesInv
<1>1. ASSUME NEW h \in Handlers, HandlerFails(h) \/ AttachFails(h) PROVE PartsInv'
  <2>1. UNCHANGED <<dir, staged, provider, purged, dropped, object, part>>
    BY <1>1 DEF HandlerFails, AttachFails, repo, storage
  <2>2. CASE HandlerFails(h)
    BY <1>0, <2>1, <2>2, AnswerFollows, SteadyStep DEF HandlerFails
  <2>3. CASE AttachFails(h)
    <3>1. /\ \A k \in Handlers : k # h => call'[k] = call[k]
          /\ call'[h].step = "cleanup" /\ call'[h].seen = call[h].seen /\ call'[h].on = call[h].on
      BY <1>0, <2>3, GoToEffect DEF AttachFails
    <3>2. \A k \in Handlers : Follows(k)
      BY <2>3, <3>1 DEF Follows, Creating, AttachFails, At
    <3> QED BY <1>0, <2>1, <3>2, SteadyStep
  <2> QED BY <1>1, <2>2, <2>3
<1>2. ASSUME NEW u \in Uploads, ExpireUpload(u) PROVE PartsInv'
  BY <1>0, <1>2, SteadyStep DEF ExpireUpload, storage, Follows
<1>3. ASSUME NEW u \in Uploads, NEW ns \in SUBSET Parts, RequestParts(u, ns) PROVE PartsInv'
  <2>1. \A v \in Uploads, n \in Parts : part'[v][n] = part[v][n] \/ part'[v][n] = "granted"
    BY <1>0, <1>3 DEF RequestParts, TypeOK, RepositoryTypeOK
  <2>2. \A v \in Uploads, n \in Parts : part'[v][n] \in Bodies => part[v][n] \in Bodies
    BY <2>1 DEF Bodies
  <2> QED BY <1>0, <1>3, <2>2, SteadyStep DEF RequestParts, storage, Follows
<1>4. CASE Crash
  <2>1. \A k \in Handlers : Follows(k)
    BY <1>4 DEF Crash, Follows, Idle
  <2>2. UNCHANGED <<dir, staged, provider, dropped, part>>
    BY <1>4 DEF Crash, repo
  <2>3. \A u \in Uploads : /\ purged[u] => purged'[u]
                           /\ object[u] \in Readable => object'[u] \in Readable \/ purged'[u]
    BY <1>4 DEF Crash, HalfPut, HalfDeleted, Readable, Bodies
  <2> QED BY <1>0, <2>1, <2>2, <2>3, SteadyStep
<1> QED BY <1>1, <1>2, <1>3, <1>4

LEMMA InitParts == Init => PartsInv
<1> SUFFICES ASSUME Init PROVE PartsInv
  OBVIOUS
<1>1. BytesInv
  BY InitBytes
<1>2. CreatedHold /\ StoredHold
  BY DEF Init, CreatedHold, StoredHold, Creating, At, Seen, Idle
<1>3. PartsHold
  BY DEF Init, PartsHold, NoParts, Bodies
<1> QED BY <1>1, <1>2, <1>3 DEF PartsInv

LEMMA NextParts == PartsInv /\ [Next]_vars => PartsInv'
<1> SUFFICES ASSUME PartsInv, [Next]_vars PROVE PartsInv'
  OBVIOUS
<1>1. ASSUME NEW h \in Handlers, HandlerStep(h) PROVE PartsInv'
  <2>1. ASSUME NEW m \in Ids, BeginMultipart(h, m) PROVE PartsInv'
    BY <2>1, BeginKeeps
  <2> QED BY <1>1, <2>1, SteadyHandler, StorePartKeeps, AttachKeeps, RemovalKeeps DEF HandlerStep
<1>2. CASE UNCHANGED vars
  <2>1. BytesInv'
    BY <1>2, NextBytes DEF PartsInv
  <2> QED BY <1>2, <2>1, SteadyStep DEF vars, repo, storage, Follows
<1> QED BY <1>1, <1>2, ArrivalParts, EnvironmentParts DEF Next

(* Every part a PUT acknowledged is staged under the reservation's one     *)
(* provider id until the object is assembled or an abort request came: the *)
(* loser of the ensure_provider race cleans up its own directory only.     *)
THEOREM PartsAreKept == Spec => []ReceivedPartsKept
<1>1. PartsInv => ReceivedPartsKept
  BY UploadsAssumption DEF PartsInv, PartsHold, ReceivedPartsKept, Readable, Bodies
<1> QED BY <1>1, InitParts, NextParts, PTL DEF Spec

(* What the rows say of an upload is on disk, for any number of uploads,   *)
(* parts, handlers, identifiers and faults.                                *)
THEOREM UploadsAreSoundHolds == Spec => []UploadsAreSound
<1>1. TypeOK /\ RecordedBytesAreDeclared /\ ReceivedPartsKept => UploadsAreSound
  BY DEF UploadsAreSound
<1> QED BY <1>1, TypeCorrect, BytesCorrect, PartsAreKept, PTL

-----------------------------------------------------------------------------
(* The other end of an upload: the commands of Transfers, for any number   *)
(* of processes, contents, parts, edits and mishaps.                       *)

Files == [print : T!Prints, content : Contents, commit : T!Prints]
Rows ==
  [state : {"none", "requested", "uploaded", "complete", "aborted"}, live : BOOLEAN,
   content : Contents \cup {Absent}, commit : {0} \cup T!Prints, granted : SUBSET Pieces,
   parts : T!Etags, bytes : Contents \cup {Absent}]
Servers ==
  [rows : [T!Keys -> Rows], deploys : [T!Deploys -> {"none", "uploading", "live", "failed"}]]
Saves == [print : T!Prints, key : T!Keys, etags : T!Etags]
Commands ==
  [pc : T!Requests \cup {"idle", "resume", "parts", "fetch", "place", "report"},
   kind : {Absent, "upload", "deploy", "download"}, path : T!Paths, print : T!Prints,
   content : Contents \cup {Absent}, commit : {0} \cup T!Prints, key : T!Keys \cup {Absent},
   etags : T!Etags, todo : SUBSET Pieces, body : Contents \cup {Absent, "short"}]

(* f tells which content a fingerprint stands for.  A reservation is for   *)
(* the content of the fingerprint in its key; what was uploaded, and what  *)
(* completed if it is large, is that content.                              *)
RowHolds(r, k, f, v) ==
  /\ ~ r.live => r.granted = {}
  /\ r.state # "none" => r.content = f[k[2]] /\ k[2] <= v.print
  /\ r.state = "uploaded" => r.bytes = r.content
  /\ r.state = "complete" /\ r.content \in Large => r.bytes = r.content

ServerHolds(s, f, v) == s \in Servers /\ \A k \in T!Keys : RowHolds(s.rows[k], k, f, v)

(* A resume file names the reservation of its own path and fingerprint,    *)
(* and, while the source file has that fingerprint, parts sent from it.    *)
ResumeHolds(r, p, v) ==
  r # Absent =>
    /\ r.key = <<p, r.print>> /\ r.print <= v.print
    /\ r.print = v.print => \A n \in Pieces : r.etags[n] \in {Absent, v.content}

(* So does a command between inspection and report; one that may abort     *)
(* works on a small content.                                               *)
Sending == {"reserve", "put", "grants", "parts", "complete", "abort", "finalise"}

CommandHolds(c, f, s, v) ==
  /\ c.pc \in Sending =>
       /\ c.kind \in {"upload", "deploy"}
       /\ c.key \in T!Keys /\ c.key = <<c.path, c.print>> /\ c.print <= v.print
       /\ c.content = f[c.print]
       /\ c.print = v.print => \A n \in Pieces : c.etags[n] \in {Absent, v.content}
  /\ c.pc \in {"start", "finalise", "fail"} => c.kind = "deploy"
  /\ c.pc = "resume" => c.kind \in {"upload", "deploy"}
  /\ c.pc \in {"start", "resume"} => c.etags = T!NoEtags
  /\ c.pc # "idle" /\ c.kind = "deploy" => c.path \in T!Deploys
  /\ c.pc \in {"put", "abort"} => c.content \notin Large
  /\ c.pc \in {"ask", "fetch", "place"} => c.kind = "download"
  /\ c.pc = "place" => c.body = c.content
  /\ c.pc = "report" /\ c.kind = "download" => c.body = c.content
  /\ c.pc = "start" => s.deploys[c.path] = "none"
  /\ c.pc = "finalise" => s.rows[c.key].state = "complete" /\ s.rows[c.key].bytes = c.content

Holds(f) ==
  /\ f[file.print] = file.content
  /\ ServerHolds(server, f, file)
  /\ \A p \in T!Paths : ResumeHolds(resume[p], p, file)
  /\ \A p \in Processes : CommandHolds(cmd[p], f, server, file)

Typed ==
  /\ file \in Files
  /\ resume \in [T!Paths -> Saves \cup {Absent}]
  /\ cmd \in [Processes -> Commands]
  /\ mishaps \in 0..MaxMishaps

(* Only uploads run side by side.                                          *)
Alone ==
  \A p, q \in Processes :
    p = q \/ T!At(p, "idle") \/ T!At(q, "idle") \/ (cmd[p].kind = "upload" /\ cmd[q].kind = "upload")

IInv == Typed /\ Alone /\ \E f \in [T!Prints -> Contents] : Holds(f)

-----------------------------------------------------------------------------
(* The blanks a server or a process starts from are well typed.            *)
LEMMA Blanks ==
  ASSUME T!TransfersAssumption
  PROVE  /\ T!NoRow \in Rows /\ T!NoRow.state = "none" /\ T!NoRow.content = Absent /\ T!NoRow.bytes = Absent
         /\ T!NoRow.granted = {} /\ ~ T!NoRow.live
         /\ T!NoEtags \in T!Etags /\ \A n \in Pieces : T!NoEtags[n] = Absent
         /\ 0 \in T!Paths /\ T!Deploys \subseteq T!Paths /\ 0 \notin T!Deploys
         /\ 1 \in T!Prints /\ T!Prints \subseteq Nat \ {0}
         /\ T!Idle \in Commands /\ T!Idle.pc = "idle" /\ T!Idle.kind = Absent /\ T!Idle.etags = T!NoEtags
<1>1. MaxEdits \in Nat /\ MaxDeploys \in Nat
  BY DEF T!TransfersAssumption
<1>2. 1 \in T!Prints /\ T!Prints \subseteq Nat \ {0} /\ 0 \in T!Paths /\ T!Deploys \subseteq T!Paths /\ 0 \notin T!Deploys
  BY <1>1 DEF T!Prints, T!Paths, T!Deploys
<1>3. T!NoEtags \in T!Etags /\ \A n \in Pieces : T!NoEtags[n] = Absent
  BY DEF T!NoEtags, T!Etags
<1> QED BY <1>2, <1>3 DEF T!NoRow, Rows, T!Idle, Commands

Live(s) == {d \in T!Deploys : s.deploys[d] = "live"}

(* What every request leaves on the server, applied or refused.            *)
Fine(out, f) ==
  /\ ServerHolds(out.server, f, file)
  /\ Live(server) \subseteq Live(out.server)

(* What an answered or refused request does to the one row it is about.    *)
LEMMA OutcomeHolds ==
  ASSUME T!TransfersAssumption, NEW f, ServerHolds(server, f, file), NEW p, NEW ok,
         NEW row \in Rows, cmd[p].key # Absent => RowHolds(row, cmd[p].key, f, file)
  PROVE  /\ T!Outcome(ok, p, row).ok = ok
         /\ Fine(T!Outcome(ok, p, row), f)
         /\ cmd[p].key \in T!Keys \ {Absent} => T!Outcome(ok, p, row).server.rows[cmd[p].key] = row
<1> DEFINE k == cmd[p].key
           s == [server EXCEPT !.rows[k] = row]
<1>1. server \in Servers /\ \A j \in T!Keys : RowHolds(server.rows[j], j, f, file)
  BY DEF ServerHolds
<1>2. /\ s \in Servers /\ s.deploys = server.deploys
      /\ \A j \in T!Keys : s.rows[j] = IF j = k THEN row ELSE server.rows[j]
  BY <1>1 DEF Servers
<1>3. k # Absent => ServerHolds(s, f, file)
  BY <1>1, <1>2 DEF ServerHolds
<1>4. T!Outcome(ok, p, row) = [ok |-> ok, server |-> IF k = Absent THEN server ELSE s]
  BY DEF T!Outcome
<1> HIDE DEF s
<1>5. ServerHolds(T!Outcome(ok, p, row).server, f, file) /\ T!Outcome(ok, p, row).ok = ok
      /\ T!Outcome(ok, p, row).server.deploys = server.deploys
  BY <1>2, <1>3, <1>4
<1>6. Fine(T!Outcome(ok, p, row), f)
  BY <1>5 DEF Fine, Live
<1>7. cmd[p].key \in T!Keys \ {Absent} => T!Outcome(ok, p, row).server.rows[cmd[p].key] = row
  BY <1>2, <1>4
<1> QED BY <1>5, <1>6, <1>7

(* The row a command works on holds, the missing row included.             *)
LEMMA RowOfCommand ==
  ASSUME T!TransfersAssumption, NEW f, ServerHolds(server, f, file), NEW p,
         cmd[p].key \in T!Keys \cup {Absent}
  PROVE  T!Row(p) \in Rows /\ (cmd[p].key # Absent => RowHolds(T!Row(p), cmd[p].key, f, file))
BY Blanks DEF T!Row, ServerHolds, Servers

(* What every request of a command may assume of its own state.            *)
LEMMA StepContext ==
  ASSUME T!TransfersAssumption, Typed, NEW f \in [T!Prints -> Contents], Holds(f), NEW p \in Processes
  PROVE  /\ cmd[p] \in Commands /\ CommandHolds(cmd[p], f, server, file)
         /\ cmd[p].key \in T!Keys \cup {Absent} /\ cmd[p].etags \in T!Etags
         /\ ServerHolds(server, f, file) /\ server \in Servers
         /\ T!Row(p) \in Rows /\ (cmd[p].key # Absent => RowHolds(T!Row(p), cmd[p].key, f, file))
         /\ file \in Files /\ f[file.print] = file.content /\ file.content \in Contents
         /\ file.content # Absent
<1>1. cmd[p] \in Commands /\ CommandHolds(cmd[p], f, server, file) /\ ServerHolds(server, f, file)
      /\ file \in Files /\ f[file.print] = file.content
  BY DEF Typed, Holds
<1>2. cmd[p].key \in T!Keys \cup {Absent} /\ cmd[p].etags \in T!Etags
  BY <1>1 DEF Commands
<1>3. file.content \in Contents /\ Absent \notin Contents
  BY <1>1 DEF Files, T!TransfersAssumption
<1> QED BY <1>1, <1>2, <1>3, RowOfCommand DEF ServerHolds

(* A reservation is for the content of the fingerprint in its key: a       *)
(* replayed one is the row that was reserved for the same fingerprint.     *)
LEMMA ReserveFine ==
  ASSUME T!TransfersAssumption, Typed, NEW f \in [T!Prints -> Contents], Holds(f), NEW p \in Processes,
         cmd[p].pc = "reserve"
  PROVE  Fine(T!ServeReserve(p), f)
<1> DEFINE c == cmd[p]
           r == T!Row(p)
           new == [T!NoRow EXCEPT !.state = "requested", !.live = TRUE,
                                !.content = c.content, !.commit = c.commit]
           again == [r EXCEPT !.live = TRUE]
<1>1. /\ c \in Commands /\ r \in Rows /\ (c.key # Absent => RowHolds(r, c.key, f, file))
      /\ ServerHolds(server, f, file)
  BY StepContext
<1>2. c.key = <<c.path, c.print>> /\ c.print <= file.print /\ c.content = f[c.print]
  BY StepContext DEF CommandHolds, Sending
<1>3. new \in Rows /\ new.state = "requested" /\ new.live /\ new.content = c.content
  BY <1>1, Blanks DEF Rows, Commands
<1>4. again \in Rows /\ again.state = r.state /\ again.live /\ again.content = r.content /\ again.bytes = r.bytes
  BY <1>1 DEF Rows
<1>5. RowHolds(new, c.key, f, file)
  BY <1>2, <1>3 DEF RowHolds
<1>6. c.key # Absent => RowHolds(again, c.key, f, file)
  BY <1>1, <1>4 DEF RowHolds
<1>7. \E row \in {new, again, r}, ok \in BOOLEAN : T!ServeReserve(p) = T!Outcome(ok, p, row)
  BY DEF T!ServeReserve
<1> HIDE DEF new, again, r, c
<1>8. PICK row \in {new, again, r}, ok \in BOOLEAN : T!ServeReserve(p) = T!Outcome(ok, p, row)
  BY <1>7
<1>9. row \in Rows /\ (cmd[p].key # Absent => RowHolds(row, cmd[p].key, f, file))
  BY <1>1, <1>3, <1>4, <1>5, <1>6, <1>8 DEF c
<1> QED BY <1>1, <1>8, <1>9, OutcomeHolds

(* The single-request PUT is accepted only with the bytes that were        *)
(* declared.                                                               *)
LEMMA PutFine ==
  ASSUME T!TransfersAssumption, Typed, NEW f \in [T!Prints -> Contents], Holds(f), NEW p \in Processes
  PROVE  Fine(T!ServePut(p), f)
<1> DEFINE r == T!Row(p)
           put == [r EXCEPT !.state = "uploaded", !.bytes = file.content]
<1>1. /\ r \in Rows /\ (cmd[p].key # Absent => RowHolds(r, cmd[p].key, f, file))
      /\ ServerHolds(server, f, file) /\ file.content \in Contents
  BY StepContext
<1>2. put \in Rows /\ put.state = "uploaded" /\ put.bytes = file.content /\ put.content = r.content
      /\ put.live = r.live /\ put.granted = r.granted
  BY <1>1 DEF Rows
<1>3. CASE r.state = "requested" /\ r.live /\ file.content = r.content
  <2>1. PICK ok \in BOOLEAN : T!ServePut(p) = T!Outcome(ok, p, put)
    BY <1>3 DEF T!ServePut
  <2> HIDE DEF put, r
  <2>2. cmd[p].key # Absent => RowHolds(put, cmd[p].key, f, file)
    BY <1>1, <1>2, <1>3 DEF RowHolds
  <2> QED BY <1>1, <1>2, <2>1, <2>2, OutcomeHolds
<1>4. CASE ~ (r.state = "requested" /\ r.live /\ file.content = r.content)
  <2>1. PICK ok \in BOOLEAN : ok = FALSE /\ T!ServePut(p) = T!Outcome(ok, p, r)
    BY <1>4 DEF T!ServePut
  <2> HIDE DEF r
  <2> QED BY <1>1, <2>1, OutcomeHolds
<1> QED BY <1>3, <1>4

(* A batch of parts is of the upload.                                      *)
LEMMA BatchIsPending == ASSUME NEW c PROVE T!Batch(c) \subseteq Pieces
BY DEF T!Batch, T!Pending

(* Granting parts changes the grants of one row only.                      *)
LEMMA GrantsFine ==
  ASSUME T!TransfersAssumption, Typed, NEW f \in [T!Prints -> Contents], Holds(f), NEW p \in Processes
  PROVE  Fine(T!ServeGrants(p), f)
<1> DEFINE r == T!Row(p)
           more == [r EXCEPT !.granted = @ \cup T!Batch(cmd[p])]
<1>1. /\ r \in Rows /\ (cmd[p].key # Absent => RowHolds(r, cmd[p].key, f, file))
      /\ ServerHolds(server, f, file)
  BY StepContext
<1>2. more \in Rows /\ more.state = r.state /\ more.bytes = r.bytes /\ more.content = r.content
      /\ more.live = r.live
  BY <1>1, BatchIsPending DEF Rows
<1>3. CASE r.state = "requested" /\ r.content \in Large /\ r.live
  <2>1. PICK ok \in BOOLEAN : T!ServeGrants(p) = T!Outcome(ok, p, more)
    BY <1>3 DEF T!ServeGrants
  <2> HIDE DEF more, r
  <2>2. cmd[p].key # Absent => RowHolds(more, cmd[p].key, f, file)
    BY <1>1, <1>2, <1>3 DEF RowHolds
  <2> QED BY <1>1, <1>2, <2>1, <2>2, OutcomeHolds
<1>4. CASE ~ (r.state = "requested" /\ r.content \in Large /\ r.live)
  <2>1. PICK ok \in BOOLEAN : ok = FALSE /\ T!ServeGrants(p) = T!Outcome(ok, p, r)
    BY <1>4 DEF T!ServeGrants
  <2> HIDE DEF r
  <2> QED BY <1>1, <2>1, OutcomeHolds
<1> QED BY <1>3, <1>4

(* Storing parts, some or all of those under way, touches no other field.  *)
LEMMA StoredFine ==
  ASSUME T!TransfersAssumption, Typed, NEW f \in [T!Prints -> Contents], Holds(f), NEW p \in Processes,
         NEW ns, NEW ok
  PROVE  Fine(T!Outcome(ok, p, T!Stored(p, ns)), f)
<1> DEFINE r == T!Row(p)
           etags == [n \in Pieces |-> IF n \in ns \cap r.granted THEN file.content ELSE r.parts[n]]
           more == [r EXCEPT !.parts = etags]
<1>1. /\ r \in Rows /\ (cmd[p].key # Absent => RowHolds(r, cmd[p].key, f, file))
      /\ ServerHolds(server, f, file) /\ file.content \in Contents
  BY StepContext
<1>2. r.parts \in T!Etags
  BY <1>1 DEF Rows
<1>3. etags \in T!Etags
  BY <1>1, <1>2 DEF T!Etags
<1>4. T!Stored(p, ns) \in {r, more}
  BY DEF T!Stored
<1> HIDE DEF etags
<1>5. more \in Rows /\ more.state = r.state /\ more.bytes = r.bytes /\ more.content = r.content
      /\ more.live = r.live /\ more.granted = r.granted
  BY <1>1, <1>3 DEF Rows
<1> HIDE DEF more, r
<1>6. T!Stored(p, ns) \in Rows /\ (cmd[p].key # Absent => RowHolds(T!Stored(p, ns), cmd[p].key, f, file))
  BY <1>1, <1>4, <1>5 DEF RowHolds
<1> QED BY <1>1, <1>6, OutcomeHolds

(* What a served completion makes complete has the bytes of the            *)
(* fingerprint in its key: a small one uploaded them, a large one has all  *)
(* its parts.                                                              *)
LEMMA CompleteFine ==
  ASSUME T!TransfersAssumption, Typed, NEW f \in [T!Prints -> Contents], Holds(f), NEW p \in Processes
  PROVE  /\ Fine(T!ServeComplete(p), f)
         /\ T!ServeComplete(p).ok /\ cmd[p].key \in T!Keys =>
              /\ T!ServeComplete(p).server.rows[cmd[p].key].state = "complete"
              /\ T!ServeComplete(p).server.rows[cmd[p].key].bytes = f[cmd[p].key[2]]
<1> DEFINE r == T!Row(p)
           done == [r EXCEPT !.state = "complete", !.bytes = IF r.content \in Large THEN r.content ELSE @]
           may == \/ r.state = "uploaded" /\ r.content \notin Large
                  \/ /\ r.state = "requested" /\ r.content \in Large
                     /\ \A n \in Pieces : r.parts[n] = cmd[p].etags[n] /\ r.parts[n] = r.content
<1>1. /\ r \in Rows /\ (cmd[p].key # Absent => RowHolds(r, cmd[p].key, f, file))
      /\ ServerHolds(server, f, file) /\ cmd[p].key \in T!Keys \cup {Absent}
  BY StepContext
<1>2. done \in Rows /\ done.state = "complete" /\ done.content = r.content
      /\ done.bytes = (IF r.content \in Large THEN r.content ELSE r.bytes)
      /\ done.live = r.live /\ done.granted = r.granted
  BY <1>1 DEF Rows
<1>3. T!ServeComplete(p) = IF may THEN T!Outcome(TRUE, p, done) ELSE T!Outcome(FALSE, p, r)
  BY DEF T!ServeComplete
<1>4. cmd[p].key = Absent => r.state = "none"
  BY Blanks DEF T!Row
<1>5. CASE may
  <2>0. r.state \in {"uploaded", "requested"} /\ (r.state = "uploaded" => r.content \notin Large)
        /\ (r.state = "requested" => r.content \in Large)
    BY <1>5
  <2> HIDE DEF may, done, r
  <2>1. cmd[p].key # Absent /\ RowHolds(r, cmd[p].key, f, file)
    BY <1>1, <1>4, <2>0
  <2>2. RowHolds(done, cmd[p].key, f, file) /\ done.bytes = f[cmd[p].key[2]]
    BY <1>1, <1>2, <2>0, <2>1 DEF RowHolds
  <2>3. PICK ok \in BOOLEAN : T!ServeComplete(p) = T!Outcome(ok, p, done)
    BY <1>3, <1>5
  <2> QED BY <1>1, <1>2, <2>1, <2>2, <2>3, OutcomeHolds
<1>6. CASE ~ may
  <2> HIDE DEF may, done, r
  <2>1. PICK ok \in BOOLEAN : ok = FALSE /\ T!ServeComplete(p) = T!Outcome(ok, p, r)
    BY <1>3, <1>6
  <2> QED BY <1>1, <2>1, OutcomeHolds
<1> QED BY <1>5, <1>6

(* An abort keeps its row right, whatever it deletes.                      *)
LEMMA AbortFine ==
  ASSUME T!TransfersAssumption, Typed, NEW f \in [T!Prints -> Contents], Holds(f), NEW p \in Processes,
         cmd[p].pc = "abort"
  PROVE  Fine(T!ServeAbort(p), f)
<1> DEFINE r == T!Row(p)
           gone == [r EXCEPT !.state = "aborted", !.bytes = Absent, !.parts = T!NoEtags, !.granted = {}]
           bare == [r EXCEPT !.bytes = Absent]
<1>1. /\ r \in Rows /\ (cmd[p].key # Absent => RowHolds(r, cmd[p].key, f, file))
      /\ ServerHolds(server, f, file) /\ cmd[p] \in Commands
  BY StepContext
<1>2. cmd[p].content = f[cmd[p].key[2]] /\ cmd[p].content \notin Large
  BY StepContext DEF CommandHolds, Sending
<1>3. gone \in Rows /\ gone.state = "aborted" /\ gone.content = r.content /\ gone.granted = {}
  BY <1>1, Blanks DEF Rows
<1>4. bare \in Rows /\ bare.state = r.state /\ bare.content = r.content /\ bare.live = r.live
      /\ bare.granted = r.granted
  BY <1>1 DEF Rows
<1>5. CASE r.state \in {"requested", "uploaded"}
  <2>1. PICK ok \in BOOLEAN : T!ServeAbort(p) = T!Outcome(ok, p, gone)
    BY <1>5 DEF T!ServeAbort
  <2> HIDE DEF gone, r
  <2>2. cmd[p].key # Absent => RowHolds(gone, cmd[p].key, f, file)
    BY <1>1, <1>3, <1>5 DEF RowHolds
  <2> QED BY <1>1, <1>3, <2>1, <2>2, OutcomeHolds
<1>6. CASE r.state \notin {"requested", "uploaded"}
  <2>1. PICK ok \in BOOLEAN : ok = FALSE /\ T!ServeAbort(p) = T!Outcome(ok, p, bare)
    BY <1>6 DEF T!ServeAbort
  <2> HIDE DEF bare, r
  <2>2. cmd[p].key # Absent => RowHolds(bare, cmd[p].key, f, file)
    BY <1>1, <1>2, <1>4, <1>6 DEF RowHolds
  <2> QED BY <1>1, <1>4, <2>1, <2>2, OutcomeHolds
<1> QED BY <1>5, <1>6

(* A request about a deploy leaves every row alone and every live deploy   *)
(* live.                                                                   *)
LEMMA DeployingFine ==
  ASSUME NEW f, ServerHolds(server, f, file), NEW p, NEW ok,
         NEW status \in {"none", "uploading", "live", "failed"}, cmd[p].path \in T!Deploys,
         server.deploys[cmd[p].path] = "live" => status = "live"
  PROVE  /\ Fine(T!Deploying(ok, p, status), f) /\ T!Deploying(ok, p, status).ok = ok
         /\ T!Deploying(ok, p, status).server.rows = server.rows
         /\ T!Deploying(ok, p, status).server.deploys[cmd[p].path] = status
<1> DEFINE s == [server EXCEPT !.deploys[cmd[p].path] = status]
<1>1. server \in Servers /\ \A j \in T!Keys : RowHolds(server.rows[j], j, f, file)
  BY DEF ServerHolds
<1>2. /\ s \in Servers /\ s.rows = server.rows
      /\ \A d \in T!Deploys : s.deploys[d] = IF d = cmd[p].path THEN status ELSE server.deploys[d]
  BY <1>1 DEF Servers
<1>3. T!Deploying(ok, p, status) = [ok |-> ok, server |-> s]
  BY DEF T!Deploying
<1> HIDE DEF s
<1>4. ServerHolds(s, f, file) /\ Live(server) \subseteq Live(s)
  BY <1>1, <1>2 DEF ServerHolds, Live
<1>5. T!Deploying(ok, p, status).server = s /\ T!Deploying(ok, p, status).ok = ok
  BY <1>3
<1> QED BY <1>2, <1>4, <1>5 DEF Fine

(* The server answers every request with a state that holds, whether it    *)
(* applies or refuses it.                                                  *)
LEMMA ServeFine ==
  ASSUME T!TransfersAssumption, Typed, NEW f \in [T!Prints -> Contents], Holds(f), NEW p \in Processes,
         cmd[p].pc \in T!Requests
  PROVE  /\ Fine(T!Serve(p), f)
         /\ cmd[p].pc = "complete" /\ T!Serve(p).ok =>
              /\ T!Serve(p).server.rows[cmd[p].key].state = "complete"
              /\ T!Serve(p).server.rows[cmd[p].key].bytes = cmd[p].content
         /\ cmd[p].pc = "finalise" /\ T!Serve(p).ok =>
              /\ T!Serve(p).server.rows = server.rows
              /\ T!Serve(p).server.deploys[cmd[p].path] = "live"
         /\ cmd[p].pc = "ask" /\ T!Serve(p).ok => cmd[p].key \in T!Keys
<1> DEFINE c == cmd[p]
<1>1. /\ c \in Commands /\ CommandHolds(c, f, server, file) /\ ServerHolds(server, f, file)
      /\ server \in Servers /\ T!Row(p) \in Rows /\ c.key \in T!Keys \cup {Absent}
      /\ (c.key # Absent => RowHolds(T!Row(p), c.key, f, file))
  BY StepContext
<1>2. /\ c.pc \in {"start", "finalise", "fail"} => c.path \in T!Deploys
      /\ c.pc = "start" => server.deploys[c.path] = "none"
  BY <1>1 DEF CommandHolds
<1>3. c.path \in T!Deploys => server.deploys[c.path] \in {"none", "uploading", "live", "failed"}
  BY <1>1 DEF Servers
<1>4. CASE c.pc = "start"
  <2>1. PICK ok \in BOOLEAN : T!Serve(p) = T!Deploying(ok, p, "uploading")
    BY <1>4 DEF T!Serve, T!At, T!ServeStart
  <2> QED BY <1>1, <1>2, <1>4, <2>1, DeployingFine
<1>5. CASE c.pc = "finalise"
  <2>1. PICK ok \in BOOLEAN :
          /\ T!Serve(p) = T!Deploying(ok, p, IF ok THEN "live" ELSE server.deploys[c.path])
    BY <1>5 DEF T!Serve, T!At, T!ServeFinalise
  <2>2. CASE ok
    <3>1. T!Serve(p) = T!Deploying(ok, p, "live")
      BY <2>1, <2>2
    <3> QED BY <1>1, <1>2, <1>5, <3>1, DeployingFine
  <2>3. CASE ~ ok
    <3>1. T!Serve(p) = T!Deploying(ok, p, server.deploys[c.path])
      BY <2>1, <2>3
    <3>2. Fine(T!Serve(p), f) /\ T!Serve(p).ok = ok
      BY <1>1, <1>2, <1>3, <1>5, <3>1, DeployingFine
    <3> QED BY <1>5, <2>3, <3>2
  <2> QED BY <2>2, <2>3
<1>6. CASE c.pc = "fail"
  <2>1. PICK ok \in BOOLEAN :
          /\ T!Serve(p) = T!Deploying(ok, p, IF ok THEN "failed" ELSE server.deploys[c.path])
          /\ ok <=> server.deploys[c.path] = "uploading"
    BY <1>6 DEF T!Serve, T!At, T!ServeFailDeploy
  <2>2. CASE ok
    <3>1. T!Serve(p) = T!Deploying(ok, p, "failed") /\ server.deploys[c.path] # "live"
      BY <2>1, <2>2
    <3> QED BY <1>1, <1>2, <1>6, <3>1, DeployingFine
  <2>3. CASE ~ ok
    <3>1. T!Serve(p) = T!Deploying(ok, p, server.deploys[c.path])
      BY <2>1, <2>3
    <3> QED BY <1>1, <1>2, <1>3, <1>6, <3>1, DeployingFine
  <2> QED BY <2>2, <2>3
<1>7. CASE c.pc = "ask"
  <2>1. PICK ok \in BOOLEAN : T!Serve(p) = T!Outcome(ok, p, T!Row(p)) /\ (ok => T!Row(p).state = "complete")
    BY <1>7 DEF T!Serve, T!At, T!ServeDownload
  <2>2. ok => c.key \in T!Keys
    BY <1>1, <2>1, Blanks DEF T!Row
  <2>3. Fine(T!Serve(p), f) /\ T!Serve(p).ok = ok
    BY <1>1, <2>1, OutcomeHolds
  <2> QED BY <1>7, <2>2, <2>3
<1>8. CASE c.pc = "reserve"
  BY <1>8, ReserveFine DEF T!Serve, T!At
<1>9. CASE c.pc = "put"
  BY <1>9, PutFine DEF T!Serve, T!At
<1>10. CASE c.pc = "grants"
  BY <1>10, GrantsFine DEF T!Serve, T!At
<1>11. CASE c.pc = "abort"
  BY <1>11, AbortFine DEF T!Serve, T!At
<1>12. CASE c.pc = "complete"
  <2>1. c.key \in T!Keys /\ c.content = f[c.key[2]]
    BY <1>1, <1>12 DEF CommandHolds, Sending
  <2>2. T!Serve(p) = T!ServeComplete(p)
    BY <1>12 DEF T!Serve, T!At
  <2> QED BY <1>12, <2>1, <2>2, CompleteFine
<1> QED BY <1>4, <1>5, <1>6, <1>7, <1>8, <1>9, <1>10, <1>11, <1>12 DEF T!Requests

(* Nor does a request spoil the server whose answer nobody sees, applied   *)
(* or not.                                                                 *)
LEMMA UnderWayFine ==
  ASSUME T!TransfersAssumption, Typed, NEW f \in [T!Prints -> Contents], Holds(f), NEW p \in Processes,
         NEW s \in T!UnderWay(p)
  PROVE  ServerHolds(s, f, file) /\ Live(server) \subseteq Live(s)
<1>1. CASE cmd[p].pc = "parts"
  <2>1. PICK ns \in SUBSET cmd[p].todo : s = T!Outcome(FALSE, p, T!Stored(p, ns)).server
    BY <1>1 DEF T!UnderWay, T!At
  <2>2. PICK ok \in BOOLEAN : s = T!Outcome(ok, p, T!Stored(p, ns)).server
    BY <2>1
  <2> QED BY <2>2, StoredFine DEF Fine
<1>2. CASE cmd[p].pc # "parts"
  <2>1. s = server \/ (cmd[p].pc \in T!Requests /\ s = T!Serve(p).server)
    BY <1>2 DEF T!UnderWay, T!At
  <2> QED BY <2>1, StepContext, ServeFine DEF Fine
<1> QED BY <1>1, <1>2

-----------------------------------------------------------------------------
(* Commands.                                                               *)

(* One command goes on, and with it at most its own resume file and what   *)
(* its requests did to the server.                                         *)
LEMMA CommandMoves ==
  ASSUME T!TransfersAssumption, Typed, Alone, NEW f \in [T!Prints -> Contents], Holds(f),
         NEW p \in Processes, NEW c \in Commands, NEW s,
         cmd' = [cmd EXCEPT ![p] = c], server' = s, file' = file, mishaps' \in 0..MaxMishaps,
         ServerHolds(s, f, file), CommandHolds(c, f, s, file), Alone',
         s = server \/ cmd[p].pc # "idle",
         \/ resume' = resume
         \/ \E r \in Saves \cup {Absent} :
              resume' = [resume EXCEPT ![cmd[p].path] = r] /\ ResumeHolds(r, cmd[p].path, file)
  PROVE  Typed' /\ Holds(f)'
<1>1. /\ cmd \in [Processes -> Commands] /\ cmd' \in [Processes -> Commands]
      /\ cmd'[p] = c /\ \A q \in Processes \ {p} : cmd'[q] = cmd[q]
  BY DEF Typed
<1>2. resume' \in [T!Paths -> Saves \cup {Absent}] /\ \A x \in T!Paths : ResumeHolds(resume'[x], x, file)
  <2>1. resume \in [T!Paths -> Saves \cup {Absent}] /\ \A x \in T!Paths : ResumeHolds(resume[x], x, file)
    BY DEF Typed, Holds
  <2>2. CASE resume' = resume
    BY <2>1, <2>2
  <2>3. CASE \E r \in Saves \cup {Absent} :
               resume' = [resume EXCEPT ![cmd[p].path] = r] /\ ResumeHolds(r, cmd[p].path, file)
    <3>1. PICK r \in Saves \cup {Absent} :
               resume' = [resume EXCEPT ![cmd[p].path] = r] /\ ResumeHolds(r, cmd[p].path, file)
      BY <2>3
    <3>2. resume' \in [T!Paths -> Saves \cup {Absent}]
      BY <2>1, <3>1
    <3>3. ASSUME NEW x \in T!Paths PROVE ResumeHolds(resume'[x], x, file)
      <4>1. resume'[x] = IF x = cmd[p].path THEN r ELSE resume[x]
        BY <2>1, <3>1
      <4> QED BY <2>1, <3>1, <4>1
    <3> QED BY <3>2, <3>3
  <2> QED BY <2>2, <2>3
<1>3. ASSUME NEW q \in Processes PROVE CommandHolds(cmd'[q], f, s, file)
  <2>1. CASE q = p
    BY <1>1, <2>1
  <2>2. CASE q # p
    <3>1. CommandHolds(cmd[q], f, server, file) /\ cmd'[q] = cmd[q]
      BY <1>1, <2>2 DEF Holds
    <3>2. s = server \/ cmd[q].pc = "idle" \/ cmd[q].kind = "upload"
      BY <2>2 DEF Alone, T!At
    <3> QED BY <3>1, <3>2 DEF CommandHolds
  <2> QED BY <2>1, <2>2
<1>4. f[file.print] = file.content /\ file \in Files
  BY DEF Holds, Typed
<1>5. Typed'
  BY <1>1, <1>2, <1>4 DEF Typed
<1>6. \A q \in Processes : CommandHolds(cmd[q], f, server, file)'
  BY <1>3
<1>7. ServerHolds(server, f, file)' /\ \A x \in T!Paths : ResumeHolds(resume[x], x, file)'
  BY <1>2
<1> QED BY <1>4, <1>5, <1>6, <1>7 DEF Holds

(* A command that goes on keeps its kind, so that only uploads run side    *)
(* by side.                                                                *)
LEMMA AloneKept ==
  ASSUME Typed, Alone, NEW p \in Processes, NEW c, cmd' = [cmd EXCEPT ![p] = c],
         c.pc = "idle" \/ (c.kind = cmd[p].kind /\ cmd[p].pc # "idle")
  PROVE  Alone'
<1>1. cmd'[p] = c /\ \A q \in Processes \ {p} : cmd'[q] = cmd[q]
  BY DEF Typed
<1> SUFFICES ASSUME NEW a \in Processes, NEW b \in Processes, a # b,
                    cmd'[a].pc # "idle", cmd'[b].pc # "idle"
             PROVE  cmd'[a].kind = "upload" /\ cmd'[b].kind = "upload"
  BY DEF Alone, T!At
<1>2. cmd[a].pc # "idle" /\ cmd[b].pc # "idle" /\ cmd'[a].kind = cmd[a].kind /\ cmd'[b].kind = cmd[b].kind
  BY <1>1
<1> QED BY <1>2 DEF Alone, T!At

(* A report repeats what the command was about.                            *)
LEMMA ReportedCommand ==
  ASSUME T!TransfersAssumption, NEW c \in Commands
  PROVE  /\ T!Reported(c) \in Commands /\ T!Reported(c).pc = "report" /\ T!Reported(c).kind = c.kind
         /\ T!Reported(c).path = c.path /\ T!Reported(c).content = c.content /\ T!Reported(c).body = c.body
         /\ T!Reported(c).key = c.key
BY Blanks DEF T!Reported, Commands

(* A command that met an error aborts, fails its deploy or ends; it        *)
(* reports nothing.                                                        *)
LEMMA ErrorCommand ==
  ASSUME T!TransfersAssumption, NEW f, NEW s, NEW c \in Commands, CommandHolds(c, f, server, file),
         c.pc # "idle"
  PROVE  /\ T!AfterError(c) \in Commands
         /\ CommandHolds(T!AfterError(c), f, s, file)
         /\ T!AfterError(c).pc = "idle" \/ T!AfterError(c).kind = c.kind
         /\ T!AfterError(c).pc # "report"
<1> DEFINE a == [c EXCEPT !.pc = "abort"]
           b == [c EXCEPT !.pc = "fail"]
<1>1. /\ a \in Commands /\ a.pc = "abort" /\ a.kind = c.kind /\ a.path = c.path /\ a.print = c.print
      /\ a.key = c.key /\ a.content = c.content /\ a.etags = c.etags
  BY DEF Commands, T!Requests
<1>2. b \in Commands /\ b.pc = "fail" /\ b.kind = c.kind /\ b.path = c.path
  BY DEF Commands, T!Requests
<1>3. c.pc = "put" => T!AfterError(c) = a
  BY DEF T!AfterError
<1>4. CASE c.pc = "put"
  <2> HIDE DEF a, b
  <2>1. CommandHolds(a, f, s, file)
    BY <1>1, <1>4 DEF CommandHolds, Sending
  <2> QED BY <1>1, <1>3, <1>4, <2>1
<1>5. CASE c.pc # "put" /\ c.kind = "deploy" /\ c.pc \notin {"idle", "start", "fail"}
  <2>0. T!AfterError(c) = b
    BY <1>5 DEF T!AfterError
  <2> HIDE DEF a, b
  <2>1. CommandHolds(b, f, s, file)
    BY <1>2, <1>5 DEF CommandHolds, Sending
  <2> QED BY <1>2, <1>5, <2>0, <2>1
<1>6. CASE c.pc \in {"start", "fail"} \/ (c.pc # "put" /\ c.kind # "deploy")
  <2>1. T!AfterError(c) = T!Idle
    BY <1>6 DEF T!AfterError
  <2>2. CommandHolds(T!Idle, f, s, file)
    BY Blanks DEF CommandHolds, Sending
  <2> QED BY <2>1, <2>2, Blanks
<1> QED BY <1>4, <1>5, <1>6

(* A command that reports success of an upload or a deploy tells the       *)
(* truth, and a live deploy stays live.                                    *)
Tells(p) ==
  ~ T!At(p, "report") /\ cmd'[p].pc = "report" /\ cmd[p].kind # "download" =>
    /\ server'.rows[cmd[p].key].state = "complete"
    /\ server'.rows[cmd[p].key].bytes = cmd[p].content
    /\ cmd[p].kind = "deploy" => server'.deploys[cmd[p].path] = "live"

StepTells == (\A p \in Processes : Tells(p)) /\ Live(server) \subseteq Live(server')

(* The step of one command, and what is to show of it.                     *)
Keeps(f) == Typed' /\ Alone' /\ Holds(f)' /\ StepTells

(* A step of one process that keeps its own command right keeps the        *)
(* others right: none of them waits for a deploy that this one touches.    *)
LEMMA CommandKeeps ==
  ASSUME T!TransfersAssumption, Typed, Alone, NEW f \in [T!Prints -> Contents], Holds(f),
         NEW p \in Processes, NEW c \in Commands, NEW s,
         cmd' = [cmd EXCEPT ![p] = c], server' = s, file' = file, mishaps' \in 0..MaxMishaps,
         ServerHolds(s, f, file), Live(server) \subseteq Live(s),
         CommandHolds(c, f, s, file), Alone',
         s = server \/ cmd[p].pc # "idle",
         c.pc = "report" /\ cmd[p].pc # "report" /\ cmd[p].kind # "download" =>
           /\ s.rows[cmd[p].key].state = "complete" /\ s.rows[cmd[p].key].bytes = cmd[p].content
           /\ cmd[p].kind = "deploy" => s.deploys[cmd[p].path] = "live",
         \/ resume' = resume
         \/ \E r \in Saves \cup {Absent} :
              resume' = [resume EXCEPT ![cmd[p].path] = r] /\ ResumeHolds(r, cmd[p].path, file)
  PROVE  Keeps(f)
<1>1. Typed' /\ Holds(f)'
  BY CommandMoves
<1>2. cmd'[p] = c /\ \A q \in Processes \ {p} : cmd'[q] = cmd[q]
  BY DEF Typed
<1>3. ASSUME NEW q \in Processes PROVE Tells(q)
  BY <1>2 DEF Tells, T!At
<1> QED BY <1>1, <1>3 DEF Keeps, StepTells

(* A command that only goes on, ends or fails, whatever its requests did.  *)
LEMMA QuietKeeps ==
  ASSUME T!TransfersAssumption, Typed, Alone, NEW f \in [T!Prints -> Contents], Holds(f),
         NEW p \in Processes, NEW c \in Commands, NEW s, cmd[p].pc # "idle",
         cmd' = [cmd EXCEPT ![p] = c], server' = s, file' = file, mishaps' \in 0..MaxMishaps,
         ServerHolds(s, f, file), Live(server) \subseteq Live(s),
         CommandHolds(c, f, s, file), c.pc = "idle" \/ c.kind = cmd[p].kind,
         c.pc # "report", resume' = resume
  PROVE  Keeps(f)
<1>1. Alone'
  BY AloneKept
<1> QED BY <1>1, CommandKeeps

(* The bound on mishaps is kept.                                            *)
LEMMA FaultType == ASSUME T!TransfersAssumption, Typed, T!Fault PROVE mishaps' \in 0..MaxMishaps
BY DEF T!TransfersAssumption, Typed, T!Fault

(* A process at rest promises nothing.                                     *)
LEMMA IdleHolds == ASSUME NEW f, NEW s, NEW v PROVE CommandHolds(T!Idle, f, s, v)
BY DEF CommandHolds, Sending, T!Idle

(* What a command does with the answer to its request.                     *)
LEMMA AnswerCommand ==
  ASSUME T!TransfersAssumption, Typed, NEW f \in [T!Prints -> Contents], Holds(f), NEW p \in Processes,
         cmd[p].pc \in T!Requests, T!Serve(p).ok
  PROVE  LET c == cmd[p]
             a == T!AfterAnswer(c)
             s == T!Serve(p).server IN
         /\ a \in Commands /\ CommandHolds(a, f, s, file)
         /\ a.pc = "idle" \/ a.kind = c.kind
         /\ a.pc = "report" /\ c.kind # "download" =>
              /\ s.rows[c.key].state = "complete" /\ s.rows[c.key].bytes = c.content
              /\ c.kind = "deploy" => s.deploys[c.path] = "live"
<1> DEFINE c == cmd[p]
           s == T!Serve(p).server
<1>1. /\ c \in Commands /\ CommandHolds(c, f, server, file) /\ server \in Servers
  BY StepContext
<1>2. Fine(T!Serve(p), f)
  BY ServeFine
<1> HIDE DEF c, s
<1>3. CASE c.pc = "start"
  <2> DEFINE a == [c EXCEPT !.pc = "resume"]
  <2>1. T!AfterAnswer(c) = a
    BY <1>3 DEF T!AfterAnswer
  <2>2. a \in Commands /\ a.pc = "resume" /\ a.kind = c.kind /\ a.path = c.path /\ a.etags = c.etags
    BY <1>1 DEF Commands
  <2> HIDE DEF a
  <2>3. CommandHolds(a, f, s, file)
    BY <1>1, <1>3, <2>2 DEF CommandHolds, Sending, c
  <2> QED BY <2>1, <2>2, <2>3 DEF c, s
<1>4. CASE c.pc = "reserve"
  <2>1. PICK pc \in {"grants", "put"} :
          T!AfterAnswer(c) = [c EXCEPT !.commit = 0, !.pc = pc] /\ (pc = "put" => c.content \notin Large)
    BY <1>4 DEF T!AfterAnswer
  <2> DEFINE a == [c EXCEPT !.commit = 0, !.pc = pc]
  <2>2. a \in Commands
    BY <1>1 DEF Commands, T!Requests
  <2>3. /\ a.pc = pc /\ a.kind = c.kind /\ a.path = c.path /\ a.key = c.key /\ a.print = c.print
        /\ a.content = c.content /\ a.etags = c.etags
    BY <1>1 DEF Commands
  <2>4. T!AfterAnswer(c) = a
    BY <2>1
  <2> HIDE DEF a
  <2>5. CommandHolds(a, f, s, file)
    BY <1>1, <1>4, <2>1, <2>3 DEF CommandHolds, Sending, c
  <2> QED BY <2>1, <2>2, <2>3, <2>4, <2>5 DEF c, s
<1>5. CASE c.pc = "put"
  <2> DEFINE a == [c EXCEPT !.pc = "complete"]
  <2>1. T!AfterAnswer(c) = a
    BY <1>5 DEF T!AfterAnswer
  <2>2. /\ a \in Commands /\ a.pc = "complete"
        /\ a.kind = c.kind /\ a.path = c.path /\ a.key = c.key /\ a.print = c.print
        /\ a.content = c.content /\ a.etags = c.etags
    BY <1>1 DEF Commands, T!Requests
  <2> HIDE DEF a
  <2>3. CommandHolds(a, f, s, file)
    BY <1>1, <1>5, <2>2 DEF CommandHolds, Sending, c
  <2> QED BY <2>1, <2>2, <2>3 DEF c, s
<1>6. CASE c.pc = "grants"
  <2> DEFINE a == [c EXCEPT !.pc = "parts", !.todo = T!Batch(c)]
  <2>1. T!AfterAnswer(c) = a
    BY <1>6 DEF T!AfterAnswer
  <2>2. /\ a \in Commands /\ a.pc = "parts"
        /\ a.kind = c.kind /\ a.path = c.path /\ a.key = c.key /\ a.print = c.print
        /\ a.content = c.content /\ a.etags = c.etags
    BY <1>1, BatchIsPending DEF Commands, T!Requests
  <2> HIDE DEF a
  <2>3. CommandHolds(a, f, s, file)
    BY <1>1, <1>6, <2>2 DEF CommandHolds, Sending, c
  <2> QED BY <2>1, <2>2, <2>3 DEF c, s
<1>7. CASE c.pc = "complete"
  <2> DEFINE a == [c EXCEPT !.pc = "finalise"]
  <2>1. T!AfterAnswer(c) = IF c.kind = "deploy" THEN a ELSE T!Reported(c)
    BY <1>7 DEF T!AfterAnswer, T!AfterUpload
  <2>2. /\ a \in Commands /\ a.pc = "finalise"
        /\ a.kind = c.kind /\ a.path = c.path /\ a.key = c.key /\ a.print = c.print
        /\ a.content = c.content /\ a.etags = c.etags
    BY <1>1 DEF Commands, T!Requests
  <2>3. s.rows[c.key].state = "complete" /\ s.rows[c.key].bytes = c.content
    BY <1>7, ServeFine DEF c, s
  <2>4. c.kind \in {"upload", "deploy"}
    BY <1>1, <1>7 DEF CommandHolds, Sending, c
  <2> HIDE DEF a
  <2>5. CASE c.kind = "deploy"
    <3>1. CommandHolds(a, f, s, file)
      BY <1>1, <1>7, <2>2, <2>3, <2>5 DEF CommandHolds, Sending, c
    <3> QED BY <2>1, <2>2, <2>3, <2>5, <3>1 DEF c, s
  <2>6. CASE c.kind = "upload"
    <3>1. CommandHolds(T!Reported(c), f, s, file)
      BY <1>1, <2>6, ReportedCommand DEF CommandHolds, Sending
    <3> QED BY <1>1, <2>1, <2>3, <2>6, <3>1, ReportedCommand DEF c, s
  <2> QED BY <2>4, <2>5, <2>6
<1>8. CASE c.pc = "finalise"
  <2>1. T!AfterAnswer(c) = T!Reported(c)
    BY <1>8 DEF T!AfterAnswer
  <2>2. s.rows[c.key].state = "complete" /\ s.rows[c.key].bytes = c.content /\ s.deploys[c.path] = "live"
    BY <1>1, <1>8, ServeFine DEF CommandHolds, c, s
  <2>3. c.kind = "deploy" /\ c.path \in T!Deploys
    BY <1>1, <1>8 DEF CommandHolds, c
  <2>4. CommandHolds(T!Reported(c), f, s, file)
    BY <1>1, <2>3, ReportedCommand DEF CommandHolds, Sending
  <2> QED BY <1>1, <2>1, <2>2, <2>4, ReportedCommand DEF c, s
<1>9. CASE c.pc = "abort"
  <2>1. T!AfterAnswer(c) = T!AfterError(c)
    BY <1>9 DEF T!AfterAnswer
  <2>2. /\ T!AfterError(c) \in Commands /\ CommandHolds(T!AfterError(c), f, s, file)
        /\ T!AfterError(c).pc = "idle" \/ T!AfterError(c).kind = c.kind
        /\ T!AfterError(c).pc # "report"
    BY <1>1, <1>9, ErrorCommand
  <2> DEFINE e == T!AfterError(c)
  <2> HIDE DEF e
  <2> QED BY <2>1, <2>2 DEF c, s, e
<1>10. CASE c.pc = "fail"
  <2>1. T!AfterAnswer(c) = T!Idle
    BY <1>10 DEF T!AfterAnswer
  <2> QED BY <2>1, IdleHolds, Blanks DEF c, s
<1>11. CASE c.pc = "ask"
  <2> DEFINE x == server.rows[c.key].content
             a == [c EXCEPT !.pc = "fetch", !.content = x]
  <2>1. T!AfterAnswer(c) = a
    BY <1>11 DEF T!AfterAnswer
  <2>2. x \in Contents \cup {Absent}
    BY <1>1, <1>11, ServeFine DEF Servers, Rows, c
  <2> HIDE DEF x
  <2>3. a \in Commands /\ a.pc = "fetch" /\ a.kind = c.kind /\ a.path = c.path
    BY <1>1, <2>2 DEF Commands
  <2> HIDE DEF a
  <2>4. CommandHolds(a, f, s, file)
    BY <1>1, <1>11, <2>3 DEF CommandHolds, Sending, c
  <2> QED BY <2>1, <2>3, <2>4 DEF c, s
<1> QED BY <1>3, <1>4, <1>5, <1>6, <1>7, <1>8, <1>9, <1>10, <1>11 DEF T!Requests, c

-----------------------------------------------------------------------------
(* One step each.                                                          *)

(* A request that was applied and answered.                                *)
LEMMA AnsweredKeeps ==
  ASSUME T!TransfersAssumption, Typed, Alone, NEW f \in [T!Prints -> Contents], Holds(f),
         NEW p \in Processes, T!Answered(p)
  PROVE  Keeps(f)
<1> DEFINE c == cmd[p]
           s == T!Serve(p).server
<1>1. /\ c.pc \in T!Requests /\ c.pc # "idle" /\ server' = s /\ file' = file /\ mishaps' = mishaps
      /\ mishaps \in 0..MaxMishaps
  BY DEF T!Answered, T!Requests, Typed
<1>2. c \in Commands /\ CommandHolds(c, f, server, file) /\ ServerHolds(server, f, file) /\ server \in Servers
  BY StepContext
<1>3. ServerHolds(s, f, file) /\ Live(server) \subseteq Live(s)
  BY <1>1, ServeFine DEF Fine
<1>4. CASE T!Serve(p).ok
  <2> DEFINE a == T!AfterAnswer(c)
  <2>1. cmd' = [cmd EXCEPT ![p] = a] /\ resume' = T!ResumeAfter(c)
    BY <1>4 DEF T!Answered, T!Become
  <2>2. /\ a \in Commands /\ CommandHolds(a, f, s, file)
        /\ a.pc = "idle" \/ a.kind = c.kind
        /\ a.pc = "report" /\ c.kind # "download" =>
              /\ s.rows[c.key].state = "complete" /\ s.rows[c.key].bytes = c.content
              /\ c.kind = "deploy" => s.deploys[c.path] = "live"
    BY <1>1, <1>4, AnswerCommand
  <2>3. Alone'
    BY <1>1, <2>1, <2>2, AloneKept
  <2>4. \/ resume' = resume
        \/ \E r \in Saves \cup {Absent} :
             resume' = [resume EXCEPT ![c.path] = r] /\ ResumeHolds(r, c.path, file)
    <3>1. CASE c.pc = "reserve" /\ c.content \in Large
      <4>1. resume' = [resume EXCEPT ![c.path] = T!Saved(c)]
        BY <2>1, <3>1 DEF T!ResumeAfter
      <4>2. T!Saved(c) \in Saves /\ ResumeHolds(T!Saved(c), c.path, file)
        BY <1>2, <3>1 DEF T!Saved, Saves, Commands, ResumeHolds, CommandHolds, Sending
      <4> QED BY <4>1, <4>2
    <3>2. CASE c.pc = "complete" /\ c.content \in Large
      <4>1. resume' = [resume EXCEPT ![c.path] = Absent]
        BY <2>1, <3>2 DEF T!ResumeAfter
      <4> QED BY <4>1 DEF ResumeHolds
    <3>3. CASE ~ (c.pc \in {"reserve", "complete"} /\ c.content \in Large)
      BY <2>1, <3>3 DEF T!ResumeAfter
    <3> QED BY <3>1, <3>2, <3>3
  <2> HIDE DEF a, s
  <2> QED BY <1>1, <1>3, <2>1, <2>2, <2>3, <2>4, CommandKeeps
<1>5. CASE ~ T!Serve(p).ok
  <2>1. cmd' = [cmd EXCEPT ![p] = T!AfterError(c)] /\ resume' = resume
    BY <1>5 DEF T!Answered, T!Become
  <2>2. /\ T!AfterError(c) \in Commands /\ CommandHolds(T!AfterError(c), f, s, file)
        /\ T!AfterError(c).pc = "idle" \/ T!AfterError(c).kind = c.kind
        /\ T!AfterError(c).pc # "report"
    BY <1>1, <1>2, ErrorCommand
  <2> HIDE DEF s
  <2> QED BY <1>1, <1>3, <2>1, <2>2, QuietKeeps
<1> QED BY <1>4, <1>5

(* A request whose answer was lost: applied or not, the command fails.     *)
LEMMA LostKeeps ==
  ASSUME T!TransfersAssumption, Typed, Alone, NEW f \in [T!Prints -> Contents], Holds(f),
         NEW p \in Processes, T!Lost(p)
  PROVE  Keeps(f)
<1>1. /\ cmd[p].pc # "idle" /\ server' \in T!UnderWay(p) /\ file' = file /\ resume' = resume
      /\ cmd' = [cmd EXCEPT ![p] = T!AfterError(cmd[p])] /\ T!Fault
  BY DEF T!Lost, T!Requests, T!Become
<1>2. cmd[p] \in Commands /\ CommandHolds(cmd[p], f, server, file)
  BY StepContext
<1>3. PICK s \in T!UnderWay(p) : server' = s
  BY <1>1
<1>4. ServerHolds(s, f, file) /\ Live(server) \subseteq Live(s)
  BY UnderWayFine
<1>5. /\ T!AfterError(cmd[p]) \in Commands /\ CommandHolds(T!AfterError(cmd[p]), f, s, file)
      /\ T!AfterError(cmd[p]).pc = "idle" \/ T!AfterError(cmd[p]).kind = cmd[p].kind
      /\ T!AfterError(cmd[p]).pc # "report"
  BY <1>1, <1>2, ErrorCommand
<1> QED BY <1>1, <1>3, <1>4, <1>5, FaultType, QuietKeeps

(* A deploy that is interrupted goes on to fail_deploy.                    *)
LEMMA FailCommand ==
  ASSUME T!TransfersAssumption, NEW f, NEW s, NEW c \in Commands, CommandHolds(c, f, server, file),
         c.kind = "deploy", c.pc # "idle"
  PROVE  LET a == [c EXCEPT !.pc = "fail"] IN
         a \in Commands /\ CommandHolds(a, f, s, file) /\ a.kind = c.kind /\ a.pc = "fail"
<1> DEFINE a == [c EXCEPT !.pc = "fail"]
<1>1. a \in Commands /\ a.pc = "fail" /\ a.kind = c.kind /\ a.path = c.path
  BY DEF Commands, T!Requests
<1> HIDE DEF a
<1>2. CommandHolds(a, f, s, file)
  BY <1>1 DEF CommandHolds, Sending
<1> QED BY <1>1, <1>2 DEF a

(* An interrupt of a deploy, or a start whose answer is not consistent.    *)
LEMMA InterruptKeeps ==
  ASSUME T!TransfersAssumption, Typed, Alone, NEW f \in [T!Prints -> Contents], Holds(f),
         NEW p \in Processes, T!Interrupt(p) \/ T!Inconsistent(p)
  PROVE  Keeps(f)
<1> DEFINE a == [cmd[p] EXCEPT !.pc = "fail"]
<1>1. /\ cmd[p].pc # "idle" /\ file' = file /\ resume' = resume
      /\ cmd' = [cmd EXCEPT ![p] = a] /\ T!Fault
  BY DEF T!Interrupt, T!Inconsistent, T!GoTo, T!Become, T!At
<1>2. cmd[p] \in Commands /\ CommandHolds(cmd[p], f, server, file)
  BY StepContext
<1>3. cmd[p].kind = "deploy"
  BY <1>2 DEF CommandHolds, T!Interrupt, T!Inconsistent, T!At
<1>4. PICK s : server' = s /\ ServerHolds(s, f, file) /\ Live(server) \subseteq Live(s)
  <2>1. CASE T!Interrupt(p)
    BY <2>1, UnderWayFine DEF T!Interrupt
  <2>2. CASE T!Inconsistent(p)
    BY <2>2, ServeFine DEF T!Inconsistent, T!At, T!Requests, Fine
  <2> QED BY <2>1, <2>2
<1>5. a \in Commands /\ CommandHolds(a, f, s, file) /\ a.kind = cmd[p].kind /\ a.pc = "fail"
  BY <1>1, <1>2, <1>3, FailCommand
<1> HIDE DEF a
<1> QED BY <1>1, <1>4, <1>5, FaultType, QuietKeeps

(* A killed process leaves its resume file and, served or not, its         *)
(* request behind.                                                         *)
LEMMA KillKeeps ==
  ASSUME T!TransfersAssumption, Typed, Alone, NEW f \in [T!Prints -> Contents], Holds(f),
         NEW p \in Processes, T!Kill(p)
  PROVE  Keeps(f)
<1>1. /\ cmd[p].pc # "idle" /\ file' = file /\ resume' = resume
      /\ cmd' = [cmd EXCEPT ![p] = T!Idle] /\ T!Fault
  BY DEF T!Kill, T!Become, T!At
<1>2. PICK s \in T!UnderWay(p) : server' = s
  BY DEF T!Kill
<1> QED BY <1>1, <1>2, UnderWayFine, FaultType, IdleHolds, Blanks, QuietKeeps

(* Steps that only move one command.                                       *)
LEMMA LocalKeeps ==
  ASSUME T!TransfersAssumption, Typed, Alone, NEW f \in [T!Prints -> Contents], Holds(f),
         NEW p \in Processes,
         \/ \E body \in {T!Row(p).bytes, "short"} : T!Fetch(p, body)
         \/ T!FetchNothing(p) \/ T!Place(p) \/ T!Report(p)
  PROVE  Keeps(f)
<1> DEFINE c == cmd[p]
<1>1. /\ c \in Commands /\ CommandHolds(c, f, server, file) /\ ServerHolds(server, f, file)
      /\ T!Row(p) \in Rows /\ mishaps \in 0..MaxMishaps
  BY StepContext DEF Typed
<1>2. /\ c.pc \in {"fetch", "place", "report"} /\ server' = server /\ file' = file
      /\ mishaps' = mishaps /\ resume' = resume
  BY DEF T!Fetch, T!FetchNothing, T!Place, T!Report, T!At
<1>3. CASE cmd' = [cmd EXCEPT ![p] = T!Idle]
  BY <1>1, <1>2, <1>3, IdleHolds, Blanks, QuietKeeps
<1>4. CASE \E body \in {T!Row(p).bytes, "short"} :
             c.pc = "fetch" /\ body = c.content /\ cmd' = [cmd EXCEPT ![p] = [c EXCEPT !.pc = "place", !.body = body]]
  <2>1. PICK body \in {T!Row(p).bytes, "short"} :
             c.pc = "fetch" /\ body = c.content /\ cmd' = [cmd EXCEPT ![p] = [c EXCEPT !.pc = "place", !.body = body]]
    BY <1>4
  <2> DEFINE a == [c EXCEPT !.pc = "place", !.body = body]
  <2>2. body \in Contents \cup {Absent, "short"}
    BY <1>1 DEF Rows
  <2>3. a \in Commands /\ a.pc = "place" /\ a.body = body /\ a.content = c.content /\ a.kind = c.kind
        /\ a.path = c.path
    BY <1>1, <2>2 DEF Commands
  <2>4. cmd' = [cmd EXCEPT ![p] = a]
    BY <2>1
  <2> HIDE DEF a
  <2>5. CommandHolds(a, f, server, file)
    BY <1>1, <2>1, <2>3 DEF CommandHolds, Sending
  <2> QED BY <1>1, <1>2, <2>3, <2>4, <2>5, QuietKeeps
<1>5. CASE c.pc = "place" /\ cmd' = [cmd EXCEPT ![p] = T!Reported(c)]
  <2>1. c.kind = "download" /\ c.body = c.content
    BY <1>1, <1>5 DEF CommandHolds
  <2>2. /\ T!Reported(c) \in Commands /\ T!Reported(c).kind = c.kind /\ T!Reported(c).pc = "report"
        /\ CommandHolds(T!Reported(c), f, server, file)
    BY <1>1, <2>1, ReportedCommand DEF CommandHolds, Sending
  <2>3. Alone'
    BY <1>2, <1>5, <2>2, AloneKept
  <2> QED BY <1>1, <1>2, <1>5, <2>1, <2>2, <2>3, CommandKeeps
<1> QED BY <1>3, <1>4, <1>5 DEF T!Fetch, T!FetchNothing, T!Place, T!Report, T!At, T!Become

(* usable_resume trusts a file only for the fingerprint it was written     *)
(* for; an older one goes away with its reservation.                       *)
LEMMA UsableResumeKeeps ==
  ASSUME T!TransfersAssumption, Typed, Alone, NEW f \in [T!Prints -> Contents], Holds(f),
         NEW p \in Processes, T!UsableResume(p)
  PROVE  Keeps(f)
<1> DEFINE c == T!Inspected(p)
           r == resume[c.path]
           kept == [n \in Pieces |-> IF server.rows[r.key].parts[n] # Absent THEN r.etags[n] ELSE Absent]
           d == [c EXCEPT !.key = r.key, !.etags = kept]
           e == [d EXCEPT !.pc = IF T!Pending(d) = {} THEN "complete" ELSE "grants"]
           g == [c EXCEPT !.pc = "reserve"]
           saved == [r EXCEPT !.etags = kept]
<1>1. /\ cmd[p].pc = "resume" /\ file' = file /\ server' = server /\ mishaps' = mishaps
      /\ mishaps \in 0..MaxMishaps /\ file \in Files /\ Typed
  BY DEF T!UsableResume, T!At, Typed
<1>2. /\ cmd[p] \in Commands /\ CommandHolds(cmd[p], f, server, file)
      /\ ServerHolds(server, f, file) /\ f[file.print] = file.content
  BY StepContext
<1>3. /\ cmd[p].kind \in {"upload", "deploy"} /\ (cmd[p].kind = "deploy" => cmd[p].path \in T!Deploys)
      /\ cmd[p].path \in T!Paths
  BY <1>1, <1>2 DEF CommandHolds, Commands
<1>4. \A n \in Pieces : cmd[p].etags[n] = Absent
  BY <1>1, <1>2, Blanks DEF CommandHolds
<1>5. /\ c \in Commands /\ c.path = cmd[p].path /\ c.kind = cmd[p].kind /\ c.print = file.print
      /\ c.content = file.content /\ c.key = <<c.path, c.print>> /\ c.pc = "resume" /\ c.key \in T!Keys
      /\ c.etags = cmd[p].etags
  <2>1. file.print \in T!Prints /\ file.content \in Contents /\ file.commit \in T!Prints
    BY <1>1 DEF Files
  <2>2. <<cmd[p].path, file.print>> \in T!Keys
    BY <1>3, <2>1 DEF T!Keys
  <2> QED BY <1>1, <1>2, <2>1, <2>2 DEF T!Inspected, Commands
<1>6. r \in Saves \cup {Absent} /\ ResumeHolds(r, c.path, file)
  BY <1>3, <1>5 DEF Typed, Holds
<1> HIDE DEF c
<1>7. CASE r # Absent /\ r.print = c.print /\ server.rows[r.key].state # "none"
  <2>1. cmd' = [cmd EXCEPT ![p] = e] /\ resume' = [resume EXCEPT ![c.path].etags = kept]
    BY <1>7 DEF T!UsableResume, T!Become, c
  <2>2. /\ r \in Saves /\ r.key = <<c.path, c.print>> /\ r.print = c.print
        /\ \A n \in Pieces : r.etags[n] \in {Absent, file.content}
    BY <1>5, <1>6, <1>7 DEF ResumeHolds
  <2>3. r.etags \in T!Etags /\ r.key \in T!Keys
    BY <2>2 DEF Saves
  <2>4. kept \in T!Etags /\ \A n \in Pieces : kept[n] \in {Absent, file.content}
    BY <2>2, <2>3 DEF T!Etags
  <2>5. resume' = [resume EXCEPT ![c.path] = saved]
    BY <1>3, <1>5, <2>1 DEF Typed
  <2> HIDE DEF kept
  <2>6. saved \in Saves /\ saved.key = r.key /\ saved.print = r.print /\ saved.etags = kept
    BY <2>2, <2>4 DEF Saves
  <2>7. /\ d \in Commands /\ d.path = c.path /\ d.kind = c.kind /\ d.print = c.print
        /\ d.content = c.content /\ d.key = r.key /\ d.etags = kept /\ d.pc = "resume"
    BY <1>5, <2>3, <2>4 DEF Commands
  <2> HIDE DEF d, saved, r
  <2>8. /\ e \in Commands /\ e.path = c.path /\ e.kind = c.kind /\ e.print = c.print
        /\ e.content = c.content /\ e.key = r.key /\ e.etags = kept /\ e.pc \in {"complete", "grants"}
    BY <2>7 DEF Commands, T!Requests
  <2> HIDE DEF e
  <2>9. file.print \in Nat
    BY <1>1, Blanks DEF Files
  <2>10. CommandHolds(e, f, server, file)
    BY <1>2, <1>3, <1>5, <2>2, <2>3, <2>4, <2>8, <2>9 DEF CommandHolds, Sending
  <2>11. ResumeHolds(saved, c.path, file)
    BY <1>5, <2>2, <2>4, <2>6, <2>9 DEF ResumeHolds
  <2>12. Alone'
    BY <1>1, <1>5, <2>1, <2>8, AloneKept
  <2> QED BY <1>1, <1>2, <1>5, <2>1, <2>5, <2>6, <2>8, <2>10, <2>11, <2>12, CommandKeeps
<1>8. CASE ~ (r # Absent /\ r.print = c.print /\ server.rows[r.key].state # "none")
  <2>1. cmd' = [cmd EXCEPT ![p] = g] /\ resume' = [resume EXCEPT ![c.path] = Absent]
    BY <1>8 DEF T!UsableResume, T!Become, c
  <2>2. /\ g \in Commands /\ g.path = c.path /\ g.kind = c.kind /\ g.print = c.print
        /\ g.content = c.content /\ g.key = c.key /\ g.etags = c.etags /\ g.pc = "reserve"
    BY <1>5 DEF Commands, T!Requests
  <2>3. ResumeHolds(Absent, c.path, file)
    BY DEF ResumeHolds
  <2> HIDE DEF g, r
  <2>4. CommandHolds(g, f, server, file)
    BY <1>1, <1>2, <1>3, <1>4, <1>5, <2>2, Blanks DEF CommandHolds, Sending, Files
  <2>5. Alone'
    BY <1>1, <1>5, <2>1, <2>2, AloneKept
  <2> QED BY <1>1, <1>2, <1>5, <2>1, <2>2, <2>3, <2>4, <2>5, CommandKeeps
<1> QED BY <1>7, <1>8

(* A part is sent from the file as it is now; its etag is held against     *)
(* the fingerprint only while the file still has it.                       *)
LEMMA PutPartKeeps ==
  ASSUME T!TransfersAssumption, Typed, Alone, NEW f \in [T!Prints -> Contents], Holds(f),
         NEW p \in Processes, NEW n \in Pieces, T!PutPart(p, n)
  PROVE  Keeps(f)
<1> DEFINE c == cmd[p]
           out == T!ServePart(p, n)
           d == [c EXCEPT !.etags[n] = file.content, !.todo = @ \ {n}]
           a == T!AfterPart(c, n, file.content)
<1>1. /\ c.pc = "parts" /\ file' = file /\ mishaps' = mishaps /\ mishaps \in 0..MaxMishaps
      /\ n \in Pieces
  BY DEF T!PutPart, T!At, Typed
<1>2. /\ c \in Commands /\ CommandHolds(c, f, server, file) /\ file.content \in Contents
  BY StepContext
<1>3. c.etags \in T!Etags /\ c.todo \subseteq Pieces
  BY <1>2 DEF Commands
<1>4. CASE ~ out.ok
  <2>1. server' \in T!UnderWay(p) /\ cmd' = [cmd EXCEPT ![p] = T!AfterError(c)] /\ resume' = resume
    BY <1>4 DEF T!PutPart, T!Become
  <2>2. PICK s \in T!UnderWay(p) : server' = s
    BY <2>1
  <2>3. ServerHolds(s, f, file) /\ Live(server) \subseteq Live(s)
    BY UnderWayFine
  <2>4. /\ T!AfterError(c) \in Commands /\ CommandHolds(T!AfterError(c), f, s, file)
        /\ T!AfterError(c).pc = "idle" \/ T!AfterError(c).kind = c.kind
        /\ T!AfterError(c).pc # "report"
    BY <1>1, <1>2, ErrorCommand
  <2> QED BY <1>1, <2>1, <2>2, <2>3, <2>4, QuietKeeps
<1>5. CASE out.ok
  <2> DEFINE s == out.server
  <2>1. server' = s /\ cmd' = [cmd EXCEPT ![p] = a] /\ resume' = [resume EXCEPT ![a.path] = T!Saved(a)]
    BY <1>5 DEF T!PutPart, T!Become
  <2>2. PICK ok \in BOOLEAN : out = T!Outcome(ok, p, T!Stored(p, {n}))
    BY DEF T!ServePart
  <2>3. ServerHolds(s, f, file) /\ Live(server) \subseteq Live(s)
    BY <2>2, StoredFine DEF Fine
  <2>4. /\ d \in Commands /\ d.pc = c.pc /\ d.kind = c.kind /\ d.path = c.path /\ d.print = c.print
        /\ d.key = c.key /\ d.content = c.content /\ d.etags \in T!Etags
        /\ \A m \in Pieces : d.etags[m] = IF m = n THEN file.content ELSE c.etags[m]
    BY <1>2, <1>3 DEF Commands, T!Etags
  <2>5. \E pc \in {"parts", "grants", "complete"} : a = [d EXCEPT !.pc = pc]
    BY DEF T!AfterPart
  <2> HIDE DEF d, a
  <2>6. /\ a \in Commands /\ a.pc \in {"parts", "grants", "complete"} /\ a.kind = c.kind
        /\ a.path = c.path /\ a.print = c.print
        /\ a.key = c.key /\ a.content = c.content /\ a.etags = d.etags
    BY <2>4, <2>5 DEF Commands, T!Requests
  <2>7. c.print = file.print => \A m \in Pieces : a.etags[m] \in {Absent, file.content}
    BY <1>1, <1>2, <2>4, <2>6 DEF CommandHolds, Sending
  <2>8. CommandHolds(a, f, s, file)
    BY <1>1, <1>2, <2>6, <2>7 DEF CommandHolds, Sending
  <2>9. T!Saved(a) \in Saves /\ ResumeHolds(T!Saved(a), c.path, file)
    BY <1>1, <1>2, <2>4, <2>6, <2>7 DEF T!Saved, Saves, Commands, ResumeHolds, CommandHolds, Sending
  <2>10. Alone'
    BY <1>1, <2>1, <2>6, AloneKept
  <2> HIDE DEF s, out
  <2> QED BY <1>1, <2>1, <2>3, <2>6, <2>8, <2>9, <2>10, CommandKeeps
<1> QED BY <1>4, <1>5

(* A command starts from the source file as it is now.                     *)
LEMMA TransferBeginKeeps ==
  ASSUME T!TransfersAssumption, Typed, Alone, NEW f \in [T!Prints -> Contents], Holds(f),
         NEW p \in Processes,
         \/ \E kind \in {"upload", "deploy"}, path \in T!Paths : T!Begin(p, kind, path)
         \/ \E k \in T!Keys : T!BeginDownload(p, k)
  PROVE  Keeps(f)
<1>1. PICK kind \in {"upload", "deploy", "download"}, a \in Commands :
        /\ T!At(p, "idle") /\ T!MayRun(kind) /\ a.kind = kind
        /\ cmd' = [cmd EXCEPT ![p] = a] /\ UNCHANGED <<file, resume, server, mishaps>>
        /\ a.pc \in {"start", "resume", "ask"} /\ CommandHolds(a, f, server, file)
  <2>1. CASE \E kind \in {"upload", "deploy"}, path \in T!Paths : T!Begin(p, kind, path)
    <3>1. PICK kind \in {"upload", "deploy"}, path \in T!Paths : T!Begin(p, kind, path)
      BY <2>1
    <3> DEFINE a == [T!Idle EXCEPT !.pc = IF kind = "deploy" THEN "start" ELSE "resume",
                                 !.kind = kind, !.path = path]
    <3>2. /\ a \in Commands /\ a.pc = (IF kind = "deploy" THEN "start" ELSE "resume") /\ a.kind = kind
          /\ a.path = path /\ a.etags = T!NoEtags
      BY Blanks DEF Commands, T!Requests
    <3>3. /\ T!At(p, "idle") /\ T!MayRun(kind) /\ (kind = "deploy" <=> path # 0)
          /\ (kind = "deploy" => server.deploys[path] = "none")
          /\ cmd' = [cmd EXCEPT ![p] = a] /\ UNCHANGED <<file, resume, server, mishaps>>
      BY <3>1 DEF T!Begin, T!Become
    <3>4. kind = "deploy" => path \in T!Deploys
      BY <3>3 DEF T!Paths
    <3> HIDE DEF a
    <3>5. CommandHolds(a, f, server, file)
      BY <3>2, <3>3, <3>4 DEF CommandHolds, Sending
    <3> QED BY <3>2, <3>3, <3>5
  <2>2. CASE \E k \in T!Keys : T!BeginDownload(p, k)
    <3>1. PICK k \in T!Keys : T!BeginDownload(p, k)
      BY <2>2
    <3> DEFINE a == [T!Idle EXCEPT !.pc = "ask", !.kind = "download", !.key = k]
    <3>2. a \in Commands /\ a.pc = "ask" /\ a.kind = "download"
      BY Blanks DEF Commands, T!Requests
    <3>3. /\ T!At(p, "idle") /\ T!MayRun("download")
          /\ cmd' = [cmd EXCEPT ![p] = a] /\ UNCHANGED <<file, resume, server, mishaps>>
      BY <3>1 DEF T!BeginDownload, T!Become
    <3> HIDE DEF a
    <3>4. CommandHolds(a, f, server, file)
      BY <3>2 DEF CommandHolds, Sending
    <3> QED BY <3>2, <3>3, <3>4
  <2> QED BY <2>1, <2>2
<1>2. cmd'[p] = a /\ \A q \in Processes \ {p} : cmd'[q] = cmd[q]
  BY <1>1 DEF Typed
<1>3. Alone'
  <2> SUFFICES ASSUME NEW x \in Processes, NEW y \in Processes, x # y,
                      cmd'[x].pc # "idle", cmd'[y].pc # "idle"
               PROVE  cmd'[x].kind = "upload" /\ cmd'[y].kind = "upload"
    BY DEF Alone, T!At
  <2>1. CASE x # p /\ y # p
    BY <1>2, <2>1 DEF Alone, T!At
  <2>2. CASE x = p \/ y = p
    BY <1>1, <1>2, <2>2 DEF T!MayRun, T!At
  <2> QED BY <2>1, <2>2
<1>4. mishaps \in 0..MaxMishaps /\ ServerHolds(server, f, file)
  BY DEF Typed, Holds
<1> QED BY <1>1, <1>3, <1>4, CommandKeeps

(* What happens to a reservation without a command: its capabilities lapse *)
(* or it goes.                                                             *)
LEMMA ServerKeeps ==
  ASSUME T!TransfersAssumption, Typed, Alone, NEW f \in [T!Prints -> Contents], Holds(f),
         (\E k \in T!Keys : T!Expire(k)) \/ T!DeleteObject
  PROVE  Keeps(f)
<1>1. /\ file' = file /\ resume' = resume /\ cmd' = cmd /\ mishaps' \in 0..MaxMishaps
  BY FaultType DEF T!Expire, T!DeleteObject
<1>2. /\ server \in Servers /\ \A k \in T!Keys : RowHolds(server.rows[k], k, f, file)
  BY DEF Holds, ServerHolds
<1>3. /\ server' \in Servers /\ server'.deploys = server.deploys
      /\ \A k \in T!Keys :
           \/ server'.rows[k] = server.rows[k]
           \/ server'.rows[k] = T!NoRow /\ k[1] = 0
           \/ server'.rows[k] = [server.rows[k] EXCEPT !.live = FALSE, !.granted = {}]
  <2>1. CASE \E k \in T!Keys : T!Expire(k)
    <3>1. PICK k \in T!Keys : T!Expire(k)
      BY <2>1
    <3> DEFINE row == [server.rows[k] EXCEPT !.live = FALSE, !.granted = {}]
    <3>2. server' = [server EXCEPT !.rows[k] = row]
      BY <1>2, <3>1 DEF T!Expire, Servers, Rows
    <3>3. row \in Rows
      <4>1. server.rows[k] \in Rows
        BY <1>2 DEF Servers
      <4> QED BY <4>1 DEF Rows
    <3>4. \A j \in T!Keys : server'.rows[j] = IF j = k THEN row ELSE server.rows[j]
      BY <1>2, <3>2 DEF Servers
    <3>5. server' \in Servers /\ server'.deploys = server.deploys
      BY <1>2, <3>2, <3>3 DEF Servers
    <3> QED BY <3>4, <3>5
  <2>2. CASE T!DeleteObject
    <3> DEFINE rows == [k \in T!Keys |-> IF k[1] = 0 /\ server.rows[k].state \in {"complete", "aborted"}
                                     THEN T!NoRow ELSE server.rows[k]]
    <3>1. server' = [server EXCEPT !.rows = rows]
      BY <2>2 DEF T!DeleteObject
    <3>2. rows \in [T!Keys -> Rows]
      BY <1>2, Blanks DEF Servers
    <3> HIDE DEF rows
    <3>3. server' \in Servers /\ server'.deploys = server.deploys /\ server'.rows = rows
      BY <1>2, <3>1, <3>2 DEF Servers
    <3>4. \A k \in T!Keys : rows[k] = server.rows[k] \/ (rows[k] = T!NoRow /\ k[1] = 0)
      BY DEF rows
    <3> QED BY <3>3, <3>4
  <2> QED BY <2>1, <2>2
<1>4. ASSUME NEW k \in T!Keys PROVE RowHolds(server'.rows[k], k, f, file)
  <2>1. RowHolds(server.rows[k], k, f, file) /\ server.rows[k] \in Rows
    BY <1>2 DEF Servers
  <2>2. CASE server'.rows[k] = server.rows[k]
    BY <2>1, <2>2
  <2>3. CASE server'.rows[k] = T!NoRow
    BY <2>3, Blanks DEF RowHolds
  <2>4. CASE server'.rows[k] = [server.rows[k] EXCEPT !.live = FALSE, !.granted = {}]
    <3> DEFINE row == server'.rows[k]
    <3>1. /\ row.granted = {} /\ row.state = server.rows[k].state
          /\ row.content = server.rows[k].content /\ row.bytes = server.rows[k].bytes
      BY <2>1, <2>4 DEF Rows
    <3> QED BY <2>1, <3>1 DEF RowHolds
  <2> QED BY <1>3, <2>2, <2>3, <2>4
<1>5. ASSUME NEW p \in Processes PROVE CommandHolds(cmd[p], f, server', file)
  <2>1. CommandHolds(cmd[p], f, server, file)
    BY DEF Holds
  <2>2. CASE cmd[p].pc = "finalise"
    <3> DEFINE k == cmd[p].key
    <3>1. k \in T!Keys /\ k[1] # 0
      BY <2>1, <2>2, <1>2, Blanks DEF CommandHolds, Sending
    <3>2. server.rows[k] \in Rows
      BY <1>2, <3>1 DEF Servers
    <3>3. server'.rows[k].state = server.rows[k].state /\ server'.rows[k].bytes = server.rows[k].bytes
      BY <1>3, <3>1, <3>2 DEF Rows
    <3> QED BY <1>3, <2>1, <2>2, <3>3 DEF CommandHolds
  <2>3. CASE cmd[p].pc # "finalise"
    BY <1>3, <2>1, <2>3 DEF CommandHolds
  <2> QED BY <2>2, <2>3
<1>6. Typed' /\ Alone'
  BY <1>1 DEF Typed, Alone, T!At
<1>7. ServerHolds(server', f, file)
  BY <1>3, <1>4 DEF ServerHolds
<1>8. Holds(f)'
  BY <1>1, <1>5, <1>7 DEF Holds
<1>9. StepTells
  BY <1>1, <1>3 DEF StepTells, Tells, Live, T!At
<1> QED BY <1>6, <1>8, <1>9 DEF Keeps

(* A commit of the repository leaves the file, and its fingerprint,        *)
(* alone.                                                                  *)
LEMMA CommitKeeps ==
  ASSUME T!TransfersAssumption, Typed, Alone, NEW f \in [T!Prints -> Contents], Holds(f), T!Commit
  PROVE  Keeps(f)
<1>1. /\ file.print + file.commit < MaxEdits + 2 /\ UNCHANGED <<resume, server, cmd, mishaps>>
      /\ file' = [file EXCEPT !.commit = @ + 1] /\ file \in Files /\ MaxEdits \in Nat
  BY DEF T!Commit, Typed, T!TransfersAssumption
<1>2. /\ file.print \in 1..(MaxEdits + 1) /\ file.commit \in 1..(MaxEdits + 1)
  BY <1>1 DEF Files, T!Prints
<1>3. file.commit + 1 \in T!Prints
  BY <1>1, <1>2 DEF T!Prints
<1>4. file' \in Files /\ file'.print = file.print /\ file'.content = file.content
  BY <1>1, <1>3 DEF Files
<1>5. Typed' /\ Alone' /\ StepTells
  BY <1>1, <1>4 DEF Typed, Alone, T!At, StepTells, Tells
<1>6. \A k \in T!Keys : \A r : RowHolds(r, k, f, file) => RowHolds(r, k, f, file')
  BY <1>4 DEF RowHolds
<1>7. \A x, r : ResumeHolds(r, x, file) => ResumeHolds(r, x, file')
  BY <1>4 DEF ResumeHolds
<1>8. \A c : CommandHolds(c, f, server, file) => CommandHolds(c, f, server, file')
  BY <1>4 DEF CommandHolds
<1>9. Holds(f)'
  BY <1>1, <1>4, <1>6, <1>7, <1>8 DEF Holds, ServerHolds
<1> QED BY <1>5, <1>9 DEF Keeps

(* An edit gives the file a fingerprint that nothing refers to yet.        *)
LEMMA EditKeeps ==
  ASSUME T!TransfersAssumption, Typed, Alone, NEW f \in [T!Prints -> Contents], Holds(f),
         NEW c \in Contents, T!Edit(c)
  PROVE  \E g \in [T!Prints -> Contents] : Keeps(g)
<1>1. /\ file.print + file.commit < MaxEdits + 2 /\ UNCHANGED <<resume, server, cmd, mishaps>>
      /\ file' = [file EXCEPT !.print = @ + 1, !.content = c] /\ file \in Files /\ MaxEdits \in Nat
  BY DEF T!Edit, Typed, T!TransfersAssumption
<1>2. /\ file.print \in 1..(MaxEdits + 1) /\ file.commit \in 1..(MaxEdits + 1)
  BY <1>1 DEF Files, T!Prints
<1>3. file.print + 1 \in T!Prints /\ file.print \in Nat
  BY <1>1, <1>2 DEF T!Prints
<1>4. file' \in Files /\ file'.print = file.print + 1 /\ file'.content = c
  BY <1>1, <1>3 DEF Files
<1>5. PICK g \in [T!Prints -> Contents] :
        g[file.print + 1] = c /\ \A n \in T!Prints : n <= file.print => g[n] = f[n]
  <2> DEFINE g == [f EXCEPT ![file.print + 1] = c]
  <2>1. /\ g \in [T!Prints -> Contents] /\ g[file.print + 1] = c
        /\ \A n \in T!Prints : n <= file.print => g[n] = f[n]
    BY <1>3, Blanks
  <2> QED BY <2>1
<1>6. Typed' /\ Alone' /\ StepTells
  BY <1>1, <1>4 DEF Typed, Alone, T!At, StepTells, Tells
<1>7. ASSUME NEW k \in T!Keys PROVE RowHolds(server.rows[k], k, g, file')
  <2>1. RowHolds(server.rows[k], k, f, file) /\ k[2] \in T!Prints /\ k[2] \in Nat
    BY Blanks DEF Holds, ServerHolds, T!Keys
  <2> QED BY <1>3, <1>4, <1>5, <2>1 DEF RowHolds
<1>8. ASSUME NEW x \in T!Paths PROVE ResumeHolds(resume[x], x, file')
  <2>1. ResumeHolds(resume[x], x, file) /\ resume[x] \in Saves \cup {Absent}
    BY DEF Holds, Typed
  <2>2. resume[x] # Absent => resume[x].print \in Nat
    BY <2>1, Blanks DEF Saves
  <2> QED BY <1>3, <1>4, <2>1, <2>2 DEF ResumeHolds
<1>9. ASSUME NEW p \in Processes PROVE CommandHolds(cmd[p], g, server, file')
  <2>1. CommandHolds(cmd[p], f, server, file) /\ cmd[p].print \in T!Prints /\ cmd[p].print \in Nat
    BY Blanks DEF Holds, Typed, Commands
  <2>2. cmd[p].pc \in Sending => cmd[p].print <= file.print /\ cmd[p].content = g[cmd[p].print]
    BY <1>5, <2>1 DEF CommandHolds
  <2> QED BY <1>3, <1>4, <2>1, <2>2 DEF CommandHolds
<1>10. Holds(g)'
  BY <1>1, <1>4, <1>5, <1>7, <1>8, <1>9 DEF Holds, ServerHolds
<1> QED BY <1>5, <1>6, <1>10 DEF Keeps

(* Every step keeps the invariant, if need be for an extended f.           *)
LEMMA NextKeeps ==
  ASSUME T!TransfersAssumption, Typed, Alone, NEW f \in [T!Prints -> Contents], Holds(f), T!Next
  PROVE  \E g \in [T!Prints -> Contents] : Keeps(g)
<1>1. CASE \E p \in Processes : T!Answered(p)
  BY <1>1, AnsweredKeeps
<1>2. CASE \E p \in Processes : T!UsableResume(p)
  BY <1>2, UsableResumeKeeps
<1>3. CASE \E p \in Processes : \E body \in {T!Row(p).bytes, "short"} : T!Fetch(p, body)
  BY <1>3, LocalKeeps
<1>4. CASE \E p \in Processes : T!FetchNothing(p) \/ T!Place(p) \/ T!Report(p)
  BY <1>4, LocalKeeps
<1>5. CASE \E p \in Processes, n \in Pieces : T!PutPart(p, n)
  BY <1>5, PutPartKeeps
<1>6. CASE \E p \in Processes : T!Lost(p)
  BY <1>6, LostKeeps
<1>7. CASE \E p \in Processes : T!Interrupt(p) \/ T!Inconsistent(p)
  BY <1>7, InterruptKeeps
<1>8. CASE \E p \in Processes : T!Kill(p)
  BY <1>8, KillKeeps
<1>9. CASE \E p \in Processes, kind \in {"upload", "deploy"}, path \in T!Paths : T!Begin(p, kind, path)
  BY <1>9, TransferBeginKeeps
<1>10. CASE \E p \in Processes, k \in T!Keys : T!BeginDownload(p, k)
  BY <1>10, TransferBeginKeeps
<1>11. CASE \E c \in Contents : T!Edit(c)
  BY <1>11, EditKeeps
<1>12. CASE T!Commit
  BY <1>12, CommitKeeps
<1>13. CASE (\E k \in T!Keys : T!Expire(k)) \/ T!DeleteObject
  BY <1>13, ServerKeeps
<1> QED BY <1>1, <1>2, <1>3, <1>4, <1>5, <1>6, <1>7, <1>8, <1>9, <1>10, <1>11, <1>12, <1>13, Blanks
        DEF T!Next, T!Step

(* Nor does a step that changes nothing break it.                          *)
LEMMA StutterKeeps ==
  ASSUME Typed, Alone, NEW f, Holds(f), UNCHANGED T!vars
  PROVE  Keeps(f)
BY DEF T!vars, Keeps, Typed, Alone, T!At, Holds, ServerHolds, StepTells, Tells

(* The invariant is inductive, and each step tells the truth.              *)
LEMMA InvKeeps ==
  ASSUME T!TransfersAssumption, IInv, [T!Next]_(T!vars)
  PROVE  IInv' /\ StepTells
<1>1. PICK f \in [T!Prints -> Contents] : Holds(f)
  BY DEF IInv
<1>2. PICK g \in [T!Prints -> Contents] : Keeps(g)
  BY <1>1, NextKeeps, StutterKeeps DEF IInv
<1> QED BY <1>2 DEF Keeps, IInv

(* The invariant holds at first: one fingerprint, nothing sent.            *)
LEMMA InitHolds ==
  ASSUME T!TransfersAssumption, T!Init
  PROVE  IInv
<1>1. file \in Files /\ mishaps \in 0..MaxMishaps /\ resume \in [T!Paths -> Saves \cup {Absent}]
  BY Blanks DEF T!Init, Files, T!TransfersAssumption
<1>2. cmd \in [Processes -> Commands] /\ \A p \in Processes : cmd[p] = T!Idle
  BY Blanks DEF T!Init
<1>3. Typed /\ Alone
  BY <1>1, <1>2, Blanks DEF Typed, Alone, T!At
<1> DEFINE f == [n \in T!Prints |-> file.content]
<1>4. f \in [T!Prints -> Contents] /\ f[file.print] = file.content
  BY <1>1 DEF Files
<1> HIDE DEF f
<1>5. server \in Servers /\ \A k \in T!Keys : server.rows[k] = T!NoRow
  BY Blanks DEF T!Init, Servers
<1>6. ServerHolds(server, f, file)
  BY <1>5, Blanks DEF ServerHolds, RowHolds
<1>7. \A p \in Processes : CommandHolds(cmd[p], f, server, file)
  BY <1>2, IdleHolds
<1>8. \A x \in T!Paths : ResumeHolds(resume[x], x, file)
  BY DEF T!Init, ResumeHolds
<1> QED BY <1>3, <1>4, <1>6, <1>7, <1>8 DEF IInv, Holds

(* The invariant gives what the run checks.                                *)
LEMMA InvIsEnough ==
  ASSUME T!TransfersAssumption, IInv
  PROVE  TransfersAreWhole
<1>1. PICK f \in [T!Prints -> Contents] : Holds(f)
  BY DEF IInv
<1>2. Typed
  BY DEF IInv
<1>3. ServerHolds(server, f, file) /\ server \in Servers
  BY <1>1 DEF Holds, ServerHolds
<1>4. T!TypeOK
  <2>1. \A p \in Processes : cmd[p].key # Absent => cmd[p].key \in T!Keys
    BY <1>2 DEF Typed, Commands
  <2>2. \A p \in T!Paths : resume[p] # Absent => resume[p] \in Saves
    BY <1>2 DEF Typed
  <2>3. \A k \in T!Keys : ~server.rows[k].live => server.rows[k].granted = {}
    BY <1>3 DEF ServerHolds, RowHolds
  <2> QED BY <1>2, <1>3, <2>1, <2>2, <2>3 DEF T!TypeOK, Typed, Files, Saves, Servers, Rows
<1>5. T!LargeVersionsReadable
  BY <1>3 DEF T!LargeVersionsReadable, ServerHolds, RowHolds
<1>6. T!ResumeIsOfThisFile
  BY <1>1 DEF T!ResumeIsOfThisFile, Holds, ResumeHolds
<1>7. T!DownloadIsWhole
  BY <1>1 DEF T!DownloadIsWhole, Holds, CommandHolds, T!At
<1> QED BY <1>4, <1>5, <1>6, <1>7 DEF TransfersAreWhole

(* A large version holds the very content that was inspected for it, a     *)
(* resume file is trusted only for the file it was written for             *)
(* (usable_resume), and a download puts in place only the whole content    *)
(* it asked for (place_download), whatever is lost, killed, edited or      *)
(* started beside it.                                                      *)
THEOREM TransfersAreWholeHolds == TransferSpec => []TransfersAreWhole
<1>1. T!Init => IInv
  BY TransferAssumption, InitHolds
<1>2. IInv /\ [T!Next]_(T!vars) => IInv'
  BY TransferAssumption, InvKeeps
<1>3. IInv => TransfersAreWhole
  BY TransferAssumption, InvIsEnough
<1> QED BY <1>1, <1>2, <1>3, PTL DEF TransferSpec, T!Spec

(* The two action properties of ReportsHold, as actions.                   *)
ToldRight == \A p \in Processes : Tells(p)
LiveStays == \A d \in T!Deploys : server.deploys[d] = "live" => server'.deploys[d] = "live"

(* An upload or a deploy is reported complete only when the server has it  *)
(* so with the bytes that were inspected, and a command that fails or is   *)
(* interrupted (fail_deploy) never takes down a live deploy.               *)
THEOREM ReportsHoldHolds == TransferSpec => ReportsHold
<1>1. T!Init => IInv
  BY TransferAssumption, InitHolds
<1>2. IInv /\ [T!Next]_(T!vars) => IInv' /\ [ToldRight]_(T!vars) /\ [LiveStays]_(T!vars)
  BY TransferAssumption, InvKeeps DEF StepTells, ToldRight, LiveStays, Live
<1>3. T!ReportedIsStored <=> [][ToldRight]_(T!vars)
  BY DEF T!ReportedIsStored, ToldRight, Tells
<1>4. T!LiveDeployStays <=> [][LiveStays]_(T!vars)
  BY DEF T!LiveDeployStays, LiveStays
<1> QED BY <1>1, <1>2, <1>3, <1>4, PTL DEF TransferSpec, T!Spec, ReportsHold
=============================================================================
