------------------------------ MODULE Uploads ------------------------------
(***************************************************************************)
(* Upload reservations of Blob Yard Core: the HTTP handlers of             *)
(* blobyard-server that reserve, receive, complete and abort one object    *)
(* version, over the transfer tables of blobyard-repository-sqlite and an  *)
(* object-storage adapter.                                                 *)
(*                                                                         *)
(* A repository call is one SQLite transaction under one connection lock,  *)
(* hence one atomic step.  A storage call is one step too.  A handler is a *)
(* sequence of such steps, and the steps of concurrent handlers interleave *)
(* (the runtime is multi-threaded and no lock spans two calls).  What a    *)
(* handler remembers between two steps is what the code keeps in locals.   *)
(*                                                                         *)
(* Bytes are abstracted to "declared" (they have the size and SHA-256 the  *)
(* reservation declares) or "other".                                       *)
(***************************************************************************)
EXTENDS Naturals, FiniteSets

CONSTANTS
  Uploads,      \* upload identifiers: one per (principal, Idempotency-Key)
  Multipart,    \* the uploads whose reservation strategy is multipart
  Parts,        \* part numbers of a multipart reservation
  Ids,          \* multipart identifiers the storage adapter can hand out
  Handlers,     \* requests in flight
  AtomicPut,    \* TRUE: S3 adapter; FALSE: filesystem adapter (two files)
  MaxFaults,    \* bound on crashes, failed requests and lapsed grants
  None          \* no multipart identifier, no upload

ASSUME UploadsAssumption ==
  /\ Multipart \subseteq Uploads
  /\ Parts # {}
  /\ AtomicPut \in BOOLEAN
  /\ MaxFaults \in Nat
  /\ None \notin Ids
  /\ None \notin Uploads

Bodies == {"declared", "other"}

(* What a storage key holds.  "fileOnly" and "metaOnly" are the halves an   *)
(* interrupted filesystem put or delete leaves: neither can be read, and   *)
(* neither can be put again.                                               *)
Readable == Bodies
KeyStates == {"absent", "fileOnly", "metaOnly"} \cup Bodies

VARIABLES
  reservation,  \* upload_reservations.state, "none" when there is no row
  version,      \* object_versions.state
  live,         \* the reservation's expires_at_ms is in the future
  provider,     \* upload_reservations.provider_upload_id
  part,         \* upload_parts: "none", "granted", or the received checksum
  object,       \* the bytes under the version's storage key
  dir,          \* the key file of a staged multipart directory
  staged,       \* the part files of a staged multipart directory
  used,         \* multipart identifiers handed out so far (uuid v4)
  purged,       \* history: an abort request destroyed readable bytes
  dropped,      \* history: an abort request removed the staged directory
  call,         \* every handler's step and locals
  faults

repo    == <<reservation, version, live, provider, part>>
storage == <<object, dir, staged, used, purged, dropped>>
vars    == <<repo, storage, call, faults>>

Steps == {"idle", "replay", "renew", "reread", "begin", "attach", "cleanup",
          "store", "head", "record", "storePart", "recordPart",
          "plan", "validate", "assemble", "rmdir", "commit",
          "abortParts", "delete", "abort"}

NoParts == [n \in Parts |-> "none"]

(* A handler between two requests.  The locals of a request: the upload it *)
(* is about, the provider id it read or created, the part number and the   *)
(* bytes it carries or was told of, and the parts it is to complete.       *)
Idle == [step |-> "idle", on |-> None, seen |-> None, num |-> None,
         body |-> "other", plan |-> NoParts]

Init ==
  /\ reservation = [u \in Uploads |-> "none"]
  /\ version = [u \in Uploads |-> "none"]
  /\ live = [u \in Uploads |-> FALSE]
  /\ provider = [u \in Uploads |-> None]
  /\ part = [u \in Uploads |-> NoParts]
  /\ object = [u \in Uploads |-> "absent"]
  /\ dir = [m \in Ids |-> None]
  /\ staged = [m \in Ids |-> NoParts]
  /\ used = {}
  /\ purged = [u \in Uploads |-> FALSE]
  /\ dropped = [u \in Uploads |-> FALSE]
  /\ call = [h \in Handlers |-> Idle]
  /\ faults = 0

----------------------------------------------------------------------------
(* Control: a handler moves to its next step, or answers its client.       *)

At(h, step) == call[h].step = step

GoTo(h, step) == call' = [call EXCEPT ![h].step = step]

Answer(h) == call' = [call EXCEPT ![h] = Idle]

Proceed(h, step) == IF step = "idle" THEN Answer(h) ELSE GoTo(h, step)

Accept(h, u, m, step) ==
  call' = [call EXCEPT ![h] = [Idle EXCEPT !.step = step, !.on = u, !.seen = m]]

On(h) == call[h].on

Seen(h) == call[h].seen

(* ensure_provider goes on to create a multipart upload only when the      *)
(* reservation it holds is multipart and has no provider id yet.           *)
AfterReservation(u) ==
  IF u \in Multipart /\ provider[u] = None THEN "begin" ELSE "idle"

----------------------------------------------------------------------------
(* POST /v1/uploads                                                        *)

(* reserve_upload: one transaction that inserts the version and its        *)
(* reservation; an existing id is a constraint violation, hence a replay.  *)
RequestUpload(h, u) ==
  /\ At(h, "idle")
  /\ \/ /\ reservation[u] = "none"
        /\ reservation' = [reservation EXCEPT ![u] = "requested"]
        /\ version' = [version EXCEPT ![u] = "pending"]
        /\ live' = [live EXCEPT ![u] = TRUE]
        /\ IF AfterReservation(u) = "idle" THEN Answer(h) ELSE Accept(h, u, None, "begin")
        /\ UNCHANGED <<provider, part>>
     \/ /\ reservation[u] # "none"
        /\ Accept(h, u, None, "replay")
        /\ UNCHANGED repo
  /\ UNCHANGED <<storage, faults>>

(* Mutant: an expired reservation is refused instead of renewed.           *)
ReplayWithoutRenewal(h) ==
  /\ At(h, "replay")
  /\ Proceed(h, IF reservation[On(h)] = "requested" /\ live[On(h)]
                  THEN AfterReservation(On(h)) ELSE "idle")
  /\ UNCHANGED <<repo, storage, faults>>

(* replay: only a requested reservation is returned, renewed when expired. *)
Replay(h) ==
  /\ At(h, "replay")
  /\ Proceed(h, IF reservation[On(h)] # "requested" THEN "idle"
                ELSE IF live[On(h)] THEN AfterReservation(On(h))
                ELSE "renew")
  /\ UNCHANGED <<repo, storage, faults>>

RenewUpload(h) ==
  /\ At(h, "renew")
  /\ IF reservation[On(h)] = "requested"
       THEN live' = [live EXCEPT ![On(h)] = TRUE] /\ GoTo(h, "reread")
       ELSE UNCHANGED live /\ Answer(h)
  /\ UNCHANGED <<reservation, version, provider, part, storage, faults>>

Reread(h) ==
  /\ At(h, "reread")
  /\ Proceed(h, AfterReservation(On(h)))
  /\ UNCHANGED <<repo, storage, faults>>

(* begin_multipart creates a directory named by a fresh identifier that    *)
(* holds the storage key.                                                  *)
BeginMultipart(h, m) ==
  /\ At(h, "begin")
  /\ m \notin used
  /\ used' = used \cup {m}
  /\ dir' = [dir EXCEPT ![m] = On(h)]
  /\ staged' = [staged EXCEPT ![m] = NoParts]
  /\ Accept(h, On(h), m, "attach")
  /\ UNCHANGED <<repo, object, purged, dropped, faults>>

(* The bound on identifiers shows as a storage call that fails.            *)
BeginRefused(h) ==
  /\ At(h, "begin")
  /\ used = Ids
  /\ Answer(h)
  /\ UNCHANGED <<repo, storage, faults>>

(* Mutant: the last identifier wins.                                       *)
AttachOverwrites(h) ==
  /\ At(h, "attach")
  /\ reservation[On(h)] = "requested"
  /\ provider' = [provider EXCEPT ![On(h)] = Seen(h)]
  /\ Answer(h)
  /\ UNCHANGED <<reservation, version, live, part, storage, faults>>

(* attach_multipart: the first identifier wins, and the handler that lost  *)
(* the race, or whose upload was aborted, goes to its cleanup.             *)
AttachMultipart(h) ==
  /\ At(h, "attach")
  /\ LET u == On(h) IN
     \/ /\ reservation[u] = "requested"
        /\ provider[u] = None
        /\ provider' = [provider EXCEPT ![u] = Seen(h)]
        /\ Answer(h)
     \/ /\ reservation[u] # "requested" \/ provider[u] # None
        /\ GoTo(h, "cleanup")
        /\ UNCHANGED provider
  /\ UNCHANGED <<reservation, version, live, part, storage, faults>>

(* cleanup_created: abort the multipart upload this handler created.       *)
CleanupCreated(h) ==
  /\ At(h, "cleanup")
  /\ dir' = [dir EXCEPT ![Seen(h)] = None]
  /\ Answer(h)
  /\ UNCHANGED <<repo, object, staged, used, purged, dropped, faults>>

----------------------------------------------------------------------------
(* PUT /transfers/uploads/{capability}                                     *)

(* The storage metadata a handler is about to act on.                      *)
Verify(h, bytes, step) ==
  call' = [call EXCEPT ![h] = [@ EXCEPT !.body = bytes, !.step = step]]

(* upload_by_capability, then the body is streamed to a staging file while *)
(* everything else goes on.                                                *)
PutUpload(h, u) ==
  /\ At(h, "idle")
  /\ u \notin Multipart
  /\ reservation[u] = "requested"
  /\ live[u]
  /\ Accept(h, u, None, "store")
  /\ UNCHANGED <<repo, storage, faults>>

(* put refuses bytes that do not have the declared checksum (the handler   *)
(* fails) and a key that exists (the handler looks at what is there).      *)
Store(h) ==
  /\ At(h, "store")
  /\ IF object[On(h)] = "absent"
       THEN /\ object' = [object EXCEPT ![On(h)] = "declared"]
            /\ Verify(h, "declared", "record")
       ELSE /\ GoTo(h, "head")
            /\ UNCHANGED object
  /\ UNCHANGED <<repo, dir, staged, used, purged, dropped, faults>>

(* head: existing (single) and existing_metadata (multipart).              *)
Head(h) ==
  /\ At(h, "head")
  /\ IF object[On(h)] \in Readable
       THEN Verify(h, object[On(h)], "record")
       ELSE Answer(h)
  /\ UNCHANGED <<repo, storage, faults>>

(* Mutant: the checksum of what is stored is not compared.                 *)
RecordUnverified(h) ==
  /\ At(h, "record")
  /\ LET u == On(h) IN
     IF reservation[u] = "requested"
       THEN /\ reservation' = [reservation EXCEPT ![u] = "uploaded"]
            /\ Proceed(h, IF u \in Multipart THEN "commit" ELSE "idle")
       ELSE Answer(h) /\ UNCHANGED reservation
  /\ UNCHANGED <<version, live, provider, part, storage, faults>>

(* record_uploaded_bytes: refused unless the stored bytes are the declared *)
(* ones and the reservation is still requested.  PUT ends here; complete   *)
(* of a multipart upload goes on to complete_upload.                       *)
RecordUploadedBytes(h) ==
  /\ At(h, "record")
  /\ LET u == On(h) IN
     IF call[h].body = "declared" /\ reservation[u] = "requested"
       THEN /\ reservation' = [reservation EXCEPT ![u] = "uploaded"]
            /\ Proceed(h, IF u \in Multipart THEN "commit" ELSE "idle")
       ELSE /\ Answer(h)
            /\ UNCHANGED reservation
  /\ UNCHANGED <<version, live, provider, part, storage, faults>>

----------------------------------------------------------------------------
(* POST /v1/uploads/parts and PUT /transfers/upload-parts/{capability}     *)

(* issue_upload_parts: an upsert that keeps what was received.             *)
RequestParts(u, ns) ==
  /\ u \in Multipart
  /\ reservation[u] = "requested"
  /\ live[u]
  /\ provider[u] # None
  /\ part' = [part EXCEPT ![u] =
                [n \in Parts |-> IF n \in ns /\ @[n] = "none" THEN "granted" ELSE @[n]]]
  /\ UNCHANGED <<reservation, version, live, provider, storage, call, faults>>

(* upload_part_by_capability, then the body is streamed.  A part's bytes   *)
(* are whatever the client sends.                                          *)
PutPart(h, u, n, c) ==
  /\ At(h, "idle")
  /\ u \in Multipart
  /\ reservation[u] = "requested"
  /\ part[u][n] # "none"
  /\ call' = [call EXCEPT ![h] = [Idle EXCEPT !.step = "storePart", !.on = u,
                                   !.seen = provider[u], !.num = n, !.body = c]]
  /\ UNCHANGED <<repo, storage, faults>>

(* put_part replaces an earlier file for the same number.                  *)
StorePart(h) ==
  /\ At(h, "storePart")
  /\ IF Seen(h) # None /\ dir[Seen(h)] # None
       THEN /\ staged' = [staged EXCEPT ![Seen(h)][call[h].num] = call[h].body]
            /\ GoTo(h, "recordPart")
       ELSE /\ Answer(h)
            /\ UNCHANGED staged
  /\ UNCHANGED <<repo, object, dir, used, purged, dropped, faults>>

RecordUploadedPart(h) ==
  /\ At(h, "recordPart")
  /\ LET u == On(h) IN
     IF reservation[u] = "requested" /\ part[u][call[h].num] # "none"
       THEN part' = [part EXCEPT ![u][call[h].num] = call[h].body]
       ELSE UNCHANGED part
  /\ Answer(h)
  /\ UNCHANGED <<reservation, version, live, provider, storage, faults>>

----------------------------------------------------------------------------
(* POST /v1/uploads/complete                                               *)

CompleteUpload(h, u) ==
  /\ At(h, "idle")
  /\ reservation[u] # "none"
  /\ Accept(h, u, provider[u], IF u \in Multipart THEN "plan" ELSE "commit")
  /\ UNCHANGED <<repo, storage, faults>>

(* list_upload_parts and completion_parts: every part must be received.    *)
(* A client that submits other etags is refused (the handler fails).       *)
ListUploadParts(h) ==
  /\ At(h, "plan")
  /\ IF Seen(h) # None /\ \A n \in Parts : part[On(h)][n] \in Bodies
       THEN call' = [call EXCEPT ![h] = [@ EXCEPT !.plan = part[On(h)], !.step = "validate"]]
       ELSE Answer(h)
  /\ UNCHANGED <<repo, storage, faults>>

(* complete_multipart, first half: hash every part file against the plan.  *)
ValidateParts(h) ==
  /\ At(h, "validate")
  /\ Proceed(h, IF dir[Seen(h)] = None THEN "head"
                ELSE IF staged[Seen(h)] = call[h].plan THEN "assemble"
                ELSE "idle")
  /\ UNCHANGED <<repo, storage, faults>>

Assembled(files) ==
  IF \A n \in Parts : files[n] = "declared" THEN "declared" ELSE "other"

(* complete_multipart, second half: reopen the files, concatenate, and     *)
(* commit without replacing.  A directory removed meanwhile is NotFound if *)
(* a file was still to be opened; if all were open the bytes are committed *)
(* and the removal of the directory then fails.                            *)
AssembleParts(h) ==
  /\ At(h, "assemble")
  /\ LET m == Seen(h) IN
     \/ /\ dir[m] # None
        /\ IF object[dir[m]] = "absent"
             THEN /\ object' = [object EXCEPT ![dir[m]] = Assembled(staged[m])]
                  /\ Verify(h, Assembled(staged[m]), "rmdir")
             ELSE Answer(h) /\ UNCHANGED object
     \/ /\ dir[m] = None
        /\ GoTo(h, "head")
        /\ UNCHANGED object
     \/ /\ dir[m] = None
        /\ object[On(h)] = "absent"
        /\ object' = [object EXCEPT ![On(h)] = Assembled(call[h].plan)]
        /\ Answer(h)
  /\ UNCHANGED <<repo, dir, staged, used, purged, dropped, faults>>

RemoveDirectory(h) ==
  /\ At(h, "rmdir")
  /\ dir' = [dir EXCEPT ![Seen(h)] = None]
  /\ Proceed(h, IF dir[Seen(h)] = None THEN "idle" ELSE "record")
  /\ UNCHANGED <<repo, object, staged, used, purged, dropped, faults>>

(* complete_upload: uploaded becomes complete, and its version with it.    *)
CommitUpload(h) ==
  /\ At(h, "commit")
  /\ LET u == On(h) IN
     IF reservation[u] = "uploaded"
       THEN /\ reservation' = [reservation EXCEPT ![u] = "complete"]
            /\ version' = [version EXCEPT ![u] = "complete"]
       ELSE UNCHANGED <<reservation, version>>
  /\ Answer(h)
  /\ UNCHANGED <<live, provider, part, storage, faults>>

----------------------------------------------------------------------------
(* POST /v1/uploads/abort                                                  *)

(* The reservation is read and its state is not looked at.                 *)
AbortUpload(h, u) ==
  /\ At(h, "idle")
  /\ reservation[u] # "none"
  /\ Accept(h, u, provider[u], IF provider[u] = None THEN "delete" ELSE "abortParts")
  /\ UNCHANGED <<repo, storage, faults>>

AbortMultipart(h) ==
  /\ At(h, "abortParts")
  /\ dir' = [dir EXCEPT ![Seen(h)] = None]
  /\ dropped' = [dropped EXCEPT ![On(h)] = TRUE]
  /\ GoTo(h, "delete")
  /\ UNCHANGED <<repo, object, staged, used, purged, faults>>

(* What delete leaves: the filesystem adapter removes the object file and  *)
(* then its metadata, so racing a put can leave the metadata behind.       *)
Deleted(state) ==
  IF state = "metaOnly" THEN {"metaOnly"}
  ELSE {"absent"} \cup (IF AtomicPut \/ state = "absent" THEN {} ELSE {"metaOnly"})

DeleteObject(h) ==
  /\ At(h, "delete")
  /\ \E after \in Deleted(object[On(h)]) :
       object' = [object EXCEPT ![On(h)] = after]
  /\ purged' = [purged EXCEPT ![On(h)] = @ \/ object[On(h)] \in Readable]
  /\ GoTo(h, "abort")
  /\ UNCHANGED <<repo, dir, staged, used, dropped, faults>>

(* abort_upload: requested or uploaded, otherwise a conflict.              *)
CommitAbort(h) ==
  /\ At(h, "abort")
  /\ LET u == On(h) IN
     IF reservation[u] \in {"requested", "uploaded"}
       THEN /\ reservation' = [reservation EXCEPT ![u] = "aborted"]
            /\ version' = [version EXCEPT ![u] = "aborted"]
            /\ part' = [part EXCEPT ![u] = NoParts]
       ELSE UNCHANGED <<reservation, version, part>>
  /\ Answer(h)
  /\ UNCHANGED <<live, provider, storage, faults>>

----------------------------------------------------------------------------
(* The environment                                                         *)

Fault == faults < MaxFaults /\ faults' = faults + 1

(* A repository or storage call fails without effect, or the client goes   *)
(* away while its body is streamed: the handler returns early.  A failed   *)
(* attach goes through its cleanup instead.                                *)
HandlerFails(h) ==
  /\ call[h].step \notin {"idle", "attach"}
  /\ Fault
  /\ Answer(h)
  /\ UNCHANGED <<repo, storage>>

AttachFails(h) ==
  /\ At(h, "attach")
  /\ Fault
  /\ GoTo(h, "cleanup")
  /\ UNCHANGED <<repo, storage>>

ExpireUpload(u) ==
  /\ live[u]
  /\ Fault
  /\ live' = [live EXCEPT ![u] = FALSE]
  /\ UNCHANGED <<reservation, version, provider, part, storage, call>>

(* The process stops: every handler is lost.  The filesystem adapter may   *)
(* have written the object file without its metadata, or removed it        *)
(* without its metadata.                                                   *)
HalfPut == {u \in Uploads : /\ object[u] = "absent"
                            /\ \E h \in Handlers : On(h) = u /\ call[h].step \in {"store", "assemble"}}
HalfDeleted == {u \in Uploads : /\ object[u] \in Readable
                                /\ \E h \in Handlers : On(h) = u /\ call[h].step = "delete"}

Crash ==
  /\ Fault
  /\ call' = [h \in Handlers |-> Idle]
  /\ \E half \in SUBSET (HalfPut \cup HalfDeleted) :
       /\ AtomicPut => half = {}
       /\ object' = [u \in Uploads |->
                       IF u \notin half THEN object[u]
                       ELSE IF u \in HalfPut THEN "fileOnly" ELSE "metaOnly"]
       /\ purged' = [u \in Uploads |-> purged[u] \/ u \in half \cap HalfDeleted]
  /\ UNCHANGED <<repo, dir, staged, used, dropped>>

----------------------------------------------------------------------------
HandlerStep(h) ==
  \/ Replay(h) \/ RenewUpload(h) \/ Reread(h)
  \/ \E m \in Ids : BeginMultipart(h, m)
  \/ BeginRefused(h) \/ AttachMultipart(h) \/ CleanupCreated(h)
  \/ Store(h) \/ Head(h) \/ RecordUploadedBytes(h)
  \/ StorePart(h) \/ RecordUploadedPart(h)
  \/ ListUploadParts(h) \/ ValidateParts(h) \/ AssembleParts(h)
  \/ RemoveDirectory(h) \/ CommitUpload(h)
  \/ AbortMultipart(h) \/ DeleteObject(h) \/ CommitAbort(h)

Arrival(h, u) ==
  \/ RequestUpload(h, u)
  \/ PutUpload(h, u)
  \/ \E n \in Parts, c \in Bodies : PutPart(h, u, n, c)
  \/ CompleteUpload(h, u)
  \/ AbortUpload(h, u)

Next ==
  \/ \E h \in Handlers : HandlerStep(h) \/ HandlerFails(h) \/ AttachFails(h)
  \/ \E h \in Handlers, u \in Uploads : Arrival(h, u)
  \/ \E u \in Uploads : ExpireUpload(u)
  \/ \E u \in Uploads, ns \in SUBSET Parts : RequestParts(u, ns)
  \/ Crash

Spec == Init /\ [][Next]_vars

(* The runtime keeps running the handlers it started.  The client of a     *)
(* single upload retries: it asks for the reservation again (which renews  *)
(* an expired grant), sends the bytes while the grant lives, and asks for  *)
(* completion.                                                             *)
Fairness ==
  /\ \A h \in Handlers : WF_vars(HandlerStep(h))
  /\ \A u \in Uploads \ Multipart :
       /\ SF_vars(\E h \in Handlers : RequestUpload(h, u))
       /\ SF_vars(\E h \in Handlers : PutUpload(h, u))
       /\ SF_vars(\E h \in Handlers : CompleteUpload(h, u))

LiveSpec == Spec /\ Fairness

----------------------------------------------------------------------------
(* Properties                                                              *)

Calls == [step : Steps, on : Uploads \cup {None}, seen : Ids \cup {None},
          num : Parts \cup {None}, body : Bodies,
          plan : [Parts -> {"none"} \cup Bodies]]

RepositoryTypeOK ==
  /\ reservation \in [Uploads -> {"none", "requested", "uploaded", "complete", "aborted"}]
  /\ version \in [Uploads -> {"none", "pending", "complete", "aborted"}]
  /\ live \in [Uploads -> BOOLEAN]
  /\ provider \in [Uploads -> Ids \cup {None}]
  /\ part \in [Uploads -> [Parts -> {"none", "granted"} \cup Bodies]]

StorageTypeOK ==
  /\ object \in [Uploads -> KeyStates]
  /\ dir \in [Ids -> Uploads \cup {None}]
  /\ staged \in [Ids -> [Parts -> {"none"} \cup Bodies]]
  /\ used \subseteq Ids
  /\ purged \in [Uploads -> BOOLEAN]
  /\ dropped \in [Uploads -> BOOLEAN]

(* The fields a handler's step relies on: every step but "idle" has an     *)
(* upload, the steps of a multipart upload have a provider id, the steps   *)
(* of a part its number, and the completion steps a full list of parts.    *)
CallTypeOK ==
  /\ call \in [Handlers -> Calls]
  /\ \A h \in Handlers :
       /\ ~At(h, "idle") => On(h) \in Uploads
       /\ call[h].step \in {"attach", "cleanup", "validate", "assemble", "rmdir", "abortParts"}
            => Seen(h) \in Ids
       /\ call[h].step \in {"storePart", "recordPart"} => call[h].num \in Parts
       /\ call[h].step \in {"validate", "assemble"} => call[h].plan \in [Parts -> Bodies]

(* Every table column, file and local variable holds a value of its type,  *)
(* and no handler reaches a step without the locals that step uses.        *)
TypeOK ==
  /\ RepositoryTypeOK
  /\ StorageTypeOK
  /\ CallTypeOK
  /\ faults \in 0..MaxFaults

(* Whatever two PUTs, two completions, part rewrites, failures and crashes *)
(* do to each other, once record_uploaded_bytes has accepted an upload the *)
(* storage key holds exactly the declared bytes, until an abort request    *)
(* deletes them.                                                           *)
RecordedBytesAreDeclared ==
  \A u \in Uploads :
    reservation[u] \in {"uploaded", "complete"} /\ ~purged[u] => object[u] = "declared"

(* Every part a PUT acknowledged (record_uploaded_part) is staged under    *)
(* the reservation's one provider id while the upload can still be         *)
(* completed: the loser of the ensure_provider race cleans up its own      *)
(* directory and never the winner's.                                       *)
ReceivedPartsKept ==
  \A u \in Multipart :
    /\ reservation[u] = "requested"
    /\ provider[u] # None
    /\ object[u] = "absent"
    /\ ~purged[u] /\ ~dropped[u]
    => /\ dir[provider[u]] = u
       /\ \A n \in Parts : part[u][n] \in Bodies => staged[provider[u]][n] \in Bodies

(* However PUTs, completions, part rewrites and aborts of one upload       *)
(* overlap, fail and crash, what the rows say of it is on disk: a recorded *)
(* upload has the declared bytes, and an acknowledged part is still there  *)
(* while the upload can be completed.                                      *)
UploadsAreSound == TypeOK /\ RecordedBytesAreDeclared /\ ReceivedPartsKept

LegalMoves ==
  {<<"none", "requested">>, <<"requested", "uploaded">>, <<"uploaded", "complete">>,
   <<"requested", "aborted">>, <<"uploaded", "aborted">>}

VersionOf(state) ==
  CASE state = "none" -> "none"
    [] state \in {"requested", "uploaded"} -> "pending"
    [] OTHER -> state

(* No interleaving takes a reservation back, out of a terminal state or    *)
(* past "uploaded", moves it without its version, or gives it a second     *)
(* multipart provider id.                                                  *)
ReservationLifecycle ==
  [][\A u \in Uploads :
       /\ reservation'[u] # reservation[u] => <<reservation[u], reservation'[u]>> \in LegalMoves
       /\ version'[u] = VersionOf(reservation'[u])
       /\ provider[u] # None => provider'[u] = provider[u]]_vars

(* With an adapter whose put is atomic, a client of a single upload that   *)
(* keeps retrying gets through expiry, failures and crashes: its           *)
(* reservation is completed, unless somebody aborts it.                    *)
SingleUploadFinishes ==
  \A u \in Uploads \ Multipart :
    reservation[u] = "requested" ~> reservation[u] \in {"complete", "aborted"}
=============================================================================
