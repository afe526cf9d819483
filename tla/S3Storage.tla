----------------------------- MODULE S3Storage -----------------------------
(***************************************************************************)
(* The S3 adapter of Blob Yard Core (blobyard-storage-s3), the second      *)
(* implementation of the ObjectStorage trait.                              *)
(*                                                                         *)
(* The provider answers one request at a time for a key; between two       *)
(* requests of one call anything may happen, and the answer to a request   *)
(* that took effect may be lost (the transport maps it to Unavailable and  *)
(* nothing is retried).  An object is its bytes with the size and checksum *)
(* the adapter sent as user metadata; both are abstracted to the content   *)
(* they describe.  Keys are numbers, because a listing is ordered.         *)
(***************************************************************************)
EXTENDS Naturals, FiniteSets

CONSTANTS
  Keys,        \* storage keys, below the configured prefix
  Contents,    \* byte contents
  Size,        \* the size of each content
  Whole,       \* the content whose parts all have that content
  Mixed,       \* what any other sequence of parts adds up to
  NumParts,    \* parts of a multipart upload, numbered from 1
  Ids,         \* the provider's upload ids
  Threads,     \* calls in flight
  PageSize,    \* keys in one page of a listing
  MaxFaults,   \* failed requests and lost answers explored
  MaxCalls,    \* calls begun
  None

VARIABLES
  object,    \* what the bucket holds: [body, meta], or None
  upload,    \* multipart uploads in progress: [key, meta, parts], or None
  used,      \* upload ids the provider chose
  call,      \* every thread's step and locals
  acked,     \* history: contents whose put or completion answered Ok
  wanted,    \* history: a delete of the key was called
  faults, calls   \* counters of the explored bounds

store == <<object, upload, used>>
vars == <<store, call, acked, wanted, faults, calls>>

Parts == 1..NumParts

Idle == [step |-> "idle", op |-> None, key |-> None, body |-> None, meta |-> None,
         id |-> None, seen |-> {}, must |-> {}, token |-> 0]

Init ==
  /\ object = [k \in Keys |-> None]
  /\ upload = [m \in Ids |-> None]
  /\ used = {}
  /\ call = [t \in Threads |-> Idle]
  /\ acked = [k \in Keys |-> {}]
  /\ wanted = [k \in Keys |-> FALSE]
  /\ faults = 0
  /\ calls = 0

At(t, step) == call[t].step = step

Key(t) == call[t].key

GoTo(t, step) == call' = [call EXCEPT ![t].step = step] /\ UNCHANGED calls

Answer(t) == call' = [call EXCEPT ![t] = Idle] /\ UNCHANGED calls

Set(t, c) == call' = [call EXCEPT ![t] = c] /\ UNCHANGED calls

Begin(t, c) ==
  /\ At(t, "idle")
  /\ calls < MaxCalls
  /\ calls' = calls + 1
  /\ call' = [call EXCEPT ![t] = c]

(* Keys whose object is committed and not to be deleted; must remembers    *)
(* them as they were when a read began.                                    *)
Settled == {k \in Keys : acked[k] # {} /\ ~wanted[k]}

(* The call has its bytes staged in a local file and hashed, or needs none.*)
Call(t, op, step, k, c) ==
  Begin(t, [Idle EXCEPT !.op = op, !.step = step, !.key = k, !.body = c])

(* The answer arrives, or is lost although the request took effect.        *)
Heard(heard) == IF heard THEN UNCHANGED faults
                ELSE faults < MaxFaults /\ faults' = faults + 1

FailKeeping(t) == Answer(t)

(* An error: a completion has its object to take away first.               *)
Fail(t) == IF call[t].op = "complete" THEN GoTo(t, "remove") ELSE Answer(t)

(* A request fails without effect.                                         *)
RequestFails(t) ==
  /\ ~At(t, "idle") /\ ~At(t, "served") /\ ~At(t, "listed")
  /\ faults < MaxFaults
  /\ faults' = faults + 1
  /\ IF At(t, "remove") THEN Answer(t) ELSE Fail(t)
  /\ UNCHANGED <<store, acked, wanted>>

----------------------------------------------------------------------------
(* put_object: other bytes than the expected ones are refused before       *)
(* anything is sent.                                                       *)
Put(t, k, c, expected) ==
  /\ expected \in {None, c}
  /\ Call(t, "put", "put", k, c)
  /\ UNCHANGED <<store, acked, wanted, faults>>

(* If-None-Match: * makes the provider refuse an existing key.             *)
PutReplacing(t, heard) ==
  /\ At(t, "put")
  /\ object' = [object EXCEPT ![Key(t)] = [body |-> call[t].body, meta |-> call[t].body]]
  /\ acked' = IF heard THEN [acked EXCEPT ![Key(t)] = @ \cup {call[t].body}] ELSE acked
  /\ Heard(heard)
  /\ Answer(t)
  /\ UNCHANGED <<upload, used, wanted>>

PutObject(t, heard) ==
  /\ At(t, "put")
  /\ IF object[Key(t)] = None
     THEN /\ object' = [object EXCEPT ![Key(t)] =
                          [body |-> call[t].body, meta |-> call[t].body]]
          /\ acked' = IF heard THEN [acked EXCEPT ![Key(t)] = @ \cup {call[t].body}]
                      ELSE acked
     ELSE UNCHANGED <<object, acked>>
  /\ Heard(heard)
  /\ Answer(t)
  /\ UNCHANGED <<upload, used, wanted>>

(* get and delete begin with a head; begin_multipart needs it to fail.     *)
Get(t, k, op) ==
  /\ Begin(t, [Idle EXCEPT !.op = op, !.step = "head", !.key = k,
                          !.must = {k} \cap Settled])
  /\ UNCHANGED <<store, acked, wanted, faults>>

Delete(t, k) ==
  /\ Call(t, "delete", "head", k, None)
  /\ wanted' = [wanted EXCEPT ![k] = TRUE]
  /\ UNCHANGED <<store, acked, faults>>

CreateMultipart(t, k, c, m) ==
  /\ m \notin used
  /\ used' = used \cup {m}
  /\ Begin(t, [Idle EXCEPT !.op = "create", !.step = "head", !.key = k,
                          !.body = c, !.id = m])
  /\ UNCHANGED <<object, upload, acked, wanted, faults>>

(* head_object and decode_metadata: the declared size must be the real one.*)
HeadAnswers(k) == object[k] # None /\ Size[object[k].body] = Size[object[k].meta]

Head(t) ==
  /\ At(t, "head")
  /\ LET k == Key(t) IN
     IF call[t].op = "create"
     THEN IF object[k] = None THEN GoTo(t, "create") ELSE Answer(t)
     ELSE IF ~HeadAnswers(k) THEN Fail(t)
          ELSE IF call[t].op = "delete" THEN GoTo(t, "remove")
          ELSE Set(t, [call[t] EXCEPT !.step = "fetch", !.meta = object[k].meta])
  /\ UNCHANGED <<store, acked, wanted, faults>>

(* The bytes are downloaded to a file, counted and, when the range is the  *)
(* whole object, hashed.                                                   *)
Fetch(t) ==
  /\ At(t, "fetch")
  /\ LET found == object[Key(t)]
         good == /\ found # None
                 /\ Size[found.body] = Size[call[t].meta]
                 /\ call[t].op # "range" => found.body = call[t].meta
     IN  /\ IF ~good THEN Fail(t)
            ELSE IF call[t].op = "complete" THEN Answer(t)
            ELSE Set(t, [call[t] EXCEPT !.step = "served", !.body = found.body])
         /\ acked' = IF good /\ call[t].op = "complete"
                     THEN [acked EXCEPT ![Key(t)] = @ \cup {call[t].meta}] ELSE acked
  /\ UNCHANGED <<store, wanted, faults>>

Served(t) ==
  /\ At(t, "served") \/ At(t, "listed")
  /\ Answer(t)
  /\ UNCHANGED <<store, acked, wanted, faults>>

(* remove_object: by name; a missing object is no error of the provider.   *)
RemoveObject(t, heard) ==
  /\ At(t, "remove")
  /\ object' = [object EXCEPT ![Key(t)] = None]
  /\ Heard(heard)
  /\ Answer(t)
  /\ UNCHANGED <<upload, used, acked, wanted>>

----------------------------------------------------------------------------
(* Multipart uploads.  The id a caller holds is a locator of key and       *)
(* upload id; an upload whose id did not arrive is nobody's.               *)

CreateUpload(t, heard) ==
  /\ At(t, "create")
  /\ upload' = IF ~heard THEN upload ELSE [upload EXCEPT ![call[t].id] =
       [key |-> Key(t), meta |-> call[t].body, parts |-> [n \in Parts |-> None]]]
  /\ Heard(heard)
  /\ Answer(t)
  /\ UNCHANGED <<object, used, acked, wanted>>

(* upload_part: a part may be sent again; without the upload, NotFound.    *)
UploadPart(m, n, c) ==
  /\ upload[m] # None
  /\ upload' = [upload EXCEPT ![m].parts[n] = c]
  /\ UNCHANGED <<object, used, call, calls, acked, wanted, faults>>

Assembled(parts) == IF \A n \in Parts : parts[n] = Whole THEN Whole ELSE Mixed

(* commit_multipart with the tags the caller recorded, in order from 1 (a  *)
(* tag names the bytes that were sent).  The provider joins the parts under*)
(* the metadata of the beginning, where there is no object.                *)
CompleteUpload(t, m, plan, heard) ==
  /\ upload[m] # None
  /\ plan = upload[m].parts
  /\ LET k == upload[m].key
     IN  /\ object[k] = None
         /\ object' = [object EXCEPT ![k] =
                         [body |-> Assembled(plan), meta |-> upload[m].meta]]
         /\ upload' = [upload EXCEPT ![m] = None]
         /\ Begin(t, IF heard THEN [Idle EXCEPT !.op = "complete",
                                     !.step = "verify", !.key = k] ELSE Idle)
  /\ Heard(heard)
  /\ UNCHANGED <<used, acked, wanted>>

(* verify_completed_object: head for the answer, then a whole get, which   *)
(* begins with a head of its own.                                          *)
VerifyCompleted(t) ==
  /\ At(t, "verify")
  /\ IF HeadAnswers(Key(t)) THEN GoTo(t, "head") ELSE Fail(t)
  /\ UNCHANGED <<store, acked, wanted, faults>>

(* cancel_multipart lists the parts to learn whether the upload is there.  *)
CancelMultipart(t, m) ==
  /\ upload[m] # None
  /\ Begin(t, [Idle EXCEPT !.op = "cancel", !.step = "abort", !.id = m])
  /\ UNCHANGED <<store, acked, wanted, faults>>

AbortUpload(t, heard) ==
  /\ At(t, "abort")
  /\ upload' = [upload EXCEPT ![call[t].id] = None]
  /\ Heard(heard)
  /\ Answer(t)
  /\ UNCHANGED <<object, used, acked, wanted>>

----------------------------------------------------------------------------
(* list_object_keys                                                        *)

List(t) ==
  /\ Begin(t, [Idle EXCEPT !.op = "list", !.step = "list", !.must = Settled])
  /\ UNCHANGED <<store, acked, wanted, faults>>

After(token) == {k \in Keys : object[k] # None /\ k > token}

Page(token) ==
  {k \in After(token) : Cardinality({j \in After(token) : j < k}) < PageSize}

(* list_all: page after page, as long as the provider says there is more.  *)
(* A token that does not move, and a key listed twice, are errors.         *)
ListPage(t) ==
  /\ At(t, "list")
  /\ LET page == Page(call[t].token)
         truncated == After(call[t].token) # page
         last == CHOOSE k \in page : \A j \in page : j <= k
     IN  IF page \cap call[t].seen # {} THEN Answer(t)
         ELSE Set(t, [call[t] EXCEPT
                !.seen = @ \cup page,
                !.step = IF truncated THEN "list" ELSE "listed",
                !.token = IF truncated THEN last ELSE @])
  /\ UNCHANGED <<store, acked, wanted, faults>>

----------------------------------------------------------------------------
(* The process stops; the bucket stays as it is.                           *)
Crash ==
  /\ \E t \in Threads : ~At(t, "idle")
  /\ faults < MaxFaults
  /\ faults' = faults + 1
  /\ call' = [t \in Threads |-> Idle]
  /\ UNCHANGED <<store, calls, acked, wanted>>

Start(t) ==
  \/ \E k \in Keys, c \in Contents :
       \/ \E e \in Contents \cup {None} : Put(t, k, c, e)
       \/ \E m \in Ids : CreateMultipart(t, k, c, m)
  \/ \E k \in Keys : Delete(t, k) \/ \E op \in {"get", "range"} : Get(t, k, op)
  \/ \E m \in Ids : CancelMultipart(t, m)
  \/ List(t)

Request(t) ==
  \/ Head(t) \/ Fetch(t) \/ Served(t) \/ VerifyCompleted(t) \/ ListPage(t)
  \/ RequestFails(t)
  \/ \E heard \in BOOLEAN :
       \/ PutObject(t, heard) \/ RemoveObject(t, heard) \/ AbortUpload(t, heard)
       \/ CreateUpload(t, heard)
       \/ \E m \in Ids, plan \in [Parts -> Contents] :
            CompleteUpload(t, m, plan, heard)

Next ==
  \/ \E t \in Threads : Start(t) \/ Request(t)
  \/ \E m \in Ids, n \in Parts, c \in Contents : UploadPart(m, n, c)
  \/ Crash

Spec == Init /\ [][Next]_vars

----------------------------------------------------------------------------
(* An object is committed when the call that wrote it answered Ok.         *)
Committed(k) ==
  IF acked[k] # {} /\ object[k] # None /\ object[k].body = object[k].meta
  THEN object[k].body ELSE None

(* The adapter implements the contract's write-once store: the first call  *)
(* to answer Ok is the only one, and its object stays as it is until a     *)
(* delete is called, whatever other calls fail, lose their answer or take  *)
(* their object away again.                                                *)
Contract == INSTANCE ObjectStore WITH stored <- [k \in Keys |-> Committed(k)]
ImplementsStore == Contract!Spec

(* A whole get serves only bytes its checksum describes, even from a key   *)
(* that is deleted and written meanwhile or whose completion is not        *)
(* verified yet.  A range is right where the object was committed before   *)
(* and nobody deletes it.                                                  *)
ServesWhole ==
  \A t \in Threads : At(t, "served") =>
    \/ call[t].body = call[t].meta
    \/ call[t].op = "range" /\ ~(call[t].must \subseteq Settled /\ call[t].must # {})

(* An object whose bytes are not what its metadata says is only left in    *)
(* the bucket where a request failed: commit_multipart verifies what it    *)
(* joined and takes it away again.                                         *)
BucketIsHonest ==
  (\A t \in Threads : At(t, "idle")) /\ faults = 0 =>
    \A k \in Keys : object[k] # None => object[k].body = object[k].meta

(* A listing that succeeds names every object that was committed when it   *)
(* began and was not deleted since, although pages are read one by one.    *)
ListsCommitted ==
  \A t \in Threads : At(t, "listed") =>
    \A k \in call[t].must : ~wanted[k] => k \in call[t].seen
=============================================================================
