------------------------- MODULE FilesystemStorage -------------------------
(***************************************************************************)
(* The filesystem adapter of Blob Yard Core (blobyard-storage-filesystem). *)
(*                                                                         *)
(* An object is two files, its bytes under objects/ and its size and       *)
(* checksum under metadata/; a staged multipart upload is a directory.     *)
(* Each system call that creates, renames or removes a name is one step,   *)
(* no lock is held between two of them, and the process may stop between   *)
(* any two.  Bytes are abstracted to members of Contents, and metadata to  *)
(* the content it was computed from.                                       *)
(***************************************************************************)
EXTENDS Naturals, FiniteSets

CONSTANTS
  Keys,       \* storage keys
  Contents,   \* byte contents
  Size,       \* the size of each content
  Whole,      \* the content whose parts all have that content
  Mixed,      \* what any other sequence of parts adds up to
  NumParts,   \* parts of a multipart upload, numbered from 1
  Ids,        \* multipart identifiers (uuid v4), each handed out once
  Threads,    \* calls in flight
  None

ASSUME FilesystemAssumption ==
  /\ None \notin Contents
  /\ None \notin Keys
  /\ None \notin Ids
  /\ Size \in [Contents -> Nat]
  /\ Whole \in Contents
  /\ Mixed \in Contents
  /\ NumParts \in Nat \ {0}

Parts == 1..NumParts

VARIABLES
  objectFile,   \* objects/<key>
  metaFile,     \* metadata/<key>.blobyard-meta
  uploadDir,    \* multipart/<id>/key
  partFile,     \* multipart/<id>/<number>.part
  used,         \* identifiers handed out
  call,         \* every thread's step and locals
  acked,        \* history: contents a put or completion committed
  wanted        \* history: a delete of the key was called

files == <<objectFile, metaFile, uploadDir, partFile, used>>
vars  == <<files, call, acked, wanted>>

Steps == {"idle", "persist", "metadata", "undo", "rmdir", "unlinkMeta",
          "readMeta", "stat", "open", "served", "part", "hash", "openPart"}

NoFiles == [n \in Parts |-> None]

(* The locals of a call: its key, the bytes it carries, the metadata it    *)
(* read, the multipart id and part number it is at, and the part checksums *)
(* and open files of a completion.                                         *)
Idle == [step |-> "idle", key |-> None, body |-> None, meta |-> None,
         id |-> None, num |-> 1, plan |-> NoFiles, read |-> NoFiles]

Init ==
  /\ objectFile = [k \in Keys |-> None]
  /\ metaFile = [k \in Keys |-> None]
  /\ uploadDir = [m \in Ids |-> None]
  /\ partFile = [m \in Ids |-> NoFiles]
  /\ used = {}
  /\ call = [t \in Threads |-> Idle]
  /\ acked = [k \in Keys |-> {}]
  /\ wanted = [k \in Keys |-> FALSE]

At(t, step) == call[t].step = step

Key(t) == call[t].key

GoTo(t, step) == call' = [call EXCEPT ![t].step = step]

Answer(t) == call' = [call EXCEPT ![t] = Idle]

----------------------------------------------------------------------------
(* put                                                                     *)

(* write_stream: the body is copied to a temporary file and hashed.  With  *)
(* an expected checksum other bytes are refused, and nothing is left.      *)
Put(t, k, c, expected) ==
  /\ At(t, "idle")
  /\ expected \in {None, c}
  /\ call' = [call EXCEPT ![t] = [Idle EXCEPT !.step = "persist", !.key = k, !.body = c]]
  /\ UNCHANGED <<files, acked, wanted>>

(* Mutant: the rename replaces an existing object.                         *)
PersistReplacing(t) ==
  /\ At(t, "persist")
  /\ objectFile' = [objectFile EXCEPT ![Key(t)] = call[t].body]
  /\ GoTo(t, "metadata")
  /\ UNCHANGED <<metaFile, uploadDir, partFile, used, acked, wanted>>

(* persist_noclobber of the object file: an existing name is a conflict.   *)
PersistObject(t) ==
  /\ At(t, "persist")
  /\ IF objectFile[Key(t)] = None
       THEN /\ objectFile' = [objectFile EXCEPT ![Key(t)] = call[t].body]
            /\ GoTo(t, "metadata")
       ELSE /\ Answer(t)
            /\ UNCHANGED objectFile
  /\ UNCHANGED <<metaFile, uploadDir, partFile, used, acked, wanted>>

(* Mutant: the object file is removed although its metadata was written.   *)
WriteMetadataUndone(t) ==
  /\ At(t, "metadata")
  /\ metaFile' = [metaFile EXCEPT ![Key(t)] = call[t].body]
  /\ acked' = [acked EXCEPT ![Key(t)] = @ \cup {call[t].body}]
  /\ GoTo(t, "undo")
  /\ UNCHANGED <<objectFile, uploadDir, partFile, used, wanted>>

(* write_metadata: persist_noclobber again.  The call succeeds here; a     *)
(* completion still has its directory to remove.                           *)
WriteMetadata(t) ==
  /\ At(t, "metadata")
  /\ IF metaFile[Key(t)] = None
       THEN /\ metaFile' = [metaFile EXCEPT ![Key(t)] = call[t].body]
            /\ acked' = [acked EXCEPT ![Key(t)] = @ \cup {call[t].body}]
            /\ IF call[t].id = None THEN Answer(t) ELSE GoTo(t, "rmdir")
       ELSE /\ GoTo(t, "undo")
            /\ UNCHANGED <<metaFile, acked>>
  /\ UNCHANGED <<objectFile, uploadDir, partFile, used, wanted>>

(* The metadata file cannot be written (a full disk).                      *)
WriteMetadataFails(t) ==
  /\ At(t, "metadata")
  /\ GoTo(t, "undo")
  /\ UNCHANGED <<files, acked, wanted>>

(* The object file is removed by name, whoever put it there, and the error *)
(* of the removal is ignored.                                              *)
UndoObject(t) ==
  /\ At(t, "undo")
  /\ objectFile' = [objectFile EXCEPT ![Key(t)] = None]
  /\ Answer(t)
  /\ UNCHANGED <<metaFile, uploadDir, partFile, used, acked, wanted>>

----------------------------------------------------------------------------
(* delete                                                                  *)

(* The object file first; without one the call answers NotFound and leaves *)
(* the metadata alone.                                                     *)
Delete(t, k) ==
  /\ At(t, "idle")
  /\ wanted' = [wanted EXCEPT ![k] = TRUE]
  /\ objectFile' = [objectFile EXCEPT ![k] = None]
  /\ IF objectFile[k] = None
       THEN UNCHANGED call
       ELSE call' = [call EXCEPT ![t] = [Idle EXCEPT !.step = "unlinkMeta", !.key = k]]
  /\ UNCHANGED <<metaFile, uploadDir, partFile, used, acked>>

RemoveMetadata(t) ==
  /\ At(t, "unlinkMeta")
  /\ metaFile' = [metaFile EXCEPT ![Key(t)] = None]
  /\ Answer(t)
  /\ UNCHANGED <<objectFile, uploadDir, partFile, used, acked, wanted>>

----------------------------------------------------------------------------
(* head and get                                                            *)

Read(t, k) ==
  /\ At(t, "idle")
  /\ call' = [call EXCEPT ![t] = [Idle EXCEPT !.step = "readMeta", !.key = k]]
  /\ UNCHANGED <<files, acked, wanted>>

ReadMetadata(t) ==
  /\ At(t, "readMeta")
  /\ IF metaFile[Key(t)] = None THEN Answer(t)
     ELSE call' = [call EXCEPT ![t] = [@ EXCEPT !.step = "stat", !.meta = metaFile[Key(t)]]]
  /\ UNCHANGED <<files, acked, wanted>>

(* The file's length, and only its length, must agree with the metadata.   *)
Stat(t) ==
  /\ At(t, "stat")
  /\ LET file == objectFile[Key(t)] IN
     IF file # None /\ Size[file] = Size[call[t].meta] THEN GoTo(t, "open") ELSE Answer(t)
  /\ UNCHANGED <<files, acked, wanted>>

(* open_file, by name again: the caller is served the metadata read before *)
(* and the bytes opened now.                                               *)
Open(t) ==
  /\ At(t, "open")
  /\ IF objectFile[Key(t)] = None THEN Answer(t)
     ELSE call' = [call EXCEPT ![t] = [@ EXCEPT !.step = "served", !.body = objectFile[Key(t)]]]
  /\ UNCHANGED <<files, acked, wanted>>

Served(t) ==
  /\ At(t, "served")
  /\ Answer(t)
  /\ UNCHANGED <<files, acked, wanted>>

----------------------------------------------------------------------------
(* Multipart uploads                                                       *)

(* create_dir and write_key; nobody knows the identifier before both are   *)
(* done.                                                                   *)
StartMultipart(k, m) ==
  /\ m \notin used
  /\ used' = used \cup {m}
  /\ uploadDir' = [uploadDir EXCEPT ![m] = k]
  /\ UNCHANGED <<objectFile, metaFile, partFile, call, acked, wanted>>

(* store_part: existing_upload, then the body goes to a temporary file     *)
(* inside the directory.                                                   *)
StorePart(t, m, n, c) ==
  /\ At(t, "idle")
  /\ uploadDir[m] # None
  /\ call' = [call EXCEPT ![t] =
                [Idle EXCEPT !.step = "part", !.id = m, !.num = n, !.body = c]]
  /\ UNCHANGED <<files, acked, wanted>>

(* persist, replacing an earlier file; without the directory it fails.     *)
PersistPart(t) ==
  /\ At(t, "part")
  /\ LET m == call[t].id IN
     partFile' = IF uploadDir[m] = None THEN partFile
                 ELSE [partFile EXCEPT ![m][call[t].num] = call[t].body]
  /\ Answer(t)
  /\ UNCHANGED <<objectFile, metaFile, uploadDir, used, acked, wanted>>

(* finish_multipart, for the checksums the caller expects of the parts.    *)
FinishMultipart(t, m, plan) ==
  /\ At(t, "idle")
  /\ uploadDir[m] # None
  /\ call' = [call EXCEPT ![t] = [Idle EXCEPT !.step = "hash", !.key = uploadDir[m],
                                   !.id = m, !.plan = plan]]
  /\ UNCHANGED <<files, acked, wanted>>

(* validated_reader: hash the part file ...                                *)
HashPart(t) ==
  /\ At(t, "hash")
  /\ LET m == call[t].id n == call[t].num IN
     IF uploadDir[m] # None /\ partFile[m][n] = call[t].plan[n]
       THEN GoTo(t, "openPart") ELSE Answer(t)
  /\ UNCHANGED <<files, acked, wanted>>

Assembled(read) == IF \A n \in Parts : read[n] = Whole THEN Whole ELSE Mixed

(* Mutant: the staged parts go before the object is committed.             *)
OpenPartRemoving(t) ==
  /\ At(t, "openPart")
  /\ LET m == call[t].id
         n == call[t].num
         read == [call[t].read EXCEPT ![n] = partFile[m][n]]
     IN /\ uploadDir[m] # None
        /\ uploadDir' = IF n < NumParts THEN uploadDir ELSE [uploadDir EXCEPT ![m] = None]
        /\ call' = [call EXCEPT ![t] =
               IF n < NumParts
                 THEN [@ EXCEPT !.step = "hash", !.num = n + 1, !.read = read]
                 ELSE [@ EXCEPT !.step = "persist", !.body = Assembled(read), !.read = NoFiles]]
  /\ UNCHANGED <<objectFile, metaFile, partFile, used, acked, wanted>>

(* ... and open it again by name.  After the last part the open files are  *)
(* copied into one temporary file beside the object.                       *)
OpenPart(t) ==
  /\ At(t, "openPart")
  /\ LET m == call[t].id
         n == call[t].num
         read == [call[t].read EXCEPT ![n] = partFile[m][n]]
     IN IF uploadDir[m] = None THEN Answer(t)
        ELSE call' = [call EXCEPT ![t] =
               IF n < NumParts
                 THEN [@ EXCEPT !.step = "hash", !.num = n + 1, !.read = read]
                 ELSE [@ EXCEPT !.step = "persist", !.body = Assembled(read), !.read = NoFiles]]
  /\ UNCHANGED <<files, acked, wanted>>

RemoveDirectory(t) ==
  /\ At(t, "rmdir")
  /\ uploadDir' = [uploadDir EXCEPT ![call[t].id] = None]
  /\ Answer(t)
  /\ UNCHANGED <<objectFile, metaFile, partFile, used, acked, wanted>>

CancelMultipart(m) ==
  /\ uploadDir[m] # None
  /\ uploadDir' = [uploadDir EXCEPT ![m] = None]
  /\ UNCHANGED <<objectFile, metaFile, partFile, used, call, acked, wanted>>

----------------------------------------------------------------------------
(* The process stops.  Temporary files stay behind under names that no key *)
(* has; no call looks at them.                                             *)
Crash ==
  /\ \E t \in Threads : ~At(t, "idle")
  /\ call' = [t \in Threads |-> Idle]
  /\ UNCHANGED <<objectFile, metaFile, uploadDir, partFile, used, acked, wanted>>

Step(t) ==
  \/ PersistObject(t) \/ WriteMetadata(t) \/ WriteMetadataFails(t) \/ UndoObject(t)
  \/ RemoveMetadata(t)
  \/ ReadMetadata(t) \/ Stat(t) \/ Open(t) \/ Served(t)
  \/ PersistPart(t) \/ HashPart(t) \/ OpenPart(t) \/ RemoveDirectory(t)

Start(t) ==
  \/ \E k \in Keys, c \in Contents, e \in Contents \cup {None} : Put(t, k, c, e)
  \/ \E k \in Keys : Delete(t, k) \/ Read(t, k)
  \/ \E m \in Ids, n \in Parts, c \in Contents : StorePart(t, m, n, c)
  \/ \E m \in Ids, plan \in [Parts -> Contents] : FinishMultipart(t, m, plan)

Next ==
  \/ \E t \in Threads : Step(t) \/ Start(t)
  \/ \E k \in Keys, m \in Ids : StartMultipart(k, m)
  \/ \E m \in Ids : CancelMultipart(m)
  \/ Crash

Spec == Init /\ [][Next]_vars

----------------------------------------------------------------------------
(* Properties                                                              *)

Calls == [step : Steps, key : Keys \cup {None}, body : Contents \cup {None},
          meta : Contents \cup {None}, id : Ids \cup {None}, num : Parts,
          plan : [Parts -> Contents \cup {None}], read : [Parts -> Contents \cup {None}]]

FilesTypeOK ==
  /\ objectFile \in [Keys -> Contents \cup {None}]
  /\ metaFile \in [Keys -> Contents \cup {None}]
  /\ uploadDir \in [Ids -> Keys \cup {None}]
  /\ partFile \in [Ids -> [Parts -> Contents \cup {None}]]
  /\ used \subseteq Ids
  /\ acked \in [Keys -> SUBSET Contents]
  /\ wanted \in [Keys -> BOOLEAN]

(* The locals a call's step relies on.                                     *)
CallOK(c) ==
  /\ c \in Calls
  /\ c.step \notin {"idle", "part"} => c.key \in Keys
  /\ c.step \in {"persist", "metadata", "undo", "part", "served"} => c.body \in Contents
  /\ c.step \in {"stat", "open", "served"} => c.meta \in Contents
  /\ c.step \in {"part", "hash", "openPart", "rmdir"} => c.id \in Ids

CallTypeOK ==
  /\ DOMAIN call = Threads
  /\ call = [t \in Threads |-> call[t]]
  /\ \A t \in Threads : CallOK(call[t])

(* Every file and local holds a value of its type, and no call reaches a   *)
(* step without the locals the step uses.                                  *)
TypeOK == FilesTypeOK /\ CallTypeOK

(* What a key holds for a reader: both files, and the metadata describes   *)
(* the bytes.                                                              *)
Visible(k) == IF metaFile[k] = objectFile[k] THEN objectFile[k] ELSE None

(* The two-file protocol implements the contract's write-once store: until *)
(* a delete is called, the first put or completion to succeed is the only  *)
(* one, its object appears in one step and stays as it is, through every   *)
(* race, failed metadata write and crash.                                  *)
Contract == INSTANCE ObjectStore WITH stored <- [k \in Keys |-> Visible(k)]
ImplementsObjectStore == Contract!Spec

(* A get of a key nobody deletes never serves bytes that another checksum  *)
(* describes, although it looks at the name three times.                   *)
ReadsAreWhole ==
  \A t \in Threads : At(t, "served") /\ ~wanted[Key(t)] => call[t].body = call[t].meta

(* finish_multipart gives up the staged parts only once their object is    *)
(* readable, so a crash at any point leaves the parts or the object.       *)
PartsOutliveCommit ==
  [][\A m \in Ids, k \in Keys :
       uploadDir[m] = k /\ uploadDir'[m] = None /\ call' # call /\ ~wanted[k]
         => Visible(k)' # None]_vars

(* The inductive invariant behind the refinement.  As long as nobody has   *)
(* asked to delete a key: metadata describes the object file and the one   *)
(* committed content; at most one call stands between the two files, and   *)
(* the object file is its own; and readers hold what is there.             *)
Between(t, k) == Key(t) = k /\ call[t].step \in {"metadata", "undo"}

KeyInv(k) ==
  /\ metaFile[k] = None => acked[k] = {}
  /\ metaFile[k] # None => metaFile[k] = objectFile[k] /\ acked[k] = {objectFile[k]}
  /\ \A t \in Threads : Between(t, k) => objectFile[k] = call[t].body /\ metaFile[k] = None
  /\ \A s, t \in Threads : Between(s, k) /\ Between(t, k) => s = t
  /\ \A t \in Threads : Key(t) = k =>
       /\ ~At(t, "unlinkMeta")
       /\ call[t].step \in {"stat", "open", "served"} => call[t].meta = metaFile[k]
       /\ At(t, "served") => call[t].body = objectFile[k]

OneWriter == \A k \in Keys : ~wanted[k] => KeyInv(k)

(* list_object_keys walks objects/ and names every file there.  It may name*)
(* more than was committed, but what was committed and not deleted is in   *)
(* it: reconciliation never takes a stored version for a missing one.      *)
Listed == {k \in Keys : objectFile[k] # None}
InventoryIsComplete == \A k \in Keys : acked[k] # {} /\ ~wanted[k] => k \in Listed
=============================================================================
