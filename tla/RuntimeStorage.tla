--------------------------- MODULE RuntimeStorage ---------------------------
(***************************************************************************)
(* The object storage of a server.  The operator's configuration selects   *)
(* one of the two adapters when the server is opened, and everything above *)
(* works against the ObjectStorage trait both implement.                   *)
(***************************************************************************)
EXTENDS FilesystemStorage

CONSTANTS
  S3Keys,      \* keys used with the bucket
  S3Ids,       \* upload ids of the provider
  S3Parts,     \* parts of its multipart uploads
  PageSize,    \* keys in one page of a listing
  MaxFaults,   \* failed requests and lost answers explored
  MaxCalls     \* calls to the S3 adapter begun

(* A listing is ordered, starts before every key and has no empty page.    *)
ASSUME StorageAssumption ==
  /\ S3Keys \subseteq Nat \ {0}
  /\ PageSize \in Nat \ {0}
  /\ None \notin [body : Contents, meta : Contents]
  /\ None \notin {"put", "create", "delete", "get", "range", "complete", "cancel", "list"}

VARIABLES
  adapter,     \* StorageConfiguration: "filesystem" or "s3"
  object, upload, s3Used, s3Call, s3Acked, s3Wanted, faults, calls

S3 == INSTANCE S3Storage WITH
  Keys <- S3Keys, Ids <- S3Ids, NumParts <- S3Parts, used <- s3Used, call <- s3Call,
  acked <- s3Acked, wanted <- s3Wanted

s3vars == <<object, upload, s3Used, s3Call, s3Acked, s3Wanted, faults, calls>>

(* StorageConfiguration::open, once for the life of the process; a restart *)
(* with the same configuration opens the same adapter.                     *)
OpenStorage ==
  /\ adapter \in {"filesystem", "s3"}
  /\ Init
  /\ S3!Init

UseStorage ==
  \/ adapter = "filesystem" /\ Next /\ UNCHANGED <<adapter, s3vars>>
  \/ adapter = "s3" /\ S3!Next /\ UNCHANGED <<adapter, vars>>

StorageSpec == OpenStorage /\ [][UseStorage]_<<adapter, vars, s3vars>>

----------------------------------------------------------------------------
(* The S3 adapter implements the write-once store of the contract too.     *)
S3ImplementsObjectStore == S3!ImplementsStore

(* Whichever adapter is open: a get serves only bytes its checksum         *)
(* describes, a listing misses no committed object, and a completion in    *)
(* the bucket that did not verify is taken away again (get, list_all and   *)
(* verify_completed_object).                                               *)
StorageIsSound ==
  /\ TypeOK /\ ReadsAreWhole /\ InventoryIsComplete
  /\ S3!ServesWhole /\ S3!BucketIsHonest /\ S3!ListsCommitted
=============================================================================
