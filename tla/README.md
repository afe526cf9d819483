# Blob Yard Core: a TLA+ verification project

Blob Yard Core is a self-hosted artifact store. A server (`crates/blobyard-server`)
answers an HTTP API, keeps its metadata in one SQLite file
(`crates/blobyard-repository-sqlite`) and its bytes in an object store
(`crates/blobyard-storage-filesystem` or `-s3`). A command-line client, an MCP server and
an SDK are its clients. This directory models the parts of it in which several requests, a
crash, a lost answer or the clock can meet half-way: TLA+ modules translated from the
source, TLC configurations that check them on small instances, and TLAPS proofs that hold
for every instance.

`PROJECT.json` lists components, runs, mutants, hazards and theorems, and maps every
definition to the lines it models.

## What makes this code hard

Four facts shape every module.

1. **A repository call is atomic, a handler is not.** `SqliteRepository` holds one
   connection behind a mutex and writes in a transaction, so each repository method
   is one step. A handler is several such calls, storage or network calls in between, and
   the server runs handlers on a multi-threaded runtime with no lock across calls. What a
   handler read in its first step may be stale in its last.
2. **Metadata and bytes are two stores.** Nothing commits both. Every operation
   chooses an order and relies on a retry, a plan or a cleanup for the other half.
3. **The clock is read once per request**, before the transactions that use it; a row
   may be written with a reading older than a row that is already there.
4. **The same contract is written several times by hand**: catalogue, parser, command,
   request, decoder; schema and types. Only a test run joins them.

## Inventory

| Component | State it keeps | Operations | Works with | What is hard |
|---|---|---|---|---|
| Upload reservations | `upload_reservations`, `upload_parts`, pending `object_versions` | request, PUT, part grants, PUT part, complete, abort, renew | object storage | two handlers of one upload; failures and crashes between storage and table |
| Filesystem storage | an object file and a metadata file per key, staged part directories | put, get, head, delete, multipart, inventory | called by everything | every system call is a step; no lock; crash between the two files |
| S3 storage | provider objects and uploads | the same contract | called by everything | several requests per call; lost answers |
| Object lifecycle | `deletion_operations` and items, `retention_policies`, `retention_runs`, version numbers | delete, retention run, yard cleanup, resume, set and clear a policy | storage, audit | overlapping plans, two executors of one plan, restart |
| Upload inboxes | `inboxes` counters, `inbox_uploads`, rate windows | reserve, replay, complete, abort, revoke | upload reservations | capacity under races; operators reaching the same uploads |
| Shares, downloads, previews | `shares`, `download_grants`, `previews`, `preview_files` | create, open, redeem, download, revoke | lifecycle removes their rows | download limits; links that outlive what they name |
| Web Yard deploys | `web_yards`, `yard_deploys`, `yard_deploy_files` | start, upload, finalise, fail, roll back, delete, prune | uploads, lifecycle | finalise out of order; pruning against rollback |
| Yard access | policies, grants, sessions, exchange codes, guests, OIDC attempts and identities | login, exchange, invite, accept, revoke, deactivate, purge | deploys serve behind it | authority withdrawn between two steps; stale clock readings |
| Management | roles, groups with a stored count, application policies, audit events | set role, approve policy, group and grant changes, paged lists | yard access | read-then-write handlers; lists that change while they are walked |
| Credentials | bootstrap, API tokens, CLI and machine sessions, CI trusts, provider key cache | exchange, mint, revoke, authenticate | every handler | one-time secrets; replay; a cache filled without its lock |
| Recovery | none of its own | backup, restore, reconcile, hosted migration, preflights | both stores | crash between two stores; a live server underneath; a shared bucket |
| CLI transfers | resume files | upload, resume, deploy, download | upload reservations | crash after the server finished; two commands, one resume file |
| Client programs | credential store, profiles, MCP session | every command and every tool | the HTTP API, hosted and standalone | refresh races; retries; five tables of one contract |
| Application manifest | `blobyard.toml` | init, validate | the CLI | two hand-kept schemas; graph search |

The audit log, workspaces and projects, yard environments, browser pages, glob patterns,
single-value parsers and packaging keep no state whose interleavings matter, or are
formatting; `PROJECT.json` gives the reason for each.

## Modules

| Module | Models | Checked through |
|---|---|---|
| `Uploads`, `UploadsProofs` | upload reservations over a storage adapter; theorems | `MCUploads` |
| `ObjectStore` | abstract: what the `ObjectStorage` trait promises | both adapters |
| `FilesystemStorage` | the two-file adapter, system call by system call | `RuntimeStorage` |
| `S3Storage` | the S3 adapter, request by request | `RuntimeStorage` |
| `RuntimeStorage`, `RuntimeStorageProofs` | the adapter a server opens; theorems about it and both adapters | `MCStorage` |
| `Lifecycle`, `LifecycleProofs` | deletion plans, retention, restart, version numbers; theorems | `MCLifecycle` |
| `Inboxes`, `PublicLinks` | an inbox and its guests; shares, download grants, a preview | `GuestSurface` |
| `GuestSurface`, `GuestSurfaceProofs` | the two routes for people without an account; theorems | `MCGuestSurface` |
| `YardDeploys`, `YardDeploysProofs` | one yard name, its deploys and their history; theorems | `MCYardDeploys` |
| `YardAccess`, `YardAccessProofs` | who may open a yard; theorems | `MCYardAccess` |
| `Management`, `ManagementProofs` | who manages a yard, what its application is told; theorems | `MCManagement` |
| `Credentials`, `CredentialsProofs` | bearer tokens, CI trusts and the provider's keys; theorems | `MCCredentials` |
| `HostedExport` | operators: the account export and its projection | `Recovery` |
| `Recovery` | the operator commands that move an installation; theorems in `ManagementProofs` | `MCRecovery` |
| `Transfers`, `TransferPromises` | upload, deploy and download commands, and what they promise; theorems in `UploadsProofs` | `MCTransfers` |
| `WireContract`, `Surfaces` | operators: endpoints, fields, decoders; tools, parsers, commands | `Clients` |
| `AppManifest` | `blobyard app` and its validator; theorems in `LifecycleProofs` | `ClientSurfaces` |
| `ManifestSamples` | operators: the manifests and schedules to try it on | `ClientSurfaces` |
| `Clients` | terminals and MCP sessions at work; theorems in `CredentialsProofs` | `ClientSurfaces` |
| `ClientSurfaces` | `Clients` beside `AppManifest` | `MCClients` |

The MC modules only define symmetry sets and function-valued constants. Operators that
stand next to an action and differ from it by one dropped guard or one swapped step
(`AttachOverwrites` next to `AttachMultipart`, and so on) are the mutants: no specification
uses them, and each is substituted for its neighbour to show that a property would notice.

### `Uploads`

State: the reservation row (`reservation`, `live`, `provider`), the version row
(`version`), the part rows (`part`), the stored bytes (`object`, `dir`, `staged`) and one
record per handler (`call`) holding the step it is at and its locals. Bytes are
"declared" (they match the reservation's size and SHA-256) or "other"; "fileOnly" and
"metaOnly" are what an interrupted filesystem put or delete leaves.

| Handler in the code | Actions |
|---|---|
| `request_upload`, `ensure_provider` | `RequestUpload`, `Replay`, `RenewUpload`, `Reread`, `BeginMultipart`, `BeginRefused`, `AttachMultipart`, `CleanupCreated` |
| `put_upload` | `PutUpload`, `Store`, `Head`, `RecordUploadedBytes` |
| `request_parts`, `put_part` | `RequestParts`, `PutPart`, `StorePart`, `RecordUploadedPart` |
| `complete_upload`, `complete_multipart` | `CompleteUpload`, `ListUploadParts`, `ValidateParts`, `AssembleParts`, `RemoveDirectory`, `RecordUploadedBytes`, `CommitUpload` |
| `abort_upload`, `abort_storage` | `AbortUpload`, `AbortMultipart`, `DeleteObject`, `CommitAbort` |
| failures | `HandlerFails`, `AttachFails`, `ExpireUpload`, `Crash` |

Properties: `UploadsAreSound` (types; `RecordedBytesAreDeclared`, an upload recorded as
received holds exactly the declared bytes; `ReceivedPartsKept`, an acknowledged part stays
staged under the one provider id), `ReservationLifecycle` (reservations move forward together
with their version and keep their provider id), `SingleUploadFinishes` (liveness).

### `ObjectStore`, `FilesystemStorage`, `S3Storage`, `RuntimeStorage`

`ObjectStore` says what callers are promised: a key holds nothing or one whole object,
the first writer wins, and the object stays until somebody asks for its deletion.

`FilesystemStorage` has one action per system call that creates, renames, opens or
removes a name: `Put`, `PersistObject`, `WriteMetadata`, `WriteMetadataFails`,
`UndoObject` for a put; `Delete`, `RemoveMetadata`; `Read`, `ReadMetadata`, `Stat`,
`Open`, `Served` for a get; `StartMultipart`, `StorePart`, `PersistPart`, `FinishMultipart`,
`HashPart`, `OpenPart`, `RemoveDirectory`, `CancelMultipart`; and `Crash` at any point. The
refinement maps a key to its content when both files are there and agree, and to
nothing otherwise.

`S3Storage` has one action per request a call makes (`PutObject`, `Head`, `Fetch`,
`RemoveObject`, `CreateUpload`, `CompleteUpload`, `VerifyCompleted`, `AbortUpload`,
`ListPage`), each of which may fail, be applied with its answer lost, or be cut off by a
crash. It refines the same `ObjectStore`: an object is committed when the call that wrote
it answered Ok. A failed request was applied before the client saw the failure, or
never; a request that is applied later still is not modelled.

`RuntimeStorage` chooses one of them as `StorageConfiguration::open` does. Properties:
`StorageIsSound` (types, whole reads, complete inventories and listings, no unverified
object left behind), `OneWriter`, `PartsOutliveCommit`, `ImplementsObjectStore`,
`S3ImplementsObjectStore`.

### `Lifecycle`

A plan (`op`) is written with its items in one transaction (`DeleteObject`,
`BeginRetention`, `PlanYardCleanup`); an executor deletes bytes one call at a time
(`DeleteBytes`, `StorageFails`), then removes rows and completes the plan
(`FinishDeletion`, `FailRetention`). `ResumeYardCleanup`, `StartServer` and `Crash` are the
process's life; `SetRetention` and `ClearRetention` the policy's; `ReserveUpload`,
`CompleteUpload`, `AbortUpload` abstract `Uploads`. Properties: `PlansAreAccounted` (types,
`PendingRunResumable`, `CompletedOnce`), `RowsOutliveBytes`, `PlansFinish` (liveness).

### `Inboxes`, `PublicLinks`, `GuestSurface`

A guest's request is authorised with one reading of the clock and the inbox
(`Authorize`) and acts on it later (`ReserveUpload`, `ReplayUpload`, `CompleteUpload`,
`AbortUpload`, or `Refuse`), while operators revoke (`RevokeInbox`) and complete, abort or
delete the same uploads by id. Opening a share and consuming it are two steps
(`OpenShare`, `IssueShareDownload`), as are redeeming a grant and reading the bytes
(`Download`, `ReadBytes`), and snapshotting and creating a preview. Deletion removes bytes,
then the row with everything that names it (`DeleteBytes`, `DeleteRow`). The two write no row
that an invariant of the other is about, so `GuestSurface` lets a behaviour use one of
them. Properties: `InboxIsAccounted` (types, `NeverOverfull`, which is about the uploads and
not the counters, `CountersCoverLinks`), `RevokedIsFrozen`, `LinksAreBounded` (types,
`LimitRespected`, `RevocationReaches`), `NoDanglingLinks`.

### `YardDeploys`

Deploys are numbered in the order `created_at_ms, id`, and need not be inserted in that
order. `ReadManifest` and `SelectRollback` are what a handler reads before its
transaction; `FinaliseDeploy`, `Rollback`, `FailDeploy` and `DeleteYard` are the
transactions, with the pruning and the cleanup plans they end in; `CleanBytes`,
`FinishCleanup` and `DeleteObject` remove what was planned. `StableDeploy` and
`ImmutableDeploys` are what the hosts answer. Properties: `AliasServes`, `NewestWins`,
`HistoryIsKept` (types, `RetainedFilesStay`, `HistoryBounded`, `PrunedIsScheduled`).

### `YardAccess`

The state is the rows of users, grants, group, invitations, OIDC attempts and
identities, exchange codes (`code`) and sessions, the signed login requests handed out
(`cont`) and the requests in flight (`handler`). Login is `PostLogin`, `EvaluateAdmission`,
`IssueCode`; the OIDC callback is `ClaimAttempt`, `ProviderAnswers` or `ProviderFails`,
`BindIdentity`, then as login; accepting an invitation is `OpenInvitation`,
`AcceptInvitation`. These keep the clock reading of their first step. `Exchange`, `Logout`,
`Purge` and the operators' actions are one transaction with a reading up to `MaxLag` old,
which is how the CHECK constraints on times come to refuse a revocation. Properties:
`SignsInOnce` (types, `CodeYieldsOneSession`, `OneCodePerContinuation`), `WithdrawalReaches`
(`DeactivatedHasNoSession`, `WithdrawnIsDenied`, `InviteRevocable`), `InvitationSettles`,
`IdentityNeverRebinds`. That a link yields one code even after its row is purged rests on
the assumption `2 * (LoginLife - 1) + MaxLag <= CodeLife + History`: a sign-in with the
provider may start until the link lapses and may take as long again, and only then looks
for a code of the link. The constants of the code (a code lives a minute and is remembered
for a day, a link and an attempt live ten minutes) satisfy it by a wide margin. One link
life on the left is not enough: the proof of `SignsInOnce` found the second one.

### `Management`

Handlers that change a role, the policy or a grant's roles read first (`look`) and write
later with an audit event the repository compares with the present row; `ledger` is what a
reader of the audit log alone would believe. Groups keep a stored member count on which
the identity resolution fails closed. A client walks one list page by page while it changes
(`BeginWalk`, `WalkPage`, `EndWalk`). Properties: `AuthorityIsRecorded` (types,
`YardKeepsOwner`, `LedgerAgrees`), `AuthorityIsExact` (`PolicyIsSound`: the stored closure is
the least one; `IdentityIsExact`), `WalkIsComplete`. The resolution of guests is left out
here; `created_at_ms` and `added_at_ms` of an item are constants of the item (`ClockOf`).

### `Credentials`

Bootstrap exchange, tokens and CLI sessions in one or two transactions per request with a
later one that acts (`Manage`), and the CI exchange: read the key cache, perhaps ask the
provider, store the answer, mint (`ExchangeAssertion`), while the provider rotates
(`RotateKey`). Signatures and claims are abstracted to the signing key and the trusts the
claims match. Properties: `MintsAreBounded` (types, `OneOperator`, `AssertionMintsOnce`,
`RateRespected`), `RevokedTrustAdmitsNone`, `AcceptedKeyIsRecent`, `AuthorityShrinks`.

### `HostedExport`, `Recovery`

Backup, restore, migration, reconciliation and the preflights as processes whose every
call is a step, next to a server that uploads, deletes and loses bytes to the medium;
restores and migrations may be given one bucket; a provider call may fail and a command may
be killed. `HostedExport` holds the validation and projection of an account export.
`MigrationIsClosed` says that an object is migrated only if its project and the project's
workspace are: a selected project of a workspace that is gone keeps neither.
Properties: `GoingBackIsSafe` (types, `BackupIsWhole`, `BinaryOpensSchema`),
`InstallationsAreWhole` (`InstallationIsWhole`, `FailureLeavesNothing`, `MigrationIsClosed`),
`ReportIsExact`.

### `Transfers`

Commands as processes over one source file and the resume files, against the
server's rows; a request is served in one step (its interleavings are `Uploads`), its answer
may be lost. Properties: `TransfersAreWhole` (types, `LargeVersionsReadable`,
`ResumeIsOfThisFile`, `DownloadIsWhole`), `ReportsHold` (`ReportedIsStored`, `LiveDeployStays`),
`LargeUploadFinishes` (liveness). The three attempts of `put_part` are one step.

### `WireContract`, `Surfaces`, `Clients`

`WireContract` is the endpoint table, what is sent and what the decoders demand;
`Surfaces` the tools' schemas, their parsers and the requests of each operation. In `Clients`
a terminal starts any operation with any of its optional arguments, as a command, a tool or
a resource; each request loads the credential, refreshes and saves it (hosted), and is
sent. The tables of requests, tools and commands come in parts, as in the code, and `Merge`
makes one of them; a step changes some fields of a terminal's call (`With`).
Properties: `SurfacesAgree` (types, `CatalogueMatchesParser`, `ReadOnlyToolsRead`,
`RequestsAreUnderstood`), `CredentialsAreKept` (`StoredTokenIsLive`, `ProfileHasItsToken`,
`OnlyTheIssuedLink`), `CommandsDoAsTold` (`ActsOnTheYardNamed`, `RetryAppliesOnce`,
`BatchIsReported`).

### `AppManifest`, `ManifestSamples`, `ClientSurfaces`

`AppManifest` has the schema as data (`RootSchema` and its parts) with one evaluator
(`SchemaErrors`), the serde types as data with one decoder (`Decodes`), and the reference
checks (`CrossErrors`: roles, functions, resources, routes, schedules). A part is checked by
`PartErrors` and decoded by `DecodesPart`, given what does the same for its own parts; a
manifest has four levels of parts within parts, and so have they. `has_cycle` is a recursive
function over the visited roles and those that are still to be followed. Strings are samples
and a pattern is the set of samples it matches. The constants `Manifests` and `CronItems` say
what a manifest may hold and what a schedule is made of.

The state is the file and the last command's answer. `AppInit` creates the file or refuses; a
write that fails leaves a blank file, or no file, or the whole one. `AppValidate` reads the
file and answers with what `ParseToml` reports. `AuthorEdits` is external: an author writes the
file or takes it away, and an answer about the old one is forgotten. Reading may fail.

`AcceptedMeansSomething` has four parts. What the schema admits decodes. What a valid manifest
refers to is declared (`Closed`). Inheritance is reported at a role exactly when the role is
its own ancestor (`OwnAncestor` is a least closure, with no search in it), and at a parent
exactly when it is undeclared (`CyclesAreFound`). A field of a schedule is accepted exactly
when it stands for some time (`SchedulesFire`). `FaultsAreLocated`: errors lie where a
manifest was changed.

`ManifestSamples` has a complete manifest, every change of it in one place, every
inheritance graph of three roles and an undeclared one, and the items of a schedule. No
command of `Clients` reads the manifest and `blobyard app` reads nothing of theirs, so in
`ClientSurfaces` the author works while no terminal has been used (`Unused`); what is proved
of `ClientsSpec` and of `ManifestSpec` holds of `SurfacesSpec`, whose steps are theirs.

## Runs

Run one with `tlc -workers 2 -config <cfg> <module>`.

| Run | Distinct states | Shows |
|---|---|---|
| `uploads_multipart` | 267,939 | one upload of two parts, two handlers, one fault: the safety properties of `Uploads` |
| `uploads_single_live` | 3,478 | a retrying client's single upload is completed through two faults |
| `object_storage` | 935,200 | filesystem: two concurrent calls of every kind on one key and any number of crashes; S3: five calls by two threads with one fault; both refinements |
| `lifecycle_plans` | about 414,000 | two plans with overlapping items, two executors, one fault, safety and liveness |
| `guest_surface` | 2,846,180 | two guests, an operator and the clock against one inbox; a share, a preview and grants against revocation, deletion and the clock |
| `yard_deploys` | 1,031,892 | three deploys of a yard that may be recreated, two requests in flight |
| `yard_access` | 672,877 | two requests that sign in by key, invitation or provider, one withdrawal anywhere between their steps |
| `credentials` | 2,717,617 | two exchanges and management requests, a rotation, two authenticated changes |
| `recovery` | 1,597,518 | two commands, a live server, one failed call and one kill |
| `management` | 615,040 | five changes, two of them possibly before the last request arrives, and a paged reader |
| `client_transfers` | about 336,000 | two commands over one file, two faults, safety and liveness |
| `clients` | 674,085 | every operation alone on an untouched service; five groups of operations racing in two terminals, one fault; every manifest of `ManifestSamples` written and validated |

**Bounds.** Two handlers are enough for every race of the code that was found: each
hazard is between one request's read and its write, and a second request in between. The
filesystem instance has one key because calls on different keys share no file; two parts,
because "all parts" and "some part" then differ; two contents, the declared one and any
other. `MaxFaults` and `MaxCrashes` bound crashes, failed requests and lost answers; one
per run already cuts every handler at every step, and the liveness runs allow two so
that a retry can be hit as well. `Lifecycle` has two versions and two plans, so that two
plans can share an item and one can be planned while another is cut short. `Inboxes`
takes sizes and limits such that the file limit and the byte limit each refuse something.
`PublicLinks` lets the clock pass a grant's, then a share's expiry. `YardDeploys` has three
deploys for a history of two, so that something is pruned, two revisions of a file so that a
snapshot can be overtaken, and two yards so that a name can be reused. `YardAccess` has two
members and a guest, one of the members with the guest's email, one login link, two
requests, three visibilities and one operator action; the clock passes the life of a code
and of its history. `Credentials` has a rate limit of one session so that the second
exchange meets it. `Management` lists pages of one item; `MaxBusy`, `MaxChanges` and
`MaxRaced` bound requests in flight, changes, and changes committed before the last request
arrives. `Recovery` has two keys, two destinations and exports with a deleted ancestor, a
pending version or a dangling reference. `Transfers` has one small and two large contents,
two parts sent one per batch, one edit and one deploy. `Clients` lets two yards be created
and six tokens be minted; operations race within the groups of `Races` (hosted
credentials; profiles; deploy and delete; delete and rollback; retried account operations)
and configuration is reduced to which scope some layer names. Symmetry is declared over
handlers, threads, guests or terminals, in runs without liveness only.

`CHECK_DEADLOCK FALSE` is set where a bound on versions, plans, deploys, requests or the
clock makes a finite history end; the other runs check deadlock.

**Fairness.** `Uploads`: the runtime polls handlers it has accepted (weak fairness of each
handler's step), and the client retries its three requests (strong fairness, because a
handler may be busy and a grant may lapse between two attempts). No fairness for
faults. The property is claimed for an adapter whose put is atomic; with the filesystem
adapter the second divergence below stands in the way. `Lifecycle`: executors go on; the
retention command runs again and again ("once for cron or a timer", `main.rs:60`); a
stopped server is restarted and resumes yard cleanups before it listens, which is the
order in `application.rs`. Nothing is assumed about a client repeating a DELETE, and
nothing is claimed for object deletes. `Transfers`: a command that runs goes on (weak
fairness of its step), and somebody runs `upload` again whenever that is possible again and
again (strong fairness of `Begin`); nothing is assumed about two commands leaving each other
alone.

## Proofs

Checked with `tlapm <module>.tla` for the eight modules whose name ends in `Proofs`. The
theorems hold for any sets of uploads, users, keys and so on, any number of requests in flight
and any value of the bounds, where TLC has a handful. They rest on the named ASSUME of each
module, which TLC evaluates on the instance of each run. Most of it says that constants have
sensible types and that `None` (`Absent` in `Clients`) is none of the identifiers; what says
more is

- `CredentialsAssumption`: `Cooldown + MaxLag <= Ttl`, a key cache outlives the pause between
  two fetches and the longest request (ten minutes against thirty seconds and a fetch that
  is given up after five, `oidc.rs:14`, `:15`, `:145`);
- `YardAccessAssumption`: `2 * (LoginLife - 1) + MaxLag <= CodeLife + History`, see above;
- `StorageAssumption`: the keys of a bucket are numbers, because listings are in key order.

Every argument is an inductive invariant: the property and what a handler relies on
between its steps. TLC checked each of them on the run of its module before it was proved.

`Transfers`, `Recovery` and `Clients` are proved about in the last parts of `UploadsProofs`,
`ManagementProofs` and `CredentialsProofs`. `Recovery` and `Clients` have names of their own
for that (`RecoverySpec`, `AtRest`; `ClientsSpec`, `Resting`). Those of `Transfers` are those
of `Uploads`, so `TransferPromises` takes it as an instance with other names, assumes its
assumption and states its composite properties; the run checks that module and the proofs
extend it.

Induction over a datum, as in `NatInduction`, takes a predicate as a parameter and is out of
reach. What a recursive definition computes is proved here the other way about: if it
were wrong for some argument, it would be wrong for one that is least in a well-founded order,
and the definition shows that it is not. Four results are had so: the largest member of a
finite set of numbers, the closure of a role graph, the sum over a finite set, and the verdict
of the search for an inheritance cycle.

**`UploadsProofs`.** `TypeCorrect`; `BytesCorrect` (`RecordedBytesAreDeclared`):
`BytesInv` adds `EvidenceHolds` (what the adapter told a handler some steps ago is still
true, unless an abort deleted the bytes; nothing overwrites a key) and `DirectoriesOwned` (a
staged directory belongs to the upload whose rows or handlers name it, and identifiers are
not reused, so no cleanup reaches another's parts). `PartsAreKept` (`ReceivedPartsKept`) adds
that an id a handler created and has not attached is named by nobody else, that every other
handler acts with the reservation's id, and that a part row means a staged part or an
assembled object: the loser of two racing creations thus removes a directory no row names.
`UploadsAreSoundHolds` is the three together. `LifecycleCorrect` (`ReservationLifecycle`)
follows from the version row always being in the state its reservation implies.

The second part is about the commands that talk to such a server. `TransfersAreWholeHolds` and
`ReportsHoldHolds` rest on two facts. A fingerprint names one content (`Holds`: there is an
assignment of contents to fingerprints with which the source file, the resume files, the rows
and the locals of every command agree), so a resumed upload that finds its own fingerprint in a
resume file finds parts of the file it is sending, whoever began them. And only uploads run
beside one another (`Alone`, which is how the model starts commands), so the row a deploy saw
completed is still complete with those bytes when it finalises; of the requests an upload
sends, the one that removes bytes, the abort, is sent only for small contents.

**`RuntimeStorageProofs`.** For the filesystem adapter: `OneWriterCorrect` (for a key nobody
has asked to delete, metadata describes the object file and the one committed content, at
most one call stands between the two files and the file is its own, because the rename that
created it refuses to replace), its consequences `ReadsCorrect` and `InventoryCorrect`, and
`AdapterImplementsStore`: with that invariant `WriteMetadata` is the abstract commit, the
first step of a delete the abstract delete, steps on a key whose deletion was asked for the
abstract race, and every other step stutters. `PartsOutlive` (`PartsOutliveCommit`): a call
that removes a staged directory holds a readable object or a key somebody deleted.
For the S3 adapter: `BucketInv` says that a key's object is the one committed or one whose
call still has to verify it (`KeysHold`), what each call in flight knows of its object and
its upload (`RequestsHold`), and that an object assembled from other bytes than declared is
watched by the completion that will remove it (`MixedIsWatched`). A listing is page by
page: a page ends at its largest key, so everything after it is still to come, which needs
that a finite set of numbers has a largest member. With it `S3AdapterImplementsStore` maps the
answer to a put or a verified completion to the commit. `StorageIsSoundHolds` and
`FilesystemServes` carry both over to the server that opened one of them, through
`StorageSpec => Spec /\ S3!Spec`.

**`LifecycleProofs`.** `RowsOutliveBytesHolds`: an executor works on a plan, and what it has
struck off its list has no bytes, although another plan may share the item and finish first.
`PlansAreAccountedHolds`: a plan and its retention run start and end together, and a policy
changes only while none of its runs is pending. What is planned was complete when it was, so no
upload writes an item of a plan; version numbers stay below the number of reservations, which
bounds `NextNumber`.

The second part is about `AppManifest`: `AcceptedMeansSomethingHolds`, for every manifest and
every schedule. The invariant is short: the last answer is about the file as it is
(`AnswerIsCurrent`). The work is in what an answer says. It is assumed that a table is finite
and a list a sequence where roles are declared, and that the words of a schedule are what
splitting it can yield (`ManifestAssumption`). `SchedulesFireHolds` compares a field with the
times it stands for. `SchemaFitsTypes` goes table by table: a schema fits a type (`Fits0` to
`Fits4`, by depth) when their fields do. `HasCycleIsExact` is the search. Its branches share
the roles they have visited, so what a branch finds depends on the ones before it. The verdict
that holds of every stage is `Leads`: what the waiting roles lead to without passing a visited
one contains the origin. `VisitingKeeps` shows that a step keeps it, because whatever the role
just visited leads to is waiting now; a search with another result would have a stage with the
fewest roles to visit, and then the fewest waiting, where it differs, and it would hand the
difference on. `CyclesAreFoundHolds` adds that no other check reports at such a place.

**`GuestSurfaceProofs`.** `LinksAreBoundedHolds`: what a share has issued is what it counts; a
request's reading of the clock is not of the future, and a grant ends with its share or
`ShareDownload` after its revocation. `NoDanglingLinksHolds`: a handler that remembers a
version checks its row in the transaction that writes the link, and the deletion of a row takes
the links with it. `RevokedIsFrozenHolds` and `CapacityKeptHolds` are the inbox's: the
latter says why completing compares counters with no limit. `InboxIsAccountedHolds` adds
`AccountHolds`, that the counters of an inbox cover the uploads linked to it, their number and
their bytes. The bytes are a sum, which the library defines by recursion on subsets: `SumsExist`
and `SumsAgree` show that the recursion has one solution, `AnyOrder` that it does not matter
which member is taken out first, and `BytesAddUp` what one more member adds. With these, each
counter moves with the set it counts.

**`YardDeploysProofs`.** `AliasServesHolds`, `HistoryIsKeptHolds`, `NewestWinsHolds` from one
invariant: `RowsHold` (what a deploy serves is its manifest less what operators deleted, is
stored, and once pruned is in its cleanup plan), `VersionsHold` (a row without bytes is in a
pending plan, and a deleted version never returns), `YardsHold` (the current deploy is the one
live deploy) and `HistoryBounded`, whose step is a count: pruning leaves the newest
`HistoryDepth`, and a rollback exchanges two of them.

**`YardAccessProofs`.** `SignsInOnceHolds`, `WithdrawalReachesHolds`, `InvitationSettlesHolds`,
`IdentityNeverRebindsHolds`. Requests carry a clock reading at most `MaxLag` old; `LinksAreInTime`
ties each step to the life of the continuation it came from, so that the code which a
second sign-in would duplicate is still remembered when it asks; `InvitesHold` ties an
invitation's row, its grant, its key and the codes minted for it together;
`CodesYieldOneSession` adds that the code of every session is consumed or already purged.

**`CredentialsProofs`.** `TypeCorrect`, `MintsAreBoundedHolds` (the rate limit is a count of the
sessions of the last window, and readings are up to `MaxLag` apart),
`RevokedTrustAdmitsNoneHolds`, `AuthorityShrinksHolds` (scopes follow the chain of `by`),
`AcceptedKeyIsRecentHolds` (the cached keys lapse within `Ttl` of their retirement, and a
request about to store keys was begun before they retired, although answers are stored in
another order than they were fetched).

The second part is about `Clients`, from one invariant, `ClientsInv`. The tables come first:
`RequestsSuit` says of every operation which endpoint ends it (`Closing`) and which of its
requests reveal, apply at most once, or remove a yard (`Suits`, `Fits`); it is shown part by
part and carried over to the merged table. Then the calls: `Sound` says what a call may hold at
each step, in particular that what is left of its requests is an end of its operation's
(`Leads`). `CredentialsAreKeptHolds`: a token on its way to the store is honoured and held by
nobody else (`TokensHold`), and the setup token is spent by one attempt to add a profile, so
what the store holds for it is that attempt's (`ProfileHolds`). `CommandsDoAsToldHolds`: rows
of yards are only appended and keep their name, so the identifier a call found names what it
was told (`YardsHold`); an endpoint has been applied once exactly if its key is on record
(`RetriesHold`); every yard a deploy selected is published, still to come, or known to have
failed (`DeploysHold`).

`SurfacesAgreeHolds` is the last part. A request is `Routed` when the decoder of its endpoint, if
a standalone server has one, takes its fields whichever of the optional ones are there, and
`Carried` for an operation when it also only reads if the catalogue says so. Each table of
requests is followed through the routes it reaches (`ResourceRequestsCarried` and so on), each
table of tools through the parsers (`ToolsAccept`), and both are carried over to the merged
tables. `CallsFaithful` is then inductive: what a terminal has yet to send is carried, also
where a deploy puts requests together as it goes (`ProceedModest`), and a call was refused for
its arguments only when they break the schema.

**`ManagementProofs`.** `AuthorityIsRecordedHolds`: the audit event is compared with the row in
the transaction that changes it, so the ledger stays a copy of the rows for any requests in
flight, and a stored count is the number of rows of its group. `WalkIsCompleteHolds`: what was
there all the time has been seen or comes after the cursor (`WalkHolds`). Its step is
`PageDivides`: a page and its cursor divide what was left, which needs that ranks run from zero
without a gap, shown by the pigeonhole principle. `AuthorityIsExactHolds`:
`WorklistEndsAtClosure` shows that the worklist of the validator ends, on every finite graph,
at the least set of roles that is closed under inheritance, by a counterexample with the fewest
roles left to visit; an approved graph has no cycle and declares what it names
(`GraphIsSound`), so what is stored with it (`PolicyHolds`) is that closure. The resolution of
an identity refuses when a stored count or limit does not fit; `LimitsHold` says that the
writers keep every limit it checks, so a refusal never hides an authority (`IdentityFollows`).

The last part is about `Recovery`. `GoingBackIsSafeHolds`: the rows of a backup are read in one
step before its objects, so what has been copied is right or was lost by the medium, and the
losses are counted by the faults. `InstallationsAreWholeHolds`: an object in a bucket belongs
to one command that is importing, or to an installation (`Apart`, the bucket was empty when the
command listed it); what a command has yet to put and what it has put are together its rows
(`ImportHolds`), so activating publishes a whole one, and taking back what it has put touches
no other's. `ReportIsExactHolds`: while nobody writes, the keys a reconciliation has judged so
far are judged as the bytes and rows are. Proving `MigrationIsClosed` showed its first form
false: an object of a project whose workspace was not in the export was counted on, which no
export of the instance had; the instance now has one.

Only model-checked:

- the liveness properties `SingleUploadFinishes`, `PlansFinish` and `LargeUploadFinishes`:
  fairness and ENABLED are out of the prover's reach;
- `FaultsAreLocated`: it is about the changes of one manifest, which a recursive operator lists
  and TLC enumerates completely.

## Known divergences

What the code does where a text of the repository, or a caller, may expect otherwise. The
models do what the code does, and no property claims the contrary.

- **An abort of a completed upload deletes its bytes** (`transfers_operations.rs:166`): the
  handler deletes from storage before the repository refuses the state change. It follows
  that of two concurrent `blobyard upload` of one small file the loser, whose put is refused,
  aborts and deletes the bytes of the winner; `LargeVersionsReadable` is therefore about large
  uploads only, which are never aborted.
- **A filesystem put is not atomic** (`filesystem.rs:124`): a crash between the two files
  leaves a key that reads as absent and refuses every later put.
- **Start-up resumes only yard cleanups** (`application.rs:133`); object deletes wait for a
  repeated request and retention for its next run.
- **Version numbers may be reused** (`transfer_reservations.rs:62`) after retention or the
  deletion of aborted versions.
- **Reserved inbox capacity stays counted** (`transfers_operations.rs:183`) when an operator
  completes or aborts an inbox upload by its id, or a guest never returns.
- **S3**: a range read begun before a key is deleted and written again may serve the later
  object's bytes; an object that is complete but not yet verified can be read by range; a
  removal that fails leaves it there.
- **Recovery**: a lost answer to a put, or a killed command, leaves an object that the
  cleanup does not know (`docs/self-hosting/backup-restore.md:95-98` says so); two
  migrations that find a bucket empty at the same time may share it.
- **Management**: a deactivated user keeps the management role and may remain the sole owner.
- **Transfers**: `docs/api.md:64-66` speaks of replaying the original result, while a
  reservation that was uploaded, completed or aborted answers Conflict; a resume file whose
  15-minute reservation lapsed is stuck until it is removed; whether the download's
  destination exists is checked once, before the transfer.
- **Clients**: a logout racing a login may delete the new token from the store; two
  profiles added at once for different servers may lose one; a lost answer to a refresh
  leaves a stored token the service no longer takes, and one to the bootstrap exchange spends
  the setup token; `logout` is a hosted operation and a standalone token stays; `ls` reads the
  first page only.
- **Manifest**: an `app init` whose write fails may leave a blank file, which the next one
  refuses to replace; names of functions, buckets and jobs need not be unique; a job is
  accepted if any function of its name is scheduled. A schedule may name a date that no month
  has.
- **Lifecycle and deploys**: the files of a deploy that failed or was never finalised stay
  until an operator deletes them; the retention command stops at the first project whose
  storage fails; a PUT that is writing while its version is deleted leaves bytes for
  reconciliation to report.

## What is abstracted or left out

- Bytes, checksums, names and paths are model values; validation of a single
  request's fields is left out unless it guards a state change or a property is about it.
- SQLite is trusted to make a transaction atomic, durable and serial; file-system calls
  to be atomic one by one. Power loss that reorders un-synced writes is not modelled.
- Signatures, cookies, tokens as strings, HTML pages, XML, clap's parsing, help texts and
  `completion` are formatting.
- The rate limiters of the inbox and login pages, the retention glob matcher, MCP methods
  that answer a constant, `init` and the counts that `app validate` prints are left out.
- The identity provider, the CI provider, the S3 provider, the hosted service and the time
  zone database are external, and modelled by what the code relies on.

## Plan

The model is complete along its plan, and every safety property about states and steps is
proved. An abstract specification that `Clients` implements, commands that act once or not at
all, is not written.
