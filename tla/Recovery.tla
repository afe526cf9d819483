------------------------------ MODULE Recovery ------------------------------
(***************************************************************************)
(* The operator commands of blobyard-server that move a whole              *)
(* installation: backup, restore, hosted-migrate, reconcile and the        *)
(* upgrade and rollback preflights, while the server of the source         *)
(* installation keeps running.                                             *)
(*                                                                         *)
(* A storage key belongs to one object version and its bytes never change, *)
(* so what is stored under a key is nothing, the right bytes or wrong ones *)
(* (media damage).  A command is a process: each call to the database, to  *)
(* the object store or to rename is one step, and the process may be       *)
(* killed between two.  An installation keeps its objects below its own    *)
(* directory or in a bucket that other commands may be given too.          *)
(***************************************************************************)
EXTENDS HostedExport

CONSTANTS
  Keys,         \* storage keys
  Dirs,         \* destination directories
  Operators,    \* command processes
  Exports,      \* the exports the hosted service may answer with; a version's
                \* reference is the storage key its bytes get here
  Asked,        \* the workspaces --workspace names
  PollLimit,    \* poll_limit of a migration
  MaxSchema,    \* the newest schema any binary of the run has
  MaxFaults,    \* provider failures explored
  MaxCrashes,   \* kills explored
  MaxServer,    \* steps of the source server explored
  MaxCommands,  \* commands begun
  Absent

States == {"none", "pending", "complete", "aborted"}

Stored == {"none", "right", "wrong"}

(* What a directory that a restore or a migration activated holds.         *)
Installations ==
  [rows : [Keys -> States], shared : BOOLEAN, own : [Keys -> Stored], schema : Nat]

ASSUME RecoveryAssumption ==
  /\ Absent \notin Dirs \cup Installations
  /\ \A e \in Exports : \A v \in e.versions : v.ref \in Keys
  /\ {PollLimit, MaxSchema} \subseteq Nat \ {0}
  /\ {MaxFaults, MaxCrashes, MaxServer, MaxCommands} \subseteq Nat

VARIABLES
  rows,      \* object_versions.state of the source installation
  bytes,     \* what its object store holds
  schema,    \* PRAGMA user_version of its database
  binary,    \* CURRENT_SCHEMA_VERSION of the binary the operator runs
  backup,    \* the published backup directory, or Absent
  site,      \* the installation at each destination, or Absent
  bucket,    \* the objects in the shared bucket
  command,   \* every operator's command
  faults, crashes, served, begun,   \* counters of the explored bounds
  stray      \* history: keys a failed or killed command could not take back

source == <<rows, bytes, schema, binary>>
bounds == <<faults, crashes, served, begun>>
recoveryVars == <<source, backup, site, bucket, command, bounds, stray>>

Nothing == [k \in Keys |-> "none"]

Complete(r) == {k \in Keys : r[k] = "complete"}

(* The locals of a command.  own is what a filesystem restore has put      *)
(* below its staging directory, imported what it put anywhere, clean what *)
(* a reconciliation or the validation of a migration found so far.         *)
AtRest == [name |-> "none", step |-> "idle", dir |-> Absent, shared |-> FALSE,
         rows |-> Nothing, files |-> Nothing, todo |-> {}, own |-> Nothing,
         imported |-> {}, schema |-> 1, polls |-> 0, export |-> Absent,
         clean |-> TRUE, quiet |-> TRUE]

(* Either the source is running with some objects complete, or its host    *)
(* was lost and a backup of them is what is left.                          *)
RecoveryInit ==
  /\ \E S \in SUBSET Keys :
       LET r == [k \in Keys |-> IF k \in S THEN "complete" ELSE "none"]
           b == [k \in Keys |-> IF k \in S THEN "right" ELSE "none"]
       IN  \/ rows = r /\ bytes = b /\ backup = Absent /\ served = 0
           \/ /\ rows = Nothing /\ bytes = Nothing /\ served = MaxServer
              /\ backup = [rows |-> r, files |-> b, schema |-> 1]
  /\ schema = 1
  /\ binary = 1
  /\ site = [d \in Dirs |-> Absent]
  /\ bucket = Nothing
  /\ command = [o \in Operators |-> AtRest]
  /\ faults = 0
  /\ crashes = 0
  /\ begun = 0
  /\ stray = {}

At(o, name, step) == command[o].name = name /\ command[o].step = step

Set(o, c) == command' = [command EXCEPT ![o] = c]

GoTo(o, step) == Set(o, [command[o] EXCEPT !.step = step])

Finish(o) == Set(o, AtRest)

(* An operator types a command.                                            *)
Begin(o, c) ==
  /\ command[o] = AtRest
  /\ begun < MaxCommands
  /\ begun' = begun + 1
  /\ Set(o, c)

----------------------------------------------------------------------------
(* The server of the source installation, as the commands can see it: rows *)
(* precede bytes when an object comes and outlive them when it goes.       *)

Serve(k, state, content) ==
  /\ served < MaxServer
  /\ served' = served + 1
  /\ rows' = [rows EXCEPT ![k] = state]
  /\ bytes' = [bytes EXCEPT ![k] = content]
  /\ command' = [o \in Operators |->
       [command[o] EXCEPT !.quiet = @ /\ command[o].name # "reconcile"]]
  /\ UNCHANGED <<schema, binary, backup, site, bucket, faults, crashes, begun, stray>>

Reserve(k) == rows[k] = "none" /\ Serve(k, "pending", "none")

PutBytes(k) == /\ rows[k] = "pending" /\ bytes[k] = "none"
               /\ Serve(k, "pending", "right")

CompleteUpload(k) == /\ rows[k] = "pending" /\ bytes[k] = "right"
                     /\ Serve(k, "complete", "right")

AbortUpload(k) == rows[k] = "pending" /\ Serve(k, "aborted", bytes[k])

DeleteBytes(k) == rows[k] = "complete" /\ Serve(k, "complete", "none")

DeleteRow(k) == rows[k] = "complete" /\ bytes[k] = "none" /\ Serve(k, "none", "none")

Damage(k) == bytes[k] = "right" /\ Serve(k, rows[k], "wrong")

(* initialize: opening the database applies the pending migrations in one  *)
(* transaction and sets user_version; a newer database is refused.         *)
Start ==
  /\ schema < binary
  /\ schema' = binary
  /\ UNCHANGED <<rows, bytes, binary, backup, site, bucket, command, bounds, stray>>

(* upgrade-preflight passes and the operator installs a newer binary.      *)
UpgradePreflight ==
  /\ \A o \in Operators : command[o] = AtRest
  /\ binary < MaxSchema
  /\ schema >= 1 /\ schema <= binary + 1
  /\ binary' = binary + 1
  /\ UNCHANGED <<rows, bytes, schema, backup, site, bucket, command, bounds, stray>>

(* rollback-preflight of an older binary passes, and the operator installs *)
(* it: the schema must be exactly its own.                                 *)
RollbackPreflight ==
  /\ \A o \in Operators : command[o] = AtRest
  /\ binary > 1
  /\ schema = binary - 1
  /\ binary' = binary - 1
  /\ UNCHANGED <<rows, bytes, schema, backup, site, bucket, command, bounds, stray>>

----------------------------------------------------------------------------
(* backup                                                                  *)

(* create: the destination must be absent.  The snapshot is one consistent *)
(* read of the database; it must have this binary's schema and no pending  *)
(* upload.                                                                 *)
BackupBegin(o) ==
  /\ backup = Absent
  /\ schema = binary
  /\ \A k \in Keys : rows[k] # "pending"
  /\ Begin(o, [AtRest EXCEPT !.name = "backup", !.step = "copy", !.rows = rows,
                         !.todo = Complete(rows), !.schema = schema])
  /\ UNCHANGED <<source, backup, site, bucket, faults, crashes, served, stray>>

(* copy_object: the bytes are read from the running store and must be what *)
(* the snapshot says; otherwise the backup fails and its stage is dropped. *)
CopyWhatIsThere(o, k) ==
  /\ At(o, "backup", "copy")
  /\ k \in command[o].todo
  /\ Set(o, [command[o] EXCEPT !.todo = @ \ {k}, !.files[k] = bytes[k]])
  /\ UNCHANGED <<source, backup, site, bucket, bounds, stray>>

CopyObject(o, k) ==
  /\ At(o, "backup", "copy")
  /\ k \in command[o].todo
  /\ IF bytes[k] = "right"
     THEN Set(o, [command[o] EXCEPT !.todo = @ \ {k}, !.files[k] = "right"])
     ELSE Finish(o)
  /\ UNCHANGED <<source, backup, site, bucket, bounds, stray>>

(* write_manifest and persist_stage: one rename publishes the directory,   *)
(* and fails where another backup was published meanwhile.                 *)
BackupPersist(o) ==
  /\ At(o, "backup", "copy")
  /\ command[o].todo = {}
  /\ backup' = IF backup # Absent THEN backup
               ELSE [rows |-> command[o].rows, files |-> command[o].files,
                     schema |-> command[o].schema]
  /\ Finish(o)
  /\ UNCHANGED <<source, site, bucket, bounds, stray>>

(* The backup medium may lose or change a file while it is kept.           *)
DamageBackup(k) ==
  /\ backup # Absent
  /\ backup.files[k] = "right"
  /\ faults < MaxFaults
  /\ faults' = faults + 1
  /\ \E c \in {"none", "wrong"} : backup' = [backup EXCEPT !.files[k] = c]
  /\ UNCHANGED <<source, site, bucket, command, crashes, served, begun, stray>>

----------------------------------------------------------------------------
(* restore and hosted-migrate: importing objects                           *)

Held(o) == IF command[o].shared THEN bucket ELSE command[o].own

Hold(o, c, k, content) ==
  IF c.shared
  THEN /\ bucket' = [bucket EXCEPT ![k] = content]
       /\ Set(o, c)
  ELSE /\ Set(o, [c EXCEPT !.own[k] = content])
       /\ UNCHANGED bucket

(* validate_backup, create_stage and copy_control_files.                   *)
RestoreBegin(o, d, shared) ==
  /\ backup # Absent
  /\ backup.schema \in 1..binary
  /\ site[d] = Absent
  /\ Begin(o, [AtRest EXCEPT !.name = "restore", !.step = "empty", !.dir = d,
                         !.shared = shared, !.rows = backup.rows,
                         !.todo = Complete(backup.rows),
                         !.schema = backup.schema])
  /\ UNCHANGED <<source, backup, site, bucket, faults, crashes, served, stray>>

(* require_empty_storage.                                                  *)
RequireEmpty(o) ==
  /\ command[o].step = "empty"
  /\ IF Held(o) = Nothing THEN GoTo(o, "put") ELSE Finish(o)
  /\ UNCHANGED <<source, backup, site, bucket, bounds, stray>>

(* What an import reads: the file of the backup, or the downloaded object, *)
(* which was checked when it arrived.                                      *)
Readable(o, k) == command[o].name = "restore" => backup.files[k] = "right"

(* One object of restore_objects or import_objects: its source is hashed   *)
(* again, and the store accepts it only where there is none (put fails     *)
(* with Conflict).  Any failure leads to the cleanup of what this command  *)
(* put.                                                                    *)
PutObject(o, k) ==
  /\ command[o].step = "put"
  /\ k \in command[o].todo
  /\ IF Readable(o, k) /\ Held(o)[k] = "none"
     THEN Hold(o, [command[o] EXCEPT !.todo = @ \ {k}, !.imported = @ \cup {k}],
               k, "right")
     ELSE /\ GoTo(o, "cleanup")
          /\ UNCHANGED bucket
  /\ UNCHANGED <<source, backup, site, bounds, stray>>

(* The provider fails.  The object may be there all the same: the answer   *)
(* was lost, and the key is not in the list of what to take back.          *)
PutFails(o, k) ==
  /\ command[o].step = "put"
  /\ command[o].shared
  /\ k \in command[o].todo
  /\ faults < MaxFaults
  /\ faults' = faults + 1
  /\ Readable(o, k) /\ bucket[k] = "none"
  /\ GoTo(o, "cleanup")
  /\ \/ bucket' = [bucket EXCEPT ![k] = "right"] /\ stray' = stray \cup {k}
     \/ UNCHANGED <<bucket, stray>>
  /\ UNCHANGED <<source, backup, site, crashes, served, begun>>

(* The end of restore_objects: the store must hold exactly what was        *)
(* imported.  A migration has no such step, but imports the metadata here  *)
(* (activate_metadata), into a database of its own.                        *)
Imported(o) ==
  /\ command[o].step = "put"
  /\ command[o].todo = {}
  /\ GoTo(o, IF command[o].name = "restore"
             THEN IF {k \in Keys : Held(o)[k] # "none"} = command[o].imported
                  THEN "rename" ELSE "cleanup"
             ELSE IF command[o].clean THEN "rename" ELSE "cleanup")
  /\ UNCHANGED <<source, backup, site, bucket, bounds, stray>>

(* persist_stage_with_cleanup and rename_installation: the staged          *)
(* directory becomes the installation, unless one appeared there.          *)
Activate(o) ==
  /\ command[o].step = "rename"
  /\ LET d == command[o].dir IN
       IF site[d] = Absent
       THEN /\ site' = [site EXCEPT ![d] =
                 [rows |-> command[o].rows, shared |-> command[o].shared,
                  own |-> command[o].own, schema |-> command[o].schema]]
            /\ Finish(o)
       ELSE /\ GoTo(o, "cleanup")
            /\ UNCHANGED site
  /\ UNCHANGED <<source, backup, bucket, bounds, stray>>

(* cleanup: what this command put is deleted again, key by key; a failed   *)
(* deletion is reported and not tried again.                               *)
TakeBackAll(o, k) ==
  /\ command[o].step = "cleanup"
  /\ k \in Complete(command[o].rows)
  /\ bucket' = IF command[o].shared THEN [bucket EXCEPT ![k] = "none"] ELSE bucket
  /\ Set(o, [command[o] EXCEPT !.imported = @ \ {k},
                               !.rows = [@ EXCEPT ![k] = "none"]])
  /\ UNCHANGED <<source, backup, site, bounds, stray>>

TakeBack(o, k) ==
  /\ command[o].step = "cleanup"
  /\ k \in command[o].imported
  /\ Hold(o, [command[o] EXCEPT !.imported = @ \ {k}], k, "none")
  /\ UNCHANGED <<source, backup, site, bounds, stray>>

TakeBackFails(o, k) ==
  /\ command[o].step = "cleanup"
  /\ command[o].shared
  /\ k \in command[o].imported
  /\ faults < MaxFaults
  /\ faults' = faults + 1
  /\ stray' = stray \cup {k}
  /\ Set(o, [command[o] EXCEPT !.imported = @ \ {k}])
  /\ UNCHANGED <<source, backup, site, bucket, crashes, served, begun>>

CleanedUp(o) ==
  /\ command[o].step = "cleanup"
  /\ command[o].imported = {}
  /\ Finish(o)
  /\ UNCHANGED <<source, backup, site, bucket, bounds, stray>>

(* A killed command leaves its stage behind, and its objects in a bucket.  *)
Crash(o) ==
  /\ command[o] # AtRest
  /\ crashes < MaxCrashes
  /\ crashes' = crashes + 1
  /\ stray' = IF command[o].shared THEN stray \cup command[o].imported ELSE stray
  /\ Finish(o)
  /\ UNCHANGED <<source, backup, site, bucket, faults, served, begun>>

----------------------------------------------------------------------------
(* hosted-migrate: the export                                              *)

(* validate_options and request_export.                                    *)
MigrateBegin(o, d, shared) ==
  /\ Begin(o, [AtRest EXCEPT !.name = "migrate", !.step = "poll", !.dir = d,
                         !.shared = shared, !.schema = binary])
  /\ UNCHANGED <<source, backup, site, bucket, faults, crashes, served, stray>>

(* wait_for_export: ready, not yet, failed, or another export's answer.    *)
PollExport(o) ==
  /\ At(o, "migrate", "poll")
  /\ \/ /\ command[o].polls + 1 < PollLimit
        /\ Set(o, [command[o] EXCEPT !.polls = @ + 1])
     \/ \E e \in Exports : Set(o, [command[o] EXCEPT !.step = "prepare",
                                                     !.polls = 0, !.export = e])
     \/ Finish(o)
  /\ UNCHANGED <<source, backup, site, bucket, bounds, stray>>

(* download_datasets, projection::prepare and download_objects: an invalid *)
(* export, or a version the hosted service has deleted since or answers    *)
(* with another checksum, ends the migration before anything is written.   *)
PrepareMigration(o) ==
  /\ At(o, "migrate", "prepare")
  /\ LET e == command[o].export
         plan == Prepare(e, Asked)
         keys == {v.ref : v \in plan.versions}
     IN  \/ /\ IndexIsValid(e.parts, Cardinality(e.parts) + 1)
            /\ DatasetsComplete(e.parts)
            /\ plan # Invalid
            /\ Set(o, [command[o] EXCEPT
                 !.step = "downloaded", !.export = Absent,
                 !.todo = keys, !.clean = SnapshotIsValid(plan),
                 !.rows = [k \in Keys |->
                             IF k \in keys THEN "complete" ELSE "none"]])
         \/ Finish(o)
  /\ UNCHANGED <<source, backup, site, bucket, bounds, stray>>

(* import::activate up to the storage check.                               *)
ImportBegin(o) ==
  /\ At(o, "migrate", "downloaded")
  /\ IF site[command[o].dir] = Absent THEN GoTo(o, "empty") ELSE Finish(o)
  /\ UNCHANGED <<source, backup, site, bucket, bounds, stray>>

----------------------------------------------------------------------------
(* reconcile, of the source installation                                   *)

(* reconcile: the rows are listed first ...                                *)
ReconcileRows(o) ==
  /\ schema = binary
  /\ Begin(o, [AtRest EXCEPT !.name = "reconcile", !.step = "keys", !.rows = rows])
  /\ UNCHANGED <<source, backup, site, bucket, faults, crashes, served, stray>>

(* ... then the stored keys: a key without a row, or stored under a row    *)
(* that is not complete, and a complete row without a key, are findings    *)
(* (inspect_physical and inspect_metadata).                                *)
ReconcileKeys(o) ==
  /\ At(o, "reconcile", "keys")
  /\ LET physical == {k \in Keys : bytes[k] # "none"}
         complete == Complete(command[o].rows)
     IN  Set(o, [command[o] EXCEPT !.step = "observe",
                   !.todo = complete \cap physical,
                   !.clean = physical = complete])
  /\ UNCHANGED <<source, backup, site, bucket, bounds, stray>>

(* inspect_complete: every other object is read and hashed.                *)
ObserveNothing(o, k) ==
  /\ At(o, "reconcile", "observe")
  /\ k \in command[o].todo
  /\ Set(o, [command[o] EXCEPT !.todo = @ \ {k}])
  /\ UNCHANGED <<source, backup, site, bucket, bounds, stray>>

InspectComplete(o, k) ==
  /\ At(o, "reconcile", "observe")
  /\ k \in command[o].todo
  /\ Set(o, [command[o] EXCEPT !.todo = @ \ {k},
                               !.clean = @ /\ bytes[k] = "right"])
  /\ UNCHANGED <<source, backup, site, bucket, bounds, stray>>

ReconcileReport(o) ==
  /\ At(o, "reconcile", "observe")
  /\ command[o].todo = {}
  /\ Finish(o)
  /\ UNCHANGED <<source, backup, site, bucket, bounds, stray>>

----------------------------------------------------------------------------
ServerStep == \E k \in Keys :
  \/ Reserve(k) \/ PutBytes(k) \/ CompleteUpload(k) \/ AbortUpload(k)
  \/ DeleteBytes(k) \/ DeleteRow(k) \/ Damage(k)

VersionStep == Start \/ UpgradePreflight \/ RollbackPreflight

BeginStep(o) ==
  \/ BackupBegin(o) \/ ReconcileRows(o)
  \/ \E d \in Dirs, shared \in BOOLEAN :
       RestoreBegin(o, d, shared) \/ MigrateBegin(o, d, shared)

(* What a running command does next.                                       *)
CommandStep(o) ==
  \/ \E k \in Keys : CopyObject(o, k) \/ InspectComplete(o, k)
                     \/ PutObject(o, k) \/ TakeBack(o, k)
  \/ BackupPersist(o) \/ ReconcileKeys(o) \/ ReconcileReport(o)
  \/ PollExport(o) \/ PrepareMigration(o) \/ ImportBegin(o)
  \/ RequireEmpty(o) \/ Imported(o) \/ Activate(o) \/ CleanedUp(o)

FaultStep ==
  \/ \E k \in Keys : DamageBackup(k)
  \/ \E o \in Operators, k \in Keys : PutFails(o, k) \/ TakeBackFails(o, k)
  \/ \E o \in Operators : Crash(o)

RecoveryNext ==
  \/ ServerStep
  \/ VersionStep
  \/ FaultStep
  \/ \E o \in Operators : BeginStep(o) \/ CommandStep(o)

RecoverySpec == RecoveryInit /\ [][RecoveryNext]_recoveryVars

----------------------------------------------------------------------------
(* Types.                                                                  *)
RecoveryTypeOK ==
  /\ rows \in [Keys -> States]
  /\ bytes \in [Keys -> Stored]
  /\ schema \in 1..MaxSchema
  /\ binary \in 1..MaxSchema
  /\ bucket \in [Keys -> Stored]
  /\ stray \subseteq Keys
  /\ site \in [Dirs -> Installations \cup {Absent}]
  /\ \A o \in Operators :
       /\ command[o].rows \in [Keys -> States]
       /\ command[o].todo \subseteq Keys
       /\ command[o].imported \subseteq Keys

(* A backup that was published restores: every row its snapshot calls      *)
(* complete has its bytes in the directory unless the medium lost them     *)
(* since, and none is pending, whatever the running server uploaded,       *)
(* deleted or damaged while the objects were copied (recovery_backup.rs).  *)
BackupIsWhole ==
  backup # Absent =>
    /\ \A k \in Keys : backup.rows[k] # "pending"
    /\ Cardinality({k \in Complete(backup.rows) : backup.files[k] # "right"})
         <= faults

(* An installation that became visible has the bytes of every object its   *)
(* metadata names, and keeps them, even when it shares its bucket with     *)
(* other restores and migrations that fail, clean up or are killed.        *)
InstallationIsWhole ==
  \A d \in Dirs : site[d] # Absent =>
    \A k \in Complete(site[d].rows) :
      (IF site[d].shared THEN bucket[k] ELSE site[d].own[k]) = "right"

(* An object in the bucket that no installation names and no running       *)
(* command put there is one whose put or deletion was not answered, or     *)
(* whose command was killed: every other failure takes back what it put.   *)
FailureLeavesNothing ==
  \A k \in Keys : bucket[k] # "none" =>
    \/ k \in stray
    \/ \E d \in Dirs : /\ site[d] # Absent /\ site[d].shared
                       /\ k \in Complete(site[d].rows)
    \/ \E o \in Operators : command[o].shared /\ k \in command[o].imported

(* What a migration imports is what the export calls live: the ready       *)
(* versions all of whose ancestors are live, in the workspaces asked for,  *)
(* with the shares of those and nothing that dangles (projection.rs).      *)
MigrationIsClosed ==
  \A o \in Operators : command[o].export # Absent =>
    LET e == command[o].export
        plan == Prepare(e, Asked)
        LiveWs(w) == /\ Asked = {} \/ w \in Asked
                     /\ \E x \in e.workspaces : x.ref = w /\ ~x.deleted
        LiveProject(p) == \E x \in e.projects : x.ref = p /\ ~x.deleted /\ LiveWs(x.ws)
        LiveObject(b) == \E x \in e.objects :
          x.ref = b /\ ~x.deleted /\ LiveWs(x.ws) /\ LiveProject(x.project)
    IN  plan # Invalid =>
        /\ {v.ref : v \in plan.versions} =
             {v.ref : v \in {x \in e.versions :
                ~x.deleted /\ x.status = "ready" /\ LiveObject(x.object)}}
        /\ SnapshotIsValid(plan)
        /\ \A s \in plan.shares : s.address =>
             \E x \in e.shares : x.ref = s.ref /\ x.status = "active"

(* On an installation nobody wrote to meanwhile, a report is clean exactly *)
(* when rows and bytes agree (reconciliation.rs).                          *)
ReportIsExact ==
  \A o \in Operators :
    At(o, "reconcile", "observe") /\ command[o].todo = {} /\ command[o].quiet =>
      (command[o].clean <=>
         \A k \in Keys : bytes[k] = IF rows[k] = "complete" THEN "right" ELSE "none")

(* Binaries changed only after their preflight passed always open the      *)
(* installation: no rollback leaves a schema newer than the binary.        *)
BinaryOpensSchema == schema <= binary

(* The ways back stay open: a published backup restores, and the binary    *)
(* opens the schema (recovery_backup.rs, recovery_upgrade.rs).             *)
GoingBackIsSafe == RecoveryTypeOK /\ BackupIsWhole /\ BinaryOpensSchema

(* A restore or a migration that ends has made a whole installation of     *)
(* what it was given, or has taken back what it put                        *)
(* (recovery_restore.rs, hosted_migration_import.rs).                      *)
InstallationsAreWhole == InstallationIsWhole /\ FailureLeavesNothing /\ MigrationIsClosed
=============================================================================
