---------------------------- MODULE HostedExport ----------------------------
(***************************************************************************)
(* The account export of Blob Yard Cloud and its projection onto the       *)
(* metadata of a standalone installation (hosted_migration_projection*.rs).*)
(*                                                                         *)
(* An export is six datasets whose records refer to each other by opaque   *)
(* references.  Names, slugs, times and checksums are abstracted away; a   *)
(* record keeps its reference, the references it makes and whether it was  *)
(* deleted.  Every step of the projection either yields its records or     *)
(* Invalid, and an Invalid step stops the migration before anything is     *)
(* written.                                                                *)
(***************************************************************************)
EXTENDS Naturals, FiniteSets

CONSTANT Invalid   \* what a refused selection yields

Datasets == {"workspace", "projects", "objects", "versions", "shares",
             "retention_policies"}

(* parse_index and validate_parts: the index lists each part once, from    *)
(* number 1, with bounded sizes, and download_datasets needs every one of  *)
(* the six datasets.                                                       *)
IndexIsValid(parts, artifacts) ==
  /\ Cardinality(parts) + 1 = artifacts
  /\ \A p, q \in parts : p.number = q.number => p = q
  /\ \A p \in parts : p.number > 0 /\ p.small

DatasetsComplete(parts) == Datasets \subseteq {p.dataset : p \in parts}

Live(records) == {r \in records : ~r.deleted}

Unique(records) == \A r, s \in records : r.ref = s.ref => r = s

(* select_workspaces: the live workspaces asked for (all, when none was    *)
(* named); every name asked for must be there, and something must be left. *)
SelectWorkspaces(records, asked) ==
  LET chosen == {w \in Live(records) : asked = {} \/ w.ref \in asked}
  IN  IF \/ chosen = {}
         \/ asked # {} /\ {w.ref : w \in chosen} # asked
         \/ ~Unique(chosen)
      THEN Invalid ELSE chosen

(* select_projects: the live projects of those workspaces.                 *)
SelectProjects(records, workspaces) ==
  LET chosen == {p \in Live(records) : \E w \in workspaces : w.ref = p.ws}
  IN  IF Unique(chosen) THEN chosen ELSE Invalid

(* select_objects: the live objects of those projects.  An object whose    *)
(* workspace is not its project's is an error.                             *)
SelectObjects(records, workspaces, projects) ==
  LET chosen == {o \in Live(records) :
                   /\ \E w \in workspaces : w.ref = o.ws
                   /\ \E p \in projects : p.ref = o.project}
  IN  IF /\ \A o \in chosen :
              \A p \in projects : p.ref = o.project => p.ws = o.ws
         /\ Unique(chosen)
      THEN chosen ELSE Invalid

(* validate_version_relations: the version names the workspace and project *)
(* of its object, both selected, and its uri the same three.               *)
VersionRelates(v, object, workspaces, projects) ==
  /\ \E w \in workspaces : w.ref = v.ws
  /\ \E p \in projects : p.ref = v.project /\ p.ws = v.ws
  /\ object.ws = v.ws
  /\ object.project = v.project
  /\ v.number > 0

(* select_versions: the live and ready versions of the selected objects.   *)
SelectVersions(records, workspaces, projects, objects) ==
  LET chosen == {v \in Live(records) : /\ v.status = "ready"
                                       /\ \E o \in objects : o.ref = v.object}
  IN  IF /\ \A v \in chosen : \A o \in objects :
              o.ref = v.object => VersionRelates(v, o, workspaces, projects)
         /\ Unique(chosen)
      THEN chosen ELSE Invalid

(* share_status: an expired share stays an active one whose time has       *)
(* passed; only an active one is given a usable replacement address.       *)
ShareStatus(status) ==
  CASE status \in {"active", "expired"} -> "active"
    [] status = "exhausted" -> "exhausted"
    [] status = "revoked" -> "revoked"

(* select_shares: the shares of the selected versions, each with a newly   *)
(* generated capability.                                                   *)
SelectShares(records, workspaces, versions) ==
  {[ref |-> s.ref, version |-> s.version, status |-> ShareStatus(s.status),
    address |-> s.status = "active"] :
      s \in {r \in records : /\ \E w \in workspaces : w.ref = r.ws
                             /\ \E v \in versions : v.ref = r.version}}

(* select_retention: one policy for each selected project.                 *)
SelectRetention(records, projects) ==
  {r \in records : \E p \in projects : p.ref = r.project}

(* prepare: the six selections one after the other.                        *)
Prepare(export, asked) ==
  LET ws == SelectWorkspaces(export.workspaces, asked)
      ps == IF ws = Invalid THEN Invalid ELSE SelectProjects(export.projects, ws)
      os == IF ps = Invalid THEN Invalid
            ELSE SelectObjects(export.objects, ws, ps)
      vs == IF os = Invalid THEN Invalid
            ELSE SelectVersions(export.versions, ws, ps, os)
  IN  IF vs = Invalid THEN Invalid
      ELSE [workspaces |-> ws, projects |-> ps, versions |-> vs,
            shares |-> SelectShares(export.shares, ws, vs),
            retention |-> SelectRetention(export.retention, ps)]

(* validate_snapshot of import_migration, and the foreign keys of the      *)
(* tables it fills: every row's parent is imported with it.                *)
SnapshotIsValid(s) ==
  /\ s.workspaces # {}
  /\ \A p \in s.projects : \E w \in s.workspaces : w.ref = p.ws
  /\ \A v \in s.versions : \E p \in s.projects : p.ref = v.project
  /\ \A h \in s.shares : \E v \in s.versions : v.ref = h.version
  /\ \A r \in s.retention : \E p \in s.projects : p.ref = r.project
=============================================================================
