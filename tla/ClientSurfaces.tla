--------------------------- MODULE ClientSurfaces ---------------------------
(***************************************************************************)
(* Clients at work, and an author with an application manifest.  No        *)
(* command of Clients reads the manifest and `blobyard app` reads nothing  *)
(* of theirs, so the author works while no terminal has been used.         *)
(***************************************************************************)
EXTENDS Clients, ManifestSamples

SurfacesInit == ClientsInit /\ ManifestInit

\* One of the initial states, which differ only in what terminals find.
Unused == ClientsInit /\ settings.scope = {} /\ profiles = {} /\ yards = Nothing

SurfacesNext ==
  \/ manifestVars = <<NoFile, Silence>> /\ ClientsNext /\ UNCHANGED manifestVars
  \/ Unused /\ ManifestNext /\ UNCHANGED clientVars

SurfacesSpec == SurfacesInit /\ [][SurfacesNext]_<<clientVars, manifestVars>>
=============================================================================
