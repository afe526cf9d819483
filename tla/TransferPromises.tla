-------------------------- MODULE TransferPromises --------------------------
(***************************************************************************)
(* What the commands of Transfers promise, over names of their own, so     *)
(* that they can stand beside the server that answers them (Uploads).      *)
(***************************************************************************)
CONSTANTS
  Processes, Contents, Large, Initial, BatchSize, MaxEdits, MaxDeploys,  \* of Transfers
  Pieces,       \* part numbers of a large content
  MaxMishaps,   \* bound on lost answers, kills, interrupts, expiries, deletions
  Absent        \* no content, no key, no resume file

VARIABLES file, resume, server, cmd, mishaps

T == INSTANCE Transfers WITH
  Parts <- Pieces, MaxFaults <- MaxMishaps, None <- Absent, faults <- mishaps

ASSUME TransferAssumption == T!TransfersAssumption

TransferSpec == T!Spec

-----------------------------------------------------------------------------
(* Whatever is lost, killed, edited or run twice, resume files, completed  *)
(* large versions and downloaded files are whole and of the right file     *)
(* (usable_resume, single_upload, place_download).                         *)
TransfersAreWhole ==
  T!TypeOK /\ T!LargeVersionsReadable /\ T!ResumeIsOfThisFile /\ T!DownloadIsWhole

(* A success that a command reports is true when it reports it, and a      *)
(* deploy it made live stays so (verify_complete, fail_deploy).            *)
ReportsHold == T!ReportedIsStored /\ T!LiveDeployStays

(* Running the command again completes a large upload that is under way,   *)
(* wherever it was lost or killed (usable_resume, multipart_upload).       *)
LargeUploadFinishes == T!LargeUploadFinishes
=============================================================================
