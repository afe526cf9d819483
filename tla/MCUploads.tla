----------------------------- MODULE MCUploads -----------------------------
(* Uploads for TLC: the handlers are interchangeable, and so are the       *)
(* multipart identifiers (fresh uuids).                                    *)
EXTENDS Uploads, TLC

Symmetry == Permutations(Handlers) \cup Permutations(Ids)
=============================================================================
