-------------------------- MODULE MCGuestSurface ---------------------------
(* TLC instance of GuestSurface.  In the inbox one upload fills the byte   *)
(* limit alone, two the file limit, and uploads of deleted versions count  *)
(* against both.                                                           *)
EXTENDS GuestSurface, TLC
MCUploads == {"a", "b", "c"}
MCSize == [u \in MCUploads |-> IF u = "c" THEN 3 ELSE 1]
Symmetry == Permutations(Guests) \cup Permutations(Handlers)
=============================================================================
