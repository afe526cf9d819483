--------------------------- MODULE MCTransfers ----------------------------
(* TLC instance of Transfers: two commands over one source file, one small *)
(* and two large contents of two parts sent one batch each.                *)
EXTENDS TransferPromises, TLC
=============================================================================
