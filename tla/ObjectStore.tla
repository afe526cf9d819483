---------------------------- MODULE ObjectStore ----------------------------
(***************************************************************************)
(* What the ObjectStorage trait of blobyard-contract promises its callers: *)
(* a key holds nothing or one complete object, an object appears in one    *)
(* step and only where there is none, and it stays, unchanged, until       *)
(* somebody asks for it to be deleted.                                     *)
(***************************************************************************)
EXTENDS FiniteSets

CONSTANTS Keys, Contents, None

VARIABLES
  stored,   \* the object a read of the key returns
  acked,    \* the contents some put or complete_multipart committed
  wanted    \* somebody asked to delete the key

vars == <<stored, acked, wanted>>

Init ==
  /\ stored = [k \in Keys |-> None]
  /\ acked = [k \in Keys |-> {}]
  /\ wanted = [k \in Keys |-> FALSE]

(* put and complete_multipart: the first writer of a key wins, and the key *)
(* is readable when its call returns.                                      *)
Commit(k, c) ==
  /\ stored[k] = None
  /\ acked[k] = {}
  /\ ~wanted[k]
  /\ stored' = [stored EXCEPT ![k] = c]
  /\ acked' = [acked EXCEPT ![k] = {c}]
  /\ UNCHANGED wanted

(* delete: from the moment it is called the object may be gone.            *)
Delete(k) ==
  /\ wanted' = [wanted EXCEPT ![k] = TRUE]
  /\ stored' \in {stored, [stored EXCEPT ![k] = None]}
  /\ UNCHANGED acked

(* Once a deletion was asked for, what a key holds is only promised to be  *)
(* one whole object or nothing: a write that races it may win or lose.     *)
Race(k) ==
  /\ wanted[k]
  /\ \E c \in Contents \cup {None} : stored' = [stored EXCEPT ![k] = c]
  /\ \E s \in SUBSET Contents : acked' = [acked EXCEPT ![k] = s]
  /\ UNCHANGED wanted

Next == \E k \in Keys :
  \/ \E c \in Contents : Commit(k, c)
  \/ Delete(k)
  \/ Race(k)

Spec == Init /\ [][Next]_vars
=============================================================================
