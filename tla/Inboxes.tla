------------------------------ MODULE Inboxes ------------------------------
(***************************************************************************)
(* A public upload inbox of Blob Yard Core: guests who hold its capability *)
(* reserve, complete and abort uploads against its capacity; operators of  *)
(* the workspace revoke it and may complete or abort any upload by its id. *)
(*                                                                         *)
(* A guest's request reads the clock and the inbox once, when it is        *)
(* authorised; its transaction runs later with that reading.  Parts and    *)
(* stored bytes are the matter of Uploads; an upload here is single.       *)
(***************************************************************************)
EXTENDS Naturals, FiniteSets, FiniteSetsExt

CONSTANTS
  Guests,        \* requests in flight
  Uploads,       \* upload ids: a guest's fingerprint and idempotency key
  Size,          \* expected_size of each upload
  MaximumFiles,  \* inboxes.maximum_files
  MaximumBytes,  \* inboxes.maximum_bytes
  InboxExpiry,   \* inboxes.expires_at_ms
  GrantLifetime, \* GRANT_LIFETIME_MS
  MaxTime        \* bound on the clock

ASSUME InboxesAssumption ==
  /\ Size \in [Uploads -> Nat]
  /\ MaximumFiles \in Nat \ {0}
  /\ MaximumBytes \in Nat \ {0}
  /\ InboxExpiry \in Nat \ {0}
  /\ GrantLifetime \in Nat \ {0}
  /\ MaxTime \in Nat

VARIABLES
  status,     \* inboxes.status
  reserved,   \* inboxes.reserved_files and reserved_bytes
  current,    \* inboxes.current_files and current_bytes
  res,        \* upload_reservations.state, "none" when there is no row
  expires,    \* upload_reservations.expires_at_ms
  link,       \* inbox_uploads.status, "none" when there is no row
  request,    \* the guests' requests that were authorised
  now

ledger == <<status, reserved, current>>
vars == <<ledger, res, expires, link, request, now>>

NoRequest == [kind |-> "none"]

Init ==
  /\ status = "active"
  /\ reserved = [files |-> 0, bytes |-> 0]
  /\ current = [files |-> 0, bytes |-> 0]
  /\ res = [u \in Uploads |-> "none"]
  /\ expires = [u \in Uploads |-> 0]
  /\ link = [u \in Uploads |-> "none"]
  /\ request = [g \in Guests |-> NoRequest]
  /\ now = 0

Plus(counter, u) == [files |-> counter.files + 1, bytes |-> counter.bytes + Size[u]]
Minus(counter, u) == [files |-> counter.files - 1, bytes |-> counter.bytes - Size[u]]

Smaller(a, b) == IF a <= b THEN a ELSE b

----------------------------------------------------------------------------
(* Guests                                                                  *)

(* active_by_capability at a time.                                         *)
ActiveAt(t) == status = "active" /\ InboxExpiry > t

Authorize(g, kind, u) ==
  /\ request[g] = NoRequest
  /\ ActiveAt(now)
  /\ request' = [request EXCEPT ![g] = [kind |-> kind, upload |-> u, at |-> now]]
  /\ UNCHANGED <<ledger, res, expires, link, now>>

Answer(g) == request' = [request EXCEPT ![g] = NoRequest]

GrantExpiry(t) == Smaller(t + GrantLifetime, InboxExpiry)

HasCapacity(u) ==
  /\ current.files + reserved.files < MaximumFiles
  /\ current.bytes + reserved.bytes + Size[u] <= MaximumBytes

(* reserve: capacity, version, reservation and link in one transaction.    *)
ReserveUpload(g) ==
  LET u == request[g].upload IN
  /\ request[g].kind = "issue"
  /\ ActiveAt(request[g].at)
  /\ HasCapacity(u)
  /\ res[u] = "none"
  /\ reserved' = Plus(reserved, u)
  /\ res' = [res EXCEPT ![u] = "requested"]
  /\ expires' = [expires EXCEPT ![u] = GrantExpiry(request[g].at)]
  /\ link' = [link EXCEPT ![u] = "reserved"]
  /\ Answer(g)
  /\ UNCHANGED <<status, current, now>>

(* replay: the id is taken (or the inbox is full); a reservation of the    *)
(* same id that still waits for bytes answers, renewed when it expired.    *)
ReplayUpload(g) ==
  LET u == request[g].upload IN
  /\ request[g].kind = "issue"
  /\ ActiveAt(request[g].at)
  /\ res[u] = "requested"
  /\ expires' = [expires EXCEPT ![u] = IF @ <= request[g].at THEN GrantExpiry(request[g].at) ELSE @]
  /\ Answer(g)
  /\ UNCHANGED <<ledger, res, link, now>>

(* PUT to the upload's own capability: the inbox is not looked at, and the *)
(* reservation's expiry only when the PUT begins, however long it takes.   *)
ReceiveBytes(u) ==
  /\ res[u] = "requested"
  /\ res' = [res EXCEPT ![u] = "uploaded"]
  /\ UNCHANGED <<ledger, expires, link, request, now>>

(* Mutant: the inbox is only looked at when the request is authorised.     *)
CompleteStale(g) ==
  LET u == request[g].upload IN
  /\ request[g].kind = "complete"
  /\ res[u] = "uploaded"
  /\ link[u] = "reserved"
  /\ reserved' = Minus(reserved, u)
  /\ current' = Plus(current, u)
  /\ res' = [res EXCEPT ![u] = "complete"]
  /\ link' = [link EXCEPT ![u] = "complete"]
  /\ Answer(g)
  /\ UNCHANGED <<status, expires, now>>

CompleteUpload(g) ==
  LET u == request[g].upload IN
  /\ request[g].kind = "complete"
  /\ ActiveAt(request[g].at)
  /\ res[u] = "uploaded"
  /\ link[u] = "reserved"
  /\ reserved.files >= 1 /\ reserved.bytes >= Size[u]
  /\ reserved' = Minus(reserved, u)
  /\ current' = Plus(current, u)
  /\ res' = [res EXCEPT ![u] = "complete"]
  /\ link' = [link EXCEPT ![u] = "complete"]
  /\ Answer(g)
  /\ UNCHANGED <<status, expires, now>>

(* Mutant: an abort that raced a completion still releases the capacity.   *)
AbortCompleted(g) ==
  LET u == request[g].upload IN
  /\ request[g].kind = "abort"
  /\ ActiveAt(request[g].at)
  /\ res[u] \in {"requested", "uploaded", "complete"}
  /\ reserved.files >= 1 /\ reserved.bytes >= Size[u]
  /\ reserved' = Minus(reserved, u)
  /\ IF res[u] = "complete" THEN UNCHANGED <<res, link>>
     ELSE /\ res' = [res EXCEPT ![u] = "aborted"]
          /\ link' = [link EXCEPT ![u] = "aborted"]
  /\ Answer(g)
  /\ UNCHANGED <<status, current, expires, now>>

AbortUpload(g) ==
  LET u == request[g].upload IN
  /\ request[g].kind = "abort"
  /\ ActiveAt(request[g].at)
  /\ res[u] \in {"requested", "uploaded"}
  /\ link[u] = "reserved"
  /\ reserved.files >= 1 /\ reserved.bytes >= Size[u]
  /\ reserved' = Minus(reserved, u)
  /\ res' = [res EXCEPT ![u] = "aborted"]
  /\ link' = [link EXCEPT ![u] = "aborted"]
  /\ Answer(g)
  /\ UNCHANGED <<status, current, expires, now>>

(* The transaction refuses (revoked, wrong state, no capacity, no row) and *)
(* the request ends with an error; a client that goes away looks the same. *)
Refuse(g) ==
  /\ request[g] # NoRequest
  /\ Answer(g)
  /\ UNCHANGED <<ledger, res, expires, link, now>>

----------------------------------------------------------------------------
(* Operators                                                               *)

RevokeInbox ==
  /\ status = "active"
  /\ status' = "revoked"
  /\ UNCHANGED <<reserved, current, res, expires, link, request, now>>

(* complete_operator_upload and abort_operator_upload authorise by project *)
(* only, and complete_upload and abort_upload know nothing of inboxes.     *)
OperatorComplete(u) ==
  /\ res[u] = "uploaded"
  /\ res' = [res EXCEPT ![u] = "complete"]
  /\ UNCHANGED <<ledger, expires, link, request, now>>

OperatorAbort(u) ==
  /\ res[u] \in {"requested", "uploaded"}
  /\ res' = [res EXCEPT ![u] = "aborted"]
  /\ UNCHANGED <<ledger, expires, link, request, now>>

(* A deleted version takes its reservation with it, and by the foreign key *)
(* the link; the counters stay.                                            *)
DeleteVersion(u) ==
  /\ res[u] \in {"complete", "aborted"}
  /\ res' = [res EXCEPT ![u] = "none"]
  /\ link' = [link EXCEPT ![u] = "none"]
  /\ UNCHANGED <<ledger, expires, request, now>>

Tick ==
  /\ now < MaxTime
  /\ now' = now + 1
  /\ UNCHANGED <<ledger, res, expires, link, request>>

Next ==
  \/ \E g \in Guests, u \in Uploads, kind \in {"issue", "complete", "abort"} : Authorize(g, kind, u)
  \/ \E g \in Guests :
       ReserveUpload(g) \/ ReplayUpload(g) \/ CompleteUpload(g) \/ AbortUpload(g) \/ Refuse(g)
  \/ \E u \in Uploads : ReceiveBytes(u) \/ OperatorComplete(u) \/ OperatorAbort(u) \/ DeleteVersion(u)
  \/ RevokeInbox
  \/ Tick

Spec == Init /\ [][Next]_vars

----------------------------------------------------------------------------
(* Properties                                                              *)

Counters == [files : 0..MaximumFiles, bytes : 0..MaximumBytes]

(* Rows and requests hold values of their types: no counter exceeds its    *)
(* limit and no reservation outlives the inbox, however often renewed.     *)
TypeOK ==
  /\ status \in {"active", "revoked"}
  /\ reserved \in Counters
  /\ current \in Counters
  /\ res \in [Uploads -> {"none", "requested", "uploaded", "complete", "aborted"}]
  /\ expires \in [Uploads -> 0..InboxExpiry]
  /\ link \in [Uploads -> {"none", "reserved", "complete", "aborted"}]
  /\ request \in [Guests -> {NoRequest} \cup
       [kind : {"issue", "complete", "abort"}, upload : Uploads, at : 0..MaxTime]]
  /\ now \in 0..MaxTime

Total(S) == [files |-> Cardinality(S), bytes |-> MapThenSumSet(LAMBDA u : Size[u], S)]

Within(a, b) == a.files <= b.files /\ a.bytes <= b.bytes

(* The files an inbox holds or still waits for never exceed what it was    *)
(* created for, whatever guests and operators do to them: the counters     *)
(* admit a reservation, and this is about the uploads themselves.          *)
NeverOverfull ==
  Within(Total({u \in Uploads : res[u] \in {"requested", "uploaded", "complete"}}),
         [files |-> MaximumFiles, bytes |-> MaximumBytes])

(* The counters cover every link, so that the guards of complete_capacity  *)
(* and release_capacity never refuse a guest whose upload is reserved.     *)
CountersCoverLinks ==
  /\ Within(Total({u \in Uploads : link[u] = "reserved"}), reserved)
  /\ Within(Total({u \in Uploads : link[u] = "complete"}), current)

(* A revoked inbox takes nothing more: requests that were authorised       *)
(* before the revocation neither reserve nor complete anything after it.   *)
RevokedIsFrozen ==
  [][status = "revoked" => current' = current /\ reserved' = reserved /\ status' = "revoked"]_vars
=============================================================================
