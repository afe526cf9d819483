---------------------------- MODULE PublicLinks ----------------------------
(***************************************************************************)
(* Capabilities that expose stored versions to people without an account:  *)
(* shares with an optional download limit, the short download grants they  *)
(* and operators issue, and previews.  Handlers read the clock and their   *)
(* target first and write, or open the stored object, later; meanwhile an  *)
(* operator revokes the link or a deletion plan takes the version away.    *)
(***************************************************************************)
EXTENDS Naturals, FiniteSets

CONSTANTS
  Versions,      \* complete object versions
  Shares,        \* share ids
  Handlers,      \* requests in flight
  Limits,        \* maximum_downloads, 0 for none: the repository takes any, the server asks for none
  ShareLifetime, \* a share's and a preview's time to live
  ShareDownload, \* SHARE_DOWNLOAD_TTL_MS
  GrantLifetime, \* GRANT_LIFETIME_MS
  MaxGrants,     \* bound on the grants a share issues and an operator adds to
  MaxTime        \* bound on the clock

Nobody == "nobody"
None == "none"

\* What is assumed of the constants (GuestSurface assumes it of its instance).
PublicLinksAssumption ==
  /\ Nobody \notin Shares /\ None \notin Versions
  /\ Limits \subseteq Nat
  /\ ShareLifetime \in Nat \ {0}
  /\ ShareDownload \in Nat \ {0}
  /\ GrantLifetime \in Nat \ {0}
  /\ MaxGrants \in Nat
  /\ MaxTime \in Nat

VARIABLES
  row,      \* object_versions, "gone" once the row is removed
  bytes,    \* the versions whose stored object exists
  share,    \* shares
  grants,   \* download_grants, with the share that issued each
  issued,   \* history: grants ever issued by each share
  preview,  \* one preview and its preview_files
  closed,   \* history: when each share was revoked
  handler,
  now

vars == <<row, bytes, share, grants, issued, preview, closed, handler, now>>

NoShare == [status |-> "none", version |-> None, expires |-> 0, maximum |-> 0, consumed |-> 0]
NoPreview == [status |-> "none", files |-> {}, expires |-> 0]
Idle == [step |-> "idle", share |-> Nobody, version |-> None, at |-> 0]

Init ==
  /\ row = [v \in Versions |-> "complete"]
  /\ bytes = Versions
  /\ share = [s \in Shares |-> NoShare]
  /\ grants = {}
  /\ issued = [s \in Shares |-> 0]
  /\ preview = NoPreview
  /\ closed = [s \in Shares |-> MaxTime]
  /\ handler = [h \in Handlers |-> Idle]
  /\ now = 0

IsIdle(h) == handler[h].step = "idle"

Go(h, step, s, v) ==
  handler' = [handler EXCEPT ![h] = [step |-> step, share |-> s, version |-> v, at |-> now]]

Done(h) == handler' = [handler EXCEPT ![h] = Idle]

Smaller(a, b) == IF a <= b THEN a ELSE b

----------------------------------------------------------------------------
(* Shares                                                                  *)

(* create_at resolves the object; create_share checks it again.            *)
ResolveTarget(h, s, v) ==
  /\ IsIdle(h)
  /\ share[s].status = "none"
  /\ row[v] = "complete"
  /\ Go(h, "create", s, v)
  /\ UNCHANGED <<row, bytes, share, grants, issued, preview, closed, now>>

CreateShare(h, limit) ==
  LET s == handler[h].share
      v == handler[h].version IN
  /\ handler[h].step = "create"
  /\ share[s].status = "none"
  /\ row[v] = "complete"
  /\ share' = [share EXCEPT ![s] = [status |-> "active", version |-> v,
                 expires |-> handler[h].at + ShareLifetime, maximum |-> limit, consumed |-> 0]]
  /\ Done(h)
  /\ UNCHANGED <<row, bytes, grants, issued, preview, closed, now>>

(* target_by_capability: the statuses a caller accepts, unexpired, and a   *)
(* version that is still there.                                            *)
Targets(s, statuses, t) ==
  /\ share[s].status \in statuses
  /\ share[s].expires > t
  /\ share[s].version # None
  /\ row[share[s].version] = "complete"

(* issue_share_download_at reads the share, exhausted ones included.       *)
OpenShare(h, s) ==
  /\ IsIdle(h)
  /\ Targets(s, {"active", "exhausted"}, now)
  /\ Go(h, "issue", s, share[s].version)
  /\ UNCHANGED <<row, bytes, share, grants, issued, preview, closed, now>>

ShareGrant(h) ==
  [share |-> handler[h].share, version |-> handler[h].version,
   expires |-> Smaller(handler[h].at + ShareDownload, share[handler[h].share].expires)]

(* Mutant: the share is exhausted one download late.                       *)
ConsumedLate(record) ==
  [record EXCEPT !.consumed = @ + 1,
                 !.status = IF record.maximum > 0 /\ record.consumed >= record.maximum
                              THEN "exhausted" ELSE "active"]

Consumed(record) ==
  [record EXCEPT !.consumed = @ + 1,
                 !.status = IF record.maximum = record.consumed + 1 THEN "exhausted" ELSE "active"]

(* Mutant: the share read before the transaction is trusted in it.         *)
IssueStale(h) ==
  LET s == handler[h].share IN
  /\ handler[h].step = "issue"
  /\ issued[s] < MaxGrants
  /\ grants' = grants \cup {ShareGrant(h)}
  /\ share' = [share EXCEPT ![s] = Consumed(@)]
  /\ issued' = [issued EXCEPT ![s] = @ + 1]
  /\ Done(h)
  /\ UNCHANGED <<row, bytes, preview, closed, now>>

IssueShareDownload(h) ==
  LET s == handler[h].share IN
  /\ handler[h].step = "issue"
  /\ issued[s] < MaxGrants
  /\ Targets(s, {"active"}, handler[h].at)
  /\ share[s].version = handler[h].version
  /\ grants' = grants \cup {ShareGrant(h)}
  /\ share' = [share EXCEPT ![s] = Consumed(@)]
  /\ issued' = [issued EXCEPT ![s] = @ + 1]
  /\ Done(h)
  /\ UNCHANGED <<row, bytes, preview, closed, now>>

RevokeShare(s) ==
  /\ share[s].status \in {"active", "exhausted"}
  /\ share' = [share EXCEPT ![s].status = "revoked"]
  /\ closed' = [closed EXCEPT ![s] = now]
  /\ UNCHANGED <<row, bytes, grants, issued, preview, handler, now>>

----------------------------------------------------------------------------
(* Download grants                                                         *)

(* request_download_at of an operator, after resolve_object.               *)
RequestDownload(h, v) ==
  /\ IsIdle(h)
  /\ row[v] = "complete"
  /\ Go(h, "request", Nobody, v)
  /\ UNCHANGED <<row, bytes, share, grants, issued, preview, closed, now>>

IssueDownload(h) ==
  /\ handler[h].step = "request"
  /\ Cardinality(grants) < MaxGrants
  /\ row[handler[h].version] = "complete"
  /\ grants' = grants \cup {[share |-> Nobody, version |-> handler[h].version,
                             expires |-> handler[h].at + GrantLifetime]}
  /\ Done(h)
  /\ UNCHANGED <<row, bytes, share, issued, preview, closed, now>>

(* download_by_capability; the stored object is opened afterwards.         *)
Download(h) ==
  /\ IsIdle(h)
  /\ \E g \in grants :
       /\ g.expires > now
       /\ row[g.version] = "complete"
       /\ Go(h, "read", g.share, g.version)
  /\ UNCHANGED <<row, bytes, share, grants, issued, preview, closed, now>>

(* head and get: bytes, or an error when a deletion came first.            *)
ReadBytes(h) ==
  /\ handler[h].step = "read"
  /\ Done(h)
  /\ UNCHANGED <<row, bytes, share, grants, issued, preview, closed, now>>

Refuse(h) ==
  /\ handler[h].step \in {"create", "issue", "request", "snapshot"}
  /\ Done(h)
  /\ UNCHANGED <<row, bytes, share, grants, issued, preview, closed, now>>

----------------------------------------------------------------------------
(* Previews                                                                *)

(* snapshot_manifest of the listed files, then one transaction that wants  *)
(* every one of them still complete.                                       *)
SnapshotPreview(h) ==
  /\ IsIdle(h)
  /\ preview.status = "none"
  /\ \A v \in Versions : row[v] = "complete"
  /\ Go(h, "snapshot", Nobody, None)
  /\ UNCHANGED <<row, bytes, share, grants, issued, preview, closed, now>>

CreatePreview(h) ==
  /\ handler[h].step = "snapshot"
  /\ preview.status = "none"
  /\ \A v \in Versions : row[v] = "complete"
  /\ preview' = [status |-> "active", files |-> Versions, expires |-> handler[h].at + ShareLifetime]
  /\ Done(h)
  /\ UNCHANGED <<row, bytes, share, grants, issued, closed, now>>

VisitPreview(h, v) ==
  /\ IsIdle(h)
  /\ preview.status = "active"
  /\ preview.expires > now
  /\ v \in preview.files
  /\ row[v] = "complete"
  /\ Go(h, "read", Nobody, v)
  /\ UNCHANGED <<row, bytes, share, grants, issued, preview, closed, now>>

RevokePreview ==
  /\ preview.status = "active"
  /\ preview' = [preview EXCEPT !.status = "revoked"]
  /\ UNCHANGED <<row, bytes, share, grants, issued, closed, handler, now>>

----------------------------------------------------------------------------
(* Deletion: bytes first, then the row with its grants; the foreign keys   *)
(* set the version of shares and preview files to NULL.                    *)
DeleteBytes(v) ==
  /\ v \in bytes
  /\ bytes' = bytes \ {v}
  /\ UNCHANGED <<row, share, grants, issued, preview, closed, handler, now>>

(* Mutant: grants of a removed version are left behind.                    *)
DeleteRowOnly(v) ==
  /\ v \notin bytes
  /\ row[v] = "complete"
  /\ row' = [row EXCEPT ![v] = "gone"]
  /\ share' = [s \in Shares |-> IF share[s].version = v THEN [share[s] EXCEPT !.version = None]
                                ELSE share[s]]
  /\ preview' = [preview EXCEPT !.files = @ \ {v}]
  /\ UNCHANGED <<bytes, grants, issued, closed, handler, now>>

DeleteRow(v) ==
  /\ v \notin bytes
  /\ row[v] = "complete"
  /\ row' = [row EXCEPT ![v] = "gone"]
  /\ share' = [s \in Shares |-> IF share[s].version = v THEN [share[s] EXCEPT !.version = None]
                                ELSE share[s]]
  /\ grants' = {g \in grants : g.version # v}
  /\ preview' = [preview EXCEPT !.files = @ \ {v}]
  /\ UNCHANGED <<bytes, issued, closed, handler, now>>

Tick ==
  /\ now < MaxTime
  /\ now' = now + 1
  /\ UNCHANGED <<row, bytes, share, grants, issued, preview, closed, handler>>

Next ==
  \/ \E h \in Handlers :
       \/ \E s \in Shares, v \in Versions : ResolveTarget(h, s, v)
       \/ \E limit \in Limits : CreateShare(h, limit)
       \/ \E s \in Shares : OpenShare(h, s)
       \/ IssueShareDownload(h) \/ IssueDownload(h)
       \/ \E v \in Versions : RequestDownload(h, v) \/ VisitPreview(h, v)
       \/ Download(h) \/ ReadBytes(h) \/ Refuse(h)
       \/ SnapshotPreview(h) \/ CreatePreview(h)
  \/ \E s \in Shares : RevokeShare(s)
  \/ RevokePreview
  \/ \E v \in Versions : DeleteBytes(v) \/ DeleteRow(v)
  \/ Tick

Spec == Init /\ [][Next]_vars

----------------------------------------------------------------------------
(* Properties                                                              *)

ShareRows ==
  [status : {"none", "active", "exhausted", "revoked"},
   version : Versions \cup {None}, expires : 0..(MaxTime + ShareLifetime),
   maximum : Limits \cup {0}, consumed : 0..MaxGrants]
Calls ==
  [step : {"idle", "create", "issue", "request", "read", "snapshot"},
   share : Shares \cup {Nobody}, version : Versions \cup {None}, at : 0..MaxTime]

(* Rows and handlers hold values of their types, and the shares table's    *)
(* CHECK on consumed_count never refuses an update.                        *)
TypeOK ==
  /\ row \in [Versions -> {"complete", "gone"}]
  /\ bytes \subseteq Versions
  /\ share \in [Shares -> ShareRows]
  /\ \A s \in Shares : share[s].maximum > 0 => share[s].consumed <= share[s].maximum
  /\ \A g \in grants : g.version \in Versions /\ g.share \in Shares \cup {Nobody}
  /\ preview.status \in {"none", "active", "revoked"} /\ preview.files \subseteq Versions
  /\ handler \in [Handlers -> Calls]
  /\ now \in 0..MaxTime

(* A share never issues more downloads than its limit, however many people *)
(* open it at once, and is exhausted exactly when it has issued them all.  *)
LimitRespected ==
  \A s \in Shares :
    LET it == share[s] IN
    /\ it.maximum > 0 => issued[s] <= it.maximum
    /\ it.status \in {"active", "exhausted"} =>
         ((it.status = "exhausted") <=> (it.maximum > 0 /\ issued[s] = it.maximum))

(* What a download through a share was admitted with: the share had not    *)
(* expired, and at most ShareDownload had passed since it was revoked, so  *)
(* revocation reaches the grants already handed out.                       *)
RevocationReaches ==
  \A h \in Handlers :
    LET it == handler[h] IN
    it.step = "read" /\ it.share # Nobody =>
      /\ it.at < share[it.share].expires
      /\ share[it.share].status = "revoked" => it.at < closed[it.share] + ShareDownload

(* A version whose row is gone is named by no grant, share or preview: no  *)
(* handler that read it earlier brings a link to it back.                  *)
NoDanglingLinks ==
  \A v \in Versions :
    row[v] = "gone" =>
      /\ \A g \in grants : g.version # v
      /\ \A s \in Shares : share[s].version # v
      /\ v \notin preview.files
=============================================================================
