------------------------- MODULE GuestSurfaceProofs -------------------------
(***************************************************************************)
(* Theorems about GuestSurface, for any number of shares, versions,        *)
(* requests and people: what a share, a download grant and a preview admit,*)
(* that an inbox never holds more than it was created for, and that a      *)
(* revoked one takes nothing more.                                         *)
(***************************************************************************)
EXTENDS GuestSurface, FiniteSetTheorems, WellFoundedInduction, TLAPS

PreviewRows ==
  [status : {"none", "active", "revoked"}, files : SUBSET Versions, expires : Nat]

(* Types, with the history variables and the grants' times.                *)
LinkTypes ==
  /\ Links!TypeOK
  /\ issued \in [Shares -> Nat]
  /\ closed \in [Shares -> 0..MaxLinkTime]
  /\ \A g \in grants : g.expires \in Nat
  /\ preview \in PreviewRows

(* A request goes on with the share and the version it read, and with a    *)
(* clock reading that is not of the future.                                *)
CallHolds(it) ==
  /\ it.at <= linkNow
  /\ it.step \in {"create", "issue"} => it.share \in Shares
  /\ it.step \in {"create", "issue", "request"} => it.version \in Versions
  /\ it.step = "issue" => share[it.share].status # "none"
  /\ it.step = "read" /\ it.share # "nobody" => share[it.share].status # "none"

CallsHold == \A h \in Handlers : CallHolds(handler[h])

(* What a share has issued is what it counts, and a share nobody created   *)
(* has issued nothing.                                                     *)
CountHolds(s) ==
  /\ issued[s] = share[s].consumed
  /\ share[s].status = "none" => share[s].consumed = 0

CountsHold == \A s \in Shares : CountHolds(s)

(* A grant ends with its share, and soon after its share is revoked.       *)
GrantHolds(g) ==
  g.share # "nobody" =>
    /\ share[g.share].status # "none"
    /\ g.expires <= share[g.share].expires
    /\ g.expires <= linkNow + ShareDownload
    /\ share[g.share].status = "revoked" => g.expires <= closed[g.share] + ShareDownload

GrantsHold == \A g \in grants : GrantHolds(g)

LinksHold ==
  /\ LinkTypes
  /\ CallsHold
  /\ CountsHold
  /\ GrantsHold
  /\ Links!LimitRespected
  /\ Links!RevocationReaches
  /\ Links!NoDanglingLinks

LEMMA LinkBounds ==
  /\ ShareLifetime \in Nat \ {0} /\ ShareDownload \in Nat \ {0} /\ GrantLifetime \in Nat \ {0}
  /\ MaxGrants \in Nat /\ MaxLinkTime \in Nat /\ Limits \subseteq Nat
  /\ "nobody" \notin Shares /\ "none" \notin Versions
  BY GuestSurfaceAssumption
     DEF Links!PublicLinksAssumption, Links!Nobody, Links!None

LEMMA LinkBlanks ==
  /\ Links!Idle \in Links!Calls /\ Links!Idle.step = "idle" /\ Links!Idle.at = 0
  /\ Links!NoShare \in Links!ShareRows /\ Links!NoShare.status = "none"
  /\ Links!NoShare.version = "none" /\ Links!NoShare.maximum = 0 /\ Links!NoShare.consumed = 0
  /\ Links!NoPreview \in PreviewRows /\ Links!NoPreview.files = {}
<1>1. 0 \in 0..MaxLinkTime /\ 0 \in 0..MaxGrants /\ 0 \in 0..(MaxLinkTime + ShareLifetime)
  BY LinkBounds
<1> QED BY <1>1 DEF Links!Idle, Links!Calls, Links!NoShare, Links!ShareRows, Links!NoPreview,
           PreviewRows, Links!Nobody, Links!None

LEMMA LinkNumbers ==
  ASSUME LinkTypes
  PROVE  /\ linkNow \in Nat
         /\ \A h \in Handlers : handler[h] \in Links!Calls /\ handler[h].at \in Nat
         /\ \A s \in Shares : /\ share[s] \in Links!ShareRows /\ share[s].expires \in Nat
                              /\ share[s].maximum \in Nat /\ share[s].consumed \in Nat
                              /\ issued[s] \in Nat /\ closed[s] \in Nat
<1>1. linkNow \in Nat
  BY LinkBounds DEF LinkTypes, Links!TypeOK
<1>2. \A h \in Handlers : handler[h] \in Links!Calls /\ handler[h].at \in Nat
  BY LinkBounds DEF LinkTypes, Links!TypeOK, Links!Calls
<1>3. \A s \in Shares : share[s] \in Links!ShareRows /\ issued[s] \in Nat /\ closed[s] \in Nat
  BY LinkBounds DEF LinkTypes, Links!TypeOK
<1>4. ASSUME NEW row \in Links!ShareRows
      PROVE  row.expires \in Nat /\ row.maximum \in Nat /\ row.consumed \in Nat
  <2>1. row.expires \in 0..(MaxLinkTime + ShareLifetime) /\ row.consumed \in 0..MaxGrants
        /\ row.maximum \in Limits \cup {0}
    BY DEF Links!ShareRows
  <2>2. row.expires \in Nat /\ row.consumed \in Nat
    BY <2>1
  <2>3. Limits \subseteq Nat
    BY LinkBounds
  <2>4. Limits \cup {0} \subseteq Nat
    BY <2>3
  <2>5. row.maximum \in Nat
    BY <2>1, <2>4, Zenon
  <2> QED BY <2>2, <2>5
<1> QED BY <1>1, <1>2, <1>3, <1>4

-----------------------------------------------------------------------------
(* Requests.                                                               *)

Admits(it) ==
  it.step = "read" /\ it.share # "nobody" =>
    /\ it.at < share[it.share].expires
    /\ share[it.share].status = "revoked" => it.at < closed[it.share] + ShareDownload

LEMMA ReachesIsAdmits == Links!RevocationReaches <=> \A h \in Handlers : Admits(handler[h])
  BY DEF Links!RevocationReaches, Admits, Links!Nobody

(* What the life of a share leaves to the requests that read it.           *)
SharesMove ==
  \A s \in Shares :
    /\ share[s].status # "none" =>
         share'[s].status # "none" /\ share'[s].expires = share[s].expires
    /\ share'[s].status = "revoked" =>
         \/ share[s].status = "revoked" /\ closed'[s] = closed[s]
         \/ closed'[s] = linkNow

LEMMA CallsFollow ==
  ASSUME LinksHold, SharesMove, linkNow' \in {linkNow, linkNow + 1},
         handler' \in [Handlers -> Links!Calls],
         \A h \in Handlers : handler'[h] = handler[h] \/ handler'[h] = Links!Idle
  PROVE  CallsHold' /\ Links!RevocationReaches'
<1>0. LinkTypes
  BY DEF LinksHold
<1> SUFFICES ASSUME NEW h \in Handlers PROVE CallHolds(handler[h])' /\ Admits(handler[h])'
  BY DEF CallsHold, Links!RevocationReaches, Admits, Links!Nobody
<1>1. CASE handler'[h] = Links!Idle
  BY <1>1, <1>0, LinkBlanks, LinkNumbers DEF CallHolds, Admits
<1>2. CASE handler'[h] = handler[h]
  <2> DEFINE it == handler[h]
  <2>1. CallHolds(it) /\ Admits(it)
    BY ReachesIsAdmits DEF LinksHold, CallsHold
  <2>2. it.at \in Nat /\ linkNow \in Nat /\ it.at <= linkNow
    BY <1>0, <2>1, LinkNumbers DEF CallHolds
  <2>3. it.share \in Shares \cup {"nobody"}
    BY <1>0, LinkNumbers DEF Links!Calls, Links!Nobody
  <2>4. CallHolds(handler[h])'
    BY <1>2, <2>1, <2>2, <2>3 DEF CallHolds, SharesMove
  <2>5. Admits(handler[h])'
    <3> SUFFICES ASSUME it.step = "read", it.share \in Shares
                 PROVE  /\ it.at < share'[it.share].expires
                        /\ share'[it.share].status = "revoked" =>
                             it.at < closed'[it.share] + ShareDownload
      BY <1>2, <2>3 DEF Admits
    <3>1. it.share # "nobody"
      BY LinkBounds
    <3>2. share[it.share].status # "none" /\ it.at < share[it.share].expires
      BY <2>1, <3>1 DEF CallHolds, Admits
    <3>3. it.at < linkNow + ShareDownload
      BY <2>2, LinkBounds
    <3> QED BY <2>1, <3>1, <3>2, <3>3 DEF SharesMove, Admits
  <2> QED BY <2>4, <2>5
<1> QED BY <1>1, <1>2

(* A request that reads, and goes on with what it read.                    *)
LEMMA ReadingKeeps ==
  ASSUME LinksHold, NEW h \in Handlers, NEW r \in Links!Calls, handler' = [handler EXCEPT ![h] = r],
         CallHolds(r), Admits(r),
         UNCHANGED <<version, object, share, grants, issued, preview, closed, linkNow>>
  PROVE  LinksHold'
<1>1. handler \in [Handlers -> Links!Calls]
  BY DEF LinksHold, LinkTypes, Links!TypeOK
<1>2. LinkTypes'
  BY <1>1 DEF LinksHold, LinkTypes, Links!TypeOK
<1>3. CallsHold'
  BY <1>1 DEF LinksHold, CallsHold, CallHolds
<1>4. Links!RevocationReaches'
  <2>1. \A k \in Handlers : Admits(handler[k])
    BY ReachesIsAdmits DEF LinksHold
  <2> QED BY <1>1, <2>1 DEF Links!RevocationReaches, Admits, Links!Nobody
<1>5. CountsHold' /\ GrantsHold' /\ Links!LimitRespected' /\ Links!NoDanglingLinks'
  BY DEF LinksHold, CountsHold, CountHolds, GrantsHold, GrantHolds, Links!LimitRespected,
     Links!NoDanglingLinks
<1> QED BY <1>2, <1>3, <1>4, <1>5 DEF LinksHold

LEMMA GoKeeps ==
  ASSUME LinksHold, NEW h \in Handlers,
         NEW step \in {"create", "issue", "request", "read", "snapshot"},
         NEW s \in Shares \cup {"nobody"}, NEW v \in Versions \cup {"none"},
         Links!Go(h, step, s, v),
         UNCHANGED <<version, object, share, grants, issued, preview, closed, linkNow>>,
         step \in {"create", "issue"} => s \in Shares,
         step \in {"create", "issue", "request"} => v \in Versions,
         step = "issue" => share[s].status # "none",
         step = "read" /\ s # "nobody" =>
           /\ share[s].status # "none"
           /\ linkNow < share[s].expires
           /\ share[s].status = "revoked" => linkNow < closed[s] + ShareDownload
  PROVE  LinksHold'
<1> DEFINE r == [step |-> step, share |-> s, version |-> v, at |-> linkNow]
<1>1. linkNow \in 0..MaxLinkTime /\ linkNow \in Nat
  BY LinkNumbers DEF LinksHold, LinkTypes, Links!TypeOK
<1>2. /\ r \in Links!Calls /\ r.step = step /\ r.share = s /\ r.version = v /\ r.at = linkNow
  BY <1>1 DEF Links!Calls, Links!Nobody, Links!None
<1>3. handler' = [handler EXCEPT ![h] = r]
  BY DEF Links!Go
<1> HIDE DEF r
<1>4. CallHolds(r)
  BY <1>1, <1>2 DEF CallHolds
<1>5. Admits(r)
  BY <1>2 DEF Admits
<1> QED BY <1>2, <1>3, <1>4, <1>5, ReadingKeeps

LEMMA DoneKeeps ==
  ASSUME LinksHold, NEW h \in Handlers, Links!Done(h),
         UNCHANGED <<version, object, share, grants, issued, preview, closed, linkNow>>
  PROVE  LinksHold'
<1>1. CallHolds(Links!Idle) /\ Admits(Links!Idle)
  BY LinkBlanks, LinkNumbers DEF LinksHold, CallHolds, Admits
<1> QED BY <1>1, LinkBlanks, ReadingKeeps DEF Links!Done

LEMMA ReadKeeps ==
  ASSUME LinksHold, NEW h \in Handlers,
         \/ \E s \in Shares, v \in Versions : Links!ResolveTarget(h, s, v)
         \/ \E s \in Shares : Links!OpenShare(h, s)
         \/ \E v \in Versions : Links!RequestDownload(h, v) \/ Links!VisitPreview(h, v)
         \/ Links!Download(h) \/ Links!ReadBytes(h) \/ Links!Refuse(h)
         \/ Links!SnapshotPreview(h)
  PROVE  LinksHold'
<1>1. ASSUME NEW s \in Shares, NEW v \in Versions, Links!ResolveTarget(h, s, v) PROVE LinksHold'
  BY <1>1, GoKeeps DEF Links!ResolveTarget
<1>2. ASSUME NEW s \in Shares, Links!OpenShare(h, s) PROVE LinksHold'
  <2>1. share[s].version \in Versions /\ share[s].status # "none"
    BY <1>2, LinkNumbers DEF Links!OpenShare, Links!Targets, Links!None, LinksHold, Links!ShareRows
  <2> QED BY <1>2, <2>1, GoKeeps DEF Links!OpenShare
<1>3. ASSUME NEW v \in Versions, Links!RequestDownload(h, v) \/ Links!VisitPreview(h, v)
      PROVE  LinksHold'
  BY <1>3, GoKeeps DEF Links!RequestDownload, Links!VisitPreview, Links!Nobody
<1>4. ASSUME Links!Download(h) PROVE LinksHold'
  <2>1. PICK g \in grants : g.expires > linkNow /\ Links!Go(h, "read", g.share, g.version)
    BY <1>4 DEF Links!Download
  <2>2. UNCHANGED <<version, object, share, grants, issued, preview, closed, linkNow>>
    BY <1>4 DEF Links!Download
  <2>3. g.version \in Versions /\ g.share \in Shares \cup {"nobody"} /\ g.expires \in Nat
    BY DEF LinksHold, LinkTypes, Links!TypeOK, Links!Nobody
  <2>4. GrantHolds(g)
    BY DEF LinksHold, GrantsHold
  <2>5. ASSUME g.share # "nobody"
        PROVE  /\ share[g.share].status # "none" /\ linkNow < share[g.share].expires
               /\ share[g.share].status = "revoked" => linkNow < closed[g.share] + ShareDownload
    <3>1. g.share \in Shares /\ linkNow \in Nat
      BY <2>3, <2>5, LinkNumbers DEF LinksHold
    <3>2. closed[g.share] + ShareDownload \in Nat /\ share[g.share].expires \in Nat
      BY <3>1, LinkNumbers, LinkBounds DEF LinksHold
    <3> QED BY <2>1, <2>3, <2>4, <2>5, <3>1, <3>2 DEF GrantHolds
  <2> QED BY <2>1, <2>2, <2>3, <2>5, GoKeeps
<1>5. CASE Links!ReadBytes(h) \/ Links!Refuse(h)
  BY <1>5, DoneKeeps DEF Links!ReadBytes, Links!Refuse
<1>6. CASE Links!SnapshotPreview(h)
  BY <1>6, GoKeeps DEF Links!SnapshotPreview, Links!Nobody, Links!None
<1> QED BY <1>1, <1>2, <1>3, <1>4, <1>5, <1>6

-----------------------------------------------------------------------------
(* Shares.                                                                 *)

LEMMA CreateShareKeeps ==
  ASSUME LinksHold, NEW h \in Handlers, NEW limit \in Limits, Links!CreateShare(h, limit)
  PROVE  LinksHold'
<1> DEFINE s == handler[h].share
           v == handler[h].version
           r == [status |-> "active", version |-> v,
                 expires |-> handler[h].at + ShareLifetime, maximum |-> limit, consumed |-> 0]
<1>1. CallHolds(handler[h]) /\ handler[h].step = "create"
  BY DEF LinksHold, CallsHold, Links!CreateShare
<1>2. s \in Shares /\ v \in Versions /\ share[s].status = "none" /\ version[v] = "complete"
  BY <1>1 DEF CallHolds, Links!CreateShare
<1>3. /\ r \in Links!ShareRows /\ r.status = "active" /\ r.version = v /\ r.maximum = limit
      /\ r.consumed = 0
  <2>1. handler[h].at \in 0..MaxLinkTime
    BY LinkNumbers DEF LinksHold, Links!Calls
  <2>2. handler[h].at + ShareLifetime \in 0..(MaxLinkTime + ShareLifetime)
    BY <2>1, LinkBounds
  <2>3. 0 \in 0..MaxGrants /\ limit \in Limits \cup {0}
    BY LinkBounds
  <2> QED BY <1>2, <2>2, <2>3 DEF Links!ShareRows
<1>4. /\ share' = [share EXCEPT ![s] = r] /\ handler' = [handler EXCEPT ![h] = Links!Idle]
      /\ UNCHANGED <<version, object, grants, issued, preview, closed, linkNow>>
  BY DEF Links!CreateShare, Links!Done
<1> HIDE DEF r
<1>5. /\ share \in [Shares -> Links!ShareRows] /\ handler \in [Handlers -> Links!Calls]
  BY DEF LinksHold, LinkTypes, Links!TypeOK
<1>6. share'[s] = r /\ \A i \in Shares : i # s => share'[i] = share[i]
  BY <1>2, <1>4, <1>5
<1>7. LinkTypes'
  <2>1. share' \in [Shares -> Links!ShareRows] /\ handler' \in [Handlers -> Links!Calls]
    BY <1>3, <1>4, <1>5, LinkBlanks
  <2>2. \A i \in Shares : share'[i].maximum > 0 => share'[i].consumed <= share'[i].maximum
    BY <1>3, <1>6, LinkBounds DEF LinksHold, LinkTypes, Links!TypeOK
  <2> QED BY <2>1, <2>2, <1>4 DEF LinksHold, LinkTypes, Links!TypeOK
<1>8. SharesMove
  BY <1>2, <1>3, <1>4, <1>6 DEF SharesMove
<1>9. CallsHold' /\ Links!RevocationReaches'
  BY <1>4, <1>5, <1>8, LinkBlanks, CallsFollow
<1>10. CountsHold'
  <2>1. issued[s] = 0 /\ issued' = issued
    BY <1>2, <1>4 DEF LinksHold, CountsHold, CountHolds
  <2> QED BY <1>3, <1>6, <2>1 DEF LinksHold, CountsHold, CountHolds
<1>11. GrantsHold'
  <2> SUFFICES ASSUME NEW g \in grants, g.share # "nobody" PROVE GrantHolds(g)'
    BY <1>4 DEF GrantsHold, GrantHolds
  <2>1. GrantHolds(g) /\ g.share \in Shares
    BY DEF LinksHold, GrantsHold, LinkTypes, Links!TypeOK, Links!Nobody
  <2> QED BY <1>2, <1>4, <1>6, <2>1 DEF GrantHolds
<1>12. Links!LimitRespected'
  <2>1. issued[s] = 0 /\ issued' = issued /\ limit \in Nat
    BY <1>2, <1>4, LinkBounds DEF LinksHold, CountsHold, CountHolds
  <2> SUFFICES ASSUME NEW i \in Shares
               PROVE  /\ share'[i].maximum > 0 => issued[i] <= share'[i].maximum
                      /\ share'[i].status \in {"active", "exhausted"} =>
                           ((share'[i].status = "exhausted") <=>
                              (share'[i].maximum > 0 /\ issued[i] = share'[i].maximum))
    BY <2>1 DEF Links!LimitRespected
  <2>2. CASE i = s
    BY <1>3, <1>6, <2>1, <2>2
  <2>3. CASE i # s
    BY <1>6, <2>3 DEF LinksHold, Links!LimitRespected
  <2> QED BY <2>2, <2>3
<1>13. Links!NoDanglingLinks'
  BY <1>2, <1>3, <1>4, <1>6 DEF LinksHold, Links!NoDanglingLinks
<1> QED BY <1>7, <1>9, <1>10, <1>11, <1>12, <1>13 DEF LinksHold

(* One download of a share: a row that counts it, of a limit not reached.  *)
LEMMA ConsumedRow ==
  ASSUME NEW row \in Links!ShareRows, row.status = "active", row.consumed < MaxGrants,
         row.maximum > 0 => row.consumed < row.maximum
  PROVE  LET new == Links!Consumed(row) IN
         /\ new \in Links!ShareRows
         /\ new.version = row.version /\ new.expires = row.expires /\ new.maximum = row.maximum
         /\ new.consumed = row.consumed + 1
         /\ new.status \in {"active", "exhausted"}
         /\ (new.status = "exhausted") <=> (row.maximum = row.consumed + 1)
<1>1. row.consumed \in 0..MaxGrants
  BY DEF Links!ShareRows
<1>2. row.consumed + 1 \in 0..MaxGrants
  BY <1>1, LinkBounds
<1> QED BY <1>2 DEF Links!ShareRows, Links!Consumed

LEMMA IssueShareDownloadKeeps ==
  ASSUME LinksHold, NEW h \in Handlers, Links!IssueShareDownload(h)
  PROVE  LinksHold'
<1> DEFINE s == handler[h].share
           row == share[s]
           r == Links!Consumed(row)
           g == Links!ShareGrant(h)
<1>1. CallHolds(handler[h]) /\ handler[h].step = "issue"
  BY DEF LinksHold, CallsHold, Links!IssueShareDownload
<1>2. /\ s \in Shares /\ row.status = "active" /\ row.version \in Versions
      /\ version[row.version] = "complete" /\ handler[h].version = row.version
      /\ issued[s] < MaxGrants
  BY <1>1 DEF CallHolds, Links!IssueShareDownload, Links!Targets, Links!None
<1>3. /\ handler[h].at \in Nat /\ linkNow \in Nat /\ handler[h].at <= linkNow
      /\ row \in Links!ShareRows /\ row.expires \in Nat /\ row.maximum \in Nat
      /\ row.consumed \in Nat /\ issued[s] = row.consumed /\ issued[s] \in Nat
  BY <1>1, <1>2, LinkNumbers DEF LinksHold, CallHolds, CountsHold, CountHolds
<1>4. row.maximum > 0 => row.consumed < row.maximum
  <2>1. /\ row.maximum > 0 => issued[s] <= row.maximum
        /\ ~(row.maximum > 0 /\ issued[s] = row.maximum)
    BY <1>2 DEF LinksHold, Links!LimitRespected
  <2> QED BY <1>3, <2>1
<1>5. /\ r \in Links!ShareRows
      /\ r.version = row.version /\ r.expires = row.expires /\ r.maximum = row.maximum
      /\ r.consumed = row.consumed + 1
      /\ r.status \in {"active", "exhausted"}
      /\ (r.status = "exhausted") <=> (row.maximum = row.consumed + 1)
  BY <1>2, <1>3, <1>4, ConsumedRow
<1>6. /\ g.share = s /\ g.version = row.version /\ g.expires \in Nat
      /\ g.expires <= row.expires /\ g.expires <= linkNow + ShareDownload
  <2>1. g.share = s /\ g.version = row.version
        /\ g.expires = Links!Smaller(handler[h].at + ShareDownload, row.expires)
    BY <1>2 DEF Links!ShareGrant
  <2> QED BY <1>3, <2>1, LinkBounds DEF Links!Smaller
<1>7. /\ share' = [share EXCEPT ![s] = r] /\ handler' = [handler EXCEPT ![h] = Links!Idle]
      /\ issued' = [issued EXCEPT ![s] = issued[s] + 1] /\ grants' = grants \cup {g}
      /\ UNCHANGED <<version, object, preview, closed, linkNow>>
  BY DEF Links!IssueShareDownload, Links!Done
<1> HIDE DEF r, g
<1>8. /\ share \in [Shares -> Links!ShareRows] /\ handler \in [Handlers -> Links!Calls]
      /\ issued \in [Shares -> Nat]
  BY DEF LinksHold, LinkTypes, Links!TypeOK
<1>9. /\ share'[s] = r /\ issued'[s] = issued[s] + 1
      /\ \A i \in Shares : i # s => share'[i] = share[i] /\ issued'[i] = issued[i]
  BY <1>2, <1>7, <1>8
<1>10. LinkTypes'
  <2>1. share' \in [Shares -> Links!ShareRows] /\ handler' \in [Handlers -> Links!Calls]
        /\ issued' \in [Shares -> Nat]
    BY <1>2, <1>3, <1>5, <1>7, <1>8, LinkBlanks
  <2>2. \A i \in Shares : share'[i].maximum > 0 => share'[i].consumed <= share'[i].maximum
    <3>1. r.maximum > 0 => r.consumed <= r.maximum
      BY <1>3, <1>4, <1>5
    <3> QED BY <1>9, <3>1 DEF LinksHold, LinkTypes, Links!TypeOK
  <2>3. \A k \in grants' : /\ k.version \in Versions /\ k.share \in Shares \cup {"nobody"}
                           /\ k.expires \in Nat
    BY <1>2, <1>6, <1>7 DEF LinksHold, LinkTypes, Links!TypeOK, Links!Nobody
  <2> QED BY <2>1, <2>2, <2>3, <1>7 DEF LinksHold, LinkTypes, Links!TypeOK, Links!Nobody
<1>11. SharesMove
  BY <1>5, <1>7, <1>9 DEF SharesMove
<1>12. CallsHold' /\ Links!RevocationReaches'
  BY <1>7, <1>8, <1>11, LinkBlanks, CallsFollow
<1>13. CountsHold'
  BY <1>3, <1>5, <1>9 DEF LinksHold, CountsHold, CountHolds
<1>14. GrantsHold'
  <2> SUFFICES ASSUME NEW k \in grants', k.share # "nobody" PROVE GrantHolds(k)'
    BY DEF GrantsHold, GrantHolds
  <2>1. CASE k = g
    BY <1>3, <1>5, <1>6, <1>7, <1>9, <2>1 DEF GrantHolds
  <2>2. CASE k \in grants
    <3>1. GrantHolds(k) /\ k.share \in Shares
      BY <2>2 DEF LinksHold, GrantsHold, LinkTypes, Links!TypeOK, Links!Nobody
    <3> QED BY <1>2, <1>5, <1>7, <1>9, <3>1 DEF GrantHolds
  <2> QED BY <1>7, <2>1, <2>2
<1>15. Links!LimitRespected'
  <2> SUFFICES ASSUME NEW i \in Shares
               PROVE  /\ share'[i].maximum > 0 => issued'[i] <= share'[i].maximum
                      /\ share'[i].status \in {"active", "exhausted"} =>
                           ((share'[i].status = "exhausted") <=>
                              (share'[i].maximum > 0 /\ issued'[i] = share'[i].maximum))
    BY DEF Links!LimitRespected
  <2>1. CASE i = s
    BY <1>3, <1>4, <1>5, <1>9, <2>1
  <2>2. CASE i # s
    BY <1>9, <2>2 DEF LinksHold, Links!LimitRespected
  <2> QED BY <2>1, <2>2
<1>16. Links!NoDanglingLinks'
  BY <1>2, <1>5, <1>6, <1>7, <1>9 DEF LinksHold, Links!NoDanglingLinks
<1> QED BY <1>10, <1>12, <1>13, <1>14, <1>15, <1>16 DEF LinksHold

LEMMA RevokeShareKeeps ==
  ASSUME LinksHold, NEW s \in Shares, Links!RevokeShare(s)
  PROVE  LinksHold'
<1> DEFINE r == [share[s] EXCEPT !.status = "revoked"]
<1>1. /\ share \in [Shares -> Links!ShareRows] /\ handler \in [Handlers -> Links!Calls]
      /\ closed \in [Shares -> 0..MaxLinkTime] /\ linkNow \in 0..MaxLinkTime
  BY DEF LinksHold, LinkTypes, Links!TypeOK
<1>2. /\ r \in Links!ShareRows /\ r.status = "revoked" /\ r.version = share[s].version
      /\ r.expires = share[s].expires /\ r.maximum = share[s].maximum
      /\ r.consumed = share[s].consumed
  BY <1>1 DEF Links!ShareRows
<1>3. /\ share' = [share EXCEPT ![s] = r] /\ closed' = [closed EXCEPT ![s] = linkNow]
      /\ share[s].status \in {"active", "exhausted"}
      /\ UNCHANGED <<version, object, grants, issued, preview, handler, linkNow>>
  BY DEF Links!RevokeShare
<1> HIDE DEF r
<1>4. /\ share'[s] = r /\ closed'[s] = linkNow
      /\ \A i \in Shares : i # s => share'[i] = share[i] /\ closed'[i] = closed[i]
  BY <1>1, <1>3
<1>5. LinkTypes'
  <2>1. share' \in [Shares -> Links!ShareRows] /\ closed' \in [Shares -> 0..MaxLinkTime]
    BY <1>1, <1>2, <1>3
  <2>2. \A i \in Shares : share'[i].maximum > 0 => share'[i].consumed <= share'[i].maximum
    BY <1>2, <1>4 DEF LinksHold, LinkTypes, Links!TypeOK
  <2> QED BY <1>3, <2>1, <2>2 DEF LinksHold, LinkTypes, Links!TypeOK
<1>6. SharesMove
  BY <1>2, <1>4 DEF SharesMove
<1>7. CallsHold' /\ Links!RevocationReaches'
  <2>1. \A h \in Handlers : handler'[h] = handler[h]
    BY <1>3
  <2> QED BY <1>1, <1>3, <1>6, <2>1, CallsFollow
<1>8. CountsHold'
  BY <1>2, <1>3, <1>4 DEF LinksHold, CountsHold, CountHolds
<1>9. GrantsHold'
  <2> SUFFICES ASSUME NEW g \in grants, g.share # "nobody" PROVE GrantHolds(g)'
    BY <1>3 DEF GrantsHold, GrantHolds
  <2>1. GrantHolds(g) /\ g.share \in Shares
    BY DEF LinksHold, GrantsHold, LinkTypes, Links!TypeOK, Links!Nobody
  <2> QED BY <1>2, <1>3, <1>4, <2>1 DEF GrantHolds
<1>10. Links!LimitRespected' /\ Links!NoDanglingLinks'
  BY <1>2, <1>3, <1>4 DEF LinksHold, Links!LimitRespected, Links!NoDanglingLinks
<1> QED BY <1>5, <1>7, <1>8, <1>9, <1>10 DEF LinksHold

-----------------------------------------------------------------------------
(* An operator's grants, previews, deletion and the clock.                 *)

LEMMA IssueDownloadKeeps ==
  ASSUME LinksHold, NEW h \in Handlers, Links!IssueDownload(h)
  PROVE  LinksHold'
<1> DEFINE g == [share |-> "nobody", version |-> handler[h].version,
                 expires |-> handler[h].at + GrantLifetime]
<1>1. CallHolds(handler[h]) /\ handler[h].step = "request" /\ handler[h].at \in Nat
  BY LinkNumbers DEF LinksHold, CallsHold, Links!IssueDownload
<1>2. /\ g.share = "nobody" /\ g.version \in Versions /\ version[g.version] = "complete"
      /\ g.expires \in Nat
  BY <1>1, LinkBounds DEF CallHolds, Links!IssueDownload
<1>3. /\ grants' = grants \cup {g} /\ handler' = [handler EXCEPT ![h] = Links!Idle]
      /\ UNCHANGED <<version, object, share, issued, preview, closed, linkNow>>
  BY DEF Links!IssueDownload, Links!Done, Links!Nobody
<1> HIDE DEF g
<1>4. handler' \in [Handlers -> Links!Calls]
      /\ \A k \in Handlers : handler'[k] = handler[k] \/ handler'[k] = Links!Idle
  BY <1>3, LinkBlanks DEF LinksHold, LinkTypes, Links!TypeOK
<1>5. CallsHold' /\ Links!RevocationReaches'
  <2>1. SharesMove
    BY <1>3 DEF SharesMove
  <2> QED BY <1>3, <1>4, <2>1, CallsFollow
<1>6. LinkTypes'
  BY <1>2, <1>3, <1>4 DEF LinksHold, LinkTypes, Links!TypeOK, Links!Nobody
<1>7. GrantsHold'
  BY <1>2, <1>3 DEF LinksHold, GrantsHold, GrantHolds
<1>8. CountsHold' /\ Links!LimitRespected' /\ Links!NoDanglingLinks'
  BY <1>2, <1>3 DEF LinksHold, CountsHold, CountHolds, Links!LimitRespected, Links!NoDanglingLinks
<1> QED BY <1>5, <1>6, <1>7, <1>8 DEF LinksHold

LEMMA PreviewKeeps ==
  ASSUME LinksHold, (\E h \in Handlers : Links!CreatePreview(h)) \/ Links!RevokePreview
  PROVE  LinksHold'
<1>1. ASSUME NEW h \in Handlers, Links!CreatePreview(h) PROVE LinksHold'
  <2> DEFINE p == [status |-> "active", files |-> Versions,
                   expires |-> handler[h].at + ShareLifetime]
  <2>1. p \in PreviewRows /\ preview' = p
    BY <1>1, LinkNumbers, LinkBounds DEF LinksHold, PreviewRows, Links!CreatePreview
  <2>2. \A v \in Versions : version[v] = "complete"
    BY <1>1 DEF Links!CreatePreview
  <2>3. /\ handler' = [handler EXCEPT ![h] = Links!Idle]
        /\ UNCHANGED <<version, object, share, grants, issued, closed, linkNow>>
    BY <1>1 DEF Links!CreatePreview, Links!Done
  <2> HIDE DEF p
  <2>4. handler' \in [Handlers -> Links!Calls]
        /\ \A k \in Handlers : handler'[k] = handler[k] \/ handler'[k] = Links!Idle
    BY <2>3, LinkBlanks DEF LinksHold, LinkTypes, Links!TypeOK
  <2>5. CallsHold' /\ Links!RevocationReaches'
    <3>1. SharesMove
      BY <2>3 DEF SharesMove
    <3> QED BY <2>3, <2>4, <3>1, CallsFollow
  <2>6. LinkTypes'
    BY <2>1, <2>3, <2>4 DEF LinksHold, LinkTypes, Links!TypeOK, PreviewRows
  <2>7. CountsHold' /\ GrantsHold' /\ Links!LimitRespected'
    BY <2>3 DEF LinksHold, CountsHold, CountHolds, GrantsHold, GrantHolds, Links!LimitRespected
  <2>8. Links!NoDanglingLinks'
    BY <2>2, <2>3 DEF Links!NoDanglingLinks
  <2> QED BY <2>5, <2>6, <2>7, <2>8 DEF LinksHold
<1>2. CASE Links!RevokePreview
  <2>1. /\ preview' \in PreviewRows /\ preview'.files = preview.files
        /\ UNCHANGED <<version, object, share, grants, issued, closed, handler, linkNow>>
    BY <1>2 DEF LinksHold, LinkTypes, PreviewRows, Links!RevokePreview
  <2>2. LinkTypes'
    BY <2>1 DEF LinksHold, LinkTypes, Links!TypeOK, PreviewRows
  <2>3. CallsHold' /\ CountsHold' /\ GrantsHold'
    BY <2>1 DEF LinksHold, CallsHold, CallHolds, CountsHold, CountHolds, GrantsHold, GrantHolds
  <2>4. Links!LimitRespected' /\ Links!RevocationReaches' /\ Links!NoDanglingLinks'
    BY <2>1 DEF LinksHold, Links!LimitRespected, Links!RevocationReaches, Links!NoDanglingLinks
  <2> QED BY <2>2, <2>3, <2>4 DEF LinksHold
<1> QED BY <1>1, <1>2

LEMMA DeleteBytesKeeps ==
  ASSUME LinksHold, NEW v \in Versions, Links!DeleteBytes(v)
  PROVE  LinksHold'
<1>1. /\ object' \subseteq object
      /\ UNCHANGED <<version, share, grants, issued, preview, closed, handler, linkNow>>
  BY DEF Links!DeleteBytes
<1>2. LinkTypes'
  BY <1>1 DEF LinksHold, LinkTypes, Links!TypeOK
<1>3. CallsHold' /\ CountsHold' /\ GrantsHold'
  BY <1>1 DEF LinksHold, CallsHold, CallHolds, CountsHold, CountHolds, GrantsHold, GrantHolds
<1>4. Links!LimitRespected' /\ Links!RevocationReaches' /\ Links!NoDanglingLinks'
  BY <1>1 DEF LinksHold, Links!LimitRespected, Links!RevocationReaches, Links!NoDanglingLinks
<1> QED BY <1>2, <1>3, <1>4 DEF LinksHold

(* The foreign keys: every link of the version loses it.                   *)
LEMMA DeleteRowKeeps ==
  ASSUME LinksHold, NEW v \in Versions, Links!DeleteRow(v)
  PROVE  LinksHold'
<1>1. /\ share \in [Shares -> Links!ShareRows] /\ handler \in [Handlers -> Links!Calls]
      /\ version \in [Versions -> {"complete", "gone"}]
  BY DEF LinksHold, LinkTypes, Links!TypeOK
<1>2. /\ version' = [version EXCEPT ![v] = "gone"] /\ grants' = {g \in grants : g.version # v}
      /\ preview' = [preview EXCEPT !.files = preview.files \ {v}]
      /\ UNCHANGED <<object, issued, closed, handler, linkNow>>
  BY DEF Links!DeleteRow
<1>3. \A s \in Shares :
        /\ share'[s] \in Links!ShareRows /\ share'[s].status = share[s].status
        /\ share'[s].expires = share[s].expires /\ share'[s].maximum = share[s].maximum
        /\ share'[s].consumed = share[s].consumed
        /\ share'[s].version # v
        /\ share'[s].version \in {share[s].version, "none"}
  <2> TAKE s \in Shares
  <2>1. share'[s] = IF share[s].version = v THEN [share[s] EXCEPT !.version = "none"] ELSE share[s]
    BY DEF Links!DeleteRow, Links!None
  <2>2. share[s] \in Links!ShareRows /\ v # "none"
    BY <1>1, LinkBounds
  <2> QED BY <2>1, <2>2 DEF Links!ShareRows, Links!None
<1>4. preview' \in PreviewRows /\ preview'.files = preview.files \ {v}
  BY <1>2 DEF LinksHold, LinkTypes, PreviewRows
<1>5. LinkTypes'
  <2>1. share' \in [Shares -> Links!ShareRows]
    <3>1. \E F : share' = [s \in Shares |-> F[s]]
      <4> DEFINE F == [s \in Shares |-> IF share[s].version = v
                                          THEN [share[s] EXCEPT !.version = "none"] ELSE share[s]]
      <4>1. share' = F
        BY DEF Links!DeleteRow, Links!None
      <4>2. share' = [s \in Shares |-> F[s]]
        BY <4>1
      <4> QED BY <4>2
    <3> QED BY <1>3, <3>1
  <2>2. version' \in [Versions -> {"complete", "gone"}]
    BY <1>1, <1>2
  <2>3. \A s \in Shares : share'[s].maximum > 0 => share'[s].consumed <= share'[s].maximum
    BY <1>3 DEF LinksHold, LinkTypes, Links!TypeOK
  <2>4. \A g \in grants' : /\ g.version \in Versions /\ g.share \in Shares \cup {"nobody"}
                           /\ g.expires \in Nat
    BY <1>2 DEF LinksHold, LinkTypes, Links!TypeOK, Links!Nobody
  <2> QED BY <1>2, <1>4, <2>1, <2>2, <2>3, <2>4
          DEF LinksHold, LinkTypes, Links!TypeOK, PreviewRows, Links!Nobody
<1>6. CallsHold' /\ Links!RevocationReaches'
  <2>1. SharesMove
    BY <1>2, <1>3 DEF SharesMove
  <2> QED BY <1>1, <1>2, <2>1, CallsFollow
<1>7. CountsHold'
  BY <1>2, <1>3 DEF LinksHold, CountsHold, CountHolds
<1>8. GrantsHold'
  <2> SUFFICES ASSUME NEW g \in grants, g.share # "nobody" PROVE GrantHolds(g)'
    BY <1>2 DEF GrantsHold, GrantHolds
  <2>1. GrantHolds(g) /\ g.share \in Shares
    BY DEF LinksHold, GrantsHold, LinkTypes, Links!TypeOK, Links!Nobody
  <2> QED BY <1>2, <1>3, <2>1 DEF GrantHolds
<1>9. Links!LimitRespected'
  BY <1>2, <1>3 DEF LinksHold, Links!LimitRespected
<1>10. Links!NoDanglingLinks'
  <2> SUFFICES ASSUME NEW w \in Versions, version'[w] = "gone"
               PROVE  /\ \A g \in grants' : g.version # w
                      /\ \A s \in Shares : share'[s].version # w
                      /\ w \notin preview'.files
    BY DEF Links!NoDanglingLinks
  <2>1. CASE w = v
    BY <1>2, <1>3, <1>4, <2>1
  <2>2. CASE w # v
    <3>1. version[w] = "gone" /\ w # "none"
      BY <1>1, <1>2, <2>2, LinkBounds
    <3>2. /\ \A g \in grants : g.version # w
          /\ \A s \in Shares : share[s].version # w
          /\ w \notin preview.files
      BY <3>1 DEF LinksHold, Links!NoDanglingLinks
    <3> QED BY <1>2, <1>3, <1>4, <3>1, <3>2
  <2> QED BY <2>1, <2>2
<1> QED BY <1>5, <1>6, <1>7, <1>8, <1>9, <1>10 DEF LinksHold

LEMMA LinkTickKeeps ==
  ASSUME LinksHold, Links!Tick
  PROVE  LinksHold'
<1>1. /\ linkNow' = linkNow + 1 /\ linkNow \in 0..MaxLinkTime /\ linkNow < MaxLinkTime
      /\ UNCHANGED <<version, object, share, grants, issued, preview, closed, handler>>
  BY DEF LinksHold, LinkTypes, Links!TypeOK, Links!Tick
<1>2. linkNow' \in 0..MaxLinkTime /\ linkNow \in Nat
  BY <1>1, LinkBounds
<1>3. LinkTypes'
  BY <1>1, <1>2 DEF LinksHold, LinkTypes, Links!TypeOK
<1>4. CallsHold' /\ Links!RevocationReaches'
  <2>1. SharesMove
    BY <1>1 DEF SharesMove
  <2>2. handler \in [Handlers -> Links!Calls]
    BY DEF LinksHold, LinkTypes, Links!TypeOK
  <2> QED BY <1>1, <2>1, <2>2, CallsFollow
<1>5. GrantsHold'
  <2> SUFFICES ASSUME NEW g \in grants PROVE GrantHolds(g)'
    BY <1>1 DEF GrantsHold
  <2>1. GrantHolds(g) /\ g.expires \in Nat
    BY DEF LinksHold, GrantsHold, LinkTypes
  <2> QED BY <1>1, <1>2, <2>1, LinkBounds DEF GrantHolds
<1>6. CountsHold' /\ Links!LimitRespected' /\ Links!NoDanglingLinks'
  BY <1>1 DEF LinksHold, CountsHold, CountHolds, Links!LimitRespected, Links!NoDanglingLinks
<1> QED BY <1>3, <1>4, <1>5, <1>6 DEF LinksHold

-----------------------------------------------------------------------------
(* The surface.                                                            *)

LEMMA LinksStart ==
  ASSUME Links!Init
  PROVE  LinksHold
<1>1. /\ version = [v \in Versions |-> "complete"] /\ object = Versions
      /\ share = [s \in Shares |-> Links!NoShare] /\ grants = {}
      /\ issued = [s \in Shares |-> 0] /\ preview = Links!NoPreview
      /\ closed = [s \in Shares |-> MaxLinkTime]
      /\ handler = [h \in Handlers |-> Links!Idle] /\ linkNow = 0
  BY DEF Links!Init
<1>2. LinkTypes
  <2>1. 0 \in 0..MaxLinkTime /\ MaxLinkTime \in 0..MaxLinkTime
    BY LinkBounds
  <2>2. preview \in PreviewRows
    BY <1>1, LinkBlanks
  <2>3. \A s \in Shares : share[s].maximum > 0 => share[s].consumed <= share[s].maximum
    BY <1>1, LinkBlanks
  <2> QED BY <1>1, <2>1, <2>2, <2>3, LinkBlanks DEF LinkTypes, Links!TypeOK, PreviewRows
<1>3. CallsHold /\ Links!RevocationReaches
  BY <1>1, LinkBlanks DEF CallsHold, CallHolds, Links!RevocationReaches
<1>4. CountsHold /\ GrantsHold
  BY <1>1, LinkBlanks DEF CountsHold, CountHolds, GrantsHold
<1>5. Links!LimitRespected
  BY <1>1, LinkBlanks DEF Links!LimitRespected
<1>6. Links!NoDanglingLinks
  BY <1>1 DEF Links!NoDanglingLinks
<1> QED BY <1>2, <1>3, <1>4, <1>5, <1>6 DEF LinksHold

LEMMA LinksStutter ==
  ASSUME LinksHold, UNCHANGED linkVars
  PROVE  LinksHold'
<1>1. UNCHANGED <<version, object, share, grants, issued, preview, closed, handler, linkNow>>
  BY DEF linkVars
<1>2. LinkTypes'
  BY <1>1 DEF LinksHold, LinkTypes, Links!TypeOK
<1>3. CallsHold' /\ CountsHold' /\ GrantsHold'
  BY <1>1 DEF LinksHold, CallsHold, CallHolds, CountsHold, CountHolds, GrantsHold, GrantHolds
<1>4. Links!LimitRespected' /\ Links!RevocationReaches' /\ Links!NoDanglingLinks'
  BY <1>1 DEF LinksHold, Links!LimitRespected, Links!RevocationReaches, Links!NoDanglingLinks
<1> QED BY <1>2, <1>3, <1>4 DEF LinksHold

LEMMA LinksStep ==
  ASSUME LinksHold, Links!Next
  PROVE  LinksHold'
<1>1. ASSUME NEW h \in Handlers, NEW limit \in Limits, Links!CreateShare(h, limit)
      PROVE  LinksHold'
  BY <1>1, CreateShareKeeps
<1>2. ASSUME NEW h \in Handlers, Links!IssueShareDownload(h) PROVE LinksHold'
  BY <1>2, IssueShareDownloadKeeps
<1>3. ASSUME NEW h \in Handlers, Links!IssueDownload(h) PROVE LinksHold'
  BY <1>3, IssueDownloadKeeps
<1>4. ASSUME NEW s \in Shares, Links!RevokeShare(s) PROVE LinksHold'
  BY <1>4, RevokeShareKeeps
<1>5. ASSUME (\E h \in Handlers : Links!CreatePreview(h)) \/ Links!RevokePreview PROVE LinksHold'
  BY <1>5, PreviewKeeps
<1>6. ASSUME NEW v \in Versions, Links!DeleteBytes(v) \/ Links!DeleteRow(v) PROVE LinksHold'
  BY <1>6, DeleteBytesKeeps, DeleteRowKeeps
<1>7. ASSUME NEW h \in Handlers,
             \/ \E s \in Shares, v \in Versions : Links!ResolveTarget(h, s, v)
             \/ \E s \in Shares : Links!OpenShare(h, s)
             \/ \E v \in Versions : Links!RequestDownload(h, v) \/ Links!VisitPreview(h, v)
             \/ Links!Download(h) \/ Links!ReadBytes(h) \/ Links!Refuse(h)
             \/ Links!SnapshotPreview(h)
      PROVE  LinksHold'
  BY <1>7, ReadKeeps
<1>8. CASE Links!Tick
  BY <1>8, LinkTickKeeps
<1> QED BY <1>1, <1>2, <1>3, <1>4, <1>5, <1>6, <1>7, <1>8, Zenon DEF Links!Next

LEMMA LinksAlways == SurfaceSpec => []LinksHold
<1>1. OpenSurface => LinksHold
  BY LinksStart DEF OpenSurface
<1>2. LinksHold /\ [ServeGuest]_<<route, vars, linkVars>> => LinksHold'
  BY LinksStep, LinksStutter DEF ServeGuest
<1> QED BY <1>1, <1>2, PTL DEF SurfaceSpec

(* However many people open a share at once it issues its limit and no     *)
(* more, and revocation reaches the grants already handed out within       *)
(* SHARE_DOWNLOAD_TTL_MS (issue_share_download, download_by_capability).   *)
THEOREM LinksAreBoundedHolds == SurfaceSpec => []LinksAreBounded
<1>1. LinksHold => LinksAreBounded
  BY DEF LinksHold, LinkTypes, LinksAreBounded
<1> QED BY <1>1, LinksAlways, PTL

(* A deleted version is named by no grant, share or preview, although the  *)
(* handlers read it before (delete_selected_metadata).                     *)
THEOREM NoDanglingLinksHolds == SurfaceSpec => []NoDanglingLinks
<1>1. LinksHold => NoDanglingLinks
  BY DEF LinksHold, NoDanglingLinks
<1> QED BY <1>1, LinksAlways, PTL

-----------------------------------------------------------------------------
(* The inbox.                                                              *)

(* What completed and what is reserved fit the inbox together: without     *)
(* this the counter of completed files could pass the limit, because       *)
(* complete_capacity does not compare it with one.                         *)
CapacityKept ==
  /\ current.files + reserved.files <= MaximumFiles
  /\ current.bytes + reserved.bytes <= MaximumBytes

InboxHolds == TypeOK /\ CapacityKept

LEMMA InboxCounters ==
  ASSUME NEW c \in Counters
  PROVE  c.files \in Nat /\ c.bytes \in Nat
  BY InboxesAssumption DEF Counters

LEMMA GrantExpiryInTime ==
  ASSUME NEW t \in 0..MaxTime
  PROVE  GrantExpiry(t) \in 0..InboxExpiry
  BY InboxesAssumption DEF GrantExpiry, Smaller

LEMMA AnswerTyped ==
  ASSUME TypeOK, NEW g \in Guests, Answer(g)
  PROVE  request' \in [Guests -> {NoRequest} \cup
           [kind : {"issue", "complete", "abort"}, upload : Uploads, at : 0..MaxTime]]
  BY DEF TypeOK, Answer

(* A request in hand names an upload and a time.                           *)
LEMMA RequestNames ==
  ASSUME TypeOK, NEW g \in Guests, request[g].kind \in {"issue", "complete", "abort"}
  PROVE  request[g].upload \in Uploads /\ request[g].at \in 0..MaxTime
<1>1. request[g] \in {NoRequest} \cup
        [kind : {"issue", "complete", "abort"}, upload : Uploads, at : 0..MaxTime]
  BY DEF TypeOK
<1>2. request[g] # NoRequest
  BY DEF NoRequest
<1> QED BY <1>1, <1>2

LEMMA ReserveFits ==
  ASSUME InboxHolds, NEW u \in Uploads, HasCapacity(u), reserved' = Plus(reserved, u),
         current' = current
  PROVE  reserved' \in Counters /\ CapacityKept'
<1>1. /\ reserved.files \in Nat /\ reserved.bytes \in Nat
      /\ current.files \in Nat /\ current.bytes \in Nat
  BY InboxCounters DEF InboxHolds, TypeOK
<1>2. Size[u] \in Nat /\ MaximumFiles \in Nat /\ MaximumBytes \in Nat
  BY InboxesAssumption
<1>3. reserved'.files = reserved.files + 1 /\ reserved'.bytes = reserved.bytes + Size[u]
  BY DEF Plus
<1>4. CapacityKept'
  BY <1>1, <1>2, <1>3 DEF HasCapacity, CapacityKept
<1>5. reserved.files + 1 \in 0..MaximumFiles /\ reserved.bytes + Size[u] \in 0..MaximumBytes
  BY <1>1, <1>2 DEF HasCapacity
<1> QED BY <1>4, <1>5 DEF Plus, Counters

LEMMA ReleaseFits ==
  ASSUME InboxHolds, NEW u \in Uploads, reserved.files >= 1, reserved.bytes >= Size[u],
         reserved' = Minus(reserved, u), current' = current \/ current' = Plus(current, u)
  PROVE  reserved' \in Counters /\ current' \in Counters /\ CapacityKept'
<1>1. /\ reserved.files \in Nat /\ reserved.bytes \in Nat
      /\ current.files \in Nat /\ current.bytes \in Nat /\ current \in Counters
      /\ reserved.files <= MaximumFiles /\ reserved.bytes <= MaximumBytes
  BY InboxCounters DEF InboxHolds, TypeOK, Counters
<1>2. Size[u] \in Nat /\ MaximumFiles \in Nat /\ MaximumBytes \in Nat
  BY InboxesAssumption
<1>3. reserved'.files = reserved.files - 1 /\ reserved'.bytes = reserved.bytes - Size[u]
  BY DEF Minus
<1>4. reserved.files - 1 \in 0..MaximumFiles /\ reserved.bytes - Size[u] \in 0..MaximumBytes
  BY <1>1, <1>2
<1>5. reserved' \in Counters
  BY <1>4 DEF Minus, Counters
<1>6. CASE current' = current
  BY <1>1, <1>2, <1>3, <1>5, <1>6 DEF InboxHolds, CapacityKept
<1>7. CASE current' = Plus(current, u)
  <2>1. current'.files = current.files + 1 /\ current'.bytes = current.bytes + Size[u]
    BY <1>7 DEF Plus
  <2>2. current.files + 1 \in 0..MaximumFiles /\ current.bytes + Size[u] \in 0..MaximumBytes
    BY <1>1, <1>2 DEF InboxHolds, CapacityKept
  <2>3. current' \in Counters
    BY <1>7, <2>2 DEF Plus, Counters
  <2>4. CapacityKept'
    BY <1>1, <1>2, <1>3, <2>1 DEF InboxHolds, CapacityKept
  <2> QED BY <1>5, <2>3, <2>4
<1> QED BY <1>6, <1>7

LEMMA GuestStep ==
  ASSUME InboxHolds, NEW g \in Guests,
         \/ ReserveUpload(g) \/ ReplayUpload(g) \/ CompleteUpload(g) \/ AbortUpload(g)
         \/ Refuse(g)
  PROVE  InboxHolds'
<1> DEFINE u == request[g].upload
<1>1. CASE ReserveUpload(g)
  <2>1. u \in Uploads /\ request[g].at \in 0..MaxTime
    BY <1>1, RequestNames DEF ReserveUpload, InboxHolds
  <2>2. reserved' \in Counters /\ CapacityKept'
    BY <1>1, <2>1, ReserveFits DEF ReserveUpload
  <2>3. GrantExpiry(request[g].at) \in 0..InboxExpiry
    BY <2>1, GrantExpiryInTime
  <2> HIDE DEF u
  <2> QED BY <1>1, <2>1, <2>2, <2>3, AnswerTyped DEF ReserveUpload, InboxHolds, TypeOK, u
<1>2. CASE ReplayUpload(g)
  <2>1. u \in Uploads /\ request[g].at \in 0..MaxTime
    BY <1>2, RequestNames DEF ReplayUpload, InboxHolds
  <2>2. GrantExpiry(request[g].at) \in 0..InboxExpiry
    BY <2>1, GrantExpiryInTime
  <2> QED BY <1>2, <2>1, <2>2, AnswerTyped
          DEF ReplayUpload, InboxHolds, TypeOK, CapacityKept, ledger
<1>3. CASE CompleteUpload(g)
  <2>1. u \in Uploads
    BY <1>3, RequestNames DEF CompleteUpload, InboxHolds
  <2>2. reserved' \in Counters /\ current' \in Counters /\ CapacityKept'
    BY <1>3, <2>1, ReleaseFits DEF CompleteUpload
  <2> QED BY <1>3, <2>1, <2>2, AnswerTyped DEF CompleteUpload, InboxHolds, TypeOK
<1>4. CASE AbortUpload(g)
  <2>1. u \in Uploads
    BY <1>4, RequestNames DEF AbortUpload, InboxHolds
  <2>2. reserved' \in Counters /\ current' \in Counters /\ CapacityKept'
    BY <1>4, <2>1, ReleaseFits DEF AbortUpload
  <2> QED BY <1>4, <2>1, <2>2, AnswerTyped DEF AbortUpload, InboxHolds, TypeOK
<1>5. CASE Refuse(g)
  BY <1>5, AnswerTyped DEF Refuse, InboxHolds, TypeOK, CapacityKept, ledger
<1> QED BY <1>1, <1>2, <1>3, <1>4, <1>5

LEMMA InboxStep ==
  ASSUME InboxHolds, Next
  PROVE  InboxHolds'
<1>1. ASSUME NEW g \in Guests, NEW u \in Uploads, NEW kind \in {"issue", "complete", "abort"},
             Authorize(g, kind, u)
      PROVE  InboxHolds'
  <2> DEFINE r == [kind |-> kind, upload |-> u, at |-> now]
  <2>1. r \in [kind : {"issue", "complete", "abort"}, upload : Uploads, at : 0..MaxTime]
    BY DEF InboxHolds, TypeOK
  <2>2. request' = [request EXCEPT ![g] = r] /\ UNCHANGED <<ledger, res, expires, link, now>>
    BY <1>1 DEF Authorize
  <2> HIDE DEF r
  <2> QED BY <2>1, <2>2 DEF InboxHolds, TypeOK, CapacityKept, ledger
<1>2. ASSUME NEW g \in Guests,
             \/ ReserveUpload(g) \/ ReplayUpload(g) \/ CompleteUpload(g) \/ AbortUpload(g)
             \/ Refuse(g)
      PROVE  InboxHolds'
  BY <1>2, GuestStep
<1>3. ASSUME NEW u \in Uploads,
             ReceiveBytes(u) \/ OperatorComplete(u) \/ OperatorAbort(u) \/ DeleteVersion(u)
      PROVE  InboxHolds'
  BY <1>3 DEF ReceiveBytes, OperatorComplete, OperatorAbort, DeleteVersion, InboxHolds, TypeOK,
              CapacityKept, ledger
<1>4. CASE RevokeInbox
  BY <1>4 DEF RevokeInbox, InboxHolds, TypeOK, CapacityKept
<1>5. CASE Tick
  BY <1>5, InboxesAssumption DEF Tick, InboxHolds, TypeOK, CapacityKept, ledger
<1> QED BY <1>1, <1>2, <1>3, <1>4, <1>5 DEF Next

(* No counter of an inbox passes the limit it was created with, completed  *)
(* and reserved files together, and no reservation outlives the inbox      *)
(* (reserve_capacity, complete_capacity, release_capacity).                *)
THEOREM CapacityKeptHolds == SurfaceSpec => [](TypeOK /\ CapacityKept)
<1>1. OpenSurface => InboxHolds
  BY InboxesAssumption DEF OpenSurface, Init, InboxHolds, TypeOK, CapacityKept, Counters
<1>2. ASSUME InboxHolds, UNCHANGED vars PROVE InboxHolds'
  BY <1>2 DEF vars, ledger, InboxHolds, TypeOK, CapacityKept
<1>3. InboxHolds /\ [ServeGuest]_<<route, vars, linkVars>> => InboxHolds'
  BY <1>2, InboxStep DEF ServeGuest
<1>4. InboxHolds => TypeOK /\ CapacityKept
  BY DEF InboxHolds
<1> QED BY <1>1, <1>3, <1>4, PTL DEF SurfaceSpec

(* A revoked inbox takes nothing more, whatever requests were authorised   *)
(* before it was revoked (active_by_capability in each transaction).       *)
THEOREM RevokedIsFrozenHolds == SurfaceSpec => RevokedIsFrozen
<1> DEFINE Frozen == status = "revoked" => current' = current /\ reserved' = reserved /\ status' = "revoked"
<1>1. ASSUME Next, status = "revoked" PROVE Frozen
  BY <1>1 DEF Next, Authorize, ReserveUpload, ReplayUpload, CompleteUpload, AbortUpload, Refuse,
              ReceiveBytes, OperatorComplete, OperatorAbort, DeleteVersion, RevokeInbox, Tick,
              ActiveAt, ledger
<1>2. [ServeGuest]_<<route, vars, linkVars>> => [Frozen]_vars
  BY <1>1 DEF ServeGuest, vars, ledger
<1> QED BY <1>2, PTL DEF SurfaceSpec, RevokedIsFrozen

-----------------------------------------------------------------------------
(* Sums over finite sets: the fold adds every element once, in any order,  *)
(* shown on a smallest set for which it would not.                         *)

(* Of some sets within a finite one, one is smallest.                      *)
LEMMA SmallestSet ==
  ASSUME NEW D, IsFiniteSet(D), NEW B \in SUBSET SUBSET D, B # {}
  PROVE  \E s \in B : \A t \in B : Cardinality(s) <= Cardinality(t)
<1> DEFINE Less == OpToRel(<, Nat)
           T == {n \in Nat : \E s \in B : n = Cardinality(s)}
<1>1. IsWellFoundedOn(Less, Nat)
  BY NatLessThanWellFounded, Zenon
<1>2. \A m, n \in Nat : <<n, m>> \in Less <=> n < m
  BY DEF OpToRel
<1>3. \A s \in B : IsFiniteSet(s) /\ Cardinality(s) \in Nat
  BY FS_Subset, FS_CardinalityType
<1>4. T \in SUBSET Nat /\ T # {}
  BY <1>3
<1> HIDE DEF Less
<1>5. PICK m \in T : \A n \in T : ~ (<<n, m>> \in Less)
  <2> HIDE DEF T
  <2> QED BY <1>1, <1>4, WFMin
<1>6. PICK s \in B : m = Cardinality(s)
  BY <1>5
<1>7. ASSUME NEW t \in B PROVE Cardinality(s) <= Cardinality(t)
  <2>1. Cardinality(t) \in T /\ Cardinality(t) \in Nat /\ Cardinality(s) \in Nat
    BY <1>3
  <2>2. ~ (Cardinality(t) < Cardinality(s))
    BY <1>2, <1>5, <1>6, <2>1
  <2> QED BY <2>1, <2>2
<1> QED BY <1>7

(* The fold of a sum, and functions that are it on the subsets of D.       *)
Bytes(S) == MapThenSumSet(LAMBDA u : Size[u], S)
Taken(s) == CHOOSE x \in s : TRUE
Sums(D, f) == f = [s \in SUBSET D |-> IF s = {} THEN 0 ELSE Size[Taken(s)] + f[s \ {Taken(s)}]]

LEMMA BytesIsSum == \A S : Bytes(S) = (CHOOSE f : Sums(S, f))[S]
  BY DEF Bytes, MapThenSumSet, MapThenFoldSet, Sums, Taken

LEMMA SubsetCounts ==
  ASSUME NEW D, IsFiniteSet(D)
  PROVE  /\ \A s \in SUBSET D : IsFiniteSet(s) /\ Cardinality(s) \in Nat
         /\ \A s \in SUBSET D : Cardinality(s) <= Cardinality(D)
         /\ \A s \in SUBSET D : \A x \in s :
              s \ {x} \in SUBSET D /\ Cardinality(s \ {x}) = Cardinality(s) - 1
         /\ \A s \in SUBSET D : s # {} => Taken(s) \in s
<1>1. \A s \in SUBSET D : IsFiniteSet(s) /\ Cardinality(s) \in Nat /\ Cardinality(s) <= Cardinality(D)
  BY FS_Subset, FS_CardinalityType
<1>2. ASSUME NEW s \in SUBSET D, NEW x \in s
      PROVE  s \ {x} \in SUBSET D /\ Cardinality(s \ {x}) = Cardinality(s) - 1
  BY <1>1, FS_RemoveElement
<1> QED BY <1>1, <1>2 DEF Taken

(* A sum of the subsets that have at most n elements.                      *)
SumsUpto(D, n, f) ==
  \A s \in SUBSET D : Cardinality(s) <= n =>
    f[s] = IF s = {} THEN 0 ELSE Size[Taken(s)] + f[s \ {Taken(s)}]

LEMMA SumsExist ==
  ASSUME NEW D \in SUBSET Uploads, IsFiniteSet(D)
  PROVE  \E f \in [SUBSET D -> Nat] : Sums(D, f)
<1>1. Size \in [Uploads -> Nat]
  BY InboxesAssumption
<1>2. ASSUME NEW n \in Nat, NEW f \in [SUBSET D -> Nat], SumsUpto(D, n, f)
      PROVE  \E e \in [SUBSET D -> Nat] : SumsUpto(D, n + 1, e)
  <2> DEFINE e == [s \in SUBSET D |->
                     IF Cardinality(s) <= n THEN f[s] ELSE Size[Taken(s)] + f[s \ {Taken(s)}]]
  <2>1. ASSUME NEW s \in SUBSET D, s # {}
        PROVE  Size[Taken(s)] + f[s \ {Taken(s)}] \in Nat
    <3>1. Taken(s) \in Uploads /\ s \ {Taken(s)} \in SUBSET D
      BY <2>1, SubsetCounts
    <3> QED BY <1>1, <3>1
  <2>2. \A s \in SUBSET D : ~ (Cardinality(s) <= n) => s # {}
    BY FS_EmptySet
  <2>3. e \in [SUBSET D -> Nat]
    BY <2>1, <2>2
  <2>4. ASSUME NEW s \in SUBSET D, Cardinality(s) <= n + 1, s # {}
        PROVE  e[s] = Size[Taken(s)] + e[s \ {Taken(s)}]
    <3>1. s \ {Taken(s)} \in SUBSET D /\ Cardinality(s \ {Taken(s)}) <= n /\ Cardinality(s) \in Nat
      BY <2>4, SubsetCounts
    <3>2. e[s \ {Taken(s)}] = f[s \ {Taken(s)}]
      BY <3>1
    <3>3. e[s] = Size[Taken(s)] + f[s \ {Taken(s)}]
      BY <1>2, <2>4 DEF SumsUpto
    <3> QED BY <3>2, <3>3
  <2>5. e[{}] = 0
    <3>1. {} \in SUBSET D /\ Cardinality({}) <= n
      BY FS_EmptySet
    <3> QED BY <1>2, <3>1 DEF SumsUpto
  <2> HIDE DEF e
  <2>6. SumsUpto(D, n + 1, e)
    BY <2>4, <2>5 DEF SumsUpto
  <2> QED BY <2>3, <2>6
<1>3. \E f \in [SUBSET D -> Nat] : SumsUpto(D, 0, f)
  <2> DEFINE f == [s \in SUBSET D |-> 0]
  <2>1. \A s \in SUBSET D : Cardinality(s) <= 0 => s = {}
    BY SubsetCounts, FS_EmptySet
  <2>2. f \in [SUBSET D -> Nat] /\ SumsUpto(D, 0, f)
    BY <2>1 DEF SumsUpto
  <2> QED BY <2>2
<1>4. ASSUME NEW n \in Nat PROVE \E f \in [SUBSET D -> Nat] : SumsUpto(D, n, f)
  <2> DEFINE B == {m \in Nat : ~ \E f \in [SUBSET D -> Nat] : SumsUpto(D, m, f)}
             Less == OpToRel(<, Nat)
  <2> SUFFICES ASSUME n \in B PROVE FALSE
    OBVIOUS
  <2>1. IsWellFoundedOn(Less, Nat)
    BY NatLessThanWellFounded, Zenon
  <2>2. \A m, k \in Nat : <<k, m>> \in Less <=> k < m
    BY DEF OpToRel
  <2>3. B \in SUBSET Nat /\ B # {}
    OBVIOUS
  <2> HIDE DEF Less
  <2>4. PICK m \in B : \A k \in B : ~ (<<k, m>> \in Less)
    <3> HIDE DEF B
    <3> QED BY <2>1, <2>3, WFMin
  <2>5. m \in Nat /\ m # 0
    BY <1>3, <2>4
  <2>6. m - 1 \in Nat /\ m - 1 < m /\ m = (m - 1) + 1
    BY <2>5
  <2>7. m - 1 \notin B
    BY <2>2, <2>4, <2>5, <2>6
  <2>8. \E f \in [SUBSET D -> Nat] : SumsUpto(D, m - 1, f)
    BY <2>6, <2>7
  <2> QED BY <1>2, <2>4, <2>6, <2>8
<1>5. PICK f \in [SUBSET D -> Nat] : SumsUpto(D, Cardinality(D), f)
  BY <1>4, FS_CardinalityType
<1>6. \A s \in SUBSET D : f[s] = IF s = {} THEN 0 ELSE Size[Taken(s)] + f[s \ {Taken(s)}]
  BY <1>5, SubsetCounts DEF SumsUpto
<1>7. Sums(D, f)
  BY <1>6 DEF Sums
<1> QED BY <1>7

(* Two sums agree wherever both are defined.                               *)
LEMMA SumsAgree ==
  ASSUME NEW D, IsFiniteSet(D), NEW E \in SUBSET D, NEW f, Sums(D, f), NEW e, Sums(E, e)
  PROVE  \A s \in SUBSET E : e[s] = f[s]
<1> DEFINE B == {s \in SUBSET E : e[s] # f[s]}
<1>1. \A s \in SUBSET E :
        /\ e[s] = IF s = {} THEN 0 ELSE Size[Taken(s)] + e[s \ {Taken(s)}]
        /\ f[s] = IF s = {} THEN 0 ELSE Size[Taken(s)] + f[s \ {Taken(s)}]
  BY DEF Sums
<1> SUFFICES ASSUME B # {} PROVE FALSE
  OBVIOUS
<1>2. B \in SUBSET SUBSET D /\ IsFiniteSet(E)
  BY FS_Subset
<1>3. PICK s \in B : \A t \in B : Cardinality(s) <= Cardinality(t)
  <2> HIDE DEF B
  <2> QED BY <1>2, SmallestSet
<1>4. s # {} /\ s \in SUBSET E
  BY <1>1, <1>3
<1> DEFINE t == s \ {Taken(s)}
<1>5. t \in SUBSET E /\ Cardinality(t) = Cardinality(s) - 1 /\ Cardinality(s) \in Nat
  BY <1>2, <1>4, SubsetCounts
<1>6. t \in B
  BY <1>1, <1>3, <1>4, <1>5
<1> HIDE DEF t, B
<1> QED BY <1>3, <1>5, <1>6

(* The order in which the elements are taken does not matter.              *)
LEMMA AnyOrder ==
  ASSUME NEW D \in SUBSET Uploads, IsFiniteSet(D), NEW f \in [SUBSET D -> Nat], Sums(D, f)
  PROVE  \A s \in SUBSET D : \A x \in s : f[s] = Size[x] + f[s \ {x}]
<1> DEFINE B == {s \in SUBSET D : \E x \in s : f[s] # Size[x] + f[s \ {x}]}
<1>1. \A s \in SUBSET D : s # {} => f[s] = Size[Taken(s)] + f[s \ {Taken(s)}]
  BY DEF Sums
<1> SUFFICES ASSUME B # {} PROVE FALSE
  OBVIOUS
<1>2. B \in SUBSET SUBSET D
  OBVIOUS
<1>3. PICK s \in B : \A t \in B : Cardinality(s) <= Cardinality(t)
  <2> HIDE DEF B
  <2> QED BY <1>2, SmallestSet
<1>4. PICK x \in s : f[s] # Size[x] + f[s \ {x}]
  BY <1>3
<1>5. PICK y \in s : y = Taken(s) /\ y # x
  BY <1>1, <1>3, <1>4, SubsetCounts
<1>6. s \in SUBSET D /\ s \ {x} \in SUBSET D /\ s \ {y} \in SUBSET D /\ Cardinality(s) \in Nat
      /\ Cardinality(s \ {x}) = Cardinality(s) - 1 /\ Cardinality(s \ {y}) = Cardinality(s) - 1
  <2>1. s \in SUBSET D
    BY <1>3
  <2> QED BY <2>1, SubsetCounts
<1>7. s \ {x} \notin B /\ s \ {y} \notin B
  <2> HIDE DEF B
  <2> QED BY <1>3, <1>6
<1>8. f[s \ {x}] = Size[y] + f[(s \ {x}) \ {y}]
  BY <1>5, <1>6, <1>7
<1>9. f[s \ {y}] = Size[x] + f[(s \ {y}) \ {x}]
  BY <1>5, <1>6, <1>7
<1>10. (s \ {x}) \ {y} = (s \ {y}) \ {x}
  OBVIOUS
<1>11. f[s] = Size[y] + f[s \ {y}]
  BY <1>1, <1>5, <1>6
<1>12. Size[x] \in Nat /\ Size[y] \in Nat /\ f[(s \ {x}) \ {y}] \in Nat
  BY <1>6, InboxesAssumption
<1> HIDE DEF B
<1>13. PICK a, b, c \in Nat : a = Size[x] /\ b = Size[y] /\ c = f[(s \ {x}) \ {y}]
  BY <1>12
<1>14. f[s \ {x}] = b + c /\ f[s \ {y}] = a + c
  BY <1>8, <1>9, <1>10, <1>13
<1>15. f[s] = b + (a + c) /\ f[s] # a + (b + c)
  BY <1>4, <1>11, <1>13, <1>14
<1> QED BY <1>15

(* What a set of uploads adds up to.                                       *)
LEMMA BytesAddUp ==
  ASSUME NEW S \in SUBSET Uploads, IsFiniteSet(S)
  PROVE  /\ Bytes(S) \in Nat
         /\ Bytes({}) = 0
         /\ \A u \in S : Bytes(S) = Size[u] + Bytes(S \ {u})
<1>1. PICK f \in [SUBSET S -> Nat] : Sums(S, f)
  BY SumsExist
<1>2. ASSUME NEW T \in SUBSET S PROVE Bytes(T) = f[T]
  <2>1. T \in SUBSET Uploads /\ IsFiniteSet(T)
    BY FS_Subset
  <2>2. \E e : Sums(T, e)
    BY <2>1, SumsExist
  <2>3. PICK e : e = CHOOSE d : Sums(T, d)
    OBVIOUS
  <2>4. Sums(T, e)
    BY <2>2, <2>3
  <2>5. \A s \in SUBSET T : e[s] = f[s]
    BY <1>1, <2>4, SumsAgree
  <2> QED BY <2>3, <2>5, BytesIsSum
<1>3. f[{}] = 0
  BY <1>1 DEF Sums
<1>4. Bytes(S) = f[S] /\ Bytes({}) = f[{}] /\ f[S] \in Nat
  BY <1>1, <1>2
<1>5. ASSUME NEW u \in S PROVE Bytes(S) = Size[u] + Bytes(S \ {u})
  <2>0. \A s \in SUBSET S : \A x \in s : f[s] = Size[x] + f[s \ {x}]
    BY <1>1, AnyOrder, Zenon
  <2>1. f[S] = Size[u] + f[S \ {u}]
    BY <2>0
  <2>2. Bytes(S \ {u}) = f[S \ {u}]
    BY <1>2
  <2> QED BY <1>4, <2>1, <2>2
<1> QED BY <1>3, <1>4, <1>5

-----------------------------------------------------------------------------
(* The counters and the uploads.                                           *)

(* What one upload adds to a set of uploads, or takes from it.             *)
LEMMA TotalMoves ==
  ASSUME NEW S \in SUBSET Uploads, IsFiniteSet(S), NEW u \in Uploads
  PROVE  /\ Total(S).files \in Nat /\ Total(S).bytes \in Nat /\ Size[u] \in Nat
         /\ IsFiniteSet(S \cup {u}) /\ IsFiniteSet(S \ {u})
         /\ u \notin S => /\ Total(S \cup {u}).files = Total(S).files + 1
                          /\ Total(S \cup {u}).bytes = Total(S).bytes + Size[u]
         /\ u \in S => /\ Total(S \ {u}).files = Total(S).files - 1
                       /\ Total(S \ {u}).bytes = Total(S).bytes - Size[u]
                       /\ Total(S \ {u}).files \in Nat /\ Total(S \ {u}).bytes \in Nat
<1>0. \A T : Total(T).files = Cardinality(T) /\ Total(T).bytes = Bytes(T)
  BY DEF Total, Bytes
<1>1. IsFiniteSet(S \cup {u}) /\ IsFiniteSet(S \ {u}) /\ Cardinality(S) \in Nat
      /\ Cardinality(S \ {u}) \in Nat
  BY FS_AddElement, FS_RemoveElement, FS_CardinalityType
<1>2. Bytes(S) \in Nat /\ Bytes(S \ {u}) \in Nat /\ Size[u] \in Nat
  <2>1. S \ {u} \in SUBSET Uploads
    OBVIOUS
  <2> QED BY <1>1, <2>1, BytesAddUp, InboxesAssumption
<1>3. ASSUME u \notin S
      PROVE  /\ Cardinality(S \cup {u}) = Cardinality(S) + 1
             /\ Bytes(S \cup {u}) = Bytes(S) + Size[u]
  <2>1. S \cup {u} \in SUBSET Uploads /\ (S \cup {u}) \ {u} = S
    BY <1>3
  <2>2. Bytes(S \cup {u}) = Size[u] + Bytes((S \cup {u}) \ {u})
    BY <1>1, <2>1, BytesAddUp
  <2>3. Cardinality(S \cup {u}) = Cardinality(S) + 1
    BY <1>3, FS_AddElement
  <2>4. Bytes(S \cup {u}) = Size[u] + Bytes(S)
    BY <2>1, <2>2
  <2> QED BY <1>2, <2>3, <2>4
<1>4. ASSUME u \in S
      PROVE  /\ Cardinality(S \ {u}) = Cardinality(S) - 1
             /\ Bytes(S \ {u}) = Bytes(S) - Size[u]
  <2>1. Cardinality(S \ {u}) = Cardinality(S) - 1
    BY <1>4, FS_RemoveElement
  <2>2. Bytes(S) = Size[u] + Bytes(S \ {u})
    BY <1>4, BytesAddUp
  <2> QED BY <1>2, <2>1, <2>2
<1> QED BY <1>0, <1>1, <1>2, <1>3, <1>4

(* Counters r and c cover the links R and C, and together the uploads L.   *)
Covers(L, R, C, r, c) ==
  /\ IsFiniteSet(L) /\ IsFiniteSet(R) /\ IsFiniteSet(C)
  /\ Total(L).files <= c.files + r.files /\ Total(L).bytes <= c.bytes + r.bytes
  /\ Total(R).files <= r.files /\ Total(R).bytes <= r.bytes
  /\ Total(C).files <= c.files /\ Total(C).bytes <= c.bytes

LEMMA CoversMoves ==
  ASSUME NEW L \in SUBSET Uploads, NEW R \in SUBSET Uploads, NEW C \in SUBSET Uploads, NEW r, NEW c,
         r.files \in Nat, r.bytes \in Nat, c.files \in Nat, c.bytes \in Nat,
         Covers(L, R, C, r, c), NEW u \in Uploads
  PROVE  /\ u \notin L /\ u \notin R => Covers(L \cup {u}, R \cup {u}, C, Plus(r, u), c)
         /\ u \in R /\ u \notin C => Covers(L, R \ {u}, C \cup {u}, Minus(r, u), Plus(c, u))
         /\ u \in R /\ u \in L => Covers(L \ {u}, R \ {u}, C, Minus(r, u), c)
         /\ Covers(L \ {u}, R, C, r, c)
         /\ Covers(L, R \ {u}, C \ {u}, r, c)
<1>1. IsFiniteSet(L) /\ IsFiniteSet(R) /\ IsFiniteSet(C)
  BY DEF Covers
<1>2. /\ Plus(r, u).files = r.files + 1 /\ Plus(r, u).bytes = r.bytes + Size[u]
      /\ Plus(c, u).files = c.files + 1 /\ Plus(c, u).bytes = c.bytes + Size[u]
      /\ Minus(r, u).files = r.files - 1 /\ Minus(r, u).bytes = r.bytes - Size[u]
  BY DEF Plus, Minus
<1> DEFINE Moves(S) ==
             /\ Total(S).files \in Nat /\ Total(S).bytes \in Nat /\ Size[u] \in Nat
             /\ IsFiniteSet(S \cup {u}) /\ IsFiniteSet(S \ {u})
             /\ u \notin S => /\ Total(S \cup {u}).files = Total(S).files + 1
                              /\ Total(S \cup {u}).bytes = Total(S).bytes + Size[u]
             /\ u \in S => /\ Total(S \ {u}).files = Total(S).files - 1
                           /\ Total(S \ {u}).bytes = Total(S).bytes - Size[u]
                           /\ Total(S \ {u}).files \in Nat /\ Total(S \ {u}).bytes \in Nat
<1>3. Moves(L) /\ Moves(R) /\ Moves(C)
  BY <1>1, TotalMoves
<1>4. ASSUME u \notin L, u \notin R
      PROVE  Covers(L \cup {u}, R \cup {u}, C, Plus(r, u), c)
  BY <1>1, <1>2, <1>3, <1>4 DEF Covers
<1>5. ASSUME u \in R, u \notin C
      PROVE  Covers(L, R \ {u}, C \cup {u}, Minus(r, u), Plus(c, u))
  BY <1>1, <1>2, <1>3, <1>5 DEF Covers
<1>6. ASSUME u \in R, u \in L PROVE Covers(L \ {u}, R \ {u}, C, Minus(r, u), c)
  BY <1>1, <1>2, <1>3, <1>6 DEF Covers
<1>7. ASSUME NEW S \in {L, R, C}
      PROVE  /\ IsFiniteSet(S \ {u}) /\ Total(S \ {u}).files <= Total(S).files
             /\ Total(S \ {u}).bytes <= Total(S).bytes
             /\ Total(S \ {u}).files \in Nat /\ Total(S \ {u}).bytes \in Nat
  <2>1. Moves(S)
    BY <1>3
  <2>2. CASE u \notin S
    <3> DEFINE Below(T) == /\ IsFiniteSet(T) /\ Total(T).files <= Total(S).files
                           /\ Total(T).bytes <= Total(S).bytes
                           /\ Total(T).files \in Nat /\ Total(T).bytes \in Nat
    <3>1. S \ {u} = S
      BY <2>2
    <3>2. Below(S)
      BY <1>1, <2>1
    <3> HIDE DEF Below
    <3>3. Below(S \ {u})
      BY <3>1, <3>2
    <3> QED BY <3>3 DEF Below
  <2>3. CASE u \in S
    BY <2>1, <2>3
  <2> QED BY <2>2, <2>3
<1>8. Covers(L \ {u}, R, C, r, c)
  BY <1>1, <1>3, <1>7 DEF Covers
<1>9. Covers(L, R \ {u}, C \ {u}, r, c)
  BY <1>1, <1>3, <1>7 DEF Covers
<1> QED BY <1>4, <1>5, <1>6, <1>8, <1>9

Live == {u \in Uploads : res[u] \in {"requested", "uploaded", "complete"}}
Linked(s) == {u \in Uploads : link[u] = s}

AccountHolds ==
  /\ Covers(Live, Linked("reserved"), Linked("complete"), reserved, current)
  /\ \A u \in Uploads : res[u] = "none" => link[u] = "none"

(* Where an action moves an upload.                                        *)
LEMMA AccountMoves ==
  ASSUME InboxHolds, AccountHolds, NEW u \in Uploads,
         \A v \in Uploads : res'[v] = "none" => link'[v] = "none",
         \/ /\ u \notin Live /\ u \notin Linked("reserved")
            /\ Live' = Live \cup {u} /\ Linked("reserved")' = Linked("reserved") \cup {u}
            /\ Linked("complete")' = Linked("complete")
            /\ reserved' = Plus(reserved, u) /\ current' = current
         \/ /\ u \in Linked("reserved") /\ u \notin Linked("complete")
            /\ Live' = Live /\ Linked("reserved")' = Linked("reserved") \ {u}
            /\ Linked("complete")' = Linked("complete") \cup {u}
            /\ reserved' = Minus(reserved, u) /\ current' = Plus(current, u)
         \/ /\ u \in Linked("reserved") /\ u \in Live
            /\ Live' = Live \ {u} /\ Linked("reserved")' = Linked("reserved") \ {u}
            /\ Linked("complete")' = Linked("complete")
            /\ reserved' = Minus(reserved, u) /\ current' = current
         \/ /\ Live' = Live \/ Live' = Live \ {u}
            /\ \/ /\ Linked("reserved")' = Linked("reserved")
                  /\ Linked("complete")' = Linked("complete")
               \/ /\ Linked("reserved")' = Linked("reserved") \ {u}
                  /\ Linked("complete")' = Linked("complete") \ {u}
            /\ reserved' = reserved /\ current' = current
  PROVE  AccountHolds'
<1>1. PICK L, R, C \in SUBSET Uploads : L = Live /\ R = Linked("reserved") /\ C = Linked("complete")
  <2>1. Live \in SUBSET Uploads /\ Linked("reserved") \in SUBSET Uploads
        /\ Linked("complete") \in SUBSET Uploads
    BY DEF Live, Linked
  <2> QED BY <2>1
<1>2. PICK r, c : r = reserved /\ c = current
  OBVIOUS
<1>3. r.files \in Nat /\ r.bytes \in Nat /\ c.files \in Nat /\ c.bytes \in Nat
  BY <1>2, InboxCounters DEF InboxHolds, TypeOK
<1>4. Covers(L, R, C, r, c)
  BY <1>1, <1>2 DEF AccountHolds
<1>5. /\ u \notin L /\ u \notin R => Covers(L \cup {u}, R \cup {u}, C, Plus(r, u), c)
      /\ u \in R /\ u \notin C => Covers(L, R \ {u}, C \cup {u}, Minus(r, u), Plus(c, u))
      /\ u \in R /\ u \in L => Covers(L \ {u}, R \ {u}, C, Minus(r, u), c)
      /\ Covers(L \ {u}, R, C, r, c)
      /\ Covers(L, R \ {u}, C \ {u}, r, c)
  BY <1>3, <1>4, CoversMoves
<1>6. Covers(L \ {u}, R \ {u}, C \ {u}, r, c)
  <2>1. L \ {u} \in SUBSET Uploads
    OBVIOUS
  <2> QED BY <1>3, <1>5, <2>1, CoversMoves
<1>7. Covers(Live', Linked("reserved")', Linked("complete")', reserved', current')
  BY <1>1, <1>2, <1>4, <1>5, <1>6
<1> QED BY <1>7 DEF AccountHolds

LEMMA AccountStays ==
  ASSUME AccountHolds, UNCHANGED <<reserved, current, res, link>>
  PROVE  AccountHolds'
<1>1. Live' = Live /\ Linked("reserved")' = Linked("reserved") /\ Linked("complete")' = Linked("complete")
  BY DEF Live, Linked
<1> QED BY <1>1 DEF AccountHolds

LEMMA GuestAccounts ==
  ASSUME InboxHolds, AccountHolds, NEW g \in Guests,
         ReserveUpload(g) \/ CompleteUpload(g) \/ AbortUpload(g)
  PROVE  AccountHolds'
<1>1. PICK u \in Uploads : u = request[g].upload
  BY RequestNames DEF ReserveUpload, CompleteUpload, AbortUpload, InboxHolds
<1>2. /\ res \in [Uploads -> {"none", "requested", "uploaded", "complete", "aborted"}]
      /\ link \in [Uploads -> {"none", "reserved", "complete", "aborted"}]
  BY DEF InboxHolds, TypeOK
<1>3. CASE ReserveUpload(g)
  <2>1. /\ res[u] = "none" /\ reserved' = Plus(reserved, u) /\ current' = current
        /\ res' = [res EXCEPT ![u] = "requested"] /\ link' = [link EXCEPT ![u] = "reserved"]
    BY <1>1, <1>3 DEF ReserveUpload
  <2>2. link[u] = "none"
    BY <2>1 DEF AccountHolds
  <2>3. /\ u \notin Live /\ u \notin Linked("reserved")
        /\ Live' = Live \cup {u} /\ Linked("reserved")' = Linked("reserved") \cup {u}
        /\ Linked("complete")' = Linked("complete")
    BY <1>2, <2>1, <2>2 DEF Live, Linked
  <2>4. \A v \in Uploads : res'[v] = "none" => link'[v] = "none"
    BY <1>2, <2>1 DEF AccountHolds
  <2> QED BY <2>1, <2>3, <2>4, AccountMoves
<1>4. CASE CompleteUpload(g)
  <2>1. /\ res[u] = "uploaded" /\ link[u] = "reserved"
        /\ reserved' = Minus(reserved, u) /\ current' = Plus(current, u)
        /\ res' = [res EXCEPT ![u] = "complete"] /\ link' = [link EXCEPT ![u] = "complete"]
    BY <1>1, <1>4 DEF CompleteUpload
  <2>2. /\ u \in Linked("reserved") /\ u \notin Linked("complete")
        /\ Live' = Live /\ Linked("reserved")' = Linked("reserved") \ {u}
        /\ Linked("complete")' = Linked("complete") \cup {u}
    BY <1>2, <2>1 DEF Live, Linked
  <2>3. \A v \in Uploads : res'[v] = "none" => link'[v] = "none"
    BY <1>2, <2>1 DEF AccountHolds
  <2> QED BY <2>1, <2>2, <2>3, AccountMoves
<1>5. CASE AbortUpload(g)
  <2>1. /\ res[u] \in {"requested", "uploaded"} /\ link[u] = "reserved"
        /\ reserved' = Minus(reserved, u) /\ current' = current
        /\ res' = [res EXCEPT ![u] = "aborted"] /\ link' = [link EXCEPT ![u] = "aborted"]
    BY <1>1, <1>5 DEF AbortUpload
  <2>2. /\ u \in Linked("reserved") /\ u \in Live
        /\ Live' = Live \ {u} /\ Linked("reserved")' = Linked("reserved") \ {u}
        /\ Linked("complete")' = Linked("complete")
    BY <1>2, <2>1 DEF Live, Linked
  <2>3. \A v \in Uploads : res'[v] = "none" => link'[v] = "none"
    BY <1>2, <2>1 DEF AccountHolds
  <2> QED BY <2>1, <2>2, <2>3, AccountMoves
<1> QED BY <1>3, <1>4, <1>5

LEMMA OtherAccounts ==
  ASSUME InboxHolds, AccountHolds, NEW u \in Uploads,
         ReceiveBytes(u) \/ OperatorComplete(u) \/ OperatorAbort(u) \/ DeleteVersion(u)
  PROVE  AccountHolds'
<1>1. /\ res \in [Uploads -> {"none", "requested", "uploaded", "complete", "aborted"}]
      /\ link \in [Uploads -> {"none", "reserved", "complete", "aborted"}]
  BY DEF InboxHolds, TypeOK
<1>2. reserved' = reserved /\ current' = current
  BY DEF ReceiveBytes, OperatorComplete, OperatorAbort, DeleteVersion, ledger
<1>3. CASE DeleteVersion(u)
  <2>1. /\ res' = [res EXCEPT ![u] = "none"] /\ link' = [link EXCEPT ![u] = "none"]
    BY <1>3 DEF DeleteVersion
  <2>2. /\ Live' = Live \ {u} /\ Linked("reserved")' = Linked("reserved") \ {u}
        /\ Linked("complete")' = Linked("complete") \ {u}
    BY <1>1, <2>1 DEF Live, Linked
  <2>3. \A v \in Uploads : res'[v] = "none" => link'[v] = "none"
    BY <1>1, <2>1 DEF AccountHolds
  <2> QED BY <1>2, <2>2, <2>3, AccountMoves
<1>4. CASE ReceiveBytes(u) \/ OperatorComplete(u) \/ OperatorAbort(u)
  <2>1. PICK s \in {"uploaded", "complete", "aborted"} :
          /\ res' = [res EXCEPT ![u] = s] /\ link' = link /\ res[u] \in {"requested", "uploaded"}
    BY <1>4 DEF ReceiveBytes, OperatorComplete, OperatorAbort
  <2>2. Live' = Live \/ Live' = Live \ {u}
    BY <1>1, <2>1 DEF Live
  <2>3. Linked("reserved")' = Linked("reserved") /\ Linked("complete")' = Linked("complete")
    BY <2>1 DEF Linked
  <2>4. \A v \in Uploads : res'[v] = "none" => link'[v] = "none"
    BY <1>1, <2>1 DEF AccountHolds
  <2> QED BY <1>2, <2>2, <2>3, <2>4, AccountMoves
<1> QED BY <1>3, <1>4

LEMMA AccountStep ==
  ASSUME InboxHolds, AccountHolds, Next
  PROVE  AccountHolds'
<1>1. ASSUME NEW g \in Guests, NEW u \in Uploads, NEW kind \in {"issue", "complete", "abort"},
             Authorize(g, kind, u)
      PROVE  AccountHolds'
  BY <1>1, AccountStays DEF Authorize, ledger
<1>2. ASSUME NEW g \in Guests,
             \/ ReserveUpload(g) \/ ReplayUpload(g) \/ CompleteUpload(g) \/ AbortUpload(g)
             \/ Refuse(g)
      PROVE  AccountHolds'
  BY <1>2, GuestAccounts, AccountStays DEF ReplayUpload, Refuse, ledger
<1>3. ASSUME NEW u \in Uploads,
             ReceiveBytes(u) \/ OperatorComplete(u) \/ OperatorAbort(u) \/ DeleteVersion(u)
      PROVE  AccountHolds'
  BY <1>3, OtherAccounts
<1>4. CASE RevokeInbox \/ Tick
  BY <1>4, AccountStays DEF RevokeInbox, Tick, ledger
<1> QED BY <1>1, <1>2, <1>3, <1>4 DEF Next

LEMMA AccountStart ==
  ASSUME Init
  PROVE  AccountHolds
<1>1. Live = {} /\ Linked("reserved") = {} /\ Linked("complete") = {}
  BY DEF Init, Live, Linked
<1>2. IsFiniteSet({}) /\ Total({}).files = 0 /\ Total({}).bytes = 0
  <2>1. {} \in SUBSET Uploads /\ IsFiniteSet({}) /\ Cardinality({}) = 0
    BY FS_EmptySet
  <2>2. Bytes({}) = 0
    BY <2>1, BytesAddUp
  <2> QED BY <2>1, <2>2 DEF Total, Bytes
<1>3. reserved.files = 0 /\ reserved.bytes = 0 /\ current.files = 0 /\ current.bytes = 0
  BY DEF Init
<1>4. Covers(Live, Linked("reserved"), Linked("complete"), reserved, current)
  BY <1>1, <1>2, <1>3 DEF Covers
<1> QED BY <1>4 DEF AccountHolds, Init

LEMMA AccountFollows ==
  ASSUME InboxHolds, AccountHolds
  PROVE  InboxIsAccounted
<1>1. PICK L, r, c : L = Live /\ r = reserved /\ c = current
  OBVIOUS
<1>2. IsFiniteSet(L) /\ Total(L).files <= c.files + r.files /\ Total(L).bytes <= c.bytes + r.bytes
  BY <1>1 DEF AccountHolds, Covers
<1>3. c.files + r.files <= MaximumFiles /\ c.bytes + r.bytes <= MaximumBytes
      /\ c.files \in Nat /\ r.files \in Nat /\ c.bytes \in Nat /\ r.bytes \in Nat
  BY <1>1, InboxCounters DEF InboxHolds, CapacityKept, TypeOK
<1>4. Total(L).files \in Nat /\ Total(L).bytes \in Nat
  <2>1. L \in SUBSET Uploads
    BY <1>1 DEF Live
  <2>2. Cardinality(L) \in Nat /\ Bytes(L) \in Nat
    BY <1>2, <2>1, FS_CardinalityType, BytesAddUp
  <2> QED BY <2>2 DEF Total, Bytes
<1>5. Total(L).files <= MaximumFiles /\ Total(L).bytes <= MaximumBytes
  BY <1>2, <1>3, <1>4, InboxesAssumption
<1>6. NeverOverfull
  BY <1>1, <1>5 DEF NeverOverfull, Within, Live
<1>7. CountersCoverLinks
  BY DEF AccountHolds, Covers, CountersCoverLinks, Within, Linked
<1> QED BY <1>6, <1>7 DEF InboxIsAccounted, InboxHolds

(* An inbox never holds more than it was created for, and its counters     *)
(* cover every link, so that no guest who holds a reservation is refused,  *)
(* whatever guests and operators do to the same uploads (reserve_capacity, *)
(* complete_capacity, release_capacity).                                   *)
THEOREM InboxIsAccountedHolds == SurfaceSpec => []InboxIsAccounted
<1>1. OpenSurface => InboxHolds /\ AccountHolds
  BY InboxesAssumption, AccountStart
     DEF OpenSurface, Init, InboxHolds, TypeOK, CapacityKept, Counters
<1>2. ASSUME InboxHolds, AccountHolds, UNCHANGED vars PROVE InboxHolds' /\ AccountHolds'
  BY <1>2, AccountStays DEF vars, ledger, InboxHolds, TypeOK, CapacityKept
<1>3. InboxHolds /\ AccountHolds /\ [ServeGuest]_<<route, vars, linkVars>>
        => InboxHolds' /\ AccountHolds'
  BY <1>2, InboxStep, AccountStep DEF ServeGuest
<1>4. InboxHolds /\ AccountHolds => InboxIsAccounted
  BY AccountFollows
<1> QED BY <1>1, <1>3, <1>4, PTL DEF SurfaceSpec
=============================================================================
