---------------------------- MODULE GuestSurface ----------------------------
(***************************************************************************)
(* What the standalone server offers to people who hold a link and have no *)
(* account: upload inboxes, and shares with their download grants and      *)
(* previews.  Both are routes of one process.  Neither writes a row that   *)
(* an invariant of the other is about, so a behaviour uses one of them and *)
(* a product would only repeat its states.                                 *)
(***************************************************************************)
EXTENDS Inboxes

CONSTANTS
  Versions, Shares, Handlers, Limits, ShareLifetime, ShareDownload,  \* of PublicLinks
  MaxGrants, MaxLinkTime

VARIABLES
  route,      \* the route under which the people come
  version, object, share, grants, issued, preview, closed, handler, linkNow

Links == INSTANCE PublicLinks WITH
  MaxTime <- MaxLinkTime, row <- version, bytes <- object, now <- linkNow

ASSUME GuestSurfaceAssumption == Links!PublicLinksAssumption

linkVars == <<version, object, share, grants, issued, preview, closed, handler, linkNow>>

OpenSurface == route \in {"inboxes", "links"} /\ Init /\ Links!Init

ServeGuest ==
  \/ route = "inboxes" /\ Next /\ UNCHANGED <<route, linkVars>>
  \/ route = "links" /\ Links!Next /\ UNCHANGED <<route, vars>>

SurfaceSpec == OpenSurface /\ [][ServeGuest]_<<route, vars, linkVars>>

-----------------------------------------------------------------------------
(* An inbox never holds more than it was created for, and its counters    *)
(* cover every link, so that no guest who holds a reservation is refused   *)
(* (reserve_capacity, complete_capacity, release_capacity).                *)
InboxIsAccounted == TypeOK /\ NeverOverfull /\ CountersCoverLinks

(* However many people open a share at once it issues its limit of         *)
(* downloads and no more, and once it is revoked or expired it admits them *)
(* for no longer than the grants it had handed out last                    *)
(* (issue_share_download, SHARE_DOWNLOAD_TTL_MS).                          *)
LinksAreBounded ==
  route = "links" => Links!TypeOK /\ Links!LimitRespected /\ Links!RevocationReaches

(* A deleted version is named by no grant, share or preview, whatever the  *)
(* handlers in flight had read (delete_selected_metadata).                 *)
NoDanglingLinks == route = "links" => Links!NoDanglingLinks
=============================================================================
