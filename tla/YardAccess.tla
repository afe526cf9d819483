----------------------------- MODULE YardAccess -----------------------------
(***************************************************************************)
(* Who may open a Web Yard.  A browser without a session is sent to a      *)
(* login page with a signed continuation; a login key, an invitation or an *)
(* OpenID provider turns it into an exchange code, and the code into a     *)
(* session cookie.  Operators change the yard's visibility, grants, group, *)
(* guests and users meanwhile.                                             *)
(*                                                                         *)
(* A repository call is one step.  The login and callback handlers are     *)
(* several, all with the clock reading of the first.  A handler that makes *)
(* one call only is one step; where it ends something that exists, its     *)
(* clock reading may be up to MaxLag old.                                  *)
(*                                                                         *)
(* One yard with one host label, one environment and one group.  A refused *)
(* request changes nothing and is a stuttering step.  last_used_at_ms and  *)
(* the audit rows written in the same transactions are left out, and so is *)
(* the peer rate limit of the login pages.                                 *)
(***************************************************************************)
EXTENDS Naturals, FiniteSets

CONSTANTS
  Members,        \* local users
  Locals,         \* the members of the yard's own workspace
  Invites,        \* guest invitations; an accepted one is also the guest's subject
  Persons,        \* (issuer, provider subject) pairs of the OpenID provider
  Emails,
  EmailOf,        \* the email of a user, or of an invitation
  Continuations,  \* login continuations
  Visibilities,   \* the visibilities operators choose from
  Opening,        \* the visibility when the model starts
  Handlers,       \* requests that take several steps; each is handled once
  None,
  MaxCodes,       \* bound on exchange codes
  MaxSessions,    \* bound on sessions
  MaxTime,        \* bound on the clock
  MaxLag,         \* bound on the age of a clock reading when it is used
  MaxChanges,     \* bound on what operators do
  CodeLife, LoginLife, SessionLife, InviteLife, History

ASSUME YardAccessAssumption ==
  /\ Locals \subseteq Members
  /\ EmailOf \in [Members \cup Invites -> Emails]
  /\ Members \cap Invites = {} /\ Continuations \cap Invites = {}
  /\ None \notin Members \cup Invites \cup Persons \cup Emails \cup Continuations
  /\ {MaxCodes, MaxSessions, MaxTime, MaxLag, MaxChanges} \subseteq Nat
  /\ {CodeLife, LoginLife, SessionLife, InviteLife, History} \subseteq Nat \ {0}
  /\ Visibilities \subseteq {"public", "any-authenticated", "workspace",
                             "selected", "authenticated-link", "owner"}
  /\ Opening \in Visibilities
  \* A code is remembered for longer than its continuation can be used: a sign-in with the
  \* provider may start until the continuation lapses and take as long again.
  /\ 2 * (LoginLife - 1) + MaxLag <= CodeLife + History

Subjects == Members \cup Invites
Group == "group"
Principals == Members \cup {Group}
Codes == 1..MaxCodes
Sessions == 1..MaxSessions
Time == 0..MaxTime

VARIABLES
  now,
  yard,        \* "active" or "deleted"
  visibility,  \* yard_access_policies.visibility
  user,        \* local_users with their newest login key
  grant,       \* yard_access_grants of users and of the group
  members,     \* workspace_group_members of the group
  group,       \* workspace_groups.status
  invite,      \* yard_guest_invitations with their grant and key
  cont,        \* when a signed continuation lapses, None before it is handed out
  attempt,     \* yard_oidc_attempts, at most one per continuation
  identity,    \* yard_oidc_identities
  code,        \* yard_continuations
  session,     \* yard_sessions
  handler,
  changes,     \* number of operator actions so far
  minted       \* history: how many codes each continuation was turned into

vars == <<now, yard, visibility, user, grant, members, group, invite, cont, attempt,
          identity, code, session, handler, changes, minted>>

NoGrant == [status |-> "none", created |-> 0, expires |-> None]
NoInvite == [status |-> "none", expires |-> 0, grant |-> FALSE, key |-> FALSE, created |-> 0]
NoAttempt == [status |-> "none", created |-> 0, expires |-> 0]
NoCode == [status |-> "none", subject |-> None, from |-> None, created |-> 0, expires |-> 0]
NoSession == [status |-> "none", subject |-> None, code |-> 0, created |-> 0, expires |-> 0]
Idle == [step |-> "idle", now |-> 0, subject |-> None, from |-> None,
         person |-> None, email |-> None]
Done == [Idle EXCEPT !.step = "done"]

\* An installation in use: everybody is known, the group may have been granted access and
\* invitations may have been sent, but nobody has signed in yet.
Init ==
  /\ now = 0
  /\ yard = "active"
  /\ visibility = Opening
  /\ user = [m \in Members |-> [status |-> "active", key |-> 1, since |-> 0]]
  /\ \/ grant = [p \in Principals |-> NoGrant] /\ members = {}
     \/ /\ grant = [p \in Principals |-> IF p = Group THEN [NoGrant EXCEPT !.status = "active"]
                                                     ELSE NoGrant]
        /\ members = Locals
  /\ group = "active"
  /\ invite \in [Invites -> {NoInvite, [NoInvite EXCEPT !.status = "pending", !.grant = TRUE,
                                                        !.expires = InviteLife]}]
  /\ cont = [k \in Continuations |-> None]
  /\ attempt = [k \in Continuations |-> NoAttempt]
  /\ identity = [p \in Persons |-> [subject |-> None, email |-> None]]
  /\ code = [c \in Codes |-> NoCode]
  /\ session = [s \in Sessions |-> NoSession]
  /\ handler = [h \in Handlers |-> Idle]
  /\ changes = 0
  /\ minted = [k \in Continuations \cup Invites |-> 0]

\* The clock reading of a request whose one transaction commits now.
Reading == {t \in Time : t <= now /\ now <= t + MaxLag}

-----------------------------------------------------------------------------
(* Admission.                                                              *)

GrantWorks(p, t) ==
  /\ grant[p].status = "active"
  /\ grant[p].expires # None => grant[p].expires > t

GroupAdmits(m, t) == group = "active" /\ m \in members /\ GrantWorks(Group, t)

MemberAdmitted(m, t) ==
  /\ yard = "active"
  /\ user[m].status = "active"
  /\ \/ visibility \in {"public", "any-authenticated"}
     \/ visibility = "workspace" /\ m \in Locals
     \/ /\ visibility \in {"selected", "authenticated-link"}
        /\ m \in Locals
        /\ GrantWorks(m, t) \/ GroupAdmits(m, t)

GuestAdmitted(i, t) ==
  /\ yard = "active"
  /\ visibility \in {"selected", "authenticated-link"}
  /\ invite[i].status = "accepted"
  /\ invite[i].expires > t
  /\ invite[i].grant
  /\ invite[i].key

Admitted(x, t) == IF x \in Members THEN MemberAdmitted(x, t) ELSE GuestAdmitted(x, t)

\* The session cookie of a request: admission is evaluated again for every one of them.
SessionServes(s, t) ==
  /\ session[s].status = "live"
  /\ session[s].expires > t
  /\ Admitted(session[s].subject, t)

-----------------------------------------------------------------------------
(* Signing in with a key.                                                  *)

Step(h, record) == handler' = [handler EXCEPT ![h] = record]

access == <<yard, visibility, user, grant, members, group, invite>>
tokens == <<cont, attempt, identity, code, session, minted>>

\* A signed continuation carries the time it lapses and is checked against the clock.
Signed(t) == t + LoginLife

Claims(k, t) == cont[k] # None /\ cont[k] > t

\* A page or a refused exchange redirects to the login page.
LoginRedirect(k) ==
  /\ cont[k] = None
  /\ cont' = [cont EXCEPT ![k] = Signed(now)]
  /\ UNCHANGED <<now, access, attempt, identity, code, session, handler, changes, minted>>

MemberKeyWorks(m, n, t) ==
  user[m].status = "active" /\ user[m].key = n /\ user[m].since <= t

GuestKeyWorks(i, t) ==
  /\ invite[i].status = "accepted" /\ invite[i].key /\ invite[i].grant
  /\ invite[i].created <= t /\ invite[i].expires > t

\* The n-th key of a member, or the key of a guest, is presented.
AuthenticateSubject(x, n, t) ==
  IF x \in Members THEN MemberKeyWorks(x, n, t) ELSE GuestKeyWorks(x, t)

\* POST /account/yard-login with a continuation and a login key.
PostLogin(h, k, x, n) ==
  /\ handler[h] = Idle
  /\ Claims(k, now)
  /\ AuthenticateSubject(x, n, now)
  /\ Step(h, [Idle EXCEPT !.step = "evaluate", !.now = now, !.from = k, !.subject = x])
  /\ UNCHANGED <<now, access, tokens, changes>>

EvaluateAdmission(h) ==
  LET r == handler[h]
  IN  /\ r.step = "evaluate"
      /\ Step(h, IF Admitted(r.subject, r.now) THEN [r EXCEPT !.step = "issue"] ELSE Done)
      /\ UNCHANGED <<now, access, tokens, changes>>

\* The rows of yard_continuations are unique by their continuation.
Unused(k) == \A c \in Codes : code[c].status \in {"open", "consumed"} => code[c].from # k

FreshCode(c) == code[c] = NoCode /\ \A d \in Codes : d < c => code[d] # NoCode

NewCode(x, k, t) ==
  [status |-> "open", subject |-> x, from |-> k, created |-> t, expires |-> t + CodeLife]

InsertCode(c, x, k, t) ==
  /\ code' = [code EXCEPT ![c] = NewCode(x, k, t)]
  /\ minted' = [minted EXCEPT ![k] = @ + 1]

\* Admission is evaluated once more in the transaction that issues the code.
IssueCode(h) ==
  LET r == handler[h]
  IN  /\ r.step = "issue"
      /\ Step(h, Done)
      /\ \/ /\ Admitted(r.subject, r.now)
            /\ Unused(r.from)
            /\ \E c \in Codes : FreshCode(c) /\ InsertCode(c, r.subject, r.from, r.now)
         \/ /\ ~ Admitted(r.subject, r.now) \/ ~ Unused(r.from)
            /\ UNCHANGED <<code, minted>>
      /\ UNCHANGED <<now, access, cont, attempt, identity, session, changes>>

-----------------------------------------------------------------------------
(* Signing in with the OpenID provider.                                    *)

\* Attempts that were claimed or have lapsed are deleted before each use.
Cleaned(t) ==
  [k \in Continuations |->
     IF attempt[k].status = "claimed" \/ attempt[k].expires <= t
     THEN NoAttempt ELSE attempt[k]]

NewAttempt(t) == [status |-> "open", created |-> t, expires |-> t + LoginLife]

StartOidc(k) ==
  /\ Claims(k, now)
  /\ Cleaned(now)[k] = NoAttempt
  /\ attempt' = [Cleaned(now) EXCEPT ![k] = NewAttempt(now)]
  /\ UNCHANGED <<now, access, cont, identity, code, session, handler, changes, minted>>

Claimable(k, t) == Cleaned(t)[k].status = "open" /\ attempt[k].created <= t

\* GET /account/yard-oidc/callback claims the attempt, then asks the provider.
ClaimAttempt(h, k) ==
  /\ handler[h] = Idle
  /\ Claimable(k, now)
  /\ attempt' = [Cleaned(now) EXCEPT ![k].status = "claimed"]
  /\ Step(h, [Idle EXCEPT !.step = "provider", !.now = now, !.from = k])
  /\ UNCHANGED <<now, access, cont, identity, code, session, changes, minted>>

\* The verified token names a person, and an email that need not be the one it had before.
ProviderAnswers(h, p, e) ==
  /\ handler[h].step = "provider"
  /\ Step(h, [handler[h] EXCEPT !.step = "bind", !.person = p, !.email = e])
  /\ UNCHANGED <<now, access, tokens, changes>>

ProviderFails(h) ==
  /\ handler[h].step = "provider"
  /\ Step(h, Done)
  /\ UNCHANGED <<now, access, tokens, changes>>

\* The people of this workspace whom an email can stand for.
Candidates(e, t) ==
  {m \in Locals : EmailOf[m] = e /\ user[m].status = "active"}
    \cup {i \in Invites : /\ EmailOf[i] = e
                          /\ invite[i].status = "accepted" /\ invite[i].grant
                          /\ invite[i].expires > t}

AuthorityActive(x, t) ==
  IF x \in Members
  THEN user[x].status = "active"
  ELSE invite[x].status = "accepted" /\ invite[x].grant /\ invite[x].expires > t

\* A revoked session was over when it was revoked, if not before.
Revoked(record, t) ==
  [record EXCEPT !.status = "revoked", !.expires = IF @ <= t THEN @ ELSE t]

\* revoke_for_user
RevokeSessionsOf(x, t) ==
  [s \in Sessions |->
     IF session[s].subject = x /\ session[s].status = "live" /\ session[s].expires > t
     THEN Revoked(session[s], t) ELSE session[s]]

\* revoked_at_ms may not precede created_at_ms: a stale reading fails the transaction.
RevocableAt(x, t) ==
  \A s \in Sessions :
    session[s].subject = x /\ session[s].status = "live" /\ session[s].expires > t
      => session[s].created <= t

\* The person is linked and the provider now names another email, or none.
EmailMoved(p, e) == identity[p].subject # None /\ identity[p].email # e

BindByEmail(h) ==
  LET r == handler[h]
  IN  /\ r.step = "bind"
      /\ \E x \in Candidates(r.email, r.now) :
           /\ identity' = [identity EXCEPT ![r.person] = [subject |-> x, email |-> r.email]]
           /\ Step(h, [r EXCEPT !.step = "evaluate", !.subject = x])
      /\ UNCHANGED <<now, access, cont, attempt, code, session, changes, minted>>

\* A person signs in for the first time, again, or with another email.
BindIdentity(h) ==
  LET r == handler[h]
      bound == identity[r.person]
  IN  /\ r.step = "bind"
      /\ \/ /\ bound.subject = None
            /\ \E x \in Candidates(r.email, r.now) :
                 /\ Candidates(r.email, r.now) = {x}
                 /\ identity' = [identity EXCEPT ![r.person] =
                                   [subject |-> x, email |-> r.email]]
                 /\ Step(h, [r EXCEPT !.step = "evaluate", !.subject = x])
            /\ UNCHANGED session
         \/ /\ bound.subject # None /\ bound.email = r.email
            /\ AuthorityActive(bound.subject, r.now)
            /\ Step(h, [r EXCEPT !.step = "evaluate", !.subject = bound.subject])
            /\ UNCHANGED <<identity, session>>
         \/ /\ EmailMoved(r.person, r.email)
            /\ RevocableAt(bound.subject, r.now)
            /\ session' = RevokeSessionsOf(bound.subject, r.now)
            /\ Step(h, Done)
            /\ UNCHANGED identity
         \/ /\ \/ bound.subject = None /\ Cardinality(Candidates(r.email, r.now)) # 1
               \/ /\ bound.subject # None /\ bound.email = r.email
                  /\ ~ AuthorityActive(bound.subject, r.now)
               \/ /\ EmailMoved(r.person, r.email)
                  /\ ~ RevocableAt(bound.subject, r.now)
            /\ Step(h, Done)
            /\ UNCHANGED <<identity, session>>
      /\ UNCHANGED <<now, access, cont, attempt, code, changes, minted>>

-----------------------------------------------------------------------------
(* Guests.                                                                 *)

Pending(i, t) == invite[i].status = "pending" /\ invite[i].grant /\ invite[i].expires > t

\* POST /account/yard-invite/accept resolves the invitation first.
OpenInvitation(h, i) ==
  /\ handler[h] = Idle
  /\ Pending(i, now)
  /\ yard = "active"
  /\ Step(h, [Idle EXCEPT !.step = "accept", !.now = now, !.subject = i, !.from = i])
  /\ UNCHANGED <<now, access, tokens, changes>>

\* The update of the invitation without its guard on the status.
AcceptResolved(h) ==
  LET r == handler[h]
      i == r.subject
  IN  /\ r.step = "accept"
      /\ Step(h, Done)
      /\ invite' = [invite EXCEPT ![i].status = "accepted", ![i].key = TRUE,
                                  ![i].grant = TRUE, ![i].created = r.now]
      /\ \E c \in Codes : FreshCode(c) /\ InsertCode(c, i, i, r.now)
      /\ UNCHANGED <<now, yard, visibility, user, grant, members, group, cont, attempt,
                     identity, session, changes>>

\* Subject, invitation, key and code change together, and only if the guest is then admitted.
Acceptable(i, t) ==
  /\ Pending(i, t)
  /\ yard = "active" /\ visibility \in {"selected", "authenticated-link"}
  /\ Unused(i)

AcceptedInvite(i, t) == [invite[i] EXCEPT !.status = "accepted", !.key = TRUE, !.created = t]

AcceptInvitation(h) ==
  LET r == handler[h]
      i == r.subject
  IN  /\ r.step = "accept"
      /\ Step(h, Done)
      /\ \/ /\ Acceptable(i, r.now)
            /\ invite' = [invite EXCEPT ![i] = AcceptedInvite(i, r.now)]
            /\ \E c \in Codes : FreshCode(c) /\ InsertCode(c, i, i, r.now)
         \/ /\ ~ Acceptable(i, r.now)
            /\ UNCHANGED <<invite, code, minted>>
      /\ UNCHANGED <<now, yard, visibility, user, grant, members, group, cont, attempt,
                     identity, session, changes>>

-----------------------------------------------------------------------------
(* Sessions.                                                               *)

FreshSession(s) == session[s] = NoSession /\ \A o \in Sessions : o < s => session[o] # NoSession

CodeWorks(c, t) == code[c].status = "open" /\ code[c].expires > t /\ code[c].created <= t

NewSession(c, t) ==
  [status |-> "live", subject |-> code[c].subject, code |-> c, created |-> t,
   expires |-> t + SessionLife]

\* GET /.blobyard/session/exchange consumes the code, evaluates admission and inserts the
\* session in one transaction.
Exchange(c) ==
  \E t \in Reading, s \in Sessions :
    /\ CodeWorks(c, t)
    /\ Admitted(code[c].subject, t)
    /\ FreshSession(s)
    /\ code' = [code EXCEPT ![c].status = "consumed"]
    /\ session' = [session EXCEPT ![s] = NewSession(c, t)]
    /\ UNCHANGED <<now, access, cont, attempt, identity, handler, changes, minted>>

RevocableByToken(s, t) ==
  session[s].status = "live" /\ session[s].expires > t /\ session[s].created <= t

\* POST /.blobyard/session/logout
Logout(s) ==
  \E t \in Reading :
    /\ RevocableByToken(s, t)
    /\ session' = [session EXCEPT ![s] = Revoked(@, t)]
    /\ UNCHANGED <<now, access, cont, attempt, identity, code, handler, changes, minted>>

PurgeExpired ==
  \E t \in Reading :
    LET oldCode(c) == code[c].status \in {"open", "consumed"} /\ code[c].expires <= t
    IN  /\ \E c \in Codes : oldCode(c)
        /\ code' = [c \in Codes |-> IF oldCode(c) THEN [NoCode EXCEPT !.status = "purged"]
                                                  ELSE code[c]]
        /\ UNCHANGED <<now, access, cont, attempt, identity, session, handler, changes, minted>>

\* The retention command removes rows that have been over for History.
Purge ==
  \E t \in Reading :
    LET oldCode(c) == code[c].status \in {"open", "consumed"} /\ code[c].expires + History < t
        oldSession(s) == session[s].status \in {"live", "revoked"}
                           /\ session[s].expires + History < t
    IN  /\ (\E c \in Codes : oldCode(c)) \/ (\E s \in Sessions : oldSession(s))
        /\ code' = [c \in Codes |-> IF oldCode(c) THEN [NoCode EXCEPT !.status = "purged"]
                                                  ELSE code[c]]
        /\ session' = [s \in Sessions |->
                         IF oldSession(s) THEN [NoSession EXCEPT !.status = "purged"]
                                          ELSE session[s]]
        /\ UNCHANGED <<now, access, cont, attempt, identity, handler, changes, minted>>

-----------------------------------------------------------------------------
(* What operators do.                                                      *)

Change == changes < MaxChanges /\ changes' = changes + 1

SetVisibility(v) ==
  /\ Change
  /\ yard = "active" /\ visibility # v
  /\ visibility' = v
  /\ UNCHANGED <<now, yard, user, grant, members, group, invite, tokens, handler>>

ValidPrincipal(p) ==
  IF p = Group THEN group = "active" ELSE p \in Locals /\ user[p].status = "active"

\* POST /v1/yards/access/grant for a user of the workspace or the group.
GrantAccess(p) ==
  \E e \in {None, now + 1} :
    /\ Change
    /\ yard = "active"
    /\ grant[p].status # "active"
    /\ ValidPrincipal(p)
    /\ grant' = [grant EXCEPT ![p] = [status |-> "active", created |-> now, expires |-> e]]
    /\ UNCHANGED <<now, yard, visibility, user, members, group, invite, tokens, handler>>

GrantRevocableAt(p, t) == grant[p].status = "active" /\ grant[p].created <= t

\* POST /v1/yards/access/revoke, which refuses the grant of an invitation.
RevokeAccess(p) ==
  \E t \in Reading :
    /\ Change
    /\ yard = "active"
    /\ GrantRevocableAt(p, t)
    /\ grant' = [grant EXCEPT ![p].status = "revoked"]
    /\ UNCHANGED <<now, yard, visibility, user, members, group, invite, tokens, handler>>

AddMember(m) ==
  /\ Change
  /\ group = "active" /\ user[m].status = "active" /\ m \in Locals \ members
  /\ members' = members \cup {m}
  /\ UNCHANGED <<now, yard, visibility, user, grant, group, invite, tokens, handler>>

RemoveMember(m) ==
  /\ Change
  /\ group = "active" /\ m \in members
  /\ members' = members \ {m}
  /\ UNCHANGED <<now, yard, visibility, user, grant, group, invite, tokens, handler>>

\* Deactivating the group revokes its grants and dissolves it.
DeactivateGroup ==
  \E t \in Reading :
    /\ Change
    /\ group = "active"
    /\ grant[Group].status = "active" => grant[Group].created <= t
    /\ group' = "deactivated"
    /\ members' = {}
    /\ grant' = [grant EXCEPT ![Group].status = IF @ = "active" THEN "revoked" ELSE @]
    /\ UNCHANGED <<now, yard, visibility, user, invite, tokens, handler>>

\* One live invitation per email.
HasCapacity(i, t) ==
  \A j \in Invites : EmailOf[j] = EmailOf[i] /\ invite[j].status \in {"pending", "accepted"}
                       => invite[j].expires <= t

NewInvite(t) ==
  [status |-> "pending", expires |-> t + InviteLife, grant |-> TRUE, key |-> FALSE, created |-> t]

\* An invitation and its grant are inserted together.
CreateInvite(i) ==
  /\ Change
  /\ yard = "active"
  /\ invite[i] = NoInvite
  /\ HasCapacity(i, now)
  /\ invite' = [invite EXCEPT ![i] = NewInvite(now)]
  /\ UNCHANGED <<now, yard, visibility, user, grant, members, group, tokens, handler>>

InviteRevocableAt(i, t) ==
  /\ invite[i].status \in {"pending", "accepted"}
  /\ invite[i].grant
  /\ invite[i].created <= t

\* Invitation, grant and keys are revoked together, or not at all when the grant is not
\* there to be revoked or the reading is older than the key.
RevokeInvite(i) ==
  \E t \in Reading :
    /\ Change
    /\ InviteRevocableAt(i, t)
    /\ invite' = [invite EXCEPT ![i].status = "revoked", ![i].grant = FALSE, ![i].key = FALSE]
    /\ UNCHANGED <<now, yard, visibility, user, grant, members, group, tokens, handler>>

RevokeSession(s) ==
  \E t \in Reading :
    /\ Change
    /\ session[s].status = "live" /\ session[s].created <= t
    /\ session' = [session EXCEPT ![s] = Revoked(@, t)]
    /\ UNCHANGED <<now, access, cont, attempt, identity, code, handler, minted>>

KeyRevocableAt(m, t) == user[m].status = "active" /\ user[m].since <= t

\* The old key stops working when the new one is written.
ResetKey(m) ==
  \E t \in Reading :
    /\ Change
    /\ KeyRevocableAt(m, t)
    /\ user' = [user EXCEPT ![m] = [@ EXCEPT !.key = user[m].key + 1, !.since = t]]
    /\ UNCHANGED <<now, yard, visibility, grant, members, group, invite, tokens, handler>>

\* Sessions created after the reading are passed over.
DeactivateEarlier(m) ==
  \E t \in Reading :
    /\ Change
    /\ user[m].status = "active" /\ user[m].since <= t
    /\ user' = [user EXCEPT ![m].status = "deactivated"]
    /\ session' = [s \in Sessions |->
                     IF session[s].created <= t THEN RevokeSessionsOf(m, t)[s] ELSE session[s]]
    /\ members' = members \ {m}
    /\ UNCHANGED <<now, yard, visibility, grant, group, invite, cont, attempt, identity, code,
                   handler, minted>>

\* Status, keys, subject, sessions and memberships in one transaction.
DeactivateUser(m) ==
  \E t \in Reading :
    /\ Change
    /\ KeyRevocableAt(m, t)
    /\ RevocableAt(m, t)
    /\ user' = [user EXCEPT ![m].status = "deactivated"]
    /\ session' = RevokeSessionsOf(m, t)
    /\ members' = members \ {m}
    /\ UNCHANGED <<now, yard, visibility, grant, group, invite, cont, attempt, identity, code,
                   handler, minted>>

DeleteYard ==
  /\ Change
  /\ yard = "active"
  /\ yard' = "deleted"
  /\ UNCHANGED <<now, visibility, user, grant, members, group, invite, tokens, handler>>

Tick ==
  /\ now < MaxTime
  /\ now' = now + 1
  \* MaxLag: no request holds a reading older than that.
  /\ \A h \in Handlers : handler[h] \notin {Idle, Done} => now + 1 <= handler[h].now + MaxLag
  /\ UNCHANGED <<access, tokens, handler, changes>>

-----------------------------------------------------------------------------

HandlerStep(h) ==
  \/ \E k \in Continuations, m \in Members : \E n \in 1..user[m].key : PostLogin(h, k, m, n)
  \/ \E k \in Continuations, i \in Invites : invite[i].key /\ PostLogin(h, k, i, 1)
  \/ EvaluateAdmission(h)
  \/ IssueCode(h)
  \/ \E k \in Continuations : ClaimAttempt(h, k)
  \/ \E p \in Persons, e \in Emails \cup {None} : ProviderAnswers(h, p, e)
  \/ ProviderFails(h)
  \/ BindIdentity(h)
  \/ \E i \in Invites : OpenInvitation(h, i)
  \/ AcceptInvitation(h)

Operate ==
  \/ \E v \in Visibilities : SetVisibility(v)
  \/ \E p \in Principals : GrantAccess(p) \/ RevokeAccess(p)
  \/ \E m \in Members : AddMember(m) \/ RemoveMember(m) \/ ResetKey(m) \/ DeactivateUser(m)
  \/ DeactivateGroup
  \/ \E i \in Invites : CreateInvite(i) \/ RevokeInvite(i)
  \/ \E s \in Sessions : RevokeSession(s)
  \/ DeleteYard

Next ==
  \/ \E h \in Handlers : HandlerStep(h)
  \/ \E k \in Continuations : LoginRedirect(k) \/ StartOidc(k)
  \/ \E c \in Codes : Exchange(c)
  \/ \E s \in Sessions : Logout(s)
  \/ Purge
  \/ Operate
  \/ Tick

Spec == Init /\ [][Next]_vars

-----------------------------------------------------------------------------

UserRows == [status: {"active", "deactivated"}, key: Nat, since: Time]
GrantRows ==
  [status: {"none", "active", "revoked"}, created: Time, expires: {None} \cup Nat]
InviteRows ==
  [status: {"none", "pending", "accepted", "revoked"}, expires: Nat, grant: BOOLEAN,
   key: BOOLEAN, created: Time]
AttemptRows == [status: {"none", "open", "claimed"}, created: Time, expires: Nat]
IdentityRows == [subject: Subjects \cup {None}, email: Emails \cup {None}]
CodeRows ==
  [status: {"none", "open", "consumed", "purged"}, subject: Subjects \cup {None},
   from: Continuations \cup Invites \cup {None}, created: Time, expires: Nat]
SessionRows ==
  [status: {"none", "live", "revoked", "purged"}, subject: Subjects \cup {None},
   code: Codes \cup {0}, created: Time, expires: Nat]
Calls ==
  [step: {"idle", "evaluate", "issue", "provider", "bind", "accept", "done"}, now: Time,
   subject: Subjects \cup {None}, from: Continuations \cup Invites \cup {None},
   person: Persons \cup {None}, email: Emails \cup {None}]

TypeOK ==
  /\ now \in Time
  /\ yard \in {"active", "deleted"}
  /\ visibility \in Visibilities
  /\ user \in [Members -> UserRows]
  /\ grant \in [Principals -> GrantRows]
  /\ members \subseteq {m \in Locals : user[m].status = "active"}
  /\ group \in {"active", "deactivated"}
  /\ invite \in [Invites -> InviteRows]
  /\ cont \in [Continuations -> {None} \cup Nat]
  /\ attempt \in [Continuations -> AttemptRows]
  /\ identity \in [Persons -> IdentityRows]
  /\ code \in [Codes -> CodeRows]
  /\ session \in [Sessions -> SessionRows]
  /\ handler \in [Handlers -> Calls]
  /\ changes \in 0..MaxChanges
  /\ minted \in [Continuations \cup Invites -> Nat]

\* An exchange code buys one session, however many browsers present it (consume_continuation
\* in yard_session_store.rs).
CodeYieldsOneSession ==
  \A s, o \in Sessions : session[s].code = session[o].code /\ session[s].code # 0 => s = o

\* A signed login link or an invitation is turned into one code, by whichever sign-in comes
\* first, even after the rows that remember its use are purged.
OneCodePerContinuation == \A k \in DOMAIN minted : minted[k] <= 1

\* When a user has been deactivated no unexpired session of theirs is left, whatever was in
\* flight and however old the reading of the deactivation was (deactivate_local_user).
DeactivatedHasNoSession ==
  \A m \in Members, s \in Sessions :
    user[m].status = "deactivated" /\ session[s].subject = m /\ session[s].status = "live"
      => session[s].expires <= now

Withdrawn(x) ==
  \/ yard = "deleted"
  \/ x \in Members /\ user[x].status = "deactivated"
  \/ x \in Invites /\ invite[x].status = "revoked"

\* The next request after a withdrawal is denied: no session of the subject serves and no
\* handler that authenticated before it gets past its next check.
WithdrawnIsDenied ==
  /\ \A s \in Sessions, t \in Reading :
       session[s].status = "live" /\ Withdrawn(session[s].subject) => ~ SessionServes(s, t)
  /\ \A i \in Invites : invite[i].status = "revoked" => ~ invite[i].key /\ ~ invite[i].grant

\* An invitation that can be used can be revoked: revoke_authority needs its grant to be
\* active and the grants endpoint never takes it away on its own.
InviteRevocable ==
  \A i \in Invites : invite[i].status \in {"pending", "accepted"} <=> invite[i].grant

\* Invitations only move forward, are accepted once and never after their revocation.
InvitationSettles ==
  [][\A i \in Invites :
       /\ invite[i].status = "revoked" => invite'[i] = invite[i]
       /\ invite[i].status = "accepted" => invite'[i].status \in {"accepted", "revoked"}
                                             /\ invite'[i].created = invite[i].created]_vars

\* A provider identity stays bound to the subject it was first linked to, whose email it
\* had: a later email never moves it to somebody else (authenticate_existing).
IdentityNeverRebinds ==
  [][\A p \in Persons :
       /\ identity[p].subject # None => identity'[p] = identity[p]
       /\ identity'[p].subject # None => EmailOf[identity'[p].subject] = identity'[p].email]_vars

\* One sign-in yields one code and one session, whatever is sent twice or purged meanwhile
\* (yard_session_store.rs).
SignsInOnce == TypeOK /\ CodeYieldsOneSession /\ OneCodePerContinuation

\* Whatever was withdrawn is withdrawn for every request after it, and can be withdrawn
\* (yard_session_admission.rs, deactivate_local_user, revoke_authority).
WithdrawalReaches == DeactivatedHasNoSession /\ WithdrawnIsDenied /\ InviteRevocable
=============================================================================
