-------------------------- MODULE YardAccessProofs --------------------------
(***************************************************************************)
(* Theorems about YardAccess, for any number of users, invitations,        *)
(* continuations, requests, codes and sessions.                            *)
(***************************************************************************)
EXTENDS YardAccess, TLAPS

Busy(r) == r.step \notin {"idle", "done"}

(* What a request carries from one of its steps to the next.               *)
CallHolds(r) ==
  /\ r.step \in {"evaluate", "issue", "provider", "bind"} => r.from \in Continuations
  /\ r.step \in {"evaluate", "issue"} => r.subject \in Subjects
  /\ r.step = "bind" => r.person \in Persons
  /\ r.step = "accept" => r.subject \in Invites
  /\ Busy(r) => r.now <= now /\ now <= r.now + MaxLag

CallsHold == \A h \in Handlers : CallHolds(handler[h])

(* The rows that stand for something name a subject.                       *)
RowsHold ==
  /\ \A c \in Codes : code[c].status \in {"open", "consumed"} => code[c].subject \in Subjects
  /\ \A s \in Sessions : session[s].status \in {"live", "revoked"} => session[s].subject \in Subjects
  /\ \A p \in Persons : identity[p].subject # None =>
       /\ identity[p].subject \in Subjects
       /\ EmailOf[identity[p].subject] = identity[p].email

Typed == TypeOK /\ CallsHold /\ RowsHold

LEMMA NaturalBounds ==
  /\ MaxCodes \in Nat /\ MaxSessions \in Nat /\ MaxTime \in Nat /\ MaxLag \in Nat
  /\ MaxChanges \in Nat /\ CodeLife \in Nat \ {0} /\ LoginLife \in Nat \ {0}
  /\ SessionLife \in Nat \ {0} /\ InviteLife \in Nat \ {0} /\ History \in Nat \ {0}
  BY YardAccessAssumption

LEMMA Blanks ==
  /\ Idle \in Calls /\ Idle.step = "idle" /\ Idle.now = 0
  /\ Done \in Calls /\ Done.step = "done"
  /\ NoCode \in CodeRows /\ NoCode.status = "none"
  /\ NoSession \in SessionRows /\ NoSession.status = "none" /\ NoSession.code = 0
  /\ NoAttempt \in AttemptRows /\ NoAttempt.status = "none" /\ NoAttempt.expires = 0
  /\ NoInvite \in InviteRows /\ NoInvite.status = "none" /\ ~ NoInvite.grant /\ ~ NoInvite.key
  /\ NoGrant \in GrantRows
<1>1. 0 \in Time
  BY NaturalBounds DEF Time
<1> QED BY <1>1 DEF Idle, Done, Calls, NoCode, CodeRows, NoSession, SessionRows, NoAttempt,
           AttemptRows, NoInvite, InviteRows, NoGrant, GrantRows

LEMMA SubjectsSplit ==
  /\ \A m \in Members : m \in Subjects /\ m \notin Invites /\ m # None
  /\ \A i \in Invites : i \in Subjects /\ i \notin Members /\ i # None
  /\ \A k \in Continuations : k \notin Invites
  BY YardAccessAssumption DEF Subjects

(* A reading is a time at or before the clock.                             *)
LEMMA ReadingIsPast ==
  ASSUME Typed, NEW t \in Reading
  PROVE  t \in Time /\ t \in Nat /\ now \in Nat /\ t <= now /\ now <= t + MaxLag
  BY NaturalBounds DEF Reading, Typed, TypeOK, Time

(* A request that ends or goes on to a well-typed state keeps the types.   *)
LEMMA StepType ==
  ASSUME Typed, NEW h \in Handlers, NEW r \in Calls, Step(h, r), now' = now, CallHolds(r)
  PROVE  CallsHold' /\ handler' \in [Handlers -> Calls]
  BY DEF Typed, TypeOK, CallsHold, CallHolds, Step

LEMMA DoneType ==
  ASSUME Typed, NEW h \in Handlers, Step(h, Done), now' = now
  PROVE  CallsHold' /\ handler' \in [Handlers -> Calls]
<1>1. Done \in Calls /\ CallHolds(Done)
  BY Blanks DEF CallHolds, Busy
<1> QED BY <1>1, StepType

(* A request under way that moves on with what it knows.                   *)
LEMMA NextStepType ==
  ASSUME Typed, NEW h \in Handlers, NEW r \in Calls, Step(h, r), now' = now,
         Busy(handler[h]), r.now = handler[h].now,
         r.step \in {"evaluate", "issue", "bind"}, r.from \in Continuations,
         r.step \in {"evaluate", "issue"} => r.subject \in Subjects,
         r.step = "bind" => r.person \in Persons
  PROVE  CallsHold' /\ handler' \in [Handlers -> Calls]
<1>1. CallHolds(r)
  BY DEF Typed, CallsHold, CallHolds
<1> QED BY <1>1, StepType

-----------------------------------------------------------------------------
(* The rows that are written.                                              *)

LEMMA NewCodeRow ==
  ASSUME NEW x \in Subjects, NEW k \in Continuations \cup Invites, NEW t \in Time
  PROVE  /\ NewCode(x, k, t) \in CodeRows
         /\ NewCode(x, k, t).status = "open" /\ NewCode(x, k, t).subject = x
         /\ NewCode(x, k, t).from = k /\ NewCode(x, k, t).created = t
         /\ NewCode(x, k, t).expires = t + CodeLife
<1>1. t + CodeLife \in Nat
  BY NaturalBounds DEF Time
<1> QED BY <1>1 DEF NewCode, CodeRows

LEMMA RevokedRow ==
  ASSUME NEW row \in SessionRows, NEW t \in Nat
  PROVE  /\ Revoked(row, t) \in SessionRows
         /\ Revoked(row, t).status = "revoked" /\ Revoked(row, t).subject = row.subject
         /\ Revoked(row, t).code = row.code
<1>1. (IF row.expires <= t THEN row.expires ELSE t) \in Nat
  BY DEF SessionRows
<1> QED BY <1>1 DEF Revoked, SessionRows

(* Revocation of a subject's sessions only marks rows.                     *)
LEMMA RevokeSessionsRows ==
  ASSUME Typed, NEW x, NEW t \in Nat
  PROVE  /\ RevokeSessionsOf(x, t) \in [Sessions -> SessionRows]
         /\ \A s \in Sessions :
              \/ RevokeSessionsOf(x, t)[s] = session[s]
              \/ /\ session[s].subject = x /\ session[s].status = "live"
                 /\ RevokeSessionsOf(x, t)[s] = Revoked(session[s], t)
<1>1. session \in [Sessions -> SessionRows]
  BY DEF Typed, TypeOK
<1> QED BY <1>1, RevokedRow DEF RevokeSessionsOf

LEMMA LiveRowsKept ==
  ASSUME Typed, NEW s \in Sessions, NEW t \in Nat,
         \/ session'[s] = session[s]
         \/ session[s].status = "live" /\ session'[s] = Revoked(session[s], t)
  PROVE  session'[s].status \in {"live", "revoked"} => session'[s].subject \in Subjects
<1>1. session[s] \in SessionRows
  BY DEF Typed, TypeOK
<1>2. Revoked(session[s], t).subject = session[s].subject
  BY <1>1, RevokedRow
<1> QED BY <1>2 DEF Typed, RowsHold

LEMMA CleanedRows ==
  ASSUME Typed, NEW t
  PROVE  /\ Cleaned(t) \in [Continuations -> AttemptRows]
         /\ \A k \in Continuations : \/ Cleaned(t)[k] = NoAttempt
                                     \/ Cleaned(t)[k] = attempt[k] /\ ~ (attempt[k].expires <= t)
  BY Blanks DEF Cleaned, Typed, TypeOK

LEMMA InviteRowsKept ==
  ASSUME NEW row \in InviteRows, NEW t \in Time
  PROVE  /\ [row EXCEPT !.status = "accepted", !.key = TRUE, !.created = t] \in InviteRows
         /\ [row EXCEPT !.status = "accepted", !.key = TRUE, !.created = t].grant = row.grant
         /\ [row EXCEPT !.status = "accepted", !.key = TRUE, !.created = t].status = "accepted"
         /\ [row EXCEPT !.status = "revoked", !.grant = FALSE, !.key = FALSE] \in InviteRows
         /\ [row EXCEPT !.status = "revoked", !.grant = FALSE, !.key = FALSE].status = "revoked"
         /\ ~ [row EXCEPT !.status = "revoked", !.grant = FALSE, !.key = FALSE].grant
         /\ ~ [row EXCEPT !.status = "revoked", !.grant = FALSE, !.key = FALSE].key
  BY DEF InviteRows

(* The steps that read a boolean of an invitation leave it one.            *)
LEMMA NewInviteRow ==
  ASSUME NEW t \in Time
  PROVE  /\ NewInvite(t) \in InviteRows /\ NewInvite(t).status = "pending" /\ NewInvite(t).grant
         /\ ~ NewInvite(t).key
<1>1. t + InviteLife \in Nat
  BY NaturalBounds DEF Time
<1> QED BY <1>1 DEF NewInvite, InviteRows

-----------------------------------------------------------------------------
(* Type correctness.                                                       *)

(* What the steps of a request that only read leave as it was.             *)
LEMMA QuietType ==
  ASSUME Typed, CallsHold', handler' \in [Handlers -> Calls],
         UNCHANGED <<now, access, tokens, changes>>
  PROVE  Typed'
  BY DEF Typed, TypeOK, RowsHold, access, tokens

LEMMA SignInType ==
  ASSUME Typed, NEW h \in Handlers, NEW k \in Continuations,
         \/ \E x \in Subjects, n \in Nat : PostLogin(h, k, x, n)
         \/ ClaimAttempt(h, k)
  PROVE  Typed'
<1>1. now \in Time /\ now \in Nat
  BY NaturalBounds DEF Typed, TypeOK, Time
<1>2. CASE \E x \in Subjects, n \in Nat : PostLogin(h, k, x, n)
  <2>1. PICK x \in Subjects, n \in Nat : PostLogin(h, k, x, n)
    BY <1>2
  <2> DEFINE r == [Idle EXCEPT !.step = "evaluate", !.now = now, !.from = k, !.subject = x]
  <2>2. r \in Calls /\ r.step = "evaluate" /\ r.now = now /\ r.from = k /\ r.subject = x
    BY <1>1 DEF Idle, Calls
  <2>3. Step(h, r) /\ UNCHANGED <<now, access, tokens, changes>>
    BY <2>1 DEF PostLogin
  <2> HIDE DEF r
  <2>4. CallHolds(r)
    BY <1>1, <2>2, NaturalBounds DEF CallHolds
  <2> QED BY <2>2, <2>3, <2>4, StepType, QuietType
<1>3. CASE ClaimAttempt(h, k)
  <2> DEFINE r == [Idle EXCEPT !.step = "provider", !.now = now, !.from = k]
  <2>1. r \in Calls /\ r.step = "provider" /\ r.now = now /\ r.from = k
    BY <1>1 DEF Idle, Calls
  <2>2. Step(h, r) /\ UNCHANGED <<now, access, cont, identity, code, session, changes, minted>>
    BY <1>3 DEF ClaimAttempt
  <2> HIDE DEF r
  <2>3. CallHolds(r)
    BY <1>1, <2>1, NaturalBounds DEF CallHolds
  <2>4. CallsHold' /\ handler' \in [Handlers -> Calls]
    BY <2>1, <2>2, <2>3, StepType
  <2>5. attempt' \in [Continuations -> AttemptRows]
    <3>1. attempt' = [Cleaned(now) EXCEPT ![k].status = "claimed"]
      BY <1>3 DEF ClaimAttempt
    <3>2. Cleaned(now) \in [Continuations -> AttemptRows]
      BY CleanedRows
    <3> QED BY <3>1, <3>2 DEF AttemptRows
  <2> QED BY <2>2, <2>4, <2>5 DEF Typed, TypeOK, RowsHold, access
<1> QED BY <1>2, <1>3

LEMMA IssueCodeType ==
  ASSUME Typed, NEW h \in Handlers, IssueCode(h)
  PROVE  Typed'
<1> DEFINE r == handler[h]
<1>1. r.from \in Continuations /\ r.subject \in Subjects /\ r.now \in Time
  BY DEF IssueCode, Typed, TypeOK, CallsHold, CallHolds, Calls
<1>2. UNCHANGED <<now, access, cont, attempt, identity, session, changes>> /\ Step(h, Done)
  BY DEF IssueCode
<1>3. CallsHold' /\ handler' \in [Handlers -> Calls]
  BY <1>2, DoneType
<1>4. /\ code' \in [Codes -> CodeRows] /\ minted' \in [Continuations \cup Invites -> Nat]
      /\ \A c \in Codes : code'[c].status \in {"open", "consumed"} => code'[c].subject \in Subjects
  <2>1. CASE UNCHANGED <<code, minted>>
    BY <2>1 DEF Typed, TypeOK, RowsHold
  <2>2. CASE \E c \in Codes : InsertCode(c, r.subject, r.from, r.now)
    <3>1. PICK c \in Codes : InsertCode(c, r.subject, r.from, r.now)
      BY <2>2
    <3> DEFINE new == NewCode(r.subject, r.from, r.now)
    <3>2. new \in CodeRows /\ new.subject = r.subject
      BY <1>1, NewCodeRow
    <3>3. code' = [code EXCEPT ![c] = new] /\ minted' = [minted EXCEPT ![r.from] = @ + 1]
      BY <3>1 DEF InsertCode
    <3> HIDE DEF new
    <3> QED BY <1>1, <3>2, <3>3 DEF Typed, TypeOK, RowsHold
  <2> QED BY <2>1, <2>2 DEF IssueCode
<1> QED BY <1>2, <1>3, <1>4 DEF Typed, TypeOK, RowsHold, access

LEMMA CandidatesAreSubjects ==
  ASSUME NEW e, NEW t, NEW x \in Candidates(e, t)
  PROVE  x \in Subjects /\ EmailOf[x] = e
  BY YardAccessAssumption DEF Candidates, Subjects

LEMMA BindIdentityType ==
  ASSUME Typed, NEW h \in Handlers, BindIdentity(h)
  PROVE  Typed'
<1> DEFINE r == handler[h]
           bound == identity[r.person]
<1>1. /\ r \in Calls /\ r.step = "bind" /\ r.from \in Continuations /\ r.person \in Persons
      /\ r.now \in Nat
  <2>1. r.step = "bind"
    BY DEF BindIdentity
  <2> QED BY <2>1, NaturalBounds DEF Typed, TypeOK, CallsHold, CallHolds, Calls, Time
<1>2. UNCHANGED <<now, access, cont, attempt, code, changes, minted>>
  BY DEF BindIdentity
<1>3. ASSUME NEW x \in Subjects, Step(h, [r EXCEPT !.step = "evaluate", !.subject = x])
      PROVE  CallsHold' /\ handler' \in [Handlers -> Calls]
  <2> DEFINE n == [r EXCEPT !.step = "evaluate", !.subject = x]
  <2>1. /\ n \in Calls /\ n.step = "evaluate" /\ n.subject = x /\ n.from = r.from
        /\ n.now = r.now
    BY <1>1 DEF Calls
  <2> HIDE DEF n
  <2> QED BY <1>1, <1>2, <1>3, <2>1, NextStepType DEF n, Busy
<1>4. CASE \E x \in Candidates(r.email, r.now) :
             /\ identity' = [identity EXCEPT ![r.person] = [subject |-> x, email |-> r.email]]
             /\ Step(h, [r EXCEPT !.step = "evaluate", !.subject = x])
             /\ UNCHANGED session
  <2>1. PICK x \in Candidates(r.email, r.now) :
          /\ identity' = [identity EXCEPT ![r.person] = [subject |-> x, email |-> r.email]]
          /\ Step(h, [r EXCEPT !.step = "evaluate", !.subject = x])
          /\ UNCHANGED session
    BY <1>4
  <2>2. x \in Subjects /\ EmailOf[x] = r.email
    BY CandidatesAreSubjects
  <2>3. CallsHold' /\ handler' \in [Handlers -> Calls]
    BY <1>3, <2>1, <2>2
  <2>4. r.email \in Emails \cup {None}
    BY <1>1 DEF Calls
  <2>5. /\ identity' \in [Persons -> IdentityRows]
        /\ \A p \in Persons : identity'[p].subject # None =>
             /\ identity'[p].subject \in Subjects
             /\ EmailOf[identity'[p].subject] = identity'[p].email
    BY <1>1, <2>1, <2>2, <2>4 DEF Typed, TypeOK, RowsHold, IdentityRows
  <2> QED BY <1>2, <2>1, <2>3, <2>5 DEF Typed, TypeOK, RowsHold, access
<1>5. CASE /\ bound.subject # None
           /\ Step(h, [r EXCEPT !.step = "evaluate", !.subject = bound.subject])
           /\ UNCHANGED <<identity, session>>
  <2>1. bound.subject \in Subjects
    BY <1>1, <1>5 DEF Typed, RowsHold
  <2>2. CallsHold' /\ handler' \in [Handlers -> Calls]
    BY <1>3, <1>5, <2>1
  <2> QED BY <1>2, <1>5, <2>2 DEF Typed, TypeOK, RowsHold, access
<1>6. CASE /\ session' = RevokeSessionsOf(bound.subject, r.now)
           /\ Step(h, Done)
           /\ UNCHANGED identity
  <2>1. /\ session' \in [Sessions -> SessionRows]
        /\ \A s \in Sessions :
             \/ session'[s] = session[s]
             \/ session[s].status = "live" /\ session'[s] = Revoked(session[s], r.now)
    BY <1>1, <1>6, RevokeSessionsRows
  <2>2. \A s \in Sessions :
          session'[s].status \in {"live", "revoked"} => session'[s].subject \in Subjects
    BY <1>1, <2>1, LiveRowsKept
  <2>3. CallsHold' /\ handler' \in [Handlers -> Calls]
    BY <1>2, <1>6, DoneType
  <2> QED BY <1>2, <1>6, <2>1, <2>2, <2>3 DEF Typed, TypeOK, RowsHold, access
<1>7. CASE Step(h, Done) /\ UNCHANGED <<identity, session>>
  <2>1. CallsHold' /\ handler' \in [Handlers -> Calls]
    BY <1>2, <1>7, DoneType
  <2> QED BY <1>2, <1>7, <2>1 DEF Typed, TypeOK, RowsHold, access
<1> QED BY <1>4, <1>5, <1>6, <1>7 DEF BindIdentity

LEMMA AcceptInvitationType ==
  ASSUME Typed, NEW h \in Handlers, AcceptInvitation(h)
  PROVE  Typed'
<1> DEFINE r == handler[h]
           i == r.subject
<1>1. i \in Invites /\ r.now \in Time
  <2>1. r.step = "accept"
    BY DEF AcceptInvitation
  <2> QED BY <2>1 DEF Typed, TypeOK, CallsHold, CallHolds, Calls
<1>2. /\ UNCHANGED <<now, yard, visibility, user, grant, members, group, cont, attempt,
                     identity, session, changes>>
      /\ Step(h, Done)
  BY DEF AcceptInvitation
<1>3. CallsHold' /\ handler' \in [Handlers -> Calls]
  BY <1>2, DoneType
<1>4. CASE UNCHANGED <<invite, code, minted>>
  BY <1>2, <1>3, <1>4 DEF Typed, TypeOK, RowsHold
<1>5. CASE /\ invite' = [invite EXCEPT ![i] = AcceptedInvite(i, r.now)]
           /\ \E c \in Codes : FreshCode(c) /\ InsertCode(c, i, i, r.now)
  <2>1. AcceptedInvite(i, r.now) \in InviteRows
    <3>1. invite[i] \in InviteRows
      BY <1>1 DEF Typed, TypeOK
    <3> QED BY <1>1, <3>1, InviteRowsKept DEF AcceptedInvite
  <2>2. invite' \in [Invites -> InviteRows]
    BY <1>1, <1>5, <2>1 DEF Typed, TypeOK
  <2>3. PICK c \in Codes : InsertCode(c, i, i, r.now)
    BY <1>5
  <2> DEFINE new == NewCode(i, i, r.now)
  <2>4. new \in CodeRows /\ new.subject = i /\ i \in Subjects
    BY <1>1, NewCodeRow, SubjectsSplit
  <2>5. code' = [code EXCEPT ![c] = new] /\ minted' = [minted EXCEPT ![i] = @ + 1]
    BY <2>3 DEF InsertCode
  <2> HIDE DEF new
  <2>6. /\ code' \in [Codes -> CodeRows] /\ minted' \in [Continuations \cup Invites -> Nat]
        /\ \A d \in Codes :
             code'[d].status \in {"open", "consumed"} => code'[d].subject \in Subjects
    BY <1>1, <2>4, <2>5 DEF Typed, TypeOK, RowsHold
  <2> QED BY <1>2, <1>3, <2>2, <2>6 DEF Typed, TypeOK, RowsHold
<1> QED BY <1>4, <1>5 DEF AcceptInvitation

LEMMA HandlerStepType ==
  ASSUME Typed, NEW h \in Handlers, HandlerStep(h)
  PROVE  Typed'
<1> DEFINE r == handler[h]
<1>1. r \in Calls /\ CallHolds(r)
  BY DEF Typed, TypeOK, CallsHold
<1>2. CASE \E k \in Continuations, m \in Members : \E n \in 1..user[m].key : PostLogin(h, k, m, n)
  BY <1>2, SignInType, SubjectsSplit
<1>3. CASE \E k \in Continuations, i \in Invites : invite[i].key /\ PostLogin(h, k, i, 1)
  BY <1>3, SignInType, SubjectsSplit
<1>4. CASE EvaluateAdmission(h)
  <2> DEFINE n == [r EXCEPT !.step = "issue"]
  <2>1. /\ n \in Calls /\ n.step = "issue" /\ n.subject = r.subject /\ n.from = r.from
        /\ n.now = r.now /\ r.step = "evaluate"
    BY <1>1, <1>4 DEF Calls, EvaluateAdmission
  <2>2. /\ Step(h, n) \/ Step(h, Done)
        /\ UNCHANGED <<now, access, tokens, changes>>
    BY <1>4 DEF EvaluateAdmission
  <2> HIDE DEF n
  <2>3. CallsHold' /\ handler' \in [Handlers -> Calls]
    BY <1>1, <2>1, <2>2, NextStepType, DoneType DEF CallHolds, Busy
  <2> QED BY <2>2, <2>3, QuietType
<1>5. CASE \E k \in Continuations : ClaimAttempt(h, k)
  BY <1>5, SignInType
<1>6. CASE \E p \in Persons, e \in Emails \cup {None} : ProviderAnswers(h, p, e)
  <2>1. PICK p \in Persons, e \in Emails \cup {None} : ProviderAnswers(h, p, e)
    BY <1>6
  <2> DEFINE n == [r EXCEPT !.step = "bind", !.person = p, !.email = e]
  <2>2. /\ n \in Calls /\ n.step = "bind" /\ n.person = p /\ n.from = r.from
        /\ n.now = r.now /\ r.step = "provider"
    BY <1>1, <2>1 DEF Calls, ProviderAnswers
  <2>3. Step(h, n) /\ UNCHANGED <<now, access, tokens, changes>>
    BY <2>1 DEF ProviderAnswers
  <2> HIDE DEF n
  <2>4. CallsHold' /\ handler' \in [Handlers -> Calls]
    BY <1>1, <2>2, <2>3, NextStepType DEF CallHolds, Busy
  <2> QED BY <2>3, <2>4, QuietType
<1>7. CASE ProviderFails(h)
  BY <1>7, DoneType, QuietType DEF ProviderFails
<1>8. CASE \E i \in Invites : OpenInvitation(h, i)
  <2>1. PICK i \in Invites : OpenInvitation(h, i)
    BY <1>8
  <2>2. now \in Time /\ now \in Nat /\ i \in Subjects
    BY NaturalBounds, SubjectsSplit DEF Typed, TypeOK, Time
  <2> DEFINE n == [Idle EXCEPT !.step = "accept", !.now = now, !.subject = i, !.from = i]
  <2>3. n \in Calls /\ n.step = "accept" /\ n.now = now /\ n.subject = i
    BY <2>2 DEF Idle, Calls
  <2>4. Step(h, n) /\ UNCHANGED <<now, access, tokens, changes>>
    BY <2>1 DEF OpenInvitation
  <2> HIDE DEF n
  <2>5. CallHolds(n)
    BY <2>2, <2>3, NaturalBounds DEF CallHolds
  <2> QED BY <2>3, <2>4, <2>5, StepType, QuietType
<1> QED BY <1>2, <1>3, <1>4, <1>5, <1>6, <1>7, <1>8, IssueCodeType, BindIdentityType,
           AcceptInvitationType DEF HandlerStep

-----------------------------------------------------------------------------

LEMMA PageType ==
  ASSUME Typed, NEW k \in Continuations, LoginRedirect(k) \/ StartOidc(k)
  PROVE  Typed'
<1>1. now \in Time /\ now + LoginLife \in Nat
  BY NaturalBounds DEF Typed, TypeOK, Time
<1>2. CASE LoginRedirect(k)
  BY <1>1, <1>2 DEF LoginRedirect, Signed, Typed, TypeOK, RowsHold, CallsHold, CallHolds, access
<1>3. CASE StartOidc(k)
  <2>1. NewAttempt(now) \in AttemptRows
    BY <1>1 DEF NewAttempt, AttemptRows
  <2>2. attempt' \in [Continuations -> AttemptRows]
    BY <1>3, <2>1, CleanedRows DEF StartOidc
  <2> QED BY <1>3, <2>2 DEF StartOidc, Typed, TypeOK, RowsHold, CallsHold, CallHolds, access
<1> QED BY <1>2, <1>3

LEMMA NewSessionRow ==
  ASSUME Typed, NEW c \in Codes, NEW t \in Time
  PROVE  /\ NewSession(c, t) \in SessionRows
         /\ NewSession(c, t).status = "live" /\ NewSession(c, t).subject = code[c].subject
         /\ NewSession(c, t).code = c /\ NewSession(c, t).created = t
<1>1. t + SessionLife \in Nat /\ code[c].subject \in Subjects \cup {None}
  BY NaturalBounds DEF Time, Typed, TypeOK, CodeRows
<1> QED BY <1>1 DEF NewSession, SessionRows

LEMMA ExchangeType ==
  ASSUME Typed, NEW c \in Codes, Exchange(c)
  PROVE  Typed'
<1>1. PICK t \in Reading, s \in Sessions :
        /\ CodeWorks(c, t)
        /\ code' = [code EXCEPT ![c].status = "consumed"]
        /\ session' = [session EXCEPT ![s] = NewSession(c, t)]
        /\ UNCHANGED <<now, access, cont, attempt, identity, handler, changes, minted>>
  BY DEF Exchange
<1>2. code[c].subject \in Subjects
  BY <1>1 DEF CodeWorks, Typed, RowsHold
<1>3. /\ code' \in [Codes -> CodeRows]
      /\ \A d \in Codes : code'[d].status \in {"open", "consumed"} => code'[d].subject \in Subjects
  BY <1>1, <1>2 DEF Typed, TypeOK, RowsHold, CodeRows
<1>4. NewSession(c, t) \in SessionRows /\ NewSession(c, t).subject \in Subjects
  BY <1>2, ReadingIsPast, NewSessionRow
<1>5. /\ session' \in [Sessions -> SessionRows]
      /\ \A o \in Sessions :
           session'[o].status \in {"live", "revoked"} => session'[o].subject \in Subjects
  BY <1>1, <1>4 DEF Typed, TypeOK, RowsHold
<1> QED BY <1>1, <1>3, <1>5 DEF Typed, TypeOK, RowsHold, CallsHold, CallHolds, access

(* How one session is revoked, on its own or by an operator.               *)
LEMMA RevokeOne ==
  ASSUME Typed, NEW s \in Sessions, NEW t \in Nat, session[s].status = "live",
         session' = [session EXCEPT ![s] = Revoked(@, t)]
  PROVE  /\ session' \in [Sessions -> SessionRows]
         /\ \A o \in Sessions :
              \/ session'[o] = session[o]
              \/ session[o].status = "live" /\ session'[o] = Revoked(session[o], t)
         /\ \A o \in Sessions :
              session'[o].status \in {"live", "revoked"} => session'[o].subject \in Subjects
<1>1. session \in [Sessions -> SessionRows]
  BY DEF Typed, TypeOK
<1>2. \A o \in Sessions :
        \/ session'[o] = session[o]
        \/ session[o].status = "live" /\ session'[o] = Revoked(session[o], t)
  BY <1>1
<1>3. session' \in [Sessions -> SessionRows]
  BY <1>1, RevokedRow
<1> QED BY <1>2, <1>3, LiveRowsKept

LEMMA LogoutType ==
  ASSUME Typed, NEW s \in Sessions, Logout(s)
  PROVE  Typed'
<1>1. PICK t \in Reading :
        /\ session[s].status = "live"
        /\ session' = [session EXCEPT ![s] = Revoked(@, t)]
        /\ UNCHANGED <<now, access, cont, attempt, identity, code, handler, changes, minted>>
  BY DEF Logout, RevocableByToken
<1>2. t \in Nat
  BY ReadingIsPast
<1> QED BY <1>1, <1>2, RevokeOne DEF Typed, TypeOK, RowsHold, CallsHold, CallHolds, access

LEMMA PurgeType ==
  ASSUME Typed, Purge
  PROVE  Typed'
<1>1. /\ [NoCode EXCEPT !.status = "purged"] \in CodeRows
      /\ [NoCode EXCEPT !.status = "purged"].status = "purged"
      /\ [NoSession EXCEPT !.status = "purged"] \in SessionRows
      /\ [NoSession EXCEPT !.status = "purged"].status = "purged"
  BY Blanks DEF CodeRows, SessionRows
<1>2. /\ code' \in [Codes -> CodeRows]
      /\ \A c \in Codes : code'[c].status \in {"open", "consumed"} => code'[c] = code[c]
  BY <1>1 DEF Purge, Typed, TypeOK
<1>3. /\ session' \in [Sessions -> SessionRows]
      /\ \A s \in Sessions : session'[s].status \in {"live", "revoked"} => session'[s] = session[s]
  BY <1>1 DEF Purge, Typed, TypeOK
<1>4. UNCHANGED <<now, access, cont, attempt, identity, handler, changes, minted>>
  BY DEF Purge
<1> QED BY <1>2, <1>3, <1>4 DEF Typed, TypeOK, RowsHold, CallsHold, CallHolds, access

-----------------------------------------------------------------------------

LEMMA ChangeCounted ==
  ASSUME Typed, Change PROVE changes' \in 0..MaxChanges
  BY NaturalBounds DEF Change, Typed, TypeOK

\* A key that is reset leaves the row of its user a row.
LEMMA NewKeyRow ==
  ASSUME NEW row \in UserRows, NEW t \in Time
  PROVE  LET new == [row EXCEPT !.key = row.key + 1, !.since = t]
         IN  new \in UserRows /\ new.status = row.status
<1>1. row.key \in Nat /\ row.key + 1 \in Nat
  BY DEF UserRows
<1> QED BY <1>1 DEF UserRows

(* What operators do without touching sessions.                            *)
LEMMA PolicyType ==
  ASSUME Typed,
         \/ \E v \in Visibilities : SetVisibility(v)
         \/ \E p \in Principals : GrantAccess(p) \/ RevokeAccess(p)
         \/ \E m \in Members : AddMember(m) \/ RemoveMember(m) \/ ResetKey(m)
         \/ DeactivateGroup
         \/ DeleteYard
  PROVE  Typed'
<1> USE DEF Typed
<1>1. ASSUME NEW v \in Visibilities, SetVisibility(v) PROVE Typed'
  BY <1>1, ChangeCounted DEF SetVisibility, TypeOK, RowsHold, CallsHold, CallHolds, tokens
<1>2. ASSUME NEW p \in Principals, GrantAccess(p) PROVE Typed'
  <2>1. PICK e \in {None, now + 1} :
          grant' = [grant EXCEPT ![p] = [status |-> "active", created |-> now, expires |-> e]]
    BY <1>2 DEF GrantAccess
  <2>2. e \in {None} \cup Nat
    BY NaturalBounds DEF TypeOK, Time
  <2>3. grant' \in [Principals -> GrantRows]
    BY <2>1, <2>2 DEF TypeOK, GrantRows
  <2>4. Change /\ UNCHANGED <<now, yard, visibility, user, members, group, invite, tokens, handler>>
    BY <1>2 DEF GrantAccess
  <2> QED BY <2>3, <2>4, ChangeCounted DEF TypeOK, RowsHold, CallsHold, CallHolds, tokens
<1>3. ASSUME NEW p \in Principals, RevokeAccess(p) PROVE Typed'
  <2>1. grant' = [grant EXCEPT ![p].status = "revoked"]
    BY <1>3 DEF RevokeAccess
  <2>2. grant' \in [Principals -> GrantRows]
    BY <2>1 DEF TypeOK, GrantRows
  <2>3. Change /\ UNCHANGED <<now, yard, visibility, user, members, group, invite, tokens, handler>>
    BY <1>3 DEF RevokeAccess
  <2> QED BY <2>2, <2>3, ChangeCounted DEF TypeOK, RowsHold, CallsHold, CallHolds, tokens
<1>4. ASSUME NEW m \in Members, AddMember(m) \/ RemoveMember(m) PROVE Typed'
  BY <1>4, ChangeCounted DEF AddMember, RemoveMember, TypeOK, RowsHold, CallsHold, CallHolds, tokens
<1>5. ASSUME NEW m \in Members, ResetKey(m) PROVE Typed'
  <2>1. PICK t \in Reading :
          user' = [user EXCEPT ![m] = [user[m] EXCEPT !.key = user[m].key + 1, !.since = t]]
    BY <1>5 DEF ResetKey, TypeOK
  <2>2. t \in Time
    BY ReadingIsPast
  <2>3. /\ user' \in [Members -> UserRows]
        /\ \A o \in Members : user'[o].status = user[o].status
    <3> DEFINE row == [user[m] EXCEPT !.key = user[m].key + 1, !.since = t]
    <3>1. user[m] \in UserRows
      BY DEF TypeOK
    <3>4. row \in UserRows /\ row.status = user[m].status
      BY <2>2, <3>1, NewKeyRow
    <3>2. user' = [user EXCEPT ![m] = row]
      BY <2>1
    <3> HIDE DEF row
    <3> QED BY <3>2, <3>4 DEF TypeOK
  <2>4. members \subseteq {o \in Locals : user'[o].status = "active"}
    BY <2>3, YardAccessAssumption DEF TypeOK
  <2>5. Change /\ UNCHANGED <<now, yard, visibility, grant, members, group, invite, tokens, handler>>
    BY <1>5 DEF ResetKey
  <2> QED BY <2>3, <2>4, <2>5, ChangeCounted DEF TypeOK, RowsHold, CallsHold, CallHolds, tokens
<1>6. ASSUME DeactivateGroup PROVE Typed'
  <2>1. grant' = [grant EXCEPT ![Group].status = IF @ = "active" THEN "revoked" ELSE @]
    BY <1>6 DEF DeactivateGroup
  <2>2. grant' \in [Principals -> GrantRows]
    BY <2>1 DEF TypeOK, GrantRows
  <2>3. /\ Change /\ group' = "deactivated" /\ members' = {}
        /\ UNCHANGED <<now, yard, visibility, user, invite, tokens, handler>>
    BY <1>6 DEF DeactivateGroup
  <2> QED BY <2>2, <2>3, ChangeCounted DEF TypeOK, RowsHold, CallsHold, CallHolds, tokens
<1>7. ASSUME DeleteYard PROVE Typed'
  BY <1>7, ChangeCounted DEF DeleteYard, TypeOK, RowsHold, CallsHold, CallHolds, tokens
<1> QED BY <1>1, <1>2, <1>3, <1>4, <1>5, <1>6, <1>7

LEMMA InviteType ==
  ASSUME Typed, NEW i \in Invites, CreateInvite(i) \/ RevokeInvite(i)
  PROVE  Typed'
<1> USE DEF Typed
<1>1. invite' \in [Invites -> InviteRows]
  <2>1. CASE CreateInvite(i)
    BY <2>1, NewInviteRow DEF CreateInvite, TypeOK
  <2>2. CASE RevokeInvite(i)
    <3>1. 0 \in Time /\ invite[i] \in InviteRows
      BY NaturalBounds DEF Time, TypeOK
    <3>2. [invite[i] EXCEPT !.status = "revoked", !.grant = FALSE, !.key = FALSE] \in InviteRows
      BY <3>1, InviteRowsKept
    <3>3. invite' = [invite EXCEPT ![i] =
                       [invite[i] EXCEPT !.status = "revoked", !.grant = FALSE, !.key = FALSE]]
      BY <2>2 DEF RevokeInvite, TypeOK
    <3> QED BY <3>2, <3>3 DEF TypeOK
  <2> QED BY <2>1, <2>2
<1>2. /\ Change
      /\ UNCHANGED <<now, yard, visibility, user, grant, members, group, tokens, handler>>
  BY DEF CreateInvite, RevokeInvite
<1> QED BY <1>1, <1>2, ChangeCounted DEF TypeOK, RowsHold, CallsHold, CallHolds, tokens

LEMMA SessionsOverType ==
  ASSUME Typed,
         \/ \E s \in Sessions : RevokeSession(s)
         \/ \E m \in Members : DeactivateUser(m)
  PROVE  Typed'
<1> USE DEF Typed
<1>1. ASSUME NEW s \in Sessions, RevokeSession(s) PROVE Typed'
  <2>1. PICK t \in Reading :
          session[s].status = "live" /\ session' = [session EXCEPT ![s] = Revoked(@, t)]
    BY <1>1 DEF RevokeSession
  <2>2. t \in Nat
    BY ReadingIsPast
  <2>3. Change /\ UNCHANGED <<now, access, cont, attempt, identity, code, handler, minted>>
    BY <1>1 DEF RevokeSession
  <2> QED BY <2>1, <2>2, <2>3, RevokeOne, ChangeCounted
          DEF TypeOK, RowsHold, CallsHold, CallHolds, access
<1>2. ASSUME NEW m \in Members, DeactivateUser(m) PROVE Typed'
  <2>1. PICK t \in Reading : session' = RevokeSessionsOf(m, t)
    BY <1>2 DEF DeactivateUser
  <2>2. t \in Nat
    BY ReadingIsPast
  <2>3. /\ session' \in [Sessions -> SessionRows]
        /\ \A s \in Sessions :
             \/ session'[s] = session[s]
             \/ session[s].status = "live" /\ session'[s] = Revoked(session[s], t)
    BY <2>1, <2>2, RevokeSessionsRows
  <2>4. \A s \in Sessions :
          session'[s].status \in {"live", "revoked"} => session'[s].subject \in Subjects
    BY <2>2, <2>3, LiveRowsKept
  <2>5. user' = [user EXCEPT ![m].status = "deactivated"] /\ members' = members \ {m}
    BY <1>2 DEF DeactivateUser
  <2>6. /\ user' \in [Members -> UserRows]
        /\ \A o \in Members \ {m} : user'[o] = user[o]
    BY <2>5 DEF TypeOK, UserRows
  <2>7. members' \subseteq {o \in Locals : user'[o].status = "active"}
    BY <2>5, <2>6, YardAccessAssumption DEF TypeOK
  <2>8. /\ Change
        /\ UNCHANGED <<now, yard, visibility, grant, group, invite, cont, attempt, identity, code,
                       handler, minted>>
    BY <1>2 DEF DeactivateUser
  <2> QED BY <2>3, <2>4, <2>6, <2>7, <2>8, ChangeCounted
          DEF TypeOK, RowsHold, CallsHold, CallHolds
<1> QED BY <1>1, <1>2

LEMMA TickType ==
  ASSUME Typed, Tick PROVE Typed'
<1> USE DEF Typed
<1>1. now' = now + 1 /\ now' \in Time /\ now \in Nat
  BY NaturalBounds DEF Tick, TypeOK, Time
<1>2. UNCHANGED <<access, tokens, handler, changes>>
  BY DEF Tick
<1>3. CallsHold'
  <2> SUFFICES ASSUME NEW h \in Handlers, Busy(handler[h])
               PROVE  handler[h].now <= now + 1 /\ now + 1 <= handler[h].now + MaxLag
    BY <1>1, <1>2 DEF CallsHold, CallHolds, Busy
  <2>1. handler[h].now <= now /\ handler[h].now \in Nat
    BY NaturalBounds DEF CallsHold, CallHolds, TypeOK, Calls, Time
  <2>2. handler[h] \notin {Idle, Done}
    BY Blanks DEF Busy
  <2> QED BY <1>1, <2>1, <2>2 DEF Tick
<1> QED BY <1>1, <1>2, <1>3 DEF TypeOK, RowsHold, access, tokens

LEMMA TypeStep ==
  ASSUME Typed, [Next]_vars PROVE Typed'
<1>1. CASE UNCHANGED vars
  BY <1>1 DEF vars, Typed, TypeOK, RowsHold, CallsHold, CallHolds
<1> QED BY <1>1, HandlerStepType, PageType, ExchangeType, LogoutType, PurgeType, PolicyType,
           InviteType, SessionsOverType, TickType DEF Next, Operate

(* Who may open a yard is always decided over well-typed rows, and a       *)
(* request holds what its next step needs.                                 *)
THEOREM TypeCorrect == Spec => []Typed
<1>1. Init => Typed
  <2> SUFFICES ASSUME Init PROVE Typed
    OBVIOUS
  <2>1. 0 \in Time /\ 0 \in 0..MaxChanges
    BY NaturalBounds DEF Time
  <2>2. user \in [Members -> UserRows] /\ \A m \in Members : user[m].status = "active"
    BY <2>1 DEF Init, UserRows
  <2>3. grant \in [Principals -> GrantRows]
    BY Blanks DEF Init, GrantRows
  <2>4. members \subseteq {m \in Locals : user[m].status = "active"}
    BY <2>2, YardAccessAssumption DEF Init
  <2>5. invite \in [Invites -> InviteRows]
    <3>1. [NoInvite EXCEPT !.status = "pending", !.grant = TRUE, !.expires = InviteLife] \in InviteRows
      BY Blanks, NaturalBounds DEF InviteRows
    <3> QED BY <3>1, Blanks DEF Init
  <2>6. identity \in [Persons -> IdentityRows] /\ \A p \in Persons : identity[p].subject = None
    BY DEF Init, IdentityRows
  <2>7. code \in [Codes -> CodeRows] /\ session \in [Sessions -> SessionRows]
        /\ attempt \in [Continuations -> AttemptRows] /\ handler \in [Handlers -> Calls]
    BY Blanks DEF Init
  <2>8. CallsHold
    BY Blanks DEF Init, CallsHold, CallHolds, Busy
  <2>9. RowsHold
    BY <2>6, Blanks DEF Init, RowsHold
  <2> QED BY <2>1, <2>2, <2>3, <2>4, <2>5, <2>6, <2>7, <2>8, <2>9, YardAccessAssumption
          DEF Init, Typed, TypeOK
<1> QED BY <1>1, TypeStep, PTL DEF Spec

-----------------------------------------------------------------------------
(* One code per continuation.  A code is remembered for CodeLife and       *)
(* History after it was issued; the invariants below place the continuation*)
(* of a request, an attempt and a code around the time it was read, so that*)
(* a continuation whose code was purged cannot be in anybody's hands.      *)

LinkSteps == {"evaluate", "issue", "provider", "bind"}

InHand(k, t) ==
  /\ cont[k] # None
  /\ cont[k] <= t + LoginLife
  /\ t + 2 <= cont[k] + LoginLife

LinksLapse == \A k \in Continuations : cont[k] # None => cont[k] <= now + LoginLife

CallsAreInTime ==
  \A h \in Handlers : handler[h].step \in LinkSteps => InHand(handler[h].from, handler[h].now)

AttemptsAreInTime ==
  \A k \in Continuations : attempt[k].status = "open" =>
    /\ cont[k] # None
    /\ attempt[k].expires = attempt[k].created + LoginLife
    /\ attempt[k].created < cont[k] /\ cont[k] <= attempt[k].created + LoginLife

CodesAreInTime ==
  \A c \in Codes : code[c].status \in {"open", "consumed"} /\ code[c].from \in Continuations =>
    /\ cont[code[c].from] # None
    /\ cont[code[c].from] + CodeLife <= code[c].expires + LoginLife

Forgotten(k) == cont[k] + CodeLife + History < now + LoginLife

UseIsRemembered ==
  \A k \in Continuations :
    /\ minted[k] <= 1
    /\ minted[k] # 0 => cont[k] # None /\ (~ Unused(k) \/ Forgotten(k))

AcceptedOnce ==
  \A i \in Invites :
    minted[i] <= 1 /\ (minted[i] # 0 => invite[i].status \in {"accepted", "revoked"})

LinksAreInTime ==
  LinksLapse /\ CallsAreInTime /\ AttemptsAreInTime /\ CodesAreInTime /\ UseIsRemembered

SessionsSpendCodes ==
  \A s \in Sessions : session[s].code # 0 => code[session[s].code].status \in {"consumed", "purged"}

(* The steps that leave continuations, attempts and codes alone take the   *)
(* requests from one step to the next with the same continuation.          *)
CallsFollow ==
  \A h \in Handlers :
    \/ handler'[h] = handler[h]
    \/ handler'[h].step \notin LinkSteps
    \/ /\ handler[h].step \in LinkSteps
       /\ handler'[h].now = handler[h].now /\ handler'[h].from = handler[h].from

LinksQuiet ==
  /\ UNCHANGED <<cont, attempt, code, minted>>
  /\ now' = now \/ now' = now + 1
  /\ CallsFollow

LEMMA StepFollows ==
  ASSUME Typed, NEW h \in Handlers, NEW r, Step(h, r),
         \/ r.step \notin LinkSteps
         \/ /\ handler[h].step \in LinkSteps
            /\ r.now = handler[h].now /\ r.from = handler[h].from
  PROVE  CallsFollow
  BY DEF CallsFollow, Step, Typed, TypeOK

LEMMA DoneFollows ==
  ASSUME Typed, NEW h \in Handlers, Step(h, Done)
  PROVE  CallsFollow
  BY StepFollows, Blanks DEF LinkSteps

LEMMA HandlerStepQuiet ==
  ASSUME Typed, NEW h \in Handlers,
         \/ EvaluateAdmission(h)
         \/ \E p \in Persons, e \in Emails \cup {None} : ProviderAnswers(h, p, e)
         \/ ProviderFails(h)
         \/ BindIdentity(h)
         \/ \E i \in Invites : OpenInvitation(h, i)
  PROVE  LinksQuiet
<1> DEFINE r == handler[h]
<1>0. r \in Calls
  BY DEF Typed, TypeOK
<1>1. ASSUME EvaluateAdmission(h) PROVE LinksQuiet
  <2> DEFINE n == [r EXCEPT !.step = "issue"]
  <2>1. n.now = r.now /\ n.from = r.from /\ r.step \in LinkSteps
    BY <1>0, <1>1 DEF Calls, EvaluateAdmission, LinkSteps
  <2>2. /\ Step(h, n) \/ Step(h, Done)
        /\ UNCHANGED <<now, access, tokens, changes>>
    BY <1>1 DEF EvaluateAdmission
  <2> HIDE DEF n
  <2> QED BY <2>1, <2>2, StepFollows, DoneFollows DEF LinksQuiet, tokens
<1>2. ASSUME NEW p \in Persons, NEW e \in Emails \cup {None}, ProviderAnswers(h, p, e)
      PROVE  LinksQuiet
  <2> DEFINE n == [r EXCEPT !.step = "bind", !.person = p, !.email = e]
  <2>1. n.now = r.now /\ n.from = r.from /\ r.step \in LinkSteps
    BY <1>0, <1>2 DEF Calls, ProviderAnswers, LinkSteps
  <2>2. Step(h, n) /\ UNCHANGED <<now, access, tokens, changes>>
    BY <1>2 DEF ProviderAnswers
  <2> HIDE DEF n
  <2> QED BY <2>1, <2>2, StepFollows DEF LinksQuiet, tokens
<1>3. ASSUME ProviderFails(h) PROVE LinksQuiet
  BY <1>3, DoneFollows DEF ProviderFails, LinksQuiet, tokens
<1>4. ASSUME BindIdentity(h) PROVE LinksQuiet
  <2>1. /\ r.step \in LinkSteps
        /\ \/ Step(h, Done)
           \/ \E x : Step(h, [r EXCEPT !.step = "evaluate", !.subject = x])
    BY <1>4 DEF BindIdentity, LinkSteps
  <2>2. ASSUME NEW x, Step(h, [r EXCEPT !.step = "evaluate", !.subject = x]) PROVE CallsFollow
    <3> DEFINE n == [r EXCEPT !.step = "evaluate", !.subject = x]
    <3>1. n.now = r.now /\ n.from = r.from
      BY <1>0 DEF Calls
    <3>2. Step(h, n)
      BY <2>2
    <3> HIDE DEF n
    <3> QED BY <2>1, <3>1, <3>2, StepFollows
  <2>3. UNCHANGED <<now, access, cont, attempt, code, changes, minted>>
    BY <1>4 DEF BindIdentity
  <2> QED BY <2>1, <2>2, <2>3, DoneFollows DEF LinksQuiet
<1>5. ASSUME NEW i \in Invites, OpenInvitation(h, i) PROVE LinksQuiet
  <2> DEFINE n == [Idle EXCEPT !.step = "accept", !.now = now, !.subject = i, !.from = i]
  <2>1. n.step \notin LinkSteps
    BY DEF Idle, LinkSteps
  <2>2. Step(h, n) /\ UNCHANGED <<now, access, tokens, changes>>
    BY <1>5 DEF OpenInvitation
  <2> HIDE DEF n
  <2> QED BY <2>1, <2>2, StepFollows DEF LinksQuiet, tokens
<1> QED BY <1>1, <1>2, <1>3, <1>4, <1>5

(* The steps of requests and of the clock that touch what a sign-in uses.  *)
LinkStep ==
  \/ \E k \in Continuations : LoginRedirect(k) \/ StartOidc(k)
  \/ \E h \in Handlers, k \in Continuations :
       \/ ClaimAttempt(h, k)
       \/ \E x \in Subjects, n \in Nat : PostLogin(h, k, x, n)
  \/ \E h \in Handlers : IssueCode(h) \/ AcceptInvitation(h)
  \/ \E c \in Codes : Exchange(c)
  \/ Purge

LEMMA StepsOfSignIn ==
  ASSUME Typed, [Next]_vars
  PROVE  LinksQuiet \/ LinkStep
<1>1. ASSUME NEW h \in Handlers, HandlerStep(h) PROVE LinksQuiet \/ LinkStep
  <2>1. CASE \E k \in Continuations, m \in Members : \E n \in 1..user[m].key : PostLogin(h, k, m, n)
    BY <2>1, SubjectsSplit DEF LinkStep
  <2>2. CASE \E k \in Continuations, i \in Invites : invite[i].key /\ PostLogin(h, k, i, 1)
    BY <2>2, SubjectsSplit DEF LinkStep
  <2>3. CASE IssueCode(h) \/ AcceptInvitation(h)
    BY <2>3 DEF LinkStep
  <2>4. CASE \E k \in Continuations : ClaimAttempt(h, k)
    BY <2>4 DEF LinkStep
  <2> QED BY <1>1, <2>1, <2>2, <2>3, <2>4, HandlerStepQuiet DEF HandlerStep
<1>2. ASSUME UNCHANGED <<cont, attempt, code, minted, handler>>, now' = now \/ now' = now + 1
      PROVE  LinksQuiet
  BY <1>2 DEF LinksQuiet, CallsFollow
<1>3. ASSUME Operate PROVE LinksQuiet
  BY <1>2, <1>3 DEF Operate, SetVisibility, GrantAccess, RevokeAccess, AddMember, RemoveMember, ResetKey,
     DeactivateUser, DeactivateGroup, CreateInvite, RevokeInvite, RevokeSession, DeleteYard, tokens
<1>4. CASE Tick
  BY <1>2, <1>4 DEF Tick, tokens
<1>5. CASE UNCHANGED vars
  BY <1>2, <1>5 DEF vars
<1>6. ASSUME NEW s \in Sessions, Logout(s) PROVE LinksQuiet
  BY <1>2, <1>6 DEF Logout
<1> QED BY <1>1, <1>3, <1>4, <1>5, <1>6 DEF Next, LinkStep

LEMMA Numbers ==
  ASSUME Typed
  PROVE  /\ now \in Nat
         /\ \A k \in Continuations : /\ cont[k] # None => cont[k] \in Nat
                                     /\ attempt[k].created \in Nat /\ attempt[k].expires \in Nat
                                     /\ minted[k] \in Nat
         /\ \A i \in Invites : minted[i] \in Nat
         /\ \A c \in Codes : code[c].expires \in Nat /\ code[c].created \in Nat
         /\ \A s \in Sessions : session[s].expires \in Nat /\ session[s].created \in Nat
         /\ \A h \in Handlers : handler[h].now \in Nat
<1>1. Time \subseteq Nat
  BY NaturalBounds DEF Time
<1>2. now \in Nat /\ cont \in [Continuations -> {None} \cup Nat]
      /\ minted \in [Continuations \cup Invites -> Nat]
  BY <1>1 DEF Typed, TypeOK
<1>3. \A k \in Continuations : attempt[k].created \in Nat /\ attempt[k].expires \in Nat
  BY <1>1 DEF Typed, TypeOK, AttemptRows
<1>4. \A c \in Codes : code[c].expires \in Nat /\ code[c].created \in Nat
  BY <1>1 DEF Typed, TypeOK, CodeRows
<1>5. \A s \in Sessions : session[s].expires \in Nat /\ session[s].created \in Nat
  BY <1>1 DEF Typed, TypeOK, SessionRows
<1>6. \A h \in Handlers : handler[h].now \in Nat
  BY <1>1 DEF Typed, TypeOK, Calls
<1> QED BY <1>2, <1>3, <1>4, <1>5, <1>6

(* A continuation that is claimed at t is in hand from t on.               *)
LEMMA ClaimedIsInHand ==
  ASSUME Typed, LinksAreInTime, NEW k \in Continuations, Claims(k, now)
  PROVE  InHand(k, now)
<1>1. now \in Nat /\ cont[k] \in Nat /\ cont[k] # None /\ now < cont[k]
  BY Numbers DEF Claims
<1>2. cont[k] <= now + LoginLife
  BY <1>1 DEF LinksAreInTime, LinksLapse
<1> QED BY <1>1, <1>2, NaturalBounds DEF InHand

LEMMA QuietInTime ==
  ASSUME Typed, LinksAreInTime, LinksQuiet
  PROVE  LinksAreInTime'
<1> USE DEF LinksQuiet
<1>1. LinksLapse'
  BY Numbers, NaturalBounds DEF LinksAreInTime, LinksLapse
<1>2. CallsAreInTime'
  BY DEF LinksAreInTime, CallsAreInTime, CallsFollow, InHand
<1>3. AttemptsAreInTime' /\ CodesAreInTime'
  BY DEF LinksAreInTime, AttemptsAreInTime, CodesAreInTime
<1>4. UseIsRemembered'
  <2>1. \A k \in Continuations : cont[k] # None /\ Forgotten(k) => Forgotten(k)'
    BY Numbers, NaturalBounds DEF Forgotten
  <2> QED BY <2>1 DEF LinksAreInTime, UseIsRemembered, Unused
<1> QED BY <1>1, <1>2, <1>3, <1>4 DEF LinksAreInTime

LEMMA PageInTime ==
  ASSUME Typed, LinksAreInTime, NEW k \in Continuations, LoginRedirect(k) \/ StartOidc(k)
  PROVE  LinksAreInTime'
<1>1. CASE LoginRedirect(k)
  <2>1. /\ cont[k] = None /\ cont' = [cont EXCEPT ![k] = now + LoginLife]
        /\ UNCHANGED <<now, attempt, code, handler, minted>>
    BY <1>1 DEF LoginRedirect, Signed
  <2>2. cont'[k] = now + LoginLife /\ \A j \in Continuations \ {k} : cont'[j] = cont[j]
    BY <2>1 DEF Typed, TypeOK
  <2>3. /\ \A j \in Continuations : cont[j] # None => cont'[j] = cont[j]
        /\ minted[k] = 0
        /\ \A c \in Codes : code[c].status \in {"open", "consumed"} /\ code[c].from \in Continuations
             => cont[code[c].from] # None
    BY <2>1, <2>2 DEF LinksAreInTime, UseIsRemembered, CodesAreInTime
  <2>4. LinksLapse'
    BY <2>1, <2>2, Numbers, NaturalBounds DEF LinksAreInTime, LinksLapse
  <2>5. CallsAreInTime'
    <3>1. \A h \in Handlers : handler[h].step \in LinkSteps => handler[h].from \in Continuations
      BY DEF LinkSteps, Typed, CallsHold, CallHolds
    <3> QED BY <2>1, <2>3, <3>1 DEF LinksAreInTime, CallsAreInTime, InHand
  <2>6. AttemptsAreInTime' /\ CodesAreInTime'
    BY <2>1, <2>3 DEF LinksAreInTime, AttemptsAreInTime, CodesAreInTime
  <2>7. UseIsRemembered'
    BY <2>1, <2>2, <2>3 DEF LinksAreInTime, UseIsRemembered, Unused, Forgotten
  <2> QED BY <2>4, <2>5, <2>6, <2>7 DEF LinksAreInTime
<1>2. CASE StartOidc(k)
  <2>1. /\ attempt' = [Cleaned(now) EXCEPT ![k] = NewAttempt(now)]
        /\ UNCHANGED <<now, cont, code, handler, minted>>
    BY <1>2 DEF StartOidc
  <2>2. InHand(k, now) /\ now < cont[k]
    BY <1>2, ClaimedIsInHand DEF StartOidc, Claims
  <2>3. \A j \in Continuations \ {k} : attempt'[j].status = "open" => attempt'[j] = attempt[j]
    BY <2>1, CleanedRows, Blanks
  <2>4. attempt'[k] = NewAttempt(now)
    BY <2>1, CleanedRows
  <2>5. AttemptsAreInTime'
    BY <2>1, <2>2, <2>3, <2>4 DEF LinksAreInTime, AttemptsAreInTime, NewAttempt, InHand
  <2> QED BY <2>1, <2>5 DEF LinksAreInTime, LinksLapse, CallsAreInTime, InHand, CodesAreInTime,
             UseIsRemembered, Unused, Forgotten
<1> QED BY <1>1, <1>2

LEMMA SignInInTime ==
  ASSUME Typed, LinksAreInTime, NEW h \in Handlers, NEW k \in Continuations,
         \/ ClaimAttempt(h, k)
         \/ \E x \in Subjects, n \in Nat : PostLogin(h, k, x, n)
  PROVE  LinksAreInTime'
<1>1. ASSUME NEW r, Step(h, r), r.now = now, r.from = k, InHand(k, now),
             UNCHANGED <<now, cont, code, minted>>, AttemptsAreInTime'
      PROVE  LinksAreInTime'
  <2>1. CallsAreInTime'
    BY <1>1 DEF Step, Typed, TypeOK, LinksAreInTime, CallsAreInTime, InHand
  <2> QED BY <1>1, <2>1 DEF LinksAreInTime, LinksLapse, CodesAreInTime, UseIsRemembered, Unused,
             Forgotten
<1>2. CASE \E x \in Subjects, n \in Nat : PostLogin(h, k, x, n)
  <2>1. PICK x \in Subjects : \E n \in Nat : PostLogin(h, k, x, n)
    BY <1>2
  <2> DEFINE r == [Idle EXCEPT !.step = "evaluate", !.now = now, !.from = k, !.subject = x]
  <2>2. r.now = now /\ r.from = k
    BY DEF Idle
  <2>3. Step(h, r) /\ Claims(k, now) /\ UNCHANGED <<now, access, tokens, changes>>
    BY <2>1 DEF PostLogin
  <2> HIDE DEF r
  <2>4. AttemptsAreInTime'
    BY <2>3 DEF tokens, LinksAreInTime, AttemptsAreInTime
  <2> QED BY <1>1, <2>2, <2>3, <2>4, ClaimedIsInHand DEF tokens
<1>3. CASE ClaimAttempt(h, k)
  <2> DEFINE r == [Idle EXCEPT !.step = "provider", !.now = now, !.from = k]
  <2>1. r.now = now /\ r.from = k
    BY DEF Idle
  <2>2. /\ Step(h, r) /\ Claimable(k, now)
        /\ UNCHANGED <<now, access, cont, identity, code, session, changes, minted>>
        /\ attempt' = [Cleaned(now) EXCEPT ![k].status = "claimed"]
    BY <1>3 DEF ClaimAttempt
  <2> HIDE DEF r
  <2>3. /\ attempt[k].status = "open" /\ ~ (attempt[k].expires <= now)
        /\ attempt[k].created <= now
    BY <2>2, CleanedRows, Blanks DEF Claimable
  <2>4. InHand(k, now)
    BY <2>3, Numbers, NaturalBounds DEF LinksAreInTime, AttemptsAreInTime, InHand
  <2>5. \A j \in Continuations : attempt'[j].status = "open" => attempt'[j] = attempt[j]
    <3>1. \A j \in Continuations \ {k} : attempt'[j] = Cleaned(now)[j]
      BY <2>2, CleanedRows
    <3>2. attempt'[k].status = "claimed"
      BY <2>2, CleanedRows DEF AttemptRows
    <3> QED BY <3>1, <3>2, CleanedRows, Blanks
  <2>6. AttemptsAreInTime'
    BY <2>2, <2>5 DEF LinksAreInTime, AttemptsAreInTime
  <2> QED BY <1>1, <2>1, <2>2, <2>4, <2>6
<1> QED BY <1>2, <1>3

LEMMA IssueInTime ==
  ASSUME Typed, LinksAreInTime, NEW h \in Handlers, IssueCode(h)
  PROVE  LinksAreInTime'
<1> DEFINE r == handler[h]
           k == r.from
<1>1. /\ k \in Continuations /\ r.subject \in Subjects /\ r.now \in Time /\ Busy(r)
      /\ InHand(k, r.now) /\ r.now <= now /\ now <= r.now + MaxLag
  BY DEF IssueCode, Typed, TypeOK, CallsHold, CallHolds, Calls, LinkSteps, LinksAreInTime,
         CallsAreInTime, Busy
<1>2. UNCHANGED <<now, access, cont, attempt, identity, session, changes>> /\ Step(h, Done)
  BY DEF IssueCode
<1>3. CallsFollow
  BY <1>2, DoneFollows
<1>4. CASE UNCHANGED <<code, minted>>
  BY <1>2, <1>3, <1>4, QuietInTime DEF LinksQuiet
<1>5. CASE Unused(k) /\ \E c \in Codes : FreshCode(c) /\ InsertCode(c, r.subject, k, r.now)
  <2>1. PICK c \in Codes : FreshCode(c) /\ InsertCode(c, r.subject, k, r.now)
    BY <1>5
  <2> DEFINE new == NewCode(r.subject, k, r.now)
  <2>2. new.status = "open" /\ new.from = k /\ new.expires = r.now + CodeLife
    BY <1>1, NewCodeRow
  <2>3. code' = [code EXCEPT ![c] = new] /\ minted' = [minted EXCEPT ![k] = @ + 1]
        /\ code[c].status = "none"
    BY <2>1, Blanks DEF InsertCode, FreshCode
  <2> HIDE DEF new
  <2>4. code'[c] = new /\ \A d \in Codes \ {c} : code'[d] = code[d]
    BY <2>3 DEF Typed, TypeOK
  <2>5. minted'[k] = minted[k] + 1 /\ \A j \in Continuations \ {k} : minted'[j] = minted[j]
    BY <1>1, <2>3 DEF Typed, TypeOK
  <2>6. LinksLapse' /\ CallsAreInTime' /\ AttemptsAreInTime'
    BY <1>2, <1>3 DEF LinksAreInTime, LinksLapse, CallsAreInTime, CallsFollow, InHand, AttemptsAreInTime
  <2>7. CodesAreInTime'
    <3>1. cont[k] + CodeLife <= new.expires + LoginLife
      BY <1>1, <2>2, Numbers, NaturalBounds DEF InHand
    <3> QED BY <1>1, <1>2, <2>2, <2>4, <3>1 DEF LinksAreInTime, CodesAreInTime, InHand
  <2>8. minted[k] = 0
    <3>1. SUFFICES ASSUME minted[k] # 0 PROVE FALSE
      OBVIOUS
    <3>2. Forgotten(k)
      BY <1>1, <1>5, <3>1 DEF LinksAreInTime, UseIsRemembered
    <3>3. 2 * (LoginLife - 1) + MaxLag <= CodeLife + History
      BY YardAccessAssumption
    <3>4. cont[k] \in Nat /\ r.now \in Nat /\ now \in Nat
      BY <1>1, Numbers DEF InHand
    <3>5. cont[k] + CodeLife + History < now + LoginLife /\ r.now + 2 <= cont[k] + LoginLife
      BY <1>1, <3>2 DEF Forgotten, InHand
    <3> QED BY <1>1, <3>3, <3>4, <3>5, NaturalBounds
  <2>9. UseIsRemembered'
    <3>1. \A j \in Continuations : j = k => ~ Unused(j)'
      BY <2>2, <2>4 DEF Unused
    <3>2. \A j \in Continuations : ~ Unused(j) => ~ Unused(j)'
      BY <2>3, <2>4 DEF Unused
    <3>3. \A j \in Continuations : Forgotten(j)' <=> Forgotten(j)
      BY <1>2 DEF Forgotten
    <3>4. \A j \in Continuations : minted'[j] <= 1 /\ (minted'[j] # 0 => minted[j] # 0 \/ j = k)
      BY <1>1, <2>5, <2>8 DEF LinksAreInTime, UseIsRemembered
    <3> QED BY <1>1, <1>2, <3>1, <3>2, <3>3, <3>4
            DEF LinksAreInTime, UseIsRemembered, InHand
  <2> QED BY <2>6, <2>7, <2>9 DEF LinksAreInTime
<1> QED BY <1>4, <1>5 DEF IssueCode

(* The code of an invitation is from no continuation.                      *)
LEMMA AcceptInTime ==
  ASSUME Typed, LinksAreInTime, NEW h \in Handlers, AcceptInvitation(h)
  PROVE  LinksAreInTime'
<1> DEFINE r == handler[h]
           i == r.subject
<1>1. i \in Invites /\ r.now \in Time
  BY DEF AcceptInvitation, Typed, TypeOK, CallsHold, CallHolds, Calls
<1>2. UNCHANGED <<now, cont, attempt>> /\ Step(h, Done)
  BY DEF AcceptInvitation
<1>3. CallsFollow
  BY <1>2, DoneFollows
<1>4. CASE UNCHANGED <<code, minted>>
  BY <1>2, <1>3, <1>4, QuietInTime DEF LinksQuiet
<1>5. CASE \E c \in Codes : FreshCode(c) /\ InsertCode(c, i, i, r.now)
  <2>1. PICK c \in Codes : FreshCode(c) /\ InsertCode(c, i, i, r.now)
    BY <1>5
  <2> DEFINE new == NewCode(i, i, r.now)
  <2>2. new.from = i /\ i \notin Continuations
    BY <1>1, NewCodeRow, SubjectsSplit
  <2>3. code' = [code EXCEPT ![c] = new] /\ minted' = [minted EXCEPT ![i] = @ + 1]
        /\ code[c].status = "none"
    BY <2>1, Blanks DEF InsertCode, FreshCode
  <2> HIDE DEF new
  <2>4. code'[c] = new /\ \A d \in Codes \ {c} : code'[d] = code[d]
    BY <2>3 DEF Typed, TypeOK
  <2>5. \A k \in Continuations : minted'[k] = minted[k] /\ (~ Unused(k) => ~ Unused(k)')
    BY <2>2, <2>3, <2>4 DEF Typed, TypeOK, Unused
  <2>6. LinksLapse' /\ CallsAreInTime' /\ AttemptsAreInTime'
    BY <1>2, <1>3 DEF LinksAreInTime, LinksLapse, CallsAreInTime, CallsFollow, InHand, AttemptsAreInTime
  <2>7. CodesAreInTime'
    BY <1>2, <2>2, <2>4 DEF LinksAreInTime, CodesAreInTime
  <2>8. UseIsRemembered'
    BY <1>2, <2>5 DEF LinksAreInTime, UseIsRemembered, Forgotten
  <2> QED BY <2>6, <2>7, <2>8 DEF LinksAreInTime
<1> QED BY <1>4, <1>5 DEF AcceptInvitation

LEMMA ExchangeInTime ==
  ASSUME Typed, LinksAreInTime, NEW c \in Codes, Exchange(c)
  PROVE  LinksAreInTime'
<1>1. /\ code[c].status = "open" /\ code' = [code EXCEPT ![c].status = "consumed"]
      /\ UNCHANGED <<now, cont, attempt, handler, minted>>
  BY DEF Exchange, CodeWorks
<1>2. \A d \in Codes :
        /\ code'[d].status \in {"open", "consumed"} <=> code[d].status \in {"open", "consumed"}
        /\ code'[d].from = code[d].from /\ code'[d].expires = code[d].expires
  BY <1>1 DEF Typed, TypeOK, CodeRows
<1>3. CodesAreInTime'
  BY <1>1, <1>2 DEF LinksAreInTime, CodesAreInTime
<1>4. UseIsRemembered'
  BY <1>1, <1>2 DEF LinksAreInTime, UseIsRemembered, Unused, Forgotten
<1> QED BY <1>1, <1>3, <1>4 DEF LinksAreInTime, LinksLapse, CallsAreInTime, InHand, AttemptsAreInTime

(* What is purged was over for History.                                    *)
LEMMA PurgeEffect ==
  ASSUME Typed, Purge
  PROVE  /\ UNCHANGED <<now, access, cont, attempt, identity, handler, changes, minted>>
         /\ \A c \in Codes : \/ code'[c] = code[c]
                             \/ /\ code[c].status \in {"open", "consumed"}
                                /\ code'[c] = [NoCode EXCEPT !.status = "purged"]
                                /\ code[c].expires + History < now
         /\ \A s \in Sessions : \/ session'[s] = session[s]
                                \/ session'[s] = [NoSession EXCEPT !.status = "purged"]
<1>1. PICK t \in Reading :
        /\ code' = [c \in Codes |->
                      IF code[c].status \in {"open", "consumed"} /\ code[c].expires + History < t
                      THEN [NoCode EXCEPT !.status = "purged"] ELSE code[c]]
        /\ session' = [s \in Sessions |->
                         IF session[s].status \in {"live", "revoked"}
                              /\ session[s].expires + History < t
                         THEN [NoSession EXCEPT !.status = "purged"] ELSE session[s]]
        /\ UNCHANGED <<now, access, cont, attempt, identity, handler, changes, minted>>
  BY DEF Purge
<1>2. t \in Nat /\ t <= now /\ now \in Nat
  BY ReadingIsPast
<1>3. \A c \in Codes : code[c].expires + History < t => code[c].expires + History < now
  BY <1>2, Numbers, NaturalBounds
<1> QED BY <1>1, <1>3

LEMMA PurgeInTime ==
  ASSUME Typed, LinksAreInTime, Purge
  PROVE  LinksAreInTime'
<1>1. /\ UNCHANGED <<now, cont, attempt, handler, minted>>
      /\ \A c \in Codes : \/ code'[c] = code[c]
                          \/ /\ code[c].status \in {"open", "consumed"}
                             /\ code'[c] = [NoCode EXCEPT !.status = "purged"]
                             /\ code[c].expires + History < now
  BY PurgeEffect
<1>2. [NoCode EXCEPT !.status = "purged"].status = "purged"
  BY DEF NoCode
<1>3. CodesAreInTime'
  BY <1>1, <1>2 DEF LinksAreInTime, CodesAreInTime
<1>4. ASSUME NEW k \in Continuations, ~ Unused(k), Unused(k)' PROVE Forgotten(k)
  <2>1. PICK c \in Codes : code[c].status \in {"open", "consumed"} /\ code[c].from = k
    BY <1>4 DEF Unused
  <2>2. code[c].expires + History < now
    BY <1>1, <1>4, <2>1 DEF Unused
  <2>3. cont[k] # None /\ cont[k] + CodeLife <= code[c].expires + LoginLife
    BY <2>1 DEF LinksAreInTime, CodesAreInTime
  <2> QED BY <2>2, <2>3, Numbers, NaturalBounds DEF Forgotten
<1>5. UseIsRemembered'
  <2>1. \A k \in Continuations : Forgotten(k)' <=> Forgotten(k)
    BY <1>1 DEF Forgotten
  <2> QED BY <1>1, <1>4, <2>1 DEF LinksAreInTime, UseIsRemembered
<1> QED BY <1>1, <1>3, <1>5 DEF LinksAreInTime, LinksLapse, CallsAreInTime, InHand, AttemptsAreInTime

LEMMA LinksStayInTime ==
  ASSUME Typed, LinksAreInTime, [Next]_vars
  PROVE  LinksAreInTime'
  BY StepsOfSignIn, QuietInTime, PageInTime, SignInInTime, IssueInTime, AcceptInTime, ExchangeInTime,
     PurgeInTime DEF LinkStep

-----------------------------------------------------------------------------
(* What can happen to an invitation, a code and a session in one step.     *)

RevokedInvite(i) == [invite[i] EXCEPT !.status = "revoked", !.grant = FALSE, !.key = FALSE]

InviteEffect(i) ==
  \/ invite'[i] = invite[i] /\ minted'[i] = minted[i]
  \/ invite[i] = NoInvite /\ invite'[i] = NewInvite(now) /\ minted'[i] = minted[i]
  \/ /\ invite[i].status = "pending" /\ invite[i].grant
     /\ \E t \in Time : invite'[i] = AcceptedInvite(i, t)
     /\ minted'[i] = minted[i] + 1
  \/ /\ invite[i].status \in {"pending", "accepted"}
     /\ invite'[i] = RevokedInvite(i)
     /\ minted'[i] = minted[i]

LEMMA InviteSteps ==
  ASSUME Typed, [Next]_vars, NEW i \in Invites
  PROVE  InviteEffect(i)
<1>0. /\ invite \in [Invites -> InviteRows] /\ minted \in [Continuations \cup Invites -> Nat]
      /\ i \notin Continuations
  BY SubjectsSplit DEF Typed, TypeOK
<1>1. ASSUME UNCHANGED <<invite, minted>> PROVE InviteEffect(i)
  BY <1>1 DEF InviteEffect
<1>2. ASSUME NEW h \in Handlers, HandlerStep(h) PROVE InviteEffect(i)
  <2>1. CASE IssueCode(h)
    <3> DEFINE k == handler[h].from
    <3>1. k \in Continuations
      BY <2>1 DEF IssueCode, Typed, CallsHold, CallHolds
    <3>2. invite' = invite /\ (minted' = minted \/ minted' = [minted EXCEPT ![k] = @ + 1])
      BY <2>1 DEF IssueCode, InsertCode, access
    <3> QED BY <1>0, <3>1, <3>2 DEF InviteEffect
  <2>2. CASE AcceptInvitation(h)
    <3> DEFINE r == handler[h]
    <3>1. r.subject \in Invites /\ r.now \in Time
      BY <2>2 DEF AcceptInvitation, Typed, TypeOK, CallsHold, CallHolds, Calls
    <3>2. \/ UNCHANGED <<invite, minted>>
          \/ /\ invite[r.subject].status = "pending" /\ invite[r.subject].grant
             /\ invite' = [invite EXCEPT ![r.subject] = AcceptedInvite(r.subject, r.now)]
             /\ minted' = [minted EXCEPT ![r.subject] = @ + 1]
      BY <2>2 DEF AcceptInvitation, Acceptable, Pending, InsertCode
    <3>3. CASE UNCHANGED <<invite, minted>>
      BY <1>1, <3>3
    <3>4. CASE i = r.subject
      BY <1>0, <1>1, <3>1, <3>2, <3>4 DEF InviteEffect
    <3>5. CASE i # r.subject
      BY <1>0, <1>1, <3>1, <3>2, <3>5 DEF InviteEffect
    <3> QED BY <3>4, <3>5
  <2>3. CASE \/ \E k \in Continuations, m \in Members : \E n \in 1..user[m].key : PostLogin(h, k, m, n)
             \/ \E k \in Continuations, j \in Invites : invite[j].key /\ PostLogin(h, k, j, 1)
             \/ \E k \in Continuations : ClaimAttempt(h, k)
    BY <1>1, <2>3 DEF PostLogin, ClaimAttempt, access, tokens
  <2>4. CASE \/ EvaluateAdmission(h)
             \/ \E p \in Persons, e \in Emails \cup {None} : ProviderAnswers(h, p, e)
             \/ ProviderFails(h)
             \/ BindIdentity(h)
             \/ \E j \in Invites : OpenInvitation(h, j)
    BY <1>1, <2>4 DEF EvaluateAdmission, ProviderAnswers, ProviderFails, BindIdentity, OpenInvitation,
       access, tokens
  <2> QED BY <1>2, <2>1, <2>2, <2>3, <2>4 DEF HandlerStep
<1>3. ASSUME NEW j \in Invites, CreateInvite(j) PROVE InviteEffect(i)
  <2>1. /\ invite[j] = NoInvite /\ invite' = [invite EXCEPT ![j] = NewInvite(now)]
        /\ minted' = minted
    BY <1>3 DEF CreateInvite, tokens
  <2> QED BY <1>0, <2>1 DEF InviteEffect
<1>4. ASSUME NEW j \in Invites, RevokeInvite(j) PROVE InviteEffect(i)
  <2>1. /\ invite[j].status \in {"pending", "accepted"}
        /\ invite' = [invite EXCEPT ![j] = RevokedInvite(j)]
        /\ minted' = minted
    BY <1>0, <1>4 DEF RevokeInvite, InviteRevocableAt, RevokedInvite, tokens
  <2> QED BY <1>0, <2>1 DEF InviteEffect
<1>5. ASSUME Operate, ~ \E j \in Invites : CreateInvite(j) \/ RevokeInvite(j) PROVE InviteEffect(i)
  BY <1>1, <1>5 DEF Operate, SetVisibility, GrantAccess, RevokeAccess, AddMember, RemoveMember, ResetKey,
     DeactivateUser, DeactivateGroup, RevokeSession, DeleteYard, tokens, access
<1>6. CASE \E k \in Continuations : LoginRedirect(k) \/ StartOidc(k)
  BY <1>1, <1>6 DEF LoginRedirect, StartOidc, access
<1>7. CASE \/ \E c \in Codes : Exchange(c)
           \/ \E s \in Sessions : Logout(s)
           \/ Purge
           \/ Tick
  BY <1>1, <1>7 DEF Exchange, Logout, Purge, Tick, access, tokens
<1>8. CASE UNCHANGED vars
  BY <1>1, <1>8 DEF vars
<1> QED BY <1>2, <1>3, <1>4, <1>5, <1>6, <1>7, <1>8 DEF Next

Spent(c) == code[c].status \in {"consumed", "purged"}

LEMMA CodeSteps ==
  ASSUME Typed, [Next]_vars, NEW c \in Codes, Spent(c)
  PROVE  Spent(c)'
<1>0. code \in [Codes -> CodeRows]
  BY DEF Typed, TypeOK
<1>1. CASE UNCHANGED code
  BY <1>1 DEF Spent
<1>2. ASSUME NEW x, NEW k, NEW t, NEW d \in Codes, FreshCode(d), InsertCode(d, x, k, t)
      PROVE  Spent(c)'
  <2>1. d # c
    BY <1>2, Blanks DEF FreshCode, Spent
  <2> QED BY <1>0, <1>2, <2>1 DEF InsertCode, Spent
<1>3. CASE \E h \in Handlers : IssueCode(h) \/ AcceptInvitation(h)
  BY <1>1, <1>2, <1>3 DEF IssueCode, AcceptInvitation
<1>4. CASE \E d \in Codes : Exchange(d)
  BY <1>0, <1>4 DEF Exchange, Spent, CodeRows
<1>5. CASE Purge
  BY <1>5, PurgeEffect DEF Spent, NoCode
<1>6. CASE LinksQuiet
  BY <1>1, <1>6 DEF LinksQuiet
<1>7. CASE \/ \E k \in Continuations : LoginRedirect(k) \/ StartOidc(k)
           \/ \E h \in Handlers, k \in Continuations :
                \/ ClaimAttempt(h, k)
                \/ \E x \in Subjects, n \in Nat : PostLogin(h, k, x, n)
  BY <1>1, <1>7 DEF LoginRedirect, StartOidc, ClaimAttempt, PostLogin, tokens
<1> QED BY <1>3, <1>4, <1>5, <1>6, <1>7, StepsOfSignIn DEF LinkStep

SessionEffect(s) ==
  \/ session'[s] = session[s]
  \/ /\ session[s] = NoSession
     /\ \E c \in Codes, t \in Reading :
          /\ CodeWorks(c, t) /\ Admitted(code[c].subject, t)
          /\ session'[s] = NewSession(c, t)
          /\ code'[c].status = "consumed"
     /\ user' = user
     /\ \A o \in Sessions \ {s} : session'[o] = session[o]
  \/ session[s].status = "live" /\ \E t \in Nat : session'[s] = Revoked(session[s], t)
  \/ session'[s] = [NoSession EXCEPT !.status = "purged"]

LEMMA SessionSteps ==
  ASSUME Typed, [Next]_vars, NEW s \in Sessions
  PROVE  SessionEffect(s)
<1>0. session \in [Sessions -> SessionRows] /\ code \in [Codes -> CodeRows]
  BY DEF Typed, TypeOK
<1>1. ASSUME UNCHANGED session PROVE SessionEffect(s)
  BY <1>1 DEF SessionEffect
<1>2. ASSUME NEW h \in Handlers, BindIdentity(h) PROVE SessionEffect(s)
  <2>1. \/ UNCHANGED session
        \/ \E x : session' = RevokeSessionsOf(x, handler[h].now)
    BY <1>2 DEF BindIdentity
  <2>2. handler[h].now \in Nat
    BY Numbers
  <2> QED BY <1>1, <2>1, <2>2, RevokeSessionsRows DEF SessionEffect
<1>3. ASSUME NEW h \in Handlers, HandlerStep(h), ~ BindIdentity(h) PROVE SessionEffect(s)
  BY <1>1, <1>3 DEF HandlerStep, PostLogin, EvaluateAdmission, IssueCode, ClaimAttempt, ProviderAnswers,
     ProviderFails, OpenInvitation, AcceptInvitation, tokens
<1>4. ASSUME NEW c \in Codes, Exchange(c) PROVE SessionEffect(s)
  <2>1. PICK t \in Reading, o \in Sessions :
          /\ CodeWorks(c, t) /\ Admitted(code[c].subject, t)
          /\ session[o] = NoSession
          /\ code' = [code EXCEPT ![c].status = "consumed"]
          /\ session' = [session EXCEPT ![o] = NewSession(c, t)]
          /\ user' = user
    BY <1>4 DEF Exchange, FreshSession, access
  <2>2. code'[c].status = "consumed"
    BY <1>0, <2>1 DEF CodeRows
  <2>3. CASE s = o
    BY <1>0, <2>1, <2>2, <2>3 DEF SessionEffect
  <2>4. CASE s # o
    BY <1>0, <2>1, <2>4 DEF SessionEffect
  <2> QED BY <2>3, <2>4
<1>5. ASSUME NEW o \in Sessions, Logout(o) \/ RevokeSession(o) PROVE SessionEffect(s)
  <2>1. PICK t \in Reading :
          session[o].status = "live" /\ session' = [session EXCEPT ![o] = Revoked(@, t)]
    BY <1>5 DEF Logout, RevocableByToken, RevokeSession
  <2>2. t \in Nat
    BY ReadingIsPast
  <2> QED BY <2>1, <2>2, RevokeOne DEF SessionEffect
<1>6. CASE Purge
  BY <1>6, PurgeEffect DEF SessionEffect
<1>7. ASSUME NEW m \in Members, DeactivateUser(m) PROVE SessionEffect(s)
  <2>1. PICK t \in Reading : session' = RevokeSessionsOf(m, t)
    BY <1>7 DEF DeactivateUser
  <2>2. t \in Nat
    BY ReadingIsPast
  <2> QED BY <2>1, <2>2, RevokeSessionsRows DEF SessionEffect
<1>8. ASSUME Operate, ~ \E m \in Members : DeactivateUser(m), ~ \E o \in Sessions : RevokeSession(o)
      PROVE  SessionEffect(s)
  BY <1>1, <1>8 DEF Operate, SetVisibility, GrantAccess, RevokeAccess, AddMember, RemoveMember, ResetKey,
     DeactivateGroup, CreateInvite, RevokeInvite, DeleteYard, tokens
<1>9. CASE (\E k \in Continuations : LoginRedirect(k) \/ StartOidc(k)) \/ Tick \/ UNCHANGED vars
  BY <1>1, <1>9 DEF LoginRedirect, StartOidc, Tick, tokens, vars
<1> QED BY <1>2, <1>3, <1>4, <1>5, <1>6, <1>7, <1>8, <1>9 DEF Next, Operate

LEMMA UserSteps ==
  ASSUME Typed, [Next]_vars, NEW m \in Members, ~ DeactivateUser(m)
  PROVE  user'[m].status = user[m].status
<1>0. user \in [Members -> UserRows]
  BY DEF Typed, TypeOK
<1>1. CASE UNCHANGED user
  BY <1>1
<1>2. ASSUME NEW o \in Members, ResetKey(o) PROVE user'[m].status = user[m].status
  <2>1. PICK t \in Time :
          user' = [user EXCEPT ![o] = [user[o] EXCEPT !.key = user[o].key + 1, !.since = t]]
    BY <1>0, <1>2, ReadingIsPast DEF ResetKey
  <2>2. [user[o] EXCEPT !.key = user[o].key + 1, !.since = t].status = user[o].status
    BY <1>0, NewKeyRow
  <2> QED BY <1>0, <2>1, <2>2
<1>3. ASSUME NEW o \in Members \ {m}, DeactivateUser(o) PROVE user'[m].status = user[m].status
  BY <1>0, <1>3 DEF DeactivateUser
<1>4. CASE Operate /\ ~ \E o \in Members : ResetKey(o) \/ DeactivateUser(o)
  BY <1>1, <1>4 DEF Operate, SetVisibility, GrantAccess, RevokeAccess, AddMember, RemoveMember,
     DeactivateGroup, CreateInvite, RevokeInvite, RevokeSession, DeleteYard, access
<1>5. CASE \E h \in Handlers : HandlerStep(h)
  BY <1>1, <1>5 DEF HandlerStep, PostLogin, EvaluateAdmission, IssueCode, ClaimAttempt, ProviderAnswers,
     ProviderFails, BindIdentity, OpenInvitation, AcceptInvitation, access
<1>6. CASE (\E k \in Continuations : LoginRedirect(k) \/ StartOidc(k)) \/ Tick \/ UNCHANGED vars
  BY <1>1, <1>6 DEF LoginRedirect, StartOidc, Tick, access, vars
<1>7. CASE (\E c \in Codes : Exchange(c)) \/ (\E s \in Sessions : Logout(s)) \/ Purge
  BY <1>1, <1>7 DEF Exchange, Logout, Purge, access
<1> QED BY <1>2, <1>3, <1>4, <1>5, <1>6, <1>7 DEF Next, Operate

-----------------------------------------------------------------------------
(* The theorems.                                                           *)

InviteHolds(i) ==
  /\ invite[i].status \in {"pending", "accepted"} <=> invite[i].grant
  /\ invite[i].status = "revoked" => ~ invite[i].key
  /\ minted[i] <= 1
  /\ minted[i] # 0 => invite[i].status \in {"accepted", "revoked"}

InvitesHold == \A i \in Invites : InviteHolds(i)

LEMMA InvitesKept ==
  ASSUME Typed, InvitesHold, [Next]_vars
  PROVE  InvitesHold'
<1> SUFFICES ASSUME NEW i \in Invites PROVE InviteHolds(i)'
  BY DEF InvitesHold
<1>1. /\ InviteHolds(i) /\ InviteEffect(i) /\ invite[i] \in InviteRows /\ minted[i] \in Nat
      /\ now \in Time
  BY InviteSteps, Numbers DEF InvitesHold, Typed, TypeOK
<1>2. CASE invite'[i] = invite[i] /\ minted'[i] = minted[i]
  BY <1>1, <1>2 DEF InviteHolds
<1>3. CASE invite[i] = NoInvite /\ invite'[i] = NewInvite(now) /\ minted'[i] = minted[i]
  BY <1>1, <1>3, NewInviteRow, Blanks DEF InviteHolds
<1>4. CASE /\ invite[i].status = "pending" /\ invite[i].grant
           /\ \E t \in Time : invite'[i] = AcceptedInvite(i, t)
           /\ minted'[i] = minted[i] + 1
  <2>0. PICK t \in Time : invite'[i] = AcceptedInvite(i, t)
    BY <1>4
  <2>3. /\ AcceptedInvite(i, t).status = "accepted"
        /\ AcceptedInvite(i, t).grant = invite[i].grant
    BY <1>1, InviteRowsKept DEF AcceptedInvite
  <2>1. invite'[i].status = "accepted" /\ invite'[i].grant
    BY <1>4, <2>0, <2>3
  <2>2. minted'[i] = 1
    BY <1>1, <1>4 DEF InviteHolds
  <2> QED BY <1>4, <2>1, <2>2 DEF InviteHolds
<1>5. CASE /\ invite[i].status \in {"pending", "accepted"}
           /\ invite'[i] = RevokedInvite(i)
           /\ minted'[i] = minted[i]
  <2>1. /\ RevokedInvite(i).status = "revoked" /\ ~ RevokedInvite(i).grant
        /\ ~ RevokedInvite(i).key
    BY <1>1, InviteRowsKept DEF RevokedInvite
  <2>2. /\ invite'[i].status = "revoked" /\ ~ invite'[i].grant /\ ~ invite'[i].key
        /\ minted'[i] = minted[i]
    BY <1>5, <2>1
  <2> QED BY <1>1, <2>2 DEF InviteHolds
<1> QED BY <1>1, <1>2, <1>3, <1>4, <1>5 DEF InviteEffect

LEMMA InvitesStart == Init => InvitesHold
<1> SUFFICES ASSUME Init, NEW i \in Invites PROVE InviteHolds(i)
  BY DEF InvitesHold
<1>1. invite[i] \in {NoInvite, [NoInvite EXCEPT !.status = "pending", !.grant = TRUE,
                                                !.expires = InviteLife]} /\ minted[i] = 0
  BY DEF Init
<1>2. CASE invite[i] = NoInvite
  BY <1>1, <1>2, Blanks DEF InviteHolds
<1>3. CASE invite[i] = [NoInvite EXCEPT !.status = "pending", !.grant = TRUE, !.expires = InviteLife]
  <2>1. invite[i].status = "pending" /\ invite[i].grant
    BY <1>3 DEF NoInvite
  <2> QED BY <1>1, <2>1 DEF InviteHolds
<1> QED BY <1>1, <1>2, <1>3

CodesYieldOneSession == SessionsSpendCodes /\ CodeYieldsOneSession

LEMMA CodesYieldOneSessionStep ==
  ASSUME Typed, CodesYieldOneSession, [Next]_vars
  PROVE  CodesYieldOneSession'
<1>0. session \in [Sessions -> SessionRows] /\ \A s \in Sessions : session[s].code \in Codes \cup {0}
  BY DEF Typed, TypeOK, SessionRows
<1>1. \A c \in Codes : c # 0
  BY NaturalBounds DEF Codes
<1>2. \A s \in Sessions :
        \/ session'[s].code = session[s].code
        \/ session'[s].code = 0
        \/ \E c \in Codes :
             /\ code[c].status = "open" /\ session'[s].code = c
             /\ code'[c].status = "consumed"
             /\ \A o \in Sessions \ {s} : session'[o] = session[o]
  <2> SUFFICES ASSUME NEW s \in Sessions
               PROVE  \/ session'[s].code = session[s].code
                      \/ session'[s].code = 0
                      \/ \E c \in Codes :
                           /\ code[c].status = "open" /\ session'[s].code = c
                           /\ code'[c].status = "consumed"
                           /\ \A o \in Sessions \ {s} : session'[o] = session[o]
    OBVIOUS
  <2>1. SessionEffect(s)
    BY SessionSteps
  <2>2. CASE session'[s] = session[s]
    BY <2>2
  <2>3. ASSUME NEW c \in Codes, NEW t \in Reading, CodeWorks(c, t), session'[s] = NewSession(c, t),
               code'[c].status = "consumed", \A o \in Sessions \ {s} : session'[o] = session[o]
        PROVE  \E d \in Codes :
                 /\ code[d].status = "open" /\ session'[s].code = d
                 /\ code'[d].status = "consumed"
                 /\ \A o \in Sessions \ {s} : session'[o] = session[o]
    BY <2>3, NewSessionRow, ReadingIsPast DEF CodeWorks
  <2>4. ASSUME NEW t \in Nat, session'[s] = Revoked(session[s], t)
        PROVE  session'[s].code = session[s].code
    BY <1>0, <2>4, RevokedRow
  <2>5. CASE session'[s] = [NoSession EXCEPT !.status = "purged"]
    BY <2>5 DEF NoSession
  <2> QED BY <2>1, <2>2, <2>3, <2>4, <2>5 DEF SessionEffect
<1>3. SessionsSpendCodes'
  <2> SUFFICES ASSUME NEW s \in Sessions, session'[s].code # 0 
               PROVE  code'[session'[s].code].status \in {"consumed", "purged"}
    BY DEF SessionsSpendCodes
  <2>1. CASE session'[s].code = session[s].code
    BY <1>0, <2>1, CodeSteps DEF CodesYieldOneSession, SessionsSpendCodes, Spent
  <2>2. CASE \E c \in Codes : session'[s].code = c /\ code'[c].status = "consumed"
    BY <2>2
  <2> QED BY <1>2, <2>1, <2>2
<1>4. CodeYieldsOneSession'
  <2> SUFFICES ASSUME NEW s \in Sessions, NEW o \in Sessions, s # o,
                      session'[s].code = session'[o].code, session'[s].code # 0
               PROVE  FALSE
    BY DEF CodeYieldsOneSession
  <2>1. CASE session'[s].code = session[s].code /\ session'[o].code = session[o].code
    BY <2>1 DEF CodesYieldOneSession, CodeYieldsOneSession
  <2>2. ASSUME NEW p \in Sessions, NEW q \in Sessions, p # q, session'[p].code = session'[q].code,
               session'[p].code # session[p].code, session'[p].code # 0
        PROVE  FALSE
    <3>1. PICK c \in Codes : /\ code[c].status = "open" /\ session'[p].code = c
                             /\ session'[q] = session[q]
      BY <1>2, <2>2
    <3>2. session[q].code = c /\ session[q].code # 0
      BY <1>1, <2>2, <3>1
    <3> QED BY <3>1, <3>2 DEF CodesYieldOneSession, SessionsSpendCodes
  <2> QED BY <2>1, <2>2
<1> QED BY <1>3, <1>4 DEF CodesYieldOneSession

(* One sign-in yields one code and one session, whatever is sent twice or  *)
(* purged meanwhile.                                                       *)
THEOREM SignsInOnceHolds == Spec => []SignsInOnce
<1> DEFINE IInv == LinksAreInTime /\ InvitesHold /\ CodesYieldOneSession
<1>1. Init => IInv
  <2> SUFFICES ASSUME Init PROVE IInv
    OBVIOUS
  <2>1. LinksAreInTime
    BY Blanks DEF Init, LinksAreInTime, LinksLapse, CallsAreInTime, AttemptsAreInTime, CodesAreInTime,
       UseIsRemembered, LinkSteps
  <2>2. CodesYieldOneSession
    BY Blanks DEF Init, CodesYieldOneSession, SessionsSpendCodes, CodeYieldsOneSession
  <2> QED BY <2>1, <2>2, InvitesStart
<1>2. Typed /\ IInv /\ [Next]_vars => IInv'
  BY LinksStayInTime, InvitesKept, CodesYieldOneSessionStep
<1>3. Typed /\ IInv => SignsInOnce
  <2> SUFFICES ASSUME Typed, IInv, NEW k \in DOMAIN minted PROVE minted[k] <= 1
    BY DEF SignsInOnce, OneCodePerContinuation, CodesYieldOneSession, Typed
  <2>1. k \in Continuations \cup Invites
    BY DEF Typed, TypeOK
  <2> QED BY <2>1 DEF LinksAreInTime, UseIsRemembered, InvitesHold, InviteHolds
<1> QED BY <1>1, <1>2, <1>3, TypeCorrect, PTL DEF Spec

LEMMA ClockMovesOn ==
  ASSUME Typed, [Next]_vars
  PROVE  now \in Nat /\ now' \in Nat /\ now <= now'
<1>1. now \in Nat /\ now' \in Nat
  BY TypeStep, NaturalBounds DEF Typed, TypeOK, Time
<1>2. now' = now \/ now' = now + 1
  BY StepsOfSignIn DEF LinksQuiet, LinkStep, LoginRedirect, StartOidc, ClaimAttempt, PostLogin,
     IssueCode, AcceptInvitation, Exchange, Purge
<1> QED BY <1>1, <1>2

LEMMA DeactivatedStep ==
  ASSUME Typed, DeactivatedHasNoSession, [Next]_vars
  PROVE  DeactivatedHasNoSession'
<1> SUFFICES ASSUME NEW m \in Members, NEW s \in Sessions, user'[m].status = "deactivated",
                    session'[s].subject = m, session'[s].status = "live"
             PROVE  session'[s].expires <= now'
  BY DEF DeactivatedHasNoSession
<1>1. now \in Nat /\ now' \in Nat /\ now <= now' /\ session[s].expires \in Nat
  BY ClockMovesOn, Numbers
<1>2. CASE DeactivateUser(m)
  <2>1. PICK t \in Reading : session' = RevokeSessionsOf(m, t)
    BY <1>2 DEF DeactivateUser
  <2>2. t \in Nat /\ t <= now
    BY ReadingIsPast
  <2>3. \/ session'[s] = Revoked(session[s], t)
        \/ /\ session'[s] = session[s]
           /\ ~ (session[s].subject = m /\ session[s].status = "live" /\ session[s].expires > t)
    BY <2>1 DEF RevokeSessionsOf
  <2>4. session[s] \in SessionRows
    BY DEF Typed, TypeOK
  <2>5. session'[s] = session[s] /\ ~ (session[s].expires > t)
    BY <2>2, <2>3, <2>4, RevokedRow
  <2> QED BY <1>1, <2>2, <2>5
<1>3. CASE ~ DeactivateUser(m)
  <2>1. user[m].status = "deactivated"
    BY <1>3, UserSteps
  <2>2. CASE session'[s] = session[s]
    BY <1>1, <2>1, <2>2 DEF DeactivatedHasNoSession
  <2>3. ASSUME NEW c \in Codes, NEW t \in Reading, Admitted(code[c].subject, t),
               session'[s] = NewSession(c, t)
        PROVE  FALSE
    <3>1. code[c].subject = m
      BY <2>3, NewSessionRow, ReadingIsPast
    <3> QED BY <2>1, <2>3, <3>1 DEF Admitted, MemberAdmitted
  <2>4. ASSUME NEW t \in Nat, session'[s] = Revoked(session[s], t) PROVE FALSE
    <3>1. session[s] \in SessionRows
      BY DEF Typed, TypeOK
    <3> QED BY <2>4, <3>1, RevokedRow
  <2>5. session'[s] # [NoSession EXCEPT !.status = "purged"]
    BY DEF NoSession
  <2> QED BY <2>2, <2>3, <2>4, <2>5, SessionSteps DEF SessionEffect
<1> QED BY <1>2, <1>3

(* Whatever was withdrawn is withdrawn for every request after it, and an  *)
(* invitation that can be used can be revoked.                             *)
THEOREM WithdrawalReachesHolds == Spec => []WithdrawalReaches
<1> DEFINE IInv == DeactivatedHasNoSession /\ InvitesHold
<1>1. Init => IInv
  BY InvitesStart, Blanks DEF Init, DeactivatedHasNoSession
<1>2. Typed /\ IInv /\ [Next]_vars => IInv'
  BY DeactivatedStep, InvitesKept
<1>3. Typed /\ IInv => WithdrawalReaches
  <2> SUFFICES ASSUME Typed, IInv PROVE WithdrawnIsDenied /\ InviteRevocable
    BY DEF WithdrawalReaches
  <2>1. InviteRevocable
    BY DEF InviteRevocable, InvitesHold, InviteHolds
  <2>2. \A i \in Invites : invite[i].status = "revoked" => ~ invite[i].key /\ ~ invite[i].grant
    BY DEF InvitesHold, InviteHolds
  <2>3. ASSUME NEW s \in Sessions, NEW t \in Reading, session[s].status = "live",
               Withdrawn(session[s].subject), SessionServes(s, t)
        PROVE  FALSE
    <3> DEFINE x == session[s].subject
    <3>1. x \in Subjects /\ Admitted(x, t)
      BY <2>3 DEF Typed, RowsHold, SessionServes
    <3>2. CASE x \in Members
      BY <2>3, <3>1, <3>2, SubjectsSplit DEF Withdrawn, Admitted, MemberAdmitted
    <3>3. CASE x \in Invites
      BY <2>3, <3>1, <3>3, SubjectsSplit DEF Withdrawn, Admitted, GuestAdmitted
    <3> QED BY <3>1, <3>2, <3>3 DEF Subjects
  <2> QED BY <2>1, <2>2, <2>3 DEF WithdrawnIsDenied
<1> QED BY <1>1, <1>2, <1>3, TypeCorrect, PTL DEF Spec

(* Invitations only move forward, are accepted once and never after their  *)
(* revocation.                                                             *)
THEOREM InvitationSettlesHolds == Spec => InvitationSettles
<1> DEFINE Settles(i) ==
             /\ invite[i].status = "revoked" => invite'[i] = invite[i]
             /\ invite[i].status = "accepted" => invite'[i].status \in {"accepted", "revoked"}
                                                   /\ invite'[i].created = invite[i].created
<1>1. Typed /\ [Next]_vars => \A i \in Invites : Settles(i)
  <2> SUFFICES ASSUME Typed, [Next]_vars, NEW i \in Invites PROVE Settles(i)
    OBVIOUS
  <2>1. InviteEffect(i) /\ invite[i] \in InviteRows
    BY InviteSteps DEF Typed, TypeOK
  <2>2. CASE invite'[i] = invite[i]
    BY <2>2
  <2>3. CASE invite[i] = NoInvite
    BY <2>3, Blanks
  <2>4. CASE invite[i].status = "pending"
    BY <2>4
  <2>5. CASE invite[i].status \in {"pending", "accepted"} /\ invite'[i] = RevokedInvite(i)
    <3>1. RevokedInvite(i).status = "revoked" /\ RevokedInvite(i).created = invite[i].created
      BY <2>1 DEF RevokedInvite, InviteRows
    <3> HIDE DEF Settles
    <3> QED BY <2>5, <3>1 DEF Settles
  <2> HIDE DEF Settles
  <2> QED BY <2>1, <2>2, <2>3, <2>4, <2>5 DEF InviteEffect
<1>2. (\A i \in Invites : Settles(i)) => [\A i \in Invites : Settles(i)]_vars
  OBVIOUS
<1> QED BY <1>1, <1>2, TypeCorrect, PTL DEF Spec, InvitationSettles

(* A provider identity stays bound to the subject it was first linked to,  *)
(* and only ever to one with the email that was presented.                 *)
THEOREM IdentityNeverRebindsHolds == Spec => IdentityNeverRebinds
<1> DEFINE Keeps(p) ==
             /\ identity[p].subject # None => identity'[p] = identity[p]
             /\ identity'[p].subject # None => EmailOf[identity'[p].subject] = identity'[p].email
<1>1. Typed /\ [Next]_vars => \A p \in Persons : Keeps(p)
  <2> SUFFICES ASSUME Typed, [Next]_vars, NEW p \in Persons PROVE Keeps(p)
    OBVIOUS
  <2>1. identity'[p].subject # None => EmailOf[identity'[p].subject] = identity'[p].email
    BY TypeStep DEF Typed, RowsHold
  <2>2. CASE UNCHANGED identity
    BY <2>1, <2>2
  <2>3. ASSUME NEW h \in Handlers, BindIdentity(h) PROVE Keeps(p)
    <3> DEFINE q == handler[h].person
    <3>1. \/ UNCHANGED identity
          \/ identity[q].subject = None /\ \E new : identity' = [identity EXCEPT ![q] = new]
      BY <2>3 DEF BindIdentity
    <3>2. identity[p].subject # None => identity'[p] = identity[p]
      BY <3>1 DEF Typed, TypeOK
    <3> QED BY <2>1, <3>2
  <2>4. ASSUME NEW h \in Handlers, HandlerStep(h), ~ BindIdentity(h) PROVE UNCHANGED identity
    BY <2>4 DEF HandlerStep, PostLogin, EvaluateAdmission, IssueCode, ClaimAttempt, ProviderAnswers,
       ProviderFails, OpenInvitation, AcceptInvitation, tokens
  <2>5. ASSUME Operate PROVE UNCHANGED identity
    BY <2>5 DEF Operate, SetVisibility, GrantAccess, RevokeAccess, AddMember, RemoveMember, ResetKey,
       DeactivateUser, DeactivateGroup, CreateInvite, RevokeInvite, RevokeSession, DeleteYard, tokens
  <2>6. ASSUME \/ \E k \in Continuations : LoginRedirect(k) \/ StartOidc(k)
               \/ \E c \in Codes : Exchange(c)
               \/ \E s \in Sessions : Logout(s)
               \/ Purge
               \/ Tick
        PROVE  UNCHANGED identity
    BY <2>6 DEF LoginRedirect, StartOidc, Exchange, Logout, Purge, Tick, tokens
  <2>7. CASE UNCHANGED vars
    BY <2>2, <2>7 DEF vars
  <2> HIDE DEF Keeps
  <2> QED BY <2>2, <2>3, <2>4, <2>5, <2>6, <2>7 DEF Next
<1>2. (\A p \in Persons : Keeps(p)) => [\A p \in Persons : Keeps(p)]_vars
  OBVIOUS
<1> QED BY <1>1, <1>2, TypeCorrect, PTL DEF Spec, IdentityNeverRebinds
=============================================================================
