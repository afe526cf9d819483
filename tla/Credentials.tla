---------------------------- MODULE Credentials ----------------------------
(***************************************************************************)
(* The bearer tokens of an installation.  The first start installs a       *)
(* one-time bootstrap secret; whoever exchanges it gets a CLI session with *)
(* every scope, from which API tokens and CI trusts are made.  A CI job    *)
(* exchanges an assertion signed by its provider for a short-lived machine *)
(* session under a trust.  The provider's keys are cached.                 *)
(*                                                                         *)
(* An exchange is several steps with one clock reading: the key cache is   *)
(* read, the provider may be asked, the cache is written, the session is   *)
(* minted.  A request with a token is authenticated in one or two          *)
(* transactions and acts in a later one.  Each repository call is one step.*)
(*                                                                         *)
(* One workspace.  Signatures and claims are abstracted to the key that    *)
(* signed an assertion and to the trusts its claims match.                 *)
(***************************************************************************)
EXTENDS Naturals, FiniteSets

CONSTANTS
  Handlers,       \* requests in flight
  Trusts,         \* CI trusts that may be created
  Assertions,     \* assertions of CI jobs
  KeyOf,          \* the provider key that signed an assertion
  LastKey,        \* the provider's keys are 1..LastKey
  ExpiryOf,       \* when an assertion lapses
  Matches,        \* the trusts whose claims an assertion meets
  ProjectScoped,  \* the trusts restricted to a project
  Allowed,        \* the actions of a trust
  ScopeChoices,   \* the scope sets that are requested for API tokens
  ActionChoices,  \* the action sets that CI jobs request
  None,
  MaxTokens,      \* bound on tokens
  MaxTime,        \* bound on the clock
  MaxLag,         \* bound on the age of a clock reading when it is used
  MaxChanges,     \* bound on authenticated changes
  Ttl, Cooldown,  \* of the key cache
  Window, Limit,  \* of the exchange rate of a trust
  TokenLife

OperatorScopes == {"tokens", "sessions", "ci", "write", "yard"}
CiActions == {"upload", "yard"}

ASSUME CredentialsAssumption ==
  /\ KeyOf \in [Assertions -> 1..LastKey]
  /\ ExpiryOf \in [Assertions -> Nat]
  /\ Matches \in [Assertions -> SUBSET Trusts]
  /\ ProjectScoped \subseteq Trusts
  /\ Allowed \in [Trusts -> SUBSET CiActions]
  /\ ScopeChoices \subseteq SUBSET OperatorScopes
  /\ ActionChoices \subseteq SUBSET CiActions
  /\ None \notin Trusts \cup Assertions
  /\ {MaxTokens, MaxTime, MaxLag, MaxChanges, Limit} \subseteq Nat
  /\ {LastKey, Ttl, Cooldown, Window, TokenLife} \subseteq Nat \ {0}
  \* A fetch is given up long before the keys it would replace lapse.
  /\ Cooldown + MaxLag <= Ttl

Tokens == 1..MaxTokens
Keys == 1..LastKey
Time == 0..MaxTime

VARIABLES
  now,
  bootstrap,  \* bootstrap_authority
  token,      \* api_tokens with the cli_sessions or machine_sessions row that owns it
  trust,      \* ci_trusts: when each was created, and whether it was revoked
  cache,      \* KeyCache of RemoteGithubOidcVerifier
  published,  \* the key the provider signs with
  retired,    \* when the provider withdrew a key
  handler,
  changes     \* number of authenticated changes so far

vars == <<now, bootstrap, token, trust, cache, published, retired, handler, changes>>

NoToken == [kind |-> "none", scopes |-> {}, created |-> 0, expires |-> 0, revoked |-> FALSE,
            row |-> "none", trust |-> None, assertion |-> None, by |-> 0]
NoTrust == [status |-> "none", created |-> 0]
Idle == [step |-> "idle", now |-> 0, token |-> 0, assertion |-> None, actions |-> {},
         keys |-> 0, forced |-> FALSE]

Init ==
  /\ now = 0
  /\ bootstrap = "none"
  /\ token = [x \in Tokens |-> NoToken]
  /\ trust = [c \in Trusts |-> NoTrust]
  /\ cache = [expires |-> 0, key |-> 0, retry |-> 0]
  /\ published = 1
  /\ retired = [k \in Keys |-> None]
  /\ handler = [h \in Handlers |-> Idle]
  /\ changes = 0

\* The clock reading of a request whose transaction commits now.
Reading == {t \in Time : t <= now /\ now <= t + MaxLag}

Step(h, record) == handler' = [handler EXCEPT ![h] = record]

Fresh(x) == token[x] = NoToken /\ \A y \in Tokens : y < x => token[y] # NoToken

-----------------------------------------------------------------------------
(* Bootstrap.                                                              *)

\* Every start tries to install a secret; it is printed if it was installed.
InstallBootstrap ==
  /\ bootstrap = "none"
  /\ bootstrap' = "installed"
  /\ UNCHANGED <<now, token, trust, cache, published, retired, handler, changes>>

OperatorToken(t) ==
  [NoToken EXCEPT !.kind = "cli", !.scopes = OperatorScopes, !.created = t,
                  !.expires = MaxTime + 1, !.row = "live"]

\* POST /v1/bootstrap/exchange consumes the secret and inserts token and session together.
ExchangeBootstrap ==
  \E x \in Tokens :
    /\ bootstrap = "installed"
    /\ bootstrap' = "consumed"
    /\ Fresh(x)
    /\ token' = [token EXCEPT ![x] = OperatorToken(now)]
    /\ UNCHANGED <<now, trust, cache, published, retired, handler, changes>>

-----------------------------------------------------------------------------
(* Requests with a token.                                                  *)

TokenWorks(x, t) == ~ token[x].revoked /\ token[x].created <= t /\ token[x].expires > t

\* session_trust_valid
SessionTrustValid(x, t) ==
  /\ token[x].row = "live" /\ token[x].expires > t
  /\ trust[token[x].trust].status = "active"
  /\ token[x].scopes \subseteq Allowed[token[x].trust]

\* authenticate_api_token checks the trust of a machine session in its own transaction.
ValidateAndTouch(x, t) == token[x].kind = "machine" => SessionTrustValid(x, t)

\* A machine session is then authenticated once more.
Authenticate(h, x) ==
  /\ handler[h] = Idle
  /\ token[x].kind # "none"
  /\ TokenWorks(x, now)
  /\ ValidateAndTouch(x, now)
  /\ Step(h, [Idle EXCEPT !.token = x, !.now = now,
                !.step = IF token[x].kind = "machine" THEN "machine" ELSE "act"])
  /\ UNCHANGED <<now, bootstrap, token, trust, cache, published, retired, changes>>

AuthenticateMachine(h) ==
  LET r == handler[h]
  IN  /\ r.step = "machine"
      /\ Step(h, IF SessionTrustValid(r.token, r.now) THEN [r EXCEPT !.step = "act"] ELSE Idle)
      /\ UNCHANGED <<now, bootstrap, token, trust, cache, published, retired, changes>>

\* Principal::require
Acts(h, scope) ==
  /\ handler[h].step = "act"
  /\ scope \in token[handler[h].token].scopes
  /\ changes < MaxChanges
  /\ changes' = changes + 1
  /\ Step(h, Idle)

\* A request that changes no credential.
OtherRequest(h) ==
  /\ handler[h].step = "act"
  /\ Step(h, Idle)
  /\ UNCHANGED <<now, bootstrap, token, trust, cache, published, retired, changes>>

NormalizeScopes(scopes, caller) ==
  scopes # {} /\ scopes \subseteq OperatorScopes /\ scopes \subseteq caller

\* POST /v1/tokens
CreateToken(h, scopes) ==
  \E x \in Tokens :
    /\ Acts(h, "tokens")
    /\ NormalizeScopes(scopes, token[handler[h].token].scopes)
    /\ Fresh(x)
    /\ token' = [token EXCEPT ![x] =
                   [NoToken EXCEPT !.kind = "api", !.scopes = scopes, !.created = now,
                                   !.expires = now + TokenLife, !.by = handler[h].token]]
    /\ UNCHANGED <<now, bootstrap, trust, cache, published, retired>>

\* POST /v1/tokens/revoke refuses the tokens that sessions own.
RevokeToken(h, x) ==
  /\ Acts(h, "tokens")
  /\ token[x].kind = "api" /\ ~ token[x].revoked
  /\ token' = [token EXCEPT ![x].revoked = TRUE]
  /\ UNCHANGED <<now, bootstrap, trust, cache, published, retired>>

\* POST /v1/sessions/revoke revokes session and token, and neither unless both can be.
RevokeSession(h, x) ==
  \E t \in Reading :
    /\ Acts(h, "sessions")
    /\ token[x].kind = "cli" /\ token[x].row = "live" /\ ~ token[x].revoked
    /\ token[x].created <= t
    /\ token' = [token EXCEPT ![x].revoked = TRUE, ![x].row = "revoked"]
    /\ UNCHANGED <<now, bootstrap, trust, cache, published, retired>>

CreateTrust(h, c) ==
  /\ Acts(h, "ci")
  /\ trust[c] = NoTrust
  /\ trust' = [trust EXCEPT ![c] = [status |-> "active", created |-> now]]
  /\ UNCHANGED <<now, bootstrap, token, cache, published, retired>>

SessionsOf(c) == {x \in Tokens : token[x].trust = c}

\* Only the tokens that are known when the trust is read are revoked.
RevokeTrustAlone(h, c) ==
  /\ Acts(h, "ci")
  /\ trust[c].status = "active"
  /\ trust' = [trust EXCEPT ![c].status = "revoked"]
  /\ UNCHANGED <<now, bootstrap, token, cache, published, retired>>

\* Trust, tokens and sessions are revoked together.  revoked_at_ms may not precede the
\* created_at_ms of a session: a stale reading fails the transaction.
RevokeTrust(h, c) ==
  \E t \in Reading :
    /\ Acts(h, "ci")
    /\ trust[c].status = "active"
    /\ \A x \in SessionsOf(c) : token[x].row = "live" => token[x].created <= t
    /\ trust' = [trust EXCEPT ![c].status = "revoked"]
    /\ token' = [x \in Tokens |->
                   IF x \in SessionsOf(c)
                   THEN [token[x] EXCEPT !.revoked = TRUE, !.row = "revoked"]
                   ELSE token[x]]
    /\ UNCHANGED <<now, bootstrap, cache, published, retired>>

-----------------------------------------------------------------------------
(* The exchange of a CI assertion.                                         *)

\* POST /v1/ci/exchange reads the clock before the keys are looked up.
StartExchange(h, a, actions) ==
  /\ handler[h] = Idle
  /\ actions # {}
  /\ Step(h, [Idle EXCEPT !.step = "keys", !.now = now, !.assertion = a, !.actions = actions])
  /\ UNCHANGED <<now, bootstrap, token, trust, cache, published, retired, changes>>

SignatureHolds(r, key) == KeyOf[r.assertion] = key

ClaimsHold(r) == ExpiryOf[r.assertion] > r.now

\* An unknown key is looked up a second time.
AfterLookup(r, key) ==
  IF SignatureHolds(r, key)
  THEN IF ClaimsHold(r) THEN [r EXCEPT !.step = "mint", !.keys = 0, !.forced = FALSE] ELSE Idle
  ELSE IF r.forced THEN Idle ELSE [r EXCEPT !.step = "keys", !.keys = 0, !.forced = TRUE]

\* The cached keys may be used while they are fresh and, for a second look, while the
\* provider may not be asked again.
Cached(r) ==
  /\ cache.key # 0
  /\ \/ ~ r.forced /\ cache.expires > r.now
     \/ r.forced /\ cache.retry > r.now

LookUpKeys(h) ==
  LET r == handler[h]
  IN  /\ r.step = "keys"
      /\ Step(h, IF Cached(r) THEN AfterLookup(r, cache.key)
                 ELSE IF cache.retry > r.now THEN Idle
                 ELSE [r EXCEPT !.step = "fetch"])
      /\ UNCHANGED <<now, bootstrap, token, trust, cache, published, retired, changes>>

\* fetch_keys: the provider answers with the key it publishes at that moment.
FetchKeys(h) ==
  /\ handler[h].step = "fetch"
  /\ Step(h, [handler[h] EXCEPT !.step = "store", !.keys = published])
  /\ UNCHANGED <<now, bootstrap, token, trust, cache, published, retired, changes>>

FetchFails(h) ==
  LET r == handler[h]
  IN  /\ r.step = "fetch"
      /\ cache' = [cache EXCEPT !.retry = r.now + Cooldown]
      /\ Step(h, Idle)
      /\ UNCHANGED <<now, bootstrap, token, trust, published, retired, changes>>

\* The client went away: the handler's future is dropped where it waits.
Abandon(h) ==
  /\ handler[h].step \in {"fetch", "store"}
  /\ Step(h, Idle)
  /\ UNCHANGED <<now, bootstrap, token, trust, cache, published, retired, changes>>

\* The lifetime of the keys counts from their arrival.
StoreOnArrival(h) ==
  LET r == handler[h]
  IN  /\ r.step = "store"
      /\ cache' = [key |-> r.keys, expires |-> now + Ttl, retry |-> now + Cooldown]
      /\ Step(h, AfterLookup(r, r.keys))
      /\ UNCHANGED <<now, bootstrap, token, trust, published, retired, changes>>

\* The lifetime of the keys counts from the reading of the request that asked for them.
StoreKeys(h) ==
  LET r == handler[h]
  IN  /\ r.step = "store"
      /\ cache' = [key |-> r.keys, expires |-> r.now + Ttl, retry |-> r.now + Cooldown]
      /\ Step(h, AfterLookup(r, r.keys))
      /\ UNCHANGED <<now, bootstrap, token, trust, published, retired, changes>>

AssertionExists(a) == \E x \in Tokens : token[x].assertion = a

\* The requested actions are compared when they are used only.
EligibleForAny(r) == {c \in Matches[r.assertion] : trust[c].status = "active"}

Eligible(r) ==
  {c \in Matches[r.assertion] : trust[c].status = "active" /\ r.actions \subseteq Allowed[c]}

\* A trust of the project comes before one of the workspace, then the newest.
MatchingTrust(r, c) ==
  /\ c \in Eligible(r)
  /\ \A d \in Eligible(r) :
       /\ d \in ProjectScoped => c \in ProjectScoped
       /\ (d \in ProjectScoped) = (c \in ProjectScoped) => trust[d].created <= trust[c].created

\* Sessions are counted up to the reading.
RateExceededBefore(c, t) ==
  Cardinality({x \in SessionsOf(c) : token[x].created + Window > t /\ token[x].created <= t})
    >= Limit

RateExceeded(c, t) == Cardinality({x \in SessionsOf(c) : token[x].created + Window > t}) >= Limit

MachineToken(r, c) ==
  [NoToken EXCEPT !.kind = "machine", !.scopes = r.actions, !.created = r.now,
                  !.expires = ExpiryOf[r.assertion], !.row = "live", !.trust = c,
                  !.assertion = r.assertion]

\* mint: replayed, forbidden and rate limited assertions are refused.
Mint(h) ==
  LET r == handler[h]
  IN  /\ r.step = "mint"
      /\ Step(h, Idle)
      /\ \/ /\ AssertionExists(r.assertion) \/ Eligible(r) = {}
            /\ UNCHANGED token
         \/ /\ ~ AssertionExists(r.assertion)
            /\ \E c \in Trusts :
                 /\ MatchingTrust(r, c)
                 /\ \/ RateExceeded(c, r.now) /\ UNCHANGED token
                    \/ /\ ~ RateExceeded(c, r.now)
                       /\ \E x \in Tokens :
                            Fresh(x) /\ token' = [token EXCEPT ![x] = MachineToken(r, c)]
      /\ UNCHANGED <<now, bootstrap, trust, cache, published, retired, changes>>

RotateKey ==
  /\ published < LastKey
  /\ published' = published + 1
  /\ retired' = [retired EXCEPT ![published] = now]
  /\ UNCHANGED <<now, bootstrap, token, trust, cache, handler, changes>>

Tick ==
  /\ now < MaxTime
  /\ now' = now + 1
  \* MaxLag: no request holds a reading older than that.
  /\ \A h \in Handlers : handler[h] # Idle => now + 1 <= handler[h].now + MaxLag
  /\ UNCHANGED <<bootstrap, token, trust, cache, published, retired, handler, changes>>

-----------------------------------------------------------------------------

Manage(h) ==
  \/ \E x \in Tokens : Authenticate(h, x) \/ RevokeToken(h, x) \/ RevokeSession(h, x)
  \/ AuthenticateMachine(h)
  \/ OtherRequest(h)
  \/ \E scopes \in ScopeChoices : CreateToken(h, scopes)
  \/ \E c \in Trusts : CreateTrust(h, c) \/ RevokeTrust(h, c)

ExchangeAssertion(h) ==
  \/ \E a \in Assertions, actions \in ActionChoices : StartExchange(h, a, actions)
  \/ LookUpKeys(h)
  \/ FetchKeys(h)
  \/ FetchFails(h)
  \/ Abandon(h)
  \/ StoreKeys(h)
  \/ Mint(h)

Next ==
  \/ InstallBootstrap
  \/ ExchangeBootstrap
  \/ \E h \in Handlers : Manage(h) \/ ExchangeAssertion(h)
  \/ RotateKey
  \/ Tick

Spec == Init /\ [][Next]_vars

-----------------------------------------------------------------------------

TokenRows ==
  [kind: {"none", "cli", "api", "machine"}, scopes: SUBSET (OperatorScopes \cup CiActions),
   created: Time, expires: Nat, revoked: BOOLEAN, row: {"none", "live", "revoked"},
   trust: Trusts \cup {None}, assertion: Assertions \cup {None}, by: {0} \cup Tokens]

Calls ==
  [step: {"idle", "machine", "act", "keys", "fetch", "store", "mint"}, now: Time,
   token: {0} \cup Tokens, assertion: Assertions \cup {None}, actions: SUBSET CiActions,
   keys: {0} \cup Keys, forced: BOOLEAN]

TypeOK ==
  /\ now \in Time
  /\ bootstrap \in {"none", "installed", "consumed"}
  /\ token \in [Tokens -> TokenRows]
  /\ trust \in [Trusts -> [status: {"none", "active", "revoked"}, created: Time]]
  /\ cache \in [expires: Nat, key: {0} \cup Keys, retry: Nat]
  /\ published \in Keys
  /\ retired \in [Keys -> Time \cup {None}]
  /\ handler \in [Handlers -> Calls]
  /\ changes \in 0..MaxChanges
  \* A session and the token it owns are revoked together.
  /\ \A x \in Tokens : token[x].kind \in {"cli", "machine"} =>
       (token[x].row = "revoked" <=> token[x].revoked)

\* The bootstrap secret makes one operator, however often it is presented
\* (exchange_transaction in auth.rs).
OneOperator == Cardinality({x \in Tokens : token[x].kind = "cli"}) <= 1

\* An assertion is worth one machine session, also when it is sent again while the first
\* exchange is under way or after the session was revoked (assertion_exists).
AssertionMintsOnce ==
  \A x, y \in Tokens : token[x].assertion # None /\ token[x].assertion = token[y].assertion => x = y

\* Whatever was in flight when a trust was revoked, no machine session under it still works
\* and none is minted afterwards (revoke_ci_trust, matching_trust).
RevokedTrustAdmitsNone ==
  \A x \in Tokens : token[x].trust # None /\ trust[token[x].trust].status = "revoked"
                      => token[x].revoked /\ token[x].row = "revoked"

\* No window of time holds more sessions of a trust than the limit, even when exchanges
\* commit in another order than they read the clock (rate_retry).
RateRespected ==
  \A c \in Trusts, s \in Time :
    Cardinality({x \in SessionsOf(c) : s <= token[x].created /\ token[x].created < s + Window})
      <= Limit

\* An assertion is only taken further with a key the provider published less than Ttl before
\* the request, although fetches overlap, fail, are dropped and arrive out of order (keys in
\* oidc.rs).
AcceptedKeyIsRecent ==
  \A h \in Handlers :
    LET r == handler[h]
        k == KeyOf[r.assertion]
    IN  r.step = "mint" /\ retired[k] # None => retired[k] + Ttl > r.now

\* No chain of creations yields more than its origin had: API tokens descend from the
\* operator within its scopes, and a CI job gets no scope that manages credentials.
AuthorityShrinks ==
  \A x \in Tokens :
    /\ token[x].kind = "api" =>
         /\ token[x].by # 0 /\ token[x].scopes \subseteq token[token[x].by].scopes
         /\ token[token[x].by].kind # "machine"
    /\ token[x].kind = "machine" => token[x].scopes \subseteq Allowed[token[x].trust]

\* A secret, an assertion or a trust yields no more credentials than it is worth, however
\* often and in whatever order it is presented (exchange_transaction, mint).
MintsAreBounded == TypeOK /\ OneOperator /\ AssertionMintsOnce /\ RateRespected
=============================================================================
