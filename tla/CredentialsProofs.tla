------------------------- MODULE CredentialsProofs -------------------------
(***************************************************************************)
(* Theorems about Credentials, for any number of requests, tokens, trusts, *)
(* assertions and keys, and about Clients, for any number of terminals,    *)
(* Yards and tokens.                                                       *)
(***************************************************************************)
EXTENDS Credentials, Clients, FiniteSetTheorems, SequenceTheorems, TLAPS

(* What a request carries from one of its steps to the next.               *)
CallsHold ==
  \A h \in Handlers :
    /\ handler[h].step # "idle" => handler[h].now <= now /\ now <= handler[h].now + MaxLag
    /\ handler[h].step \in {"machine", "act"} => handler[h].token \in Tokens
    /\ handler[h].step \in {"keys", "fetch", "store", "mint"} => handler[h].assertion \in Assertions
    /\ handler[h].step = "store" => handler[h].keys \in Keys

Typed == TypeOK /\ CallsHold

LEMMA NaturalBounds ==
  /\ MaxTokens \in Nat /\ MaxTime \in Nat /\ MaxLag \in Nat /\ MaxChanges \in Nat /\ Limit \in Nat
  /\ LastKey \in Nat \ {0} /\ Ttl \in Nat \ {0} /\ Cooldown \in Nat \ {0}
  /\ Window \in Nat \ {0} /\ TokenLife \in Nat \ {0}
  /\ Cooldown + MaxLag <= Ttl
  BY CredentialsAssumption

(* A request at rest, and the rows that stand for no row.                  *)
LEMMA Blanks ==
  /\ Idle \in Calls /\ Idle.step = "idle"
  /\ NoToken \in TokenRows /\ NoToken.kind = "none" /\ NoToken.trust = None
  /\ NoToken.assertion = None /\ ~NoToken.revoked
  /\ NoTrust \in [status: {"none", "active", "revoked"}, created: Time]
  /\ NoTrust.status = "none"
  BY NaturalBounds DEF Idle, Calls, NoToken, TokenRows, NoTrust, Time, Tokens, Keys

(* What the updates of a token row keep.                                   *)
SameGrant(new, old) ==
  /\ new.kind = old.kind /\ new.scopes = old.scopes /\ new.created = old.created
  /\ new.trust = old.trust /\ new.assertion = old.assertion /\ new.by = old.by

Revoked(row) == [row EXCEPT !.revoked = TRUE]
Withdrawn(row) == [row EXCEPT !.revoked = TRUE, !.row = "revoked"]

LEMMA RevokedRow ==
  ASSUME NEW row \in TokenRows
  PROVE  /\ Revoked(row) \in TokenRows
         /\ SameGrant(Revoked(row), row)
         /\ Revoked(row).revoked
         /\ Revoked(row).row = row.row
  BY DEF TokenRows, SameGrant, Revoked

LEMMA WithdrawnRow ==
  ASSUME NEW row \in TokenRows
  PROVE  /\ Withdrawn(row) \in TokenRows
         /\ SameGrant(Withdrawn(row), row)
         /\ Withdrawn(row).revoked
         /\ Withdrawn(row).row = "revoked"
  BY DEF TokenRows, SameGrant, Withdrawn

(* What the steps that revoke do to every token.                           *)
LEMMA RevokeTokenRows ==
  ASSUME TypeOK, NEW h \in Handlers, NEW x \in Tokens, RevokeToken(h, x)
  PROVE  /\ token' \in [Tokens -> TokenRows]
         /\ \A y \in Tokens : SameGrant(token'[y], token[y])
         /\ \A y \in Tokens :
              \/ token'[y] = token[y]
              \/ token[y].kind = "api" /\ token'[y] = Revoked(token[y])
<1>1. token[x].kind = "api" /\ token' = [token EXCEPT ![x] = Revoked(token[x])]
  BY DEF RevokeToken, Revoked
<1>2. token \in [Tokens -> TokenRows]
  BY DEF TypeOK
<1>3. \A y \in Tokens : SameGrant(token[y], token[y])
  BY DEF SameGrant
<1> QED BY <1>1, <1>2, <1>3, RevokedRow

LEMMA RevokeSessionRows ==
  ASSUME TypeOK, NEW h \in Handlers, NEW x \in Tokens, RevokeSession(h, x)
  PROVE  /\ token' \in [Tokens -> TokenRows]
         /\ \A y \in Tokens : SameGrant(token'[y], token[y])
         /\ \A y \in Tokens : token'[y] = token[y] \/ token'[y] = Withdrawn(token[y])
<1>1. token' = [token EXCEPT ![x] = Withdrawn(token[x])]
  BY DEF RevokeSession, TypeOK, Withdrawn
<1>2. token \in [Tokens -> TokenRows]
  BY DEF TypeOK
<1>3. \A y \in Tokens : SameGrant(token[y], token[y])
  BY DEF SameGrant
<1>4. \A y \in Tokens : token'[y] = IF y = x THEN Withdrawn(token[y]) ELSE token[y]
  BY <1>1, <1>2
<1> QED BY <1>1, <1>2, <1>3, <1>4, WithdrawnRow

LEMMA RevokeTrustRows ==
  ASSUME TypeOK, NEW h \in Handlers, NEW c \in Trusts, RevokeTrust(h, c)
  PROVE  /\ token' \in [Tokens -> TokenRows]
         /\ \A y \in Tokens : SameGrant(token'[y], token[y])
         /\ \A y \in Tokens :
              token'[y] = IF token[y].trust = c THEN Withdrawn(token[y]) ELSE token[y]
         /\ trust' = [trust EXCEPT ![c].status = "revoked"]
<1>1. /\ token' = [x \in Tokens |-> IF token[x].trust = c THEN Withdrawn(token[x]) ELSE token[x]]
      /\ trust' = [trust EXCEPT ![c].status = "revoked"]
  BY DEF RevokeTrust, SessionsOf, Withdrawn
<1>2. token \in [Tokens -> TokenRows]
  BY DEF TypeOK
<1>3. \A y \in Tokens : SameGrant(token[y], token[y])
  BY DEF SameGrant
<1> QED BY <1>1, <1>2, <1>3, WithdrawnRow

(* A request that ends or goes on to a well-typed state keeps the types.   *)
LEMMA StepType ==
  ASSUME Typed, NEW h \in Handlers, NEW r \in Calls, Step(h, r),
         now' = now,
         r.step # "idle" => r.now <= now /\ now <= r.now + MaxLag,
         r.step \in {"machine", "act"} => r.token \in Tokens,
         r.step \in {"keys", "fetch", "store", "mint"} => r.assertion \in Assertions,
         r.step = "store" => r.keys \in Keys
  PROVE  CallsHold' /\ handler' \in [Handlers -> Calls]
  BY DEF Typed, TypeOK, CallsHold, Step

LEMMA AnswerType ==
  ASSUME Typed, NEW h \in Handlers, Step(h, Idle), now' = now
  PROVE  CallsHold' /\ handler' \in [Handlers -> Calls]
  BY StepType, Blanks

(* What a lookup makes of a request that is under way.                     *)
LEMMA LookupType ==
  ASSUME NEW r \in Calls, NEW key, r.step # "idle"
  PROVE  /\ AfterLookup(r, key) \in Calls
         /\ AfterLookup(r, key) = Idle
              \/ /\ AfterLookup(r, key).now = r.now
                 /\ AfterLookup(r, key).assertion = r.assertion
                 /\ AfterLookup(r, key).step \in {"mint", "keys"}
  BY Blanks DEF AfterLookup, Calls

-----------------------------------------------------------------------------
(* Type correctness.                                                       *)

LEMMA ManageType ==
  ASSUME Typed, NEW h \in Handlers, Manage(h)
  PROVE  Typed'
<1> USE DEF Typed
<1>1. CASE \E x \in Tokens : Authenticate(h, x)
  <2>1. PICK x \in Tokens : Authenticate(h, x)
    BY <1>1
  <2> DEFINE r == [Idle EXCEPT !.token = x, !.now = now,
                     !.step = IF token[x].kind = "machine" THEN "machine" ELSE "act"]
  <2>2. /\ r \in Calls /\ r.now = now /\ r.token = x
        /\ r.step \in {"machine", "act"}
    BY Blanks DEF Idle, Calls, TypeOK
  <2>3. Step(h, r)
    BY <2>1 DEF Authenticate
  <2> HIDE DEF r
  <2>4. CallsHold' /\ handler' \in [Handlers -> Calls]
    BY <2>1, <2>2, <2>3, StepType, NaturalBounds DEF Authenticate, TypeOK, Time
  <2> QED BY <2>1, <2>4 DEF Authenticate, TypeOK
<1>2. CASE \E x \in Tokens : RevokeToken(h, x)
  <2>1. PICK x \in Tokens : RevokeToken(h, x)
    BY <1>2
  <2>2. CallsHold' /\ handler' \in [Handlers -> Calls]
    BY <2>1, AnswerType DEF RevokeToken, Acts
  <2>3. /\ token' \in [Tokens -> TokenRows]
        /\ \A y \in Tokens : token'[y] = token[y] \/ token'[y].kind = "api"
    BY <2>1, RevokeTokenRows DEF SameGrant
  <2>4. /\ UNCHANGED <<now, bootstrap, trust, cache, published, retired>>
        /\ changes' \in 0..MaxChanges
    BY <2>1, NaturalBounds DEF RevokeToken, Acts, TypeOK
  <2> QED BY <2>2, <2>3, <2>4 DEF TypeOK
<1>3. CASE \E x \in Tokens : RevokeSession(h, x)
  <2>1. PICK x \in Tokens : RevokeSession(h, x)
    BY <1>3
  <2>2. CallsHold' /\ handler' \in [Handlers -> Calls]
    BY <2>1, AnswerType DEF RevokeSession, Acts
  <2>3. /\ UNCHANGED <<now, bootstrap, trust, cache, published, retired>>
        /\ changes' \in 0..MaxChanges
    BY <2>1, NaturalBounds DEF RevokeSession, Acts, TypeOK
  <2> QED BY <2>1, <2>2, <2>3, RevokeSessionRows, WithdrawnRow DEF TypeOK
<1>4. CASE AuthenticateMachine(h)
  <2> DEFINE r == [handler[h] EXCEPT !.step = "act"]
  <2>1. /\ r \in Calls /\ r.now = handler[h].now /\ r.token = handler[h].token /\ r.step = "act"
    BY DEF TypeOK, Calls
  <2>2. Step(h, r) \/ Step(h, Idle)
    BY <1>4 DEF AuthenticateMachine
  <2> HIDE DEF r
  <2>3. CallsHold' /\ handler' \in [Handlers -> Calls]
    <3>1. handler[h].token \in Tokens /\ handler[h].now <= now /\ now <= handler[h].now + MaxLag
      BY <1>4 DEF AuthenticateMachine, CallsHold
    <3> QED BY <1>4, <2>1, <2>2, <3>1, AnswerType, StepType DEF AuthenticateMachine
  <2> QED BY <1>4, <2>3 DEF AuthenticateMachine, TypeOK
<1>5. CASE OtherRequest(h)
  <2>1. CallsHold' /\ handler' \in [Handlers -> Calls]
    BY <1>5, AnswerType DEF OtherRequest
  <2> QED BY <1>5, <2>1 DEF OtherRequest, TypeOK
<1>6. CASE \E scopes \in ScopeChoices : CreateToken(h, scopes)
  <2>1. PICK scopes \in ScopeChoices, x \in Tokens :
          /\ Acts(h, "tokens")
          /\ token' = [token EXCEPT ![x] =
                   [NoToken EXCEPT !.kind = "api", !.scopes = scopes, !.created = now,
                                   !.expires = now + TokenLife, !.by = handler[h].token]]
          /\ UNCHANGED <<now, bootstrap, trust, cache, published, retired>>
    BY <1>6 DEF CreateToken
  <2>2. CallsHold' /\ handler' \in [Handlers -> Calls]
    BY <2>1, AnswerType DEF Acts
  <2> DEFINE row == [NoToken EXCEPT !.kind = "api", !.scopes = scopes, !.created = now,
                                   !.expires = now + TokenLife, !.by = handler[h].token]
  <2>3. row \in TokenRows /\ row.kind = "api"
    <3>1. scopes \subseteq OperatorScopes
      BY CredentialsAssumption
    <3>2. now + TokenLife \in Nat /\ handler[h].token \in {0} \cup Tokens
      BY NaturalBounds DEF TypeOK, Time, Calls
    <3> QED BY <3>1, <3>2, Blanks DEF NoToken, TokenRows, TypeOK
  <2> HIDE DEF row
  <2>4. token' = [token EXCEPT ![x] = row]
    BY <2>1 DEF row
  <2>5. /\ token' \in [Tokens -> TokenRows]
        /\ \A y \in Tokens : token'[y] = token[y] \/ token'[y].kind = "api"
    BY <2>3, <2>4 DEF TypeOK
  <2> QED BY <2>1, <2>2, <2>5, NaturalBounds DEF Acts, TypeOK
<1>7. CASE \E c \in Trusts : CreateTrust(h, c)
  <2>1. PICK c \in Trusts : CreateTrust(h, c)
    BY <1>7
  <2>2. CallsHold' /\ handler' \in [Handlers -> Calls]
    BY <2>1, AnswerType DEF CreateTrust, Acts
  <2> QED BY <2>1, <2>2, NaturalBounds DEF CreateTrust, Acts, TypeOK
<1>8. CASE \E c \in Trusts : RevokeTrust(h, c)
  <2>1. PICK c \in Trusts : RevokeTrust(h, c)
    BY <1>8
  <2>2. CallsHold' /\ handler' \in [Handlers -> Calls]
    BY <2>1, AnswerType DEF RevokeTrust, Acts
  <2>3. trust' \in [Trusts -> [status: {"none", "active", "revoked"}, created: Time]]
    <3>1. trust' = [trust EXCEPT ![c].status = "revoked"]
      BY <2>1, RevokeTrustRows
    <3> QED BY <3>1 DEF TypeOK
  <2>4. \A y \in Tokens : token'[y] = token[y] \/ (token'[y].row = "revoked" /\ token'[y].revoked)
    <3>1. ASSUME NEW y \in Tokens, token'[y] = Withdrawn(token[y])
          PROVE  token'[y].row = "revoked" /\ token'[y].revoked
      BY <3>1, WithdrawnRow DEF TypeOK
    <3> QED BY <2>1, <3>1, RevokeTrustRows
  <2>5. token' \in [Tokens -> TokenRows]
    BY <2>1, RevokeTrustRows
  <2>6. UNCHANGED <<now, bootstrap, cache, published, retired>> /\ changes' \in 0..MaxChanges
    <3>1. UNCHANGED <<now, bootstrap, cache, published, retired>> /\ Acts(h, "ci")
      BY <2>1 DEF RevokeTrust
    <3> QED BY <3>1, NaturalBounds DEF Acts, TypeOK
  <2> QED BY <2>2, <2>3, <2>4, <2>5, <2>6 DEF TypeOK
<1> QED BY <1>1, <1>2, <1>3, <1>4, <1>5, <1>6, <1>7, <1>8 DEF Manage

(* The session an exchange mints, and where it comes from.                 *)
LEMMA MintedRow ==
  ASSUME Typed, NEW h \in Handlers, Mint(h)
  PROVE  \/ token' = token
         \/ \E x \in Tokens, c \in Trusts :
              /\ ~ AssertionExists(handler[h].assertion)
              /\ c \in Eligible(handler[h])
              /\ ~ RateExceeded(c, handler[h].now)
              /\ token[x] = NoToken
              /\ MachineToken(handler[h], c) \in TokenRows
              /\ token' = [token EXCEPT ![x] = MachineToken(handler[h], c)]
<1> DEFINE r == handler[h]
<1>1. r \in Calls /\ r.assertion \in Assertions
  BY DEF Typed, TypeOK, CallsHold, Mint
<1>2. ExpiryOf[r.assertion] \in Nat
  BY <1>1, CredentialsAssumption
<1>3. ASSUME NEW c \in Trusts PROVE MachineToken(r, c) \in TokenRows
  BY <1>1, <1>2 DEF MachineToken, NoToken, TokenRows, Calls
<1>4. CASE token' # token
  <2>1. PICK x \in Tokens, c \in Trusts :
          /\ ~ AssertionExists(r.assertion)
          /\ MatchingTrust(r, c)
          /\ ~ RateExceeded(c, r.now)
          /\ Fresh(x) /\ token' = [token EXCEPT ![x] = MachineToken(r, c)]
    BY <1>4 DEF Mint
  <2> QED BY <2>1, <1>3 DEF MatchingTrust, Fresh
<1> QED BY <1>4

LEMMA MachineTokenFields ==
  ASSUME NEW r, NEW c
  PROVE  /\ MachineToken(r, c).kind = "machine" /\ MachineToken(r, c).row = "live"
         /\ ~ MachineToken(r, c).revoked /\ MachineToken(r, c).created = r.now
         /\ MachineToken(r, c).trust = c /\ MachineToken(r, c).assertion = r.assertion
         /\ MachineToken(r, c).scopes = r.actions
  BY DEF MachineToken, NoToken

LEMMA ExchangeType ==
  ASSUME Typed, NEW h \in Handlers, ExchangeAssertion(h)
  PROVE  Typed'
<1> USE DEF Typed
<1> DEFINE r == handler[h]
<1>1. r \in Calls
  BY DEF TypeOK
<1>2. CASE \E a \in Assertions, actions \in ActionChoices : StartExchange(h, a, actions)
  <2>1. PICK a \in Assertions, actions \in ActionChoices : StartExchange(h, a, actions)
    BY <1>2
  <2> DEFINE n == [Idle EXCEPT !.step = "keys", !.now = now, !.assertion = a, !.actions = actions]
  <2>2. actions \subseteq CiActions
    BY CredentialsAssumption
  <2>3. n \in Calls /\ n.step = "keys" /\ n.now = now /\ n.assertion = a
    BY <2>2 DEF Idle, Calls, TypeOK
  <2>4. Step(h, n)
    BY <2>1 DEF StartExchange
  <2> HIDE DEF n
  <2>5. CallsHold' /\ handler' \in [Handlers -> Calls]
    BY <2>1, <2>3, <2>4, StepType, NaturalBounds DEF StartExchange, TypeOK, Time
  <2> QED BY <2>1, <2>5 DEF StartExchange, TypeOK
<1>3. CASE LookUpKeys(h)
  <2> DEFINE f == [r EXCEPT !.step = "fetch"]
  <2>1. r.step = "keys" /\ r.assertion \in Assertions /\ r.now <= now /\ now <= r.now + MaxLag
    BY <1>3 DEF LookUpKeys, CallsHold
  <2>2. f \in Calls /\ f.step = "fetch" /\ f.now = r.now /\ f.assertion = r.assertion
    BY <1>1 DEF Calls
  <2>3. Step(h, AfterLookup(r, cache.key)) \/ Step(h, Idle) \/ Step(h, f)
    BY <1>3 DEF LookUpKeys
  <2> HIDE DEF f
  <2>4. CallsHold' /\ handler' \in [Handlers -> Calls]
    BY <1>1, <1>3, <2>1, <2>2, <2>3, LookupType, AnswerType, StepType DEF LookUpKeys
  <2> QED BY <1>3, <2>4 DEF LookUpKeys, TypeOK
<1>4. CASE FetchKeys(h)
  <2> DEFINE n == [r EXCEPT !.step = "store", !.keys = published]
  <2>1. r.step = "fetch" /\ r.assertion \in Assertions /\ r.now <= now /\ now <= r.now + MaxLag
    BY <1>4 DEF FetchKeys, CallsHold
  <2>2. n \in Calls /\ n.step = "store" /\ n.now = r.now /\ n.assertion = r.assertion /\ n.keys \in Keys
    BY <1>1 DEF Calls, TypeOK
  <2>3. Step(h, n)
    BY <1>4 DEF FetchKeys
  <2> HIDE DEF n
  <2>4. CallsHold' /\ handler' \in [Handlers -> Calls]
    BY <1>4, <2>1, <2>2, <2>3, StepType DEF FetchKeys
  <2> QED BY <1>4, <2>4 DEF FetchKeys, TypeOK
<1>5. CASE FetchFails(h)
  <2>1. CallsHold' /\ handler' \in [Handlers -> Calls]
    BY <1>5, AnswerType DEF FetchFails
  <2>2. r.now + Cooldown \in Nat
    BY <1>1, NaturalBounds DEF Calls, Time
  <2> QED BY <1>5, <2>1, <2>2 DEF FetchFails, TypeOK
<1>6. CASE Abandon(h)
  <2>1. CallsHold' /\ handler' \in [Handlers -> Calls]
    BY <1>6, AnswerType DEF Abandon
  <2> QED BY <1>6, <2>1 DEF Abandon, TypeOK
<1>7. CASE StoreKeys(h)
  <2>1. r.step = "store" /\ r.assertion \in Assertions /\ r.now <= now /\ now <= r.now + MaxLag
        /\ r.keys \in Keys
    BY <1>7 DEF StoreKeys, CallsHold
  <2>2. CallsHold' /\ handler' \in [Handlers -> Calls]
    BY <1>1, <1>7, <2>1, LookupType, AnswerType, StepType DEF StoreKeys
  <2>3. r.now + Cooldown \in Nat /\ r.now + Ttl \in Nat
    BY <1>1, NaturalBounds DEF Calls, Time
  <2> QED BY <1>7, <2>1, <2>2, <2>3 DEF StoreKeys, TypeOK
<1>8. CASE Mint(h)
  <2>1. CallsHold' /\ handler' \in [Handlers -> Calls]
    BY <1>8, AnswerType DEF Mint
  <2>2. /\ token' \in [Tokens -> TokenRows]
        /\ \A y \in Tokens :
               token'[y] = token[y] \/ (token'[y].row = "live" /\ ~ token'[y].revoked)
    BY <1>8, MintedRow, MachineTokenFields DEF TypeOK
  <2>3. UNCHANGED <<now, bootstrap, trust, cache, published, retired, changes>>
    BY <1>8 DEF Mint
  <2> QED BY <2>1, <2>2, <2>3 DEF TypeOK
<1> QED BY <1>2, <1>3, <1>4, <1>5, <1>6, <1>7, <1>8 DEF ExchangeAssertion

LEMMA TypeStep ==
  ASSUME Typed, [Next]_vars
  PROVE  Typed'
<1> USE DEF Typed
<1>1. CASE InstallBootstrap
  BY <1>1 DEF InstallBootstrap, TypeOK, CallsHold
<1>2. CASE ExchangeBootstrap
  <2>1. PICK x \in Tokens : token' = [token EXCEPT ![x] = OperatorToken(now)]
    BY <1>2 DEF ExchangeBootstrap
  <2>2. /\ OperatorToken(now) \in TokenRows
        /\ OperatorToken(now).row = "live" /\ ~ OperatorToken(now).revoked
    <3>1. MaxTime + 1 \in Nat
      BY NaturalBounds
    <3> QED BY <3>1 DEF OperatorToken, NoToken, TokenRows, TypeOK
  <2>3. /\ token' \in [Tokens -> TokenRows]
        /\ \A y \in Tokens :
             token'[y] = token[y] \/ (token'[y].row = "live" /\ ~ token'[y].revoked)
    BY <2>1, <2>2 DEF TypeOK
  <2> QED BY <1>2, <2>3 DEF ExchangeBootstrap, TypeOK, CallsHold
<1>3. CASE RotateKey
  <2>1. published + 1 \in Keys
    BY <1>3, NaturalBounds DEF RotateKey, TypeOK, Keys
  <2> QED BY <1>3, <2>1 DEF RotateKey, TypeOK, CallsHold
<1>4. CASE Tick
  <2>1. now' \in Time
    BY <1>4, NaturalBounds DEF Tick, TypeOK, Time
  <2>2. CallsHold'
    <3> SUFFICES ASSUME NEW h \in Handlers, handler[h].step # "idle"
                 PROVE  handler[h].now <= now' /\ now' <= handler[h].now + MaxLag
      BY <1>4 DEF Tick, CallsHold
    <3>1. handler[h].now <= now /\ handler[h].now \in Nat /\ now \in Nat
      BY NaturalBounds DEF CallsHold, TypeOK, Calls, Time
    <3>2. handler[h] # Idle
      BY Blanks
    <3> QED BY <1>4, <3>1, <3>2 DEF Tick
  <2> QED BY <1>4, <2>1, <2>2 DEF Tick, TypeOK
<1>5. CASE UNCHANGED vars
  BY <1>5 DEF vars, TypeOK, CallsHold
<1> QED BY <1>1, <1>2, <1>3, <1>4, <1>5, ManageType, ExchangeType DEF Next

(* Credentials keep their types; a request holds what its next step needs. *)
THEOREM TypeCorrect == Spec => []Typed
<1>1. Init => Typed
  <2> SUFFICES ASSUME Init PROVE Typed
    OBVIOUS
  <2>1. 0 \in Time /\ 1 \in Keys /\ 0 \in 0..MaxChanges
    BY NaturalBounds DEF Time, Keys
  <2> QED BY <2>1, Blanks DEF Init, Typed, TypeOK, CallsHold
<1>2. Typed /\ [Next]_vars => Typed'
  BY TypeStep
<1> QED BY <1>1, <1>2, PTL DEF Spec

-----------------------------------------------------------------------------
(* The steps that change tokens; every other step leaves them alone.       *)
LEMMA TokenSteps ==
  ASSUME Typed, [Next]_vars
  PROVE  \/ token' = token
         \/ ExchangeBootstrap
         \/ \E h \in Handlers :
              \/ \E scopes \in ScopeChoices : CreateToken(h, scopes)
              \/ \E x \in Tokens : RevokeToken(h, x) \/ RevokeSession(h, x)
              \/ \E c \in Trusts : RevokeTrust(h, c)
              \/ Mint(h)
  BY DEF Next, vars, Manage, ExchangeAssertion, InstallBootstrap, Authenticate, AuthenticateMachine,
         OtherRequest, CreateTrust, StartExchange, LookUpKeys, FetchKeys, FetchFails, Abandon,
         StoreKeys, RotateKey, Tick

ApiToken(scopes, t, caller) ==
  [NoToken EXCEPT !.kind = "api", !.scopes = scopes, !.created = t, !.expires = t + TokenLife,
                  !.by = caller]

(* In each of them rows keep what they grant, and at most one row is added. *)
LEMMA TokenEffect ==
  ASSUME Typed, [Next]_vars
  PROVE  \/ \A y \in Tokens : SameGrant(token'[y], token[y])
         \/ \E x \in Tokens :
              /\ token[x] = NoToken
              /\ \A y \in Tokens \ {x} : token'[y] = token[y]
              /\ \/ /\ ExchangeBootstrap
                    /\ token'[x] = OperatorToken(now)
                 \/ \E h \in Handlers, scopes \in ScopeChoices :
                      /\ CreateToken(h, scopes)
                      /\ token'[x] = ApiToken(scopes, now, handler[h].token)
                 \/ \E h \in Handlers, c \in Trusts :
                      /\ Mint(h)
                      /\ ~ AssertionExists(handler[h].assertion)
                      /\ c \in Eligible(handler[h])
                      /\ ~ RateExceeded(c, handler[h].now)
                      /\ token'[x] = MachineToken(handler[h], c)
<1>1. token \in [Tokens -> TokenRows]
  BY DEF Typed, TypeOK
<1>2. CASE token' = token
  BY <1>2 DEF SameGrant
<1>3. CASE ExchangeBootstrap
  BY <1>1, <1>3 DEF ExchangeBootstrap, Fresh
<1>4. CASE \E h \in Handlers, scopes \in ScopeChoices : CreateToken(h, scopes)
  <2>1. PICK h \in Handlers, scopes \in ScopeChoices : CreateToken(h, scopes)
    BY <1>4
  <2>2. PICK x \in Tokens :
          token[x] = NoToken /\ token' = [token EXCEPT ![x] = ApiToken(scopes, now, handler[h].token)]
    BY <2>1 DEF CreateToken, Fresh, ApiToken
  <2> QED BY <1>1, <2>1, <2>2
<1>5. CASE \E h \in Handlers, x \in Tokens : RevokeToken(h, x) \/ RevokeSession(h, x)
  BY <1>5, RevokeTokenRows, RevokeSessionRows DEF Typed
<1>6. CASE \E h \in Handlers, c \in Trusts : RevokeTrust(h, c)
  BY <1>6, RevokeTrustRows DEF Typed
<1>7. CASE \E h \in Handlers : Mint(h)
  <2>1. PICK h \in Handlers : Mint(h)
    BY <1>7
  <2> QED BY <1>1, <1>2, <2>1, MintedRow
<1> QED BY <1>2, <1>3, <1>4, <1>5, <1>6, <1>7, TokenSteps

-----------------------------------------------------------------------------
(* What the safety properties rest on.                                     *)

(* The secret is spent by the exchange that makes the operator.            *)
OperatorIsFirst ==
  /\ bootstrap # "consumed" => \A x \in Tokens : token[x].kind # "cli"
  /\ \A x, y \in Tokens : token[x].kind = "cli" /\ token[y].kind = "cli" => x = y

(* Every token was made with one that still stands behind it, and requests *)
(* run with tokens that exist.                                             *)
TokensDescend ==
  /\ \A h \in Handlers : handler[h].step \in {"machine", "act"}
                           => token[handler[h].token].kind # "none"
  /\ \A x \in Tokens : token[x].kind = "api" =>
       /\ token[x].by \in Tokens /\ token[x].scopes \subseteq token[token[x].by].scopes
       /\ token[token[x].by].kind \in {"cli", "api"}
  /\ \A x \in Tokens : token[x].kind = "machine" =>
       token[x].trust \in Trusts /\ token[x].scopes \subseteq Allowed[token[x].trust]

(* A cached key, one on its way to the cache and one that is looked up a   *)
(* second time are all within Ttl of the moment the provider dropped them. *)
KeysAreRecent ==
  /\ \A k \in Keys : k >= published => retired[k] = None
  /\ cache.expires <= now + Ttl
  /\ cache.key # 0 /\ retired[cache.key] # None => cache.expires <= retired[cache.key] + Ttl
  /\ \A h \in Handlers :
       /\ handler[h].step = "store" /\ retired[handler[h].keys] # None
            => handler[h].now <= retired[handler[h].keys]
       /\ handler[h].step = "keys" /\ handler[h].forced => handler[h].now < cache.expires

(* What a step may make of one token.                                      *)
LEMMA TokenChange ==
  ASSUME Typed, [Next]_vars, NEW x \in Tokens
  PROVE  \/ token'[x] = token[x]
         \/ \E h \in Handlers, y \in Tokens : RevokeToken(h, y) \/ RevokeSession(h, y)
         \/ \E h \in Handlers, c \in Trusts : RevokeTrust(h, c)
         \/ token'[x] = OperatorToken(now)
         \/ \E h \in Handlers, scopes \in ScopeChoices :
              token'[x] = ApiToken(scopes, now, handler[h].token)
         \/ \E h \in Handlers, c \in Trusts :
              c \in Eligible(handler[h]) /\ token'[x] = MachineToken(handler[h], c)
<1>1. token \in [Tokens -> TokenRows]
  BY DEF Typed, TypeOK
<1>2. CASE ExchangeBootstrap
  BY <1>1, <1>2 DEF ExchangeBootstrap
<1>3. CASE \E h \in Handlers, scopes \in ScopeChoices : CreateToken(h, scopes)
  <2>1. PICK h \in Handlers, scopes \in ScopeChoices : CreateToken(h, scopes)
    BY <1>3
  <2>2. PICK y \in Tokens : token' = [token EXCEPT ![y] = ApiToken(scopes, now, handler[h].token)]
    BY <2>1 DEF CreateToken, ApiToken
  <2> QED BY <1>1, <2>2
<1>4. CASE \E h \in Handlers : Mint(h)
  BY <1>1, <1>4, MintedRow
<1> QED BY <1>2, <1>3, <1>4, TokenSteps

(* A request that is authenticated was so already, or runs with a token    *)
(* that is there.                                                          *)
LEMMA CallOrigin ==
  ASSUME Typed, [Next]_vars, NEW h \in Handlers, handler'[h].step \in {"machine", "act"}
  PROVE  \/ handler[h].step \in {"machine", "act"} /\ handler'[h].token = handler[h].token
         \/ token[handler'[h].token].kind # "none"
<1>1. handler \in [Handlers -> Calls]
  BY DEF Typed, TypeOK
<1>2. CASE handler'[h] = handler[h]
  BY <1>2
<1>3. CASE \E x \in Tokens : Authenticate(h, x)
  BY <1>1, <1>3 DEF Authenticate, Step, Idle
<1>4. CASE AuthenticateMachine(h)
  BY <1>1, <1>4, Blanks DEF AuthenticateMachine, Step, Calls
<1>5. CASE \/ OtherRequest(h)
           \/ \E scope \in OperatorScopes : Acts(h, scope)
           \/ FetchFails(h) \/ Abandon(h) \/ Mint(h)
  BY <1>1, <1>5, Blanks DEF OtherRequest, Acts, FetchFails, Abandon, Mint, Step
<1>6. CASE \E a \in Assertions, actions \in ActionChoices : StartExchange(h, a, actions)
  BY <1>1, <1>6 DEF StartExchange, Step, Idle
<1>7. CASE LookUpKeys(h)
  BY <1>1, <1>7, Blanks, LookupType DEF LookUpKeys, Step, Calls
<1>8. CASE FetchKeys(h)
  BY <1>1, <1>8 DEF FetchKeys, Step, Calls
<1>9. CASE StoreKeys(h)
  BY <1>1, <1>9, Blanks, LookupType DEF StoreKeys, Step
<1> QED
  <2>1. CASE \E g \in Handlers : Manage(g) \/ ExchangeAssertion(g)
    <3>1. PICK g \in Handlers : Manage(g) \/ ExchangeAssertion(g)
      BY <2>1
    <3>2. CASE g # h
      <4>1. \E r : Step(g, r)
        BY <3>1 DEF Manage, ExchangeAssertion, Authenticate, AuthenticateMachine, OtherRequest,
             CreateToken, RevokeToken, RevokeSession, CreateTrust, RevokeTrust, Acts, StartExchange,
             LookUpKeys, FetchKeys, FetchFails, Abandon, StoreKeys, Mint
      <4> QED BY <1>1, <1>2, <3>2, <4>1 DEF Step
    <3>3. CASE g = h
      <4>1. CASE Manage(h)
        BY <1>3, <1>4, <1>5, <4>1 DEF Manage, CreateToken, RevokeToken, RevokeSession, CreateTrust,
             RevokeTrust, OperatorScopes
      <4>2. CASE ExchangeAssertion(h)
        BY <1>5, <1>6, <1>7, <1>8, <1>9, <4>2 DEF ExchangeAssertion
      <4> QED BY <3>1, <3>3, <4>1, <4>2
    <3> QED BY <3>2, <3>3
  <2>2. CASE ~ \E g \in Handlers : Manage(g) \/ ExchangeAssertion(g)
    BY <1>2, <2>2 DEF Next, vars, InstallBootstrap, ExchangeBootstrap, RotateKey, Tick
  <2> QED BY <2>1, <2>2

LEMMA OperatorTokenFields ==
  ASSUME NEW t
  PROVE  /\ OperatorToken(t).kind = "cli" /\ OperatorToken(t).trust = None
         /\ OperatorToken(t).assertion = None
  BY DEF OperatorToken, NoToken

LEMMA ApiTokenFields ==
  ASSUME NEW scopes, NEW t, NEW x
  PROVE  /\ ApiToken(scopes, t, x).kind = "api" /\ ApiToken(scopes, t, x).trust = None
         /\ ApiToken(scopes, t, x).assertion = None /\ ApiToken(scopes, t, x).by = x
         /\ ApiToken(scopes, t, x).scopes = scopes
  BY DEF ApiToken, NoToken

-----------------------------------------------------------------------------
(* One operator, one session per assertion.                                *)

LEMMA OperatorIsFirstStep ==
  ASSUME Typed, OperatorIsFirst, [Next]_vars
  PROVE  OperatorIsFirst'
<1>1. CASE ExchangeBootstrap
  <2>1. bootstrap # "consumed" /\ bootstrap' = "consumed"
    BY <1>1 DEF ExchangeBootstrap
  <2>2. PICK x \in Tokens : token' = [token EXCEPT ![x] = OperatorToken(now)]
    BY <1>1 DEF ExchangeBootstrap
  <2> QED BY <2>1, <2>2 DEF OperatorIsFirst, Typed, TypeOK
<1>2. CASE ~ ExchangeBootstrap
  <2>1. bootstrap' = "consumed" => bootstrap = "consumed"
    BY <1>2 DEF Next, vars, Manage, ExchangeAssertion, InstallBootstrap, Authenticate,
         AuthenticateMachine, OtherRequest, CreateToken, RevokeToken, RevokeSession, CreateTrust,
         RevokeTrust, StartExchange, LookUpKeys, FetchKeys, FetchFails, Abandon, StoreKeys, Mint,
         RotateKey, Tick
  <2>2. bootstrap = "consumed" => bootstrap' = "consumed"
    BY <1>2 DEF Next, vars, Manage, ExchangeAssertion, InstallBootstrap, Authenticate,
         AuthenticateMachine, OtherRequest, CreateToken, RevokeToken, RevokeSession, CreateTrust,
         RevokeTrust, StartExchange, LookUpKeys, FetchKeys, FetchFails, Abandon, StoreKeys, Mint,
         RotateKey, Tick
  <2>3. \A y \in Tokens : token'[y].kind = "cli" => token[y].kind = "cli"
    BY <1>2, TokenEffect, ApiTokenFields, MachineTokenFields DEF SameGrant
  <2> QED BY <2>1, <2>2, <2>3 DEF OperatorIsFirst
<1> QED BY <1>1, <1>2

LEMMA AssertionMintsOnceStep ==
  ASSUME Typed, AssertionMintsOnce, [Next]_vars
  PROVE  AssertionMintsOnce'
<1>1. CASE \A y \in Tokens : SameGrant(token'[y], token[y])
  BY <1>1 DEF AssertionMintsOnce, SameGrant
<1>2. CASE ~ \A y \in Tokens : SameGrant(token'[y], token[y])
  <2>1. PICK x \in Tokens :
          /\ \A y \in Tokens \ {x} : token'[y] = token[y]
          /\ token'[x].assertion # None
               => \A y \in Tokens : token[y].assertion # token'[x].assertion
    BY <1>2, TokenEffect, OperatorTokenFields, ApiTokenFields, MachineTokenFields
       DEF AssertionExists
  <2> QED BY <2>1 DEF AssertionMintsOnce
<1> QED BY <1>1, <1>2

-----------------------------------------------------------------------------
(* The rate of a trust.                                                    *)

InWindow(c, s) == {x \in SessionsOf(c) : s <= token[x].created /\ token[x].created < s + Window}

LEMMA RateRespectedStep ==
  ASSUME Typed, RateRespected, [Next]_vars
  PROVE  RateRespected'
<1> SUFFICES ASSUME NEW c \in Trusts, NEW s \in Time
             PROVE  Cardinality(InWindow(c, s)') <= Limit
  BY DEF RateRespected, InWindow
<1>1. /\ IsFiniteSet(InWindow(c, s))
      /\ Cardinality(InWindow(c, s)) \in Nat
      /\ Cardinality(InWindow(c, s)) <= Limit
  <2>1. IsFiniteSet(Tokens)
    BY NaturalBounds, FS_Interval DEF Tokens
  <2>2. InWindow(c, s) \in SUBSET Tokens
    BY DEF InWindow, SessionsOf
  <2> QED BY <2>1, <2>2, FS_Subset, FS_CardinalityType DEF RateRespected, InWindow
<1>2. c # None
  BY CredentialsAssumption
<1>3. CASE \A y \in Tokens : SameGrant(token'[y], token[y])
  <2>1. InWindow(c, s)' = InWindow(c, s)
    BY <1>3 DEF InWindow, SessionsOf, SameGrant
  <2> QED BY <1>1, <2>1
<1>4. CASE ~ \A y \in Tokens : SameGrant(token'[y], token[y])
  <2>1. PICK x \in Tokens :
          /\ token[x] = NoToken
          /\ \A y \in Tokens \ {x} : token'[y] = token[y]
          /\ \/ token'[x].trust = None
             \/ \E h \in Handlers :
                  /\ token'[x].trust = c => ~ RateExceeded(c, handler[h].now)
                  /\ token'[x].created = handler[h].now
    BY <1>4, TokenEffect, OperatorTokenFields, ApiTokenFields, MachineTokenFields
  <2>2. x \notin InWindow(c, s)
    BY <1>2, <2>1, Blanks DEF InWindow, SessionsOf
  <2>3. CASE x \notin InWindow(c, s)'
    <3>1. InWindow(c, s)' = InWindow(c, s)
      BY <2>1, <2>2, <2>3 DEF InWindow, SessionsOf
    <3> QED BY <1>1, <3>1
  <2>4. CASE x \in InWindow(c, s)'
    <3> DEFINE Recent(t) == {y \in SessionsOf(c) : token[y].created + Window > t}
    <3>1. PICK h \in Handlers :
            ~ RateExceeded(c, handler[h].now) /\ token'[x].created = handler[h].now
      BY <1>2, <2>1, <2>4 DEF InWindow, SessionsOf
    <3>2. s <= handler[h].now /\ handler[h].now < s + Window /\ handler[h].now \in Nat
      BY <2>4, <3>1, NaturalBounds DEF InWindow, Typed, TypeOK, Calls, Time
    <3>3. InWindow(c, s) \in SUBSET Recent(handler[h].now)
      <4> SUFFICES ASSUME NEW y \in InWindow(c, s)
                   PROVE  token[y].created + Window > handler[h].now
        BY DEF InWindow
      <4>1. token[y].created \in Nat /\ s \in Nat
        BY NaturalBounds DEF InWindow, SessionsOf, Typed, TypeOK, TokenRows, Time
      <4> QED BY <3>2, <4>1, NaturalBounds DEF InWindow
    <3>4. IsFiniteSet(Recent(handler[h].now))
      <4>1. IsFiniteSet(Tokens)
        BY NaturalBounds, FS_Interval DEF Tokens
      <4>2. Recent(handler[h].now) \in SUBSET Tokens
        BY DEF SessionsOf
      <4> QED BY <4>1, <4>2, FS_Subset
    <3>5. /\ Cardinality(InWindow(c, s)) <= Cardinality(Recent(handler[h].now))
          /\ Cardinality(Recent(handler[h].now)) \in Nat
      BY <3>3, <3>4, FS_Subset, FS_CardinalityType
    <3>6. Cardinality(Recent(handler[h].now)) < Limit
      BY <3>1, <3>5, NaturalBounds DEF RateExceeded
    <3>7. InWindow(c, s)' = InWindow(c, s) \cup {x}
      BY <2>1, <2>4 DEF InWindow, SessionsOf
    <3>8. Cardinality(InWindow(c, s)') = Cardinality(InWindow(c, s)) + 1
      BY <1>1, <2>2, <3>7, FS_AddElement
    <3> QED BY <1>1, <3>5, <3>6, <3>8, NaturalBounds
  <2> QED BY <2>3, <2>4
<1> QED BY <1>3, <1>4

LEMMA OneOperatorHolds ==
  ASSUME OperatorIsFirst PROVE OneOperator
<1> DEFINE S == {x \in Tokens : token[x].kind = "cli"}
<1>1. S = {} \/ \E x : S = {x}
  BY DEF OperatorIsFirst
<1>2. Cardinality(S) = 0 \/ Cardinality(S) = 1
  BY <1>1, FS_EmptySet, FS_Singleton
<1> QED BY <1>2 DEF OneOperator

(* A secret, an assertion or a trust yields no more credentials than it is *)
(* worth, however often and in whatever order it is presented              *)
(* (exchange_transaction, mint, rate_retry).                               *)
THEOREM MintsAreBoundedHolds == Spec => []MintsAreBounded
<1> DEFINE Inv == OperatorIsFirst /\ AssertionMintsOnce /\ RateRespected
<1>1. Init => Inv
  <2> SUFFICES ASSUME Init PROVE Inv
    OBVIOUS
  <2>1. \A x \in Tokens : token[x] = NoToken
    BY DEF Init
  <2>2. OperatorIsFirst /\ AssertionMintsOnce
    BY <2>1, Blanks DEF OperatorIsFirst, AssertionMintsOnce
  <2>3. \A c \in Trusts, s \in Time : InWindow(c, s) = {}
    BY <2>1, Blanks, CredentialsAssumption DEF InWindow, SessionsOf
  <2>4. RateRespected
    <3>1. Cardinality({}) = 0 /\ 0 <= Limit
      BY FS_EmptySet, NaturalBounds
    <3> QED BY <2>3, <3>1 DEF RateRespected, InWindow
  <2> QED BY <2>2, <2>4
<1>2. Typed /\ Inv /\ [Next]_vars => Inv'
  BY OperatorIsFirstStep, AssertionMintsOnceStep, RateRespectedStep
<1>3. Typed /\ Inv => MintsAreBounded
  BY OneOperatorHolds DEF MintsAreBounded, Typed
<1> HIDE DEF Inv
<1> QED BY <1>1, <1>2, <1>3, TypeCorrect, PTL DEF Spec

-----------------------------------------------------------------------------
(* Revocation reaches what is in flight.                                   *)

LEMMA RevokedTrustStep ==
  ASSUME Typed, RevokedTrustAdmitsNone, [Next]_vars
  PROVE  RevokedTrustAdmitsNone'
<1> SUFFICES ASSUME NEW x \in Tokens, token'[x].trust # None,
                    trust'[token'[x].trust].status = "revoked"
             PROVE  token'[x].revoked /\ token'[x].row = "revoked"
  BY DEF RevokedTrustAdmitsNone
<1>1. token \in [Tokens -> TokenRows]
  BY DEF Typed, TypeOK
<1>2. CASE \E h \in Handlers, c \in Trusts : RevokeTrust(h, c)
  <2>1. PICK h \in Handlers, c \in Trusts : RevokeTrust(h, c)
    BY <1>2
  <2>2. /\ token'[x] = IF token[x].trust = c THEN Withdrawn(token[x]) ELSE token[x]
        /\ token'[x].trust = token[x].trust
        /\ trust' = [trust EXCEPT ![c].status = "revoked"]
    BY <2>1, RevokeTrustRows DEF Typed, SameGrant
  <2>3. CASE token[x].trust = c
    BY <1>1, <2>2, <2>3, WithdrawnRow
  <2>4. CASE token[x].trust # c
    <3>1. trust[token[x].trust].status = "revoked"
      BY <2>2, <2>4 DEF Typed, TypeOK
    <3> QED BY <2>2, <2>4, <3>1 DEF RevokedTrustAdmitsNone
  <2> QED BY <2>3, <2>4
<1>3. CASE ~ \E h \in Handlers, c \in Trusts : RevokeTrust(h, c)
  <2>1. \A c \in Trusts : trust'[c].status = "revoked" => trust[c].status = "revoked"
    <3>1. CASE trust' = trust
      BY <3>1
    <3>2. CASE \E h \in Handlers, c \in Trusts : CreateTrust(h, c)
      BY <3>2 DEF CreateTrust, Typed, TypeOK
    <3> QED BY <1>3, <3>1, <3>2 DEF Next, vars, Manage, ExchangeAssertion, InstallBootstrap,
         ExchangeBootstrap, Authenticate, AuthenticateMachine, OtherRequest, CreateToken,
         RevokeToken, RevokeSession, StartExchange, LookUpKeys, FetchKeys, FetchFails, Abandon,
         StoreKeys, Mint, RotateKey, Tick
  <2>2. token'[x].trust \in Trusts
    <3>1. token'[x] \in TokenRows
      BY TypeStep DEF Typed, TypeOK
    <3> QED BY <3>1 DEF TokenRows
  <2>3. trust[token'[x].trust].status = "revoked"
    BY <2>1, <2>2
  <2>4. CASE token'[x] = token[x]
    BY <2>3, <2>4 DEF RevokedTrustAdmitsNone
  <2>5. CASE \E h \in Handlers, y \in Tokens : RevokeToken(h, y) \/ RevokeSession(h, y)
    <3>1. PICK h \in Handlers, y \in Tokens : RevokeToken(h, y) \/ RevokeSession(h, y)
      BY <2>5
    <3>2. /\ token'[x].trust = token[x].trust
          /\ \/ token'[x] = token[x]
             \/ token'[x] = Revoked(token[x])
             \/ token'[x] = Withdrawn(token[x])
      BY <3>1, RevokeTokenRows, RevokeSessionRows DEF Typed, SameGrant
    <3>3. token[x].revoked /\ token[x].row = "revoked"
      BY <2>3, <3>2 DEF RevokedTrustAdmitsNone
    <3> QED BY <1>1, <3>2, <3>3, RevokedRow, WithdrawnRow
  <2>6. CASE \E h \in Handlers, c \in Trusts :
               c \in Eligible(handler[h]) /\ token'[x] = MachineToken(handler[h], c)
    BY <2>3, <2>6, MachineTokenFields DEF Eligible
  <2>7. CASE \/ token'[x] = OperatorToken(now)
             \/ \E h \in Handlers, scopes \in ScopeChoices :
                  token'[x] = ApiToken(scopes, now, handler[h].token)
    BY <2>7, OperatorTokenFields, ApiTokenFields
  <2> QED BY <1>3, <2>4, <2>5, <2>6, <2>7, TokenChange
<1> QED BY <1>2, <1>3

(* Whatever was in flight when a trust was revoked, no machine session     *)
(* under it works and none is minted afterwards (revoke_ci_trust,          *)
(* matching_trust).                                                        *)
THEOREM RevokedTrustAdmitsNoneHolds == Spec => []RevokedTrustAdmitsNone
<1>1. Init => RevokedTrustAdmitsNone
  BY Blanks DEF Init, RevokedTrustAdmitsNone
<1> QED BY <1>1, RevokedTrustStep, TypeCorrect, PTL DEF Spec

-----------------------------------------------------------------------------
(* Authority only shrinks.                                                 *)

LEMMA TokensDescendStep ==
  ASSUME Typed, TokensDescend, [Next]_vars
  PROVE  TokensDescend'
<1>1. CASE \A y \in Tokens : SameGrant(token'[y], token[y])
  <2>1. \A h \in Handlers : handler'[h].step \in {"machine", "act"}
                              => token'[handler'[h].token].kind # "none"
    <3> SUFFICES ASSUME NEW h \in Handlers, handler'[h].step \in {"machine", "act"}
                 PROVE  token[handler'[h].token].kind # "none"
      BY <1>1, TypeStep DEF SameGrant, Typed, CallsHold
    <3> QED BY CallOrigin DEF TokensDescend
  <2> QED BY <1>1, <2>1 DEF TokensDescend, SameGrant
<1>2. CASE ~ \A y \in Tokens : SameGrant(token'[y], token[y])
  <2>1. PICK x \in Tokens :
          /\ token[x] = NoToken
          /\ \A y \in Tokens \ {x} : token'[y] = token[y]
          /\ \/ token'[x] = OperatorToken(now)
             \/ \E h \in Handlers, scopes \in ScopeChoices :
                  /\ CreateToken(h, scopes)
                  /\ token'[x] = ApiToken(scopes, now, handler[h].token)
             \/ \E h \in Handlers, c \in Trusts :
                  c \in Eligible(handler[h]) /\ token'[x] = MachineToken(handler[h], c)
    BY <1>2, TokenEffect
  <2>2. token[x].kind = "none" /\ token'[x].kind # "none"
    BY <2>1, Blanks, OperatorTokenFields, ApiTokenFields, MachineTokenFields
  <2>3. \A h \in Handlers : handler'[h].step \in {"machine", "act"}
                              => token'[handler'[h].token].kind # "none"
    BY <2>1, <2>2, CallOrigin, TypeStep DEF TokensDescend, Typed, CallsHold
  <2>4. \A y \in Tokens \ {x} :
          token[y].kind = "api" => token'[token[y].by] = token[token[y].by]
    BY <2>1, <2>2 DEF TokensDescend
  <2>5. ASSUME token'[x].kind = "api"
        PROVE  /\ token'[x].by \in Tokens /\ token'[x].scopes \subseteq token'[token'[x].by].scopes
               /\ token'[token'[x].by].kind \in {"cli", "api"}
    <3>1. PICK h \in Handlers, scopes \in ScopeChoices :
            CreateToken(h, scopes) /\ token'[x] = ApiToken(scopes, now, handler[h].token)
      BY <2>1, <2>5, OperatorTokenFields, MachineTokenFields
    <3> DEFINE caller == handler[h].token
    <3>2. /\ caller \in Tokens /\ token[caller].kind # "none"
          /\ "tokens" \in token[caller].scopes /\ scopes \subseteq token[caller].scopes
      BY <3>1 DEF CreateToken, Acts, NormalizeScopes, TokensDescend, Typed, CallsHold
    <3>3. token[caller].kind # "machine"
      BY <3>2, CredentialsAssumption DEF TokensDescend, CiActions
    <3>4. token[caller].kind \in {"cli", "api"}
      BY <3>2, <3>3 DEF Typed, TypeOK, TokenRows
    <3>5. token'[caller] = token[caller]
      BY <2>1, <2>2, <3>2
    <3> QED BY <3>1, <3>2, <3>4, <3>5, ApiTokenFields
  <2>6. token'[x].kind = "machine" =>
          token'[x].trust \in Trusts /\ token'[x].scopes \subseteq Allowed[token'[x].trust]
    BY <2>1, OperatorTokenFields, ApiTokenFields, MachineTokenFields DEF Eligible
  <2> QED BY <2>1, <2>3, <2>4, <2>5, <2>6 DEF TokensDescend
<1> QED BY <1>1, <1>2

(* API tokens stay within the scopes of the operator they descend from,    *)
(* and a CI job gets no more than its trust allows (normalize_scopes,      *)
(* matching_trust).                                                        *)
THEOREM AuthorityShrinksHolds == Spec => []AuthorityShrinks
<1>1. Init => TokensDescend
  BY Blanks DEF Init, TokensDescend
<1>2. Typed /\ TokensDescend => AuthorityShrinks
  BY NaturalBounds DEF TokensDescend, AuthorityShrinks, Tokens
<1> QED BY <1>1, <1>2, TokensDescendStep, TypeCorrect, PTL DEF Spec

-----------------------------------------------------------------------------
(* Keys are never older than the cache allows.                             *)

(* The key that signed an accepted assertion is retired less than Ttl      *)
(* before the request, written for one request.                            *)
Accepts(r) == r.step = "mint" /\ retired[KeyOf[r.assertion]] # None
                => r.now < retired[KeyOf[r.assertion]] + Ttl

KeyProperties == KeysAreRecent /\ \A h \in Handlers : Accepts(handler[h])

LEMMA AcceptedKeyFollows ==
  ASSUME Typed, KeyProperties
  PROVE  AcceptedKeyIsRecent
<1> SUFFICES ASSUME NEW h \in Handlers, handler[h].step = "mint",
                    retired[KeyOf[handler[h].assertion]] # None
             PROVE  retired[KeyOf[handler[h].assertion]] + Ttl > handler[h].now
  BY DEF AcceptedKeyIsRecent
<1>1. KeyOf[handler[h].assertion] \in Keys
  BY CredentialsAssumption DEF Typed, CallsHold, Keys
<1>2. handler[h].now \in Nat /\ retired[KeyOf[handler[h].assertion]] \in Nat
  BY <1>1, NaturalBounds DEF Typed, TypeOK, Calls, Time
<1> QED BY <1>2, NaturalBounds DEF KeyProperties, Accepts

(* The steps that only move one request, seen from the keys.               *)
LEMMA KeysMoveStep ==
  ASSUME Typed, KeyProperties, NEW h \in Handlers, NEW r, Step(h, r),
         UNCHANGED <<now, cache, published, retired>>,
         r.step = "store" => r.keys = published,
         r.step = "keys" /\ r.forced => r.now < cache.expires,
         Accepts(r)
  PROVE  KeyProperties'
<1>1. retired[published] = None
  <2>1. published \in Keys /\ published >= published
    BY NaturalBounds DEF Typed, TypeOK, Keys
  <2> QED BY <2>1 DEF KeyProperties, KeysAreRecent
<1>2. \A g \in Handlers : handler'[g] = IF g = h THEN r ELSE handler[g]
  BY DEF Step, Typed, TypeOK
<1>3. KeysAreRecent'
  BY <1>1, <1>2 DEF KeyProperties, KeysAreRecent
<1>4. \A g \in Handlers : Accepts(handler'[g])
  BY <1>2 DEF KeyProperties
<1> QED BY <1>3, <1>4 DEF KeyProperties, Accepts

(* A lookup that finds a key that is recent enough.                        *)
LEMMA LookupAccepts ==
  ASSUME NEW r, NEW key,
         retired[key] # None => r.now < retired[key] + Ttl
  PROVE  /\ Accepts(AfterLookup(r, key))
         /\ AfterLookup(r, key).step # "store"
         /\ AfterLookup(r, key).step = "keys" => ~ r.forced /\ AfterLookup(r, key).now = r.now
  BY DEF AfterLookup, Accepts, SignatureHolds, Idle

LEMMA IdleAccepts == Accepts(Idle) /\ Idle.step = "idle"
  BY DEF Accepts, Idle

(* The numbers the arguments below compare.                                *)
LEMMA Numbers ==
  ASSUME Typed
  PROVE  /\ now \in Nat /\ cache.expires \in Nat
         /\ \A h \in Handlers :
              /\ handler[h].now \in Nat
              /\ handler[h].step # "idle" =>
                   handler[h].now <= now /\ now <= handler[h].now + MaxLag
         /\ \A k \in Keys : retired[k] # None => retired[k] \in Nat
  BY NaturalBounds DEF Typed, TypeOK, CallsHold, Calls, Time

LEMMA LookUpKeysStep ==
  ASSUME Typed, KeyProperties, NEW h \in Handlers, LookUpKeys(h)
  PROVE  KeyProperties'
<1> DEFINE r == handler[h]
           f == [r EXCEPT !.step = "fetch"]
<1>1. r \in Calls /\ r.step = "keys" /\ UNCHANGED <<now, cache, published, retired>>
  BY DEF LookUpKeys, Typed, TypeOK
<1>2. f.step = "fetch"
  BY <1>1 DEF Calls
<1>3. CASE Cached(r)
  <2>1. cache.key \in Keys /\ r.now < cache.expires
    <3>1. cache.key \in Keys
      BY <1>3 DEF Cached, Typed, TypeOK
    <3>2. ~ r.forced => r.now < cache.expires
      BY <1>3, Numbers DEF Cached
    <3>3. r.forced => r.now < cache.expires
      BY <1>1 DEF KeyProperties, KeysAreRecent
    <3> QED BY <3>1, <3>2, <3>3
  <2>2. retired[cache.key] # None => r.now < retired[cache.key] + Ttl
    <3> SUFFICES ASSUME retired[cache.key] # None PROVE r.now < retired[cache.key] + Ttl
      OBVIOUS
    <3>1. cache.key # 0 /\ cache.key \in Keys
      BY <1>3, <2>1 DEF Cached
    <3>2. cache.expires <= retired[cache.key] + Ttl
      BY <3>1 DEF KeyProperties, KeysAreRecent
    <3>3. r.now \in Nat /\ cache.expires \in Nat /\ retired[cache.key] \in Nat
      BY <3>1, Numbers
    <3> QED BY <2>1, <3>2, <3>3, NaturalBounds
  <2>3. Step(h, AfterLookup(r, cache.key))
    BY <1>3 DEF LookUpKeys
  <2> QED BY <1>1, <2>1, <2>2, <2>3, LookupAccepts, KeysMoveStep
<1>4. CASE ~ Cached(r)
  <2>1. Step(h, Idle) \/ Step(h, f)
    BY <1>4 DEF LookUpKeys
  <2> HIDE DEF f
  <2> QED BY <1>1, <1>2, <2>1, IdleAccepts, KeysMoveStep DEF Accepts
<1> QED BY <1>3, <1>4

LEMMA StoreKeysStep ==
  ASSUME Typed, KeyProperties, NEW h \in Handlers, StoreKeys(h)
  PROVE  KeyProperties'
<1> DEFINE r == handler[h]
           n == AfterLookup(r, r.keys)
<1>1. /\ r.step = "store" /\ r.keys \in Keys /\ r.now \in Nat /\ now \in Nat
      /\ r.now <= now /\ now <= r.now + MaxLag
  BY Numbers DEF StoreKeys, Typed, CallsHold
<1>2. /\ cache'.key = r.keys /\ cache'.expires = r.now + Ttl
      /\ UNCHANGED <<now, published, retired>>
      /\ \A g \in Handlers : handler'[g] = IF g = h THEN n ELSE handler[g]
  BY DEF StoreKeys, Step, Typed, TypeOK
<1>3. retired[r.keys] # None => r.now <= retired[r.keys] /\ retired[r.keys] \in Nat
  BY <1>1, Numbers DEF KeyProperties, KeysAreRecent
<1>4. retired[r.keys] # None => r.now < retired[r.keys] + Ttl /\ r.now + Ttl <= retired[r.keys] + Ttl
  BY <1>1, <1>3, NaturalBounds
<1>5. Accepts(n) /\ n.step # "store" /\ (n.step = "keys" => n.now = r.now)
  BY <1>4, LookupAccepts
<1> HIDE DEF n
<1>6. \A g \in Handlers : handler[g].step # "idle" => handler[g].now < cache'.expires
  BY <1>1, <1>2, Numbers, NaturalBounds
<1>7. r.now < cache'.expires /\ cache'.expires <= now + Ttl
  BY <1>1, <1>2, NaturalBounds
<1>8. KeysAreRecent'
  BY <1>2, <1>4, <1>5, <1>6, <1>7 DEF KeyProperties, KeysAreRecent
<1>9. \A g \in Handlers : Accepts(handler[g])'
  BY <1>2, <1>5 DEF KeyProperties, Accepts
<1> QED BY <1>8, <1>9 DEF KeyProperties

LEMMA RotateKeyStep ==
  ASSUME Typed, KeyProperties, RotateKey
  PROVE  KeyProperties'
<1>1. published \in Keys /\ retired[published] = None /\ published' = published + 1
  <2>1. published \in Keys /\ published >= published
    BY NaturalBounds DEF Typed, TypeOK, Keys
  <2> QED BY <2>1 DEF RotateKey, KeyProperties, KeysAreRecent
<1>2. /\ \A k \in Keys : retired'[k] = IF k = published THEN now ELSE retired[k]
      /\ UNCHANGED <<now, cache, handler>>
  BY DEF RotateKey, Typed, TypeOK
<1>3. \A k \in Keys : k >= published' => retired'[k] = None
  BY <1>1, <1>2, NaturalBounds DEF KeyProperties, KeysAreRecent, Keys
<1>4. cache.key # 0 /\ retired'[cache.key] # None => cache.expires <= retired'[cache.key] + Ttl
  BY <1>2 DEF KeyProperties, KeysAreRecent, Typed, TypeOK
<1>5. ASSUME NEW h \in Handlers
      PROVE  /\ handler[h].step = "store" /\ retired'[handler[h].keys] # None
                  => handler[h].now <= retired'[handler[h].keys]
             /\ handler[h].step = "keys" /\ handler[h].forced => handler[h].now < cache.expires
  BY <1>2, Numbers DEF KeyProperties, KeysAreRecent, Typed, CallsHold
<1>6. KeysAreRecent'
  BY <1>2, <1>3, <1>4, <1>5 DEF KeyProperties, KeysAreRecent
<1>7. ASSUME NEW h \in Handlers PROVE Accepts(handler[h])'
  <2> SUFFICES ASSUME handler[h].step = "mint", retired'[KeyOf[handler[h].assertion]] # None
               PROVE  handler[h].now < retired'[KeyOf[handler[h].assertion]] + Ttl
    BY <1>2 DEF Accepts
  <2>1. KeyOf[handler[h].assertion] \in Keys
    BY CredentialsAssumption DEF Typed, CallsHold, Keys
  <2>2. handler[h].now <= now /\ now \in Nat /\ handler[h].now \in Nat
    BY Numbers
  <2> QED BY <1>2, <2>1, <2>2, NaturalBounds DEF KeyProperties, Accepts
<1> QED BY <1>6, <1>7 DEF KeyProperties

LEMMA KeyPropertiesStep ==
  ASSUME Typed, KeyProperties, [Next]_vars
  PROVE  KeyProperties'
<1>1. ASSUME NEW h \in Handlers, Manage(h) PROVE KeyProperties'
  <2>1. UNCHANGED <<now, cache, published, retired>>
    BY <1>1 DEF Manage, Authenticate, AuthenticateMachine, OtherRequest, CreateToken, RevokeToken,
         RevokeSession, CreateTrust, RevokeTrust
  <2>2. CASE \E x \in Tokens : Authenticate(h, x)
    <3>1. PICK x \in Tokens : Authenticate(h, x)
      BY <2>2
    <3> DEFINE r == [Idle EXCEPT !.token = x, !.now = now,
                       !.step = IF token[x].kind = "machine" THEN "machine" ELSE "act"]
    <3>2. Step(h, r) /\ r.step \in {"machine", "act"}
      BY <3>1 DEF Authenticate, Idle
    <3> HIDE DEF r
    <3> QED BY <2>1, <3>2, KeysMoveStep DEF Accepts
  <2>3. CASE AuthenticateMachine(h)
    <3> DEFINE r == [handler[h] EXCEPT !.step = "act"]
    <3>1. Step(h, r) \/ Step(h, Idle)
      BY <2>3 DEF AuthenticateMachine
    <3>2. r.step = "act"
      BY DEF Typed, TypeOK, Calls
    <3> HIDE DEF r
    <3> QED BY <2>1, <3>1, <3>2, IdleAccepts, KeysMoveStep DEF Accepts
  <2>4. CASE Step(h, Idle)
    BY <2>1, <2>4, IdleAccepts, KeysMoveStep
  <2> QED BY <1>1, <2>2, <2>3, <2>4 DEF Manage, OtherRequest, CreateToken, RevokeToken,
           RevokeSession, CreateTrust, RevokeTrust, Acts
<1>2. ASSUME NEW h \in Handlers, NEW a \in Assertions, NEW actions \in ActionChoices,
             StartExchange(h, a, actions)
      PROVE  KeyProperties'
  <2> DEFINE r == [Idle EXCEPT !.step = "keys", !.now = now, !.assertion = a, !.actions = actions]
  <2>1. Step(h, r) /\ r.step = "keys" /\ ~ r.forced /\ UNCHANGED <<now, cache, published, retired>>
    BY <1>2 DEF StartExchange, Idle
  <2> HIDE DEF r
  <2> QED BY <2>1, KeysMoveStep DEF Accepts
<1>3. ASSUME NEW h \in Handlers, FetchKeys(h) PROVE KeyProperties'
  <2> DEFINE r == [handler[h] EXCEPT !.step = "store", !.keys = published]
  <2>1. /\ Step(h, r) /\ r.step = "store" /\ r.keys = published
        /\ UNCHANGED <<now, cache, published, retired>>
    BY <1>3 DEF FetchKeys, Typed, TypeOK, Calls
  <2> HIDE DEF r
  <2> QED BY <2>1, KeysMoveStep DEF Accepts
<1>4. ASSUME NEW h \in Handlers, FetchFails(h) PROVE KeyProperties'
  <2>1. /\ cache'.key = cache.key /\ cache'.expires = cache.expires
        /\ UNCHANGED <<now, published, retired>>
        /\ \A g \in Handlers : handler'[g] = IF g = h THEN Idle ELSE handler[g]
    BY <1>4 DEF FetchFails, Step, Typed, TypeOK
  <2>2. KeysAreRecent'
    BY <2>1, IdleAccepts DEF KeyProperties, KeysAreRecent
  <2>3. \A g \in Handlers : Accepts(handler[g])'
    BY <2>1, IdleAccepts DEF KeyProperties, Accepts
  <2> QED BY <2>2, <2>3 DEF KeyProperties
<1>5. ASSUME NEW h \in Handlers, Abandon(h) \/ Mint(h) PROVE KeyProperties'
  BY <1>5, IdleAccepts, KeysMoveStep DEF Abandon, Mint
<1>6. ASSUME Tick PROVE KeyProperties'
  <2>1. now' = now + 1 /\ UNCHANGED <<cache, published, retired, handler>>
    BY <1>6 DEF Tick
  <2>2. cache.expires <= now' + Ttl
    BY <2>1, Numbers, NaturalBounds DEF KeyProperties, KeysAreRecent
  <2> QED BY <2>1, <2>2 DEF KeyProperties, KeysAreRecent, Accepts
<1>7. ASSUME UNCHANGED <<now, cache, published, retired, handler>> PROVE KeyProperties'
  BY <1>7 DEF KeyProperties, KeysAreRecent, Accepts
<1> QED BY <1>1, <1>2, <1>3, <1>4, <1>5, <1>6, <1>7, LookUpKeysStep, StoreKeysStep, RotateKeyStep
         DEF Next, vars, ExchangeAssertion, InstallBootstrap, ExchangeBootstrap

(* An assertion is only taken further with a key the provider published    *)
(* less than Ttl before the request, although fetches overlap, fail, are   *)
(* dropped and arrive out of order (keys in oidc.rs).                      *)
THEOREM AcceptedKeyIsRecentHolds == Spec => []AcceptedKeyIsRecent
<1>1. Init => KeyProperties
  <2> SUFFICES ASSUME Init PROVE KeyProperties
    OBVIOUS
  <2>1. \A k \in Keys : retired[k] = None
    BY DEF Init
  <2>2. cache.expires = 0 /\ cache.key = 0 /\ now = 0 /\ \A h \in Handlers : handler[h] = Idle
    BY DEF Init
  <2> QED BY <2>1, <2>2, IdleAccepts, NaturalBounds DEF KeyProperties, KeysAreRecent
<1> QED BY <1>1, KeyPropertiesStep, AcceptedKeyFollows, TypeCorrect, PTL DEF Spec

-----------------------------------------------------------------------------
(* Facts about the tables of requests, commands and tools.                 *)

(* The operations that a caller's retry key makes repeatable.              *)
Keyed == {"billing_checkout", "billing_portal", "request_account_export",
          "prepare_account_deletion", "complete_account_deletion"}

(* The operations whose answer is a link or credential of their own.       *)
Revealing == {"create_share", "share_file", "create_preview", "create_inbox",
              "create_yard_guest_invite", "create_api_token", "create_write_token",
              "create_local_user", "reset_local_user_login_key",
              "prepare_account_deletion", "download_account_export"}

(* The endpoint that ends an operation, where it matters which.            *)
Closing ==
  [create_share             |-> "CreateShare",
   create_preview           |-> "CreatePreview",
   create_inbox             |-> "CreateInbox",
   create_yard_guest_invite |-> "CreateYardGuestInvite",
   deploy_web_yard          |-> "FinaliseYardDeploy"]

Ends(op, e) == e # "DeviceStart" /\ (op \in DOMAIN Closing => e = Closing[op])

(* What is true of each request of an operation.                           *)
Fits(op, e) ==
  /\ e = "Logout" => op = "logout"
  /\ e \in {"DeleteWebYard", "RollbackWebYard"} => op \in {"delete_web_yard", "rollback_web_yard"}
  /\ e \in SupportsIdempotency \ {"RequestUpload"} => op \in Keyed
  /\ Reveals(e) # {} => op \in Revealing

(* What is true of all of them.                                            *)
Suits(op, r) ==
  /\ r \in Seq({r[i] : i \in DOMAIN r}) /\ r # << >>
  /\ \A i \in DOMAIN r : Fits(op, r[i].endpoint)
  /\ op \in Keyed => Len(r) = 1
  /\ Ends(op, r[Len(r)].endpoint)

(* The endpoints that Fits says something of.                              *)
Special ==
  {"Logout", "DeleteWebYard", "RollbackWebYard", "CreateBillingCheckout", "CreateBillingPortal",
   "RequestAccountExport", "PrepareAccountDeletion", "CompleteAccountDeletion", "CreateShare",
   "CreatePreview", "CreateInbox", "CreateYardGuestInvite", "CreateApiToken", "CreateLocalUser",
   "ResetLocalUserLoginKey", "DownloadAccountExport"}

LEMMA PlainFits == \A op, e : e \notin Special => Fits(op, e)
  BY DEF Fits, Special, SupportsIdempotency, Reveals

LEMMA SpecialFits ==
  /\ Fits("logout", "Logout") /\ Fits("delete_web_yard", "DeleteWebYard")
  /\ Fits("rollback_web_yard", "RollbackWebYard")
  /\ Fits("billing_checkout", "CreateBillingCheckout") /\ Fits("billing_portal", "CreateBillingPortal")
  /\ Fits("request_account_export", "RequestAccountExport")
  /\ Fits("complete_account_deletion", "CompleteAccountDeletion")
  BY DEF Fits, SupportsIdempotency, Keyed, Reveals

LEMMA RevealingFits ==
  /\ Fits("create_share", "CreateShare") /\ Fits("share_file", "CreateShare")
  /\ Fits("create_preview", "CreatePreview") /\ Fits("create_inbox", "CreateInbox")
  /\ Fits("create_yard_guest_invite", "CreateYardGuestInvite")
  /\ Fits("create_api_token", "CreateApiToken") /\ Fits("create_write_token", "CreateApiToken")
  /\ Fits("create_local_user", "CreateLocalUser")
  /\ Fits("reset_local_user_login_key", "ResetLocalUserLoginKey")
  /\ Fits("prepare_account_deletion", "PrepareAccountDeletion")
  /\ Fits("download_account_export", "DownloadAccountExport")
  BY DEF Fits, SupportsIdempotency, Keyed, Revealing

LEMMA OneSuits ==
  ASSUME NEW op, NEW e, NEW always, NEW maybe, Fits(op, e), Ends(op, e)
  PROVE  Suits(op, One(e, always, maybe))
  BY DEF Suits, One, Request

LEMMA PairSuits ==
  ASSUME NEW op, NEW e, NEW always, NEW maybe, Fits(op, e), Ends(op, e), op \notin Keyed
  PROVE  Suits(op, OnYard(e, always, maybe))
<1>1. Fits(op, "ListWebYards")
  BY PlainFits DEF Special
<1> QED BY <1>1 DEF Suits, OnYard, Request

LEMMA UploadsSuit ==
  ASSUME NEW op, op \notin Keyed
  PROVE  op \notin DOMAIN Closing => Suits(op, UploadRequests)
<1>1. Fits(op, "RequestUpload") /\ Fits(op, "CompleteUpload")
  BY PlainFits DEF Special
<1>2. ~("CompleteUpload" = "DeviceStart")
  OBVIOUS
<1>3. op \notin DOMAIN Closing => Ends(op, "CompleteUpload")
  BY <1>2 DEF Ends
<1> QED BY <1>1, <1>3 DEF Suits, UploadRequests, Request

(* Requests in a row.                                                      *)
LEMMA JoinSuits ==
  ASSUME NEW op, op \notin Keyed, NEW r, NEW s, Suits(op, s),
         r \in Seq({r[i] : i \in DOMAIN r}), \A i \in DOMAIN r : Fits(op, r[i].endpoint)
  PROVE  Suits(op, r \o s)
<1> DEFINE R == {r[i] : i \in DOMAIN r} \cup {s[i] : i \in DOMAIN s}
           t == r \o s
<1>1. r \in Seq(R) /\ s \in Seq(R)
  BY DEF Suits
<1>2. /\ t \in Seq(R) /\ Len(t) = Len(r) + Len(s)
      /\ \A i \in 1 .. Len(r) + Len(s) : t[i] = IF i <= Len(r) THEN r[i] ELSE s[i - Len(r)]
  <2> HIDE DEF R
  <2> QED BY <1>1, ConcatProperties
<1>3. Len(r) \in Nat /\ Len(s) \in Nat \ {0} /\ DOMAIN r = 1 .. Len(r) /\ DOMAIN s = 1 .. Len(s)
      /\ DOMAIN t = 1 .. Len(t)
  BY <1>1, <1>2 DEF Suits
<1> HIDE DEF R, t
<1>4. t \in Seq({t[i] : i \in DOMAIN t}) /\ t # << >>
  BY <1>2, <1>3, SeqOfRange DEF Range
<1>5. \A i \in DOMAIN t : Fits(op, t[i].endpoint)
  <2> SUFFICES ASSUME NEW i \in DOMAIN t PROVE Fits(op, t[i].endpoint)
    OBVIOUS
  <2>1. CASE i <= Len(r)
    BY <1>2, <1>3, <2>1
  <2>2. CASE ~(i <= Len(r))
    <3>1. i - Len(r) \in DOMAIN s /\ t[i] = s[i - Len(r)]
      BY <1>2, <1>3, <2>2
    <3> QED BY <3>1 DEF Suits
  <2> QED BY <2>1, <2>2
<1>6. t[Len(t)] = s[Len(s)]
  BY <1>2, <1>3
<1>7. Suits(op, t)
  BY <1>4, <1>5, <1>6 DEF Suits
<1> QED BY <1>7 DEF t

LEMMA UploadsFit ==
  ASSUME NEW op
  PROVE  /\ UploadRequests \in Seq({UploadRequests[i] : i \in DOMAIN UploadRequests})
         /\ \A i \in DOMAIN UploadRequests : Fits(op, UploadRequests[i].endpoint)
<1>1. Fits(op, "RequestUpload") /\ Fits(op, "CompleteUpload")
  BY PlainFits DEF Special
<1> QED BY <1>1 DEF UploadRequests, Request

LEMMA ResourceRequestsSuit == \A op \in DOMAIN ResourceRequests : Suits(op, ResourceRequests[op])
<1>1. DOMAIN ResourceRequests =
       {"whoami", "list_workspaces", "create_workspace", "rename_workspace",
        "list_projects", "create_project", "list_objects", "delete_object",
        "upload_file", "download_file"}
  BY DEF ResourceRequests
<1> QED BY <1>1, OneSuits, PairSuits, PlainFits, SpecialFits, RevealingFits, UploadsSuit DEF ResourceRequests, Keyed, Special, Ends, Closing

LEMMA SharingRequestsSuit == \A op \in DOMAIN SharingRequests : Suits(op, SharingRequests[op])
<1>1. DOMAIN SharingRequests =
       {"create_share", "share_file", "list_shares", "revoke_share", "create_inbox",
        "list_inboxes", "revoke_inbox"}
  BY DEF SharingRequests
<1>2. Suits("share_file", SharingRequests.share_file)
  <2>1. Suits("share_file", One("CreateShare", {"target"}, [expires |-> "expires", notify |-> "notify"]))
    BY OneSuits, RevealingFits DEF Ends, Closing
  <2> QED BY <2>1, UploadsFit, JoinSuits DEF SharingRequests, Keyed
<1>3. ASSUME NEW op \in DOMAIN SharingRequests, op # "share_file"
      PROVE  Suits(op, SharingRequests[op])
  <2>1. CASE op = "create_share"
    BY <2>1, OneSuits, RevealingFits DEF SharingRequests, Ends, Closing
  <2>2. CASE op = "create_inbox"
    BY <2>2, OneSuits, RevealingFits DEF SharingRequests, Ends, Closing
  <2>3. CASE op \notin {"create_share", "create_inbox"}
    <3>1. op \notin DOMAIN Closing
      BY <1>1, <1>3, <2>3 DEF Closing
    <3>2. \A e, always, maybe : e \notin Special /\ e # "DeviceStart" => Suits(op, One(e, always, maybe))
      BY <3>1, OneSuits, PlainFits DEF Ends
    <3>3. op \in {"list_shares", "revoke_share", "list_inboxes", "revoke_inbox"}
      BY <1>1, <1>3, <2>3
    <3>4. \A e \in {"ListShares", "RevokeShare", "ListInboxes", "RevokeInbox"} :
            e \notin Special /\ e # "DeviceStart"
      BY DEF Special
    <3> QED BY <3>2, <3>3, <3>4 DEF SharingRequests
  <2> QED BY <2>1, <2>2, <2>3
<1> QED BY <1>2, <1>3

LEMMA RetentionRequestsSuit == \A op \in DOMAIN RetentionRequests : Suits(op, RetentionRequests[op])
<1>1. DOMAIN RetentionRequests =
       {"get_retention", "get_retention_overview", "set_retention",
        "clear_retention"}
  BY DEF RetentionRequests
<1> QED BY <1>1, OneSuits, PairSuits, PlainFits, SpecialFits, RevealingFits, UploadsSuit DEF RetentionRequests, Keyed, Special, Ends, Closing

LEMMA PreviewRequestsSuit == \A op \in DOMAIN PreviewRequests : Suits(op, PreviewRequests[op])
<1>1. DOMAIN PreviewRequests =
       {"create_preview", "list_previews", "revoke_preview"}
  BY DEF PreviewRequests
<1>2. Suits("create_preview", PreviewRequests.create_preview)
  <2>1. Suits("create_preview",
              One("CreatePreview", Scoped \cup {"manifestId"}, [expires |-> "expires"]))
    BY OneSuits, RevealingFits DEF Ends, Closing
  <2> QED BY <2>1, UploadsFit, JoinSuits DEF PreviewRequests, Keyed
<1>3. ASSUME NEW op \in DOMAIN PreviewRequests, op # "create_preview"
      PROVE  Suits(op, PreviewRequests[op])
  BY <1>1, <1>3, OneSuits, PlainFits DEF PreviewRequests, Special, Ends, Closing
<1> QED BY <1>2, <1>3

LEMMA YardRequestsSuit == \A op \in DOMAIN YardRequests : Suits(op, YardRequests[op])
<1>1. DOMAIN YardRequests =
       {"deploy_web_yard", "list_web_yards", "show_yard", "list_yard_deploys",
        "rollback_web_yard", "delete_web_yard", "list_yard_environments"}
  BY DEF YardRequests
<1>2. Suits("deploy_web_yard", YardRequests.deploy_web_yard)
  <2> DEFINE start == One("StartYardDeploy", Scoped \cup {"name", "clientDeployId", "spa",
                                                         "cleanUrls", "public"}, Nothing)
             finish == One("FinaliseYardDeploy", {"deployId"}, Nothing)
  <2>1. /\ start \in Seq({start[i] : i \in DOMAIN start})
        /\ \A i \in DOMAIN start : Fits("deploy_web_yard", start[i].endpoint)
    BY PlainFits DEF Special, One, Request
  <2>2. Suits("deploy_web_yard", finish)
    BY OneSuits, PlainFits DEF Special, Ends, Closing
  <2>3. YardRequests.deploy_web_yard = (start \o UploadRequests) \o finish
    BY DEF YardRequests
  <2> HIDE DEF start, finish
  <2>4. Suits("deploy_web_yard", UploadRequests \o finish)
    BY <2>2, UploadsFit, JoinSuits DEF Keyed
  <2>5. Suits("deploy_web_yard", start \o (UploadRequests \o finish))
    BY <2>1, <2>4, JoinSuits DEF Keyed
  <2>6. (start \o UploadRequests) \o finish = start \o (UploadRequests \o finish)
    <3> DEFINE A == {start[i] : i \in DOMAIN start}
               B == {UploadRequests[i] : i \in DOMAIN UploadRequests}
               C == {finish[i] : i \in DOMAIN finish}
    <3>1. start \in Seq(A) /\ UploadRequests \in Seq(B) /\ finish \in Seq(C)
      BY <2>1, <2>2, UploadsFit DEF Suits
    <3> HIDE DEF A, B, C
    <3>2. start \in Seq(A \cup B \cup C) /\ UploadRequests \in Seq(A \cup B \cup C)
          /\ finish \in Seq(A \cup B \cup C)
      BY <3>1, SeqMonotonic
    <3> QED BY <3>2, ConcatAssociative
  <2> QED BY <2>3, <2>5, <2>6
<1>3. ASSUME NEW op \in DOMAIN YardRequests, op # "deploy_web_yard"
      PROVE  Suits(op, YardRequests[op])
  <2>1. op \notin DOMAIN Closing /\ op \notin Keyed
    BY <1>1, <1>3 DEF Closing, Keyed
  <2>2. CASE op = "rollback_web_yard"
    BY <2>1, <2>2, PairSuits, SpecialFits DEF YardRequests, Ends
  <2>3. CASE op = "delete_web_yard"
    BY <2>1, <2>3, PairSuits, SpecialFits DEF YardRequests, Ends
  <2>4. CASE op \notin {"rollback_web_yard", "delete_web_yard"}
    BY <1>1, <1>3, <2>1, <2>4, OneSuits, PairSuits, PlainFits DEF YardRequests, Special, Ends
  <2> QED BY <2>2, <2>3, <2>4
<1> QED BY <1>2, <1>3

LEMMA AccessRequestsSuit == \A op \in DOMAIN AccessRequests : Suits(op, AccessRequests[op])
<1>1. DOMAIN AccessRequests =
       {"get_yard_access", "set_yard_visibility", "grant_yard_access",
        "revoke_yard_access", "set_yard_access_roles"}
  BY DEF AccessRequests
<1> QED BY <1>1, OneSuits, PairSuits, PlainFits, SpecialFits, RevealingFits, UploadsSuit DEF AccessRequests, Keyed, Special, Ends, Closing

LEMMA GuestInviteRequestsSuit == \A op \in DOMAIN GuestInviteRequests : Suits(op, GuestInviteRequests[op])
<1>1. DOMAIN GuestInviteRequests =
       {"list_yard_guest_invites", "create_yard_guest_invite",
        "revoke_yard_guest_invite"}
  BY DEF GuestInviteRequests
<1> QED BY <1>1, OneSuits, PairSuits, PlainFits, SpecialFits, RevealingFits, UploadsSuit DEF GuestInviteRequests, Keyed, Special, Ends, Closing

LEMMA IdentityRequestsSuit == \A op \in DOMAIN IdentityRequests : Suits(op, IdentityRequests[op])
<1>1. DOMAIN IdentityRequests =
       {"list_yard_management_roles", "set_yard_management_role",
        "revoke_yard_management_role", "get_yard_application_policy",
        "set_yard_application_policy"}
  BY DEF IdentityRequests
<1> QED BY <1>1, OneSuits, PairSuits, PlainFits, SpecialFits, RevealingFits, UploadsSuit DEF IdentityRequests, Keyed, Special, Ends, Closing

LEMMA YardSessionRequestsSuit == \A op \in DOMAIN YardSessionRequests : Suits(op, YardSessionRequests[op])
<1>1. DOMAIN YardSessionRequests =
       {"list_yard_sessions", "revoke_yard_session"}
  BY DEF YardSessionRequests
<1> QED BY <1>1, OneSuits, PairSuits, PlainFits, SpecialFits, RevealingFits, UploadsSuit DEF YardSessionRequests, Keyed, Special, Ends, Closing

LEMMA AdminRequestsSuit == \A op \in DOMAIN AdminRequests : Suits(op, AdminRequests[op])
<1>1. DOMAIN AdminRequests =
       {"list_audit", "list_members", "list_invites", "create_invite",
        "revoke_invite", "update_member_role", "remove_member", "list_local_users",
        "deactivate_local_user", "list_api_tokens", "revoke_api_token",
        "list_ci_trusts", "create_ci_trust", "revoke_ci_trust", "list_cli_sessions",
        "revoke_cli_session"}
  BY DEF AdminRequests
<1> QED BY <1>1, OneSuits, PairSuits, PlainFits, SpecialFits, RevealingFits, UploadsSuit DEF AdminRequests, Keyed, Special, Ends, Closing

LEMMA GroupRequestsSuit == \A op \in DOMAIN GroupRequests : Suits(op, GroupRequests[op])
<1>1. DOMAIN GroupRequests =
       {"list_groups", "create_group", "rename_group", "list_group_members",
        "add_group_member", "remove_group_member", "deactivate_group"}
  BY DEF GroupRequests
<1> QED BY <1>1, OneSuits, PairSuits, PlainFits, SpecialFits, RevealingFits, UploadsSuit DEF GroupRequests, Keyed, Special, Ends, Closing

LEMMA TokenRequestsSuit == \A op \in DOMAIN TokenRequests : Suits(op, TokenRequests[op])
<1>1. DOMAIN TokenRequests =
       {"create_api_token", "create_write_token"}
  BY DEF TokenRequests
<1> QED BY <1>1, OneSuits, PairSuits, PlainFits, SpecialFits, RevealingFits, UploadsSuit DEF TokenRequests, Keyed, Special, Ends, Closing

LEMMA UserRequestsSuit == \A op \in DOMAIN UserRequests : Suits(op, UserRequests[op])
<1>1. DOMAIN UserRequests =
       {"create_local_user", "reset_local_user_login_key"}
  BY DEF UserRequests
<1> QED BY <1>1, OneSuits, PairSuits, PlainFits, SpecialFits, RevealingFits, UploadsSuit DEF UserRequests, Keyed, Special, Ends, Closing

LEMMA BillingRequestsSuit == \A op \in DOMAIN BillingRequests : Suits(op, BillingRequests[op])
<1>1. DOMAIN BillingRequests =
       {"get_billing", "billing_checkout", "billing_portal", "billing_update",
        "storage_checkout", "storage_update"}
  BY DEF BillingRequests
<1> QED BY <1>1, OneSuits, PairSuits, PlainFits, SpecialFits, RevealingFits, UploadsSuit DEF BillingRequests, Keyed, Special, Ends, Closing

LEMMA AccountRequestsSuit == \A op \in DOMAIN AccountRequests : Suits(op, AccountRequests[op])
<1>1. DOMAIN AccountRequests =
       {"request_account_export", "get_account_export", "download_account_export",
        "get_account_deletion", "prepare_account_deletion",
        "complete_account_deletion", "retry_account_deletion"}
  BY DEF AccountRequests
<1> QED BY <1>1, OneSuits, PairSuits, PlainFits, SpecialFits, RevealingFits, UploadsSuit DEF AccountRequests, Keyed, Special, Ends, Closing

LEMMA SessionRequestsSuit == \A op \in DOMAIN SessionRequests : Suits(op, SessionRequests[op])
<1>1. DOMAIN SessionRequests =
       {"logout", "login"}
  BY DEF SessionRequests
<1>2. Suits("login", SessionRequests.login)
  <2> DEFINE start == One("DeviceStart", {"name", "platform", "version"}, Nothing)
             poll == One("DevicePoll", {"deviceCode"}, Nothing)
  <2>1. Suits("login", poll)
    BY OneSuits, PlainFits DEF Special, Ends, Closing
  <2>2. SessionRequests.login = start \o poll
    BY DEF SessionRequests
  <2>3. start \in Seq({start[i] : i \in DOMAIN start})
        /\ \A i \in DOMAIN start : Fits("login", start[i].endpoint)
    BY PlainFits DEF Special, One, Request
  <2> HIDE DEF start, poll
  <2> QED BY <2>1, <2>2, <2>3, JoinSuits DEF Keyed
<1>3. Suits("logout", SessionRequests.logout)
  BY OneSuits, SpecialFits DEF SessionRequests, Ends, Closing
<1> QED BY <1>1, <1>2, <1>3

(* An entry of merged tables is an entry of one of them.                   *)
LEMMA MergePicks ==
  ASSUME NEW tables, NEW x \in DOMAIN Merge(tables)
  PROVE  \E t \in tables : x \in DOMAIN t /\ Merge(tables)[x] = t[x]
  BY DEF Merge

LEMMA RequestsSuit == \A op \in Operations : Suits(op, Requests[op])
<1> SUFFICES ASSUME NEW op \in Operations PROVE Suits(op, Requests[op])
  OBVIOUS
<1>1. \E t \in {ResourceRequests, SharingRequests, RetentionRequests, PreviewRequests,
           YardRequests, AccessRequests, GuestInviteRequests, IdentityRequests,
           YardSessionRequests, AdminRequests, GroupRequests, TokenRequests,
           UserRequests, BillingRequests, AccountRequests, SessionRequests} :
        op \in DOMAIN t /\ Requests[op] = t[op]
  BY MergePicks DEF Operations, Requests
<1> QED BY <1>1, ResourceRequestsSuit, SharingRequestsSuit, RetentionRequestsSuit,
           PreviewRequestsSuit, YardRequestsSuit, AccessRequestsSuit, GuestInviteRequestsSuit,
           IdentityRequestsSuit, YardSessionRequestsSuit, AdminRequestsSuit, GroupRequestsSuit,
           TokenRequestsSuit, UserRequestsSuit, BillingRequestsSuit, AccountRequestsSuit,
           SessionRequestsSuit

(* Deleting and rolling back a yard take its name, from a person as from   *)
(* an agent.                                                               *)
Risky == {"delete_web_yard", "rollback_web_yard"}

LEMMA CommandsNameTheYard ==
  \A op \in DOMAIN Commands \cap Risky : "yard" \in Commands[op].requires \cap Commands[op].accepts
<1> SUFFICES ASSUME NEW op \in DOMAIN Commands, op \in Risky
             PROVE  "yard" \in Commands[op].requires \cap Commands[op].accepts
  OBVIOUS
<1>1. \E t \in {ResourceCommands, LinkCommands, WorkspaceCommands, MemberCommands,
           TrustCommands, AccessCommands, IdentityCommands, YardCommands,
           AccountCommands, BillingCommands} :
        op \in DOMAIN t /\ Commands[op] = t[op]
  BY MergePicks DEF Commands
<1>2. /\ op \notin DOMAIN ResourceCommands /\ op \notin DOMAIN LinkCommands
      /\ op \notin DOMAIN WorkspaceCommands /\ op \notin DOMAIN MemberCommands
      /\ op \notin DOMAIN TrustCommands
  BY DEF Risky, ResourceCommands, LinkCommands, WorkspaceCommands, MemberCommands, TrustCommands
<1>3. /\ op \notin DOMAIN AccessCommands /\ op \notin DOMAIN IdentityCommands
      /\ op \notin DOMAIN AccountCommands /\ op \notin DOMAIN BillingCommands
  BY DEF Risky, AccessCommands, IdentityCommands, AccountCommands, BillingCommands
<1>4. "yard" \in YardCommands[op].requires \cap YardCommands[op].accepts
  BY DEF Risky, YardCommands, Args
<1> QED BY <1>1, <1>2, <1>3, <1>4

LEMMA ToolsNameTheYard ==
  \A op \in Risky : op \in DOMAIN Tools /\ "yard" \in Tools[op].requires
<1> SUFFICES ASSUME NEW op \in Risky
             PROVE  op \in DOMAIN Tools /\ "yard" \in Tools[op].requires
  OBVIOUS
<1>0. op \in DOMAIN Tools
  <2>1. op \in DOMAIN YardTools
    BY DEF Risky, YardTools
  <2> QED BY <2>1 DEF Tools, Merge
<1>1. \E t \in {RegularTools, AdminTools, GroupTools, DashboardTools, YardTools,
           IdentityTools, GuestInviteTools} :
        op \in DOMAIN t /\ Tools[op] = t[op]
  BY <1>0, MergePicks DEF Tools
<1>2. /\ op \notin DOMAIN RegularTools /\ op \notin DOMAIN AdminTools
      /\ op \notin DOMAIN GroupTools /\ op \notin DOMAIN DashboardTools
      /\ op \notin DOMAIN IdentityTools /\ op \notin DOMAIN GuestInviteTools
  BY DEF Risky, RegularTools, AdminTools, GroupTools, DashboardTools, IdentityTools,
         GuestInviteTools
<1>3. "yard" \in YardTools[op].requires
  BY DEF Risky, YardTools, Args, Confirmed
<1> QED BY <1>0, <1>1, <1>2, <1>3

(* What no agent can call.                                                 *)
LEMMA NoSuchTools ==
  \A op \in DOMAIN Catalog :
    op \notin {"share_file", "create_api_token", "create_write_token", "create_local_user",
               "reset_local_user_login_key", "prepare_account_deletion",
               "download_account_export"}
<1> SUFFICES ASSUME NEW op \in DOMAIN Catalog
    PROVE op \notin {"share_file", "create_api_token", "create_write_token", "create_local_user",
               "reset_local_user_login_key", "prepare_account_deletion",
               "download_account_export"}
  OBVIOUS
<1>1. \E t \in {CatalogRegular, CatalogAccess, CatalogIdentity, CatalogAdmin, CatalogGroups,
           CatalogDashboard} : op \in DOMAIN t
  BY MergePicks DEF Catalog
<1> QED BY <1>1 DEF CatalogRegular, CatalogAccess, CatalogIdentity, CatalogAdmin, CatalogGroups,
           CatalogDashboard

(* What an agent is shown of the answer to its call's last request is the  *)
(* link that the call issues.                                              *)
LEMMA OneLinkShown ==
  ASSUME NEW op \in DOMAIN Catalog, op \in Operations
  PROVE  {f \in Reveals(Requests[op][Len(Requests[op])].endpoint) : ~Sensitive(f, Issued(op))}
           = {Issued(op)} \ {Absent}
<1> DEFINE e == Requests[op][Len(Requests[op])].endpoint
<1> DEFINE r == Requests[op]
<1>1. Fits(op, e) /\ Ends(op, e)
  <2>1. Suits(op, r) /\ e = r[Len(r)].endpoint
    BY RequestsSuit
  <2> HIDE DEF r, e
  <2>2. Len(r) \in DOMAIN r
    BY <2>1 DEF Suits
  <2> QED BY <2>1, <2>2 DEF Suits
<1> SUFFICES {f \in Reveals(e) : ~Sensitive(f, Issued(op))} = {Issued(op)} \ {Absent}
  OBVIOUS
<1> HIDE DEF e
<1>2. CASE op \in Revealing
  <2>1. op \in {"create_share", "create_preview", "create_inbox", "create_yard_guest_invite"}
    BY <1>2, NoSuchTools DEF Revealing
  <2>2. Absent \notin {"shareUrl", "previewUrl", "inboxUrl", "invitationUrl"}
    BY ClientsAssumption
  <2>3. CASE op = "create_share"
    <3>1. e = "CreateShare"
      BY <1>1, <2>3 DEF Ends, Closing
    <3>2. Reveals(e) = {"shareUrl"}
      BY <3>1 DEF Reveals
    <3>3. Issued(op) = "shareUrl"
      BY <2>3 DEF Issued
    <3>4. ~Sensitive("shareUrl", "shareUrl")
      BY DEF Sensitive
    <3> QED BY <2>2, <3>2, <3>3, <3>4
  <2>4. CASE op = "create_preview"
    <3>1. e = "CreatePreview"
      BY <1>1, <2>4 DEF Ends, Closing
    <3>2. Reveals(e) = {"previewUrl"}
      BY <3>1 DEF Reveals
    <3>3. Issued(op) = "previewUrl"
      BY <2>4 DEF Issued
    <3>4. ~Sensitive("previewUrl", "previewUrl")
      BY DEF Sensitive
    <3> QED BY <2>2, <3>2, <3>3, <3>4
  <2>5. CASE op = "create_inbox"
    <3>1. e = "CreateInbox"
      BY <1>1, <2>5 DEF Ends, Closing
    <3>2. Reveals(e) = {"inboxUrl"}
      BY <3>1 DEF Reveals
    <3>3. Issued(op) = "inboxUrl"
      BY <2>5 DEF Issued
    <3>4. ~Sensitive("inboxUrl", "inboxUrl")
      BY DEF Sensitive
    <3> QED BY <2>2, <3>2, <3>3, <3>4
  <2>6. CASE op = "create_yard_guest_invite"
    <3>1. e = "CreateYardGuestInvite"
      BY <1>1, <2>6 DEF Ends, Closing
    <3>2. Reveals(e) = {"invitationUrl"}
      BY <3>1 DEF Reveals
    <3>3. Issued(op) = "invitationUrl"
      BY <2>6 DEF Issued
    <3>4. ~Sensitive("invitationUrl", "invitationUrl")
      BY DEF Sensitive
    <3> QED BY <2>2, <3>2, <3>3, <3>4
  <2> QED BY <2>1, <2>3, <2>4, <2>5, <2>6
<1>3. CASE op \notin Revealing
  <2>1. Reveals(e) = {}
    BY <1>1, <1>3 DEF Fits
  <2>2. Issued(op) = Absent
    BY <1>3 DEF Revealing, Issued
  <2> QED BY <2>1, <2>2
<1> QED BY <1>2, <1>3

-----------------------------------------------------------------------------
(* Every operation of a command or a tool has its requests.                *)

OperationNames ==
  {"whoami", "list_workspaces", "create_workspace", "rename_workspace",
   "list_projects", "create_project", "list_objects", "delete_object",
   "upload_file", "download_file", "create_share", "share_file", "list_shares",
   "revoke_share", "create_inbox", "list_inboxes", "revoke_inbox", "get_retention",
   "get_retention_overview", "set_retention", "clear_retention", "create_preview",
   "list_previews", "revoke_preview", "deploy_web_yard", "list_web_yards",
   "show_yard", "list_yard_deploys", "rollback_web_yard", "delete_web_yard",
   "list_yard_environments", "get_yard_access", "set_yard_visibility",
   "grant_yard_access", "revoke_yard_access", "set_yard_access_roles",
   "list_yard_guest_invites", "create_yard_guest_invite",
   "revoke_yard_guest_invite", "list_yard_management_roles",
   "set_yard_management_role", "revoke_yard_management_role",
   "get_yard_application_policy", "set_yard_application_policy",
   "list_yard_sessions", "revoke_yard_session", "list_audit", "list_members",
   "list_invites", "create_invite", "revoke_invite", "update_member_role",
   "remove_member", "list_local_users", "deactivate_local_user", "list_api_tokens",
   "revoke_api_token", "list_ci_trusts", "create_ci_trust", "revoke_ci_trust",
   "list_cli_sessions", "revoke_cli_session", "list_groups", "create_group",
   "rename_group", "list_group_members", "add_group_member", "remove_group_member",
   "deactivate_group", "create_api_token", "create_write_token",
   "create_local_user", "reset_local_user_login_key", "get_billing",
   "billing_checkout", "billing_portal", "billing_update", "storage_checkout",
   "storage_update", "request_account_export", "get_account_export",
   "download_account_export", "get_account_deletion", "prepare_account_deletion",
   "complete_account_deletion", "retry_account_deletion", "logout", "login"}

LEMMA RequestsCover == OperationNames \subseteq Operations
<1>1. {"whoami", "list_workspaces", "create_workspace", "rename_workspace",
     "list_projects", "create_project", "list_objects", "delete_object",
     "upload_file", "download_file"} \subseteq Operations
  <2>1. DOMAIN ResourceRequests \subseteq Operations
    BY DEF Operations, Requests, Merge
  <2> QED BY <2>1 DEF ResourceRequests
<1>2. {"create_share", "share_file", "list_shares", "revoke_share", "create_inbox",
     "list_inboxes", "revoke_inbox"} \subseteq Operations
  <2>1. DOMAIN SharingRequests \subseteq Operations
    BY DEF Operations, Requests, Merge
  <2> QED BY <2>1 DEF SharingRequests
<1>3. {"get_retention", "get_retention_overview", "set_retention", "clear_retention"} \subseteq Operations
  <2>1. DOMAIN RetentionRequests \subseteq Operations
    BY DEF Operations, Requests, Merge
  <2> QED BY <2>1 DEF RetentionRequests
<1>4. {"create_preview", "list_previews", "revoke_preview"} \subseteq Operations
  <2>1. DOMAIN PreviewRequests \subseteq Operations
    BY DEF Operations, Requests, Merge
  <2> QED BY <2>1 DEF PreviewRequests
<1>5. {"deploy_web_yard", "list_web_yards", "show_yard", "list_yard_deploys",
     "rollback_web_yard", "delete_web_yard", "list_yard_environments"} \subseteq Operations
  <2>1. DOMAIN YardRequests \subseteq Operations
    BY DEF Operations, Requests, Merge
  <2> QED BY <2>1 DEF YardRequests
<1>6. {"get_yard_access", "set_yard_visibility", "grant_yard_access",
     "revoke_yard_access", "set_yard_access_roles"} \subseteq Operations
  <2>1. DOMAIN AccessRequests \subseteq Operations
    BY DEF Operations, Requests, Merge
  <2> QED BY <2>1 DEF AccessRequests
<1>7. {"list_yard_guest_invites", "create_yard_guest_invite",
     "revoke_yard_guest_invite"} \subseteq Operations
  <2>1. DOMAIN GuestInviteRequests \subseteq Operations
    BY DEF Operations, Requests, Merge
  <2> QED BY <2>1 DEF GuestInviteRequests
<1>8. {"list_yard_management_roles", "set_yard_management_role",
     "revoke_yard_management_role", "get_yard_application_policy",
     "set_yard_application_policy"} \subseteq Operations
  <2>1. DOMAIN IdentityRequests \subseteq Operations
    BY DEF Operations, Requests, Merge
  <2> QED BY <2>1 DEF IdentityRequests
<1>9. {"list_yard_sessions", "revoke_yard_session"} \subseteq Operations
  <2>1. DOMAIN YardSessionRequests \subseteq Operations
    BY DEF Operations, Requests, Merge
  <2> QED BY <2>1 DEF YardSessionRequests
<1>10. {"list_audit", "list_members", "list_invites", "create_invite", "revoke_invite",
     "update_member_role", "remove_member", "list_local_users",
     "deactivate_local_user", "list_api_tokens", "revoke_api_token",
     "list_ci_trusts", "create_ci_trust", "revoke_ci_trust", "list_cli_sessions",
     "revoke_cli_session"} \subseteq Operations
  <2>1. DOMAIN AdminRequests \subseteq Operations
    BY DEF Operations, Requests, Merge
  <2> QED BY <2>1 DEF AdminRequests
<1>11. {"list_groups", "create_group", "rename_group", "list_group_members",
     "add_group_member", "remove_group_member", "deactivate_group"} \subseteq Operations
  <2>1. DOMAIN GroupRequests \subseteq Operations
    BY DEF Operations, Requests, Merge
  <2> QED BY <2>1 DEF GroupRequests
<1>12. {"create_api_token", "create_write_token"} \subseteq Operations
  <2>1. DOMAIN TokenRequests \subseteq Operations
    BY DEF Operations, Requests, Merge
  <2> QED BY <2>1 DEF TokenRequests
<1>13. {"create_local_user", "reset_local_user_login_key"} \subseteq Operations
  <2>1. DOMAIN UserRequests \subseteq Operations
    BY DEF Operations, Requests, Merge
  <2> QED BY <2>1 DEF UserRequests
<1>14. {"get_billing", "billing_checkout", "billing_portal", "billing_update",
     "storage_checkout", "storage_update"} \subseteq Operations
  <2>1. DOMAIN BillingRequests \subseteq Operations
    BY DEF Operations, Requests, Merge
  <2> QED BY <2>1 DEF BillingRequests
<1>15. {"request_account_export", "get_account_export", "download_account_export",
     "get_account_deletion", "prepare_account_deletion",
     "complete_account_deletion", "retry_account_deletion"} \subseteq Operations
  <2>1. DOMAIN AccountRequests \subseteq Operations
    BY DEF Operations, Requests, Merge
  <2> QED BY <2>1 DEF AccountRequests
<1>16. {"logout", "login"} \subseteq Operations
  <2>1. DOMAIN SessionRequests \subseteq Operations
    BY DEF Operations, Requests, Merge
  <2> QED BY <2>1 DEF SessionRequests
<1> QED BY <1>1, <1>2, <1>3, <1>4, <1>5, <1>6, <1>7, <1>8, <1>9, <1>10, <1>11,
           <1>12, <1>13, <1>14, <1>15, <1>16 DEF OperationNames

LEMMA CommandsCover == DOMAIN Commands \subseteq Operations
<1>1. DOMAIN ResourceCommands \subseteq OperationNames
  BY DEF ResourceCommands, OperationNames
<1>2. DOMAIN LinkCommands \subseteq OperationNames
  BY DEF LinkCommands, OperationNames
<1>3. DOMAIN WorkspaceCommands \subseteq OperationNames
  BY DEF WorkspaceCommands, OperationNames
<1>4. DOMAIN MemberCommands \subseteq OperationNames
  BY DEF MemberCommands, OperationNames
<1>5. DOMAIN TrustCommands \subseteq OperationNames
  BY DEF TrustCommands, OperationNames
<1>6. DOMAIN AccessCommands \subseteq OperationNames
  BY DEF AccessCommands, OperationNames
<1>7. DOMAIN IdentityCommands \subseteq OperationNames
  BY DEF IdentityCommands, OperationNames
<1>8. DOMAIN YardCommands \subseteq OperationNames
  BY DEF YardCommands, OperationNames
<1>9. DOMAIN AccountCommands \subseteq OperationNames
  BY DEF AccountCommands, OperationNames
<1>10. DOMAIN BillingCommands \subseteq OperationNames
  BY DEF BillingCommands, OperationNames
<1>11. DOMAIN Commands = UNION {DOMAIN t : t \in {ResourceCommands, LinkCommands, WorkspaceCommands, MemberCommands,
        TrustCommands, AccessCommands, IdentityCommands, YardCommands,
        AccountCommands, BillingCommands}}
  BY DEF Commands, Merge
<1> QED BY <1>1, <1>2, <1>3, <1>4, <1>5, <1>6, <1>7, <1>8, <1>9, <1>10, <1>11, RequestsCover

LEMMA CatalogCover == DOMAIN Catalog \subseteq Operations
<1>1. DOMAIN CatalogRegular \subseteq OperationNames
  BY DEF CatalogRegular, OperationNames
<1>2. DOMAIN CatalogAccess \subseteq OperationNames
  BY DEF CatalogAccess, OperationNames
<1>3. DOMAIN CatalogIdentity \subseteq OperationNames
  BY DEF CatalogIdentity, OperationNames
<1>4. DOMAIN CatalogAdmin \subseteq OperationNames
  BY DEF CatalogAdmin, OperationNames
<1>5. DOMAIN CatalogGroups \subseteq OperationNames
  BY DEF CatalogGroups, OperationNames
<1>6. DOMAIN CatalogDashboard \subseteq OperationNames
  BY DEF CatalogDashboard, OperationNames
<1>7. DOMAIN Catalog = UNION {DOMAIN t : t \in {CatalogRegular, CatalogAccess, CatalogIdentity, CatalogAdmin, CatalogGroups,
        CatalogDashboard}}
  BY DEF Catalog, Merge
<1> QED BY <1>1, <1>2, <1>3, <1>4, <1>5, <1>6, <1>7, RequestsCover

-----------------------------------------------------------------------------
(* Calls.                                                                  *)

CallFields ==
  {"at", "surface", "op", "args", "obeys", "profile", "env", "key", "token", "yard", "id", "todo",
   "left", "failing", "bad", "touched", "shown", "outcome"}

Running == {"load", "refresh", "save", "send"}
Adding == {"exchange", "keep_home", "write"}
Holding == {"save", "keep", "keep_home"}
Resources == {"whoami", "list_objects", "get_retention"}

Final(op) == Requests[op][Len(Requests[op])].endpoint

(* What is still to be sent leads to the end of the operation.             *)
Leads(c) ==
  /\ c.op \in Operations
  /\ c.left \in Seq({c.left[i] : i \in DOMAIN c.left}) /\ c.left # << >>
  /\ \A i \in DOMAIN c.left : Fits(c.op, c.left[i].endpoint)
  /\ c.failing => /\ c.op = "deploy_web_yard"
                  /\ c.left[Len(c.left)].endpoint = "FailYardDeploy"
  /\ ~c.failing => c.left[Len(c.left)].endpoint = Final(c.op)

(* A call by itself.                                                       *)
Sound(c) ==
  /\ DOMAIN c = CallFields
  /\ c.at \in {"idle", "answered", "forget", "keep"} \cup Running \cup Adding
  /\ c.at \in Running => /\ Leads(c) /\ c.profile \in {"cloud", "home"}
                         /\ c.op \in Risky => c.yard # Absent
  /\ c.at \in {"refresh", "save"} => c.profile = "cloud"
  /\ c.at = "keep" => c.op = "login"
  /\ c.at = "forget" => c.op = "logout" /\ c.profile = "cloud"
  /\ c.at \in Adding => c.op = "profile_add"
  /\ c.surface = "tool" => c.op \in DOMAIN Catalog
  /\ c.surface = "resource" => c.op \in Resources
  /\ c.key \in {Absent, "key"} /\ (c.key # Absent => c.op \in Keyed)
  /\ c.token \in Secrets \cup {Absent} /\ (c.at \in Holding => c.token # Absent)
  /\ c.yard \in Names \cup {Absent} /\ c.todo \in Seq(Names)
  /\ (c.at \in Running /\ c.env) => c.token = Absent
  /\ c.touched # Absent => c.op \in Risky
  /\ c.at # "answered" => c.outcome = Absent
  /\ (c.outcome = "ok" /\ c.surface \in {"tool", "resource"}) =>
       c.shown = {Issued(c.op)} \ {Absent}

(* What becomes of call c when a request was answered or failed.           *)
Onward(n, c) ==
  /\ n.surface = c.surface /\ n.op = c.op /\ n.profile = c.profile /\ n.key = c.key
  /\ n.touched = c.touched
  /\ n.token \in {c.token, Absent} /\ n.at \in {"load", "answered"}
  /\ n.id = Absent \/ (n.id = c.id /\ n.yard = c.yard)
  /\ c.op # "deploy_web_yard" => n.yard = c.yard

LEMMA WithFields ==
  ASSUME NEW delta, NEW c, DOMAIN c = CallFields, DOMAIN delta \subseteq CallFields
  PROVE  LET n == With(delta, c)
         IN  /\ DOMAIN n = CallFields
             /\ \A f \in CallFields : n[f] = IF f \in DOMAIN delta THEN delta[f] ELSE c[f]
  BY DEF With

(* Ending.                                                                 *)
LEMMA EndDomain ==
  ASSUME NEW o, NEW s
  PROVE  DOMAIN End(o, s) = {"at", "outcome", "shown", "args", "left", "token", "env", "id", "todo",
                             "failing", "bad"}
  BY DEF End

LEMMA EndFields ==
  ASSUME NEW outcome, NEW shown, NEW c, DOMAIN c = CallFields,
         NEW n, n = With(End(outcome, shown), c)
  PROVE  /\ DOMAIN n = CallFields /\ n.at = "answered" /\ n.surface = c.surface /\ n.op = c.op
         /\ n.profile = c.profile /\ n.key = c.key /\ n.token = Absent /\ n.yard = c.yard
         /\ n.id = Absent /\ n.todo = << >> /\ n.touched = c.touched /\ n.shown = shown
         /\ n.outcome = outcome
<1> DEFINE e == End(outcome, shown)
<1>1. DOMAIN e \subseteq CallFields
  BY EndDomain DEF CallFields
<1>2. /\ DOMAIN n = CallFields
      /\ \A f \in CallFields : n[f] = IF f \in DOMAIN e THEN e[f] ELSE c[f]
  BY <1>1, WithFields
<1>3. /\ n.surface = c.surface /\ n.op = c.op /\ n.profile = c.profile
      /\ n.key = c.key /\ n.yard = c.yard /\ n.touched = c.touched
  BY <1>2, EndDomain DEF CallFields
<1>4. /\ n.at = "answered" /\ n.token = Absent /\ n.id = Absent /\ n.todo = << >>
      /\ n.shown = shown /\ n.outcome = outcome
  BY <1>2, EndDomain DEF CallFields, End, Nothing
<1> QED BY <1>2, <1>3, <1>4

LEMMA EndSound ==
  ASSUME NEW outcome, NEW shown, NEW c, Sound(c), NEW n, n = With(End(outcome, shown), c),
         (outcome = "ok" /\ c.surface \in {"tool", "resource"}) => shown = {Issued(c.op)} \ {Absent}
  PROVE  Sound(n) /\ Onward(n, c)
<1>1. DOMAIN c = CallFields
  BY DEF Sound
<1>2. << >> \in Seq(Names)
  OBVIOUS
<1>3. /\ DOMAIN n = CallFields /\ n.at = "answered" /\ n.surface = c.surface /\ n.op = c.op
      /\ n.profile = c.profile /\ n.key = c.key /\ n.token = Absent /\ n.yard = c.yard
      /\ n.id = Absent /\ n.todo = << >> /\ n.touched = c.touched /\ n.shown = shown
      /\ n.outcome = outcome
  BY <1>1, EndFields
<1>4. Onward(n, c)
  BY <1>3 DEF Onward
<1>5. Sound(n)
  BY <1>2, <1>3 DEF Sound, Running, Adding, Holding
<1> QED BY <1>4, <1>5

(* Deploying on.                                                           *)
LEMMA DeployLeads ==
  ASSUME NEW args, NEW r, r = DeployRequests(args)
  PROVE  /\ "deploy_web_yard" \in Operations
         /\ r \in Seq({r[i] : i \in DOMAIN r}) /\ r # << >>
         /\ \A i \in DOMAIN r : Fits("deploy_web_yard", r[i].endpoint)
         /\ r[Len(r)].endpoint = Final("deploy_web_yard")
         /\ Final("deploy_web_yard") = "FinaliseYardDeploy"
<1> DEFINE d == Requests["deploy_web_yard"]
           list == One("ListWebYards", Scoped, Nothing)
<1>1. "deploy_web_yard" \in Operations
  BY RequestsCover DEF OperationNames
<1>2. Suits("deploy_web_yard", d)
  BY <1>1, RequestsSuit
<1>3. /\ list \in Seq({list[i] : i \in DOMAIN list})
      /\ \A i \in DOMAIN list : Fits("deploy_web_yard", list[i].endpoint)
  BY PlainFits DEF Special, One, Request
<1>4. Final("deploy_web_yard") = d[Len(d)].endpoint
  BY DEF Final
<1>5. r = IF "public" \in args THEN << >> \o d ELSE list \o d
  BY DEF DeployRequests, Nothing
<1> HIDE DEF d, list
<1>6. Suits("deploy_web_yard", r)
  <2>1. Suits("deploy_web_yard", list \o d)
    BY <1>2, <1>3, JoinSuits DEF Keyed
  <2>2. << >> \o d = d
    BY <1>2, ConcatEmptySeq DEF Suits
  <2> QED BY <1>2, <1>5, <2>1, <2>2
<1> QED BY <1>1, <1>2, <1>4, <1>6 DEF Suits, Ends, Closing

LEMMA WithTwice ==
  ASSUME NEW a, NEW b, NEW c
  PROVE  With(With(a, b), c) = With(a, With(b, c))
  BY DEF With

(* Changes of one field.                                                   *)
LEMMA ArgsChange ==
  ASSUME NEW args, NEW c, Sound(c), NEW n, n = With([args |-> args], c)
  PROVE  Sound(n) /\ n.args = args /\ \A f \in CallFields \ {"args"} : n[f] = c[f]
<1>1. DOMAIN [args |-> args] = {"args"}
  OBVIOUS
<1>2. /\ DOMAIN n = CallFields /\ DOMAIN c = CallFields
      /\ \A f \in CallFields : n[f] = IF f \in {"args"} THEN args ELSE c[f]
  BY <1>1, WithFields DEF CallFields, Sound
<1>3. /\ n.at = c.at /\ n.surface = c.surface /\ n.op = c.op /\ n.profile = c.profile
      /\ n.key = c.key /\ n.token = c.token /\ n.yard = c.yard /\ n.todo = c.todo /\ n.env = c.env
      /\ n.left = c.left /\ n.failing = c.failing /\ n.touched = c.touched
      /\ n.shown = c.shown /\ n.outcome = c.outcome
  BY <1>2 DEF CallFields
<1>4. Sound(n)
  BY <1>2, <1>3 DEF Sound, Leads
<1> QED BY <1>2, <1>4 DEF CallFields

LEMMA IdChange ==
  ASSUME NEW id, NEW c, Sound(c), NEW n, n = With([id |-> id], c)
  PROVE  Sound(n) /\ n.id = id /\ \A f \in CallFields \ {"id"} : n[f] = c[f]
<1>1. DOMAIN [id |-> id] = {"id"}
  OBVIOUS
<1>2. /\ DOMAIN n = CallFields /\ DOMAIN c = CallFields
      /\ \A f \in CallFields : n[f] = IF f \in {"id"} THEN id ELSE c[f]
  BY <1>1, WithFields DEF CallFields, Sound
<1>3. /\ n.at = c.at /\ n.surface = c.surface /\ n.op = c.op /\ n.profile = c.profile
      /\ n.key = c.key /\ n.token = c.token /\ n.yard = c.yard /\ n.todo = c.todo /\ n.env = c.env
      /\ n.left = c.left /\ n.failing = c.failing /\ n.touched = c.touched
      /\ n.shown = c.shown /\ n.outcome = c.outcome
  BY <1>2 DEF CallFields
<1>4. Sound(n)
  BY <1>2, <1>3 DEF Sound, Leads
<1> QED BY <1>2, <1>4 DEF CallFields

LEMMA TouchedChange ==
  ASSUME NEW id, NEW c, Sound(c), c.op \in Risky, NEW n, n = With([touched |-> id], c)
  PROVE  Sound(n) /\ n.touched = id /\ \A f \in CallFields \ {"touched"} : n[f] = c[f]
<1>1. DOMAIN [touched |-> id] = {"touched"}
  OBVIOUS
<1>2. /\ DOMAIN n = CallFields /\ DOMAIN c = CallFields
      /\ \A f \in CallFields : n[f] = IF f \in {"touched"} THEN id ELSE c[f]
  BY <1>1, WithFields DEF CallFields, Sound
<1>3. /\ n.at = c.at /\ n.surface = c.surface /\ n.op = c.op /\ n.profile = c.profile
      /\ n.key = c.key /\ n.token = c.token /\ n.yard = c.yard /\ n.todo = c.todo /\ n.env = c.env
      /\ n.left = c.left /\ n.failing = c.failing
      /\ n.shown = c.shown /\ n.outcome = c.outcome
  BY <1>2 DEF CallFields
<1>4. Sound(n)
  BY <1>2, <1>3 DEF Sound, Leads
<1> QED BY <1>2, <1>4 DEF CallFields

(* The next yard of a deploy.                                              *)
LEMMA NextYardSound ==
  ASSUME NEW p, NEW good, Sound(proc[p]), proc[p].op = "deploy_web_yard", proc[p].at \in Running,
         NEW n, n = With(NextYard(p, good), proc[p])
  PROVE  /\ Sound(n) /\ Onward(n, proc[p])
         /\ n.at = "answered" => /\ n.args = proc[p].args \cap {"all"} /\ proc[p].todo = << >>
                                 /\ n.yard = proc[p].yard
                                 /\ n.outcome = "ok" => good /\ ~proc[p].bad
         /\ n.at = "load" => /\ n.args = proc[p].args
                             /\ proc[p].todo # << >> /\ n.yard = Head(proc[p].todo)
                             /\ n.todo = Tail(proc[p].todo)
                             /\ n.bad = (proc[p].bad \/ ~good)
<1> DEFINE c == proc[p]
<1>1. CASE c.todo = Nothing
  <2> DEFINE o == IF good /\ ~c.bad THEN "ok" ELSE "failed"
             m == With(End(o, {}), c)
  <2>1. n = With([args |-> c.args \cap {"all"}], m)
    BY <1>1, WithTwice DEF NextYard
  <2>2. Issued(c.op) = Absent
    BY DEF Issued
  <2> HIDE DEF o
  <2>3. Sound(m) /\ Onward(m, c) /\ m.at = "answered" /\ m.outcome = o /\ m.yard = c.yard
    BY <2>2, EndSound, EndFields DEF Sound
  <2> HIDE DEF m
  <2>4. Sound(n) /\ n.args = c.args \cap {"all"} /\ \A f \in CallFields \ {"args"} : n[f] = m[f]
    BY <2>1, <2>3, ArgsChange
  <2>5. Onward(n, c) /\ n.at = "answered" /\ n.outcome = o /\ n.yard = c.yard
    BY <2>3, <2>4 DEF Onward, CallFields
  <2>6. o = "ok" => good /\ ~c.bad
    BY DEF o
  <2> QED BY <1>1, <2>4, <2>5, <2>6 DEF Nothing
<1>2. CASE c.todo # Nothing
  <2> DEFINE r == DeployRequests(c.args)
             e == [at |-> "load", yard |-> Head(c.todo), todo |-> Tail(c.todo), left |-> r,
                   id |-> Absent, failing |-> FALSE, bad |-> c.bad \/ ~good]
  <2>1. n = With(e, c)
    BY <1>2 DEF NextYard
  <2>2. DOMAIN e = {"at", "yard", "todo", "left", "id", "failing", "bad"}
    OBVIOUS
  <2>3. /\ e.at = "load" /\ e.yard = Head(c.todo) /\ e.todo = Tail(c.todo) /\ e.left = r
        /\ e.id = Absent /\ ~e.failing
    OBVIOUS
  <2>4. e.bad = (c.bad \/ ~good)
    OBVIOUS
  <2>5. DOMAIN c = CallFields
    BY DEF Sound
  <2> HIDE DEF e
  <2>6. /\ DOMAIN n = CallFields
        /\ \A f \in CallFields : n[f] = IF f \in DOMAIN e THEN e[f] ELSE c[f]
    BY <2>1, <2>2, <2>5, WithFields DEF CallFields
  <2>7. /\ n.at = "load" /\ n.yard = Head(c.todo) /\ n.todo = Tail(c.todo) /\ n.left = r
        /\ n.id = Absent /\ n.failing = e.failing /\ n.bad = e.bad
    BY <2>2, <2>3, <2>6 DEF CallFields
  <2>8. /\ n.surface = c.surface /\ n.op = c.op /\ n.args = c.args /\ n.profile = c.profile
        /\ n.key = c.key /\ n.token = c.token /\ n.touched = c.touched /\ n.env = c.env
        /\ n.shown = c.shown /\ n.outcome = c.outcome
    BY <2>2, <2>6 DEF CallFields
  <2>9. Onward(n, c)
    BY <2>7, <2>8 DEF Onward
  <2>10. Leads(n)
    <3>1. ~n.failing
      BY <2>3, <2>7
    <3>2. n.op = "deploy_web_yard" /\ n.left = r
      BY <2>7, <2>8
    <3>3. /\ "deploy_web_yard" \in Operations
          /\ r \in Seq({r[i] : i \in DOMAIN r}) /\ r # << >>
          /\ \A i \in DOMAIN r : Fits("deploy_web_yard", r[i].endpoint)
          /\ r[Len(r)].endpoint = Final("deploy_web_yard")
      BY DeployLeads
    <3> HIDE DEF r
    <3> QED BY <3>1, <3>2, <3>3 DEF Leads
  <2>11. c.todo \in Seq(Names) /\ c.todo # << >>
    BY <1>2 DEF Sound, Nothing
  <2>12. n.yard \in Names /\ n.todo \in Seq(Names)
    BY <2>7, <2>11
  <2>13. Sound(n)
    BY <2>6, <2>7, <2>8, <2>10, <2>12 DEF Sound, Running, Adding, Holding, Risky
  <2> QED BY <2>4, <2>7, <2>8, <2>9, <2>11, <2>13
<1> QED BY <1>1, <1>2

(* A request that failed.                                                  *)
LEMMA FailureSound ==
  ASSUME NEW p, Sound(proc[p]), proc[p].at \in Running \cup Adding,
         NEW n, n = With(Failure(p), proc[p])
  PROVE  /\ Sound(n) /\ Onward(n, proc[p]) /\ n.outcome # "ok"
         /\ (n.at = "load" /\ ~n.bad) =>
              /\ n.args = proc[p].args /\ n.todo = proc[p].todo /\ n.yard = proc[p].yard
              /\ ~proc[p].bad
<1> DEFINE c == proc[p]
<1>1. c.outcome = Absent /\ Absent # "ok"
  BY ClientsAssumption DEF Sound, Running, Adding
<1>2. CASE c.op # "deploy_web_yard"
  <2>1. n = With(End("failed", {}), c)
    BY <1>2 DEF Failure
  <2>2. n.outcome = "failed" /\ n.at = "answered"
    BY <2>1, EndFields DEF Sound
  <2> QED BY <2>1, <2>2, EndSound
<1>3. CASE c.op = "deploy_web_yard" /\ c.id # Absent /\ ~c.failing
  <2> DEFINE r == One("FailYardDeploy", {"deployId", "failureCode", "failureMessage"}, Nothing)
             e == [at |-> "load", failing |-> TRUE, token |-> Absent, left |-> r]
  <2>1. n = With(e, c)
    BY <1>3 DEF Failure
  <2>2. DOMAIN e = {"at", "failing", "token", "left"}
    OBVIOUS
  <2>3. e.at = "load" /\ e.failing /\ e.token = Absent /\ e.left = r
    OBVIOUS
  <2>4. DOMAIN c = CallFields
    BY DEF Sound
  <2>5. /\ r \in Seq({r[i] : i \in DOMAIN r}) /\ r # << >>
        /\ \A i \in DOMAIN r : Fits("deploy_web_yard", r[i].endpoint)
        /\ r[Len(r)].endpoint = "FailYardDeploy"
    BY PlainFits DEF Special, One, Request
  <2> HIDE DEF e, r
  <2>6. /\ DOMAIN n = CallFields
        /\ \A f \in CallFields : n[f] = IF f \in DOMAIN e THEN e[f] ELSE c[f]
    BY <2>1, <2>2, <2>4, WithFields DEF CallFields
  <2>7. n.at = "load" /\ n.failing = e.failing /\ n.token = Absent /\ n.left = r
    BY <2>2, <2>3, <2>6 DEF CallFields
  <2>8. /\ n.surface = c.surface /\ n.op = c.op /\ n.profile = c.profile /\ n.yard = c.yard
        /\ n.key = c.key /\ n.touched = c.touched /\ n.todo = c.todo /\ n.id = c.id
        /\ n.shown = c.shown /\ n.outcome = c.outcome /\ n.args = c.args /\ n.bad = c.bad
    BY <2>2, <2>6 DEF CallFields
  <2>9. Onward(n, c)
    BY <2>7, <2>8 DEF Onward
  <2>10. Leads(n)
    <3>1. n.failing
      BY <2>3, <2>7
    <3>2. n.op = "deploy_web_yard" /\ n.left = r
      BY <1>3, <2>7, <2>8
    <3>3. "deploy_web_yard" \in Operations
      BY DeployLeads
    <3> QED BY <2>5, <3>1, <3>2, <3>3 DEF Leads
  <2>11. c.at \in Running
    BY <1>3 DEF Sound, Adding
  <2>12. Sound(n)
    BY <1>3, <2>6, <2>7, <2>8, <2>10, <2>11 DEF Sound, Running, Adding, Holding, Risky
  <2> QED BY <1>1, <2>8, <2>9, <2>12
<1>4. CASE c.op = "deploy_web_yard" /\ ~(c.id # Absent /\ ~c.failing)
  <2>1. PICK good : good = FALSE
    OBVIOUS
  <2>2. n = With(NextYard(p, good), c)
    BY <1>4, <2>1 DEF Failure
  <2>3. c.at \in Running
    BY <1>4 DEF Sound, Adding
  <2>4. Sound(n) /\ Onward(n, c) /\ (n.at = "answered" /\ n.outcome = "ok" => good)
        /\ (n.at = "load" => n.bad)
    BY <1>4, <2>1, <2>2, <2>3, NextYardSound
  <2>5. n.at # "answered" => n.outcome = Absent
    BY <2>4 DEF Sound
  <2> QED BY <1>1, <2>1, <2>4, <2>5
<1> QED BY <1>2, <1>3, <1>4

(* A request that was answered well.                                       *)
LEMMA TailLeads ==
  ASSUME NEW c, Leads(c)
  PROVE  /\ Tail(c.left) \in Seq({c.left[i] : i \in DOMAIN c.left})
         /\ Tail(c.left) = << >> => Head(c.left) = c.left[Len(c.left)]
         /\ Fits(c.op, Head(c.left).endpoint)
         /\ Tail(c.left) # << >> =>
              /\ Tail(c.left) \in Seq({Tail(c.left)[i] : i \in DOMAIN Tail(c.left)})
              /\ \A i \in DOMAIN Tail(c.left) : Fits(c.op, Tail(c.left)[i].endpoint)
              /\ Tail(c.left)[Len(Tail(c.left))] = c.left[Len(c.left)]
<1> DEFINE l == c.left
           R == {l[i] : i \in DOMAIN l}
           t == Tail(l)
<1>1. l \in Seq(R) /\ l # << >> /\ \A i \in DOMAIN l : Fits(c.op, l[i].endpoint)
  BY DEF Leads
<1> SUFFICES /\ t \in Seq(R)
             /\ t = << >> => Head(l) = l[Len(l)]
             /\ Fits(c.op, Head(l).endpoint)
             /\ t # << >> => /\ t \in Seq({t[i] : i \in DOMAIN t})
                             /\ \A i \in DOMAIN t : Fits(c.op, t[i].endpoint)
                             /\ t[Len(t)] = l[Len(l)]
  OBVIOUS
<1> HIDE DEF l, R
<1>2. t \in Seq(R) /\ Len(t) = Len(l) - 1 /\ Len(l) \in Nat \ {0} /\ DOMAIN l = 1 .. Len(l)
      /\ DOMAIN t = 1 .. Len(t) /\ \A i \in 1 .. Len(t) : t[i] = l[i + 1]
  BY <1>1
<1>3. Head(l) = l[1] /\ 1 \in DOMAIN l
  BY <1>1, <1>2
<1> HIDE DEF t
<1>4. t = << >> => Len(l) = 1
  BY <1>2
<1>5. ASSUME t # << >>
      PROVE  /\ t \in Seq({t[i] : i \in DOMAIN t})
             /\ \A i \in DOMAIN t : Fits(c.op, t[i].endpoint)
             /\ t[Len(t)] = l[Len(l)]
  <2>1. t \in Seq({t[i] : i \in DOMAIN t})
    BY <1>2, SeqOfRange DEF Range
  <2>2. \A i \in DOMAIN t : Fits(c.op, t[i].endpoint)
    BY <1>1, <1>2
  <2>3. Len(t) \in 1 .. Len(t)
    BY <1>2, <1>5
  <2>4. t[Len(t)] = l[Len(l)]
    BY <1>2, <2>3
  <2> QED BY <2>1, <2>2, <2>4
<1> QED BY <1>1, <1>2, <1>3, <1>4, <1>5

LEMMA FinalIsShown ==
  ASSUME NEW p, Sound(proc[p]), proc[p].at = "send", Tail(proc[p].left) = << >>, ~proc[p].failing,
         proc[p].surface \in {"tool", "resource"}
  PROVE  Shown(p, Reveals(Head(proc[p].left).endpoint)) = {Issued(proc[p].op)} \ {Absent}
<1> DEFINE c == proc[p]
           e == Head(c.left).endpoint
<1>1. Leads(c)
  BY DEF Sound, Running
<1>2. e = Final(c.op) /\ Fits(c.op, e) /\ c.op \in Operations
  BY <1>1, TailLeads DEF Leads
<1>3. CASE c.surface = "tool"
  <2>1. c.op \in DOMAIN Catalog
    BY <1>3 DEF Sound
  <2> QED BY <1>2, <1>3, <2>1, OneLinkShown DEF Shown, Final
<1>4. CASE c.surface = "resource"
  <2>1. c.op \in Resources
    BY <1>4 DEF Sound
  <2>2. Reveals(e) = {}
    BY <1>2, <2>1 DEF Fits, Revealing, Resources
  <2>3. Issued(c.op) = Absent
    BY <2>1 DEF Issued, Resources
  <2>4. Shown(p, Reveals(e)) = {}
    BY <1>4, <2>2 DEF Shown
  <2> QED BY <2>3, <2>4
<1> QED BY <1>3, <1>4

LEMMA ProceedSound ==
  ASSUME NEW p, Sound(proc[p]), proc[p].at = "send", NEW n, n = With(Proceed(p), proc[p])
  PROVE  /\ Sound(n) /\ Onward(n, proc[p])
         /\ Tail(proc[p].left) # << >> =>
              /\ n.at = "load" /\ n.args = proc[p].args /\ n.yard = proc[p].yard
              /\ n.todo = proc[p].todo /\ n.bad = proc[p].bad /\ n.id = proc[p].id
         /\ Tail(proc[p].left) = << >> =>
              /\ proc[p].op = "deploy_web_yard" => n = With(NextYard(p, ~proc[p].failing), proc[p])
              /\ ~proc[p].failing => Head(proc[p].left).endpoint = Final(proc[p].op)
              /\ proc[p].op # "deploy_web_yard" => ~proc[p].failing /\ n.at = "answered"
<1> DEFINE c == proc[p]
           rest == Tail(c.left)
<1>1. Leads(c) /\ DOMAIN c = CallFields
  BY DEF Sound, Running
<1>2. CASE rest # Nothing
  <2> DEFINE e == [at |-> "load", left |-> rest, token |-> Absent]
  <2>1. n = With(e, c)
    BY <1>2 DEF Proceed
  <2>2. DOMAIN e = {"at", "left", "token"} /\ e.at = "load" /\ e.left = rest /\ e.token = Absent
    OBVIOUS
  <2> HIDE DEF e
  <2>3. /\ DOMAIN n = CallFields
        /\ \A f \in CallFields : n[f] = IF f \in DOMAIN e THEN e[f] ELSE c[f]
    <3>1. DOMAIN e \subseteq CallFields
      BY <2>2 DEF CallFields
    <3> QED BY <1>1, <2>1, <3>1, WithFields
  <2>4. n.at = "load" /\ n.left = rest /\ n.token = Absent
    BY <2>2, <2>3 DEF CallFields
  <2>5. /\ n.surface = c.surface /\ n.op = c.op /\ n.profile = c.profile /\ n.yard = c.yard
        /\ n.key = c.key /\ n.touched = c.touched /\ n.todo = c.todo /\ n.id = c.id
        /\ n.shown = c.shown /\ n.outcome = c.outcome /\ n.failing = c.failing
        /\ n.args = c.args /\ n.bad = c.bad
    BY <2>2, <2>3 DEF CallFields
  <2>6. Onward(n, c)
    BY <2>4, <2>5 DEF Onward
  <2>7. Leads(n)
    <3>1. /\ rest \in Seq({rest[i] : i \in DOMAIN rest})
          /\ \A i \in DOMAIN rest : Fits(c.op, rest[i].endpoint)
          /\ rest[Len(rest)] = c.left[Len(c.left)]
      BY <1>1, <1>2, TailLeads DEF Nothing
    <3> HIDE DEF rest
    <3> QED BY <1>1, <1>2, <2>4, <2>5, <3>1 DEF Leads, Nothing
  <2>8. Sound(n)
    BY <2>3, <2>4, <2>5, <2>7 DEF Sound, Running, Adding, Holding
  <2> QED BY <1>2, <2>4, <2>5, <2>6, <2>8 DEF Nothing
<1>3. CASE rest = Nothing /\ c.op = "deploy_web_yard"
  <2>1. PICK good : good = ~c.failing
    OBVIOUS
  <2>2. n = With(NextYard(p, good), c)
    BY <1>3, <2>1 DEF Proceed
  <2>3. Sound(n) /\ Onward(n, c)
    BY <1>3, <2>2, NextYardSound DEF Running
  <2>4. ~c.failing => Head(c.left).endpoint = Final(c.op)
    BY <1>1, <1>3, TailLeads DEF Leads, Nothing
  <2> QED BY <1>3, <2>1, <2>2, <2>3, <2>4 DEF Nothing
<1>4. CASE rest = Nothing /\ c.op # "deploy_web_yard"
  <2> DEFINE s == Shown(p, Reveals(Head(c.left).endpoint))
  <2>1. n = With(End("ok", s), c)
    BY <1>4 DEF Proceed
  <2>2. ~c.failing
    BY <1>1, <1>4 DEF Leads
  <2>3. Head(c.left).endpoint = Final(c.op)
    BY <1>1, <1>4, <2>2, TailLeads DEF Leads, Nothing
  <2>4. c.surface \in {"tool", "resource"} => s = {Issued(c.op)} \ {Absent}
    BY <1>4, <2>2, FinalIsShown DEF Nothing
  <2> HIDE DEF s
  <2>5. Sound(n) /\ Onward(n, c) /\ n.at = "answered"
    BY <1>1, <2>1, <2>4, EndSound, EndFields
  <2> QED BY <1>4, <2>2, <2>3, <2>5 DEF Nothing
<1> QED BY <1>2, <1>3, <1>4

-----------------------------------------------------------------------------
(* Starting a call.                                                        *)

LEMMA SetToSeqCovers ==
  ASSUME NEW S, IsFiniteSet(S)
  PROVE  /\ SetToSeq(S) \in Seq(S)
         /\ \A x \in S : \E i \in DOMAIN SetToSeq(S) : SetToSeq(S)[i] = x
<1> DEFINE n == Cardinality(S)
           s == SetToSeq(S)
<1>1. n \in Nat /\ ExistsBijection(1 .. n, S)
  BY FS_CardinalityType
<1>2. s \in Injection(1 .. n, S)
  <2>1. \E f \in [1 .. n -> S] : IsInjective(f)
    BY <1>1 DEF ExistsBijection, Bijection, Injection
  <2> QED BY <2>1 DEF SetToSeq, Injection
<1>3. IsFiniteSet(1 .. n) /\ Cardinality(1 .. n) = n
  BY <1>1, FS_Interval
<1> HIDE DEF s
<1>4. s \in Surjection(1 .. n, S)
  BY <1>2, <1>3, FS_Injection
<1>5. s \in [1 .. n -> S]
  BY <1>2 DEF Injection
<1>6. s \in Seq(S)
  BY <1>1, <1>5
<1>7. \A x \in S : \E i \in DOMAIN s : s[i] = x
  BY <1>4, <1>5 DEF Surjection
<1> QED BY <1>6, <1>7 DEF s

LEMMA SelectYardsTyped ==
  ASSUME NEW args, NEW name \in Names, settings.yards \subseteq Names, NEW r, r = SelectYards(args, name)
  PROVE  /\ r \in Seq(Names)
         /\ "all" \in args => \A y \in settings.yards : \E i \in DOMAIN r : r[i] = y
<1> DEFINE configured == settings.yards
<1>1. IsFiniteSet(configured) /\ "main" \in Names
  BY ClientsAssumption, FS_Subset
<1>2. SetToSeq(configured) \in Seq(configured)
  BY <1>1, SetToSeqCovers
<1>3. SetToSeq(configured) \in Seq(Names)
  BY <1>2, SeqMonotonic
<1>4. << >> \in Seq(Names) /\ << name >> \in Seq(Names) /\ << "main" >> \in Seq(Names)
  BY <1>1
<1>5. CASE "all" \in args
  <2>1. r = SetToSeq(configured)
    BY <1>5 DEF SelectYards
  <2> QED BY <1>1, <1>3, <2>1, SetToSeqCovers
<1>6. CASE "all" \notin args
  BY <1>3, <1>4, <1>6 DEF SelectYards, Nothing
<1> QED BY <1>5, <1>6

LEMMA RestingSound ==
  /\ Sound(Resting) /\ Resting.id = Absent /\ Resting.at = "idle" /\ Resting.token = Absent
  /\ Resting.op = Absent /\ Resting.outcome = Absent /\ Resting.touched = Absent
<1>1. DOMAIN Resting = CallFields
  BY DEF Resting, CallFields
<1>2. << >> \in Seq(Names) /\ Absent \notin {"ok", "tool", "resource"}
  BY ClientsAssumption
<1>3. /\ Resting.at = "idle" /\ Resting.surface = Absent /\ Resting.key = Absent
      /\ Resting.token = Absent /\ Resting.yard = Absent /\ Resting.todo = << >>
      /\ Resting.touched = Absent /\ Resting.outcome = Absent /\ Resting.id = Absent
      /\ Resting.op = Absent
  BY DEF Resting, Nothing
<1>4. Sound(Resting)
  BY <1>1, <1>2, <1>3 DEF Sound, Running, Adding, Holding
<1> QED BY <1>3, <1>4

-----------------------------------------------------------------------------
(* The inductive invariant.                                                *)

CallsSound == DOMAIN proc = Procs /\ \A p \in Procs : Sound(proc[p])

YardRow == [name : Names \cup {Absent}, current : BOOLEAN, gone : BOOLEAN]

ClientsTyped ==
  /\ DOMAIN store = {"cloud", "home"}
  /\ store["cloud"] \in Secrets \cup {Absent} /\ store["home"] \in Secrets \cup {Absent}
  /\ live \subseteq Secrets /\ profiles \subseteq {"home"} /\ faults \in Nat
  /\ settings.yards \subseteq Names
  /\ yards \in Seq(YardRow)
  /\ applied \in [SupportsIdempotency -> Nat]

(* A token on its way into the store is honoured and nobody else's; the    *)
(* stored one is honoured unless somebody is about to replace it.          *)
TokensHold ==
  /\ \A p \in Procs : proc[p].at \in Holding =>
       /\ proc[p].token \in live
       /\ proc[p].token # store["cloud"] /\ proc[p].token # store["home"]
       /\ \A q \in Procs \ {p} : proc[q].token # proc[p].token
  /\ \/ store["cloud"] \in live \cup {Absent}
     \/ faults # 0
     \/ \E p \in Procs : proc[p].at \in {"save", "forget"}

(* The setup token is spent by one attempt to add the profile only.        *)
ProfileHolds ==
  /\ \A p \in Procs : proc[p].at \in {"keep_home", "write"} =>
       /\ "home" \notin profiles /\ ~unspent
       /\ proc[p].at = "write" => store["home"] # Absent
       /\ \A q \in Procs \ {p} : proc[q].at \notin {"keep_home", "write"}
  /\ unspent => "home" \notin profiles /\ store["home"] = Absent
  /\ "home" \in profiles => store["home"] # Absent
  /\ (store["home"] # Absent /\ "home" \notin profiles /\ faults = 0) =>
       \E p \in Procs : proc[p].at = "write"

(* The identifiers that call c holds are of yards named as it was told.    *)
YardsNamed(c, list) ==
  /\ c.id # Absent => /\ c.id \in DOMAIN list
                      /\ c.yard # Absent => list[c.id].name = c.yard
  /\ c.touched # Absent => /\ c.touched \in DOMAIN list
                           /\ list[c.touched].name = c.yard

YardsHold == \A p \in Procs : YardsNamed(proc[p], yards)

(* A call that succeeded under a retry key is on record.                   *)
Recorded(c, record) ==
  (c.outcome = "ok" /\ c.key # Absent /\ Final(c.op) \in SupportsIdempotency) =>
    <<Final(c.op), "key">> \in record

RetriesHold ==
  /\ \A e \in SupportsIdempotency : applied[e] = IF <<e, "key">> \in seen THEN 1 ELSE 0
  /\ \A p \in Procs : Recorded(proc[p], seen)

(* Every yard that deploy c of terminal p selected was published, or is    *)
(* still to come, or is known to have failed.                              *)
Published(c, p, record) ==
  c.op = "deploy_web_yard" =>
    /\ (c.at \in Running /\ "all" \in c.args /\ ~c.bad) =>
         \A y \in settings.yards :
            <<y, p>> \in record \/ y = c.yard \/ \E i \in DOMAIN c.todo : c.todo[i] = y
    /\ c.outcome = "ok" =>
         IF "all" \in c.args THEN \A y \in settings.yards : <<y, p>> \in record
                             ELSE <<c.yard, p>> \in record

DeploysHold == \A p \in Procs : Published(proc[p], p, served)

ClientsInv ==
  /\ CallsSound /\ ClientsTyped /\ TokensHold /\ ProfileHolds /\ YardsHold /\ RetriesHold
  /\ DeploysHold

(* The step replaces the call of terminal p by n.                          *)
Replaced(p, n) ==
  /\ DOMAIN proc' = Procs /\ proc'[p] = n
  /\ \A q \in Procs \ {p} : proc'[q] = proc[q]

LEMMA UpdateReplaces ==
  ASSUME CallsSound, NEW p \in Procs, NEW delta, Update(p, delta)
  PROVE  Replaced(p, With(delta, proc[p]))
<1> DEFINE n == With(delta, proc[p])
<1>1. proc' = [proc EXCEPT ![p] = n]
  BY DEF Update
<1> HIDE DEF n
<1>2. Replaced(p, n)
  BY <1>1 DEF CallsSound, Replaced
<1> QED BY <1>2 DEF n

(* A later list of yards: more of them, under the same names.              *)
Grown(list, later) ==
  /\ DOMAIN list \subseteq DOMAIN later
  /\ \A i \in DOMAIN list : later[i].name = list[i].name

(* What is true of a call stays true as the services go on.                *)
LEMMA NamedStill ==
  ASSUME NEW c, NEW list, NEW later, YardsNamed(c, list), Grown(list, later)
  PROVE  YardsNamed(c, later)
  BY DEF YardsNamed, Grown

LEMMA OnwardNamed ==
  ASSUME NEW c, NEW n, Sound(c), Onward(n, c), NEW list, YardsNamed(c, list)
  PROVE  YardsNamed(n, list)
<1>1. n.touched = c.touched /\ (n.id = Absent \/ (n.id = c.id /\ n.yard = c.yard))
  BY DEF Onward
<1>2. c.touched # Absent => n.yard = c.yard
  BY DEF Onward, Sound, Risky
<1> QED BY <1>1, <1>2 DEF YardsNamed

LEMMA PublishedStill ==
  ASSUME NEW c, NEW p, NEW record, NEW later, Published(c, p, record),
         \A y : <<y, p>> \in record => <<y, p>> \in later
  PROVE  Published(c, p, later)
  BY DEF Published

(* A call that failed.                                                     *)
LEMMA FailureHolds ==
  ASSUME NEW p, Sound(proc[p]), proc[p].at \in Running \cup Adding,
         NEW list, YardsNamed(proc[p], list), NEW record, Published(proc[p], p, record),
         NEW n, n = With(Failure(p), proc[p])
  PROVE  /\ Sound(n) /\ n.token \in {proc[p].token, Absent} /\ n.at \in {"load", "answered"}
         /\ YardsNamed(n, list) /\ Published(n, p, record) /\ n.outcome # "ok"
<1> DEFINE c == proc[p]
<1>1. /\ Sound(n) /\ Onward(n, c) /\ n.outcome # "ok"
      /\ (n.at = "load" /\ ~n.bad) =>
              n.args = c.args /\ n.todo = c.todo /\ n.yard = c.yard /\ ~c.bad
  BY FailureSound
<1>2. YardsNamed(n, list)
  BY <1>1, OnwardNamed
<1>3. n.token \in {c.token, Absent} /\ n.at \in {"load", "answered"} /\ n.op = c.op
  BY <1>1 DEF Onward
<1>4. c.op = "deploy_web_yard" => c.at \in Running
  BY DEF Sound, Adding
<1>5. Published(n, p, record)
  BY <1>1, <1>3, <1>4 DEF Published, Running
<1> QED BY <1>1, <1>2, <1>3, <1>5

(* An element is the first one or comes later.                             *)
LEMMA HeadOrTail ==
  ASSUME NEW S, NEW s \in Seq(S), NEW i \in DOMAIN s
  PROVE  s[i] = Head(s) \/ \E j \in DOMAIN Tail(s) : Tail(s)[j] = s[i]
<1>1. CASE i = 1
  BY <1>1
<1>2. CASE i # 1
  <2>1. i \in Nat /\ i > 1 /\ i <= Len(s) /\ Tail(s) \in Seq(S) /\ Len(Tail(s)) = Len(s) - 1
    BY <1>2
  <2>2. i - 1 \in DOMAIN Tail(s) /\ Tail(s)[i - 1] = s[i]
    BY <2>1
  <2> QED BY <2>2
<1> QED BY <1>1, <1>2

(* A deploy that goes on to its next yard.                                 *)
LEMMA NextPublished ==
  ASSUME NEW p, Sound(proc[p]), proc[p].op = "deploy_web_yard", proc[p].at \in Running,
         NEW record, Published(proc[p], p, record),
         ~proc[p].failing => <<proc[p].yard, p>> \in record,
         NEW good, good = ~proc[p].failing,
         NEW n, n = With(NextYard(p, good), proc[p])
  PROVE  Published(n, p, record)
<1> DEFINE c == proc[p]
<1>1. /\ Sound(n) /\ Onward(n, c)
      /\ n.at = "answered" => /\ n.args = c.args \cap {"all"} /\ c.todo = << >> /\ n.yard = c.yard
                              /\ n.outcome = "ok" => good /\ ~c.bad
      /\ n.at = "load" => /\ n.args = c.args
                          /\ c.todo # << >> /\ n.yard = Head(c.todo)
                          /\ n.todo = Tail(c.todo)
                          /\ n.bad = (c.bad \/ ~good)
  BY NextYardSound
<1>2. n.at \in {"load", "answered"} /\ n.op = c.op
  BY <1>1 DEF Onward
<1>3. ("all" \in c.args /\ ~c.bad) =>
         \A y \in settings.yards :
            <<y, p>> \in record \/ y = c.yard \/ \E i \in DOMAIN c.todo : c.todo[i] = y
  BY DEF Published
<1>4. CASE n.at = "answered"
  <2>1. n.at \notin Running
    BY <1>4 DEF Running
  <2> SUFFICES ASSUME n.outcome = "ok"
               PROVE  IF "all" \in n.args THEN \A y \in settings.yards : <<y, p>> \in record
                                          ELSE <<n.yard, p>> \in record
    BY <2>1 DEF Published
  <2>2. ~c.failing /\ ~c.bad /\ c.todo = << >> /\ n.args = c.args \cap {"all"}
    BY <1>1, <1>4
  <2>3. <<c.yard, p>> \in record
    BY <2>2
  <2>4. CASE "all" \in n.args
    <3>1. "all" \in c.args /\ DOMAIN c.todo = {}
      BY <2>2, <2>4
    <3> QED BY <1>3, <2>2, <2>3, <2>4, <3>1
  <2>5. CASE "all" \notin n.args
    <3>1. n.yard = c.yard
      BY <1>1, <1>4
    <3> QED BY <2>3, <2>5, <3>1
  <2> QED BY <2>4, <2>5
<1>5. CASE n.at = "load"
  <2>1. n.outcome # "ok"
    BY <1>1, <1>5, ClientsAssumption DEF Sound
  <2> SUFFICES ASSUME "all" \in n.args, ~n.bad, NEW y \in settings.yards
               PROVE  <<y, p>> \in record \/ y = n.yard \/ \E i \in DOMAIN n.todo : n.todo[i] = y
    BY <2>1 DEF Published
  <2>2. ~c.bad /\ good /\ "all" \in c.args
    BY <1>1, <1>5
  <2>3. <<c.yard, p>> \in record
    BY <2>2
  <2>4. c.todo \in Seq(Names) /\ c.todo # << >> /\ n.yard = Head(c.todo) /\ n.todo = Tail(c.todo)
    BY <1>1, <1>5 DEF Sound
  <2>5. CASE \E i \in DOMAIN c.todo : c.todo[i] = y
    <3> DEFINE t == c.todo
    <3>1. PICK i \in DOMAIN t : t[i] = y
      BY <2>5
    <3>2. t \in Seq(Names) /\ n.yard = Head(t) /\ n.todo = Tail(t)
      BY <2>4
    <3> HIDE DEF t
    <3>3. t[i] = Head(t) \/ \E j \in DOMAIN Tail(t) : Tail(t)[j] = t[i]
      BY <3>2, HeadOrTail
    <3> QED BY <3>1, <3>2, <3>3
  <2> QED BY <1>3, <2>2, <2>3, <2>5
<1> QED BY <1>2, <1>4, <1>5

(* A call whose request was answered well; list, record and marks are the  *)
(* yards, the deploys and the retry keys that the answer leaves behind.    *)
Answered(p, list, record, marks) ==
  LET e == Head(proc[p].left).endpoint
  IN  /\ YardsNamed(proc[p], list) /\ Published(proc[p], p, record)
      /\ e = "FinaliseYardDeploy" => <<proc[p].yard, p>> \in record
      /\ (e \in SupportsIdempotency /\ proc[p].key # Absent) => <<e, "key">> \in marks

LEMMA ProceedHolds ==
  ASSUME NEW p, Sound(proc[p]), proc[p].at = "send",
         NEW list, NEW record, NEW marks, Answered(p, list, record, marks),
         NEW n, n = With(Proceed(p), proc[p])
  PROVE  /\ Sound(n) /\ n.token \in {proc[p].token, Absent} /\ n.at \in {"load", "answered"}
         /\ n.op = proc[p].op /\ n.touched = proc[p].touched
         /\ proc[p].op # "deploy_web_yard" => n.yard = proc[p].yard
         /\ Tail(proc[p].left) # << >> => n.yard = proc[p].yard
         /\ YardsNamed(n, list) /\ Published(n, p, record) /\ Recorded(n, marks)
<1> DEFINE c == proc[p]
           e == Head(c.left).endpoint
           rest == Tail(c.left)
<1>1. /\ Sound(n) /\ Onward(n, c)
      /\ rest # << >> => /\ n.at = "load" /\ n.args = c.args /\ n.yard = c.yard
                         /\ n.todo = c.todo /\ n.bad = c.bad /\ n.id = c.id
      /\ rest = << >> =>
              /\ c.op = "deploy_web_yard" => n = With(NextYard(p, ~c.failing), c)
              /\ ~c.failing => e = Final(c.op)
              /\ c.op # "deploy_web_yard" => ~c.failing /\ n.at = "answered"
  BY ProceedSound
<1>2. /\ n.op = c.op /\ n.touched = c.touched /\ n.key = c.key /\ n.at \in {"load", "answered"}
      /\ n.token \in {c.token, Absent} /\ (c.op # "deploy_web_yard" => n.yard = c.yard)
  BY <1>1 DEF Onward
<1>3. YardsNamed(n, list)
  BY <1>1, OnwardNamed DEF Answered
<1>4. n.at = "load" => n.outcome # "ok"
  BY <1>1, ClientsAssumption DEF Sound
<1>5. Published(n, p, record)
  <2>1. CASE c.op # "deploy_web_yard"
    BY <1>2, <2>1 DEF Published
  <2>2. CASE c.op = "deploy_web_yard" /\ rest # << >>
    BY <1>1, <1>2, <1>4, <2>2 DEF Published, Answered, Running
  <2>3. CASE c.op = "deploy_web_yard" /\ rest = << >>
    <3>1. PICK good : good = ~c.failing
      OBVIOUS
    <3>2. n = With(NextYard(p, good), c)
      BY <1>1, <2>3, <3>1
    <3>3. ~c.failing => <<c.yard, p>> \in record
      BY <1>1, <2>3, DeployLeads DEF Answered
    <3>4. c.at \in Running /\ Published(c, p, record)
      BY DEF Running, Answered
    <3> QED BY <2>3, <3>1, <3>2, <3>3, <3>4, NextPublished
  <2> QED BY <2>1, <2>2, <2>3
<1>6. Recorded(n, marks)
  <2> SUFFICES ASSUME n.outcome = "ok", n.key # Absent, Final(n.op) \in SupportsIdempotency
               PROVE  <<Final(n.op), "key">> \in marks
    BY DEF Recorded
  <2>1. n.at = "answered" /\ rest = << >>
    BY <1>1, <1>2, <1>4
  <2>2. c.op # "deploy_web_yard"
    BY <1>2 DEF Sound, Keyed
  <2>3. e = Final(c.op)
    BY <1>1, <2>1, <2>2
  <2> QED BY <1>2, <2>3 DEF Answered
<1> QED BY <1>1, <1>2, <1>3, <1>5, <1>6

(* A login goes from its first request to polling.                         *)
LEMMA StartedLogin ==
  ASSUME NEW c, Sound(c), c.at = "send", Head(c.left).endpoint = "DeviceStart",
         NEW n, n = With([at |-> "send", left |-> Tail(c.left)], c)
  PROVE  /\ Sound(n) /\ n.at = "send" /\ n.outcome # "ok"
         /\ n.token = c.token /\ n.op = c.op /\ n.id = c.id /\ n.touched = c.touched
         /\ n.yard = c.yard /\ n.args = c.args /\ n.todo = c.todo /\ n.bad = c.bad
<1> DEFINE e == [at |-> "send", left |-> Tail(c.left)]
<1>1. DOMAIN e = {"at", "left"} /\ e.at = "send" /\ e.left = Tail(c.left)
  OBVIOUS
<1>2. n = With(e, c) /\ DOMAIN c = CallFields
  BY DEF Sound
<1> HIDE DEF e
<1>3. DOMAIN e \subseteq CallFields
  BY <1>1 DEF CallFields
<1>4. /\ DOMAIN n = CallFields
      /\ \A f \in CallFields : n[f] = IF f \in DOMAIN e THEN e[f] ELSE c[f]
  <2> DEFINE m == With(e, c)
  <2>1. /\ DOMAIN m = CallFields
        /\ \A f \in CallFields : m[f] = IF f \in DOMAIN e THEN e[f] ELSE c[f]
    BY <1>2, <1>3, WithFields
  <2>2. n = m
    BY <1>2
  <2> HIDE DEF m
  <2> QED BY <2>1, <2>2
<1>5. /\ n.at = "send" /\ n.left = Tail(c.left)
      /\ n.surface = c.surface /\ n.op = c.op /\ n.profile = c.profile /\ n.yard = c.yard
      /\ n.key = c.key /\ n.touched = c.touched /\ n.todo = c.todo /\ n.id = c.id /\ n.env = c.env
      /\ n.shown = c.shown /\ n.outcome = c.outcome /\ n.failing = c.failing /\ n.token = c.token
      /\ n.args = c.args /\ n.bad = c.bad
  BY <1>1, <1>4 DEF CallFields
<1>6. Leads(c)
  BY DEF Sound, Running
<1>7. Tail(c.left) # << >>
  <2>1. ~c.failing => c.left[Len(c.left)].endpoint # "DeviceStart"
    <3>1. Suits(c.op, Requests[c.op])
      BY <1>6, RequestsSuit DEF Leads
    <3> QED BY <1>6, <3>1 DEF Leads, Suits, Ends, Final
  <2>2. c.failing => c.left[Len(c.left)].endpoint # "DeviceStart"
    BY <1>6 DEF Leads
  <2> QED BY <1>6, <2>1, <2>2, TailLeads
<1>8. Leads(n)
  <2>1. /\ Tail(c.left) \in Seq({Tail(c.left)[i] : i \in DOMAIN Tail(c.left)})
        /\ \A i \in DOMAIN Tail(c.left) : Fits(c.op, Tail(c.left)[i].endpoint)
        /\ Tail(c.left)[Len(Tail(c.left))] = c.left[Len(c.left)]
    BY <1>6, <1>7, TailLeads
  <2> DEFINE rest == Tail(c.left)
  <2>2. n.left = rest /\ n.op = c.op /\ n.failing = c.failing /\ rest # << >>
    BY <1>5, <1>7
  <2> HIDE DEF rest
  <2>3. /\ rest \in Seq({rest[i] : i \in DOMAIN rest})
        /\ \A i \in DOMAIN rest : Fits(c.op, rest[i].endpoint)
        /\ rest[Len(rest)] = c.left[Len(c.left)]
    BY <2>1 DEF rest
  <2> QED BY <1>6, <2>2, <2>3 DEF Leads
<1>9. Sound(n)
  BY <1>4, <1>5, <1>8 DEF Sound, Running, Adding, Holding
<1>10. n.outcome # "ok"
  BY <1>5, <1>9, ClientsAssumption DEF Sound
<1> QED BY <1>5, <1>9, <1>10

(* A call goes from one step of handling its credential to another.        *)
LEMMA Shifts ==
  ASSUME NEW c, Sound(c), NEW at, NEW given \in Secrets \cup {Absent},
         NEW n, n = With([at |-> at, token |-> given], c),
         \/ c.at \in Running /\ at \in Running /\ (c.env => given = Absent)
         \/ c.at \in Running /\ at = "forget" /\ c.op = "logout"
         \/ c.at \in Running /\ at = "keep" /\ c.op = "login"
         \/ c.at \in Adding /\ at \in Adding,
         at \in {"refresh", "save", "forget"} => c.profile = "cloud",
         at \in Holding => given # Absent
  PROVE  /\ Sound(n) /\ n.at = at /\ n.token = given /\ n.outcome # "ok"
         /\ n.op = c.op /\ n.id = c.id /\ n.touched = c.touched /\ n.profile = c.profile
         /\ n.yard = c.yard /\ n.args = c.args /\ n.todo = c.todo /\ n.bad = c.bad
<1> DEFINE e == [at |-> at, token |-> given]
<1>1. DOMAIN e = {"at", "token"} /\ e.at = at /\ e.token = given
  OBVIOUS
<1>2. n = With(e, c) /\ DOMAIN c = CallFields
  BY DEF Sound
<1> HIDE DEF e
<1>3. DOMAIN e \subseteq CallFields
  BY <1>1 DEF CallFields
<1>4. /\ DOMAIN n = CallFields
      /\ \A f \in CallFields : n[f] = IF f \in DOMAIN e THEN e[f] ELSE c[f]
  <2> DEFINE m == With(e, c)
  <2>1. /\ DOMAIN m = CallFields
        /\ \A f \in CallFields : m[f] = IF f \in DOMAIN e THEN e[f] ELSE c[f]
    BY <1>2, <1>3, WithFields
  <2>2. n = m
    BY <1>2
  <2> HIDE DEF m
  <2> QED BY <2>1, <2>2
<1>5. /\ n.at = at /\ n.token = given
      /\ n.surface = c.surface /\ n.op = c.op /\ n.profile = c.profile /\ n.yard = c.yard
      /\ n.key = c.key /\ n.touched = c.touched /\ n.todo = c.todo /\ n.id = c.id /\ n.env = c.env
      /\ n.shown = c.shown /\ n.outcome = c.outcome /\ n.failing = c.failing /\ n.left = c.left
      /\ n.args = c.args /\ n.bad = c.bad
  BY <1>1, <1>4 DEF CallFields
<1>6. c.outcome = Absent
  BY DEF Sound, Running, Adding
<1>7. at \in Running => Leads(n)
  <2> SUFFICES ASSUME at \in Running PROVE Leads(n)
    OBVIOUS
  <2>1. Leads(c)
    BY DEF Sound, Running, Adding
  <2> QED BY <1>5, <2>1 DEF Leads
<1>8. Sound(n)
  BY <1>4, <1>5, <1>6, <1>7 DEF Sound, Running, Adding, Holding
<1> QED BY <1>5, <1>6, <1>8, ClientsAssumption

-----------------------------------------------------------------------------
(* A request and its answer.                                               *)

(* What a request may do to the services.                                  *)
Serves(p, e, ok) ==
  /\ Grown(yards, yards')
  /\ yards' \in Seq(YardRow)
  /\ served \subseteq served'
  /\ (ok /\ e = "FinaliseYardDeploy") => <<proc[p].yard, p>> \in served'
  /\ seen \subseteq seen' /\ applied' \in [SupportsIdempotency -> Nat]
  /\ \A f \in SupportsIdempotency : applied'[f] = IF <<f, "key">> \in seen' THEN 1 ELSE 0
  /\ (ok /\ e \in SupportsIdempotency /\ proc[p].key # Absent) => <<e, "key">> \in seen'
  /\ live' \subseteq live /\ live \ {proc[p].token} \subseteq live'
  /\ live' # live => ok /\ e = "Logout" /\ ~proc[p].env

LEMMA GrownSame == \A list : Grown(list, list)
  BY DEF Grown

LEMMA UntouchedKeeps ==
  ASSUME ClientsInv, NEW p \in Procs, NEW e, NEW ok \in BOOLEAN, ~ok,
         UNCHANGED <<live, yards, seen, applied, served>>
  PROVE  Serves(p, e, ok)
<1>1. /\ yards \in Seq(YardRow)
      /\ applied \in [SupportsIdempotency -> Nat]
      /\ \A f \in SupportsIdempotency : applied[f] = IF <<f, "key">> \in seen THEN 1 ELSE 0
  BY DEF ClientsInv, ClientsTyped, RetriesHold
<1> QED BY <1>1, GrownSame DEF Serves

(* A yard is marked.                                                       *)
LEMMA YardsMarked ==
  ASSUME NEW list \in Seq(YardRow),
         NEW id \in DOMAIN list, NEW later,
         \/ later = [list EXCEPT ![id].current = TRUE]
         \/ later = [list EXCEPT ![id].gone = TRUE]
  PROVE  /\ later \in Seq(YardRow)
         /\ Grown(list, later)
<1>1. list[id] \in YardRow
  OBVIOUS
<1>2. PICK row \in YardRow : row.name = list[id].name /\ later = [list EXCEPT ![id] = row]
  <2>1. CASE later = [list EXCEPT ![id].current = TRUE]
    <3>1. [list[id] EXCEPT !.current = TRUE] \in YardRow
          /\ [list[id] EXCEPT !.current = TRUE].name = list[id].name
      BY <1>1 DEF YardRow
    <3> QED BY <2>1, <3>1
  <2>2. CASE later = [list EXCEPT ![id].gone = TRUE]
    <3>1. [list[id] EXCEPT !.gone = TRUE] \in YardRow
          /\ [list[id] EXCEPT !.gone = TRUE].name = list[id].name
      BY <1>1 DEF YardRow
    <3> QED BY <2>2, <3>1
  <2> QED BY <2>1, <2>2
<1>4. later \in Seq(YardRow) /\ DOMAIN later = DOMAIN list
      /\ \A i \in DOMAIN list : later[i] = IF i = id THEN row ELSE list[i]
  BY <1>2
<1>5. Grown(list, later)
  BY <1>2, <1>4 DEF Grown
<1> QED BY <1>4, <1>5

LEMMA EffectKeeps ==
  ASSUME ClientsInv, NEW p \in Procs, proc[p].at = "send", NEW e, NEW ok \in BOOLEAN, Effect(p, e, ok)
  PROVE  Serves(p, e, ok)
<1> DEFINE c == proc[p]
           id == c.id
           digest == RetryDigest(e, c.key)
           keyed == e \in SupportsIdempotency /\ c.key # Absent
<1>1. Sound(c) /\ yards \in Seq(YardRow) /\ live \subseteq Secrets /\ applied \in [SupportsIdempotency -> Nat]
      /\ \A f \in SupportsIdempotency : applied[f] = IF <<f, "key">> \in seen THEN 1 ELSE 0
  BY DEF ClientsInv, ClientsTyped, CallsSound, RetriesHold
<1>2. /\ Grown(yards, yards) /\ "StartYardDeploy" \notin SupportsIdempotency
      /\ "FinaliseYardDeploy" \notin SupportsIdempotency /\ "DeleteWebYard" \notin SupportsIdempotency
      /\ "Logout" \notin SupportsIdempotency
  BY DEF Grown, SupportsIdempotency
<1>3. CASE /\ e = "StartYardDeploy" /\ ok
           /\ \/ UNCHANGED yards
              \/ yards' = Append(yards, [name |-> c.yard, current |-> FALSE, gone |-> FALSE])
           /\ UNCHANGED <<live, seen, applied, served>>
  <2>1. CASE UNCHANGED yards
    BY <1>1, <1>2, <1>3, <2>1 DEF Serves
  <2>2. CASE yards' = Append(yards, [name |-> c.yard, current |-> FALSE, gone |-> FALSE])
    <3> DEFINE row == [name |-> c.yard, current |-> FALSE, gone |-> FALSE]
    <3>1. row \in YardRow
      BY <1>1 DEF Sound, YardRow
    <3> HIDE DEF row
    <3>2. yards' \in Seq(YardRow) /\ Len(yards') = Len(yards) + 1 /\ \A i \in 1 .. Len(yards) : yards'[i] = yards[i]
      BY <1>1, <2>2, <3>1 DEF row
    <3>3. Grown(yards, yards')
      BY <1>1, <3>2 DEF Grown
    <3> QED BY <1>1, <1>2, <1>3, <3>2, <3>3 DEF Serves
  <2> QED BY <1>3, <2>1, <2>2
<1>4. CASE UNCHANGED <<live, yards, seen, applied, served>> /\ ~ok
  BY <1>1, <1>2, <1>4 DEF Serves
<1>5. CASE /\ e = "FinaliseYardDeploy" /\ ok = There(id)
           /\ yards' = IF ok THEN [yards EXCEPT ![id].current = TRUE] ELSE yards
           /\ served' = IF ok THEN served \cup {<<c.yard, p>>} ELSE served
           /\ UNCHANGED <<live, seen, applied>>
  <2>1. CASE ~ok
    BY <1>1, <1>2, <1>5, <2>1 DEF Serves
  <2>2. CASE ok
    <3>1. id \in DOMAIN yards /\ yards' = [yards EXCEPT ![id].current = TRUE]
      BY <1>5, <2>2 DEF There
    <3>2. yards' \in Seq(YardRow) /\ Grown(yards, yards')
      BY <1>1, <3>1, YardsMarked
    <3> QED BY <1>1, <1>2, <1>5, <2>2, <3>2 DEF Serves
  <2> QED BY <2>1, <2>2
<1>6. CASE /\ e = "DeleteWebYard" /\ ok = There(id)
           /\ yards' = IF ok THEN [yards EXCEPT ![id].gone = TRUE] ELSE yards
           /\ UNCHANGED <<live, seen, applied, served>>
  <2>1. CASE ~ok
    BY <1>1, <1>2, <1>6, <2>1 DEF Serves
  <2>2. CASE ok
    <3>1. id \in DOMAIN yards /\ yards' = [yards EXCEPT ![id].gone = TRUE]
      BY <1>6, <2>2 DEF There
    <3>2. yards' \in Seq(YardRow) /\ Grown(yards, yards')
      BY <1>1, <3>1, YardsMarked
    <3> QED BY <1>1, <1>2, <1>6, <2>2, <3>2 DEF Serves
  <2> QED BY <2>1, <2>2
<1>7. CASE /\ e = "Logout"
           /\ ok = (c.env \/ c.token \in live)
           /\ live' = live \ {c.token}
           /\ UNCHANGED <<yards, seen, applied, served>>
  <2>1. c.env => live' = live
    <3>1. c.env => c.token = Absent
      BY <1>1 DEF Sound, Running
    <3> QED BY <1>1, <1>7, <3>1, ClientsAssumption
  <2>2. ~ok => live' = live
    BY <1>7
  <2> QED BY <1>1, <1>2, <1>7, <2>1, <2>2 DEF Serves
<1>8. CASE /\ keyed /\ ok
           /\ seen' = seen \cup {digest}
           /\ applied' = IF digest \in seen THEN applied ELSE [applied EXCEPT ![e] = @ + 1]
           /\ UNCHANGED <<live, yards, served>>
  <2>1. digest = <<e, "key">>
    BY <1>1, <1>8 DEF Sound, RetryDigest
  <2> HIDE DEF digest
  <2>2. applied' \in [SupportsIdempotency -> Nat]
    BY <1>1, <1>8
  <2>3. ASSUME NEW f \in SupportsIdempotency
        PROVE  applied'[f] = IF <<f, "key">> \in seen' THEN 1 ELSE 0
    <3>1. CASE f = e
      BY <1>1, <1>8, <2>1, <3>1
    <3>2. CASE f # e
      <4>1. <<f, "key">> # digest
        BY <2>1, <3>2
      <4>2. applied'[f] = applied[f]
        BY <1>1, <1>8, <3>2
      <4> QED BY <1>1, <1>8, <4>1, <4>2
    <3> QED BY <3>1, <3>2
  <2>4. <<e, "key">> \in seen' /\ seen \subseteq seen' /\ e # "FinaliseYardDeploy"
    BY <1>2, <1>8, <2>1
  <2> QED BY <1>1, <1>2, <1>8, <2>2, <2>3, <2>4 DEF Serves
<1>9. CASE /\ e \notin {"StartYardDeploy", "FinaliseYardDeploy", "DeleteWebYard", "Logout"}
           /\ ~keyed /\ UNCHANGED <<live, yards, seen, applied, served>>
  BY <1>1, <1>2, <1>9 DEF Serves
<1> HIDE DEF digest, keyed
<1> QED BY <1>3, <1>4, <1>5, <1>6, <1>7, <1>8, <1>9 DEF Effect, digest, keyed

(* What the call of terminal p becomes in a step that leaves the stores    *)
(* alone.                                                                  *)
Becomes(p, n) ==
  /\ Replaced(p, n) /\ Sound(n)
  /\ n.token \in {Absent, proc[p].token, store["cloud"], store["home"]}
  /\ n.at \in {"load", "refresh", "send", "answered", "forget"}
  /\ YardsNamed(n, yards') /\ Published(n, p, served') /\ Recorded(n, seen')

LEMMA FailureBecomes ==
  ASSUME ClientsInv, NEW p \in Procs, proc[p].at \in Running \cup Adding, Update(p, Failure(p)),
         Grown(yards, yards'), served \subseteq served'
  PROVE  \E n : Becomes(p, n)
<1> DEFINE n == With(Failure(p), proc[p])
<1>1. Replaced(p, n)
  BY UpdateReplaces DEF ClientsInv
<1>2. Sound(proc[p]) /\ YardsNamed(proc[p], yards') /\ Published(proc[p], p, served')
  BY NamedStill, PublishedStill DEF ClientsInv, CallsSound, YardsHold, DeploysHold
<1>3. /\ Sound(n) /\ n.token \in {proc[p].token, Absent} /\ n.at \in {"load", "answered"}
      /\ YardsNamed(n, yards') /\ Published(n, p, served') /\ n.outcome # "ok"
  BY <1>2, FailureHolds
<1> HIDE DEF n
<1>4. Becomes(p, n)
  BY <1>1, <1>3 DEF Becomes, Recorded
<1> QED BY <1>4

LEMMA ReceiveBecomes ==
  ASSUME ClientsInv, NEW p \in Procs, proc[p].at = "send", NEW e, e = Head(proc[p].left).endpoint,
         Available(e, Cloud(p)), NEW ok \in BOOLEAN, Serves(p, e, ok), Receive(p, e, ok)
  PROVE  \E n : Becomes(p, n) /\ (live' # live => n.at = "forget")
<1> DEFINE c == proc[p]
           m == With(Proceed(p), c)
<1>1. Sound(c) /\ YardsNamed(c, yards) /\ Published(c, p, served)
  BY DEF ClientsInv, CallsSound, YardsHold, DeploysHold
<1>2. Grown(yards, yards') /\ served \subseteq served' /\ (live' # live => ok /\ e = "Logout" /\ ~c.env)
  BY DEF Serves
<1>3. ASSUME Update(p, Failure(p)), live' = live
      PROVE  \E n : Becomes(p, n) /\ (live' # live => n.at = "forget")
  BY <1>2, <1>3, FailureBecomes DEF Running
<1>4. CASE ~ok
  BY <1>2, <1>3, <1>4 DEF Receive
<1>5. YardsNamed(c, yards') /\ Published(c, p, served')
  BY <1>1, <1>2, NamedStill, PublishedStill
<1>6. ASSUME ok
      PROVE  /\ Answered(p, yards', served', seen')
             /\ Sound(m) /\ m.token \in {c.token, Absent} /\ m.at \in {"load", "answered"}
             /\ m.op = c.op /\ m.touched = c.touched
             /\ c.op # "deploy_web_yard" => m.yard = c.yard
             /\ Tail(c.left) # << >> => m.yard = c.yard
             /\ YardsNamed(m, yards') /\ Published(m, p, served') /\ Recorded(m, seen')
  <2>1. Answered(p, yards', served', seen')
    BY <1>5, <1>6 DEF Answered, Serves
  <2> HIDE DEF m
  <2>2. m = With(Proceed(p), c)
    BY DEF m
  <2> QED BY <1>1, <2>1, <2>2, ProceedHolds
<1>7. Fits(c.op, e) /\ Leads(c)
  BY <1>1, TailLeads DEF Sound, Running
<1>8. ASSUME ok, Update(p, Proceed(p)), live' = live
      PROVE  \E n : Becomes(p, n) /\ (live' # live => n.at = "forget")
  <2>1. Replaced(p, m)
    BY <1>8, UpdateReplaces DEF ClientsInv
  <2> HIDE DEF m
  <2>2. Becomes(p, m)
    BY <1>6, <1>8, <2>1 DEF Becomes
  <2> QED BY <1>8, <2>2
<1>9. ASSUME ok, NEW id, Update(p, With([id |-> id], Proceed(p))), live' = live,
             id \in DOMAIN yards', m.yard # Absent => yards'[id].name = m.yard
      PROVE  \E n : Becomes(p, n) /\ (live' # live => n.at = "forget")
  <2> DEFINE n == With(With([id |-> id], Proceed(p)), c)
  <2>1. Replaced(p, n)
    BY <1>9, UpdateReplaces DEF ClientsInv
  <2>2. n = With([id |-> id], m)
    BY WithTwice
  <2> HIDE DEF n, m
  <2>3. Sound(n) /\ n.id = id /\ \A f \in CallFields \ {"id"} : n[f] = m[f]
    BY <1>6, <1>9, <2>2, IdChange
  <2>4. /\ n.at = m.at /\ n.op = m.op /\ n.key = m.key /\ n.token = m.token /\ n.yard = m.yard
        /\ n.todo = m.todo /\ n.touched = m.touched /\ n.outcome = m.outcome
        /\ n.args = m.args /\ n.bad = m.bad
    BY <2>3 DEF CallFields
  <2>5. YardsNamed(n, yards')
    BY <1>6, <1>9, <2>3, <2>4 DEF YardsNamed
  <2>6. Published(n, p, served') /\ Recorded(n, seen')
    BY <1>6, <1>9, <2>4 DEF Published, Recorded
  <2>7. Becomes(p, n)
    BY <1>6, <1>9, <2>1, <2>3, <2>4, <2>5, <2>6 DEF Becomes
  <2> QED BY <1>9, <2>7
<1> HIDE DEF m
<1>10. CASE ok /\ e = "ListWebYards" /\ c.op = "deploy_web_yard"
  <2>1. live' = live
    BY <1>2, <1>10
  <2>2. Update(p, Proceed(p)) \/ Update(p, Failure(p))
    BY <1>10 DEF Receive
  <2> QED BY <1>3, <1>8, <1>10, <2>1, <2>2
<1>11. CASE ok /\ e = "ListWebYards" /\ c.op \notin {"deploy_web_yard", "list_web_yards"}
  <2>1. live' = live
    BY <1>2, <1>11
  <2>2. \/ \E id \in SelectYard(c.yard) : Update(p, With([id |-> id], Proceed(p)))
        \/ Update(p, Failure(p))
    BY <1>11 DEF Receive
  <2>3. ASSUME NEW id \in SelectYard(c.yard), Update(p, With([id |-> id], Proceed(p)))
        PROVE  \E n : Becomes(p, n) /\ (live' # live => n.at = "forget")
    <3>1. id \in DOMAIN yards /\ (c.yard # Absent => yards[id].name = c.yard)
      BY <2>3 DEF SelectYard, Named, There
    <3>2. id \in DOMAIN yards' /\ (c.yard # Absent => yards'[id].name = c.yard)
      BY <1>2, <3>1 DEF Grown
    <3>3. m.yard = c.yard
      BY <1>6, <1>11
    <3> QED BY <1>9, <1>11, <2>1, <2>3, <3>2, <3>3
  <2> QED BY <1>3, <2>1, <2>2, <2>3
<1>12. CASE ok /\ e = "StartYardDeploy"
  <2>1. live' = live
    BY <1>2, <1>12
  <2>2. PICK id \in {i \in DOMAIN yards' : ~yards'[i].gone /\ yards'[i].name = c.yard} :
             Update(p, With([id |-> id], Proceed(p)))
    BY <1>12 DEF Receive
  <2>3. m.yard = c.yard
    <3>1. CASE Tail(c.left) # << >>
      BY <1>6, <1>12, <3>1
    <3>2. CASE c.op # "deploy_web_yard"
      BY <1>6, <1>12, <3>2
    <3>3. CASE Tail(c.left) = << >> /\ c.op = "deploy_web_yard"
      <4>1. Head(c.left) = c.left[Len(c.left)]
        BY <1>7, <3>3, TailLeads
      <4> QED BY <1>7, <1>12, <3>3, <4>1, DeployLeads DEF Leads
    <3> QED BY <3>1, <3>2, <3>3
  <2> QED BY <1>9, <1>12, <2>1, <2>2, <2>3
<1>13. CASE ok /\ e \in {"DeleteWebYard", "RollbackWebYard"}
  <2>1. live' = live
    BY <1>2, <1>13
  <2>2. Update(p, With([touched |-> c.id], Proceed(p)))
    BY <1>13 DEF Receive
  <2>3. c.op \in Risky /\ c.op # "deploy_web_yard" /\ c.yard # Absent
    BY <1>1, <1>7, <1>13 DEF Fits, Risky, Sound, Running
  <2> DEFINE n == With(With([touched |-> c.id], Proceed(p)), c)
  <2>4. Replaced(p, n)
    BY <2>2, UpdateReplaces DEF ClientsInv
  <2>5. n = With([touched |-> c.id], m)
    BY WithTwice DEF m
  <2> HIDE DEF n
  <2>6. Sound(n) /\ n.touched = c.id /\ \A f \in CallFields \ {"touched"} : n[f] = m[f]
    BY <1>6, <1>13, <2>3, <2>5, TouchedChange
  <2>7. /\ n.at = m.at /\ n.op = m.op /\ n.key = m.key /\ n.token = m.token /\ n.yard = m.yard
        /\ n.todo = m.todo /\ n.id = m.id /\ n.outcome = m.outcome
        /\ n.args = m.args /\ n.bad = m.bad
    BY <2>6 DEF CallFields
  <2>8. YardsNamed(n, yards')
    <3>1. n.yard = c.yard
      BY <1>6, <1>13, <2>3, <2>7
    <3>2. c.id # Absent => c.id \in DOMAIN yards' /\ yards'[c.id].name = c.yard
      BY <1>5, <2>3 DEF YardsNamed
    <3> QED BY <1>6, <1>13, <2>6, <2>7, <3>1, <3>2 DEF YardsNamed
  <2>9. Published(n, p, served') /\ Recorded(n, seen')
    BY <1>6, <1>13, <2>7 DEF Published, Recorded
  <2>10. Becomes(p, n)
    BY <1>6, <1>13, <2>4, <2>6, <2>7, <2>8, <2>9 DEF Becomes
  <2> QED BY <2>1, <2>10
<1>14. CASE ok /\ e = "Logout" /\ ~c.env
  <2> DEFINE n == With([at |-> "forget", token |-> Absent], c)
  <2>1. Replaced(p, n)
    BY <1>14, UpdateReplaces DEF Receive, ClientsInv
  <2>2. c.op = "logout" /\ c.profile = "cloud"
    BY <1>7, <1>14 DEF Fits, Available, HostedExtension, Cloud
  <2>3. /\ Sound(n) /\ n.at = "forget" /\ n.token = Absent /\ n.outcome # "ok"
        /\ n.op = c.op /\ n.id = c.id /\ n.touched = c.touched /\ n.yard = c.yard
    BY <1>1, <2>2, Shifts DEF Running, Holding
  <2> HIDE DEF n
  <2>4. YardsNamed(n, yards') /\ Published(n, p, served') /\ Recorded(n, seen')
    BY <1>5, <2>2, <2>3 DEF YardsNamed, Published, Recorded
  <2>5. Becomes(p, n)
    BY <2>1, <2>3, <2>4 DEF Becomes
  <2> QED BY <2>3, <2>5
<1>15. CASE ok /\ e = "DeviceStart"
  <2> DEFINE n == With([at |-> "send", left |-> Tail(c.left)], c)
  <2>1. Replaced(p, n)
    BY <1>15, UpdateReplaces DEF Receive, ClientsInv
  <2>2. /\ Sound(n) /\ n.at = "send" /\ n.outcome # "ok"
        /\ n.token = c.token /\ n.op = c.op /\ n.id = c.id /\ n.touched = c.touched
        /\ n.yard = c.yard /\ n.args = c.args /\ n.todo = c.todo /\ n.bad = c.bad
    BY <1>1, <1>15, StartedLogin
  <2> HIDE DEF n
  <2>3. YardsNamed(n, yards') /\ Published(n, p, served') /\ Recorded(n, seen')
    BY <1>5, <2>2 DEF YardsNamed, Published, Recorded, Running
  <2>4. Becomes(p, n)
    BY <2>1, <2>2, <2>3 DEF Becomes
  <2>5. live' = live
    BY <1>2, <1>15
  <2> QED BY <2>4, <2>5
<1>16. CASE /\ ok /\ e \notin {"StartYardDeploy", "DeleteWebYard", "RollbackWebYard", "DeviceStart"}
            /\ ~(e = "Logout" /\ ~c.env)
            /\ ~(e = "ListWebYards" /\ c.op # "list_web_yards")
  <2>1. live' = live
    BY <1>2, <1>16
  <2>2. Update(p, Proceed(p))
    BY <1>16 DEF Receive
  <2> QED BY <1>8, <1>16, <2>1, <2>2
<1> QED BY <1>4, <1>10, <1>11, <1>12, <1>13, <1>14, <1>15, <1>16

-----------------------------------------------------------------------------
(* What a step that replaces the call of terminal p by n must see to.      *)

LEMMA CallsKept ==
  ASSUME CallsSound, NEW p \in Procs, NEW n, Replaced(p, n), Sound(n)
  PROVE  CallsSound'
BY DEF CallsSound, Replaced

LEMMA DutiesKept ==
  ASSUME ClientsInv, NEW p \in Procs, NEW n, Replaced(p, n),
         YardsNamed(n, yards'), Published(n, p, served'), Recorded(n, seen'),
         settings' = settings, Grown(yards, yards'), seen \subseteq seen',
         \A q \in Procs \ {p} : \A y : <<y, q>> \in served => <<y, q>> \in served',
         \A f \in SupportsIdempotency : applied'[f] = IF <<f, "key">> \in seen' THEN 1 ELSE 0
  PROVE  YardsHold' /\ RetriesHold' /\ DeploysHold'
<1>1. \A q \in Procs \ {p} :
        /\ proc'[q] = proc[q] /\ YardsNamed(proc[q], yards) /\ Published(proc[q], q, served)
        /\ Recorded(proc[q], seen)
  BY DEF Replaced, ClientsInv, YardsHold, RetriesHold, DeploysHold
<1>2. \A q \in Procs : YardsNamed(proc'[q], yards')
  <2> SUFFICES ASSUME NEW q \in Procs \ {p} PROVE YardsNamed(proc'[q], yards')
    BY DEF Replaced
  <2> QED BY <1>1, NamedStill
<1>3. \A q \in Procs : Recorded(proc'[q], seen')
  <2> SUFFICES ASSUME NEW q \in Procs \ {p} PROVE Recorded(proc'[q], seen')
    BY DEF Replaced
  <2> QED BY <1>1 DEF Recorded
<1>4. \A q \in Procs : Published(proc'[q], q, served')
  <2> SUFFICES ASSUME NEW q \in Procs \ {p} PROVE Published(proc'[q], q, served')
    BY DEF Replaced
  <2>1. Published(proc[q], q, served')
    BY <1>1, PublishedStill
  <2> QED BY <1>1, <2>1
<1>5. DeploysHold'
  BY <1>4 DEF DeploysHold, Published
<1>6. YardsHold'
  BY <1>2 DEF YardsHold
<1>7. RetriesHold'
  BY <1>3 DEF RetriesHold
<1> QED BY <1>5, <1>6, <1>7

LEMMA TokensKept ==
  ASSUME ClientsInv, NEW p \in Procs, NEW n, Replaced(p, n), store' = store, n.at \notin Holding,
         n.token \in {Absent, proc[p].token, store["cloud"], store["home"]},
         \A q \in Procs \ {p} : proc[q].at \in Holding => proc[q].token \in live',
         \/ store["cloud"] \in live' \cup {Absent}
         \/ faults' # 0
         \/ n.at \in {"save", "forget"}
         \/ proc[p].at \notin {"save", "forget"} /\ \E q \in Procs : proc[q].at \in {"save", "forget"}
  PROVE  TokensHold'
<1>1. /\ TokensHold /\ proc'[p] = n /\ \A q \in Procs \ {p} : proc'[q] = proc[q]
      /\ \A q \in Procs : proc[q].at \in Holding => proc[q].token # Absent
  BY DEF ClientsInv, CallsSound, Sound, Replaced
<1>2. ASSUME NEW q \in Procs, proc'[q].at \in Holding
      PROVE  /\ proc'[q].token \in live'
             /\ proc'[q].token # store'["cloud"] /\ proc'[q].token # store'["home"]
             /\ \A r \in Procs \ {q} : proc'[r].token # proc'[q].token
  <2>1. q \in Procs \ {p} /\ proc'[q] = proc[q] /\ proc[q].at \in Holding
    BY <1>1, <1>2
  <2>2. /\ proc[q].token # store["cloud"] /\ proc[q].token # store["home"] /\ proc[q].token # Absent
        /\ \A r \in Procs \ {q} : proc[r].token # proc[q].token
    BY <1>1, <2>1 DEF TokensHold
  <2>3. proc[q].token # proc[p].token
    BY <2>1, <2>2
  <2>4. \A r \in Procs \ {q} : proc'[r].token # proc'[q].token
    BY <1>1, <2>1, <2>2, <2>3
  <2> QED BY <2>1, <2>2, <2>4
<1>3. \/ store'["cloud"] \in live' \cup {Absent}
      \/ faults' # 0
      \/ \E q \in Procs : proc'[q].at \in {"save", "forget"}
  BY <1>1
<1> QED BY <1>2, <1>3 DEF TokensHold

LEMMA ProfileKept ==
  ASSUME ClientsInv, NEW p \in Procs, NEW n, Replaced(p, n), n.at \notin {"keep_home", "write"},
         store' = store, profiles' = profiles, unspent' => unspent, faults' = 0 => faults = 0,
         proc[p].at = "write" => faults' # 0
  PROVE  ProfileHolds'
<1>1. ProfileHolds /\ proc'[p] = n /\ \A q \in Procs \ {p} : proc'[q] = proc[q]
  BY DEF ClientsInv, Replaced
<1>2. \A q \in Procs : proc'[q].at \in {"keep_home", "write"} =>
       /\ "home" \notin profiles' /\ ~unspent'
       /\ proc'[q].at = "write" => store'["home"] # Absent
       /\ \A r \in Procs \ {q} : proc'[r].at \notin {"keep_home", "write"}
  BY <1>1 DEF ProfileHolds
<1>3. (store'["home"] # Absent /\ "home" \notin profiles' /\ faults' = 0) =>
         \E q \in Procs : proc'[q].at = "write"
  BY <1>1 DEF ProfileHolds
<1>4. /\ unspent' => "home" \notin profiles' /\ store'["home"] = Absent
      /\ "home" \in profiles' => store'["home"] # Absent
  BY <1>1 DEF ProfileHolds
<1> QED BY <1>2, <1>3, <1>4 DEF ProfileHolds

-----------------------------------------------------------------------------
(* Starting a call.                                                        *)

(* A call that has just begun, or was turned away.                         *)
Started(n, p) ==
  /\ Sound(n) /\ n.at \in {"load", "send", "answered", "exchange"} /\ n.token = Absent
  /\ n.id = Absent /\ n.touched = Absent /\ n.outcome # "ok"
  /\ \A record : Published(n, p, record)

LEMMA BaseSound ==
  ASSUME NEW base, DOMAIN base = CallFields,
         \A f \in CallFields \ {"surface", "op", "args", "obeys", "profile", "env", "key"} :
            base[f] = Resting[f],
         base.surface = "tool" => base.op \in DOMAIN Catalog,
         base.surface = "resource" => base.op \in Resources,
         base.key \in {Absent, "key"}, base.key # Absent => base.op \in Keyed
  PROVE  /\ Sound(base) /\ base.at = "idle" /\ base.token = Absent /\ base.id = Absent
         /\ base.touched = Absent /\ base.outcome = Absent /\ base.yard = Absent
         /\ base.todo = << >> /\ ~base.failing /\ ~base.bad
<1>1. /\ Resting.at = "idle" /\ Resting.token = Absent /\ Resting.yard = Absent
      /\ Resting.todo = << >> /\ Resting.touched = Absent /\ Resting.outcome = Absent
      /\ Resting.id = Absent /\ ~Resting.failing /\ ~Resting.bad
  BY DEF Resting, Nothing
<1>2. /\ base.at = "idle" /\ base.token = Absent /\ base.yard = Absent
      /\ base.todo = << >> /\ base.touched = Absent /\ base.outcome = Absent /\ base.id = Absent
      /\ base.failing = Resting.failing /\ base.bad = Resting.bad
  BY <1>1 DEF CallFields
<1>3. << >> \in Seq(Names) /\ Absent # "ok"
  BY ClientsAssumption
<1>4. Sound(base)
  BY <1>2, <1>3 DEF Sound, Running, Adding, Holding
<1> QED BY <1>1, <1>2, <1>4

LEMMA TurnedAway ==
  ASSUME NEW p, NEW base, Sound(base), base.touched = Absent, NEW outcome, outcome # "ok",
         NEW n, n = With(End(outcome, {}), base)
  PROVE  Started(n, p)
<1>1. Sound(n)
  BY EndSound
<1>2. /\ n.at = "answered" /\ n.token = Absent /\ n.id = Absent /\ n.touched = Absent
      /\ n.outcome = outcome
  BY EndFields DEF Sound
<1> QED BY <1>1, <1>2 DEF Started, Published, Running

LEMMA LaunchStarts ==
  ASSUME ClientsInv, NEW p \in Procs, NEW surface, NEW op \in Operations, NEW args, NEW profile, NEW env,
         NEW key \in {Absent, "key"}, key # Absent => op \in Keyed,
         surface = "tool" => op \in DOMAIN Catalog, surface = "resource" => op \in Resources,
         NEW name \in Names, op \in Risky => "yard" \in args, NEW agreed,
         Launch(p, surface, op, args, profile, env, key, name, agreed)
  PROVE  \E n : Replaced(p, n) /\ Started(n, p)
<1> DEFINE base == [Resting EXCEPT !.surface = surface, !.op = op, !.args = Kept(op, args),
                             !.profile = profile, !.env = env, !.key = key]
           chosen == SelectYards(args, name)
<1>1. /\ DOMAIN base = CallFields
      /\ base.surface = surface /\ base.op = op /\ base.args = Kept(op, args)
      /\ base.profile = profile /\ base.env = env /\ base.key = key
  BY DEF Resting, CallFields
<1>2. \A f \in CallFields \ {"surface", "op", "args", "obeys", "profile", "env", "key"} :
            base[f] = Resting[f]
  BY DEF Resting, CallFields
<1>3. /\ DOMAIN proc = Procs
      /\ proc' = [proc EXCEPT ![p] =
          IF Refused(op, args, profile, name, agreed) THEN With(End("failed", {}), base)
          ELSE IF op = "deploy_web_yard"
               THEN With([at |-> "load", yard |-> Head(chosen), todo |-> Tail(chosen),
                          left |-> DeployRequests(args)], base)
          ELSE With([at |-> IF op = "login" THEN "send" ELSE "load",
                     yard |-> IF "yard" \in args THEN name ELSE Absent,
                     left |-> Requests[op]], base)]
  BY DEF Launch, ClientsInv, CallsSound
<1> HIDE DEF base
<1>4. /\ Sound(base) /\ base.at = "idle" /\ base.token = Absent /\ base.id = Absent
      /\ base.touched = Absent /\ base.outcome = Absent /\ base.yard = Absent
      /\ base.todo = << >> /\ ~base.failing /\ ~base.bad
  BY <1>1, <1>2, BaseSound
<1>5. ~Refused(op, args, profile, name, agreed) => profile \in {"cloud", "home"}
  BY DEF Refused, ClientsInv, ClientsTyped
<1>6. Absent \notin Names /\ Absent # "ok"
  BY ClientsAssumption
<1>7. CASE Refused(op, args, profile, name, agreed)
  <2> DEFINE n == With(End("failed", {}), base)
  <2>1. Replaced(p, n)
    BY <1>3, <1>7 DEF Replaced
  <2> HIDE DEF n
  <2>2. Started(n, p)
    BY <1>4, TurnedAway DEF n
  <2> QED BY <2>1, <2>2
<1>8. CASE ~Refused(op, args, profile, name, agreed) /\ op = "deploy_web_yard"
  <2> DEFINE r == DeployRequests(args)
             e == [at |-> "load", yard |-> Head(chosen), todo |-> Tail(chosen), left |-> r]
             n == With(e, base)
  <2>1. Replaced(p, n)
    BY <1>3, <1>8 DEF Replaced
  <2>2. /\ DOMAIN e = {"at", "yard", "todo", "left"} /\ e.at = "load" /\ e.yard = Head(chosen)
        /\ e.todo = Tail(chosen) /\ e.left = r
    OBVIOUS
  <2>3. /\ chosen \in Seq(Names) /\ chosen # << >>
        /\ "all" \in args => \A y \in settings.yards : \E i \in DOMAIN chosen : chosen[i] = y
    BY <1>8, SelectYardsTyped DEF Refused, Nothing, ClientsInv, ClientsTyped
  <2>4. /\ "deploy_web_yard" \in Operations
        /\ r \in Seq({r[i] : i \in DOMAIN r}) /\ r # << >>
        /\ \A i \in DOMAIN r : Fits("deploy_web_yard", r[i].endpoint)
        /\ r[Len(r)].endpoint = Final("deploy_web_yard")
    BY DeployLeads
  <2> HIDE DEF e, chosen, r
  <2>5. /\ DOMAIN n = CallFields
        /\ \A f \in CallFields : n[f] = IF f \in DOMAIN e THEN e[f] ELSE base[f]
    <3>1. DOMAIN e \subseteq CallFields
      BY <2>2 DEF CallFields
    <3> QED BY <1>1, <3>1, WithFields
  <2> HIDE DEF n
  <2>6. /\ n.at = "load" /\ n.yard = Head(chosen) /\ n.todo = Tail(chosen) /\ n.left = r
        /\ n.surface = surface /\ n.op = op /\ n.args = Kept(op, args) /\ n.profile = profile
        /\ n.key = key /\ n.token = Absent /\ n.id = Absent /\ n.touched = Absent
        /\ n.outcome = Absent /\ n.failing = base.failing /\ n.env = env
    BY <1>1, <1>4, <2>2, <2>5 DEF CallFields
  <2>7. Leads(n)
    BY <1>4, <1>8, <2>4, <2>6 DEF Leads
  <2>8. n.yard \in Names /\ n.todo \in Seq(Names)
    BY <2>3, <2>6
  <2>9. Sound(n)
    BY <1>4, <1>5, <1>6, <1>8, <2>5, <2>6, <2>7, <2>8 DEF Sound, Running, Adding, Holding, Risky
  <2>10. ASSUME "all" \in n.args, NEW y \in settings.yards
         PROVE  y = n.yard \/ \E i \in DOMAIN n.todo : n.todo[i] = y
    <3>1. "all" \in args
      BY <2>6, <2>10 DEF Kept
    <3>2. PICK i \in DOMAIN chosen : chosen[i] = y
      BY <2>3, <3>1
    <3>3. chosen[i] = Head(chosen) \/ \E j \in DOMAIN Tail(chosen) : Tail(chosen)[j] = chosen[i]
      BY <2>3, HeadOrTail
    <3> QED BY <2>6, <3>2, <3>3
  <2>11. \A record : Published(n, p, record)
    BY <1>6, <2>6, <2>10 DEF Published
  <2>12. Started(n, p)
    BY <1>6, <2>6, <2>9, <2>11 DEF Started
  <2> QED BY <2>1, <2>12
<1>9. CASE ~Refused(op, args, profile, name, agreed) /\ op # "deploy_web_yard"
  <2> DEFINE r == Requests[op]
             e == [at |-> IF op = "login" THEN "send" ELSE "load",
                   yard |-> IF "yard" \in args THEN name ELSE Absent, left |-> r]
             n == With(e, base)
  <2>1. Replaced(p, n)
    BY <1>3, <1>9 DEF Replaced
  <2>2. /\ DOMAIN e = {"at", "yard", "left"} /\ e.at \in {"send", "load"} /\ e.left = r
        /\ e.yard \in Names \cup {Absent} /\ ("yard" \in args => e.yard \in Names)
    OBVIOUS
  <2>3. Suits(op, r) /\ Final(op) = r[Len(r)].endpoint
    BY RequestsSuit DEF Final
  <2> HIDE DEF e, r
  <2>4. /\ DOMAIN n = CallFields
        /\ \A f \in CallFields : n[f] = IF f \in DOMAIN e THEN e[f] ELSE base[f]
    <3>1. DOMAIN e \subseteq CallFields
      BY <2>2 DEF CallFields
    <3> QED BY <1>1, <3>1, WithFields
  <2> HIDE DEF n
  <2>5. /\ n.at = e.at /\ n.yard = e.yard /\ n.todo = << >> /\ n.left = r
        /\ n.surface = surface /\ n.op = op /\ n.profile = profile
        /\ n.key = key /\ n.token = Absent /\ n.id = Absent /\ n.touched = Absent
        /\ n.outcome = Absent /\ n.failing = base.failing /\ n.env = env
    BY <1>1, <1>4, <2>2, <2>4 DEF CallFields
  <2>6. Leads(n)
    BY <1>4, <2>3, <2>5 DEF Leads, Suits
  <2>7. << >> \in Seq(Names) /\ (op \in Risky => e.yard # Absent)
    BY <1>6, <2>2
  <2>8. Sound(n)
    BY <1>5, <1>6, <1>9, <2>2, <2>4, <2>5, <2>6, <2>7 DEF Sound, Running, Adding, Holding
  <2>9. \A record : Published(n, p, record)
    BY <1>9, <2>5 DEF Published
  <2>10. Started(n, p)
    BY <1>6, <2>2, <2>5, <2>8, <2>9 DEF Started
  <2> QED BY <2>1, <2>10
<1> QED BY <1>7, <1>8, <1>9

-----------------------------------------------------------------------------
(* The invariant holds in every initial state and after every step.        *)

LEMMA ClientsInitInv == ClientsInit => ClientsInv
<1> SUFFICES ASSUME ClientsInit PROVE ClientsInv
  OBVIOUS
<1>1. proc = [p \in Procs |-> Resting] /\ \A p \in Procs : proc[p] = Resting
  BY DEF ClientsInit
<1>2. /\ Resting.id = Absent /\ Resting.at = "idle" /\ Resting.token = Absent /\ Sound(Resting)
      /\ Resting.op = Absent /\ Resting.outcome = Absent /\ Resting.touched = Absent
  BY RestingSound
<1>3. CallsSound
  BY <1>1, <1>2 DEF CallsSound
<1>4. PICK added \in BOOLEAN :
        /\ \E signed \in BOOLEAN :
             store = [cloud |-> IF signed THEN 1 ELSE Absent, home |-> IF added THEN 2 ELSE Absent]
        /\ profiles = IF added THEN {"home"} ELSE {}
        /\ unspent = ~added
        /\ live = {store.cloud, store.home} \ {Absent}
  BY DEF ClientsInit
<1>5. /\ DOMAIN store = {"cloud", "home"} /\ store["cloud"] \in {1, Absent}
      /\ store["home"] = IF added THEN 2 ELSE Absent
  BY <1>4
<1>6. settings.yards \subseteq Names
  BY ClientsAssumption DEF ClientsInit
<1>7. yards \in Seq(YardRow)
  <2> DEFINE row == [name |-> "main", current |-> TRUE, gone |-> FALSE]
  <2>1. yards \in {Nothing, << row >>}
    BY DEF ClientsInit
  <2>2. row \in YardRow
    BY ClientsAssumption DEF YardRow
  <2> HIDE DEF row
  <2>3. << row >> \in Seq(YardRow)
    BY <2>2
  <2>4. Nothing \in Seq(YardRow)
    BY DEF Nothing
  <2> QED BY <2>1, <2>3, <2>4
<1>8. ClientsTyped
  <2>1. {1, 2} \subseteq Secrets
    BY ClientsAssumption
  <2>2. faults \in Nat /\ applied \in [SupportsIdempotency -> Nat]
    BY DEF ClientsInit
  <2> QED BY <1>4, <1>5, <1>6, <1>7, <2>1, <2>2 DEF ClientsTyped
<1>9. TokensHold
  BY <1>1, <1>2, <1>4, <1>5 DEF TokensHold, Holding
<1>10. ProfileHolds
  <2>1. 2 # Absent
    BY ClientsAssumption
  <2> QED BY <1>1, <1>2, <1>4, <1>5, <2>1 DEF ProfileHolds
<1>11. YardsHold
  BY <1>1, <1>2 DEF YardsHold, YardsNamed
<1>12. RetriesHold
  <2>1. Absent # "ok" /\ seen = {} /\ applied = [e \in SupportsIdempotency |-> 0]
    BY ClientsAssumption DEF ClientsInit
  <2> QED BY <1>1, <1>2, <2>1 DEF RetriesHold, Recorded
<1>13. DeploysHold
  <2>1. Absent # "ok"
    BY ClientsAssumption
  <2> QED BY <1>1, <1>2, <2>1 DEF DeploysHold, Published, Running
<1> QED BY <1>3, <1>8, <1>9, <1>10, <1>11, <1>12, <1>13 DEF ClientsInv

(* A call begins.                                                          *)
LEMMA StartedKeeps ==
  ASSUME ClientsInv, NEW p \in Procs, proc[p] = Resting, NEW n, Replaced(p, n), Started(n, p),
         UNCHANGED <<files, service, faults>>
  PROVE  ClientsInv'
<1>1. /\ UNCHANGED <<store, profiles, settings>> /\ UNCHANGED <<live, unspent, yards, seen, applied, served>>
      /\ faults' = faults
  BY DEF files, service
<1>2. CallsSound' /\ ClientsTyped'
  BY <1>1, CallsKept DEF ClientsInv, ClientsTyped, Started
<1>3. /\ TokensHold
      /\ \A f \in SupportsIdempotency : applied[f] = IF <<f, "key">> \in seen THEN 1 ELSE 0
  BY DEF ClientsInv, RetriesHold
<1>4. proc[p].at = "idle" /\ n.at \notin Holding \cup {"keep_home", "write"} /\ n.token = Absent
  BY RestingSound DEF Started, Holding
<1>5. TokensHold'
  BY <1>1, <1>3, <1>4, TokensKept DEF TokensHold
<1>6. ProfileHolds'
  BY <1>1, <1>4, ProfileKept
<1>7. YardsNamed(n, yards') /\ Recorded(n, seen') /\ Published(n, p, served')
  BY DEF Started, YardsNamed, Recorded
<1>8. YardsHold' /\ RetriesHold' /\ DeploysHold'
  BY <1>1, <1>3, <1>7, GrownSame, DutiesKept
<1> QED BY <1>2, <1>5, <1>6, <1>8 DEF ClientsInv

LEMMA RunCommandKeeps == ASSUME ClientsInv, NEW p \in Procs, RunCommand(p) PROVE ClientsInv'
<1>1. PICK op \in DOMAIN Commands :
        /\ MayRun(p, op)
        /\ \E args \in Offered(Commands, op), profile \in settings.race.profiles,
              env \in settings.race.envs, key \in KeysFor(op), agreed \in BOOLEAN :
             \E name \in NamesFor(args) :
                  Launch(p, "command", op, args, profile, env, key, name, agreed)
  BY DEF RunCommand
<1>2. PICK args \in Offered(Commands, op), profile \in settings.race.profiles,
           env \in settings.race.envs, key \in KeysFor(op), agreed \in BOOLEAN :
             \E name \in NamesFor(args) :
                  Launch(p, "command", op, args, profile, env, key, name, agreed)
  BY <1>1
<1>3. PICK name \in NamesFor(args) :
                  Launch(p, "command", op, args, profile, env, key, name, agreed)
  BY <1>2
<1>4. op \in Operations
  BY CommandsCover
<1>5. op \in Risky => "yard" \in args
  BY CommandsNameTheYard DEF Offered
<1>6. key \in {Absent, "key"} /\ (key # Absent => op \in Keyed)
  <2>1. ASSUME NEW i \in DOMAIN Requests[op],
               Requests[op][i].endpoint \in SupportsIdempotency \ {"RequestUpload"}
        PROVE  op \in Keyed
    BY <1>4, <2>1, RequestsSuit DEF Suits, Fits
  <2> QED BY <2>1 DEF KeysFor
<1>7. name \in Names
  BY ClientsAssumption DEF NamesFor
<1>8. PICK n : Replaced(p, n) /\ Started(n, p)
  BY <1>3, <1>4, <1>5, <1>6, <1>7, LaunchStarts
<1>9. proc[p] = Resting /\ UNCHANGED <<files, service, faults>>
  BY <1>1 DEF RunCommand, MayRun
<1> QED BY <1>8, <1>9, StartedKeeps

LEMMA CallToolKeeps == ASSUME ClientsInv, NEW p \in Procs, CallTool(p) PROVE ClientsInv'
<1>1. PICK op \in DOMAIN Catalog :
        /\ MayRun(p, op)
        /\ \E args \in Offered(Catalog, op) \cup Malformed(op) :
            \/ proc' = [proc EXCEPT ![p] =
                       With(End("not_initialized", {}),
                            [Resting EXCEPT !.surface = "tool", !.op = op])]
            \/ proc' = [proc EXCEPT ![p] =
                       With(End("invalid_params", {}),
                            [Resting EXCEPT !.surface = "tool", !.op = op, !.args = args,
                                            !.obeys = Admits(Catalog, op, args)])]
            \/ /\ Admits(Tools, op, args)
               /\ \E name \in NamesFor(args) :
                    Launch(p, "tool", op, args, session[p].profile, FALSE, Absent, name, TRUE)
  BY DEF CallTool
<1>2. proc[p] = Resting /\ UNCHANGED <<files, service, faults>>
  BY <1>1 DEF CallTool, MayRun
<1>3. op \in Operations
  BY CatalogCover
<1>4. ASSUME NEW base, NEW outcome, outcome # "ok", DOMAIN base = CallFields,
             base.surface = "tool", base.op = op,
             \A f \in CallFields \ {"surface", "op", "args", "obeys"} : base[f] = Resting[f],
             proc' = [proc EXCEPT ![p] = With(End(outcome, {}), base)]
      PROVE  ClientsInv'
  <2>1. base.key = Absent
    <3>1. Resting.key = Absent
      BY DEF Resting
    <3> QED BY <1>4, <3>1 DEF CallFields
  <2>2. Sound(base) /\ base.touched = Absent
    <3>1. \A f \in CallFields \ {"surface", "op", "args", "obeys", "profile", "env", "key"} :
            base[f] = Resting[f]
      BY <1>4
    <3>2. base.surface # "resource" /\ base.key \in {Absent, "key"}
      BY <1>4, <2>1
    <3> QED BY <1>4, <2>1, <3>1, <3>2, BaseSound
  <2> DEFINE n == With(End(outcome, {}), base)
  <2>3. Replaced(p, n)
    BY <1>4 DEF Replaced, ClientsInv, CallsSound
  <2>4. Started(n, p)
    BY <1>4, <2>2, TurnedAway
  <2> HIDE DEF n
  <2> QED BY <1>2, <2>3, <2>4, StartedKeeps
<1>5. ASSUME proc' = [proc EXCEPT ![p] = With(End("not_initialized", {}),
                            [Resting EXCEPT !.surface = "tool", !.op = op])]
      PROVE  ClientsInv'
  <2> DEFINE base == [Resting EXCEPT !.surface = "tool", !.op = op]
  <2>1. /\ DOMAIN base = CallFields /\ base.surface = "tool" /\ base.op = op
        /\ \A f \in CallFields \ {"surface", "op", "args", "obeys"} : base[f] = Resting[f]
    BY DEF Resting, CallFields
  <2>2. proc' = [proc EXCEPT ![p] = With(End("not_initialized", {}), base)]
    BY <1>5
  <2> HIDE DEF base
  <2> QED BY <1>4, <2>1, <2>2
<1>6. ASSUME NEW args, proc' = [proc EXCEPT ![p] = With(End("invalid_params", {}),
                            [Resting EXCEPT !.surface = "tool", !.op = op, !.args = args,
                                            !.obeys = Admits(Catalog, op, args)])]
      PROVE  ClientsInv'
  <2> DEFINE base == [Resting EXCEPT !.surface = "tool", !.op = op, !.args = args,
                                     !.obeys = Admits(Catalog, op, args)]
  <2>1. /\ DOMAIN base = CallFields /\ base.surface = "tool" /\ base.op = op
        /\ \A f \in CallFields \ {"surface", "op", "args", "obeys"} : base[f] = Resting[f]
    BY DEF Resting, CallFields
  <2>2. proc' = [proc EXCEPT ![p] = With(End("invalid_params", {}), base)]
    BY <1>6
  <2> HIDE DEF base
  <2> QED BY <1>4, <2>1, <2>2
<1>7. ASSUME NEW args, Admits(Tools, op, args), NEW name \in NamesFor(args),
             Launch(p, "tool", op, args, session[p].profile, FALSE, Absent, name, TRUE)
      PROVE  ClientsInv'
  <2>1. op \in Risky => "yard" \in args
    BY <1>7, ToolsNameTheYard DEF Admits
  <2>2. name \in Names
    BY ClientsAssumption DEF NamesFor
  <2>3. PICK n : Replaced(p, n) /\ Started(n, p)
    BY <1>3, <1>7, <2>1, <2>2, LaunchStarts
  <2> QED BY <1>2, <2>3, StartedKeeps
<1> QED BY <1>1, <1>5, <1>6, <1>7

LEMMA ReadResourceKeeps == ASSUME ClientsInv, NEW p \in Procs, ReadResource(p) PROVE ClientsInv'
<1>1. PICK op \in {"whoami", "list_objects", "get_retention"} :
        /\ MayRun(p, op)
        /\ Launch(p, "resource", op, IF op = "whoami" THEN {} ELSE {"project"},
                  session[p].profile, FALSE, Absent, "main", TRUE)
  BY DEF ReadResource
<1>2. proc[p] = Resting /\ UNCHANGED <<files, service, faults>>
  BY <1>1 DEF ReadResource, MayRun
<1>3. op \in Operations /\ op \in Resources /\ op \notin Risky /\ "main" \in Names
  <2>1. op \in OperationNames
    BY DEF OperationNames
  <2> QED BY <2>1, RequestsCover, ClientsAssumption DEF Resources, Risky
<1>4. PICK n : Replaced(p, n) /\ Started(n, p)
  BY <1>1, <1>3, LaunchStarts
<1> QED BY <1>2, <1>4, StartedKeeps

LEMMA AddProfileKeeps == ASSUME ClientsInv, NEW p \in Procs, AddProfile(p) PROVE ClientsInv'
<1> DEFINE base == [Resting EXCEPT !.surface = "command", !.op = "profile_add", !.profile = "home"]
<1>1. /\ DOMAIN base = CallFields /\ base.surface = "command" /\ base.op = "profile_add"
      /\ \A f \in CallFields \ {"surface", "op", "profile"} : base[f] = Resting[f]
  BY DEF Resting, CallFields
<1>2. /\ proc[p] = Resting /\ UNCHANGED <<files, service, faults>>
      /\ proc' = [proc EXCEPT ![p] = IF "home" \in profiles THEN With(End("failed", {}), base)
                                     ELSE [base EXCEPT !.at = "exchange"]]
  BY DEF AddProfile, MayRun
<1> HIDE DEF base
<1>3. /\ Sound(base) /\ base.at = "idle" /\ base.token = Absent /\ base.id = Absent
      /\ base.touched = Absent /\ base.outcome = Absent /\ base.yard = Absent
      /\ base.todo = << >> /\ base.key = Absent
  <2>1. base.key = Absent
    <3>1. Resting.key = Absent
      BY DEF Resting
    <3> QED BY <1>1, <3>1 DEF CallFields
  <2>2. /\ \A f \in CallFields \ {"surface", "op", "args", "obeys", "profile", "env", "key"} :
             base[f] = Resting[f]
        /\ base.surface # "tool" /\ base.surface # "resource"
    BY <1>1
  <2> QED BY <1>1, <2>1, <2>2, BaseSound
<1>4. CASE "home" \in profiles
  <2> DEFINE n == With(End("failed", {}), base)
  <2>1. Replaced(p, n)
    BY <1>2, <1>4 DEF Replaced, ClientsInv, CallsSound
  <2>2. Started(n, p)
    BY <1>3, TurnedAway
  <2> HIDE DEF n
  <2> QED BY <1>2, <2>1, <2>2, StartedKeeps
<1>5. CASE "home" \notin profiles
  <2> DEFINE n == [base EXCEPT !.at = "exchange"]
  <2>1. Replaced(p, n)
    BY <1>2, <1>5 DEF Replaced, ClientsInv, CallsSound
  <2>2. DOMAIN n = CallFields /\ n.at = "exchange" /\ \A f \in CallFields \ {"at"} : n[f] = base[f]
    BY <1>1 DEF CallFields
  <2> HIDE DEF n
  <2>3. /\ n.surface = "command" /\ n.op = "profile_add" /\ n.token = Absent /\ n.id = Absent
        /\ n.touched = Absent /\ n.outcome = Absent /\ n.yard = Absent /\ n.todo = << >>
        /\ n.key = Absent
    BY <1>1, <1>3, <2>2 DEF CallFields
  <2>4. << >> \in Seq(Names) /\ Absent # "ok"
    BY ClientsAssumption
  <2>5. Sound(n)
    BY <2>2, <2>3, <2>4 DEF Sound, Running, Adding, Holding
  <2>6. Started(n, p)
    BY <2>2, <2>3, <2>4, <2>5 DEF Started, Published, Running
  <2> QED BY <1>2, <2>1, <2>6, StartedKeeps
<1> QED BY <1>4, <1>5

(* A call goes on without anything kept or forgotten.                      *)
LEMMA BecomesKeeps ==
  ASSUME ClientsInv, NEW p \in Procs, NEW n, Becomes(p, n), proc[p].at # "write",
         UNCHANGED files, unspent' => unspent, live' \subseteq Secrets,
         faults' \in Nat, faults' = 0 => faults = 0,
         yards' \in Seq(YardRow), Grown(yards, yards'), served \subseteq served', seen \subseteq seen',
         applied' \in [SupportsIdempotency -> Nat],
         \A f \in SupportsIdempotency : applied'[f] = IF <<f, "key">> \in seen' THEN 1 ELSE 0,
         \A q \in Procs \ {p} : proc[q].at \in Holding => proc[q].token \in live',
         \/ store["cloud"] \in live' \cup {Absent}
         \/ faults' # 0
         \/ n.at \in {"save", "forget"}
         \/ proc[p].at \notin {"save", "forget"} /\ \E q \in Procs : proc[q].at \in {"save", "forget"}
  PROVE  ClientsInv'
<1>1. store' = store /\ profiles' = profiles /\ settings' = settings
  BY DEF files
<1>2. /\ Replaced(p, n) /\ Sound(n) /\ n.token \in {Absent, proc[p].token, store["cloud"], store["home"]}
      /\ n.at \notin Holding \cup {"keep_home", "write"}
      /\ YardsNamed(n, yards') /\ Published(n, p, served') /\ Recorded(n, seen')
  BY DEF Becomes, Holding
<1>3. CallsSound'
  BY <1>2, CallsKept DEF ClientsInv
<1>4. ClientsTyped'
  BY <1>1 DEF ClientsInv, ClientsTyped
<1>5. TokensHold'
  BY <1>1, <1>2, TokensKept
<1>6. ProfileHolds'
  BY <1>1, <1>2, ProfileKept
<1>7. YardsHold' /\ RetriesHold' /\ DeploysHold'
  BY <1>1, <1>2, DutiesKept
<1> QED BY <1>3, <1>4, <1>5, <1>6, <1>7 DEF ClientsInv

(* A call moves on with its credential.                                    *)
LEMMA ShiftKeeps ==
  ASSUME ClientsInv, NEW p \in Procs, NEW at, NEW given \in Secrets \cup {Absent},
         Update(p, [at |-> at, token |-> given]),
         \/ proc[p].at \in Running /\ at \in Running /\ (proc[p].env => given = Absent)
         \/ proc[p].at \in Running /\ at = "forget" /\ proc[p].op = "logout"
         \/ proc[p].at \in Running /\ at = "keep" /\ proc[p].op = "login"
         \/ proc[p].at \in Adding /\ at \in Adding,
         at \in {"refresh", "save", "forget"} => proc[p].profile = "cloud",
         at \in Holding => given # Absent,
         UNCHANGED <<yards, seen, applied, served, settings>>,
         NEW n, n = With([at |-> at, token |-> given], proc[p])
  PROVE  /\ Replaced(p, n) /\ Sound(n) /\ n.at = at /\ n.token = given
         /\ YardsNamed(n, yards) /\ Published(n, p, served) /\ Recorded(n, seen)
         /\ CallsSound' /\ YardsHold' /\ RetriesHold' /\ DeploysHold'
<1> DEFINE c == proc[p]
<1>1. Sound(c) /\ YardsNamed(c, yards) /\ Published(c, p, served)
  BY DEF ClientsInv, CallsSound, YardsHold, DeploysHold
<1>2. Replaced(p, n)
  BY UpdateReplaces DEF ClientsInv
<1>3. /\ Sound(n) /\ n.at = at /\ n.token = given /\ n.outcome # "ok"
      /\ n.op = c.op /\ n.id = c.id /\ n.touched = c.touched /\ n.profile = c.profile
      /\ n.yard = c.yard /\ n.args = c.args /\ n.todo = c.todo /\ n.bad = c.bad
  BY <1>1, Shifts
<1>4. YardsNamed(n, yards) /\ Recorded(n, seen)
  BY <1>1, <1>3 DEF YardsNamed, Recorded
<1>5. n.at \in Running => c.at \in Running
  BY <1>3 DEF Running, Adding
<1>6. Published(n, p, served)
  BY <1>1, <1>3, <1>5 DEF Published
<1>7. \A f \in SupportsIdempotency : applied'[f] = IF <<f, "key">> \in seen' THEN 1 ELSE 0
  BY DEF ClientsInv, RetriesHold
<1>8. YardsHold' /\ RetriesHold' /\ DeploysHold'
  BY <1>2, <1>4, <1>6, <1>7, GrownSame, DutiesKept
<1>9. CallsSound'
  BY <1>2, <1>3, CallsKept DEF ClientsInv
<1> QED BY <1>2, <1>3, <1>4, <1>6, <1>8, <1>9

(* A call that reveals nothing ends.                                       *)
LEMMA FinishKeeps ==
  ASSUME ClientsInv, NEW p \in Procs, NEW outcome, Update(p, End(outcome, {})),
         proc[p].op \in {"login", "logout", "profile_add"},
         UNCHANGED <<yards, seen, applied, served, settings>>,
         NEW n, n = With(End(outcome, {}), proc[p])
  PROVE  /\ Replaced(p, n) /\ Sound(n) /\ n.at = "answered" /\ n.token = Absent
         /\ CallsSound' /\ YardsHold' /\ RetriesHold' /\ DeploysHold'
<1> DEFINE c == proc[p]
<1>1. Sound(c) /\ YardsNamed(c, yards)
  BY DEF ClientsInv, CallsSound, YardsHold
<1>2. Replaced(p, n)
  BY UpdateReplaces DEF ClientsInv
<1>3. Issued(c.op) = Absent
  BY DEF Issued
<1>4. Sound(n) /\ Onward(n, c) /\ n.at = "answered" /\ n.token = Absent
  BY <1>1, <1>3, EndSound, EndFields DEF Sound
<1>5. YardsNamed(n, yards)
  BY <1>1, <1>4, OnwardNamed
<1>6. n.key = Absent
  BY <1>1, <1>4 DEF Onward, Sound, Keyed
<1>7. Recorded(n, seen) /\ Published(n, p, served)
  BY <1>4, <1>6 DEF Onward, Recorded, Published
<1>8. \A f \in SupportsIdempotency : applied'[f] = IF <<f, "key">> \in seen' THEN 1 ELSE 0
  BY DEF ClientsInv, RetriesHold
<1>9. YardsHold' /\ RetriesHold' /\ DeploysHold'
  BY <1>2, <1>5, <1>7, <1>8, GrownSame, DutiesKept
<1>10. CallsSound'
  BY <1>2, <1>4, CallsKept DEF ClientsInv
<1> QED BY <1>2, <1>4, <1>9, <1>10

(* What somebody holds, and what nobody does.                              *)
LEMMA HeldTokens ==
  ASSUME ClientsInv
  PROVE  /\ \A q \in Procs : proc[q].token \in Known
         /\ store["cloud"] \in Known /\ store["home"] \in Known
         /\ \A new \in Unheld : new \in Secrets /\ new \notin Known /\ new # Absent
         /\ \A q \in Procs : proc[q].at \in Holding => proc[q].token # Absent /\ proc[q].token \in live
BY ClientsAssumption DEF ClientsInv, ClientsTyped, CallsSound, Sound, TokensHold, Known, Held, Unheld

(* A call is given a token that nobody had.                                *)
LEMMA GainKeeps ==
  ASSUME ClientsInv, NEW p \in Procs, NEW n, NEW new \in Unheld, Replaced(p, n), n.token = new,
         store' = store, new \in live',
         \A q \in Procs \ {p} : proc[q].at \in Holding => proc[q].token \in live',
         \/ store["cloud"] \in live' \cup {Absent}
         \/ faults' # 0
         \/ n.at = "save"
         \/ proc[p].at \notin {"save", "forget"} /\ \E q \in Procs : proc[q].at \in {"save", "forget"}
  PROVE  TokensHold'
<1>1. TokensHold /\ proc'[p] = n /\ \A q \in Procs \ {p} : proc'[q] = proc[q]
  BY DEF ClientsInv, Replaced
<1>2. /\ \A q \in Procs : proc[q].token # new
      /\ store["cloud"] # new /\ store["home"] # new
  BY HeldTokens
<1>3. ASSUME NEW q \in Procs, proc'[q].at \in Holding
      PROVE  /\ proc'[q].token \in live'
             /\ proc'[q].token # store'["cloud"] /\ proc'[q].token # store'["home"]
             /\ \A r \in Procs \ {q} : proc'[r].token # proc'[q].token
  <2>1. CASE q = p
    BY <1>1, <1>2, <2>1
  <2>2. CASE q # p
    <3>1. proc'[q] = proc[q] /\ proc[q].at \in Holding
      BY <1>1, <1>3, <2>2
    <3>2. /\ proc[q].token # store["cloud"] /\ proc[q].token # store["home"]
          /\ \A r \in Procs \ {q} : proc[r].token # proc[q].token
      BY <1>1, <3>1 DEF TokensHold
    <3>3. \A r \in Procs \ {q} : proc'[r].token # proc'[q].token
      BY <1>1, <1>2, <2>2, <3>1, <3>2
    <3> QED BY <2>2, <3>1, <3>2, <3>3
  <2> QED BY <2>1, <2>2
<1>4. \/ store'["cloud"] \in live' \cup {Absent}
      \/ faults' # 0
      \/ \E q \in Procs : proc'[q].at \in {"save", "forget"}
  BY <1>1
<1> QED BY <1>3, <1>4 DEF TokensHold

LEMMA LoadKeeps == ASSUME ClientsInv, NEW p \in Procs, Load(p) PROVE ClientsInv'
<1> DEFINE c == proc[p]
           stored == store[c.profile]
<1>1. /\ c.at = "load" /\ UNCHANGED <<store, profiles, settings>>
      /\ UNCHANGED <<live, unspent, yards, seen, applied, served>> /\ faults' = faults
  BY DEF Load, files, service
<1>2. /\ Sound(c) /\ c.profile \in {"cloud", "home"} /\ c.at \in Running
      /\ stored \in {store["cloud"], store["home"]} /\ stored \in Secrets \cup {Absent}
  BY <1>1 DEF ClientsInv, ClientsTyped, CallsSound, Sound, Running
<1>3. ASSUME NEW n, Becomes(p, n) PROVE ClientsInv'
  <2>1. /\ live \subseteq Secrets /\ faults \in Nat /\ yards \in Seq(YardRow)
        /\ applied \in [SupportsIdempotency -> Nat]
        /\ \A f \in SupportsIdempotency : applied[f] = IF <<f, "key">> \in seen THEN 1 ELSE 0
        /\ \A q \in Procs : proc[q].at \in Holding => proc[q].token \in live
        /\ \/ store["cloud"] \in live \cup {Absent}
           \/ faults # 0
           \/ \E q \in Procs : proc[q].at \in {"save", "forget"}
    BY DEF ClientsInv, ClientsTyped, RetriesHold, TokensHold
  <2>2. c.at \notin {"write", "save", "forget"} /\ UNCHANGED files
    BY <1>1 DEF files
  <2> QED BY <1>1, <1>3, <2>1, <2>2, GrownSame, BecomesKeeps
<1>4. CASE Update(p, Failure(p))
  <2>1. PICK n : Becomes(p, n)
    BY <1>1, <1>2, <1>4, GrownSame, FailureBecomes
  <2> QED BY <1>3, <2>1
<1>5. ASSUME NEW at \in {"refresh", "send"}, NEW given \in {Absent, stored},
             Update(p, [at |-> at, token |-> given]), c.env => given = Absent,
             at = "refresh" => c.profile = "cloud"
      PROVE  ClientsInv'
  <2> DEFINE n == With([at |-> at, token |-> given], c)
  <2>1. /\ Replaced(p, n) /\ Sound(n) /\ n.at = at /\ n.token = given
        /\ YardsNamed(n, yards) /\ Published(n, p, served) /\ Recorded(n, seen)
    <3>1. given \in Secrets \cup {Absent} /\ at \in Running /\ at \notin Holding \cup {"save", "forget"}
      BY <1>2, <1>5 DEF Running, Holding
    <3> QED BY <1>1, <1>2, <1>5, <3>1, ShiftKeeps
  <2> HIDE DEF n
  <2>2. Becomes(p, n)
    BY <1>1, <1>2, <1>5, <2>1 DEF Becomes
  <2> QED BY <1>3, <2>2
<1>6. CASE c.env
  <2>1. Update(p, [at |-> "send", token |-> Absent])
    BY <1>6 DEF Load
  <2> QED BY <1>5, <2>1
<1>7. CASE ~c.env /\ stored = Absent
  BY <1>4, <1>7 DEF Load
<1>8. CASE ~c.env /\ stored # Absent
  <2>1. Update(p, [token |-> stored,
                   at |-> IF Cloud(p) /\ c.op # "logout" THEN "refresh" ELSE "send"])
    BY <1>8 DEF Load
  <2>2. CASE Cloud(p) /\ c.op # "logout"
    <3>1. Update(p, [at |-> "refresh", token |-> stored])
      <4>1. [token |-> stored, at |-> "refresh"] = [at |-> "refresh", token |-> stored]
        OBVIOUS
      <4> QED BY <2>1, <2>2, <4>1
    <3> QED BY <1>5, <1>8, <2>2, <3>1 DEF Cloud
  <2>3. CASE ~(Cloud(p) /\ c.op # "logout")
    <3>1. Update(p, [at |-> "send", token |-> stored])
      <4>1. [token |-> stored, at |-> "send"] = [at |-> "send", token |-> stored]
        OBVIOUS
      <4> QED BY <2>1, <2>3, <4>1
    <3> QED BY <1>5, <1>8, <3>1
  <2> QED BY <2>2, <2>3
<1> QED BY <1>6, <1>7, <1>8

LEMMA RefreshKeeps == ASSUME ClientsInv, NEW p \in Procs, Refresh(p) PROVE ClientsInv'
<1> DEFINE c == proc[p]
<1>1. /\ c.at = "refresh" /\ UNCHANGED <<store, profiles, settings>>
      /\ UNCHANGED <<unspent, yards, seen, applied, served>> /\ UNCHANGED files
  BY DEF Refresh, files
<1>2. /\ Sound(c) /\ c.at \in Running /\ c.profile = "cloud" /\ c.token \in Secrets \cup {Absent}
  BY <1>1 DEF ClientsInv, CallsSound, Sound, Running
<1>3. /\ live \subseteq Secrets /\ faults \in Nat /\ yards \in Seq(YardRow) /\ MaxFaults = MaxFaults
      /\ applied \in [SupportsIdempotency -> Nat]
      /\ \A f \in SupportsIdempotency : applied[f] = IF <<f, "key">> \in seen THEN 1 ELSE 0
      /\ \A q \in Procs : proc[q].at \in Holding =>
           proc[q].token \in live /\ \A r \in Procs \ {q} : proc[r].token # proc[q].token
      /\ \/ store["cloud"] \in live \cup {Absent}
         \/ faults # 0
         \/ \E q \in Procs : proc[q].at \in {"save", "forget"}
  BY DEF ClientsInv, ClientsTyped, RetriesHold, TokensHold
<1>4. ASSUME Update(p, Failure(p)), live' \subseteq Secrets, faults' \in Nat, faults' = 0 => faults = 0,
             \A q \in Procs \ {p} : proc[q].at \in Holding => proc[q].token \in live',
             faults' # 0 \/ live' = live
      PROVE  ClientsInv'
  <2>1. PICK n : Becomes(p, n)
    BY <1>1, <1>2, <1>4, GrownSame, FailureBecomes
  <2>2. c.at \notin {"write", "save", "forget"}
    BY <1>1
  <2>3. \/ store["cloud"] \in live' \cup {Absent}
        \/ faults' # 0
        \/ \E q \in Procs : proc[q].at \in {"save", "forget"}
    BY <1>3, <1>4
  <2> QED BY <1>1, <1>3, <1>4, <2>1, <2>2, <2>3, GrownSame, BecomesKeeps
<1>5. ASSUME NEW new \in Unheld, c.token \in live, Rotate(c.token, new)
      PROVE  /\ live' \subseteq Secrets /\ new \in live'
             /\ \A q \in Procs \ {p} : proc[q].at \in Holding => proc[q].token \in live'
  <2>1. live' = ((live \cap Known) \ {c.token}) \cup {new}
    BY <1>5 DEF Rotate
  <2>2. new \in Secrets /\ \A q \in Procs : proc[q].token \in Known
    BY <1>5, HeldTokens
  <2> QED BY <1>3, <2>1, <2>2
<1>6. ASSUME NEW new \in Unheld, c.token \in live, Rotate(c.token, new),
             Update(p, [at |-> "save", token |-> new]), faults' = faults
      PROVE  ClientsInv'
  <2> DEFINE n == With([at |-> "save", token |-> new], c)
  <2>1. new \in Secrets /\ new # Absent
    BY <1>6, HeldTokens
  <2>2. c.env => new = Absent
    <3>1. c.token # Absent
      BY <1>3, <1>6, ClientsAssumption
    <3> QED BY <1>2, <3>1 DEF Sound
  <2>3. /\ Replaced(p, n) /\ n.at = "save" /\ n.token = new
        /\ CallsSound' /\ YardsHold' /\ RetriesHold' /\ DeploysHold'
    <3>1. "save" \in Running
      BY DEF Running
    <3> QED BY <1>1, <1>2, <1>6, <2>1, <2>2, <3>1, ShiftKeeps
  <2> HIDE DEF n
  <2>4. ClientsTyped'
    BY <1>1, <1>5, <1>6 DEF ClientsInv, ClientsTyped
  <2>5. TokensHold'
    BY <1>1, <1>5, <1>6, <2>3, GainKeeps
  <2>6. ProfileHolds'
    BY <1>1, <1>6, <2>3, ProfileKept
  <2> QED BY <2>3, <2>4, <2>5, <2>6 DEF ClientsInv
<1>7. CASE c.token \notin live
  BY <1>3, <1>4, <1>7 DEF Refresh
<1>8. CASE c.token \in live
  <2>1. PICK new \in Unheld :
          /\ Rotate(c.token, new)
          /\ \/ Update(p, [at |-> "save", token |-> new]) /\ UNCHANGED faults
             \/ faults' = faults + 1 /\ Update(p, Failure(p))
    BY <1>8 DEF Refresh
  <2>2. CASE Update(p, [at |-> "save", token |-> new]) /\ UNCHANGED faults
    BY <1>6, <1>8, <2>1, <2>2
  <2>3. CASE faults' = faults + 1 /\ Update(p, Failure(p))
    BY <1>3, <1>4, <1>5, <1>8, <2>1, <2>3
  <2> QED BY <2>1, <2>2, <2>3
<1> QED BY <1>7, <1>8

(* The store changes at the hands of terminal p.                           *)
LEMMA StoredTokens ==
  ASSUME ClientsInv, NEW p \in Procs, NEW n, Replaced(p, n), n.token = Absent, n.at \notin Holding,
         live' = live,
         \A q \in Procs \ {p} : proc[q].at \in Holding =>
            proc[q].token # store'["cloud"] /\ proc[q].token # store'["home"],
         \/ store'["cloud"] \in live \cup {Absent}
         \/ faults' # 0
         \/ proc[p].at \notin {"save", "forget"} /\ \E q \in Procs : proc[q].at \in {"save", "forget"}
  PROVE  TokensHold'
<1>1. proc'[p] = n /\ \A q \in Procs \ {p} : proc'[q] = proc[q]
  BY DEF Replaced
<1>2. ASSUME NEW q \in Procs, proc'[q].at \in Holding
      PROVE  /\ proc'[q].token \in live'
             /\ proc'[q].token # store'["cloud"] /\ proc'[q].token # store'["home"]
             /\ \A r \in Procs \ {q} : proc'[r].token # proc'[q].token
  <2>1. q # p /\ proc'[q] = proc[q] /\ proc[q].at \in Holding
    BY <1>1, <1>2
  <2>2. /\ proc[q].token \in live /\ proc[q].token # Absent
        /\ \A r \in Procs \ {q} : proc[r].token # proc[q].token
    BY <2>1, HeldTokens DEF ClientsInv, TokensHold
  <2>3. \A r \in Procs \ {q} : proc'[r].token # proc'[q].token
    BY <1>1, <2>1, <2>2
  <2> QED BY <2>1, <2>2, <2>3
<1>3. \/ store'["cloud"] \in live' \cup {Absent}
      \/ faults' # 0
      \/ \E q \in Procs : proc'[q].at \in {"save", "forget"}
  BY <1>1
<1> QED BY <1>2, <1>3 DEF TokensHold

LEMMA SaveKeeps == ASSUME ClientsInv, NEW p \in Procs, Save(p) PROVE ClientsInv'
<1> DEFINE c == proc[p]
           n == With([at |-> "send", token |-> Absent], c)
<1>1. /\ c.at = "save" /\ Update(p, [at |-> "send", token |-> Absent])
      /\ store' = [store EXCEPT ![c.profile] = c.token]
      /\ UNCHANGED <<profiles, settings, live, unspent, yards, seen, applied, served, faults>>
  BY DEF Save, service
<1>2. Sound(c) /\ c.profile = "cloud" /\ c.at \in Running \cap Holding
  BY <1>1 DEF ClientsInv, CallsSound, Sound, Running, Holding
<1>3. /\ Replaced(p, n) /\ n.at = "send" /\ n.token = Absent
      /\ CallsSound' /\ YardsHold' /\ RetriesHold' /\ DeploysHold'
  <2>1. "send" \in Running /\ "send" \notin Holding
    BY DEF Running, Holding
  <2> QED BY <1>1, <1>2, <2>1, ShiftKeeps
<1> HIDE DEF n
<1>4. /\ DOMAIN store = {"cloud", "home"} /\ c.token \in live /\ c.token \in Secrets
      /\ \A q \in Procs \ {p} : proc[q].token # c.token
  BY <1>2 DEF ClientsInv, ClientsTyped, TokensHold
<1>5. store'["cloud"] = c.token /\ store'["home"] = store["home"] /\ DOMAIN store' = {"cloud", "home"}
  BY <1>1, <1>2, <1>4
<1>6. ClientsTyped'
  BY <1>1, <1>4, <1>5 DEF ClientsInv, ClientsTyped
<1>7. TokensHold'
  <2>1. n.at \notin Holding /\ \A q \in Procs \ {p} : proc[q].at \in Holding =>
          proc[q].token # store'["cloud"] /\ proc[q].token # store'["home"]
    BY <1>3, <1>4, <1>5 DEF Holding, ClientsInv, TokensHold
  <2> QED BY <1>1, <1>3, <1>4, <1>5, <2>1, StoredTokens
<1>8. ProfileHolds'
  <2>1. /\ ProfileHolds /\ proc'[p].at = "send" /\ proc[p].at = "save"
        /\ \A q \in Procs \ {p} : proc'[q] = proc[q]
    BY <1>1, <1>3 DEF ClientsInv, Replaced
  <2>2. \A q \in Procs : proc'[q].at \in {"keep_home", "write"} =>
         q # p /\ proc'[q] = proc[q] /\ proc[q].at \in {"keep_home", "write"}
    BY <2>1
  <2>3. (store'["home"] # Absent /\ "home" \notin profiles' /\ faults' = 0) =>
           \E q \in Procs : proc'[q].at = "write"
    BY <1>1, <1>5, <2>1 DEF ProfileHolds
  <2> QED BY <1>1, <1>5, <2>1, <2>2, <2>3 DEF ProfileHolds
<1> QED BY <1>3, <1>6, <1>7, <1>8 DEF ClientsInv

LEMMA ForgetKeeps == ASSUME ClientsInv, NEW p \in Procs, Forget(p) PROVE ClientsInv'
<1> DEFINE c == proc[p]
           n == With(End("ok", {}), c)
<1>1. /\ c.at = "forget" /\ Update(p, End("ok", {})) /\ store' = [store EXCEPT ![c.profile] = Absent]
      /\ UNCHANGED <<profiles, settings, live, unspent, yards, seen, applied, served, faults>>
  BY DEF Forget, service
<1>2. Sound(c) /\ c.profile = "cloud" /\ c.op = "logout"
  BY <1>1 DEF ClientsInv, CallsSound, Sound
<1>3. /\ Replaced(p, n) /\ n.at = "answered" /\ n.token = Absent
      /\ CallsSound' /\ YardsHold' /\ RetriesHold' /\ DeploysHold'
  BY <1>1, <1>2, FinishKeeps
<1> HIDE DEF n
<1>4. DOMAIN store' = {"cloud", "home"} /\ store'["cloud"] = Absent /\ store'["home"] = store["home"]
  BY <1>1, <1>2 DEF ClientsInv, ClientsTyped
<1>5. ClientsTyped'
  BY <1>1, <1>4 DEF ClientsInv, ClientsTyped
<1>6. TokensHold'
  <2>1. n.at \notin Holding /\ \A q \in Procs \ {p} : proc[q].at \in Holding =>
          proc[q].token # store'["cloud"] /\ proc[q].token # store'["home"]
    BY <1>3, <1>4, HeldTokens DEF Holding, ClientsInv, TokensHold
  <2> QED BY <1>1, <1>3, <1>4, <2>1, StoredTokens
<1>7. ProfileHolds'
  <2>1. /\ ProfileHolds /\ proc'[p].at = "answered" /\ proc[p].at = "forget"
        /\ \A q \in Procs \ {p} : proc'[q] = proc[q]
    BY <1>1, <1>3 DEF ClientsInv, Replaced
  <2>2. \A q \in Procs : proc'[q].at \in {"keep_home", "write"} =>
         q # p /\ proc'[q] = proc[q] /\ proc[q].at \in {"keep_home", "write"}
    BY <2>1
  <2>3. (store'["home"] # Absent /\ "home" \notin profiles' /\ faults' = 0) =>
           \E q \in Procs : proc'[q].at = "write"
    BY <1>1, <1>4, <2>1 DEF ProfileHolds
  <2> QED BY <1>1, <1>4, <2>1, <2>2, <2>3 DEF ProfileHolds
<1> QED BY <1>3, <1>5, <1>6, <1>7 DEF ClientsInv

LEMMA KeepKeeps == ASSUME ClientsInv, NEW p \in Procs, Keep(p) PROVE ClientsInv'
<1> DEFINE c == proc[p]
           n == With(End("ok", {}), c)
<1>1. /\ c.at = "keep" /\ Update(p, End("ok", {})) /\ store' = [store EXCEPT !["cloud"] = c.token]
      /\ UNCHANGED <<profiles, settings, live, unspent, yards, seen, applied, served, faults>>
  BY DEF Keep, service
<1>2. Sound(c) /\ c.op = "login" /\ c.at \in Holding
  BY <1>1 DEF ClientsInv, CallsSound, Sound, Holding
<1>3. /\ Replaced(p, n) /\ n.at = "answered" /\ n.token = Absent
      /\ CallsSound' /\ YardsHold' /\ RetriesHold' /\ DeploysHold'
  BY <1>1, <1>2, FinishKeeps
<1> HIDE DEF n
<1>4. /\ DOMAIN store' = {"cloud", "home"} /\ store'["cloud"] = c.token /\ store'["home"] = store["home"]
      /\ c.token \in live /\ c.token \in Secrets /\ \A q \in Procs \ {p} : proc[q].token # c.token
  BY <1>1, <1>2 DEF ClientsInv, ClientsTyped, TokensHold
<1>5. ClientsTyped'
  BY <1>1, <1>4 DEF ClientsInv, ClientsTyped
<1>6. TokensHold'
  <2>1. n.at \notin Holding /\ \A q \in Procs \ {p} : proc[q].at \in Holding =>
          proc[q].token # store'["cloud"] /\ proc[q].token # store'["home"]
    BY <1>3, <1>4 DEF Holding, ClientsInv, TokensHold
  <2> QED BY <1>1, <1>3, <1>4, <2>1, StoredTokens
<1>7. ProfileHolds'
  <2>1. /\ ProfileHolds /\ proc'[p].at = "answered" /\ proc[p].at = "keep"
        /\ \A q \in Procs \ {p} : proc'[q] = proc[q]
    BY <1>1, <1>3 DEF ClientsInv, Replaced
  <2>2. \A q \in Procs : proc'[q].at \in {"keep_home", "write"} =>
         q # p /\ proc'[q] = proc[q] /\ proc[q].at \in {"keep_home", "write"}
    BY <2>1
  <2>3. (store'["home"] # Absent /\ "home" \notin profiles' /\ faults' = 0) =>
           \E q \in Procs : proc'[q].at = "write"
    BY <1>1, <1>4, <2>1 DEF ProfileHolds
  <2> QED BY <1>1, <1>4, <2>1, <2>2, <2>3 DEF ProfileHolds
<1> QED BY <1>3, <1>5, <1>6, <1>7 DEF ClientsInv

LEMMA KeepHomeKeeps == ASSUME ClientsInv, NEW p \in Procs, KeepHome(p) PROVE ClientsInv'
<1> DEFINE c == proc[p]
           n == With([at |-> "write", token |-> Absent], c)
<1>1. /\ c.at = "keep_home" /\ Update(p, [at |-> "write", token |-> Absent])
      /\ store' = [store EXCEPT !["home"] = c.token]
      /\ UNCHANGED <<profiles, settings, live, unspent, yards, seen, applied, served, faults>>
  BY DEF KeepHome, service
<1>2. Sound(c) /\ c.at \in Holding \cap Adding
  BY <1>1 DEF ClientsInv, CallsSound, Holding, Adding
<1>3. /\ Replaced(p, n) /\ n.at = "write" /\ n.token = Absent
      /\ CallsSound' /\ YardsHold' /\ RetriesHold' /\ DeploysHold'
  <2>1. "write" \in Adding /\ "write" \notin Holding
    BY DEF Adding, Holding
  <2> QED BY <1>1, <1>2, <2>1, ShiftKeeps
<1> HIDE DEF n
<1>4. /\ DOMAIN store' = {"cloud", "home"} /\ store'["cloud"] = store["cloud"] /\ store'["home"] = c.token
      /\ c.token \in live /\ c.token \in Secrets /\ \A q \in Procs \ {p} : proc[q].token # c.token
  BY <1>1, <1>2 DEF ClientsInv, ClientsTyped, TokensHold
<1>5. ClientsTyped'
  BY <1>1, <1>4 DEF ClientsInv, ClientsTyped
<1>6. TokensHold'
  <2>1. n.at \notin Holding /\ \A q \in Procs \ {p} : proc[q].at \in Holding =>
          proc[q].token # store'["cloud"] /\ proc[q].token # store'["home"]
    BY <1>3, <1>4 DEF Holding, ClientsInv, TokensHold
  <2>2. \/ store'["cloud"] \in live \cup {Absent}
        \/ faults' # 0
        \/ proc[p].at \notin {"save", "forget"} /\ \E q \in Procs : proc[q].at \in {"save", "forget"}
    BY <1>1, <1>4 DEF ClientsInv, TokensHold
  <2> QED BY <1>1, <1>3, <2>1, <2>2, StoredTokens
<1>7. ProfileHolds'
  <2>1. /\ ProfileHolds /\ proc'[p].at = "write" /\ proc[p].at = "keep_home"
        /\ \A q \in Procs \ {p} : proc'[q] = proc[q]
    BY <1>1, <1>3 DEF ClientsInv, Replaced
  <2>2. \A q \in Procs \ {p} : proc'[q].at \notin {"keep_home", "write"}
    BY <2>1 DEF ProfileHolds
  <2>3. c.token # Absent
    BY <1>2, HeldTokens
  <2>4. "home" \notin profiles /\ ~unspent
    BY <2>1 DEF ProfileHolds
  <2> QED BY <1>1, <1>4, <2>1, <2>2, <2>3, <2>4 DEF ProfileHolds
<1> QED BY <1>3, <1>5, <1>6, <1>7 DEF ClientsInv

LEMMA WriteProfileKeeps == ASSUME ClientsInv, NEW p \in Procs, WriteProfile(p) PROVE ClientsInv'
<1> DEFINE c == proc[p]
<1>1. /\ c.at = "write" /\ UNCHANGED <<settings, live, unspent, yards, seen, applied, served, faults>>
  BY DEF WriteProfile, service
<1>2. Sound(c) /\ c.op = "profile_add"
  BY <1>1 DEF ClientsInv, CallsSound, Sound, Adding
<1>3. ASSUME NEW n, Replaced(p, n), n.at = "answered", n.token = Absent,
             DOMAIN store' = {"cloud", "home"}, store'["cloud"] = store["cloud"],
             store'["home"] \in {store["home"], Absent}
      PROVE  TokensHold'
  <2>1. n.at \notin Holding /\ \A q \in Procs \ {p} : proc[q].at \in Holding =>
          proc[q].token # store'["cloud"] /\ proc[q].token # store'["home"]
    BY <1>3, HeldTokens DEF Holding, ClientsInv, TokensHold
  <2>2. \/ store'["cloud"] \in live \cup {Absent}
        \/ faults' # 0
        \/ proc[p].at \notin {"save", "forget"} /\ \E q \in Procs : proc[q].at \in {"save", "forget"}
    BY <1>1, <1>3 DEF ClientsInv, TokensHold
  <2> QED BY <1>1, <1>3, <2>1, <2>2, StoredTokens
<1>4. /\ "home" \notin profiles /\ ~unspent /\ store["home"] # Absent
      /\ \A q \in Procs \ {p} : proc[q].at \notin {"keep_home", "write"}
  BY <1>1 DEF ClientsInv, ProfileHolds
<1>5. CASE profiles' = profiles \cup {"home"} /\ Update(p, End("ok", {})) /\ UNCHANGED store
  <2> DEFINE n == With(End("ok", {}), c)
  <2>1. /\ Replaced(p, n) /\ n.at = "answered" /\ n.token = Absent
        /\ CallsSound' /\ YardsHold' /\ RetriesHold' /\ DeploysHold'
    BY <1>1, <1>2, <1>5, FinishKeeps
  <2> HIDE DEF n
  <2>2. ClientsTyped'
    BY <1>1, <1>5 DEF ClientsInv, ClientsTyped
  <2>3. TokensHold'
    BY <1>3, <1>5, <2>1 DEF ClientsInv, ClientsTyped
  <2>4. \A q \in Procs : proc'[q].at \notin {"keep_home", "write"}
    BY <1>4, <2>1 DEF Replaced
  <2>5. ProfileHolds'
    BY <1>1, <1>4, <1>5, <2>4 DEF ProfileHolds
  <2> QED BY <2>1, <2>2, <2>3, <2>5 DEF ClientsInv
<1>6. CASE /\ store' = [store EXCEPT !["home"] = Absent] /\ Update(p, End("failed", {}))
           /\ UNCHANGED profiles
  <2> DEFINE n == With(End("failed", {}), c)
  <2>1. /\ Replaced(p, n) /\ n.at = "answered" /\ n.token = Absent
        /\ CallsSound' /\ YardsHold' /\ RetriesHold' /\ DeploysHold'
    BY <1>1, <1>2, <1>6, FinishKeeps
  <2> HIDE DEF n
  <2>2. DOMAIN store' = {"cloud", "home"} /\ store'["cloud"] = store["cloud"] /\ store'["home"] = Absent
    BY <1>6 DEF ClientsInv, ClientsTyped
  <2>3. ClientsTyped'
    BY <1>1, <1>6, <2>2 DEF ClientsInv, ClientsTyped
  <2>4. TokensHold'
    BY <1>3, <2>1, <2>2
  <2>5. \A q \in Procs : proc'[q].at \notin {"keep_home", "write"}
    BY <1>4, <2>1 DEF Replaced
  <2>6. ProfileHolds'
    BY <1>1, <1>4, <1>6, <2>2, <2>5 DEF ProfileHolds
  <2> QED BY <2>1, <2>3, <2>4, <2>6 DEF ClientsInv
<1> QED BY <1>5, <1>6 DEF WriteProfile

LEMMA SendKeeps == ASSUME ClientsInv, NEW p \in Procs, Send(p) PROVE ClientsInv'
<1> DEFINE c == proc[p]
           e == Head(c.left).endpoint
<1>1. c.at = "send" /\ UNCHANGED files /\ UNCHANGED unspent
  BY DEF Send
<1>2. /\ live \subseteq Secrets /\ faults \in Nat
      /\ \A q \in Procs \ {p} : proc[q].at \in Holding =>
           proc[q].token \in live /\ proc[q].token # c.token
      /\ \/ store["cloud"] \in live \cup {Absent}
         \/ faults # 0
         \/ \E q \in Procs : proc[q].at \in {"save", "forget"}
  BY DEF ClientsInv, ClientsTyped, TokensHold
<1>3. ASSUME NEW n, Becomes(p, n), NEW ok \in BOOLEAN, Serves(p, e, ok),
             faults' \in Nat, faults' = 0 => faults = 0,
             live' = live \/ faults' # 0 \/ n.at = "forget"
      PROVE  ClientsInv'
  <2>1. /\ Grown(yards, yards') /\ yards' \in Seq(YardRow) /\ served \subseteq served'
        /\ seen \subseteq seen' /\ applied' \in [SupportsIdempotency -> Nat]
        /\ \A f \in SupportsIdempotency : applied'[f] = IF <<f, "key">> \in seen' THEN 1 ELSE 0
        /\ live' \subseteq live /\ live \ {c.token} \subseteq live'
    BY <1>3 DEF Serves
  <2>2. live' \subseteq Secrets
        /\ \A q \in Procs \ {p} : proc[q].at \in Holding => proc[q].token \in live'
    BY <1>2, <2>1
  <2>3. \/ store["cloud"] \in live' \cup {Absent}
        \/ faults' # 0
        \/ n.at \in {"save", "forget"}
        \/ proc[p].at \notin {"save", "forget"} /\ \E q \in Procs : proc[q].at \in {"save", "forget"}
    BY <1>1, <1>2, <1>3
  <2> HIDE DEF e
  <2> QED BY <1>1, <1>3, <2>1, <2>2, <2>3, BecomesKeeps
<1>4. PICK failed \in BOOLEAN : failed = FALSE
  OBVIOUS
<1>5. ASSUME UNCHANGED <<live, yards, seen, applied, served>>
      PROVE  Serves(p, e, failed)
  BY <1>4, <1>5, UntouchedKeeps
<1>6. ASSUME NEW ok \in BOOLEAN, Serves(p, e, ok), Update(p, Failure(p)),
             live' = live \/ faults' # 0, faults' \in Nat, faults' = 0 => faults = 0
      PROVE  ClientsInv'
  <2>1. Grown(yards, yards') /\ served \subseteq served' /\ c.at \in Running
    BY <1>1, <1>6 DEF Serves, Running
  <2>2. PICK n : Becomes(p, n)
    BY <1>6, <2>1, FailureBecomes
  <2> QED BY <1>3, <1>6, <2>2
<1>7. CASE Update(p, Failure(p)) /\ UNCHANGED <<live, yards, seen, applied, served, faults>>
  BY <1>2, <1>5, <1>6, <1>7
<1>8. ASSUME Available(e, Cloud(p)), NEW ok \in BOOLEAN, Effect(p, e, ok), Receive(p, e, ok), UNCHANGED faults
      PROVE  ClientsInv'
  <2>1. Serves(p, e, ok)
    BY <1>1, <1>8, EffectKeeps
  <2>2. PICK n : Becomes(p, n) /\ (live' # live => n.at = "forget")
    BY <1>1, <1>8, <2>1, ReceiveBecomes
  <2> QED BY <1>2, <1>3, <1>8, <2>1, <2>2
<1>9. ASSUME faults' = faults + 1, Update(p, Failure(p)), NEW ok \in BOOLEAN, Effect(p, e, ok)
      PROVE  ClientsInv'
  <2>1. Serves(p, e, ok)
    BY <1>1, <1>9, EffectKeeps
  <2> QED BY <1>2, <1>6, <1>9, <2>1
<1>10. CASE faults' = faults + 1 /\ Update(p, Failure(p)) /\ UNCHANGED <<live, yards, seen, applied, served>>
  BY <1>2, <1>5, <1>6, <1>10
<1> QED BY <1>7, <1>8, <1>9, <1>10 DEF Send

LEMMA PollDeviceKeeps == ASSUME ClientsInv, NEW p \in Procs, PollDevice(p) PROVE ClientsInv'
<1> DEFINE c == proc[p]
<1>1. /\ c.at = "send" /\ c.op = "login" /\ UNCHANGED <<store, profiles, settings>> /\ UNCHANGED files
      /\ UNCHANGED <<unspent, yards, seen, applied, served, faults>>
  BY DEF PollDevice, files
<1>2. /\ live \subseteq Secrets /\ faults \in Nat /\ yards \in Seq(YardRow)
      /\ applied \in [SupportsIdempotency -> Nat]
      /\ \A f \in SupportsIdempotency : applied[f] = IF <<f, "key">> \in seen THEN 1 ELSE 0
      /\ \A q \in Procs : proc[q].at \in Holding => proc[q].token \in live
      /\ \/ store["cloud"] \in live \cup {Absent}
         \/ faults # 0
         \/ \E q \in Procs : proc[q].at \in {"save", "forget"}
  BY DEF ClientsInv, ClientsTyped, RetriesHold, TokensHold
<1>3. CASE UNCHANGED <<proc, live>>
  BY <1>1, <1>3 DEF ClientsInv, CallsSound, ClientsTyped, TokensHold, ProfileHolds, YardsHold, RetriesHold,
                    DeploysHold, Published
<1>4. CASE Update(p, Failure(p)) /\ UNCHANGED live
  <2>1. PICK n : Becomes(p, n)
    BY <1>1, <1>4, GrownSame, FailureBecomes DEF Running
  <2> QED BY <1>1, <1>2, <1>4, <2>1, GrownSame, BecomesKeeps
<1>5. ASSUME NEW new \in Unheld, live' = (live \cap Known) \cup {new},
             Update(p, [at |-> "keep", token |-> new])
      PROVE  ClientsInv'
  <2> DEFINE n == With([at |-> "keep", token |-> new], c)
  <2>1. new \in Secrets /\ new # Absent
    BY <1>5, HeldTokens
  <2>2. /\ Replaced(p, n) /\ n.at = "keep" /\ n.token = new
        /\ CallsSound' /\ YardsHold' /\ RetriesHold' /\ DeploysHold'
    BY <1>1, <1>5, <2>1, ShiftKeeps DEF Running
  <2> HIDE DEF n
  <2>3. ClientsTyped'
    BY <1>1, <1>5, <2>1 DEF ClientsInv, ClientsTyped
  <2>4. TokensHold'
    <3>1. new \in live' /\ \A q \in Procs \ {p} : proc[q].at \in Holding => proc[q].token \in live'
      BY <1>2, <1>5, HeldTokens
    <3>2. store["cloud"] \in live => store["cloud"] \in live'
      BY <1>5, HeldTokens
    <3>3. proc[p].at \notin {"save", "forget"}
      BY <1>1
    <3> QED BY <1>1, <1>2, <1>5, <2>2, <3>1, <3>2, <3>3, GainKeeps
  <2>5. ProfileHolds'
    BY <1>1, <2>2, ProfileKept
  <2> QED BY <2>2, <2>3, <2>4, <2>5 DEF ClientsInv
<1> QED BY <1>3, <1>4, <1>5 DEF PollDevice

LEMMA ExchangeKeeps == ASSUME ClientsInv, NEW p \in Procs, Exchange(p) PROVE ClientsInv'
<1> DEFINE c == proc[p]
<1>1. /\ c.at = "exchange" /\ UNCHANGED <<store, profiles, settings>> /\ UNCHANGED files
      /\ UNCHANGED <<yards, seen, applied, served>>
  BY DEF Exchange, files
<1>2. /\ live \subseteq Secrets /\ faults \in Nat /\ yards \in Seq(YardRow)
      /\ applied \in [SupportsIdempotency -> Nat]
      /\ \A f \in SupportsIdempotency : applied[f] = IF <<f, "key">> \in seen THEN 1 ELSE 0
      /\ \A q \in Procs : proc[q].at \in Holding => proc[q].token \in live
      /\ \/ store["cloud"] \in live \cup {Absent}
         \/ faults # 0
         \/ \E q \in Procs : proc[q].at \in {"save", "forget"}
      /\ Sound(c)
  BY DEF ClientsInv, ClientsTyped, RetriesHold, TokensHold, CallsSound
<1>3. ASSUME Update(p, Failure(p)), live' \subseteq Secrets, unspent' => unspent,
             faults' \in Nat, faults' = 0 => faults = 0,
             \A q \in Procs \ {p} : proc[q].at \in Holding => proc[q].token \in live',
             store["cloud"] \in live => store["cloud"] \in live'
      PROVE  ClientsInv'
  <2>1. PICK n : Becomes(p, n)
    BY <1>1, <1>3, GrownSame, FailureBecomes DEF Adding
  <2>2. \/ store["cloud"] \in live' \cup {Absent}
        \/ faults' # 0
        \/ proc[p].at \notin {"save", "forget"} /\ \E q \in Procs : proc[q].at \in {"save", "forget"}
    BY <1>1, <1>2, <1>3
  <2> QED BY <1>1, <1>2, <1>3, <2>1, <2>2, GrownSame, BecomesKeeps
<1>4. CASE ~unspent
  BY <1>2, <1>3, <1>4 DEF Exchange
<1>5. CASE unspent
  <2>1. unspent' = FALSE
    BY <1>5 DEF Exchange
  <2>2. PICK new \in Unheld :
          /\ live' = (live \cap Known) \cup {new}
          /\ \/ Update(p, [at |-> "keep_home", token |-> new]) /\ UNCHANGED faults
             \/ faults' = faults + 1 /\ Update(p, Failure(p))
    BY <1>5 DEF Exchange
  <2>3. /\ new \in Secrets /\ new # Absent /\ new \in live' /\ live' \subseteq Secrets
        /\ \A q \in Procs : proc[q].at \in Holding => proc[q].token \in live'
        /\ store["cloud"] \in live => store["cloud"] \in live'
    BY <1>2, <2>2, HeldTokens
  <2>4. CASE faults' = faults + 1 /\ Update(p, Failure(p))
    BY <1>2, <1>3, <2>1, <2>3, <2>4
  <2>5. CASE Update(p, [at |-> "keep_home", token |-> new]) /\ UNCHANGED faults
    <3> DEFINE n == With([at |-> "keep_home", token |-> new], c)
    <3>1. /\ Replaced(p, n) /\ n.at = "keep_home" /\ n.token = new
          /\ CallsSound' /\ YardsHold' /\ RetriesHold' /\ DeploysHold'
      BY <1>1, <2>3, <2>5, ShiftKeeps DEF Adding
    <3> HIDE DEF n
    <3>2. ClientsTyped'
      BY <1>1, <2>3, <2>5 DEF ClientsInv, ClientsTyped
    <3>3. TokensHold'
      <4>1. proc[p].at \notin {"save", "forget"}
        BY <1>1
      <4> QED BY <1>1, <1>2, <2>2, <2>3, <2>5, <3>1, <4>1, GainKeeps
    <3>4. ProfileHolds'
      <4>1. /\ ProfileHolds /\ proc'[p].at = "keep_home"
            /\ \A q \in Procs \ {p} : proc'[q] = proc[q]
        BY <3>1 DEF ClientsInv, Replaced
      <4>2. /\ "home" \notin profiles /\ store["home"] = Absent
            /\ \A q \in Procs : proc[q].at \notin {"keep_home", "write"}
        BY <1>5, <4>1 DEF ProfileHolds
      <4> QED BY <1>1, <2>1, <4>1, <4>2 DEF ProfileHolds
    <3> QED BY <3>1, <3>2, <3>3, <3>4 DEF ClientsInv
  <2> QED BY <2>2, <2>4, <2>5
<1> QED BY <1>4, <1>5

(* A terminal is free again.                                               *)
LEMMA RestingKeeps ==
  ASSUME ClientsInv, NEW p \in Procs, proc' = [proc EXCEPT ![p] = Resting],
         served' = {s \in served : s[2] # p},
         UNCHANGED <<store, profiles, settings, live, unspent, yards, seen, applied>>,
         faults' \in Nat, faults' = 0 => faults = 0,
         proc[p].at = "answered" \/ faults' # 0
  PROVE  ClientsInv'
<1>1. Replaced(p, Resting)
  BY DEF Replaced, ClientsInv, CallsSound
<1>2. /\ Sound(Resting) /\ Resting.id = Absent /\ Resting.at = "idle" /\ Resting.token = Absent
      /\ Resting.outcome # "ok" /\ Resting.touched = Absent
  BY RestingSound, ClientsAssumption
<1>3. CallsSound' /\ ClientsTyped'
  BY <1>1, <1>2, CallsKept DEF ClientsInv, ClientsTyped
<1>4. YardsNamed(Resting, yards') /\ Recorded(Resting, seen') /\ Published(Resting, p, served')
  BY <1>2 DEF YardsNamed, Recorded, Published, Running
<1>5. \A q \in Procs \ {p} : \A y : <<y, q>> \in served => <<y, q>> \in served'
  OBVIOUS
<1>6. \A f \in SupportsIdempotency : applied'[f] = IF <<f, "key">> \in seen' THEN 1 ELSE 0
  BY DEF ClientsInv, RetriesHold
<1>7. YardsHold' /\ RetriesHold' /\ DeploysHold'
  BY <1>1, <1>4, <1>5, <1>6, GrownSame, DutiesKept
<1>8. TokensHold'
  <2>1. /\ \A q \in Procs : proc[q].at \in Holding => proc[q].token \in live
        /\ \/ store["cloud"] \in live \cup {Absent}
           \/ faults' # 0
           \/ proc[p].at \notin {"save", "forget"} /\ \E q \in Procs : proc[q].at \in {"save", "forget"}
    BY DEF ClientsInv, TokensHold
  <2> QED BY <1>1, <1>2, <2>1, TokensKept DEF Holding
<1>9. ProfileHolds'
  BY <1>1, <1>2, ProfileKept
<1> QED BY <1>3, <1>7, <1>8, <1>9 DEF ClientsInv

LEMMA ClientsNextInv == ASSUME ClientsInv, [ClientsNext]_clientVars PROVE ClientsInv'
<1>1. ASSUME UNCHANGED <<proc, store, profiles, settings, live, unspent, yards, seen, applied, served, faults>>
      PROVE  ClientsInv'
  BY <1>1 DEF ClientsInv, CallsSound, ClientsTyped, TokensHold, ProfileHolds, YardsHold, RetriesHold,
              DeploysHold, Published
<1>2. ASSUME NEW p \in Procs, ServeMcp(p) \/ InitializeMcp(p) \/ CloseMcp(p)
      PROVE  ClientsInv'
  BY <1>1, <1>2 DEF ServeMcp, InitializeMcp, CloseMcp, files, service
<1>3. ASSUME NEW p \in Procs, Render(p) PROVE ClientsInv'
  <2>1. faults \in Nat
    BY DEF ClientsInv, ClientsTyped
  <2> QED BY <1>3, <2>1, RestingKeeps DEF Render, files
<1>4. ASSUME NEW p \in Procs, Kill(p) PROVE ClientsInv'
  <2>1. faults \in Nat
    BY DEF ClientsInv, ClientsTyped
  <2>2. faults' \in Nat /\ faults' # 0
    BY <1>4, <2>1 DEF Kill
  <2>3. /\ proc' = [proc EXCEPT ![p] = Resting]
        /\ served' = {s \in served : s[2] # p}
        /\ UNCHANGED <<store, profiles, settings, live, unspent, yards, seen, applied>>
    BY <1>4 DEF Kill, files
  <2> QED BY <2>2, <2>3, RestingKeeps
<1>5. CASE UNCHANGED clientVars
  BY <1>1, <1>5 DEF clientVars
<1> QED BY <1>2, <1>3, <1>4, <1>5, RunCommandKeeps, CallToolKeeps, ReadResourceKeeps, LoadKeeps, RefreshKeeps,
           SaveKeeps, ForgetKeeps, KeepKeeps, SendKeeps, PollDeviceKeeps, AddProfileKeeps, ExchangeKeeps,
           KeepHomeKeeps, WriteProfileKeeps DEF ClientsNext

THEOREM ClientsInvHolds == ClientsSpec => []ClientsInv
BY ClientsInitInv, ClientsNextInv, PTL DEF ClientsSpec

(* Credentials are kept where the client will look for them, are worth     *)
(* something there, and are shown to nobody (access_token,                 *)
(* run_from_standard_input, sanitize.rs).                                  *)
THEOREM CredentialsAreKeptHolds == ClientsSpec => []CredentialsAreKept
<1>1. ClientsInv => CredentialsAreKept
  <2> SUFFICES ASSUME ClientsInv PROVE CredentialsAreKept
    OBVIOUS
  <2>1. StoredTokenIsLive
    BY DEF ClientsInv, TokensHold, StoredTokenIsLive
  <2>2. ProfileHasItsToken
    <3>1. \A p \in Procs : proc[p].at = "write" => proc[p].op = "profile_add"
      BY DEF ClientsInv, CallsSound, Sound, Adding
    <3> QED BY <3>1 DEF ClientsInv, ProfileHolds, ProfileHasItsToken
  <2>3. OnlyTheIssuedLink
    BY DEF ClientsInv, CallsSound, Sound, OnlyTheIssuedLink
  <2> QED BY <2>1, <2>2, <2>3 DEF CredentialsAreKept
<1> QED BY <1>1, ClientsInvHolds, PTL

(* A command acts on what it was told to, once, and tells what became of   *)
(* it (select_yard, retry_digest, deploy_all).                             *)
THEOREM CommandsDoAsToldHolds == ClientsSpec => []CommandsDoAsTold
<1>1. ClientsInv => CommandsDoAsTold
  <2> SUFFICES ASSUME ClientsInv PROVE CommandsDoAsTold
    OBVIOUS
  <2>1. ActsOnTheYardNamed
    BY DEF ClientsInv, YardsHold, YardsNamed, ActsOnTheYardNamed
  <2>2. ASSUME NEW e \in SupportsIdempotency PROVE applied[e] <= 1
    <3>1. applied[e] = IF <<e, "key">> \in seen THEN 1 ELSE 0
      BY DEF ClientsInv, RetriesHold
    <3>2. CASE <<e, "key">> \in seen
      BY <3>1, <3>2
    <3>3. CASE <<e, "key">> \notin seen
      BY <3>1, <3>3
    <3> QED BY <3>2, <3>3
  <2>3. ASSUME NEW p \in Procs, proc[p].outcome = "ok", proc[p].key # Absent,
               NEW i \in DOMAIN Requests[proc[p].op],
               Requests[proc[p].op][i].endpoint \in SupportsIdempotency
        PROVE  applied[Requests[proc[p].op][i].endpoint] = 1
    <3> DEFINE c == proc[p]
               r == Requests[c.op]
    <3>1. Sound(c) /\ Recorded(c, seen)
      BY DEF ClientsInv, CallsSound, RetriesHold
    <3>2. c.op \in Keyed
      BY <2>3, <3>1 DEF Sound
    <3>3. Suits(c.op, r)
      <4>1. c.op \in Operations
        BY <3>2, RequestsCover DEF Keyed, OperationNames
      <4> QED BY <4>1, RequestsSuit
    <3>4. Len(r) = 1 /\ i = 1
      BY <2>3, <3>2, <3>3 DEF Suits
    <3>5. Final(c.op) = r[i].endpoint
      BY <3>4 DEF Final
    <3>6. <<r[i].endpoint, "key">> \in seen
      BY <2>3, <3>1, <3>5 DEF Recorded
    <3> QED BY <2>3, <3>6 DEF ClientsInv, RetriesHold
  <2>4. RetryAppliesOnce
    BY <2>2, <2>3 DEF RetryAppliesOnce
  <2>5. BatchIsReported
    <3> SUFFICES ASSUME NEW p \in Procs, proc[p].op = "deploy_web_yard", proc[p].outcome = "ok"
                 PROVE  IF "all" \in proc[p].args THEN settings.yards \X {p} \subseteq served
                                                  ELSE <<proc[p].yard, p>> \in served
      BY DEF BatchIsReported
    <3>1. IF "all" \in proc[p].args THEN \A y \in settings.yards : <<y, p>> \in served
                                    ELSE <<proc[p].yard, p>> \in served
      BY DEF ClientsInv, DeploysHold, Published
    <3> QED BY <3>1
  <2> QED BY <2>1, <2>4, <2>5 DEF CommandsDoAsTold
<1> QED BY <1>1, ClientsInvHolds, PTL

-----------------------------------------------------------------------------
(* The five tables agree.  A request is Routed when the server's decoder,  *)
(* if there is one, takes its fields whichever optional ones are present;  *)
(* each table of requests is followed through the routes it reaches, each  *)
(* table of tools through the parsers; then what a terminal has yet to     *)
(* send, and why its call was refused, is an inductive invariant.          *)

(* The decoders of each table of routes, by endpoint.                      *)
LEMMA RouteDomains ==
  /\ DOMAIN ShareFields = {"CreateShare", "ListShares", "ResolveShare", "DownloadShare",
                           "RevokeShare"}
  /\ DOMAIN SharingFields = {"CreatePreview", "ListPreviews", "RevokePreview",
                             "CreateInbox", "ListInboxes", "RevokeInbox", "ResolveInbox"}
  /\ DOMAIN TransferFields = {"RequestUpload", "RequestUploadParts", "CompleteUpload",
                              "AbortUpload", "UploadStatus", "RequestDownload"}
  /\ DOMAIN ObjectFields = {"ListObjects", "DeleteObject"}
  /\ DOMAIN YardFields = {"StartYardDeploy", "FinaliseYardDeploy", "FailYardDeploy",
                          "ListWebYards", "ListYardDeploys", "ListYardEnvironments",
                          "GetYardAccess", "SetYardVisibility", "GrantYardAccess",
                          "RevokeYardAccess", "RollbackWebYard", "DeleteWebYard"}
  /\ DOMAIN IdentityFields = {"ListYardManagementRoles", "SetYardManagementRole",
                              "RevokeYardManagementRole", "GetYardApplicationPolicy",
                              "SetYardApplicationPolicy", "SetYardAccessRoles"}
  /\ DOMAIN GuestInviteFields = {"ListYardGuestInvites", "CreateYardGuestInvite",
                                 "RevokeYardGuestInvite"}
  /\ DOMAIN SessionFields = {"ListYardSessions", "RevokeYardSession"}
  /\ DOMAIN GroupFields = {"ListGroups", "CreateGroup", "RenameGroup", "ListGroupMembers",
                           "AddGroupMember", "RemoveGroupMember", "DeactivateGroup"}
  /\ DOMAIN LocalUserFields = {"ListLocalUsers", "CreateLocalUser",
                               "ResetLocalUserLoginKey", "DeactivateLocalUser"}
  /\ DOMAIN WorkspaceFields = {"Health", "WhoAmI", "ListWorkspaces", "CreateWorkspace",
                               "ListProjects", "CreateProject"}
  /\ DOMAIN RenameFields = {"RenameWorkspace"}
  /\ DOMAIN BootstrapFields = {"ExchangeBootstrapToken"}
  /\ DOMAIN TokenFields = {"ListApiTokens", "CreateApiToken", "RevokeApiToken"}
  /\ DOMAIN TrustFields = {"ListCiTrusts", "CreateCiTrust", "RevokeCiTrust"}
  /\ DOMAIN ExchangeFields = {"GitHubOidcExchange"}
  /\ DOMAIN CliSessionFields = {"ListCliSessions", "RevokeCliSession"}
  /\ DOMAIN AuditFields = {"ListAudit"}
  /\ DOMAIN RetentionFields = {"GetRetention", "GetRetentionOverview", "ClearRetention",
                               "SetRetention"}
  BY DEF ShareFields, SharingFields, TransferFields, ObjectFields, YardFields,
         IdentityFields, GuestInviteFields, SessionFields, GroupFields,
         LocalUserFields, WorkspaceFields, RenameFields, BootstrapFields,
         TokenFields, TrustFields, ExchangeFields, CliSessionFields, AuditFields,
         RetentionFields

(* Endpoint e has a route whose decoder demands what is always sent, and   *)
(* takes whatever else may be.                                             *)
Routed(e, always, extra) ==
  Available(e, FALSE) => /\ e \in DOMAIN Routes
                         /\ Routes[e].requires \subseteq always
                         /\ always \cup extra \subseteq Routes[e].accepts

LEMMA RoutePicks ==
  ASSUME NEW e \in DOMAIN Routes
  PROVE  \/ e \in DOMAIN ShareFields /\ Routes[e] = ShareFields[e]
         \/ e \in DOMAIN SharingFields /\ Routes[e] = SharingFields[e]
         \/ e \in DOMAIN TransferFields /\ Routes[e] = TransferFields[e]
         \/ e \in DOMAIN ObjectFields /\ Routes[e] = ObjectFields[e]
         \/ e \in DOMAIN YardFields /\ Routes[e] = YardFields[e]
         \/ e \in DOMAIN IdentityFields /\ Routes[e] = IdentityFields[e]
         \/ e \in DOMAIN GuestInviteFields /\ Routes[e] = GuestInviteFields[e]
         \/ e \in DOMAIN SessionFields /\ Routes[e] = SessionFields[e]
         \/ e \in DOMAIN GroupFields /\ Routes[e] = GroupFields[e]
         \/ e \in DOMAIN LocalUserFields /\ Routes[e] = LocalUserFields[e]
         \/ e \in DOMAIN WorkspaceFields /\ Routes[e] = WorkspaceFields[e]
         \/ e \in DOMAIN RenameFields /\ Routes[e] = RenameFields[e]
         \/ e \in DOMAIN BootstrapFields /\ Routes[e] = BootstrapFields[e]
         \/ e \in DOMAIN TokenFields /\ Routes[e] = TokenFields[e]
         \/ e \in DOMAIN TrustFields /\ Routes[e] = TrustFields[e]
         \/ e \in DOMAIN ExchangeFields /\ Routes[e] = ExchangeFields[e]
         \/ e \in DOMAIN CliSessionFields /\ Routes[e] = CliSessionFields[e]
         \/ e \in DOMAIN AuditFields /\ Routes[e] = AuditFields[e]
         \/ e \in DOMAIN RetentionFields /\ Routes[e] = RetentionFields[e]
  BY MergePicks DEF Routes

LEMMA RoutesCover ==
  /\ DOMAIN ShareFields \subseteq DOMAIN Routes
  /\ DOMAIN SharingFields \subseteq DOMAIN Routes
  /\ DOMAIN TransferFields \subseteq DOMAIN Routes
  /\ DOMAIN ObjectFields \subseteq DOMAIN Routes
  /\ DOMAIN YardFields \subseteq DOMAIN Routes
  /\ DOMAIN IdentityFields \subseteq DOMAIN Routes
  /\ DOMAIN GuestInviteFields \subseteq DOMAIN Routes
  /\ DOMAIN SessionFields \subseteq DOMAIN Routes
  /\ DOMAIN GroupFields \subseteq DOMAIN Routes
  /\ DOMAIN LocalUserFields \subseteq DOMAIN Routes
  /\ DOMAIN WorkspaceFields \subseteq DOMAIN Routes
  /\ DOMAIN RenameFields \subseteq DOMAIN Routes
  /\ DOMAIN BootstrapFields \subseteq DOMAIN Routes
  /\ DOMAIN TokenFields \subseteq DOMAIN Routes
  /\ DOMAIN TrustFields \subseteq DOMAIN Routes
  /\ DOMAIN ExchangeFields \subseteq DOMAIN Routes
  /\ DOMAIN CliSessionFields \subseteq DOMAIN Routes
  /\ DOMAIN AuditFields \subseteq DOMAIN Routes
  /\ DOMAIN RetentionFields \subseteq DOMAIN Routes
  BY DEF Routes, Merge

(* Table t is part of the routes.                                          *)
RoutesTo(t) == \A e \in DOMAIN t : e \in DOMAIN Routes /\ Routes[e] = t[e]

LEMMA RoutesAre ==
  /\ RoutesTo(ShareFields)
  /\ RoutesTo(SharingFields)
  /\ RoutesTo(TransferFields)
  /\ RoutesTo(ObjectFields)
  /\ RoutesTo(YardFields)
  /\ RoutesTo(IdentityFields)
  /\ RoutesTo(GuestInviteFields)
  /\ RoutesTo(SessionFields)
  /\ RoutesTo(GroupFields)
  /\ RoutesTo(LocalUserFields)
  /\ RoutesTo(WorkspaceFields)
  /\ RoutesTo(RenameFields)
  /\ RoutesTo(BootstrapFields)
  /\ RoutesTo(TokenFields)
  /\ RoutesTo(TrustFields)
  /\ RoutesTo(ExchangeFields)
  /\ RoutesTo(CliSessionFields)
  /\ RoutesTo(AuditFields)
  /\ RoutesTo(RetentionFields)
<1>1. RoutesTo(ShareFields)
  BY RoutesCover, RoutePicks, RouteDomains DEF RoutesTo
<1>2. RoutesTo(SharingFields)
  BY RoutesCover, RoutePicks, RouteDomains DEF RoutesTo
<1>3. RoutesTo(TransferFields)
  BY RoutesCover, RoutePicks, RouteDomains DEF RoutesTo
<1>4. RoutesTo(ObjectFields)
  BY RoutesCover, RoutePicks, RouteDomains DEF RoutesTo
<1>5. RoutesTo(YardFields)
  BY RoutesCover, RoutePicks, RouteDomains DEF RoutesTo
<1>6. RoutesTo(IdentityFields)
  BY RoutesCover, RoutePicks, RouteDomains DEF RoutesTo
<1>7. RoutesTo(GuestInviteFields)
  BY RoutesCover, RoutePicks, RouteDomains DEF RoutesTo
<1>8. RoutesTo(SessionFields)
  BY RoutesCover, RoutePicks, RouteDomains DEF RoutesTo
<1>9. RoutesTo(GroupFields)
  BY RoutesCover, RoutePicks, RouteDomains DEF RoutesTo
<1>10. RoutesTo(LocalUserFields)
  BY RoutesCover, RoutePicks, RouteDomains DEF RoutesTo
<1>11. RoutesTo(WorkspaceFields)
  BY RoutesCover, RoutePicks, RouteDomains DEF RoutesTo
<1>12. RoutesTo(RenameFields)
  BY RoutesCover, RoutePicks, RouteDomains DEF RoutesTo
<1>13. RoutesTo(BootstrapFields)
  BY RoutesCover, RoutePicks, RouteDomains DEF RoutesTo
<1>14. RoutesTo(TokenFields)
  BY RoutesCover, RoutePicks, RouteDomains DEF RoutesTo
<1>15. RoutesTo(TrustFields)
  BY RoutesCover, RoutePicks, RouteDomains DEF RoutesTo
<1>16. RoutesTo(ExchangeFields)
  BY RoutesCover, RoutePicks, RouteDomains DEF RoutesTo
<1>17. RoutesTo(CliSessionFields)
  BY RoutesCover, RoutePicks, RouteDomains DEF RoutesTo
<1>18. RoutesTo(AuditFields)
  BY RoutesCover, RoutePicks, RouteDomains DEF RoutesTo
<1>19. RoutesTo(RetentionFields)
  BY RoutesCover, RoutePicks, RouteDomains DEF RoutesTo
<1> QED BY <1>1, <1>2, <1>3, <1>4, <1>5, <1>6, <1>7, <1>8, <1>9, <1>10,
           <1>11, <1>12, <1>13, <1>14, <1>15, <1>16, <1>17, <1>18, <1>19

(* An operation that the catalogue calls read-only sends reads.            *)
OnlyReads(op, e) == op \in ReadOnly => e \in SafeEndpoints

(* Request q may leave for operation op.                                   *)
Carried(op, q) ==
  /\ OnlyReads(op, q.endpoint)
  /\ Routed(q.endpoint, q.always, {q.maybe[a] : a \in DOMAIN q.maybe})

AllCarried(op, r) == \A i \in DOMAIN r : Carried(op, r[i])

LEMMA OneCarried ==
  ASSUME NEW op, NEW e, NEW always, NEW maybe, NEW extra, OnlyReads(op, e),
         \A a \in DOMAIN maybe : maybe[a] \in extra, Routed(e, always, extra)
  PROVE  AllCarried(op, One(e, always, maybe))
<1>1. {maybe[a] : a \in DOMAIN maybe} \subseteq extra
  OBVIOUS
<1>2. Routed(e, always, {maybe[a] : a \in DOMAIN maybe})
  BY <1>1 DEF Routed
<1> DEFINE q == Request(e, always, maybe)
<1>3. q.endpoint = e /\ q.always = always /\ q.maybe = maybe
  BY DEF Request
<1> HIDE DEF q
<1>4. Carried(op, q)
  BY <1>2, <1>3 DEF Carried
<1>5. One(e, always, maybe) = << q >>
  BY DEF One, q
<1> QED BY <1>4, <1>5 DEF AllCarried

(* Requests in a row.                                                      *)
InRow(r) == r \in Seq({r[i] : i \in DOMAIN r})

LEMMA RowsStart ==
  /\ \A e, always, maybe : InRow(One(e, always, maybe))
  /\ InRow(UploadRequests)
<1>1. \A q : InRow(<< q >>)
  BY DEF InRow
<1>2. InRow(UploadRequests)
  BY DEF InRow, UploadRequests
<1> QED BY <1>1, <1>2 DEF One

LEMMA JoinCarried ==
  ASSUME NEW op, NEW r, NEW s, InRow(r), InRow(s), AllCarried(op, r), AllCarried(op, s)
  PROVE  InRow(r \o s) /\ AllCarried(op, r \o s)
<1> DEFINE R == {r[i] : i \in DOMAIN r} \cup {s[i] : i \in DOMAIN s}
           t == r \o s
<1>1. r \in Seq(R) /\ s \in Seq(R)
  BY DEF InRow
<1> HIDE DEF R
<1>2. /\ t \in Seq(R) /\ Len(t) = Len(r) + Len(s)
      /\ \A i \in 1 .. Len(r) + Len(s) : t[i] = IF i <= Len(r) THEN r[i] ELSE s[i - Len(r)]
  BY <1>1, ConcatProperties
<1>3. Len(r) \in Nat /\ Len(s) \in Nat /\ DOMAIN r = 1 .. Len(r) /\ DOMAIN s = 1 .. Len(s)
      /\ DOMAIN t = 1 .. Len(t)
  BY <1>1, <1>2
<1> HIDE DEF t
<1>4. \A i \in DOMAIN t : Carried(op, t[i])
  <2> SUFFICES ASSUME NEW i \in DOMAIN t PROVE Carried(op, t[i])
    OBVIOUS
  <2>1. CASE i <= Len(r)
    BY <1>2, <1>3, <2>1 DEF AllCarried
  <2>2. CASE ~(i <= Len(r))
    <3>1. i - Len(r) \in DOMAIN s /\ t[i] = s[i - Len(r)]
      BY <1>2, <1>3, <2>2
    <3> QED BY <3>1 DEF AllCarried
  <2> QED BY <2>1, <2>2
<1>5. InRow(t)
  BY <1>2, SeqOfRange DEF InRow, Range
<1> QED BY <1>4, <1>5 DEF AllCarried, t

(* The list of a project's yards, which comes before a command on one.     *)
LEMMA ListingCarried ==
  \A op :
    AllCarried(op, One("ListWebYards", Scoped, Nothing))
<1> SUFFICES ASSUME NEW op PROVE AllCarried(op, One("ListWebYards", Scoped, Nothing))
  OBVIOUS
<1>1. OnlyReads(op, "ListWebYards")
  BY DEF OnlyReads, SafeEndpoints
<1>2. Routes["ListWebYards"] = YardFields["ListWebYards"] /\ "ListWebYards" \in DOMAIN Routes
  BY RoutesAre DEF RoutesTo, YardFields
<1>3. Routed("ListWebYards", Scoped, {})
  BY <1>2 DEF Routed, YardFields, Fields, Scoped
<1>4. \A a \in DOMAIN Nothing : Nothing[a] \in {}
  BY DEF Nothing
<1> QED BY <1>1, <1>3, <1>4, OneCarried

LEMMA PairCarried ==
  ASSUME NEW op, NEW e, NEW always, NEW maybe, NEW extra, OnlyReads(op, e),
         \A a \in DOMAIN maybe : maybe[a] \in extra, Routed(e, {"yardId"} \cup always, extra)
  PROVE  AllCarried(op, OnYard(e, always, maybe))
<1> DEFINE list == Request("ListWebYards", Scoped, Nothing)
           act == Request(e, {"yardId"} \cup always, maybe)
<1>1. One("ListWebYards", Scoped, Nothing) = << list >> /\ One(e, {"yardId"} \cup always, maybe) = << act >>
  BY DEF One
<1>2. OnYard(e, always, maybe) = << list, act >>
  BY DEF OnYard
<1> HIDE DEF list, act
<1>3. Carried(op, list)
  BY <1>1, ListingCarried DEF AllCarried
<1>4. Carried(op, act)
  BY <1>1, OneCarried DEF AllCarried
<1> QED BY <1>2, <1>3, <1>4 DEF AllCarried

LEMMA UploadsCarried ==
  \A op : op \notin ReadOnly => AllCarried(op, UploadRequests)
<1> SUFFICES ASSUME NEW op, op \notin ReadOnly PROVE AllCarried(op, UploadRequests)
  OBVIOUS
<1>1. /\ Routes["RequestUpload"] = TransferFields["RequestUpload"]
      /\ Routes["CompleteUpload"] = TransferFields["CompleteUpload"]
      /\ {"RequestUpload", "CompleteUpload"} \subseteq DOMAIN Routes
  BY RoutesAre DEF RoutesTo, TransferFields
<1> DEFINE sent == Scoped \cup {"path", "filename", "sizeBytes", "checksumSha256", "contentType"}
           first == Request("RequestUpload", sent, Nothing)
           last == Request("CompleteUpload", {"uploadId", "parts"}, Nothing)
<1>2. Routed("RequestUpload", sent, {})
  BY <1>1 DEF Routed, TransferFields, Fields, Scoped
<1>3. Routed("CompleteUpload", {"uploadId", "parts"}, {})
  BY <1>1 DEF Routed, TransferFields, Fields
<1>4. \A a \in DOMAIN Nothing : Nothing[a] \in {}
  BY DEF Nothing
<1>5. OnlyReads(op, "RequestUpload") /\ OnlyReads(op, "CompleteUpload")
  BY DEF OnlyReads
<1>6. UploadRequests = << first, last >>
  BY DEF UploadRequests
<1>7. One("RequestUpload", sent, Nothing) = << first >> /\ One("CompleteUpload", {"uploadId", "parts"}, Nothing) = << last >>
  BY DEF One
<1> HIDE DEF sent, first, last
<1>8. Carried(op, first)
  BY <1>2, <1>4, <1>5, <1>7, OneCarried DEF AllCarried
<1>9. Carried(op, last)
  BY <1>3, <1>4, <1>5, <1>7, OneCarried DEF AllCarried
<1> QED BY <1>6, <1>8, <1>9 DEF AllCarried

(* No optional field adds nothing.                                         *)
LEMMA NothingAdds == \A a \in DOMAIN Nothing : Nothing[a] \in {}
  BY DEF Nothing

(* Every operation of a table of requests sends only what is carried.      *)
TableCarried(t) == \A op \in DOMAIN t : AllCarried(op, t[op])

LEMMA ResourceRequestsCarried == TableCarried(ResourceRequests)
<1>1. DOMAIN ResourceRequests =
        {"whoami", "list_workspaces", "create_workspace", "rename_workspace",
         "list_projects", "create_project", "list_objects", "delete_object", "upload_file",
         "download_file"}
  BY DEF ResourceRequests
<1>2. /\ OnlyReads("whoami", "WhoAmI") /\ OnlyReads("list_workspaces", "ListWorkspaces")
      /\ OnlyReads("create_workspace", "CreateWorkspace")
      /\ OnlyReads("rename_workspace", "RenameWorkspace")
      /\ OnlyReads("list_projects", "ListProjects")
      /\ OnlyReads("create_project", "CreateProject")
      /\ OnlyReads("list_objects", "ListObjects") /\ OnlyReads("delete_object", "DeleteObject")
      /\ OnlyReads("download_file", "RequestDownload")
  BY DEF OnlyReads, ReadOnly, ReadOnlyRegular, ReadOnlyAdmin, ReadOnlyGroups,
         ReadOnlyDashboard, SafeEndpoints
<1>3. RoutesTo(ObjectFields) /\ RoutesTo(RenameFields) /\ RoutesTo(TransferFields) /\
      RoutesTo(WorkspaceFields)
  BY RoutesAre
<1>4. /\ Routed("WhoAmI", {}, {})
      /\ Routed("ListWorkspaces", {}, {})
      /\ Routed("CreateWorkspace", {"name"}, {})
      /\ Routed("RenameWorkspace", {"name", "workspace"}, {})
      /\ Routed("ListProjects", {"workspace"}, {})
      /\ Routed("CreateProject", {"workspace", "name"}, {})
      /\ Routed("ListObjects", Scoped \cup {"versions"}, {"prefix"})
      /\ Routed("DeleteObject", {"uri"}, {})
      /\ Routed("RequestDownload", {"uri"}, {})
  BY <1>3 DEF Routed, RoutesTo, ObjectFields, RenameFields, TransferFields,
      WorkspaceFields, Fields, Scoped, Available
<1>5. AllCarried("upload_file", ResourceRequests["upload_file"])
  BY UploadsCarried DEF ResourceRequests, ReadOnly, ReadOnlyRegular, ReadOnlyAdmin, ReadOnlyGroups,
         ReadOnlyDashboard
<1>6. \A op \in DOMAIN ResourceRequests \ {"upload_file"} : AllCarried(op, ResourceRequests[op])
  BY <1>1, <1>2, <1>4, OneCarried, NothingAdds DEF ResourceRequests
<1> QED BY <1>5, <1>6 DEF TableCarried

LEMMA SharingRequestsCarried == TableCarried(SharingRequests)
<1>1. DOMAIN SharingRequests =
        {"create_share", "share_file", "list_shares", "revoke_share", "create_inbox",
         "list_inboxes", "revoke_inbox"}
  BY DEF SharingRequests
<1>2. /\ OnlyReads("create_share", "CreateShare") /\ OnlyReads("share_file", "CreateShare")
      /\ OnlyReads("list_shares", "ListShares") /\ OnlyReads("revoke_share", "RevokeShare")
      /\ OnlyReads("create_inbox", "CreateInbox") /\ OnlyReads("list_inboxes", "ListInboxes")
      /\ OnlyReads("revoke_inbox", "RevokeInbox")
  BY DEF OnlyReads, ReadOnly, ReadOnlyRegular, ReadOnlyAdmin, ReadOnlyGroups,
         ReadOnlyDashboard, SafeEndpoints
<1>3. RoutesTo(ShareFields) /\ RoutesTo(SharingFields)
  BY RoutesAre
<1>4. /\ Routed("CreateShare", {"target"}, {"expires", "notify"})
      /\ Routed("ListShares", {"workspace"}, {})
      /\ Routed("RevokeShare", {"shareId"}, {})
      /\ Routed("CreateInbox", Scoped \cup {"name"}, {"expires"})
      /\ Routed("ListInboxes", Scoped, {})
      /\ Routed("RevokeInbox", {"inboxId"}, {})
  BY <1>3 DEF Routed, RoutesTo, ShareFields, SharingFields, Fields, Scoped, Available
<1>5. AllCarried("share_file", SharingRequests["share_file"])
  <2> DEFINE last == One("CreateShare", {"target"}, [expires |-> "expires", notify |-> "notify"])
  <2>1. /\ AllCarried("share_file", UploadRequests)
        /\ AllCarried("share_file", last)
    BY <1>2, <1>4, OneCarried, UploadsCarried, NothingAdds DEF ReadOnly,
       ReadOnlyRegular, ReadOnlyAdmin, ReadOnlyGroups, ReadOnlyDashboard
  <2>2. InRow(UploadRequests) /\ InRow(last)
    BY RowsStart
  <2>3. SharingRequests["share_file"] = UploadRequests \o last
    BY DEF SharingRequests
  <2> HIDE DEF last
  <2> QED BY <2>1, <2>2, <2>3, JoinCarried
<1>6. \A op \in DOMAIN SharingRequests \ {"share_file"} : AllCarried(op, SharingRequests[op])
  BY <1>1, <1>2, <1>4, OneCarried, NothingAdds DEF SharingRequests
<1> QED BY <1>5, <1>6 DEF TableCarried

LEMMA RetentionRequestsCarried == TableCarried(RetentionRequests)
<1>1. DOMAIN RetentionRequests =
        {"get_retention", "get_retention_overview", "set_retention", "clear_retention"}
  BY DEF RetentionRequests
<1>2. /\ OnlyReads("get_retention", "GetRetention")
      /\ OnlyReads("get_retention_overview", "GetRetentionOverview")
      /\ OnlyReads("set_retention", "SetRetention")
      /\ OnlyReads("clear_retention", "ClearRetention")
  BY DEF OnlyReads, ReadOnly, ReadOnlyRegular, ReadOnlyAdmin, ReadOnlyGroups,
         ReadOnlyDashboard, SafeEndpoints
<1>3. RoutesTo(RetentionFields)
  BY RoutesAre
<1>4. /\ Routed("GetRetention", Scoped, {})
      /\ Routed("GetRetentionOverview", Scoped, {})
      /\ Routed("SetRetention", Scoped \cup {"keepLatest"}, {"branch", "path"})
      /\ Routed("ClearRetention", Scoped, {})
  BY <1>3 DEF Routed, RoutesTo, RetentionFields, Fields, Scoped, Available
<1> QED BY <1>1, <1>2, <1>4, OneCarried, NothingAdds DEF TableCarried, RetentionRequests

LEMMA PreviewRequestsCarried == TableCarried(PreviewRequests)
<1>1. DOMAIN PreviewRequests =
        {"create_preview", "list_previews", "revoke_preview"}
  BY DEF PreviewRequests
<1>2. /\ OnlyReads("create_preview", "CreatePreview")
      /\ OnlyReads("list_previews", "ListPreviews")
      /\ OnlyReads("revoke_preview", "RevokePreview")
  BY DEF OnlyReads, ReadOnly, ReadOnlyRegular, ReadOnlyAdmin, ReadOnlyGroups,
         ReadOnlyDashboard, SafeEndpoints
<1>3. RoutesTo(SharingFields)
  BY RoutesAre
<1>4. /\ Routed("CreatePreview", Scoped \cup {"manifestId"}, {"expires"})
      /\ Routed("ListPreviews", Scoped, {})
      /\ Routed("RevokePreview", {"previewId"}, {})
  BY <1>3 DEF Routed, RoutesTo, SharingFields, Fields, Scoped, Available
<1>5. AllCarried("create_preview", PreviewRequests["create_preview"])
  <2> DEFINE last == One("CreatePreview", Scoped \cup {"manifestId"}, [expires |-> "expires"])
  <2>1. /\ AllCarried("create_preview", UploadRequests)
        /\ AllCarried("create_preview", last)
    BY <1>2, <1>4, OneCarried, UploadsCarried, NothingAdds DEF ReadOnly,
       ReadOnlyRegular, ReadOnlyAdmin, ReadOnlyGroups, ReadOnlyDashboard
  <2>2. InRow(UploadRequests) /\ InRow(last)
    BY RowsStart
  <2>3. PreviewRequests["create_preview"] = UploadRequests \o last
    BY DEF PreviewRequests
  <2> HIDE DEF last
  <2> QED BY <2>1, <2>2, <2>3, JoinCarried
<1>6. \A op \in DOMAIN PreviewRequests \ {"create_preview"} : AllCarried(op, PreviewRequests[op])
  BY <1>1, <1>2, <1>4, OneCarried, NothingAdds DEF PreviewRequests
<1> QED BY <1>5, <1>6 DEF TableCarried

LEMMA YardRequestsCarried == TableCarried(YardRequests)
<1>1. DOMAIN YardRequests =
        {"deploy_web_yard", "list_web_yards", "show_yard", "list_yard_deploys",
         "rollback_web_yard", "delete_web_yard", "list_yard_environments"}
  BY DEF YardRequests
<1>2. /\ OnlyReads("deploy_web_yard", "StartYardDeploy")
      /\ OnlyReads("deploy_web_yard", "FinaliseYardDeploy")
      /\ OnlyReads("list_web_yards", "ListWebYards") /\ OnlyReads("show_yard", "ListWebYards")
      /\ OnlyReads("list_yard_deploys", "ListYardDeploys")
      /\ OnlyReads("rollback_web_yard", "RollbackWebYard")
      /\ OnlyReads("delete_web_yard", "DeleteWebYard")
      /\ OnlyReads("list_yard_environments", "ListYardEnvironments")
  BY DEF OnlyReads, ReadOnly, ReadOnlyRegular, ReadOnlyAdmin, ReadOnlyGroups,
         ReadOnlyDashboard, SafeEndpoints
<1>3. RoutesTo(YardFields)
  BY RoutesAre
<1>4. /\ Routed("StartYardDeploy", Scoped \cup {"name", "clientDeployId", "spa", "cleanUrls",
                "public"}, {})
      /\ Routed("FinaliseYardDeploy", {"deployId"}, {})
      /\ Routed("ListWebYards", Scoped, {})
      /\ Routed("ListYardDeploys", {"yardId"} \cup {}, {})
      /\ Routed("RollbackWebYard", {"yardId"} \cup {}, {"deployId"})
      /\ Routed("DeleteWebYard", {"yardId"} \cup {}, {})
      /\ Routed("ListYardEnvironments", {"yardId"} \cup {}, {})
  BY <1>3 DEF Routed, RoutesTo, YardFields, Fields, Scoped, Available
<1>5. AllCarried("deploy_web_yard", YardRequests["deploy_web_yard"])
  <2> DEFINE first == One("StartYardDeploy", Scoped \cup {"name", "clientDeployId", "spa", "cleanUrls", "public"}, Nothing)
             last == One("FinaliseYardDeploy", {"deployId"}, Nothing)
  <2>1. /\ AllCarried("deploy_web_yard", first)
        /\ AllCarried("deploy_web_yard", UploadRequests)
        /\ AllCarried("deploy_web_yard", last)
    BY <1>2, <1>4, OneCarried, UploadsCarried, NothingAdds DEF ReadOnly,
       ReadOnlyRegular, ReadOnlyAdmin, ReadOnlyGroups, ReadOnlyDashboard
  <2>2. InRow(first) /\ InRow(UploadRequests) /\ InRow(last)
    BY RowsStart
  <2>3. YardRequests["deploy_web_yard"] = first \o UploadRequests \o last
    BY DEF YardRequests
  <2> HIDE DEF first, last
  <2> QED BY <2>1, <2>2, <2>3, JoinCarried
<1>6. \A op \in DOMAIN YardRequests \ {"deploy_web_yard"} : AllCarried(op, YardRequests[op])
  BY <1>1, <1>2, <1>4, OneCarried, PairCarried, NothingAdds DEF YardRequests
<1> QED BY <1>5, <1>6 DEF TableCarried

LEMMA AccessRequestsCarried == TableCarried(AccessRequests)
<1>1. DOMAIN AccessRequests =
        {"get_yard_access", "set_yard_visibility", "grant_yard_access",
         "revoke_yard_access", "set_yard_access_roles"}
  BY DEF AccessRequests
<1>2. /\ OnlyReads("get_yard_access", "GetYardAccess")
      /\ OnlyReads("set_yard_visibility", "SetYardVisibility")
      /\ OnlyReads("grant_yard_access", "GrantYardAccess")
      /\ OnlyReads("revoke_yard_access", "RevokeYardAccess")
      /\ OnlyReads("set_yard_access_roles", "SetYardAccessRoles")
  BY DEF OnlyReads, ReadOnly, ReadOnlyRegular, ReadOnlyAdmin, ReadOnlyGroups,
         ReadOnlyDashboard, SafeEndpoints
<1>3. RoutesTo(IdentityFields) /\ RoutesTo(YardFields)
  BY RoutesAre
<1>4. /\ Routed("GetYardAccess", {"yardId"} \cup {}, {})
      /\ Routed("SetYardVisibility", {"yardId"} \cup {"visibility"}, {})
      /\ Routed("GrantYardAccess",
                {"yardId"} \cup {"principalKind", "principalId", "appRoles"},
                {"environmentId", "expiresAt"})
      /\ Routed("RevokeYardAccess", {"yardId"} \cup {"grantId"}, {})
      /\ Routed("SetYardAccessRoles", {"yardId"} \cup {"grantId", "appRoles"}, {})
  BY <1>3 DEF Routed, RoutesTo, IdentityFields, YardFields, Fields, Scoped, Available
<1> QED BY <1>1, <1>2, <1>4, PairCarried, NothingAdds DEF TableCarried, AccessRequests

LEMMA GuestInviteRequestsCarried == TableCarried(GuestInviteRequests)
<1>1. DOMAIN GuestInviteRequests =
        {"list_yard_guest_invites", "create_yard_guest_invite", "revoke_yard_guest_invite"}
  BY DEF GuestInviteRequests
<1>2. /\ OnlyReads("list_yard_guest_invites", "ListYardGuestInvites")
      /\ OnlyReads("create_yard_guest_invite", "CreateYardGuestInvite")
      /\ OnlyReads("revoke_yard_guest_invite", "RevokeYardGuestInvite")
  BY DEF OnlyReads, ReadOnly, ReadOnlyRegular, ReadOnlyAdmin, ReadOnlyGroups,
         ReadOnlyDashboard, SafeEndpoints
<1>3. RoutesTo(GuestInviteFields)
  BY RoutesAre
<1>4. /\ Routed("ListYardGuestInvites", {"yardId"} \cup {"limit"}, {"cursor"})
      /\ Routed("CreateYardGuestInvite", {"yardId"} \cup {"email", "appRoles"},
                {"environmentId", "expiresAt"})
      /\ Routed("RevokeYardGuestInvite", {"yardId"} \cup {"invitationId"}, {})
  BY <1>3 DEF Routed, RoutesTo, GuestInviteFields, Fields, Scoped, Available
<1> QED BY <1>1, <1>2, <1>4, PairCarried, NothingAdds DEF TableCarried, GuestInviteRequests

LEMMA IdentityRequestsCarried == TableCarried(IdentityRequests)
<1>1. DOMAIN IdentityRequests =
        {"list_yard_management_roles", "set_yard_management_role",
         "revoke_yard_management_role", "get_yard_application_policy",
         "set_yard_application_policy"}
  BY DEF IdentityRequests
<1>2. /\ OnlyReads("list_yard_management_roles", "ListYardManagementRoles")
      /\ OnlyReads("set_yard_management_role", "SetYardManagementRole")
      /\ OnlyReads("revoke_yard_management_role", "RevokeYardManagementRole")
      /\ OnlyReads("get_yard_application_policy", "GetYardApplicationPolicy")
      /\ OnlyReads("set_yard_application_policy", "SetYardApplicationPolicy")
  BY DEF OnlyReads, ReadOnly, ReadOnlyRegular, ReadOnlyAdmin, ReadOnlyGroups,
         ReadOnlyDashboard, SafeEndpoints
<1>3. RoutesTo(IdentityFields)
  BY RoutesAre
<1>4. /\ Routed("ListYardManagementRoles", {"yardId"} \cup {}, {"cursor"})
      /\ Routed("SetYardManagementRole", {"yardId"} \cup {"userId", "role"}, {})
      /\ Routed("RevokeYardManagementRole", {"yardId"} \cup {"userId"}, {})
      /\ Routed("GetYardApplicationPolicy", {"yardId"} \cup {}, {})
      /\ Routed("SetYardApplicationPolicy",
                {"yardId"} \cup {"defaultRole", "roles", "sourceManifestDigest"}, {})
  BY <1>3 DEF Routed, RoutesTo, IdentityFields, Fields, Scoped, Available
<1> QED BY <1>1, <1>2, <1>4, PairCarried, NothingAdds DEF TableCarried, IdentityRequests

LEMMA YardSessionRequestsCarried == TableCarried(YardSessionRequests)
<1>1. DOMAIN YardSessionRequests =
        {"list_yard_sessions", "revoke_yard_session"}
  BY DEF YardSessionRequests
<1>2. /\ OnlyReads("list_yard_sessions", "ListYardSessions")
      /\ OnlyReads("revoke_yard_session", "RevokeYardSession")
  BY DEF OnlyReads, ReadOnly, ReadOnlyRegular, ReadOnlyAdmin, ReadOnlyGroups,
         ReadOnlyDashboard, SafeEndpoints
<1>3. RoutesTo(SessionFields)
  BY RoutesAre
<1>4. /\ Routed("ListYardSessions", {"yardId"} \cup {}, {})
      /\ Routed("RevokeYardSession", {"yardId"} \cup {"sessionId"}, {})
  BY <1>3 DEF Routed, RoutesTo, SessionFields, Fields, Scoped, Available
<1> QED BY <1>1, <1>2, <1>4, PairCarried, NothingAdds DEF TableCarried, YardSessionRequests

LEMMA AdminRequestsCarried == TableCarried(AdminRequests)
<1>1. DOMAIN AdminRequests =
        {"list_audit", "list_members", "list_invites", "create_invite", "revoke_invite",
         "update_member_role", "remove_member", "list_local_users",
         "deactivate_local_user", "list_api_tokens", "revoke_api_token", "list_ci_trusts",
         "create_ci_trust", "revoke_ci_trust", "list_cli_sessions", "revoke_cli_session"}
  BY DEF AdminRequests
<1>2. /\ OnlyReads("list_audit", "ListAudit") /\ OnlyReads("list_members", "ListMembers")
      /\ OnlyReads("list_invites", "ListInvites") /\ OnlyReads("create_invite", "CreateInvite")
      /\ OnlyReads("revoke_invite", "RevokeInvite")
      /\ OnlyReads("update_member_role", "UpdateMemberRole")
      /\ OnlyReads("remove_member", "RemoveMember")
      /\ OnlyReads("list_local_users", "ListLocalUsers")
      /\ OnlyReads("deactivate_local_user", "DeactivateLocalUser")
      /\ OnlyReads("list_api_tokens", "ListApiTokens")
      /\ OnlyReads("revoke_api_token", "RevokeApiToken")
      /\ OnlyReads("list_ci_trusts", "ListCiTrusts")
      /\ OnlyReads("create_ci_trust", "CreateCiTrust")
      /\ OnlyReads("revoke_ci_trust", "RevokeCiTrust")
      /\ OnlyReads("list_cli_sessions", "ListCliSessions")
      /\ OnlyReads("revoke_cli_session", "RevokeCliSession")
  BY DEF OnlyReads, ReadOnly, ReadOnlyRegular, ReadOnlyAdmin, ReadOnlyGroups,
         ReadOnlyDashboard, SafeEndpoints
<1>3. RoutesTo(AuditFields) /\ RoutesTo(CliSessionFields) /\
      RoutesTo(LocalUserFields) /\ RoutesTo(TokenFields) /\ RoutesTo(TrustFields)
  BY RoutesAre
<1>4. /\ Routed("ListAudit", {"workspace"}, {"cursor"})
      /\ Routed("ListMembers", {"workspace"}, {})
      /\ Routed("ListInvites", {"workspace"}, {})
      /\ Routed("CreateInvite", {"workspace", "email", "role"}, {})
      /\ Routed("RevokeInvite", {"workspace", "inviteId"}, {})
      /\ Routed("UpdateMemberRole", {"workspace", "targetUserId", "role"}, {})
      /\ Routed("RemoveMember", {"workspace", "targetUserId"}, {})
      /\ Routed("ListLocalUsers", {"workspace"}, {})
      /\ Routed("DeactivateLocalUser", {"userId"}, {})
      /\ Routed("ListApiTokens", {}, {})
      /\ Routed("RevokeApiToken", {"tokenId"}, {})
      /\ Routed("ListCiTrusts", {"workspace"}, {})
      /\ Routed("CreateCiTrust",
                {"workspace", "allowedActions", "allowedRefGlob", "repository",
                "workflowPath", "workflowRef"}, {"environment", "project"})
      /\ Routed("RevokeCiTrust", {"trustId"}, {})
      /\ Routed("ListCliSessions", {}, {})
      /\ Routed("RevokeCliSession", {"sessionId"}, {})
  BY <1>3 DEF Routed, RoutesTo, AuditFields, CliSessionFields, LocalUserFields,
      TokenFields, TrustFields, Fields, Scoped, Available, HostedExtension
<1> QED BY <1>1, <1>2, <1>4, OneCarried, NothingAdds DEF TableCarried, AdminRequests

LEMMA GroupRequestsCarried == TableCarried(GroupRequests)
<1>1. DOMAIN GroupRequests =
        {"list_groups", "create_group", "rename_group", "list_group_members",
         "add_group_member", "remove_group_member", "deactivate_group"}
  BY DEF GroupRequests
<1>2. /\ OnlyReads("list_groups", "ListGroups") /\ OnlyReads("create_group", "CreateGroup")
      /\ OnlyReads("rename_group", "RenameGroup")
      /\ OnlyReads("list_group_members", "ListGroupMembers")
      /\ OnlyReads("add_group_member", "AddGroupMember")
      /\ OnlyReads("remove_group_member", "RemoveGroupMember")
      /\ OnlyReads("deactivate_group", "DeactivateGroup")
  BY DEF OnlyReads, ReadOnly, ReadOnlyRegular, ReadOnlyAdmin, ReadOnlyGroups,
         ReadOnlyDashboard, SafeEndpoints
<1>3. RoutesTo(GroupFields)
  BY RoutesAre
<1>4. /\ Routed("ListGroups", {"workspace"}, {"cursor"})
      /\ Routed("CreateGroup", {"workspace", "name"}, {})
      /\ Routed("RenameGroup", {"groupId", "name"}, {})
      /\ Routed("ListGroupMembers", {"groupId"}, {"cursor"})
      /\ Routed("AddGroupMember", {"groupId", "userId"}, {})
      /\ Routed("RemoveGroupMember", {"groupId", "userId"}, {})
      /\ Routed("DeactivateGroup", {"groupId"}, {})
  BY <1>3 DEF Routed, RoutesTo, GroupFields, Fields, Scoped, Available
<1> QED BY <1>1, <1>2, <1>4, OneCarried, NothingAdds DEF TableCarried, GroupRequests

LEMMA TokenRequestsCarried == TableCarried(TokenRequests)
<1>1. DOMAIN TokenRequests =
        {"create_api_token", "create_write_token"}
  BY DEF TokenRequests
<1>2. /\ OnlyReads("create_api_token", "CreateApiToken")
      /\ OnlyReads("create_write_token", "CreateApiToken")
  BY DEF OnlyReads, ReadOnly, ReadOnlyRegular, ReadOnlyAdmin, ReadOnlyGroups,
         ReadOnlyDashboard, SafeEndpoints
<1>3. RoutesTo(TokenFields)
  BY RoutesAre
<1>4. /\ Routed("CreateApiToken", {"name", "expiresInDays", "scopes"}, {})
      /\ Routed("CreateApiToken", {"name", "expiresInDays", "scopes"} \cup Scoped, {})
  BY <1>3 DEF Routed, RoutesTo, TokenFields, Fields, Scoped, Available
<1> QED BY <1>1, <1>2, <1>4, OneCarried, NothingAdds DEF TableCarried, TokenRequests

LEMMA UserRequestsCarried == TableCarried(UserRequests)
<1>1. DOMAIN UserRequests =
        {"create_local_user", "reset_local_user_login_key"}
  BY DEF UserRequests
<1>2. /\ OnlyReads("create_local_user", "CreateLocalUser")
      /\ OnlyReads("reset_local_user_login_key", "ResetLocalUserLoginKey")
  BY DEF OnlyReads, ReadOnly, ReadOnlyRegular, ReadOnlyAdmin, ReadOnlyGroups,
         ReadOnlyDashboard, SafeEndpoints
<1>3. RoutesTo(LocalUserFields)
  BY RoutesAre
<1>4. /\ Routed("CreateLocalUser", {"displayName", "workspace"}, {"email"})
      /\ Routed("ResetLocalUserLoginKey", {"userId"}, {})
  BY <1>3 DEF Routed, RoutesTo, LocalUserFields, Fields, Scoped, Available
<1> QED BY <1>1, <1>2, <1>4, OneCarried, NothingAdds DEF TableCarried, UserRequests

LEMMA BillingRequestsCarried == TableCarried(BillingRequests)
<1>1. DOMAIN BillingRequests =
        {"get_billing", "billing_checkout", "billing_portal", "billing_update",
         "storage_checkout", "storage_update"}
  BY DEF BillingRequests
<1>2. /\ OnlyReads("get_billing", "GetBilling")
      /\ OnlyReads("billing_checkout", "CreateBillingCheckout")
      /\ OnlyReads("billing_portal", "CreateBillingPortal")
      /\ OnlyReads("billing_update", "CreateBillingSubscriptionUpdate")
      /\ OnlyReads("storage_checkout", "CreateStorageCheckout")
      /\ OnlyReads("storage_update", "CreateStorageUpdate")
  BY DEF OnlyReads, ReadOnly, ReadOnlyRegular, ReadOnlyAdmin, ReadOnlyGroups,
         ReadOnlyDashboard, SafeEndpoints
<1>4. /\ Routed("GetBilling", {}, {})
      /\ Routed("CreateBillingCheckout", {"plan"}, {"seats"})
      /\ Routed("CreateBillingPortal", {}, {})
      /\ Routed("CreateBillingSubscriptionUpdate", {"plan"}, {"seats"})
      /\ Routed("CreateStorageCheckout", {"storageBlockCount"}, {})
      /\ Routed("CreateStorageUpdate", {"storageBlockCount"}, {})
  BY DEF Routed, Fields, Scoped, Available, HostedExtension
<1> QED BY <1>1, <1>2, <1>4, OneCarried, NothingAdds DEF TableCarried, BillingRequests

LEMMA AccountRequestsCarried == TableCarried(AccountRequests)
<1>1. DOMAIN AccountRequests =
        {"request_account_export", "get_account_export", "download_account_export",
         "get_account_deletion", "prepare_account_deletion", "complete_account_deletion",
         "retry_account_deletion"}
  BY DEF AccountRequests
<1>2. /\ OnlyReads("request_account_export", "RequestAccountExport")
      /\ OnlyReads("get_account_export", "GetAccountExport")
      /\ OnlyReads("download_account_export", "DownloadAccountExport")
      /\ OnlyReads("get_account_deletion", "GetAccountDeletion")
      /\ OnlyReads("prepare_account_deletion", "PrepareAccountDeletion")
      /\ OnlyReads("complete_account_deletion", "CompleteAccountDeletion")
      /\ OnlyReads("retry_account_deletion", "RetryAccountDeletion")
  BY DEF OnlyReads, ReadOnly, ReadOnlyRegular, ReadOnlyAdmin, ReadOnlyGroups,
         ReadOnlyDashboard, SafeEndpoints
<1>4. /\ Routed("RequestAccountExport", {}, {})
      /\ Routed("GetAccountExport", {}, {})
      /\ Routed("DownloadAccountExport", {"exportId", "partNumber"}, {})
      /\ Routed("GetAccountDeletion", {}, {})
      /\ Routed("PrepareAccountDeletion", {}, {})
      /\ Routed("CompleteAccountDeletion", {"confirmationToken"}, {})
      /\ Routed("RetryAccountDeletion", {"confirmation"}, {})
  BY DEF Routed, Fields, Scoped, Available, HostedExtension
<1> QED BY <1>1, <1>2, <1>4, OneCarried, NothingAdds DEF TableCarried, AccountRequests

LEMMA SessionRequestsCarried == TableCarried(SessionRequests)
<1>1. DOMAIN SessionRequests =
        {"logout", "login"}
  BY DEF SessionRequests
<1>2. /\ OnlyReads("logout", "Logout") /\ OnlyReads("login", "DeviceStart")
      /\ OnlyReads("login", "DevicePoll")
  BY DEF OnlyReads, ReadOnly, ReadOnlyRegular, ReadOnlyAdmin, ReadOnlyGroups,
         ReadOnlyDashboard, SafeEndpoints
<1>4. /\ Routed("Logout", {}, {})
      /\ Routed("DeviceStart", {"name", "platform", "version"}, {})
      /\ Routed("DevicePoll", {"deviceCode"}, {})
  BY DEF Routed, Fields, Scoped, Available, HostedExtension
<1>5. AllCarried("login", SessionRequests["login"])
  <2> DEFINE first == One("DeviceStart", {"name", "platform", "version"}, Nothing)
             last == One("DevicePoll", {"deviceCode"}, Nothing)
  <2>1. /\ AllCarried("login", first)
        /\ AllCarried("login", last)
    BY <1>2, <1>4, OneCarried, UploadsCarried, NothingAdds DEF ReadOnly,
       ReadOnlyRegular, ReadOnlyAdmin, ReadOnlyGroups, ReadOnlyDashboard
  <2>2. InRow(first) /\ InRow(last)
    BY RowsStart
  <2>3. SessionRequests["login"] = first \o last
    BY DEF SessionRequests
  <2> HIDE DEF first, last
  <2> QED BY <2>1, <2>2, <2>3, JoinCarried
<1>6. \A op \in DOMAIN SessionRequests \ {"login"} : AllCarried(op, SessionRequests[op])
  BY <1>1, <1>2, <1>4, OneCarried, NothingAdds DEF SessionRequests
<1> QED BY <1>5, <1>6 DEF TableCarried

(* The parser of each table of tools.                                      *)
LEMMA ToolDomains ==
  /\ DOMAIN RegularTools = {"whoami", "list_workspaces", "list_projects", "get_retention",
       "list_inboxes", "list_shares", "list_previews", "clear_retention",
       "create_workspace", "create_project", "list_objects", "upload_file",
       "download_file", "delete_object", "create_share", "revoke_share", "create_preview",
       "revoke_preview", "create_inbox", "revoke_inbox", "set_retention"}
  /\ DOMAIN AdminTools = {"list_audit", "list_members", "list_invites", "list_local_users",
       "list_api_tokens", "list_ci_trusts", "list_cli_sessions", "create_invite",
       "create_ci_trust", "revoke_invite", "update_member_role", "remove_member",
       "deactivate_local_user", "revoke_api_token", "revoke_ci_trust", "revoke_cli_session"}
  /\ DOMAIN GroupTools = {"list_groups", "create_group", "rename_group",
       "list_group_members", "add_group_member", "remove_group_member", "deactivate_group"}
  /\ DOMAIN DashboardTools = {"get_billing", "get_account_export",
       "request_account_export", "get_account_deletion", "get_retention_overview",
       "rename_workspace"}
  /\ DOMAIN YardTools = {"deploy_web_yard", "list_web_yards", "list_yard_deploys",
       "list_yard_environments", "get_yard_access", "get_yard_application_policy",
       "list_yard_sessions", "set_yard_visibility", "grant_yard_access",
       "revoke_yard_access", "revoke_yard_session", "rollback_web_yard", "delete_web_yard"}
  /\ DOMAIN IdentityTools = {"list_yard_management_roles", "set_yard_management_role",
       "revoke_yard_management_role", "set_yard_application_policy",
       "set_yard_access_roles"}
  /\ DOMAIN GuestInviteTools = {"list_yard_guest_invites", "create_yard_guest_invite",
       "revoke_yard_guest_invite"}
  BY DEF RegularTools, AdminTools, GroupTools, DashboardTools, YardTools, IdentityTools,
         GuestInviteTools

LEMMA ToolPicks ==
  ASSUME NEW op \in DOMAIN Tools
  PROVE  \/ op \in DOMAIN RegularTools /\ Tools[op] = RegularTools[op]
         \/ op \in DOMAIN AdminTools /\ Tools[op] = AdminTools[op]
         \/ op \in DOMAIN GroupTools /\ Tools[op] = GroupTools[op]
         \/ op \in DOMAIN DashboardTools /\ Tools[op] = DashboardTools[op]
         \/ op \in DOMAIN YardTools /\ Tools[op] = YardTools[op]
         \/ op \in DOMAIN IdentityTools /\ Tools[op] = IdentityTools[op]
         \/ op \in DOMAIN GuestInviteTools /\ Tools[op] = GuestInviteTools[op]
  BY MergePicks DEF Tools

LEMMA ToolsCover ==
  /\ DOMAIN RegularTools \subseteq DOMAIN Tools
  /\ DOMAIN AdminTools \subseteq DOMAIN Tools
  /\ DOMAIN GroupTools \subseteq DOMAIN Tools
  /\ DOMAIN DashboardTools \subseteq DOMAIN Tools
  /\ DOMAIN YardTools \subseteq DOMAIN Tools
  /\ DOMAIN IdentityTools \subseteq DOMAIN Tools
  /\ DOMAIN GuestInviteTools \subseteq DOMAIN Tools
  BY DEF Tools, Merge

ToolsTo(t) == \A op \in DOMAIN t : op \in DOMAIN Tools /\ Tools[op] = t[op]

LEMMA ToolsAre ==
  /\ ToolsTo(RegularTools)
  /\ ToolsTo(AdminTools)
  /\ ToolsTo(GroupTools)
  /\ ToolsTo(DashboardTools)
  /\ ToolsTo(YardTools)
  /\ ToolsTo(IdentityTools)
  /\ ToolsTo(GuestInviteTools)
<1>1. ToolsTo(RegularTools)
  BY ToolsCover, ToolPicks, ToolDomains DEF ToolsTo
<1>2. ToolsTo(AdminTools)
  BY ToolsCover, ToolPicks, ToolDomains DEF ToolsTo
<1>3. ToolsTo(GroupTools)
  BY ToolsCover, ToolPicks, ToolDomains DEF ToolsTo
<1>4. ToolsTo(DashboardTools)
  BY ToolsCover, ToolPicks, ToolDomains DEF ToolsTo
<1>5. ToolsTo(YardTools)
  BY ToolsCover, ToolPicks, ToolDomains DEF ToolsTo
<1>6. ToolsTo(IdentityTools)
  BY ToolsCover, ToolPicks, ToolDomains DEF ToolsTo
<1>7. ToolsTo(GuestInviteTools)
  BY ToolsCover, ToolPicks, ToolDomains DEF ToolsTo
<1> QED BY <1>1, <1>2, <1>3, <1>4, <1>5, <1>6, <1>7

(* The parser of operation op accepts what schema s admits.                *)
Accepted(op, s) ==
  /\ op \in DOMAIN Tools
  /\ Tools[op].requires \subseteq s.requires
  /\ s.accepts \subseteq Tools[op].accepts

LEMMA CatalogRegularAccepted == \A op \in DOMAIN CatalogRegular : Accepted(op, CatalogRegular[op])
<1>1. DOMAIN CatalogRegular =
        {"whoami", "list_workspaces", "list_projects", "get_retention", "list_inboxes",
         "list_shares", "list_previews", "clear_retention", "create_workspace",
         "create_project", "list_objects", "upload_file", "download_file", "delete_object",
         "create_share", "revoke_share", "create_preview", "revoke_preview",
         "create_inbox", "revoke_inbox", "set_retention", "deploy_web_yard",
         "list_web_yards", "list_yard_deploys", "list_yard_environments",
         "rollback_web_yard", "delete_web_yard"}
  BY DEF CatalogRegular
<1>2. /\ Accepted("whoami", CatalogRegular["whoami"])
      /\ Accepted("list_workspaces", CatalogRegular["list_workspaces"])
      /\ Accepted("list_projects", CatalogRegular["list_projects"])
      /\ Accepted("get_retention", CatalogRegular["get_retention"])
      /\ Accepted("list_inboxes", CatalogRegular["list_inboxes"])
      /\ Accepted("list_shares", CatalogRegular["list_shares"])
      /\ Accepted("list_previews", CatalogRegular["list_previews"])
      /\ Accepted("clear_retention", CatalogRegular["clear_retention"])
  BY ToolsAre DEF ToolsTo, Accepted, RegularTools, CatalogRegular, Args, Confirmed, Scoped
<1>3. /\ Accepted("create_workspace", CatalogRegular["create_workspace"])
      /\ Accepted("create_project", CatalogRegular["create_project"])
      /\ Accepted("list_objects", CatalogRegular["list_objects"])
      /\ Accepted("upload_file", CatalogRegular["upload_file"])
      /\ Accepted("download_file", CatalogRegular["download_file"])
      /\ Accepted("delete_object", CatalogRegular["delete_object"])
      /\ Accepted("create_share", CatalogRegular["create_share"])
      /\ Accepted("revoke_share", CatalogRegular["revoke_share"])
  BY ToolsAre DEF ToolsTo, Accepted, RegularTools, CatalogRegular, Args, Confirmed, Scoped
<1>4. /\ Accepted("create_preview", CatalogRegular["create_preview"])
      /\ Accepted("revoke_preview", CatalogRegular["revoke_preview"])
      /\ Accepted("create_inbox", CatalogRegular["create_inbox"])
      /\ Accepted("revoke_inbox", CatalogRegular["revoke_inbox"])
      /\ Accepted("set_retention", CatalogRegular["set_retention"])
  BY ToolsAre DEF ToolsTo, Accepted, RegularTools, CatalogRegular, Args, Confirmed, Scoped
<1>5. /\ Accepted("deploy_web_yard", CatalogRegular["deploy_web_yard"])
      /\ Accepted("list_web_yards", CatalogRegular["list_web_yards"])
      /\ Accepted("list_yard_deploys", CatalogRegular["list_yard_deploys"])
      /\ Accepted("list_yard_environments", CatalogRegular["list_yard_environments"])
      /\ Accepted("rollback_web_yard", CatalogRegular["rollback_web_yard"])
      /\ Accepted("delete_web_yard", CatalogRegular["delete_web_yard"])
  BY ToolsAre DEF ToolsTo, Accepted, YardTools, CatalogRegular, Args, Confirmed, Scoped
<1> QED BY <1>1, <1>2, <1>3, <1>4, <1>5

LEMMA CatalogAccessAccepted == \A op \in DOMAIN CatalogAccess : Accepted(op, CatalogAccess[op])
<1>1. DOMAIN CatalogAccess =
        {"get_yard_access", "set_yard_visibility", "grant_yard_access",
         "revoke_yard_access", "list_yard_guest_invites", "create_yard_guest_invite",
         "revoke_yard_guest_invite"}
  BY DEF CatalogAccess
<1>2. /\ Accepted("get_yard_access", CatalogAccess["get_yard_access"])
      /\ Accepted("set_yard_visibility", CatalogAccess["set_yard_visibility"])
      /\ Accepted("grant_yard_access", CatalogAccess["grant_yard_access"])
      /\ Accepted("revoke_yard_access", CatalogAccess["revoke_yard_access"])
  BY ToolsAre DEF ToolsTo, Accepted, YardTools, CatalogAccess, Args, Confirmed, Scoped
<1>3. /\ Accepted("list_yard_guest_invites", CatalogAccess["list_yard_guest_invites"])
      /\ Accepted("create_yard_guest_invite", CatalogAccess["create_yard_guest_invite"])
      /\ Accepted("revoke_yard_guest_invite", CatalogAccess["revoke_yard_guest_invite"])
  BY ToolsAre DEF ToolsTo, Accepted, GuestInviteTools, CatalogAccess, Args, Confirmed, Scoped
<1> QED BY <1>1, <1>2, <1>3

LEMMA CatalogIdentityAccepted == \A op \in DOMAIN CatalogIdentity : Accepted(op, CatalogIdentity[op])
<1>1. DOMAIN CatalogIdentity =
        {"list_yard_management_roles", "set_yard_management_role",
         "revoke_yard_management_role", "get_yard_application_policy",
         "set_yard_application_policy", "set_yard_access_roles", "list_yard_sessions",
         "revoke_yard_session"}
  BY DEF CatalogIdentity
<1>2. /\ Accepted("list_yard_management_roles", CatalogIdentity["list_yard_management_roles"])
      /\ Accepted("set_yard_management_role", CatalogIdentity["set_yard_management_role"])
      /\ Accepted("revoke_yard_management_role", CatalogIdentity["revoke_yard_management_role"])
      /\ Accepted("set_yard_application_policy", CatalogIdentity["set_yard_application_policy"])
      /\ Accepted("set_yard_access_roles", CatalogIdentity["set_yard_access_roles"])
  BY ToolsAre DEF ToolsTo, Accepted, IdentityTools, CatalogIdentity, Args, Confirmed, Scoped
<1>3. /\ Accepted("get_yard_application_policy", CatalogIdentity["get_yard_application_policy"])
      /\ Accepted("list_yard_sessions", CatalogIdentity["list_yard_sessions"])
      /\ Accepted("revoke_yard_session", CatalogIdentity["revoke_yard_session"])
  BY ToolsAre DEF ToolsTo, Accepted, YardTools, CatalogIdentity, Args, Confirmed, Scoped
<1> QED BY <1>1, <1>2, <1>3

LEMMA CatalogAdminAccepted == \A op \in DOMAIN CatalogAdmin : Accepted(op, CatalogAdmin[op])
<1>1. DOMAIN CatalogAdmin =
        {"list_audit", "list_members", "list_invites", "list_local_users",
         "list_ci_trusts", "list_api_tokens", "list_cli_sessions", "create_invite",
         "create_ci_trust", "revoke_invite", "update_member_role", "remove_member",
         "deactivate_local_user", "revoke_api_token", "revoke_ci_trust",
         "revoke_cli_session"}
  BY DEF CatalogAdmin
<1>2. /\ Accepted("list_audit", CatalogAdmin["list_audit"])
      /\ Accepted("list_members", CatalogAdmin["list_members"])
      /\ Accepted("list_invites", CatalogAdmin["list_invites"])
      /\ Accepted("list_local_users", CatalogAdmin["list_local_users"])
      /\ Accepted("list_ci_trusts", CatalogAdmin["list_ci_trusts"])
      /\ Accepted("list_api_tokens", CatalogAdmin["list_api_tokens"])
      /\ Accepted("list_cli_sessions", CatalogAdmin["list_cli_sessions"])
      /\ Accepted("create_invite", CatalogAdmin["create_invite"])
  BY ToolsAre DEF ToolsTo, Accepted, AdminTools, CatalogAdmin, Args, Confirmed, Scoped
<1>3. /\ Accepted("create_ci_trust", CatalogAdmin["create_ci_trust"])
      /\ Accepted("revoke_invite", CatalogAdmin["revoke_invite"])
      /\ Accepted("update_member_role", CatalogAdmin["update_member_role"])
      /\ Accepted("remove_member", CatalogAdmin["remove_member"])
      /\ Accepted("deactivate_local_user", CatalogAdmin["deactivate_local_user"])
      /\ Accepted("revoke_api_token", CatalogAdmin["revoke_api_token"])
      /\ Accepted("revoke_ci_trust", CatalogAdmin["revoke_ci_trust"])
      /\ Accepted("revoke_cli_session", CatalogAdmin["revoke_cli_session"])
  BY ToolsAre DEF ToolsTo, Accepted, AdminTools, CatalogAdmin, Args, Confirmed, Scoped
<1> QED BY <1>1, <1>2, <1>3

LEMMA CatalogGroupsAccepted == \A op \in DOMAIN CatalogGroups : Accepted(op, CatalogGroups[op])
<1>1. DOMAIN CatalogGroups =
        {"list_groups", "create_group", "rename_group", "list_group_members",
         "add_group_member", "remove_group_member", "deactivate_group"}
  BY DEF CatalogGroups
<1>2. /\ Accepted("list_groups", CatalogGroups["list_groups"])
      /\ Accepted("create_group", CatalogGroups["create_group"])
      /\ Accepted("rename_group", CatalogGroups["rename_group"])
      /\ Accepted("list_group_members", CatalogGroups["list_group_members"])
      /\ Accepted("add_group_member", CatalogGroups["add_group_member"])
      /\ Accepted("remove_group_member", CatalogGroups["remove_group_member"])
      /\ Accepted("deactivate_group", CatalogGroups["deactivate_group"])
  BY ToolsAre DEF ToolsTo, Accepted, GroupTools, CatalogGroups, Args, Confirmed, Scoped
<1> QED BY <1>1, <1>2

LEMMA CatalogDashboardAccepted == \A op \in DOMAIN CatalogDashboard : Accepted(op, CatalogDashboard[op])
<1>1. DOMAIN CatalogDashboard =
        {"get_billing", "get_account_export", "request_account_export",
         "get_account_deletion", "get_retention_overview", "rename_workspace"}
  BY DEF CatalogDashboard
<1>2. /\ Accepted("get_billing", CatalogDashboard["get_billing"])
      /\ Accepted("get_account_export", CatalogDashboard["get_account_export"])
      /\ Accepted("request_account_export", CatalogDashboard["request_account_export"])
      /\ Accepted("get_account_deletion", CatalogDashboard["get_account_deletion"])
      /\ Accepted("get_retention_overview", CatalogDashboard["get_retention_overview"])
      /\ Accepted("rename_workspace", CatalogDashboard["rename_workspace"])
  BY ToolsAre DEF ToolsTo, Accepted, DashboardTools, CatalogDashboard, Args, Confirmed, Scoped
<1> QED BY <1>1, <1>2

LEMMA ToolsAccept == \A op \in DOMAIN Catalog : Accepted(op, Catalog[op])
<1> SUFFICES ASSUME NEW op \in DOMAIN Catalog PROVE Accepted(op, Catalog[op])
  OBVIOUS
<1>1. \/ op \in DOMAIN CatalogRegular /\ Catalog[op] = CatalogRegular[op]
      \/ op \in DOMAIN CatalogAccess /\ Catalog[op] = CatalogAccess[op]
      \/ op \in DOMAIN CatalogIdentity /\ Catalog[op] = CatalogIdentity[op]
      \/ op \in DOMAIN CatalogAdmin /\ Catalog[op] = CatalogAdmin[op]
      \/ op \in DOMAIN CatalogGroups /\ Catalog[op] = CatalogGroups[op]
      \/ op \in DOMAIN CatalogDashboard /\ Catalog[op] = CatalogDashboard[op]
  BY MergePicks DEF Catalog
<1> QED BY <1>1, CatalogRegularAccepted, CatalogAccessAccepted, CatalogIdentityAccepted,
           CatalogAdminAccepted, CatalogGroupsAccepted, CatalogDashboardAccepted

LEMMA RequestsCarried == \A op \in Operations : AllCarried(op, Requests[op])
<1> SUFFICES ASSUME NEW op \in Operations PROVE AllCarried(op, Requests[op])
  OBVIOUS
<1>1. \/ op \in DOMAIN ResourceRequests /\ Requests[op] = ResourceRequests[op]
      \/ op \in DOMAIN SharingRequests /\ Requests[op] = SharingRequests[op]
      \/ op \in DOMAIN RetentionRequests /\ Requests[op] = RetentionRequests[op]
      \/ op \in DOMAIN PreviewRequests /\ Requests[op] = PreviewRequests[op]
      \/ op \in DOMAIN YardRequests /\ Requests[op] = YardRequests[op]
      \/ op \in DOMAIN AccessRequests /\ Requests[op] = AccessRequests[op]
      \/ op \in DOMAIN GuestInviteRequests /\ Requests[op] = GuestInviteRequests[op]
      \/ op \in DOMAIN IdentityRequests /\ Requests[op] = IdentityRequests[op]
      \/ op \in DOMAIN YardSessionRequests /\ Requests[op] = YardSessionRequests[op]
      \/ op \in DOMAIN AdminRequests /\ Requests[op] = AdminRequests[op]
      \/ op \in DOMAIN GroupRequests /\ Requests[op] = GroupRequests[op]
      \/ op \in DOMAIN TokenRequests /\ Requests[op] = TokenRequests[op]
      \/ op \in DOMAIN UserRequests /\ Requests[op] = UserRequests[op]
      \/ op \in DOMAIN BillingRequests /\ Requests[op] = BillingRequests[op]
      \/ op \in DOMAIN AccountRequests /\ Requests[op] = AccountRequests[op]
      \/ op \in DOMAIN SessionRequests /\ Requests[op] = SessionRequests[op]
  BY MergePicks DEF Operations, Requests
<1> QED BY <1>1, ResourceRequestsCarried, SharingRequestsCarried, RetentionRequestsCarried,
           PreviewRequestsCarried, YardRequestsCarried, AccessRequestsCarried,
           GuestInviteRequestsCarried, IdentityRequestsCarried, YardSessionRequestsCarried,
           AdminRequestsCarried, GroupRequestsCarried, TokenRequestsCarried,
           UserRequestsCarried, BillingRequestsCarried, AccountRequestsCarried,
           SessionRequestsCarried DEF TableCarried

-----------------------------------------------------------------------------
(* What a terminal still has to send is fit to be sent, and a call is      *)
(* refused for its arguments only when they break the catalogue's schema.  *)

Faithful(c) ==
  /\ c.op \in Operations \cup {Absent, "profile_add"}
  /\ c.outcome = "invalid_params" => ~c.obeys
  /\ AllCarried(c.op, c.left)

CallsFaithful == \A p \in Procs : Faithful(proc[p])

(* Changes that keep a call of operation op faithful.                      *)
Modest(delta, op) ==
  /\ DOMAIN delta \subseteq CallFields \ {"op", "obeys"}
  /\ "outcome" \in DOMAIN delta => delta.outcome # "invalid_params"
  /\ "left" \in DOMAIN delta => AllCarried(op, delta.left)

LEMMA ModestFaithful ==
  ASSUME NEW c, DOMAIN c = CallFields, Faithful(c), NEW delta, Modest(delta, c.op),
         NEW n, n = With(delta, c)
  PROVE  Faithful(n)
<1>1. \A f \in CallFields : n[f] = IF f \in DOMAIN delta THEN delta[f] ELSE c[f]
  BY WithFields DEF Modest
<1>2. n.op = c.op /\ n.obeys = c.obeys
  BY <1>1 DEF Modest, CallFields
<1>3. n.outcome = c.outcome \/ n.outcome # "invalid_params"
  BY <1>1 DEF Modest, CallFields
<1>4. AllCarried(c.op, n.left)
  BY <1>1 DEF Modest, CallFields, Faithful
<1> QED BY <1>2, <1>3, <1>4 DEF Faithful

LEMMA WithModest ==
  ASSUME NEW op, NEW d, NEW e, Modest(d, op), Modest(e, op)
  PROVE  Modest(With(d, e), op)
  BY DEF Modest, With

LEMMA NothingCarried == \A op : AllCarried(op, Nothing)
  BY DEF AllCarried, Nothing

LEMMA EndModest ==
  ASSUME NEW op, NEW outcome, outcome # "invalid_params", NEW shown
  PROVE  Modest(End(outcome, shown), op)
<1> DEFINE e == End(outcome, shown)
<1>1. e.outcome = outcome /\ e.left = Nothing
  BY DEF End
<1>2. DOMAIN e \subseteq CallFields \ {"op", "obeys"}
  BY EndDomain DEF CallFields
<1> HIDE DEF e
<1>3. Modest(e, op)
  BY <1>1, <1>2, NothingCarried DEF Modest
<1> QED BY <1>3 DEF e

(* Deploying on, also to report a deploy that failed.                      *)
LEMMA DeployCarried ==
  /\ \A args : AllCarried("deploy_web_yard", DeployRequests(args))
  /\ AllCarried("deploy_web_yard",
                One("FailYardDeploy", {"deployId", "failureCode", "failureMessage"}, Nothing))
<1>1. OnlyReads("deploy_web_yard", "FailYardDeploy")
  BY DEF OnlyReads, ReadOnly, ReadOnlyRegular, ReadOnlyAdmin, ReadOnlyGroups, ReadOnlyDashboard
<1>2. RoutesTo(YardFields)
  BY RoutesAre
<1>3. Routed("FailYardDeploy", {"deployId", "failureCode", "failureMessage"}, {})
  BY <1>2 DEF Routed, RoutesTo, YardFields, Fields, Available
<1>4. AllCarried("deploy_web_yard",
                One("FailYardDeploy", {"deployId", "failureCode", "failureMessage"}, Nothing))
  BY <1>1, <1>3, OneCarried, NothingAdds
<1>5. ASSUME NEW args PROVE AllCarried("deploy_web_yard", DeployRequests(args))
  <2> DEFINE d == Requests["deploy_web_yard"]
             list == One("ListWebYards", Scoped, Nothing)
  <2>1. "deploy_web_yard" \in Operations
    BY DeployLeads
  <2>2. AllCarried("deploy_web_yard", d) /\ AllCarried("deploy_web_yard", list)
    BY <2>1, RequestsCarried, ListingCarried
  <2>3. InRow(d) /\ InRow(list)
    <3>1. Suits("deploy_web_yard", d)
      BY <2>1, RequestsSuit
    <3>2. InRow(list)
      BY RowsStart
    <3> HIDE DEF d, list
    <3> QED BY <3>1, <3>2 DEF InRow, Suits
  <2>4. DeployRequests(args) = IF "public" \in args THEN << >> \o d ELSE list \o d
    BY DEF DeployRequests, Nothing
  <2> HIDE DEF d, list
  <2>5. << >> \o d = d
    BY <2>3, ConcatEmptySeq DEF InRow
  <2> QED BY <2>2, <2>3, <2>4, <2>5, JoinCarried
<1> QED BY <1>4, <1>5

LEMMA NextYardModest ==
  ASSUME NEW p, NEW good, proc[p].op = "deploy_web_yard"
  PROVE  Modest(NextYard(p, good), "deploy_web_yard")
<1>1. CASE proc[p].todo = Nothing
  <2> DEFINE o == IF good /\ ~proc[p].bad THEN "ok" ELSE "failed"
             a == [args |-> proc[p].args \cap {"all"}]
  <2>1. o # "invalid_params"
    OBVIOUS
  <2>2. Modest(a, "deploy_web_yard")
    BY DEF Modest, CallFields
  <2>3. NextYard(p, good) = With(a, End(o, {}))
    BY <1>1 DEF NextYard
  <2> HIDE DEF o, a
  <2> QED BY <2>1, <2>2, <2>3, EndModest, WithModest
<1>2. CASE proc[p].todo # Nothing
  <2> DEFINE r == DeployRequests(proc[p].args)
             e == [at |-> "load", yard |-> Head(proc[p].todo), todo |-> Tail(proc[p].todo),
                   left |-> r, id |-> Absent, failing |-> FALSE, bad |-> proc[p].bad \/ ~good]
  <2>1. NextYard(p, good) = e
    BY <1>2 DEF NextYard
  <2>2. DOMAIN e = {"at", "yard", "todo", "left", "id", "failing", "bad"} /\ e.left = r
    OBVIOUS
  <2>3. AllCarried("deploy_web_yard", r)
    BY DeployCarried
  <2> HIDE DEF e, r
  <2> QED BY <2>1, <2>2, <2>3 DEF Modest, CallFields
<1> QED BY <1>1, <1>2

LEMMA FailureModest ==
  ASSUME NEW p
  PROVE  Modest(Failure(p), proc[p].op)
<1>1. CASE proc[p].op # "deploy_web_yard"
  BY <1>1, EndModest DEF Failure
<1>2. CASE proc[p].op = "deploy_web_yard" /\ proc[p].id # Absent /\ ~proc[p].failing
  <2> DEFINE r == One("FailYardDeploy", {"deployId", "failureCode", "failureMessage"}, Nothing)
             e == [at |-> "load", failing |-> TRUE, token |-> Absent, left |-> r]
  <2>1. Failure(p) = e
    BY <1>2 DEF Failure
  <2>2. DOMAIN e = {"at", "failing", "token", "left"} /\ e.left = r
    OBVIOUS
  <2>3. AllCarried("deploy_web_yard", r)
    BY DeployCarried
  <2> HIDE DEF e, r
  <2> QED BY <1>2, <2>1, <2>2, <2>3 DEF Modest, CallFields
<1>3. CASE proc[p].op = "deploy_web_yard" /\ ~(proc[p].id # Absent /\ ~proc[p].failing)
  <2>1. PICK good : good = FALSE
    OBVIOUS
  <2>2. Failure(p) = NextYard(p, good)
    BY <1>3, <2>1 DEF Failure
  <2> QED BY <1>3, <2>2, NextYardModest
<1> QED BY <1>1, <1>2, <1>3

LEMMA TailCarried ==
  ASSUME NEW c, Leads(c), AllCarried(c.op, c.left)
  PROVE  /\ AllCarried(c.op, Tail(c.left))
         /\ Carried(c.op, Head(c.left))
<1> DEFINE l == c.left
           t == Tail(l)
           R == {l[i] : i \in DOMAIN l}
<1>1. l \in Seq(R) /\ l # << >> /\ \A i \in DOMAIN l : Carried(c.op, l[i])
  BY DEF Leads, AllCarried
<1> HIDE DEF R
<1>2. /\ Len(l) \in Nat \ {0} /\ DOMAIN l = 1 .. Len(l) /\ Head(l) = l[1]
      /\ DOMAIN t = 1 .. Len(l) - 1 /\ \A i \in 1 .. Len(l) - 1 : t[i] = l[i + 1]
  BY <1>1
<1> HIDE DEF l, t
<1>3. \A i \in DOMAIN t : Carried(c.op, t[i])
  BY <1>1, <1>2
<1>4. Carried(c.op, Head(l))
  BY <1>1, <1>2
<1> QED BY <1>3, <1>4 DEF l, t, AllCarried

LEMMA ProceedModest ==
  ASSUME NEW p, Leads(proc[p]), Faithful(proc[p])
  PROVE  Modest(Proceed(p), proc[p].op)
<1> DEFINE rest == Tail(proc[p].left)
<1>1. AllCarried(proc[p].op, rest)
  BY TailCarried DEF Faithful
<1>2. CASE rest # Nothing
  <2> DEFINE e == [at |-> "load", left |-> rest, token |-> Absent]
  <2>1. Proceed(p) = e
    BY <1>2 DEF Proceed
  <2>2. DOMAIN e = {"at", "left", "token"} /\ e.left = rest
    OBVIOUS
  <2> HIDE DEF e, rest
  <2> QED BY <1>1, <2>1, <2>2 DEF Modest, CallFields
<1>3. CASE rest = Nothing /\ proc[p].op = "deploy_web_yard"
  <2>1. PICK good : good = ~proc[p].failing
    OBVIOUS
  <2>2. Proceed(p) = NextYard(p, good)
    BY <1>3, <2>1 DEF Proceed
  <2> QED BY <1>3, <2>2, NextYardModest
<1>4. CASE rest = Nothing /\ proc[p].op # "deploy_web_yard"
  BY <1>4, EndModest DEF Proceed
<1> QED BY <1>2, <1>3, <1>4

LEMMA UpdateFaithful ==
  ASSUME ClientsInv, CallsFaithful, NEW p \in Procs, NEW delta, Modest(delta, proc[p].op),
         Update(p, delta)
  PROVE  CallsFaithful'
<1> DEFINE n == With(delta, proc[p])
<1>1. Replaced(p, n)
  BY UpdateReplaces DEF ClientsInv
<1>2. DOMAIN proc[p] = CallFields /\ Faithful(proc[p])
  BY DEF ClientsInv, CallsSound, Sound, CallsFaithful
<1>3. Faithful(n)
  BY <1>2, ModestFaithful
<1> HIDE DEF n
<1> QED BY <1>1, <1>3 DEF CallsFaithful, Replaced

(* A terminal's call is replaced by one that has just begun.               *)
LEMMA ReplacedFaithful ==
  ASSUME ClientsInv, CallsFaithful, NEW p \in Procs, NEW n, Faithful(n),
         proc' = [proc EXCEPT ![p] = n]
  PROVE  CallsFaithful'
  BY DEF ClientsInv, CallsSound, CallsFaithful

LEMMA RestingFaithful == Faithful(Resting)
<1>1. /\ Resting.op = Absent /\ Resting.left = Nothing /\ Resting.outcome = Absent
      /\ Resting.obeys = TRUE
  BY DEF Resting
<1> HIDE DEF Nothing
<1>2. Absent # "invalid_params" \/ ~Resting.obeys
  BY ClientsAssumption, <1>1
<1> QED BY <1>1, <1>2, NothingCarried DEF Faithful

LEMMA LaunchFaithful ==
  ASSUME ClientsInv, CallsFaithful, NEW p \in Procs, NEW surface, NEW op \in Operations, NEW args,
         NEW profile, NEW env, NEW key, NEW name, NEW agreed,
         Launch(p, surface, op, args, profile, env, key, name, agreed)
  PROVE  CallsFaithful'
<1> DEFINE base == [Resting EXCEPT !.surface = surface, !.op = op, !.args = Kept(op, args),
                             !.profile = profile, !.env = env, !.key = key]
           chosen == SelectYards(args, name)
<1>1. /\ DOMAIN base = CallFields /\ base.op = op /\ base.left = Nothing
      /\ base.outcome = Resting.outcome /\ base.obeys = Resting.obeys
  BY DEF Resting, CallFields
<1>2. proc' = [proc EXCEPT ![p] =
          IF Refused(op, args, profile, name, agreed) THEN With(End("failed", {}), base)
          ELSE IF op = "deploy_web_yard"
               THEN With([at |-> "load", yard |-> Head(chosen), todo |-> Tail(chosen),
                          left |-> DeployRequests(args)], base)
          ELSE With([at |-> IF op = "login" THEN "send" ELSE "load",
                     yard |-> IF "yard" \in args THEN name ELSE Absent,
                     left |-> Requests[op]], base)]
  BY DEF Launch
<1> HIDE DEF base, chosen
<1>3. Faithful(base)
  BY <1>1, RestingFaithful, NothingCarried DEF Faithful
<1>4. ASSUME NEW delta, Modest(delta, op), proc' = [proc EXCEPT ![p] = With(delta, base)]
      PROVE  CallsFaithful'
  <2>1. Faithful(With(delta, base))
    BY <1>1, <1>3, <1>4, ModestFaithful
  <2> QED BY <1>4, <2>1, ReplacedFaithful
<1>5. CASE Refused(op, args, profile, name, agreed)
  BY <1>2, <1>4, <1>5, EndModest
<1>6. CASE ~Refused(op, args, profile, name, agreed) /\ op = "deploy_web_yard"
  <2> DEFINE r == DeployRequests(args)
             e == [at |-> "load", yard |-> Head(chosen), todo |-> Tail(chosen), left |-> r]
  <2>1. DOMAIN e = {"at", "yard", "todo", "left"} /\ e.left = r
    OBVIOUS
  <2>2. AllCarried(op, r)
    BY <1>6, DeployCarried
  <2>3. proc' = [proc EXCEPT ![p] = With(e, base)]
    BY <1>2, <1>6
  <2> HIDE DEF e, r
  <2>4. Modest(e, op)
    BY <2>1, <2>2 DEF Modest, CallFields
  <2> QED BY <1>4, <2>3, <2>4
<1>7. CASE ~Refused(op, args, profile, name, agreed) /\ op # "deploy_web_yard"
  <2> DEFINE r == Requests[op]
             e == [at |-> IF op = "login" THEN "send" ELSE "load",
                   yard |-> IF "yard" \in args THEN name ELSE Absent, left |-> r]
  <2>1. DOMAIN e = {"at", "yard", "left"} /\ e.left = r
    OBVIOUS
  <2>2. AllCarried(op, r)
    BY RequestsCarried
  <2>3. proc' = [proc EXCEPT ![p] = With(e, base)]
    BY <1>2, <1>7
  <2> HIDE DEF e, r
  <2>4. Modest(e, op)
    BY <2>1, <2>2 DEF Modest, CallFields
  <2> QED BY <1>4, <2>3, <2>4
<1> QED BY <1>5, <1>6, <1>7

(* Calls begin.                                                            *)
LEMMA RunCommandFaithful ==
  ASSUME ClientsInv, CallsFaithful, NEW p \in Procs, RunCommand(p) PROVE CallsFaithful'
<1>1. PICK op, args, profile, env, key, agreed, name :
        op \in DOMAIN Commands /\ Launch(p, "command", op, args, profile, env, key, name, agreed)
  BY DEF RunCommand
<1>2. op \in Operations
  BY <1>1, CommandsCover
<1> QED BY <1>1, <1>2, LaunchFaithful

LEMMA CallToolFaithful ==
  ASSUME ClientsInv, CallsFaithful, NEW p \in Procs, CallTool(p) PROVE CallsFaithful'
<1>1. PICK op, args :
         /\ op \in DOMAIN Catalog
         /\ \/ proc' = [proc EXCEPT ![p] =
                       With(End("not_initialized", {}),
                            [Resting EXCEPT !.surface = "tool", !.op = op])]
            \/ /\ ~Admits(Tools, op, args)
               /\ proc' = [proc EXCEPT ![p] =
                       With(End("invalid_params", {}),
                            [Resting EXCEPT !.surface = "tool", !.op = op, !.args = args,
                                            !.obeys = Admits(Catalog, op, args)])]
            \/ \E name : Launch(p, "tool", op, args, session[p].profile, FALSE, Absent, name, TRUE)
  BY DEF CallTool
<1>2. op \in Operations
  BY <1>1, CatalogCover
<1>3. CASE proc' = [proc EXCEPT ![p] = With(End("not_initialized", {}),
                            [Resting EXCEPT !.surface = "tool", !.op = op])]
  <2> DEFINE base == [Resting EXCEPT !.surface = "tool", !.op = op]
             n == With(End("not_initialized", {}), base)
  <2>1. /\ DOMAIN base = CallFields /\ base.op = op /\ base.left = Nothing
        /\ base.outcome = Resting.outcome /\ base.obeys = Resting.obeys
    BY DEF Resting, CallFields
  <2>2. proc' = [proc EXCEPT ![p] = n]
    BY <1>3
  <2> HIDE DEF base
  <2>3. Faithful(base)
    BY <1>2, <2>1, RestingFaithful, NothingCarried DEF Faithful
  <2>4. Modest(End("not_initialized", {}), op)
    BY EndModest
  <2>5. Faithful(n)
    BY <2>1, <2>3, <2>4, ModestFaithful
  <2> HIDE DEF n
  <2> QED BY <2>2, <2>5, ReplacedFaithful
<1>4. CASE /\ ~Admits(Tools, op, args)
           /\ proc' = [proc EXCEPT ![p] = With(End("invalid_params", {}),
                            [Resting EXCEPT !.surface = "tool", !.op = op, !.args = args,
                                            !.obeys = Admits(Catalog, op, args)])]
  <2>1. ~Admits(Catalog, op, args)
    BY <1>1, <1>4, ToolsAccept DEF Admits, Accepted
  <2> DEFINE base == [Resting EXCEPT !.surface = "tool", !.op = op, !.args = args,
                                     !.obeys = Admits(Catalog, op, args)]
             e == End("invalid_params", {})
             n == With(e, base)
  <2>2. DOMAIN base = CallFields /\ base.op = op /\ base.obeys = Admits(Catalog, op, args)
    BY DEF Resting, CallFields
  <2>3. proc' = [proc EXCEPT ![p] = n]
    BY <1>4
  <2>4. e.left = Nothing /\ "left" \in DOMAIN e /\ DOMAIN e \subseteq CallFields \ {"op", "obeys"}
    BY EndDomain DEF CallFields, End
  <2> HIDE DEF base, e
  <2>5. \A f \in CallFields : n[f] = IF f \in DOMAIN e THEN e[f] ELSE base[f]
    BY <2>2, <2>4, WithFields
  <2> HIDE DEF n
  <2>6. n.op = op /\ n.left = Nothing /\ n.obeys = Admits(Catalog, op, args)
    BY <2>2, <2>4, <2>5 DEF CallFields
  <2>7. Faithful(n)
    BY <1>2, <2>1, <2>6, NothingCarried DEF Faithful
  <2> QED BY <2>3, <2>7, ReplacedFaithful
<1>5. ASSUME NEW name, Launch(p, "tool", op, args, session[p].profile, FALSE, Absent, name, TRUE)
      PROVE  CallsFaithful'
  BY <1>2, <1>5, LaunchFaithful
<1> QED BY <1>1, <1>3, <1>4, <1>5

LEMMA ReadResourceFaithful ==
  ASSUME ClientsInv, CallsFaithful, NEW p \in Procs, ReadResource(p) PROVE CallsFaithful'
<1>1. PICK op \in {"whoami", "list_objects", "get_retention"} :
        Launch(p, "resource", op, IF op = "whoami" THEN {} ELSE {"project"},
                  session[p].profile, FALSE, Absent, "main", TRUE)
  BY DEF ReadResource
<1>2. op \in Operations
  BY RequestsCover DEF OperationNames
<1> QED BY <1>1, <1>2, LaunchFaithful

LEMMA AddProfileFaithful ==
  ASSUME ClientsInv, CallsFaithful, NEW p \in Procs, AddProfile(p) PROVE CallsFaithful'
<1> DEFINE base == [Resting EXCEPT !.surface = "command", !.op = "profile_add", !.profile = "home"]
<1>1. /\ DOMAIN base = CallFields /\ base.op = "profile_add" /\ base.left = Nothing
      /\ base.outcome = Resting.outcome /\ base.obeys = Resting.obeys
  BY DEF Resting, CallFields
<1>2. proc' = [proc EXCEPT ![p] = IF "home" \in profiles THEN With(End("failed", {}), base)
                                     ELSE [base EXCEPT !.at = "exchange"]]
  BY DEF AddProfile
<1> HIDE DEF base
<1>3. Faithful(base)
  BY <1>1, RestingFaithful, NothingCarried DEF Faithful
<1>4. CASE "home" \in profiles
  <2> DEFINE n == With(End("failed", {}), base)
  <2>1. Modest(End("failed", {}), "profile_add")
    BY EndModest
  <2>2. Faithful(n)
    BY <1>1, <1>3, <2>1, ModestFaithful
  <2>3. proc' = [proc EXCEPT ![p] = n]
    BY <1>2, <1>4
  <2> HIDE DEF n
  <2> QED BY <2>2, <2>3, ReplacedFaithful
<1>5. CASE "home" \notin profiles
  <2> DEFINE n == [base EXCEPT !.at = "exchange"]
  <2>1. n.op = base.op /\ n.left = base.left /\ n.outcome = base.outcome /\ n.obeys = base.obeys
    BY <1>1 DEF CallFields
  <2>2. proc' = [proc EXCEPT ![p] = n]
    BY <1>2, <1>5
  <2> HIDE DEF n
  <2>3. Faithful(n)
    BY <1>3, <2>1 DEF Faithful
  <2> QED BY <2>2, <2>3, ReplacedFaithful
<1> QED BY <1>4, <1>5

(* Small changes.                                                          *)
LEMMA StepsModest ==
  /\ \A op, x, y : Modest([at |-> x, token |-> y], op)
  /\ \A op, x : Modest([id |-> x], op) /\ Modest([touched |-> x], op)
  BY DEF Modest, CallFields

LEMMA LoadFaithful ==
  ASSUME ClientsInv, CallsFaithful, NEW p \in Procs, Load(p) PROVE CallsFaithful'
<1> DEFINE next == IF Cloud(p) /\ proc[p].op # "logout" THEN "refresh" ELSE "send"
<1>1. \/ Update(p, [at |-> "send", token |-> Absent])
      \/ Update(p, Failure(p))
      \/ Update(p, [token |-> store[proc[p].profile], at |-> next])
  BY DEF Load
<1> HIDE DEF next
<1>2. Modest([token |-> store[proc[p].profile], at |-> next], proc[p].op)
  BY DEF Modest, CallFields
<1> QED BY <1>1, <1>2, UpdateFaithful, FailureModest, StepsModest

LEMMA CredentialFaithful ==
  ASSUME ClientsInv, CallsFaithful, NEW p \in Procs,
         \/ Refresh(p) \/ Save(p) \/ Forget(p) \/ Keep(p) \/ KeepHome(p) \/ WriteProfile(p)
         \/ Exchange(p) \/ PollDevice(p)
  PROVE  CallsFaithful'
<1>1. \/ \E x, y : Update(p, [at |-> x, token |-> y])
      \/ Update(p, Failure(p))
      \/ Update(p, End("ok", {})) \/ Update(p, End("failed", {}))
      \/ UNCHANGED proc
  BY DEF Refresh, Save, Forget, Keep, KeepHome, WriteProfile, Exchange, PollDevice
<1>2. CASE UNCHANGED proc
  BY <1>2 DEF CallsFaithful
<1>3. Modest(End("ok", {}), proc[p].op) /\ Modest(End("failed", {}), proc[p].op)
  BY EndModest
<1> QED BY <1>1, <1>2, <1>3, UpdateFaithful, FailureModest, StepsModest

LEMMA ReceiveFaithful ==
  ASSUME ClientsInv, CallsFaithful, NEW p \in Procs, proc[p].at = "send", NEW e, NEW ok,
         Receive(p, e, ok)
  PROVE  CallsFaithful'
<1> DEFINE skip == [at |-> "send", left |-> Tail(proc[p].left)]
<1>1. \/ Update(p, Failure(p))
      \/ Update(p, Proceed(p))
      \/ \E x : Update(p, With([id |-> x], Proceed(p)))
      \/ \E x : Update(p, With([touched |-> x], Proceed(p)))
      \/ \E x, y : Update(p, [at |-> x, token |-> y])
      \/ Update(p, skip)
  BY DEF Receive
<1>2. Leads(proc[p]) /\ Faithful(proc[p])
  BY DEF ClientsInv, CallsSound, Sound, Running, CallsFaithful
<1>3. Modest(Proceed(p), proc[p].op)
  BY <1>2, ProceedModest
<1>4. Modest(skip, proc[p].op)
  <2>1. AllCarried(proc[p].op, Tail(proc[p].left))
    BY <1>2, TailCarried DEF Faithful
  <2>2. DOMAIN skip = {"at", "left"} /\ skip.left = Tail(proc[p].left)
    OBVIOUS
  <2> HIDE DEF skip
  <2> QED BY <2>1, <2>2 DEF Modest, CallFields
<1> HIDE DEF skip
<1>5. \A x : /\ Modest(With([id |-> x], Proceed(p)), proc[p].op)
             /\ Modest(With([touched |-> x], Proceed(p)), proc[p].op)
  BY <1>3, StepsModest, WithModest
<1> QED BY <1>1, <1>3, <1>4, <1>5, UpdateFaithful, FailureModest, StepsModest

LEMMA SendFaithful ==
  ASSUME ClientsInv, CallsFaithful, NEW p \in Procs, Send(p) PROVE CallsFaithful'
<1>1. proc[p].at = "send" /\ (Update(p, Failure(p)) \/ \E e, ok : Receive(p, e, ok))
  BY DEF Send
<1> QED BY <1>1, UpdateFaithful, FailureModest, ReceiveFaithful

LEMMA ClientsNextFaithful ==
  ASSUME ClientsInv, CallsFaithful, [ClientsNext]_clientVars PROVE CallsFaithful'
<1>1. ASSUME UNCHANGED proc PROVE CallsFaithful'
  BY <1>1 DEF CallsFaithful
<1>2. ASSUME NEW p \in Procs, ServeMcp(p) \/ InitializeMcp(p) \/ CloseMcp(p)
      PROVE  CallsFaithful'
  BY <1>1, <1>2 DEF ServeMcp, InitializeMcp, CloseMcp
<1>3. ASSUME NEW p \in Procs, Render(p) \/ Kill(p) PROVE CallsFaithful'
  <2>1. proc' = [proc EXCEPT ![p] = Resting]
    BY <1>3 DEF Render, Kill
  <2> QED BY <2>1, RestingFaithful, ReplacedFaithful
<1>4. CASE UNCHANGED clientVars
  BY <1>1, <1>4 DEF clientVars
<1> QED BY <1>2, <1>3, <1>4, RunCommandFaithful, CallToolFaithful, ReadResourceFaithful, LoadFaithful,
           CredentialFaithful, SendFaithful, AddProfileFaithful DEF ClientsNext

(* The catalogue, the parsers, the annotations, the commands' requests and *)
(* the server's decoders describe the same operations (catalog.rs,         *)
(* tool_call.rs, catalog_annotations.rs, the runner's requests and the     *)
(* server's).                                                              *)
THEOREM SurfacesAgreeHolds == ClientsSpec => []SurfacesAgree
<1>1. ClientsInit => CallsFaithful
  BY RestingFaithful DEF ClientsInit, CallsFaithful
<1>2. ClientsInv /\ CallsFaithful => SurfacesAgree
  <2> SUFFICES ASSUME ClientsInv, CallsFaithful PROVE SurfacesAgree
    OBVIOUS
  <2>1. ClientsTypeOK
    BY DEF ClientsInv, CallsSound, Sound, ClientsTyped, YardsHold, YardsNamed, CallsFaithful, Faithful,
           ClientsTypeOK
  <2>2. CatalogueMatchesParser
    BY DEF CallsFaithful, Faithful, CatalogueMatchesParser
  <2>3. ReadOnlyToolsRead
    BY DEF CallsFaithful, Faithful, AllCarried, Carried, OnlyReads, ReadOnlyToolsRead
  <2>4. RequestsAreUnderstood
    <3> SUFFICES ASSUME NEW p \in Procs, proc[p].at = "send", ~Cloud(p),
                        Available(Head(proc[p].left).endpoint, FALSE)
                 PROVE  Understood(Head(proc[p].left).endpoint, Sent(p))
      BY DEF RequestsAreUnderstood
    <3> DEFINE q == Head(proc[p].left)
    <3>1. Leads(proc[p]) /\ AllCarried(proc[p].op, proc[p].left)
      BY DEF ClientsInv, CallsSound, Sound, Running, CallsFaithful, Faithful
    <3>2. Carried(proc[p].op, q)
      BY <3>1, TailCarried
    <3> HIDE DEF q
    <3>3. Routed(q.endpoint, q.always, {q.maybe[a] : a \in DOMAIN q.maybe})
      BY <3>2 DEF Carried
    <3>4. Sent(p) \subseteq q.always \cup {q.maybe[a] : a \in DOMAIN q.maybe}
          /\ q.always \subseteq Sent(p)
      BY DEF Sent, FieldsOf, q
    <3>5. Available(q.endpoint, FALSE)
      BY DEF q
    <3>6. Understood(q.endpoint, Sent(p))
      BY <3>3, <3>4, <3>5 DEF Routed, Understood
    <3> QED BY <3>6 DEF q
  <2> QED BY <2>1, <2>2, <2>3, <2>4 DEF SurfacesAgree
<1> QED BY <1>1, <1>2, ClientsNextFaithful, ClientsInvHolds, PTL DEF ClientsSpec
=============================================================================
