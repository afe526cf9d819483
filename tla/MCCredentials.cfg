SPECIFICATION Spec
CONSTANTS
  c1 = c1
  c2 = c2
  a1 = a1
  a2 = a2
  None = None
  Handlers = {h1, h2}
  Trusts = {c1, c2}
  Assertions = {a1, a2}
  KeyOf <- MCKeyOf
  LastKey = 2
  ExpiryOf <- MCExpiryOf
  Matches <- MCMatches
  ProjectScoped = {c2}
  Allowed <- MCAllowed
  ScopeChoices = {{"tokens", "ci"}}
  ActionChoices = {{"yard"}}
  MaxTokens = 3
  MaxTime = 2
  MaxLag = 1
  MaxChanges = 2
  Ttl = 2
  Cooldown = 1
  Window = 2
  Limit = 1
  TokenLife = 2
SYMMETRY Symmetry
CHECK_DEADLOCK FALSE
INVARIANTS MintsAreBounded RevokedTrustAdmitsNone AcceptedKeyIsRecent AuthorityShrinks
