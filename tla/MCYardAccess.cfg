SPECIFICATION Spec
CONSTANTS
  m1 = m1
  i1 = i1
  e1 = e1
  None = None
  Members = {m1, m2}
  m2 = m2
  Locals = {m1, m2}
  Invites = {i1}
  Persons = {p1}
  Emails = {e1, e2}
  e2 = e2
  EmailOf <- MCEmailOf
  Continuations = {k1}
  Visibilities = {"workspace", "selected", "public"}
  Opening = "selected"
  Handlers = {h1, h2}
  MaxCodes = 2
  MaxSessions = 2
  MaxTime = 3
  MaxLag = 1
  MaxChanges = 1
  CodeLife = 1
  LoginLife = 1
  SessionLife = 1
  InviteLife = 2
  History = 1
SYMMETRY Symmetry
CHECK_DEADLOCK FALSE
INVARIANTS SignsInOnce WithdrawalReaches
PROPERTIES InvitationSettles IdentityNeverRebinds
