SPECIFICATION Spec
CONSTANTS
  x1 = x1
  x2 = x2
  r1 = r1
  r2 = r2
  r3 = r3
  None = None
  NUsers = 2
  NGroups = 2
  LastTime = 1
  Grants = {x1, x2}
  PrincipalOf <- MCPrincipalOf
  AppRoles = {r1, r2, r3}
  Graphs <- MCGraphs
  RoleChoices <- MCRoleChoices
  RoleRequests = {"owner", "auditor", None}
  ClockOf <- MCClockOf
  Handlers = {h1, h2}
  PageSize = 1
  MaxGroups = 2
  MaxMembers = 2
  MaxUserGroups = 2
  MaxGroupGrants = 1
  MaxAssignments = 2
  MaxBusy = 2
  MaxChanges = 5
  MaxRaced = 2
SYMMETRY Symmetry
CHECK_DEADLOCK FALSE
INVARIANTS AuthorityIsRecorded AuthorityIsExact WalkIsComplete
