SPECIFICATION SurfaceSpec
CONSTANTS
  Guests = {g1, g2}
  Uploads <- MCUploads
  Size <- MCSize
  MaximumFiles = 2
  MaximumBytes = 3
  InboxExpiry = 2
  GrantLifetime = 1
  MaxTime = 2
  Handlers = {h1, h2}
  Versions = {"v1"}
  Shares = {"s1"}
  Limits = {0, 1}
  ShareLifetime = 2
  ShareDownload = 2
  MaxGrants = 2
  MaxLinkTime = 3
SYMMETRY Symmetry
CHECK_DEADLOCK FALSE
INVARIANTS InboxIsAccounted LinksAreBounded NoDanglingLinks
PROPERTIES RevokedIsFrozen
