SPECIFICATION Spec
CONSTANTS
  Uploads = {u1}
  Multipart = {u1}
  Parts = {n1, n2}
  Ids = {m1, m2}
  Handlers = {h1, h2}
  AtomicPut = FALSE
  MaxFaults = 1
  None = None
SYMMETRY Symmetry
INVARIANT UploadsAreSound
PROPERTY ReservationLifecycle
