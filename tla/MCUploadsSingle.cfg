SPECIFICATION LiveSpec
CONSTANTS
  Uploads = {u1}
  Multipart = {}
  Parts = {n1}
  Ids = {m1}
  Handlers = {h1, h2}
  AtomicPut = TRUE
  MaxFaults = 2
  None = None
PROPERTY SingleUploadFinishes
