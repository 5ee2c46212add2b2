CONSTANTS
  None = None
  Targets = {t1}
  Nonces = {}
  Reqs = {r1}
  BufferCap = 2
  RegCap = 2
  PendCap = 2
  JobCap = 1
  DedupWindow = 1
  MaxId = 2
  MaxMsg = 2
  MaxWire = 2
  MaxDrops = 0
SPECIFICATION Spec
INVARIANT EchoMatches
CHECK_DEADLOCK FALSE
