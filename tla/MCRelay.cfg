CONSTANTS
  None = None
  Targets = {t1}
  Nonces = {n1}
  Reqs = {r1, r2}
  BufferCap = 2
  RegCap = 1
  PendCap = 2
  JobCap = 1
  DedupWindow = 1
  MaxId = 3
  MaxMsg = 2
  MaxWire = 1
  MaxDrops = 1
SYMMETRY Symmetry
SPECIFICATION Spec
INVARIANTS
    RepliesResolve EchoMatchesClean  NonceOnce
CHECK_DEADLOCK FALSE
