CONSTANTS
  r1 = r1
  r2 = r2
  r3 = r3
  u1 = u1
  u2 = u2
  b1 = b1
  None = None
  Requests <- ThreeRequests
  Uris <- TwoUris
  Atomic <- TwoUris
  ViaSite = {}
  Pieces <- OnePiece
  ByString = {}
  Buffers <- OneBuffer
  ByReference = TRUE
  Code <- TwoFail
  Direct <- OneDirect
SPECIFICATION Spec
INVARIANT HitReplaysOneRun
CHECK_DEADLOCK FALSE
