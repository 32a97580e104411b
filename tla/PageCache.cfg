CONSTANTS
  r1 = r1
  r2 = r2
  r3 = r3
  u1 = u1
  u2 = u2
  b1 = b1
  None = None
  Requests <- ThreeRequests
  Uris <- TwoUris
  Atomic <- OnlyFirst
  ViaSite <- OneViaSite
  Pieces <- TwoThenOne
  ByString <- OnlySecond
  Buffers <- OneBuffer
  ByReference = FALSE
  Code <- TwoFail
  Direct <- OneDirect
SPECIFICATION FairSpec
INVARIANTS HitReplaysOneRun NoHalfMadePage NoStampede OwnAnswerWhole SiteThenRoute
PROPERTY AllAnswered
CHECK_DEADLOCK FALSE
