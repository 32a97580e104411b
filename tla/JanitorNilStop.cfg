CONSTANTS
  s1 = s1
  s2 = s2
  s3 = s3
  None = None
  Stores <- ThreeStores
SPECIFICATION FairSpec
PROPERTY FinalizerStopsJanitor
CHECK_DEADLOCK FALSE
