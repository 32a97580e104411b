CONSTANTS
  c1 = c1
  c2 = c2
  s1 = s1
  s2 = s2
  None = None
  Callers <- TwoCallers
  Main = c1
  Servers <- TwoServers
  Primary = s1
  Minute = 1
  IdleTimeout = 1
  MaxFaults = 2
  SentinelMaxIdle = 1
  SentinelMaxActive = 1
  DirectMaxIdle = 1
  maxConnections = 1
SPECIFICATION FairSpec
INVARIANTS TypeOK ActiveBound TriedIsWritable
PROPERTY GetReturns
CHECK_DEADLOCK FALSE
