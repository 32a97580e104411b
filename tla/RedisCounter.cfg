CONSTANTS
  k1 = k1
  c1 = c1
  c2 = c2
  c3 = c3
  None = None
  Keys <- OneKey
  Clients <- ThreeClients
  MayCall <- EveryMethod
  Volatile = TRUE
  Half = 4
  Amounts = {1, 2}
  MaxGiven = 3
SPECIFICATION Spec
SYMMETRY ClientSymmetry
INVARIANTS TypeOK NeverOvercounts
CHECK_DEADLOCK FALSE
