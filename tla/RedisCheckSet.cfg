CONSTANTS
  k1 = k1
  c1 = c1
  c2 = c2
  c3 = c3
  None = None
  Keys <- OneKey
  Clients <- TwoClients
  MayCall <- OnlyCheckSet
  Volatile = FALSE
  Half = 4
  Amounts = {1}
  MaxGiven = 6
SPECIFICATION Spec
PROPERTY CheckSetUnchanged
CHECK_DEADLOCK FALSE
