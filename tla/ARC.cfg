CONSTANTS
  k1 = k1
  k2 = k2
  k3 = k3
  k4 = k4
  v1 = v1
  v2 = v2
  None = None
  Keys <- FourKeys
  Values <- TwoValues
  Size = 2
SPECIFICATION Spec
INVARIANTS TypeOK OneHome AtMostOneOver
PROPERTIES GetKeepsEntries ImplementsLossyMap
