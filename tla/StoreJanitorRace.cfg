CONSTANTS
  k1 = k1
  c1 = c1
  c2 = c2
  None = None
  Text = Text
  Janitor = Janitor
  Keys <- OneKey
  Procs <- OneProc
  Half = 2
  Inputs = {Text}
  Amounts = {1}
  Ops = {"Set"}
  TPS = 1
  DefaultExp = 1
  Exps = {1}
  Start = 1
  MaxNow = 4
SPECIFICATION Spec
PROPERTY JanitorRemovesOnlyExpired
