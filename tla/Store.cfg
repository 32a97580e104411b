CONSTANTS
  k1 = k1
  c1 = c1
  c2 = c2
  None = None
  Text = Text
  Janitor = Janitor
  Keys <- OneKey
  Procs <- OneProc
  Half = 2
  Inputs = {0, Text}
  Amounts = {1, 2, 3}
  Ops = {"Get", "Set", "Add", "Replace", "Update", "Delete", "Increment", "Decrement", "Flush"}
  TPS = 2
  DefaultExp = 3
  Exps = {0, 1, 2}
  Start = 3
  MaxNow = 7
SPECIFICATION FairSpec
INVARIANT TypeOK
PROPERTIES IncrementWraps SmallDecrementCapped NeverServedLate
           ExpiredAtMostTwoSecondsEarly ExpiredCollected
