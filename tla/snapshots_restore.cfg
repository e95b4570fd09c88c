SPECIFICATION Spec
CONSTANTS
  t1 = t1
  t2 = t2
  Thread = {t1}
  Name = {a}
  None = None
  Partial = Partial
  Empty = Empty
  Garbled = Garbled
  MaxContent = 1
  MaxOwn = 1
  MaxCrashes = 1
  Openable = {a}
  OverOpen = FALSE
INVARIANTS SlotsRestore
CHECK_DEADLOCK FALSE
