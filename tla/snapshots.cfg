SPECIFICATION Spec
CONSTANTS
  t1 = t1
  t2 = t2
  Thread <- MCThread
  Name = {a, b}
  None = None
  Partial = Partial
  Empty = Empty
  Garbled = Garbled
  MaxContent = 1
  MaxOwn = 1
  MaxCrashes = 1
  Openable = {a}
  OverOpen = TRUE
INVARIANTS TypeOK ManifestReadable EntriesKept CleanSlotsRestore
PROPERTIES CallsEnd
CHECK_DEADLOCK FALSE
