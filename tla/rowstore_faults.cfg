\* A closed file that cannot be opened again is a state the program stops in.
SPECIFICATION Spec
CONSTANTS
  Key = {0, 1, 2}
  Val = {0, 1, 2}
  ZeroRow <- MCZeroRow
  Given <- MCGivenTwo
  Encodable <- MCNarrow
  Stored <- MCExact
  RowsPerSlab = 2
  MaxSlabs = 1
  MaxBatch = 2
  MaxUndo = 2
  NoOwner = NoOwner
  Absent = Absent
INVARIANTS IndexSound IndexMissesOnlyFailures
PROPERTIES RollbackRestoresRows
CHECK_DEADLOCK FALSE
