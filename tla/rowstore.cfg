SPECIFICATION Spec
CONSTANTS
  Key = {0, 1, 2}
  Val = {0, 1, 2}
  ZeroRow <- MCZeroRow
  Given <- MCGiven
  Encodable <- MCAll
  Stored <- MCExact
  RowsPerSlab = 2
  MaxSlabs = 2
  MaxBatch = 2
  MaxUndo = 2
  NoOwner = NoOwner
  Absent = Absent
INVARIANTS TypeOK UniqueExact IndexExact BatchFits SlabsFull CountExact UndoChain Reopenable Exact
PROPERTIES RollbackRestores Implements
