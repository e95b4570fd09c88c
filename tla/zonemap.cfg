SPECIFICATION Spec
CONSTANTS
  Val <- MCNumbers
  Zero = 0
  RowsPerSlab = 2
  MaxSlabs = 2
  MaxRows = 3
  MaxUndo = 1
  None = None
  Idle = Idle
  Failing = TRUE
  Pruning = TRUE
  Indexing = FALSE
  Overlapping = TRUE
INVARIANTS TypeOK PruningSound ZoneInv
