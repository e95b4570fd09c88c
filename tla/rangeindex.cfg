SPECIFICATION Spec
CONSTANTS
  Val <- MCNumbers
  Zero = 0
  RowsPerSlab = 3
  MaxSlabs = 1
  MaxRows = 3
  MaxUndo = 2
  None = None
  Idle = Idle
  Failing = TRUE
  Pruning = FALSE
  Indexing = TRUE
  Overlapping = TRUE
VIEW IndexView
INVARIANTS RangeIndexExact
