\* Client calls and exits are bounded: the system stops when both are used up.
SPECIFICATION Spec
CONSTANTS
  Val = {a, b}
  Zero = Zero
  Absent = Absent
  NoClaim = NoClaim
  RowsPerSlab = 2
  BufferSize = 10
  MaxSlabs = 4
  MaxOps = 8
  MaxCrashes = 2
  MaxFaults = 0
  DirectWrites = FALSE
  Updates = FALSE
  FailedTxs = FALSE
  Compacts = FALSE
SYMMETRY Symmetric
PROPERTIES CommittedSurvive
CHECK_DEADLOCK FALSE
