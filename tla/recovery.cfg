\* Client calls and exits are bounded: the system stops when both are used up.
SPECIFICATION Spec
CONSTANTS
  Val = {a, b}
  Zero = Zero
  Absent = Absent
  NoClaim = NoClaim
  RowsPerSlab = 2
  BufferSize = 3
  MaxSlabs = 2
  MaxOps = 6
  MaxCrashes = 2
  MaxFaults = 1
  DirectWrites = TRUE
  Updates = TRUE
  FailedTxs = TRUE
  Compacts = TRUE
SYMMETRY Symmetric
INVARIANTS TypeOK
PROPERTIES RecoveryRestores
CHECK_DEADLOCK FALSE
