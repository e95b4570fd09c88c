SPECIFICATION Spec
CONSTANTS
  Null = Null
  NoCache = NoCache
  Raises = Raises
  DeltaSamples = 2
  ForThreshold = 2
  MaxBits = 2
  Narrow = 3
  Wide = 6
  DictThreshold = 2
  Width = 2
  KindsOf <- MCKinds
  ValuesOf <- MCValues
  Patched <- MCPatched
  MaxRows = 4
INVARIANTS TypeOK ReadsBack
CHECK_DEADLOCK FALSE
