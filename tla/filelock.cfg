SPECIFICATION Spec
CONSTANTS
  p1 = p1
  p2 = p2
  o1 = o1
  o2 = o2
  o3 = o3
  Process <- MCProcess
  Opener <- MCOpener
  ProcessOf <- MCProcessOf
  None = None
  MaxWrites = 2
  MaxCrashes = 1
INVARIANTS TypeOK OneWriter RegistryTrue
PROPERTIES NothingLost FreeAgain
\* A path that constructors left registered in every process stays closed.
CHECK_DEADLOCK FALSE
