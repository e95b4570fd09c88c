SPECIFICATION Spec
CONSTANTS
  Absent = Absent
  Everything = Everything
  Values <- MCValues
  Queries <- MCQueries
  Given <- MCGiven
  Cut <- MCCut
  ZeroRow <- MCZeroRow
  MaxRows = 3
  MaxWrites = 3
INVARIANTS TypeOK PlannedComplete CountsAgree PagesCover FindTrue
\* The writes are bounded.
CHECK_DEADLOCK FALSE
