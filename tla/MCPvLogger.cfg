SPECIFICATION LiveSpec
CONSTANTS
  Size = 5
  Breaks <- MCAny
  BufSize = 2
  MaxRead = 4
  MaxFaults = 2
INVARIANTS SavedIsForwarded LinesNotMixed
PROPERTY TakenInTheEnd
CHECK_DEADLOCK FALSE
