CONSTANTS
  Connections = {c1, c2}
  Files <- AllFiles
  Absent = Absent
  NotArray = NotArray
  NULL = NULL
  Loop = Loop
  Off = Off
SPECIFICATION FairSpec
INVARIANTS TypeOK StopsBetweenRequests ServesEquipped
PROPERTY SignalEnds
CHECK_DEADLOCK FALSE
