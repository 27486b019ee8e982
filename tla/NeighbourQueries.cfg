CONSTANTS
  Uids = {"u", "v", "w", "x"}
  Messages <- AllMessages
  Radii = {2}
  DefaultExpiry = 1
  DefaultRadius = 3
  MaxRows = 2
  Zone = 0
  Horizon = 2
  Faults = {"command"}
  Absent = Absent
SPECIFICATION FairSpec
INVARIANTS TypeOK NeighboursFresh NeighboursComplete
PROPERTY NeighbourAnswered
