CONSTANTS
  Threshold = 2
  ParkAfter = 1
SPECIFICATION FairSpec
INVARIANTS
  OffHasAWayBack
  ParkingIsEarned
PROPERTIES
  DeadBoardIsLeftAlone
  OutageEnds
