CONSTANTS
  r1 = r1
  r2 = r2
  j1 = j1
  j2 = j2
  p1 = p1
  u1 = u1
  u2 = u2
  Label = Label
  None = None
  Requests <- TwoRequests
  JDs <- TwoJDs
  Patches <- OnePatch
  Mixes <- OneJD
  Voters <- TwoVoters
  Ballots <- AllBallots
  Quorum = 2
SPECIFICATION Spec
INVARIANTS
  QuarantineHolds
CHECK_DEADLOCK FALSE
