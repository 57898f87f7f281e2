CONSTANTS
  r1 = r1
  r2 = r2
  j1 = j1
  j2 = j2
  p1 = p1
  u1 = u1
  u2 = u2
  Label = Label
  None = None
  Requests <- TwoRequests
  JDs <- TwoJDs
  Patches <- OnePatch
  Mixes <- TwoItems
  Voters <- OneVoter
  Ballots <- DownOrNone
  Quorum = 1
SPECIFICATION Spec
INVARIANTS
  MergesAreOwned
  RejectedStaysOut
PROPERTIES
  PatchesKeepTheRest
SYMMETRY Interchangeable
CHECK_DEADLOCK FALSE
