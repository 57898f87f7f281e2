CONSTANTS
  u1 = u1
  u2 = u2
  t1 = t1
  t2 = t2
  k1 = k1
  k2 = k2
  Users <- TwoUsers
  Targets <- TwoTargets
  Sponsored <- SecondTarget
  Cap <- CapOfOne
  Tasks <- TwoTasks
SPECIFICATION Spec
INVARIANTS
  TypeOK
  ActiveCap
  NothingResurrected
  NothingSwitchedOff
  OrphansAreReaped
SYMMETRY Interchangeable
