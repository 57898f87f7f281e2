CONSTANTS
  c1 = c1
  c2 = c2
  c3 = c3
  tA = tA
  tB = tB
  Callers <- ThreeCallers
  Targets <- TwoTargets
  TargetOf <- LastOnB
  BatchSize = 2
  MostTitles <- OneForLast
SPECIFICATION Spec
INVARIANTS
  TypeOK
  NobodyForgotten
  VerdictsAreOwn
  BilledCallsAreOwned
  CycleLeavesNothing
PROPERTIES
  DirectSpec
  EveryCallerAnswered
CHECK_DEADLOCK FALSE
