CONSTANTS
  a = a
  b = b
  tickA = tickA
  tickB = tickB
  force = force
  s1 = s1
  s2 = s2
  Ticks <- TwoTicks
  Forces <- OneForce
  Replica <- WhereTwo
  Sessions <- TwoSessions
  MaxFailures = 2
SPECIFICATION FairSpec
INVARIANTS
  TypeOK
  HoldsAreAccountedFor
PROPERTIES
  LeakIsReported
  TicksRecover
