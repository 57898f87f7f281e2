CONSTANTS
  a = a
  b = b
  tickA = tickA
  tickB = tickB
  force = force
  s1 = s1
  s2 = s2
  Ticks <- TwoTicks
  Forces <- OneForce
  Replica <- WhereTwo
  Sessions <- TwoSessions
  MaxFailures = 0
SPECIFICATION Spec
INVARIANTS
  OnePollAtATime
