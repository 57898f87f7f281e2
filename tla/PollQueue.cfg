CONSTANTS
  a = a
  c = c
  u = u
  Sources <- ThreeSources
  Unknown <- OneUnknown
  Paid <- OnePaid
  Cap = 2
  Concurrency = 1
SPECIFICATION QueueFairSpec
PROPERTIES
  NoOvertaking
  EverySourceRotates
