CONSTANTS
  k1 = k1
  k2 = k2
  k3 = k3
  Tasks <- ThreeTasks
SPECIFICATION FairSpec
INVARIANTS
  TypeOK
  ErrorHasReason
  InFlightIsOwned
PROPERTIES
  StrandedIsReclaimed
