CONSTANTS
  k1 = k1
  k2 = k2
  r1 = r1
  r2 = r2
  Keys <- TwoKeys
  Requests <- TwoRequests
  Nothing = Nothing
  MaxEntries = 2
  Limit = 2
  MaxTroubles = 1
SPECIFICATION FairSpec
INVARIANTS
  ClaimHasARun
  OneRunPerKey
  DailyLimitHolds
  RankingIsOwned
PROPERTIES
  AnalysisLands
