CONSTANTS
  Arrivals = 5
  MaxRows = 3
  MaxSize = 2
  BatchSize = 2
  MaxDoubts = 1
SPECIFICATION FairSpec
INVARIANTS
  Accounted
  WrittenOnce
  FullBufferWakes
  StopLeavesNothing
PROPERTIES
  BoundedLedgerSpec
  RowsGetWritten
