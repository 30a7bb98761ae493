SPECIFICATION LedgerSpec
CONSTANTS
  Revision <- Pointers
  MaxFresh = 2
INVARIANTS
  RecordTellsHistory
  RemovalsAlternate
CHECK_DEADLOCK FALSE
