SPECIFICATION FairSpec
CONSTANTS
  x = x
  y = y
  z = z
  Token <- Tokens3
  Inputs <- SmallInputs
  AUTOJUNK_LENGTH = 4
  AUTOJUNK_SHARE = 4
  MaxGeneration = 3
INVARIANTS
  TypeOK
  RowHoldsRuns
  LongestAndFirst
  AreasInOrder
  TurnsAIntoB
  GapsHaveNoAnchor
PROPERTY Termination
