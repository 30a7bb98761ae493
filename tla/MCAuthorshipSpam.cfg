SPECIFICATION FairSpec
CONSTANTS
  a = a
  b = b
  c = c
  Deleted = Deleted
  Token <- Tokens
  Texts <- SpamTexts
  Length <- SpamLength
  XmlRevisions <- SpamRevisions
  MaxRevisions = 4
  TOKEN_DENSITY_LIMIT = 1
  REMOVE_LIST <- MarkupTokens
INVARIANTS
  FlagsClear
  AddsCounted
  ComparedWithLatestValid
  SpamLeavesNoTrace
  OutputTellsAuthorship
PROPERTIES
  Termination
