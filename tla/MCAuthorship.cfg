SPECIFICATION Spec
CONSTANTS
  a = a
  b = b
  c = c
  Deleted = Deleted
  Token <- Tokens
  Texts <- StructuralTexts
  Length <- StructuralLength
  XmlRevisions <- StructuralRevisions
  MaxRevisions = 4
  TOKEN_DENSITY_LIMIT = 20
  REMOVE_LIST <- NoTokens
INVARIANTS
  TypeOK
  NoTokenTwice
  RoundTrip
  DiffProvides
  UnchangedTextKeepsTokens
PROPERTIES
  ImplementsLedger
