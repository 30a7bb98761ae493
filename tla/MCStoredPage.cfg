SPECIFICATION Spec
CONSTANTS
  Texts <- SmallTexts
  ChangedTexts <- AlteredTexts
  MaxIndex = 3
INVARIANTS
  PointersResolve
  SplitsAgree
  TextPreserved
  WordsAreTokens
  StoredPageReturns
