SPECIFICATION Spec
CONSTANTS
  Symbol <- SymbolsUsed
  Numbers <- Numerals
  Timestamps <- Times
  Hashes <- Hash
  RandomId <- Negative
  Name <- Strings
  Streams <- PassingStreams
INVARIANTS
  TypeOK
  PathIsOpen
  SiteInfoRead
  StrictAborts
PROPERTY
  ImplementsPageSource
