SPECIFICATION Spec
CONSTANTS
  Symbol <- SymbolsUsed
  Numbers <- Numerals
  Timestamps <- Times
  Hashes <- Hash
  RandomId <- Negative
  Name <- Strings
  Streams <- DeletedStreams
INVARIANT DeletedTextsMarked
