CONSTANTS
  MAX = 4
  b1 = b1
  b2 = b2
  b3 = b3
  NULL = NULL
  Blocks <- MCBlocks
  Entries <- MCEntries
SPECIFICATION Spec
INVARIANTS Shape FindsConcatenation
PROPERTIES ImplementsLog
