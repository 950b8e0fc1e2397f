SPECIFICATION PlaySpec
\* The caller may stop after its last pass.
CHECK_DEADLOCK FALSE
CONSTANTS
  U64 = 12
  FileSize = 7
  File <- MCFile
  Byte <- MCBytes
  Junk <- MCJunk
  HunkBytes = 3
  LowRam = FALSE
  Budgets = {0, 3, 4, 6}
  Compressed <- MCNone
  Uncompressed <- MCNone
  Raw <- MCNone
  MaxCalls = 9
  MaxPasses = 2
  Layouts <- MCLayouts
INVARIANTS
  EachByteFetchedOnce
