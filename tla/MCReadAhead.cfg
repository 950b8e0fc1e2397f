\* The LOWRAM_TARGET build, which has every step the default build has and the
\* growing scratch buffer besides.
SPECIFICATION Spec
CONSTANTS
  U64 = 12
  FileSize = 8
  File <- MCFile
  Byte <- MCBytes
  Junk <- MCJunk
  HunkBytes = 3
  LowRam = TRUE
  Budgets = {2, 3, 5}
  Compressed <- MCCompressed
  Uncompressed <- MCUncompressed
  Raw <- MCRaw
  MaxCalls = 3
INVARIANTS
  TypeOK
  WindowFaithful
  StatsOfThisWindow
PROPERTIES
  CachingTransparent
  ScratchHoldsTheHunk
  FailuresAreTheReadsOwn
