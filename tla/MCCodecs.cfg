SPECIFICATION CodecsSpec
CONSTANTS
  \* CdHunk
  SYNC_NUM_BYTES = 3
  ECC_P_NUM_BYTES = 6
  ECC_P_COMP = 2
  CD_MAX_SUBCODE_DATA = 2
  BigHunk = 100
  FrameCounts = {1, 3}
  Complens = {2, 4}
  Bases = {1, 2}
  Flags <- MCFlags
  HunkLimit = 2
  \* AvHuff
  ByteValues = 2
  FirstRun = 2
  Symbols = {1, 4}
  AvHunks <- MCAvHunks
  \* FlacReader: bytes of two bits, two to a cache line, two lines to the buffer.
  ByteBits = 2
  LineBytes = 2
  LineCount = 2
  HeaderBytes = 1
  SyncLowBits = 1
  SyncLow = 0
  CrcBytes = 1
  Streams <- MCStreams
  Widths = {1, 3, 4}
  Params = {0, 2}
  \* FlacStream
  ChecksCrc = TRUE
  Hunks <- MCFlacHunks
  BufferSamples = 6
  VectorSamples = 2
  \* FlacPredict and FlacStereo: words of eight bits.
  WordBits = 8
  Subframes <- MCSubframes
  StereoWordBits = 8
  Pairs <- MCPairs
  \* Microflac
  MicroHunks <- MCMicroHunks
  MicroHeader = 2
INVARIANTS
  HunkIsRebuilt
  ParityAndCrcAreExact
  VerifiedHunkIsTheContent
  HunkIsItsStreams
  FramesAreDecoded
  KeptBlockIsSound
  ArithmeticIsExact
  MicroHunkIsDecoded
PROPERTIES
  FlacReadsTheBits
  HunksEnd
\* The runs over CD frames, samples and pairs end.
CHECK_DEADLOCK FALSE
