SPECIFICATION HandleSpec
CONSTANTS
  \* Container: counts of six bits, sizes of twelve.
  U32 = 64
  U64 = 4096
  LegacyHunkLimit = 32
  MaxHunkSize = 48
  MaxFileSize = 1024
  HeaderSizes <- MCSizes
  OldEntry = 1
  Entry = 2
  MaxEntries = 5
  Containers <- MCOneFile
  StackEntries = 2
  CDFrameSize = 5
  MaxFaults = 0
  \* OpenClose
  base1 = base1
  base2 = base2
  child = child
  grandchild = grandchild
  A = A
  B = B
  C = C
  Files = {base1, base2, child, grandchild}
  Image <- MCImage
  NoSha1 = NoSha1
  MaxHandles = 1
  \* CodecSlots: the default build only
  Builds = {FALSE}
  SlotCount = 3
  Headers <- MCHeaders
  HunkSizes = {"frames", "samples", "odd"}
  \* CodecMemory
  Sizes = {3, 4, 5}
  Grain = 4
  TableSlots = 3
  MaxBlocks = 1
  DecoderHunks = {1, 4095, 4096, 4097, 6144, 6145, 19584, 2097151, 2097152, 2097153, 3145729, 67108863, 67108864, 67108865, 134217728}
INVARIANTS CloseNeverRunsWild
CHECK_DEADLOCK FALSE
