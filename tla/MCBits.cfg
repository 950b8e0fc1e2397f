SPECIFICATION BitsSpec
CONSTANTS
  \* BitReader: bytes of two bits, eight bits to the buffer.
  ByteBits = 2
  WordBits = 8
  Tapes <- MCTapes
  Widths = {1, 2, 3, 4, 5, 6, 7, 8}
  Horizon = 16
  \* HuffmanImport: codes of up to three bits, two of them looked up at once.
  L1BitsWanted = 2
  MaxSubtables = 4
  NumCodes = 6
  MaxBits = 3
  RleFields = {0, 1, 2, 3, 4}
  SmallCodes = 3
  SmallBits = 2
  Imports = {"rle", "huffman"}
INVARIANTS
  BitReaderIsExact
  TreesAreReadWhole
  WindowsDecodeToTheirCode
PROPERTIES
  ReadsTheBits
