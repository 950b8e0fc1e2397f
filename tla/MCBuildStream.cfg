\* Blobs of up to twelve bytes through a chunk of five, two bytes of margin:
\* every blob longer than a chunk is refilled at least once, at every bit,
\* and every blob is read up to twelve bits past its end.
SPECIFICATION Spec
CONSTANTS
  Chunk = 5
  Margin = 2
  MaxField = 8
  MaxTree = 20
  MaxBytes = 12
  MaxPast = 12
INVARIANT BitsAreTheBlobs
PROPERTIES NoBitSkippedOrRepeated
