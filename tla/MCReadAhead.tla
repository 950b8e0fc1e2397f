----------------------------- MODULE MCReadAhead -----------------------------
(* A file of eight distinct bytes, hunks of three, and every extent of one *)
(* to four bytes near it, whether or not it lies in the file.  Extents at  *)
(* 10 lie far behind its end, and those longer than a byte wrap at 12.     *)
EXTENDS ReadAhead

MCFile == [p \in 0 .. (FileSize - 1) |-> p]
MCBytes == 0 .. (FileSize - 1)
MCJunk == -1

MCExtents(starts, sizes) == [offset : starts, size : sizes]
MCCompressed == MCExtents({0, 2, 3, 6}, {1, 2, 3, 4}) \cup MCExtents({10}, {1, 2, 3})
MCUncompressed == MCExtents({1, 3, 6, 10}, {HunkBytes})
MCRaw == MCExtents({3, 6}, {HunkBytes})
MCNone == {}

=============================================================================
