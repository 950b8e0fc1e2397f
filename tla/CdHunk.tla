--------------------------------- MODULE CdHunk ---------------------------------
(****************************************************************************)
(* Decoding a hunk of a CD image.  The hunk is frames of a sector and its   *)
(* subcode; the file holds all the sectors in one stream and all the        *)
(* subcode in another, so that after the two are decoded the frames have to *)
(* be put together.  cd_codec_decompress (cdzl, cdlz, cdzs) can also leave  *)
(* out what a sector's parity can restore; cdfl_codec_decompress takes its  *)
(* sectors from FLAC.                                                       *)
(*                                                                          *)
(* Each has two builds.  With CHDR_CD_SCRATCH_BUFFER the streams are        *)
(* decoded into a hunk-sized scratch and copied frame by frame.  Without,   *)
(* the sectors are decoded into the caller's hunk, packed at its front, and *)
(* spread in place from the last frame to the first.                        *)
(****************************************************************************)
EXTENDS Ecc

CONSTANTS
  CD_MAX_SUBCODE_DATA,  \* 96: bytes of subcode to a frame
  BigHunk,              \* 65536: a hunk from here on has lengths of three bytes
  FrameCounts,          \* frames to a hunk, chosen when the file is opened
  Complens,             \* compressed lengths of a hunk
  Bases,                \* lengths its header gives for the sector stream
  Flags(_),             \* sets of frames whose parity was left out, of n frames
  HunkLimit             \* hunks decoded, one after the other

ASSUME CdHunkAssumption ==
  /\ CD_MAX_SUBCODE_DATA \in Nat \ {0} /\ BigHunk \in Nat /\ HunkLimit \in Nat
  /\ FrameCounts \subseteq 1 .. 8     \* one byte of flags is enough
  /\ Complens \subseteq Nat /\ Complens # {} /\ Bases \subseteq Nat
  /\ \A n \in FrameCounts : Flags(n) \subseteq SUBSET (0 .. n - 1)

VARIABLES
  inplace,   \* which build: spread in place, or copy from a scratch
  frames,    \* frames of a hunk of this file
  cdhunk,      \* the hunk being decoded
  serial,    \* which hunk that is, counted from 1
  cdphase,     \* what is done next
  framenum,  \* the frame that is put together next, or decoded from FLAC next
  dest,      \* the caller's buffer
  scratch,   \* the codec's buffer, kept from hunk to hunk
  partial,   \* the frames whose samples FLAC did not all deliver
  sources,   \* where the two decoders were told to read: first byte and length
  cdresult     \* what the caller is told

cdvars == <<inplace, frames, cdhunk, serial, cdphase, framenum, dest, scratch, partial,
          sources, cdresult>>

CD_FRAME_SIZE == CD_MAX_SECTOR_DATA + CD_MAX_SUBCODE_DATA
destlen == frames * CD_FRAME_SIZE

\* The sizes the codecs' init functions give the scratch.
ScratchSize ==
  IF inplace THEN frames * CD_MAX_SUBCODE_DATA + CD_MAX_SECTOR_DATA ELSE destlen

\* A hunk: which codec, its lengths, the sectors whose parity was left out,
\* whether its sectors are of mode 2.
CdHunks == [codec : {"cd"}, complen : Complens, base : Bases,
          flagged : Flags(frames), mode : {1, 2}]
         \cup [codec : {"cdfl"}, complen : Complens, base : {0}, flagged : {{}}, mode : {1}]

-----------------------------------------------------------------------------
(* What the streams hold: the bytes of every position of every hunk differ  *)
(* from those of the positions around it and of the hunk before.            *)
SectorByte(f, i) ==
  IF i = MODE_OFFSET THEN Bits(cdhunk.mode)
  ELSE Bits((101 * serial + 53 * f + 7 * i + 3) % 256)
SubcodeByte(f, i) == Bits((29 * serial + 31 * f + 5 * i + 200) % 256)
s_cd_sync_header(i) == IF i \in {0, SYNC_NUM_BYTES - 1} THEN {} ELSE 0 .. 7

Packed == [i \in 0 .. frames * CD_MAX_SECTOR_DATA - 1 |->
             SectorByte(i \div CD_MAX_SECTOR_DATA, i % CD_MAX_SECTOR_DATA)]
PackedSubcode == [i \in 0 .. frames * CD_MAX_SUBCODE_DATA - 1 |->
             SubcodeByte(i \div CD_MAX_SUBCODE_DATA, i % CD_MAX_SUBCODE_DATA)]

\* memcpy: n bytes from one buffer to another.  A buffer that grows was
\* written outside.
CopiedSpan(to, at, from, first, n) ==
  [i \in DOMAIN to \cup (at .. at + n - 1) |->
     IF i \in at .. at + n - 1 THEN from[first + i - at] ELSE to[i]]

\* A buffer decoded into, when the decoder gave up.
CdJunk == {8}

-----------------------------------------------------------------------------
(* The header of a hunk of the cd codecs: flags, then the length of the     *)
(* sector stream.                                                           *)
complen_bytes == IF destlen < BigHunk THEN 2 ELSE 3
ecc_bytes     == (frames + 7) \div 8
header_bytes  == ecc_bytes + complen_bytes

TooShort(h) ==
  \/ h.complen < ecc_bytes + 2
  \/ complen_bytes > 2 /\ h.complen < ecc_bytes + 3
  \/ h.complen < header_bytes + h.base

NextHunk(h) ==
  /\ cdphase = "idle" /\ serial < HunkLimit
  /\ serial' = serial + 1
  /\ cdhunk' = h /\ partial' = {} /\ cdresult' = "none"

StartCd ==
  \E h \in CdHunks :
    /\ h.codec = "cd" /\ ~TooShort(h)
    /\ NextHunk(h)
    /\ sources' = << <<header_bytes, h.base>>,
                     <<header_bytes + h.base, h.complen - h.base - header_bytes>> >>
    /\ cdphase' = "sectors"
    /\ UNCHANGED <<inplace, frames, framenum, dest, scratch>>

Answer(err) == cdresult' = err /\ cdphase' = "idle"

RefuseCd ==
  \E h \in CdHunks :
    /\ h.codec = "cd" /\ TooShort(h)
    /\ cdphase = "idle" /\ serial < HunkLimit
    /\ serial' = serial + 1 /\ cdhunk' = h /\ partial' = {} /\ sources' = <<>>
    /\ Answer("DECOMPRESSION_ERROR")
    /\ UNCHANGED <<inplace, frames, framenum, dest, scratch>>

-----------------------------------------------------------------------------
(* The decoders, which are libraries: they fill the buffer they are given,  *)
(* or report an error and leave anything in it.                             *)
Sectors(bytes) ==
  IF inplace
  THEN dest' = CopiedSpan(dest, 0, bytes, 0, frames * CD_MAX_SECTOR_DATA) /\ UNCHANGED scratch
  ELSE scratch' = CopiedSpan(scratch, 0, bytes, 0, frames * CD_MAX_SECTOR_DATA) /\ UNCHANGED dest

DecodeSectors ==
  /\ cdphase = "sectors" /\ cdhunk.codec = "cd"
  /\ Sectors(Packed)
  /\ cdphase' = "subcode"
  /\ UNCHANGED <<inplace, frames, cdhunk, serial, framenum, partial, sources, cdresult>>

SectorsAreBad ==
  /\ cdphase = "sectors" /\ cdhunk.codec = "cd"
  /\ Sectors([i \in DOMAIN Packed |-> CdJunk])
  /\ Answer("DECOMPRESSION_ERROR")
  /\ UNCHANGED <<inplace, frames, cdhunk, serial, framenum, partial, sources>>

\* Where the subcode waits: at the front of the small scratch, or behind the
\* sectors in the large one.
SubcodeAt == IF inplace THEN 0 ELSE frames * CD_MAX_SECTOR_DATA

DecodeSubcode ==
  /\ cdphase = "subcode"
  /\ scratch' = CopiedSpan(scratch, SubcodeAt, PackedSubcode, 0, frames * CD_MAX_SUBCODE_DATA)
  /\ cdphase' = "frames"
  /\ framenum' = IF inplace THEN frames - 1 ELSE 0
  /\ UNCHANGED <<inplace, frames, cdhunk, serial, dest, partial, sources, cdresult>>

SubcodeIsBad ==
  /\ cdphase = "subcode"
  /\ scratch' = CopiedSpan(scratch, SubcodeAt, [i \in DOMAIN PackedSubcode |-> CdJunk], 0,
                       frames * CD_MAX_SUBCODE_DATA)
  /\ Answer("DECOMPRESSION_ERROR")
  /\ UNCHANGED <<inplace, frames, cdhunk, serial, framenum, dest, partial, sources>>

-----------------------------------------------------------------------------
(* FLAC.  A reset needs memory, an odd buffer cannot take samples in place, *)
(* and the samples come a sector at a time: none is an error, some are      *)
(* enough, and the rest of the sector is whatever the buffer on the stack   *)
(* held.                                                                    *)
FlacReset ==
  \E h \in CdHunks :
    /\ h.codec = "cdfl"
    /\ NextHunk(h)
    /\ cdphase' = "samples" /\ framenum' = 0 /\ sources' = <<>>
    /\ UNCHANGED <<inplace, frames, dest, scratch>>

FlacRefused ==
  \E h \in CdHunks :
    /\ h.codec = "cdfl"
    /\ cdphase = "idle" /\ serial < HunkLimit
    /\ serial' = serial + 1 /\ cdhunk' = h /\ partial' = {} /\ sources' = <<>>
    /\ \/ Answer("OUT_OF_MEMORY")
       \/ Answer("DECOMPRESSION_ERROR")
       \/ inplace /\ Answer("INVALID_PARAMETER")
    /\ UNCHANGED <<inplace, frames, framenum, dest, scratch>>

\* One sector of samples, the last `missing` bytes of which were not decoded.
StaleByte == {0, 6}
SamplesOf(missing) ==
  [i \in 0 .. CD_MAX_SECTOR_DATA - 1 |->
     IF i >= CD_MAX_SECTOR_DATA - missing THEN StaleByte ELSE SectorByte(framenum, i)]
FlacSector ==
  \E missing \in {0, 4} :
    LET at == framenum * CD_MAX_SECTOR_DATA
    IN /\ cdphase = "samples" /\ framenum < frames
       /\ IF inplace
          THEN dest' = CopiedSpan(dest, at, SamplesOf(missing), 0, CD_MAX_SECTOR_DATA)
               /\ UNCHANGED scratch
          ELSE scratch' = CopiedSpan(scratch, at, SamplesOf(missing), 0, CD_MAX_SECTOR_DATA)
               /\ UNCHANGED dest
       /\ framenum' = framenum + 1
       /\ partial' = IF missing = 0 THEN partial ELSE partial \cup {framenum}
       /\ UNCHANGED <<inplace, frames, cdhunk, serial, cdphase, sources, cdresult>>

FlacSectorIsBad ==
  /\ cdphase = "samples" /\ framenum < frames
  /\ Answer("OUT_OF_MEMORY") \/ Answer("DECOMPRESSION_ERROR")
  /\ UNCHANGED <<inplace, frames, cdhunk, serial, framenum, dest, scratch, partial, sources>>

\* The subcode begins where FLAC stopped reading.
FlacFinish ==
  \E offset \in 0 .. cdhunk.complen :
    /\ cdphase = "samples" /\ framenum = frames
    /\ sources' = << <<0, offset>>, <<offset, cdhunk.complen - offset>> >>
    /\ cdphase' = "subcode"
    /\ UNCHANGED <<inplace, frames, cdhunk, serial, framenum, dest, scratch, partial, cdresult>>

-----------------------------------------------------------------------------
(* Putting a frame together. *)
Restored(buf, f) ==
  LET at == f * CD_FRAME_SIZE
      sector == [i \in 0 .. CD_MAX_SECTOR_DATA - 1 |->
                   IF i < SYNC_NUM_BYTES THEN s_cd_sync_header(i) ELSE buf[at + i]]
  IN IF f \in cdhunk.flagged
     THEN CopiedSpan(buf, at, ecc_generate(sector), 0, CD_MAX_SECTOR_DATA)
     ELSE buf

\* From the scratch, first frame to last.
CopyFrame ==
  LET at == framenum * CD_FRAME_SIZE
      sector == CopiedSpan(dest, at, scratch, framenum * CD_MAX_SECTOR_DATA, CD_MAX_SECTOR_DATA)
      frame == CopiedSpan(sector, at + CD_MAX_SECTOR_DATA, scratch,
                      SubcodeAt + framenum * CD_MAX_SUBCODE_DATA, CD_MAX_SUBCODE_DATA)
  IN /\ cdphase = "frames" /\ ~inplace /\ framenum < frames
     /\ dest' = Restored(frame, framenum)
     /\ framenum' = framenum + 1
     /\ UNCHANGED <<inplace, frames, cdhunk, serial, cdphase, scratch, partial, sources, cdresult>>

\* In place, last frame to first, the sector through the scratch's last
\* part.  Frame 0 is where it belongs.
Bounce == frames * CD_MAX_SUBCODE_DATA
Spread(buf, bounced, f) ==
  LET at == f * CD_FRAME_SIZE
      sector == IF f = 0 THEN buf ELSE CopiedSpan(buf, at, bounced, Bounce, CD_MAX_SECTOR_DATA)
  IN Restored(CopiedSpan(sector, at + CD_MAX_SECTOR_DATA, scratch,
                     f * CD_MAX_SUBCODE_DATA, CD_MAX_SUBCODE_DATA), f)

MoveFrame_Upwards ==
  LET f == frames - 1 - framenum
      bounced == IF f = 0 THEN scratch
                 ELSE CopiedSpan(scratch, Bounce, dest, f * CD_MAX_SECTOR_DATA, CD_MAX_SECTOR_DATA)
  IN /\ cdphase = "frames" /\ inplace /\ framenum >= 0
     /\ scratch' = bounced
     /\ dest' = Spread(dest, bounced, f)
     /\ framenum' = framenum - 1
     /\ UNCHANGED <<inplace, frames, cdhunk, serial, cdphase, partial, sources, cdresult>>
MoveFrame ==
  LET bounced == IF framenum = 0 THEN scratch
                 ELSE CopiedSpan(scratch, Bounce, dest, framenum * CD_MAX_SECTOR_DATA,
                             CD_MAX_SECTOR_DATA)
  IN /\ cdphase = "frames" /\ inplace /\ framenum >= 0
     /\ scratch' = bounced
     /\ dest' = Spread(dest, bounced, framenum)
     /\ framenum' = framenum - 1
     /\ UNCHANGED <<inplace, frames, cdhunk, serial, cdphase, partial, sources, cdresult>>

\* What the file's CRC was computed from: the hunk as it was compressed.
Content ==
  LET original == [i \in 0 .. destlen - 1 |->
                     LET f == i \div CD_FRAME_SIZE
                         o == i % CD_FRAME_SIZE
                     IN IF o < CD_MAX_SECTOR_DATA THEN SectorByte(f, o)
                        ELSE SubcodeByte(f, o - CD_MAX_SECTOR_DATA)]
      restored[f \in 0 .. frames] ==
        IF f = 0 THEN original ELSE Restored(restored[f - 1], f - 1)
  IN restored[frames]
AsSequence(buf) == [i \in 1 .. destlen |-> buf[i - 1]]

\* The hunk's CRC, over what was decoded.
CrcAgrees_Unchecked == TRUE
CrcAgrees == chd_crc16(AsSequence(dest)) = chd_crc16(AsSequence(Content))
VerifyHunk ==
  /\ cdphase = "frames" /\ (framenum = IF inplace THEN -1 ELSE frames)
  /\ IF CrcAgrees
     THEN Answer("NONE")
     ELSE Answer("DECOMPRESSION_ERROR")
  /\ UNCHANGED <<inplace, frames, cdhunk, serial, framenum, dest, scratch, partial, sources>>

-----------------------------------------------------------------------------
CdHunkInit ==
  /\ inplace \in BOOLEAN /\ frames \in FrameCounts
  /\ cdhunk = CHOOSE h \in CdHunks : h.codec = "cdfl"
  /\ serial = 0 /\ cdphase = "idle" /\ framenum = 0
  /\ dest = [i \in 0 .. destlen - 1 |-> CdJunk]
  /\ scratch = [i \in 0 .. ScratchSize - 1 |-> CdJunk]
  /\ partial = {} /\ sources = <<>> /\ cdresult = "none"

CdHunkNext ==
  \/ RefuseCd \/ StartCd
  \/ DecodeSectors \/ SectorsAreBad
  \/ FlacRefused \/ FlacReset \/ FlacSector \/ FlacSectorIsBad \/ FlacFinish
  \/ DecodeSubcode \/ SubcodeIsBad
  \/ CopyFrame \/ MoveFrame
  \/ VerifyHunk

CdHunkSpec == CdHunkInit /\ [][CdHunkNext]_cdvars

-----------------------------------------------------------------------------
(* No buffer is written outside: its domain never grows. *)
CdHunkTypeOK ==
  /\ inplace \in BOOLEAN /\ frames \in FrameCounts
  /\ cdhunk \in CdHunks /\ serial \in 0 .. HunkLimit
  /\ cdphase \in {"idle", "sectors", "samples", "subcode", "frames"}
  /\ framenum \in -1 .. frames
  /\ DOMAIN dest = 0 .. destlen - 1
  /\ DOMAIN scratch = 0 .. ScratchSize - 1
  /\ partial \subseteq 0 .. frames - 1
  /\ cdresult \in {"none", "NONE", "DECOMPRESSION_ERROR", "OUT_OF_MEMORY", "INVALID_PARAMETER"}

(* Neither decoder is told to read past the compressed bytes of the hunk,   *)
(* nor for a length that wrapped below zero, whatever lengths the hunk's    *)
(* header gives: the two streams share what follows the header exactly.     *)
SourcesStayInside ==
  sources # <<>> =>
    /\ \A k \in 1 .. 2 : sources[k][1] >= 0 /\ sources[k][2] >= 0
    /\ sources[1][1] + sources[1][2] = sources[2][1]
    /\ sources[2][1] + sources[2][2] = cdhunk.complen

(* Spreading in place never lands on a sector that still has to be moved.   *)
UnmovedSectorsStay ==
  cdphase = "frames" /\ inplace =>
    \A f \in 0 .. framenum : f \notin partial =>
      \A i \in 0 .. CD_MAX_SECTOR_DATA - 1 :
        dest[f * CD_MAX_SECTOR_DATA + i] = SectorByte(f, i)

(* The frames put together so far have every byte that was compressed at    *)
(* its place, in either build; of what FLAC delivered short only the        *)
(* subcode. The sync header and nothing else but parity was restored.       *)
FrameIsWhole(f) ==
  \A o \in 0 .. CD_MAX_SECTOR_DATA - 1 :
    LET byte == dest[f * CD_FRAME_SIZE + o]
    IN IF f \notin cdhunk.flagged THEN byte = SectorByte(f, o)
       ELSE IF o < SYNC_NUM_BYTES THEN byte = s_cd_sync_header(o)
       ELSE o >= ECC_P_OFFSET \/ byte = SectorByte(f, o)
SubcodeIsThere(f) ==
  \A o \in 0 .. CD_MAX_SUBCODE_DATA - 1 :
    dest[f * CD_FRAME_SIZE + CD_MAX_SECTOR_DATA + o] = SubcodeByte(f, o)
FramesAssembled == IF inplace THEN framenum + 1 .. frames - 1 ELSE 0 .. framenum - 1
FramesArePutTogether ==
  cdphase = "frames" =>
    \A f \in FramesAssembled : SubcodeIsThere(f) /\ (f \in partial \/ FrameIsWhole(f))

(* A hunk that passed its CRC is whole, though FLAC may have delivered a    *)
(* sector short.  Other stale bytes could have the CRC of the content: this *)
(* is of the contents of the run.                                           *)
CdDone == cdphase = "idle" /\ cdresult = "NONE"
VerifiedHunkIsTheContent ==
  CdDone => \A f \in 0 .. frames - 1 : SubcodeIsThere(f) /\ FrameIsWhole(f)

(* Every sector whose parity was left out and restored has the parity that  *)
(* ecc_verify computes row by row, four rows to a word or not.              *)
SectorOf(f) == [i \in 0 .. CD_MAX_SECTOR_DATA - 1 |-> dest[f * CD_FRAME_SIZE + i]]
RestoredParityVerifies == CdDone => \A f \in cdhunk.flagged : ecc_verify(SectorOf(f))

(* ... and ecc_verify sees a change of any of its bytes, except for those   *)
(* of the header that a sector of mode 2 does not count.                    *)
Changes == {{0}, {7}, {0, 1}}
ChangesAreSeen ==
  CdDone /\ serial = 1 /\ cdhunk.flagged = {frames - 1} =>
    \A i \in SYNC_NUM_BYTES .. CD_MAX_SECTOR_DATA - 1, d \in Changes :
      LET changed == [SectorOf(frames - 1) EXCEPT ![i] = Xor(@, d)]
      IN (cdhunk.mode = 2 /\ i < MODE_OFFSET) \/ ~ecc_verify(changed)

(* The CRC four bytes at a time is the CRC bit by bit, and may be computed  *)
(* in two parts split anywhere, as the low-RAM map's check does.            *)
CrcIsTheRegisters ==
  CdDone /\ serial = 1 /\ cdhunk.codec = "cd" =>
    LET s == SubSeq(AsSequence(dest), 1, 5)
    IN \A n \in 0 .. 5 : \E first \in {crc16_update(0 .. 15, SubSeq(s, 1, n))} :
         /\ first = Crc16(0 .. 15, SubSeq(s, 1, n))
         /\ crc16_update(first, SubSeq(s, n + 1, 5)) = Crc16(0 .. 15, s)

(* A CD hunk is put together from what is inside the compressed bytes,     *)
(* nothing lands on what is still needed, and every byte that was there    *)
(* comes to its place.                                                     *)
HunkIsRebuilt ==
  CdHunkTypeOK /\ SourcesStayInside /\ UnmovedSectorsStay /\ FramesArePutTogether

(* The arithmetic on four bytes at a time is that on one, and the parity   *)
(* sees a change.                                                          *)
ParityAndCrcAreExact == RestoredParityVerifies /\ ChangesAreSeen /\ CrcIsTheRegisters
=============================================================================
