------------------------------- MODULE FlacBits -------------------------------
(***************************************************************************)
(* The bit reader of dr_flac (drflac_bs) over the read callback of         *)
(* libchdr_flac.c.  Bits come from a cache of one line (L1), lines from a  *)
(* buffer of LineCount lines (L2), and the buffer from the callback; bytes *)
(* at the end of the stream that do not fill a line are set aside and used *)
(* last.  The bytes that go into the CRC of a frame are collected on the   *)
(* way (DR_FLAC_NO_CRC not defined).                                       *)
(*                                                                         *)
(* A reader is a record with the members of drflac_bs, the callback's      *)
(* compressed_offset, and the bytes fed to the CRC in place of the CRC.    *)
(* An operation returns [bs, ok, out]: the reader, the C result and what   *)
(* was read.  In the code a byte has 8 bits, a line 4 or 8 bytes, and the  *)
(* buffer 4096 bytes.                                                      *)
(***************************************************************************)
EXTENDS Integers, Sequences, FiniteSetsExt

CONSTANTS
  ByteBits,      \* 8
  LineBytes,     \* sizeof(drflac_cache_t)
  LineCount,     \* DRFLAC_CACHE_L2_LINE_COUNT
  HeaderBytes,   \* 0x2a, the generated header in front of the hunk
  SyncLowBits,   \* 6
  SyncLow,       \* 0x3E
  CrcBytes       \* 2

ASSUME FlacBitsAssumption ==
  /\ {ByteBits, LineBytes, LineCount, HeaderBytes, CrcBytes} \subseteq Nat \ {0}
  /\ SyncLowBits \in 1 .. ByteBits - 1
  /\ SyncLow \in 0 .. 2 ^ SyncLowBits - 1

LineBits == LineBytes * ByteBits
BufferBytes == LineCount * LineBytes

Length(data) == Cardinality(DOMAIN data)
Smaller(a, b) == IF a < b THEN a ELSE b

\* A line of the buffer as a number, first byte highest.
Line(buffer, i) ==
  MapThenSumSet(LAMBDA k : buffer[i * LineBytes + k] * 2 ^ (ByteBits * (LineBytes - 1 - k)),
                0 .. LineBytes - 1)

\* The low count bytes of a word, the highest first.
LowBytes(word, count) ==
  [i \in 1 .. count |-> (word \div 2 ^ (ByteBits * (count - i))) % 2 ^ ByteBits]

Remaining(bs) == LineBits - bs.consumedBits
Top(bs, n) == bs.cache \div 2 ^ (LineBits - n)
Dropped(bs, n) == [bs EXCEPT !.cache = (@ * 2 ^ n) % 2 ^ LineBits, !.consumedBits = @ + n]

Fails(bs) == [bs |-> bs, ok |-> FALSE, out |-> <<>>]
Gives(bs, out) == [bs |-> bs, ok |-> TRUE, out |-> out]

-----------------------------------------------------------------------------
(* flac_decoder_read_callback: the generated header, then the hunk.  The   *)
(* header's bytes are never read through the bit reader; any value does.   *)
Copied(offset, data, bytes) ==
  LET first == IF offset < HeaderBytes THEN Smaller(bytes, HeaderBytes - offset) ELSE 0
      rest  == HeaderBytes + Length(data) - (offset + first)
  IN  first + (IF first < bytes /\ rest > 0 THEN Smaller(bytes - first, rest) ELSE 0)

StreamByte(p, data) == IF p < HeaderBytes THEN 0 ELSE data[p - HeaderBytes]

(* drflac__reset_cache, after the open read the header through the same    *)
(* callback.                                                               *)
reset_cache(data) ==
  [cache |-> 0, consumedBits |-> LineBits,
   cacheL2 |-> [k \in 0 .. BufferBytes - 1 |-> 0], nextL2Line |-> LineCount,
   unalignedByteCount |-> 0, unalignedCache |-> 0,
   crc16 |-> <<>>, crc16Cache |-> 0, crc16CacheIgnoredBytes |-> 0,
   offset |-> Copied(0, data, HeaderBytes)]

-----------------------------------------------------------------------------
\* The CRC.
reset_crc16(bs) ==
  [bs EXCEPT !.crc16 = <<>>, !.crc16CacheIgnoredBytes = bs.consumedBits \div ByteBits]

update_crc16(bs) ==
  [bs EXCEPT !.crc16 = @ \o LowBytes(bs.crc16Cache, LineBytes - bs.crc16CacheIgnoredBytes),
             !.crc16CacheIgnoredBytes = 0]

flush_crc16(bs) ==
  IF Remaining(bs) = 0 THEN update_crc16(bs)
  ELSE LET used == bs.consumedBits \div ByteBits
       IN  [bs EXCEPT !.crc16 = @ \o LowBytes(bs.crc16Cache \div 2 ^ Remaining(bs),
                                              used - bs.crc16CacheIgnoredBytes),
                      !.crc16CacheIgnoredBytes = used]

-----------------------------------------------------------------------------
NextLine(bs) ==
  [bs EXCEPT !.cache = Line(bs.cacheL2, bs.nextL2Line), !.nextL2Line = @ + 1]

\* onRead into the whole of the buffer.
Refilled(bs, data) ==
  LET got == Copied(bs.offset, data, BufferBytes)
  IN  [bs EXCEPT !.cacheL2 = [k \in 0 .. BufferBytes - 1 |->
                                IF k < got THEN StreamByte(bs.offset + k, data) ELSE @[k]],
                 !.offset = @ + got]

(* The last, partly filled buffer: its lines are moved to the end and the  *)
(* rest of the bytes is set aside.                                         *)
MovedUp(bs, got) ==
  LET lines == got \div LineBytes
      empty == LineCount - lines
      spare == got - lines * LineBytes
  IN  [bs EXCEPT !.unalignedByteCount = spare,
                 !.unalignedCache = IF spare > 0 THEN Line(bs.cacheL2, lines) ELSE @,
                 !.cacheL2 = [k \in 0 .. BufferBytes - 1 |->
                                IF k >= empty * LineBytes THEN @[k - empty * LineBytes] ELSE @[k]],
                 !.nextL2Line = empty]

reload_l1_cache_from_l2(bs, data) ==
  IF bs.nextL2Line < LineCount THEN Gives(NextLine(bs), <<>>)
  ELSE IF bs.unalignedByteCount > 0 THEN Fails(bs)
  ELSE LET got   == Copied(bs.offset, data, BufferBytes)
           moved == MovedUp(Refilled(bs, data), got)
       IN  IF got >= LineBytes THEN Gives(NextLine(moved), <<>>) ELSE Fails(moved)

(* The bytes set aside stand at the top of their word, zeros below.        *)
UnalignedLoaded(bs) ==
  LET skipped == (LineBytes - bs.unalignedByteCount) * ByteBits
      left    == bs.unalignedCache \div 2 ^ skipped
  IN  [bs EXCEPT !.cache = left * 2 ^ skipped, !.consumedBits = skipped,
                 !.unalignedByteCount = 0,
                 !.crc16Cache = left, !.crc16CacheIgnoredBytes = skipped \div ByteBits]

LineLoaded(r) ==
  IF r.ok THEN Gives([r.bs EXCEPT !.consumedBits = 0, !.crc16Cache = r.bs.cache], <<>>)
  ELSE IF r.bs.unalignedByteCount > 0 THEN Gives(UnalignedLoaded(r.bs), <<>>)
  ELSE Fails([r.bs EXCEPT !.consumedBits = LineBits])

reload_cache(bs, data) == LineLoaded(reload_l1_cache_from_l2(update_crc16(bs), data))

-----------------------------------------------------------------------------
\* hi is what the line before gave, lowbits are to come from the new one.
JoinedField(reload, hi, lowbits) ==
  IF ~reload.ok \/ lowbits > Remaining(reload.bs) THEN Fails(reload.bs)
  ELSE Gives(Dropped(reload.bs, lowbits), <<hi * 2 ^ lowbits + Top(reload.bs, lowbits)>>)

Field(r, data, n) ==
  IF ~r.ok THEN r
  ELSE IF n <= Remaining(r.bs) THEN Gives(Dropped(r.bs, n), <<Top(r.bs, n)>>)
  ELSE JoinedField(reload_cache(r.bs, data), Top(r.bs, Remaining(r.bs)), n - Remaining(r.bs))

read_uint32(bs, data, n) ==
  Field(IF Remaining(bs) = 0 THEN reload_cache(bs, data) ELSE Gives(bs, <<>>), data, n)

\* drflac__seek_bits, as it is used here: to the next byte.
Aligned(bs) == Dropped(bs, Remaining(bs) % ByteBits)

\* How many of the top bits of a word are zero.
clz(x) == IF x = 0 THEN LineBits
          ELSE CHOOSE n \in 0 .. LineBits - 1 : x \div 2 ^ (LineBits - 1 - n) = 1

RECURSIVE seek_past_next_set_bit(_, _, _)
seek_past_next_set_bit(bs, data, zeros) ==
  IF bs.cache = 0
    THEN LET r == reload_cache(bs, data)
         IN  IF r.ok THEN seek_past_next_set_bit(r.bs, data, zeros + Remaining(bs)) ELSE r
  ELSE IF bs.cache = 1
    THEN LET r == reload_cache(bs, data)
         IN  [r EXCEPT !.out = <<zeros + Remaining(bs) - 1>>]
  ELSE IF clz(bs.cache) + 1 > Remaining(bs) THEN Fails(bs)
  ELSE Gives(Dropped(bs, clz(bs.cache) + 1), <<zeros + clz(bs.cache)>>)

(* drflac__read_rice_parts_x1, which works on copies of the cache and      *)
(* takes the next line itself when there is one.  The second value is the  *)
(* set bit and the riceParam bits after it.                                *)
RiceParam(bs, data, zeros, riceParam) ==
  LET at   == Dropped(bs, clz(bs.cache))
      low  == at.consumedBits - (LineBits - (riceParam + 1))
      part == IF low <= 0 THEN Gives(Dropped(at, riceParam + 1), <<Top(at, riceParam + 1)>>)
              ELSE JoinedField(reload_cache(at, data), Top(at, riceParam + 1 - low), low)
  IN  [part EXCEPT !.out = <<zeros>> \o @]

RECURSIVE LinesOfZeros(_, _, _, _)
LinesOfZeros(bs, data, zeros, riceParam) ==
  LET r == reload_cache(bs, data)
  IN  IF ~r.ok THEN r
      ELSE IF r.bs.cache = 0 THEN LinesOfZeros(r.bs, data, zeros + LineBits, riceParam)
      ELSE RiceParam(r.bs, data, zeros + clz(r.bs.cache), riceParam)

read_rice_parts_x1(bs, data, riceParam) ==
  IF bs.cache # 0 THEN RiceParam(bs, data, clz(bs.cache), riceParam)
  ELSE LinesOfZeros(bs, data, Remaining(bs), riceParam)

-----------------------------------------------------------------------------
(* drflac__find_and_seek_to_next_sync_code, once the reader is aligned: a  *)
(* byte of ones and SyncLow.  A byte that follows ones without being that  *)
(* is passed over.                                                         *)
RECURSIVE SyncSearch(_, _)
SyncSearch(bs, data) ==
  LET hi == read_uint32(reset_crc16(bs), data, ByteBits)
      lo == read_uint32(hi.bs, data, SyncLowBits)
  IN  IF ~hi.ok THEN hi
      ELSE IF hi.out[1] # 2 ^ ByteBits - 1 THEN SyncSearch(hi.bs, data)
      ELSE IF ~lo.ok \/ lo.out[1] = SyncLow THEN lo
      ELSE SyncSearch(Aligned(lo.bs), data)

find_and_seek_to_next_sync_code(bs, data) == SyncSearch(Aligned(bs), data)

(* The end of drflac__decode_flac_frame: padding, the CRC that was         *)
(* collected, and the CRC that is stored.                                  *)
EndOfFrame(bs, data) ==
  LET flushed == flush_crc16(Aligned(bs))
      stored  == read_uint32(flushed, data, CrcBytes * ByteBits)
  IN  IF stored.ok THEN Gives(stored.bs, flushed.crc16) ELSE stored

(* flac_decoder_finish: how many bytes of the hunk were used.              *)
flac_decoder_finish_NoTail(bs) ==
  bs.offset - (LineCount - bs.nextL2Line) * LineBytes - Remaining(bs) \div ByteBits - HeaderBytes
flac_decoder_finish(bs) ==
  bs.offset - (LineCount - bs.nextL2Line) * LineBytes - Remaining(bs) \div ByteBits
    - bs.unalignedByteCount - HeaderBytes
================================================================================
