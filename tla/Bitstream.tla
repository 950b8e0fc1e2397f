------------------------------- MODULE Bitstream -------------------------------
(***************************************************************************)
(* The bit reader every tree, map and Huffman-coded hunk is decoded with   *)
(* (libchdr_bitstream.c): an accumulator of WordBits bits, filled from the *)
(* top one byte at a time, in front of a byte string.  A bitstream is a    *)
(* record; the byte string is a function from 0 .. length - 1 and is       *)
(* passed along.  In the code a byte has 8 bits and the accumulator 32.    *)
(***************************************************************************)
EXTENDS Integers, FiniteSets

CONSTANTS
  ByteBits,    \* 8
  WordBits     \* 32

ASSUME BitstreamAssumption ==
  /\ ByteBits \in Nat \ {0}
  /\ WordBits \in Nat /\ WordBits >= 2 * ByteBits

\* An accumulator that is filled holds at least this many bits: 25.
Guaranteed == WordBits - ByteBits + 1

\* 1 << n
TwoTo(n) ==
  LET power[i \in 0 .. n] == IF i = 0 THEN 1 ELSE 2 * power[i - 1]
  IN  power[n]

Length(data) == Cardinality(DOMAIN data)

create_bitstream == [buffer |-> 0, bits |-> 0, doffset |-> 0]

(* What the byte at doffset + i adds to the accumulator: its bits end up   *)
(* below those that are there, which are followed by zeros, so |= is a sum.*)
(* Past the end nothing is added, and neither is what is shifted out.      *)
Loaded(bs, data, i) ==
  LET at    == bs.doffset + i
      shift == WordBits - ByteBits - (bs.bits + i * ByteBits)
  IN  IF at < Length(data) /\ shift < WordBits
        THEN (data[at] * TwoTo(shift)) % TwoTo(WordBits)
        ELSE 0

(* The loop of bitstream_peek: whole bytes while there is room for one.    *)
LoadsOf(bs) == (WordBits - ByteBits - bs.bits) \div ByteBits + 1

BufferAfter(bs, data, loads) ==
  LET buffer[i \in 0 .. loads] == IF i = 0 THEN bs.buffer ELSE buffer[i - 1] + Loaded(bs, data, i - 1)
  IN  buffer[loads]

Filled(bs, data, numbits) ==
  IF numbits = 0 \/ numbits <= bs.bits \/ bs.bits > WordBits - ByteBits
    THEN bs
    ELSE [buffer  |-> BufferAfter(bs, data, LoadsOf(bs)),
          bits    |-> bs.bits + LoadsOf(bs) * ByteBits,
          doffset |-> bs.doffset + LoadsOf(bs)]

bitstream_peek(bs, data, numbits) ==
  IF numbits = 0 THEN 0
  ELSE Filled(bs, data, numbits).buffer \div TwoTo(WordBits - numbits)

bitstream_remove(bs, numbits) ==
  [bs EXCEPT !.buffer = IF numbits >= WordBits THEN 0 ELSE (@ * TwoTo(numbits)) % TwoTo(WordBits),
             !.bits = @ - numbits]

\* The bitstream after bitstream_read; what it returns is bitstream_peek.
bitstream_read(bs, data, numbits) == bitstream_remove(Filled(bs, data, numbits), numbits)

bitstream_position_bits(bs) == bs.doffset * ByteBits - bs.bits

bitstream_seek_bits_NoSkip(bs, data, bitpos) ==
  [buffer |-> 0, bits |-> 0, doffset |-> bitpos \div ByteBits]
bitstream_seek_bits(bs, data, bitpos) ==
  LET aligned == [buffer |-> 0, bits |-> 0, doffset |-> bitpos \div ByteBits]
  IN  IF bitpos % ByteBits = 0 THEN aligned
      ELSE bitstream_read(aligned, data, bitpos % ByteBits)

\* Whole bytes that were loaded and not used; none when bits is negative.
UnreadBytes(bs) == IF bs.bits >= ByteBits THEN bs.bits \div ByteBits ELSE 0

bitstream_read_offset(bs) == bs.doffset - UnreadBytes(bs)

\* Returns the new doffset.
bitstream_flush(bs) == [buffer |-> 0, bits |-> 0, doffset |-> bitstream_read_offset(bs)]

(* C division rounds towards zero.                                         *)
bitstream_overflow_RoundsDown(bs, data) ==
  bs.doffset - (bs.bits \div ByteBits) - 1 > Length(data)
bitstream_overflow(bs, data) ==
  LET whole == IF bs.bits >= 0 THEN bs.bits \div ByteBits ELSE -((-bs.bits) \div ByteBits)
  IN  bs.doffset - whole > Length(data)
================================================================================
