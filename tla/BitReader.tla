------------------------------- MODULE BitReader -------------------------------
(***************************************************************************)
(* A bitstream in use: fields of any width are read, the stream is flushed *)
(* to a byte and put back to positions noted earlier, as the decoder of    *)
(* the v5 map and the AVHuff codec do.  It implements BitSource.           *)
(***************************************************************************)
EXTENDS Bitstream

CONSTANTS
  Tapes,      \* the byte strings read
  Widths,     \* the field widths
  Horizon     \* no position beyond this one, in bits

ASSUME ReaderAssumption ==
  /\ Widths \subseteq 1 .. WordBits /\ Horizon \in Nat
  /\ \A t \in Tapes : Length(t) \in Nat /\ t \in [0 .. Length(t) - 1 -> 0 .. TwoTo(ByteBits) - 1]

VARIABLES
  tape,    \* the bytes, bitstream.read
  bs,      \* the bitstream
  asked,   \* the width of the last field, 0 after any other operation
  results  \* what bitstream_read returned, or the position sought

readervars == <<tape, bs, asked, results>>

Position == bitstream_position_bits(bs)

ReadField(n) ==
  /\ Position + n <= Horizon
  /\ results' = bitstream_peek(bs, tape, n)
  /\ bs' = bitstream_read(bs, tape, n)
  /\ asked' = n
  /\ UNCHANGED tape

SeekTo(p) ==
  /\ bs' = bitstream_seek_bits(bs, tape, p)
  /\ asked' = 0 /\ results' = p
  /\ UNCHANGED tape

Flush ==
  /\ bs' = bitstream_flush(bs)
  /\ asked' = 0 /\ results' = 0
  /\ UNCHANGED tape

BitReaderInit == tape \in Tapes /\ bs = create_bitstream /\ asked = 0 /\ results = 0

BitReaderNext ==
  \/ \E n \in Widths : ReadField(n)
  \/ \E p \in 0 .. Horizon : SeekTo(p)
  \/ Flush

BitReaderSpec == BitReaderInit /\ [][BitReaderNext]_readervars

-----------------------------------------------------------------------------
(* The unused part of the accumulator is zero, which is what lets bytes be *)
(* or-ed in.  bits is negative only after a field that was wider than what *)
(* was loaded.                                                             *)
BitstreamTypeOK ==
  /\ tape \in Tapes
  /\ bs.buffer \in 0 .. TwoTo(WordBits) - 1
  /\ bs.bits \in -ByteBits + 1 .. WordBits
  /\ bs.bits < 0 => asked > Guaranteed
  /\ bs.buffer % TwoTo(WordBits - (IF bs.bits < 0 THEN 0 ELSE bs.bits)) = 0
  /\ bs.doffset \in Nat
  /\ results \in 0 .. (IF asked = 0 THEN Horizon ELSE TwoTo(asked) - 1)

(* bitstream_overflow, the only check that a tree or a hunk was not        *)
(* decoded from bits that are not there, is exact: it holds as soon as one *)
(* bit past the end was used.  It may be silent for less than a byte right *)
(* after a field wider than the accumulator guarantees.                    *)
OverflowIsExact ==
  LET past == Position - ByteBits * Length(tape)
  IN  /\ bitstream_overflow(bs, tape) => past > 0
      /\ past > 0 => \/ bitstream_overflow(bs, tape)
                     \/ bs.bits < 0 /\ past < ByteBits

(* The reader is a source of bits: whatever is read, flushed and sought, a *)
(* field has the bits of the string at its position, and resuming at a     *)
(* noted position goes on as if the reader had never been elsewhere.       *)
Source == INSTANCE BitSource WITH pos <- Position, out <- results
ReadsTheBits == Source!Spec

(* The reader is within its accumulator, and knows whether it is past the  *)
(* end.                                                                    *)
BitReaderIsExact == BitstreamTypeOK /\ OverflowIsExact
================================================================================
