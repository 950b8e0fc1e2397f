----------------------------- MODULE BuildStream -----------------------------
(***************************************************************************)
(* The rolling window through which build_v5_map_checkpoints() decodes the *)
(* compressed hunk map of a CHDv5 file when LOWRAM_TARGET is set           *)
(* (v5_build_stream_* of libchdr_chd.c over the bit stream of              *)
(* libchdr_bitstream.c).                                                   *)
(*                                                                         *)
(* The contents of the blob do not matter, only which of its bits a read   *)
(* delivers: a bit read inside the window is the blob's, a bit read past   *)
(* what the window holds is a zero that bitstream_peek() makes up.         *)
(*                                                                         *)
(* Each hunk is one Ensure followed by one Decode.  The fields a hunk      *)
(* takes have at most MaxField bits.  The map need not be well-formed: how *)
(* many hunks there are does not depend on the blob, so a stream may be    *)
(* made to go on past its end, and may even begin there.                   *)
(***************************************************************************)
EXTENDS Integers

CONSTANTS
  Chunk,      \* V5_BUILD_STREAM_CHUNK, in bytes
  Margin,     \* V5_BUILD_STREAM_MARGIN, in bytes
  MaxField,   \* the bits the fields of one hunk take, at most
  MaxTree,    \* the bits of the Huffman tree at the start, at most
  MaxBytes,   \* bound: the largest blob considered
  MaxPast     \* bound: how many bits past the blob are considered

ASSUME StreamAssumption ==
  /\ Margin \in Nat \ {0}
  /\ Chunk \in Nat /\ Chunk >= Margin
  /\ MaxField \in Nat /\ MaxTree \in Nat
  /\ MaxBytes \in Nat /\ MaxPast \in Nat

(* "comfortably more than one hunk's worth of pass1/pass2 fields ever      *)
(* needs": the bits of a partly consumed byte are to be had as well.       *)
(* decompress_v5_map() refuses fields of more than 32 bits, so a hunk of   *)
(* pass 2 takes at most 48; one of pass 1 takes at most three codes of 8.  *)
ASSUME FieldsFitMargin == MaxField <= 8 * (Margin - 1)

VARIABLES
  mapbytes,     \* size of the compressed blob
  window_off,   \* blob offset of buf[0]
  buf_valid,    \* bytes of the blob in buf
  at,           \* bitstream_position_bits(&s->bs): bits taken from buf
  phase,        \* what comes next for the hunk at hand
  taken         \* the bits the last Decode took: those from .. to - 1

vars == <<mapbytes, window_off, buf_valid, at, phase, taken>>

Nothing == [from |-> 0, to |-> 0]

local_byte  == at \div 8
global_byte == window_off + local_byte

(* v5_build_stream_position_bits                                           *)
position_bits == 8 * window_off + at

(* The first bit of the blob past what the window holds.                   *)
WindowEnd == 8 * (window_off + buf_valid)

-----------------------------------------------------------------------------
(* v5_build_stream_fill: how many bytes of the blob one refill brings in.  *)
Fill(off) ==
  LET remain == IF off < mapbytes THEN mapbytes - off ELSE 0
  IN  IF remain < Chunk THEN remain ELSE Chunk

(* Pass 1 begins behind the tree, which is imported without an Ensure and  *)
(* refused when it runs past the window.                                   *)
AfterTheTree ==
  /\ window_off = 0
  /\ at \in 0 .. MaxTree /\ at <= 8 * Fill(0)

(* Its mirror begins there again, and pass 2 where pass 1 ended, which may *)
(* be past the blob: v5_build_stream_init, and the bits skipped to reach a *)
(* position inside a byte.                                                 *)
AtPosition ==
  \E start \in 0 .. 8 * MaxBytes + MaxPast :
    /\ start <= 8 * mapbytes + MaxPast
    /\ window_off = start \div 8
    /\ at = start % 8

Init ==
  /\ mapbytes \in 0 .. MaxBytes
  /\ AfterTheTree \/ AtPosition
  /\ buf_valid = Fill(window_off)
  /\ phase = "ensure"
  /\ taken = Nothing

(* The three ways v5_build_stream_ensure() ends.                           *)
EnoughAhead ==
  /\ local_byte < buf_valid
  /\ buf_valid - local_byte >= Margin

NearTheEnd_LoseHalf == global_byte + 2 * Margin >= mapbytes
NearTheEnd == global_byte + Margin >= mapbytes

NoRefill ==
  /\ phase = "ensure"
  /\ EnoughAhead \/ NearTheEnd
  /\ phase' = "decode"
  /\ UNCHANGED <<mapbytes, window_off, buf_valid, at, taken>>

(* The refill starts at a byte boundary; the bits of that byte already     *)
(* taken are read again and dropped.                                       *)
Skipped_None == 0
Skipped == at % 8

Refill ==
  /\ phase = "ensure"
  /\ ~EnoughAhead
  /\ ~NearTheEnd
  /\ window_off' = global_byte
  /\ buf_valid' = Fill(global_byte)
  /\ at' = Skipped
  /\ phase' = "decode"
  /\ UNCHANGED <<mapbytes, taken>>

(* The transfer fails: the open that wanted the checkpoints fails.         *)
RefillFails ==
  /\ phase = "ensure"
  /\ ~EnoughAhead
  /\ ~NearTheEnd
  /\ phase' = "failed"
  /\ UNCHANGED <<mapbytes, window_off, buf_valid, at, taken>>

(* bitstream_overflow: more bytes were started than the window has.        *)
Overflow == (at + 7) \div 8 > buf_valid

(* The hunk at hand takes n bits, whether or not the blob has them.        *)
Take(n) ==
  /\ position_bits + n <= 8 * mapbytes + MaxPast
  /\ at' = at + n
  /\ taken' = [from |-> position_bits, to |-> position_bits + n]
  /\ phase' = "ensure"
  /\ UNCHANGED <<mapbytes, window_off, buf_valid>>

(* Pass 2 takes its fields unconditionally; so does a hunk of pass 1 that  *)
(* repeats the type of the one before, which takes no bits.                *)
DecodePass2 ==
  /\ phase = "decode"
  /\ \E n \in 0 .. MaxField : Take(n)

(* Pass 1 refuses to go on from a stream that has overflowed.              *)
DecodePass1 ==
  /\ phase = "decode"
  /\ ~Overflow
  /\ \E n \in 1 .. MaxField : Take(n)

Refuse ==
  /\ phase = "decode"
  /\ Overflow
  /\ phase' = "failed"
  /\ UNCHANGED <<mapbytes, window_off, buf_valid, at, taken>>

(* All hunks decoded, or the build given up.                               *)
Done ==
  /\ phase \in {"failed", "ensure"}
  /\ UNCHANGED vars

Next ==
  \/ NoRefill \/ Refill \/ RefillFails
  \/ DecodePass1 \/ DecodePass2 \/ Refuse
  \/ Done

Spec == Init /\ [][Next]_vars

-----------------------------------------------------------------------------
(* Properties.                                                             *)

(* The window never leaves the blob, wherever the position goes: that is   *)
(* what keeps a refill from running into the hunk data behind the map.     *)
TypeOK ==
  /\ mapbytes \in Nat
  /\ window_off \in Nat /\ buf_valid \in Nat /\ at \in Nat
  /\ phase \in {"ensure", "decode", "failed"}
  /\ taken \in [from : Nat, to : Nat]
  /\ buf_valid <= Chunk
  /\ buf_valid > 0 => window_off + buf_valid <= mapbytes

(* No bit is skipped and none is taken twice: what a hunk takes begins     *)
(* where the hunk before it ended, however often the window was refilled   *)
(* in between, also in the middle of a byte.                               *)
NoBitSkippedOrRepeated ==
  [][/\ taken' # taken => taken'.from = position_bits
     /\ taken' = taken => position_bits' = position_bits]_vars

(* The bits a hunk was given are the blob's, except for a hunk that starts *)
(* within Margin bytes of the blob's end or past it: only there may        *)
(* v5_build_stream_ensure() let a hunk run past its window, into the zeros *)
(* of bitstream_peek().                                                    *)
OnlyTheTailIsMadeUp ==
  taken.to <= WindowEnd \/ taken.from + 8 * Margin >= 8 * mapbytes

(* The window stays inside the chunk and the blob, and but for that tail   *)
(* every bit a hunk was given is the blob's.                               *)
BitsAreTheBlobs == TypeOK /\ OnlyTheTailIsMadeUp

(* What the comment on v5_build_stream_ensure() promises: before a hunk is *)
(* decoded, Margin bytes remain ahead of the position, or all that the     *)
(* blob still has.  The early return near the end of the blob forgets that *)
(* the window may end before the blob does.                                *)
MarginAhead ==
  phase = "decode" =>
    \/ buf_valid - local_byte >= Margin
    \/ window_off + buf_valid >= mapbytes
==============================================================================
