------------------------------ MODULE FlacFrames ------------------------------
(***************************************************************************)
(* What dr_flac makes of the frames of a stream: which headers it takes,   *)
(* which it passes over in its search for a sync code, which end the       *)
(* search, and which samples a frame that is taken writes.                 *)
(*                                                                         *)
(* A frame is a record of the fields in the stream, from a sync code on:   *)
(*   reserved, reserved2, size, extra, rate, assignment, bps, number,      *)
(*   crc8    the header; number is "good", "bad" or "cut", extra is what   *)
(*           sizes 6 and 7 are followed by, crc8 whether it matches        *)
(*   subs    the subframes, [type, wasted, precision, shift, method,       *)
(*           partition, cut]; cut: the stream ends inside                  *)
(*   crc16   "good", "bad", or "cut" when the stream ends before it        *)
(***************************************************************************)
EXTENDS Integers, Sequences

CONSTANT ChecksCrc    \* DR_FLAC_NO_CRC is not defined: VERIFY_BLOCK_CRC is 0

ASSUME ChecksCrcAssumption == ChecksCrc \in BOOLEAN

BitsOfStream == 16     \* what the generated STREAMINFO says

\* The widths of the fields; type has the first bit of the subframe as well, the wasted bits
\* are counted in unary, and extra has 8 or 16 bits.
CodedSubframes ==
  [type : 0 .. 127, wasted : Nat, precision : 0 .. 15, shift : -16 .. 15, method : 0 .. 3,
   partition : 0 .. 15, cut : BOOLEAN]
CodedFrames ==
  [reserved : 0 .. 1, reserved2 : 0 .. 1, size : 0 .. 15, extra : Nat, rate : 0 .. 15,
   assignment : 0 .. 15, bps : 0 .. 7, number : {"good", "bad", "cut"}, crc8 : BOOLEAN,
   subs : Seq(CodedSubframes), crc16 : {"good", "bad", "cut"}]

BlockSize(f) ==
  CASE f.size = 1          -> 192
    [] f.size \in 2 .. 5   -> 576 * 2 ^ (f.size - 2)
    [] f.size \in {6, 7}   -> f.extra + 1
    [] OTHER               -> 256 * 2 ^ (f.size - 8)

BitsOf(f) == CASE f.bps = 1 -> 8 [] f.bps = 2 -> 12 [] f.bps = 5 -> 20 [] f.bps = 6 -> 24
               [] OTHER -> 16

(* drflac__read_next_flac_frame_header from one sync code on, in the order *)
(* of its checks.                                                          *)
HeaderVerdict(f) ==
  CASE f.reserved = 1 \/ f.size = 0 \/ f.assignment > 10 \/ f.bps \in {3, 7} \/ f.reserved2 = 1
                                         -> "search"
    [] f.number = "bad"                  -> "search"
    [] f.number = "cut"                  -> "end"
    [] f.size = 7 /\ f.extra = 65535     -> "end"
    [] f.rate = 15                       -> "search"
    [] BitsOf(f) # BitsOfStream          -> "end"
    [] ChecksCrc /\ ~f.crc8              -> "search"
    [] OTHER                             -> "take"

ChannelsOf(f) == IF f.assignment > 7 THEN 2 ELSE f.assignment + 1

-----------------------------------------------------------------------------
\* Subframes: drflac__read_subframe_header and drflac__decode_subframe.
Kind(sub) ==
  CASE sub.type = 0                                             -> "constant"
    [] sub.type = 1                                             -> "verbatim"
    [] sub.type >= 32                                           -> "lpc"
    [] (sub.type \div 8) % 2 = 1 /\ sub.type % 8 <= 4           -> "fixed"
    [] OTHER                                                    -> "reserved"

Order(sub) == CASE Kind(sub) = "lpc"   -> (sub.type % 32) + 1
                [] Kind(sub) = "fixed" -> sub.type % 8
                [] OTHER               -> 0

\* The side channel has a bit more.
SideChannel(f, c) == (f.assignment \in {8, 10} /\ c = 1) \/ (f.assignment = 9 /\ c = 0)
BitsOfChannel(f, c) == BitsOfStream + (IF SideChannel(f, c) THEN 1 ELSE 0)

PredictorIsBad(sub) == Kind(sub) = "lpc" /\ (sub.precision = 15 \/ sub.shift < 0)

ResidualIsBad(sub, size) ==
  /\ Kind(sub) \in {"fixed", "lpc"}
  /\ sub.method > 1 \/ sub.partition > 8 \/ size \div 2 ^ sub.partition < Order(sub)

\* "First bit should always be 0."
FirstBitIsSet(sub) == sub.type >= 64

\* wastedBitsPerSample is a uint8.
WastedBits(sub) == sub.wasted % 256

SubframeIsBad(f, c) ==
  LET sub == f.subs[c + 1]
  IN  \/ FirstBitIsSet(sub)
      \/ Kind(sub) = "reserved"
      \/ WastedBits(sub) >= BitsOfChannel(f, c)
      \/ BlockSize(f) < Order(sub)
      \/ PredictorIsBad(sub)
      \/ ResidualIsBad(sub, BlockSize(f))
      \/ sub.cut

\* Samples of the k-th partition; the first one also has the warm-up samples.
SamplesInPartition_AllWhole(sub, size, k) == size \div 2 ^ sub.partition
SamplesInPartition(sub, size, k) ==
  IF k = 0 THEN size \div 2 ^ sub.partition - Order(sub) ELSE size \div 2 ^ sub.partition

(* How many samples a subframe writes, from the first one on: a predicted  *)
(* one its partitions, which are all of the same size and need not make up *)
(* the frame.                                                              *)
Written(sub, size) ==
  IF Kind(sub) \in {"constant", "verbatim"} THEN size
  ELSE LET upto[k \in 0 .. 2 ^ sub.partition] ==
             IF k = 0 THEN Order(sub) ELSE upto[k - 1] + SamplesInPartition(sub, size, k - 1)
       IN  upto[2 ^ sub.partition]

(* drflac__decode_flac_frame: the subframes up to a bad one are decoded.   *)
FrameIsRefused(f, maxblock, channels) == BlockSize(f) > maxblock \/ ChannelsOf(f) # channels

DecodedChannels(f) ==
  {c \in 0 .. ChannelsOf(f) - 1 : \A d \in 0 .. c : ~SubframeIsBad(f, d)}

FrameVerdict(f, maxblock, channels) ==
  CASE FrameIsRefused(f, maxblock, channels)                     -> "end"
    [] \E c \in 0 .. ChannelsOf(f) - 1 : SubframeIsBad(f, c)     -> "end"
    [] f.crc16 = "cut"                                           -> "end"
    [] ChecksCrc /\ f.crc16 = "bad"                              -> "search"
    [] OTHER                                                     -> "take"
================================================================================
