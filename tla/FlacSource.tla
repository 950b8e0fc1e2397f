------------------------------ MODULE FlacSource ------------------------------
(***************************************************************************)
(* What the FLAC decoder relies on: the bytes of the hunk are one string   *)
(* of bits, every field is read where the one before ended, a read fails   *)
(* when its bits are not all there, the bytes checked against the CRC of a *)
(* frame are the frame's, and what was used ends where the next codec's    *)
(* data begins.                                                            *)
(*                                                                         *)
(* One thing is weaker: a run of zeros may be refused when the one that    *)
(* ends it is the last bit of the stream.                                  *)
(***************************************************************************)
EXTENDS Integers, Sequences, FiniteSetsExt

CONSTANTS ByteBits, SyncLowBits, SyncLow, CrcBytes, Widths, Params, Streams

VARIABLES
  stream,   \* the bytes of the hunk
  pos,      \* the position, in bits; 0 when failed
  frame,    \* the byte the frame starts at, or -1 between frames
  out,      \* what the last operation read
  failed    \* a read failed

vars == <<stream, pos, frame, out, failed>>

Bits == ByteBits * Cardinality(DOMAIN stream)

Bit(p) == (stream[p \div ByteBits] \div 2 ^ (ByteBits - 1 - (p % ByteBits))) % 2

Field(p, n) == MapThenSumSet(LAMBDA i : Bit(p + i) * 2 ^ (n - 1 - i), 0 .. n - 1)

NextByte(p) == (p + ByteBits - 1) \div ByteBits

\* The first one from p on, or the end.
FirstOne(p) ==
  LET ones == {q \in p .. Bits - 1 : Bit(q) = 1}
  IN  IF ones = {} THEN Bits ELSE Min(ones)

RECURSIVE SyncFrom(_)
SyncFrom(b) ==
  IF ByteBits * (b + 1) > Bits THEN -1
  ELSE IF stream[b] # 2 ^ ByteBits - 1 THEN SyncFrom(b + 1)
  ELSE IF ByteBits * (b + 1) + SyncLowBits > Bits THEN -1
  ELSE IF Field(ByteBits * (b + 1), SyncLowBits) = SyncLow THEN b
  ELSE SyncFrom(b + 2)

MoveTo(p, value) == pos' = p /\ out' = value /\ failed' = FALSE
Fail == pos' = 0 /\ out' = <<>> /\ failed' = TRUE

FindSync ==
  /\ ~failed
  /\ LET b == SyncFrom(NextByte(pos))
     IN  IF b = -1 THEN Fail /\ frame' = -1
         ELSE MoveTo(ByteBits * (b + 1) + SyncLowBits, <<SyncLow>>) /\ frame' = b
  /\ UNCHANGED stream

Read(n) ==
  /\ ~failed /\ frame >= 0
  /\ IF pos + n <= Bits THEN MoveTo(pos + n, <<Field(pos, n)>>) ELSE Fail
  /\ UNCHANGED <<stream, frame>>

Zeros ==
  /\ ~failed /\ frame >= 0
  /\ LET one == FirstOne(pos)
     IN  \/ one < Bits /\ MoveTo(one + 1, <<one - pos>>)
         \/ one >= Bits - 1 /\ Fail
  /\ UNCHANGED <<stream, frame>>

Rice(p) ==
  /\ ~failed /\ frame >= 0
  /\ LET one == FirstOne(pos)
     IN  IF one + p < Bits THEN MoveTo(one + p + 1, <<one - pos, Field(one, p + 1)>>) ELSE Fail
  /\ UNCHANGED <<stream, frame>>

EndFrame ==
  /\ ~failed /\ frame >= 0
  /\ LET b == NextByte(pos)
     IN  IF ByteBits * (b + CrcBytes) > Bits THEN Fail
         ELSE MoveTo(ByteBits * (b + CrcBytes), [i \in 1 .. b - frame |-> stream[frame + i - 1]])
  /\ frame' = -1
  /\ UNCHANGED stream

Finish ==
  /\ ~failed /\ frame = -1
  /\ out' = <<pos \div ByteBits>>
  /\ pos' = 0 /\ frame' = -1 /\ failed' = FALSE
  /\ UNCHANGED stream

Reopen == failed /\ pos' = 0 /\ frame' = -1 /\ out' = <<>> /\ failed' = FALSE /\ UNCHANGED stream

Init == stream \in Streams /\ pos = 0 /\ frame = -1 /\ out = <<>> /\ failed = FALSE

Next ==
  \/ FindSync \/ Zeros \/ EndFrame \/ Finish \/ Reopen
  \/ \E n \in Widths : Read(n)
  \/ \E p \in Params : Rice(p)

Spec == Init /\ [][Next]_vars
================================================================================
