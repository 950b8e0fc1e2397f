------------------------------- MODULE BitSource -------------------------------
(***************************************************************************)
(* What the users of a bitstream rely on: the bytes are one string of bits *)
(* with zeros after its end, there is a position in it, a field is the     *)
(* bits from there on, and flushing goes on to the next byte.              *)
(*                                                                         *)
(* Fields wider than Guaranteed bits are the exception: they may end in    *)
(* zeros where bits of the string should be, and flushing right after one  *)
(* may go back to the start of the byte it ends in.  The position is right *)
(* even then.                                                              *)
(***************************************************************************)
EXTENDS Integers

CONSTANTS ByteBits, Guaranteed, Widths, Tapes, Horizon

VARIABLES
  tape,     \* the bytes
  pos,      \* the position, in bits
  asked,    \* the width of the last field, 0 after any other operation
  out       \* its value, or the position sought

vars == <<tape, pos, asked, out>>

TwoTo(n) ==
  LET power[i \in 0 .. n] == IF i = 0 THEN 1 ELSE 2 * power[i - 1]
  IN  power[n]

Bit(p) ==
  LET byte == p \div ByteBits
  IN  IF byte \in DOMAIN tape
        THEN (tape[byte] \div TwoTo(ByteBits - 1 - (p % ByteBits))) % 2
        ELSE 0

\* n bits from p on, the first one the highest.
Field(p, n) ==
  LET field[i \in 0 .. n] == IF i = 0 THEN 0 ELSE 2 * field[i - 1] + Bit(p + (i - 1))
  IN  field[n]

Wide(n) == n > Guaranteed

\* n bits from p on, the last cut of them zero.
CutField(p, n, cut) == Field(p, n - cut) * TwoTo(cut)

Read(n) ==
  /\ asked' = n
  /\ pos' = pos + n
  /\ \E cut \in 0 .. n :
       /\ cut > 0 => Wide(n) /\ cut <= n - Guaranteed
       /\ out' = CutField(pos, n, cut)
  /\ UNCHANGED tape

Seek(p) ==
  /\ pos' = p
  /\ asked' = 0 /\ out' = p
  /\ UNCHANGED tape

Align ==
  /\ \/ pos' = ((pos + ByteBits - 1) \div ByteBits) * ByteBits
     \/ Wide(asked) /\ pos' = (pos \div ByteBits) * ByteBits
  /\ asked' = 0 /\ out' = 0
  /\ UNCHANGED tape

Init == tape \in Tapes /\ pos = 0 /\ asked = 0 /\ out = 0

Next ==
  \/ \E n \in Widths : Read(n)
  \/ \E p \in 0 .. Horizon : Seek(p)
  \/ Align

Spec == Init /\ [][Next]_vars
================================================================================
