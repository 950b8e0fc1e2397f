------------------------------- MODULE Allocator -------------------------------
(***************************************************************************)
(* What a codec may expect of the memory functions it hands to the lzma    *)
(* and zlib libraries: a block that is given out has room for what was     *)
(* asked and is not given out again before it comes back.                  *)
(***************************************************************************)
EXTENDS Integers

CONSTANTS Addresses, Sizes

VARIABLES
  given     \* the addresses given out, each with what was asked of it

givenvars == <<given>>

AllocatorInit == given = {}

Give(address, size) ==
  /\ \A g \in given : g.address # address
  /\ given' = given \cup {[address |-> address, size |-> size]}

TakeBack(g) == given' = given \ {g}

(* The codec is freed, and all of its memory with it.                      *)
TakeAllBack == given' = {}

AllocatorNext ==
  \/ \E a \in Addresses, n \in Sizes : Give(a, n)
  \/ \E g \in given : TakeBack(g)
  \/ TakeAllBack

AllocatorSpec == AllocatorInit /\ [][AllocatorNext]_givenvars
==============================================================================
