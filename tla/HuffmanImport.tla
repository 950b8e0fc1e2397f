---------------------------- MODULE HuffmanImport ----------------------------
(***************************************************************************)
(* A Huffman decoder that is used for tree after tree, as the map decoder, *)
(* the "huff" codec and the AVHuff codec use theirs: a tree is read from   *)
(* the bit stream, run-length encoded (huffman_import_tree_rle) or with    *)
(* its lengths Huffman-coded by a small tree that comes first              *)
(* (huffman_import_tree_huffman), the tables are built, and windows are    *)
(* decoded.  The fields and windows are whatever the stream holds.         *)
(*                                                                         *)
(* Lengths and runs are scaled: the escape, the run of 3 and more and the  *)
(* stop value keep their place, the widths of the fields shrink.           *)
(***************************************************************************)
EXTENDS HuffmanTables, Sequences

CONSTANTS
  NumCodes,    \* codes of the decoder
  MaxBits,     \* its longest code
  RleFields,   \* the values of a field of a run-length encoded tree
  SmallCodes,  \* 24, the codes of the small tree
  SmallBits,   \* 6, its longest code; SmallBits + 1 is its stop value
  Imports      \* the ways a tree is read here

ASSUME ImportAssumption ==
  /\ NumCodes \in Nat /\ NumCodes > SmallBits + 3
  /\ MaxSubtables >= TwoTo(L1Bits(MaxBits))
  /\ MaxBits \in 1 .. 24 /\ SmallBits \in 1 .. 24
  /\ SmallCodes \in 1 .. 256
  /\ RleFields \subseteq 0 .. 31
  /\ Imports \subseteq {"rle", "huffman"}

VARIABLES
  lowram,          \* the build: LOWRAM_TARGET
  import,          \* the tree being read: "rle" or "huffman", else "none"
  numbits,         \* huffnode[].numbits; Unread: not written by this import
  curcode,         \* the next code to write
  last,            \* the length a run repeats
  small,           \* the small tree: its lengths so far, where the second
                   \* one stands, and whether the stop value was read
  advanced,        \* whether the last round of the loop over the codes wrote one
  result,          \* what the last import returned
  lookup,          \* the table, or the first-level table
  subtables,       \* the subtables reached from it
  subtable_count   \* subtables allocated

importvars == <<lowram, import, numbits, curcode, last, small, advanced, result,
          lookup, subtables, subtable_count>>

Codes == 0 .. NumCodes - 1
Unread == -1
NoTree == [i \in Codes |-> Unread]
NoSmallTree == [lengths |-> <<>>, start |-> 0, stopped |-> FALSE]
NoSubtables == [id \in {} |-> Left]

tables == <<lookup, subtables, subtable_count>>

-----------------------------------------------------------------------------
(* What the tables hold from an earlier tree is no longer told apart.      *)
Start(kind) ==
  /\ import = "none"
  /\ import' = kind
  /\ numbits' = NoTree /\ curcode' = 0 /\ last' = 0 /\ advanced' = TRUE
  /\ small' = NoSmallTree
  /\ result' = "reading"
  /\ lookup' = [w \in DOMAIN lookup |-> Left] /\ subtables' = NoSubtables
  /\ UNCHANGED <<lowram, subtable_count>>

Fail(error) ==
  /\ import' = "none"
  /\ result' = error
  /\ small' = NoSmallTree
  /\ UNCHANGED <<lowram, numbits, curcode, last, advanced, tables>>

(* One round of the loop over the codes: n of them become length.          *)
Write(length, n) ==
  /\ numbits' = [i \in Codes |-> IF curcode <= i /\ i < curcode + n THEN length ELSE numbits[i]]
  /\ curcode' = curcode + n
  /\ advanced' = (n > 0)
  /\ UNCHANGED <<lowram, import, small, result, tables>>

-----------------------------------------------------------------------------
(* huffman_import_tree_rle: a length is itself, except that 1 escapes.     *)

ReadingRle == import = "rle" /\ curcode < NumCodes

RawLength ==
  /\ ReadingRle
  /\ \E length \in RleFields \ {1} : Write(length, 1)
  /\ UNCHANGED last

EscapedOne ==
  /\ ReadingRle
  /\ Write(1, 1)
  /\ UNCHANGED last

RepeatedLength_OffByOne ==
  /\ ReadingRle
  /\ \E length \in RleFields \ {1}, field \in RleFields :
       IF field + 3 + curcode > NumCodes + 1
         THEN Fail("INVALID_DATA")
         ELSE Write(length, field + 3) /\ UNCHANGED last
RepeatedLength ==
  /\ ReadingRle
  /\ \E length \in RleFields \ {1}, field \in RleFields :
       IF field + 3 + curcode > NumCodes
         THEN Fail("INVALID_DATA")
         ELSE Write(length, field + 3) /\ UNCHANGED last

-----------------------------------------------------------------------------
(* huffman_import_tree_huffman.  The small tree first: the length of code  *)
(* 0, the index of the next code that has one, then lengths up to a stop.  *)

Stop == SmallBits + 1
SmallFields == 0 .. Stop
ReadingSmall == import = "huffman" /\ curcode = 0 /\ Len(small.lengths) < SmallCodes

SmallStep(tree) ==
  /\ small' = tree
  /\ UNCHANGED <<lowram, import, numbits, curcode, last, advanced, result, tables>>

SmallHead ==
  /\ ReadingSmall /\ small.lengths = <<>>
  /\ \E head, start \in SmallFields :
       SmallStep([lengths |-> <<head>>, start |-> start + 1, stopped |-> FALSE])

SmallLength ==
  /\ ReadingSmall /\ small.lengths # <<>>
  /\ IF Len(small.lengths) < small.start \/ small.stopped
       THEN SmallStep([small EXCEPT !.lengths = Append(@, 0)])
       ELSE \E count \in SmallFields :
              SmallStep([small EXCEPT !.lengths = Append(@, IF count = Stop THEN 0 ELSE count),
                                      !.stopped = count = Stop])

SmallNumbits == [i \in 0 .. SmallCodes - 1 |-> small.lengths[i + 1]]
SmallTree == build_full(SmallNumbits, SmallBits)
SmallIsGood == Consistent(SmallNumbits, SmallBits) /\ SmallTree.error = "NONE"

(* Whether the small tree is good is known when the first code is read.    *)
SmallRead == import = "huffman" /\ Len(small.lengths) = SmallCodes

SmallRefused ==
  /\ SmallRead /\ curcode = 0 /\ ~SmallIsGood
  /\ Fail("INTERNAL_INCONSISTENCY")

(* What the small tree may decode.  A window no code has is whatever       *)
(* malloc left in the full table, of which lengths the decoder has and     *)
(* lengths it has not are told apart.                                      *)
SmallValues ==
  UNION {LET entry == SmallTree.lookup[w]
         IN  IF entry # Left THEN {entry.code}
             ELSE IF lowram THEN {Placeholder.code}
             ELSE 0 .. MaxBits + 2 : w \in DOMAIN SmallTree.lookup}

ReadingCodes == SmallRead /\ SmallIsGood /\ curcode < NumCodes

CodedLength ==
  /\ ReadingCodes
  /\ \E value \in SmallValues \ {0} : Write(value - 1, 1) /\ last' = value - 1

\* rlefullbits: what it takes to write NumCodes - 9.
RleFullBits == CHOOSE n \in 1 .. NumCodes :
                 TwoTo(n - 1) <= NumCodes - (Stop + 2) /\ NumCodes - (Stop + 2) < TwoTo(n)

RunLengths == (2 .. Stop + 1) \cup (Stop + 2 .. Stop + 1 + TwoTo(RleFullBits))

CodedRun ==
  /\ ReadingCodes /\ 0 \in SmallValues
  /\ \E n \in RunLengths : Write(last, IF n < NumCodes - curcode THEN n ELSE NumCodes - curcode)
  /\ UNCHANGED last

-----------------------------------------------------------------------------
(* The end of both: the codes are assigned and the tables built.           *)

Finish(error) ==
  /\ import' = "none" /\ small' = NoSmallTree /\ last' = 0
  /\ result' = error
  /\ UNCHANGED <<lowram, numbits, curcode, advanced>>

AllRead == import # "none" /\ curcode >= NumCodes

TreeRefused ==
  /\ AllRead /\ ~Consistent(numbits, MaxBits)
  /\ Finish("INTERNAL_INCONSISTENCY")
  /\ UNCHANGED tables

(* The input may end before the tree did, which is noticed last.           *)
Outcomes(error) == IF error = "NONE" THEN {"NONE", "INPUT_BUFFER_TOO_SMALL"} ELSE {error}

BuildFull ==
  /\ AllRead /\ Consistent(numbits, MaxBits) /\ ~lowram
  /\ LET built == build_full(numbits, MaxBits)
     IN  /\ lookup' = built.lookup
         /\ \E error \in Outcomes(built.error) : Finish(error)
  /\ UNCHANGED <<subtables, subtable_count>>

BuildTwoLevel ==
  /\ AllRead /\ Consistent(numbits, MaxBits) /\ lowram
  /\ \E granted \in 0 .. TwoTo(L1Bits(MaxBits)) :
       LET built == build_two_level(numbits, MaxBits, subtable_count, granted)
       IN  /\ lookup' = built.lookup
           /\ subtables' = built.subtables /\ subtable_count' = built.count
           /\ \E error \in Outcomes(built.error) : Finish(error)

(* The array of prefixes cannot be allocated.                              *)
NoMemoryToBuild ==
  /\ AllRead /\ Consistent(numbits, MaxBits) /\ lowram
  /\ Finish("INTERNAL_INCONSISTENCY")
  /\ UNCHANGED tables

-----------------------------------------------------------------------------
LookupBits(build) == IF build THEN L1Bits(MaxBits) ELSE MaxBits

(* create_huffman_decoder() is assumed to get its memory: it does not look *)
(* whether malloc() gave it any.                                           *)
ImportInit ==
  /\ lowram \in BOOLEAN
  /\ import = "none" /\ numbits = NoTree /\ curcode = 0 /\ last = 0 /\ advanced = TRUE
  /\ small = NoSmallTree
  /\ result = "no tree"
  /\ lookup = [w \in 0 .. TwoTo(LookupBits(lowram)) - 1 |-> Left]
  /\ subtables = NoSubtables /\ subtable_count = 0

ImportNext ==
  \/ \E kind \in Imports : Start(kind)
  \/ RawLength \/ EscapedOne \/ RepeatedLength
  \/ SmallHead \/ SmallLength \/ SmallRefused \/ CodedLength \/ CodedRun
  \/ TreeRefused \/ BuildFull \/ BuildTwoLevel \/ NoMemoryToBuild

ImportSpec == ImportInit /\ [][ImportNext]_importvars

-----------------------------------------------------------------------------
Errors == {"NONE", "INVALID_DATA", "INPUT_BUFFER_TOO_SMALL", "INTERNAL_INCONSISTENCY",
           "TOO_MANY_CONTEXTS"}

\* An entry that ends a decode.
Entries == [code : Codes, bits : 1 .. MaxBits]

HuffmanTypeOK ==
  /\ lowram \in BOOLEAN /\ import \in Imports \cup {"none"}
  /\ numbits \in [Codes -> 0 .. 255 \cup {Unread}]
  /\ curcode \in 0 .. NumCodes
  /\ result \in Errors \cup {"no tree", "reading"}
  /\ DOMAIN lookup = 0 .. TwoTo(LookupBits(lowram)) - 1
  /\ \A w \in DOMAIN lookup :
       lookup[w] \in Entries \cup {Left} \cup [code : DOMAIN subtables, bits : {0}]

Decoded(window) ==
  IF lowram THEN decode_two_level(lookup, subtables, MaxBits, window)
            ELSE decode_full(lookup, window)

TreeInUse == result \in {"NONE", "INPUT_BUFFER_TOO_SMALL"}

(* A tree is built from lengths the stream gave, all of them: nothing of   *)
(* an earlier tree, or of what malloc returned, is part of it.             *)
WholeTreeRead == AllRead \/ TreeInUse => \A i \in Codes : numbits[i] # Unread

(* Every round of the loop over the codes writes one at least: an import   *)
(* ends, also when the input has run out and every field reads as 0.       *)
EachRoundAdvances == advanced

(* Both builds take and refuse the same trees: those that give every       *)
(* window to one code, or the lower half of them, or none.  Only memory    *)
(* makes the low-RAM build refuse more; its subtables never run out.       *)
RefusesExactlyBadTrees ==
  /\ TreeInUse => Accepted(numbits, MaxBits)
  /\ result = "INTERNAL_INCONSISTENCY" /\ curcode = NumCodes /\ ~lowram =>
       ~Accepted(numbits, MaxBits)
  /\ result # "TOO_MANY_CONTEXTS"

(* Every window is decoded to the one code it belongs to, in both builds.  *)
(* A window no code has: the low-RAM build answers with code 0 and moves   *)
(* on by a bit, whatever was decoded before; the other build answers with  *)
(* what an earlier tree or malloc left there.                              *)
WindowsDecodeToTheirCode ==
  TreeInUse =>
    \A window \in 0 .. TwoTo(MaxBits) - 1 :
      LET owners == Owners(numbits, MaxBits, window)
      IN  IF owners # {}
            THEN owners = {Decoded(window).code}
                 /\ Decoded(window).bits = numbits[Decoded(window).code]
            ELSE Decoded(window) = IF lowram THEN Placeholder ELSE Left

(* An import takes exactly the good trees, whole, within the nodes of the  *)
(* decoder, and ends on any input.                                         *)
TreesAreReadWhole == HuffmanTypeOK /\ WholeTreeRead /\ EachRoundAdvances /\ RefusesExactlyBadTrees
================================================================================
