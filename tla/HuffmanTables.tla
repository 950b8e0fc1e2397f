---------------------------- MODULE HuffmanTables ----------------------------
(***************************************************************************)
(* The code of a Huffman tree and the tables it is decoded with            *)
(* (libchdr_huffman.c).  A tree is the array numbits: for each code the    *)
(* length it is written with, 0 for none.  The full table has an entry for *)
(* every window of MaxBits bits; under LOWRAM_TARGET a first-level table   *)
(* of 2^l1bits entries leads, for the longer codes, to subtables.          *)
(*                                                                         *)
(* An entry is a code and the bits to remove.  Left marks a cell that the  *)
(* build in progress has not written: it holds what malloc returned or     *)
(* what an earlier tree left.                                              *)
(***************************************************************************)
EXTENDS Bitstream, FiniteSetsExt

CONSTANTS
  L1BitsWanted,   \* LOWRAM_TARGET_HUFFMAN_L1BITS
  MaxSubtables    \* 2048, what fits above the five length bits of an entry

ASSUME TablesAssumption ==
  L1BitsWanted \in Nat \ {0} /\ MaxSubtables \in Nat \ {0}

Entry(code, bits) == [code |-> code, bits |-> bits]
Placeholder == Entry(0, 1)
Left == Entry(-1, -1)

L1Bits(maxbits) == IF maxbits < L1BitsWanted THEN maxbits ELSE L1BitsWanted

-----------------------------------------------------------------------------
(* huffman_assign_canonical_codes                                          *)

Lengths(maxbits) == 1 .. maxbits
CodesOf(numbits) == {i \in DOMAIN numbits : numbits[i] > 0}
BitHisto(numbits, l) == Cardinality({i \in DOMAIN numbits : numbits[i] = l})

(* curstart when the loop over the lengths, longest first, comes to l.     *)
CurStart(numbits, maxbits) ==
  LET cs[l \in 1 .. maxbits] ==
        IF l = maxbits THEN 0 ELSE (cs[l + 1] + BitHisto(numbits, l + 1)) \div 2
  IN  cs

Consistent(numbits, maxbits) ==
  /\ \A i \in DOMAIN numbits : numbits[i] <= maxbits
  /\ \A l \in 2 .. maxbits :
       (CurStart(numbits, maxbits)[l] + BitHisto(numbits, l)) % 2 = 0

CanonicalCodes(numbits, maxbits) ==
  LET start == CurStart(numbits, maxbits)
  IN  [i \in CodesOf(numbits) |->
         start[numbits[i]]
           + Cardinality({j \in DOMAIN numbits : j < i /\ numbits[j] = numbits[i]})]

-----------------------------------------------------------------------------
(* huffman_build_lookup_table.  A build returns [error, lookup, ...]; when *)
(* it stops at a code, the cells of the codes before it are written.       *)

\* The cells of a table of width bits that a code of length n fills.
CellsOf(bits, n, width) == bits * TwoTo(width - n) .. (bits + 1) * TwoTo(width - n) - 1

\* The last writer of a cell, out of the codes in written.
Written(cell, written, cells, entry, background) ==
  LET writers == {i \in written : cell \in cells[i]}
  IN  IF writers = {} THEN background ELSE entry[Max(writers)]

\* The codes a loop gets through: those before the first it stops at.
Before(codes, stops) ==
  IF stops = {} THEN codes ELSE {i \in codes : i < Min(stops)}

build_full(numbits, maxbits) ==
  LET bits      == CanonicalCodes(numbits, maxbits)
      codes     == CodesOf(numbits)
      cells     == [i \in codes |-> CellsOf(bits[i], numbits[i], maxbits)]
      entry     == [i \in codes |-> Entry(i, numbits[i])]
      stops     == {i \in codes : Max(cells[i]) >= TwoTo(maxbits)}
  IN  [error  |-> IF stops = {} THEN "NONE" ELSE "INTERNAL_INCONSISTENCY",
       lookup |-> [w \in 0 .. TwoTo(maxbits) - 1 |->
                     Written(w, Before(codes, stops), cells, entry, Left)]]

(* Two passes: the short codes, then the long ones, each of which opens a  *)
(* subtable when it is the first with its prefix.  count is subtable_count *)
(* when the passes start; granted is how many times realloc succeeds.      *)
build_two_level_from(numbits, maxbits, count, granted) ==
  LET l1          == L1Bits(maxbits)
      extra       == maxbits - l1
      bits        == CanonicalCodes(numbits, maxbits)
      short       == {i \in CodesOf(numbits) : numbits[i] <= l1}
      long        == CodesOf(numbits) \ short
      shortStops  == {i \in short : Max(CellsOf(bits[i], numbits[i], l1)) >= TwoTo(l1)}
      prefix(i)   == bits[i] \div TwoTo(numbits[i] - l1)
      sharing(i)  == {j \in long : prefix(j) = prefix(i)}
      first(i)    == i = Min(sharing(i))
      subid(i)    == count + Cardinality({j \in long : first(j) /\ j < Min(sharing(i))})
      wide(i)     == prefix(i) >= TwoTo(l1)
      full(i)     == first(i) /\ subid(i) >= MaxSubtables
      denied(i)   == first(i) /\ subid(i) - count >= granted
      longStops   == {i \in long : wide(i) \/ full(i) \/ denied(i)}
      doneLong    == IF shortStops # {} THEN {} ELSE Before(long, longStops)
      opened      == {i \in doneLong : first(i)}
      rest(i)     == numbits[i] - l1
      local(i)    == bits[i] % TwoTo(rest(i))
      firstLevel  == [p \in 0 .. TwoTo(l1) - 1 |->
                        Written(p, Before(short, shortStops),
                                [i \in short |-> CellsOf(bits[i], numbits[i], l1)],
                                [i \in short |-> Entry(i, numbits[i])], Placeholder)]
      sub(id)     == [c \in 0 .. TwoTo(extra) - 1 |->
                        Written(c, {i \in doneLong : subid(i) = id},
                                [i \in doneLong |-> CellsOf(local(i), rest(i), extra)],
                                [i \in doneLong |-> Entry(i, numbits[i])], Placeholder)]
  IN  [error     |-> IF shortStops # {} THEN "INTERNAL_INCONSISTENCY"
                     ELSE IF longStops = {} THEN "NONE"
                     ELSE IF full(Min(longStops)) /\ ~wide(Min(longStops))
                       THEN "TOO_MANY_CONTEXTS"
                     ELSE "INTERNAL_INCONSISTENCY",
       lookup    |-> [p \in DOMAIN firstLevel |->
                        IF \E i \in opened : prefix(i) = p
                          THEN Entry(subid(CHOOSE i \in opened : prefix(i) = p), 0)
                          ELSE firstLevel[p]],
       subtables |-> [id \in {subid(i) : i \in opened} |-> sub(id)],
       count     |-> count + Cardinality(opened)]

\* subtable_count is reset first.
build_two_level(numbits, maxbits, count, granted) ==
  build_two_level_from(numbits, maxbits, 0, granted)

-----------------------------------------------------------------------------
(* huffman_decode_one: what the window at the position is taken for.       *)

decode_full(lookup, window) == lookup[window]

decode_two_level_NoEscape(lookup, subtables, maxbits, window) ==
  lookup[window \div TwoTo(maxbits - L1Bits(maxbits))]
decode_two_level(lookup, subtables, maxbits, window) ==
  LET extra == maxbits - L1Bits(maxbits)
      entry == lookup[window \div TwoTo(extra)]
  IN  IF entry.bits = 0 THEN subtables[entry.code][window % TwoTo(extra)] ELSE entry

-----------------------------------------------------------------------------
(* What the tables have to mean.                                           *)

(* The share of all windows that codes take, in windows.                   *)
Share(numbits, maxbits, codes) ==
  LET share[k \in 0 .. Cardinality(DOMAIN numbits)] ==
        IF k = 0 THEN 0
        ELSE share[k - 1] + IF k - 1 \in codes THEN TwoTo(maxbits - numbits[k - 1]) ELSE 0
  IN  share[Cardinality(DOMAIN numbits)]

\* Longer codes come first, then lower symbols.
Ahead(numbits, i) ==
  {j \in CodesOf(numbits) : numbits[j] > numbits[i] \/ (numbits[j] = numbits[i] /\ j < i)}

FirstWindow(numbits, maxbits, i) == Share(numbits, maxbits, Ahead(numbits, i))

(* The code a window belongs to, an empty set when none has it.            *)
Owners(numbits, maxbits, window) ==
  {i \in CodesOf(numbits) :
     window \in FirstWindow(numbits, maxbits, i)
                .. FirstWindow(numbits, maxbits, i) + TwoTo(maxbits - numbits[i]) - 1}

(* A code that every window decodes, or every window that starts with 0,   *)
(* or none at all: length 1 is exempt from the check on the lengths.       *)
Accepted(numbits, maxbits) ==
  /\ \A i \in DOMAIN numbits : numbits[i] <= maxbits
  /\ 2 * Share(numbits, maxbits, CodesOf(numbits)) \in {0, TwoTo(maxbits), 2 * TwoTo(maxbits)}
================================================================================
