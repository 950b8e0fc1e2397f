------------------------------ MODULE MCHunkRead ------------------------------
(* Handles opened over one another: a legacy root, a v5 child with every   *)
(* kind of reference over it, an uncompressed v5 and a legacy grandchild,  *)
(* and an uncompressed v5 file without a parent.  Each hunk is two units.  *)
EXTENDS HunkRead

MCFiles == {"root", "child", "overlay", "old", "sparse"}
MCNoFile == "none"
MCParentOf == [f \in MCFiles |->
  CASE f = "child" -> "root"
    [] f \in {"overlay", "old"} -> "child"
    [] OTHER -> MCNoFile]
MCDepth == [f \in MCFiles |->
  CASE f = "child" -> 1 [] f \in {"overlay", "old"} -> 2 [] OTHER -> 0]
MCFormat == [f \in MCFiles |->
  CASE f \in {"root", "old"} -> "legacy"
    [] f = "child" -> "v5"
    [] OTHER -> "raw"]
MCUnit == 0 .. 5

Holds(type, a, b) == [type |-> type, offset |-> 0, payload |-> [i \in 0 .. 1 |-> IF i = 0 THEN a ELSE b]]
Corrupt(type) == [type |-> type, offset |-> 0, payload |-> Undecodable]
Refers(type, offset) == [type |-> type, offset |-> offset, payload |-> Undecodable]

(* Sequences, for the eye; MCMap counts hunks from 0.                      *)
Entries == [f \in MCFiles |->
  CASE f = "root" ->
        << Holds("compressed", 1, 2), Holds("uncompressed", 2, 3), Holds("mini", 4, 4),
           Refers("self", 1), Refers("self", 4), Refers("parent", 0) >>
    [] f = "child" ->
        << Holds("codec", 1, 1), Holds("none", 5, 2), Refers("self", 0), Refers("self", 2),
           Refers("parent", 2), Refers("parent", 3), Refers("self", 5), Refers("self", 7),
           Corrupt("codec"), Refers("self", 8), Refers("parent", 9), Refers("parent", 7),
           Refers("unknown", 0) >>
    [] f = "overlay" -> << Holds("block", 3, 5), Refers("hole", 0), Refers("hole", 0) >>
    [] f = "old" -> << Refers("parent", 3), Refers("parent", 20) >>
    [] f = "sparse" -> << Refers("hole", 0), Holds("block", 2, 2) >>]

MCTotalHunks == [f \in MCFiles |-> Len(Entries[f])]
MCMap == [f \in MCFiles |-> [h \in 0 .. (MCTotalHunks[f] - 1) |-> Entries[f][h + 1]]]

(* Content solves the equations of Meaning.  Files are ranked by Depth, so *)
(* it is built rank by rank and hunk by hunk.                              *)
Known(c, f, h) ==
  IF f \in DOMAIN c /\ h \in DOMAIN c[f] THEN c[f][h] ELSE Undecodable

Halves(c, p, unit) ==
  LET a == Known(c, p, unit \div HunkUnits)
      b == Known(c, p, unit \div HunkUnits + 1)
      k == unit % HunkUnits
  IN  IF k = 0 THEN a ELSE Joined(a, b, k)

Solve(c, f, h, e) ==
  CASE e.type = "hole" ->
         IF MCParentOf[f] = MCNoFile THEN Zeros ELSE Known(c, MCParentOf[f], h)
    [] e.type = "self" -> IF e.offset < h THEN Known(c, f, e.offset) ELSE Undecodable
    [] e.type = "parent" ->
         IF MCFormat[f] = "legacy" THEN Known(c, MCParentOf[f], e.offset)
         ELSE Halves(c, MCParentOf[f], e.offset)
    [] OTHER -> e.payload

Place(c, f, h) ==
  LET before == IF f \in DOMAIN c THEN c[f] ELSE <<>>
      hunks == [i \in 0 .. h |-> IF i < h THEN before[i] ELSE Solve(c, f, h, MCMap[f][h])]
  IN  [g \in (DOMAIN c) \cup {f} |-> IF g = f THEN hunks ELSE c[g]]

Order == << "root", "sparse", "child", "overlay", "old" >>
Places == [i \in 1 .. Len(Order) |-> [h \in 1 .. MCTotalHunks[Order[i]] |-> <<Order[i], h - 1>>]]
AllPlaces == Places[1] \o Places[2] \o Places[3] \o Places[4] \o Places[5]

Solved[n \in 0 .. Len(AllPlaces)] ==
  IF n = 0 THEN <<>>
  ELSE Place(Solved[n - 1], AllPlaces[n][1], AllPlaces[n][2])
MCContent == Solved[Len(AllPlaces)]

-----------------------------------------------------------------------------
(* A child and its parent outside what the theorems about HunkRead assume: *)
(* hunks of 300 units, of which the child's starts at unit 88 of the root. *)
ManyFiles == {"root", "child"}
ManyDepth == [f \in ManyFiles |-> IF f = "child" THEN 1 ELSE 0]
ManyParentOf == [f \in ManyFiles |-> IF f = "child" THEN "root" ELSE MCNoFile]
ManyUnit == 0 .. 3

Filled(v) == [i \in 0 .. (HunkUnits - 1) |-> v]
HoldsOnly(type, v) == [type |-> type, offset |-> 0, payload |-> Filled(v)]
FromZero(s) == [h \in 0 .. (Len(s) - 1) |-> s[h + 1]]

ManyFormat == [f \in ManyFiles |-> "v5"]
ManyMap == [f \in ManyFiles |->
  IF f = "child" THEN FromZero(<< Refers("parent", 88) >>)
  ELSE FromZero(<< HoldsOnly("codec", 1), HoldsOnly("codec", 2), HoldsOnly("none", 3) >>)]
ManyContent == [f \in ManyFiles |->
  IF f = "child" THEN FromZero(<< Joined(Filled(1), Filled(2), 88) >>)
  ELSE FromZero(<< Filled(1), Filled(2), Filled(3) >>)]
ManyTotal == [f \in ManyFiles |-> IF f = "child" THEN 1 ELSE 3]

=============================================================================
