----------------------------- MODULE MCLowramMap -----------------------------
(***************************************************************************)
(* Six hunks in three buckets.  The maps have runs that end in a bucket,   *)
(* runs that cross one and a run that covers the rest of the file, chains  *)
(* of SELF and PARENT pseudo-types across bucket borders, a map whose last *)
(* code and fields are past the end of what is stored, and one that is not *)
(* compressed.                                                             *)
(***************************************************************************)
EXTENDS LowramMap

Encoded(codes, fields) == [compressed |-> TRUE, codes |-> codes, fields |-> fields]

MCMaps ==
  { Encoded(<<0, RLE_SMALL, 1, SELF_1>>, <<3, 5, 2, 4, 1>>),
    Encoded(<<1, SELF, SELF_1, SELF_1, SELF_0, NONE>>, <<7, 1, 9>>),
    Encoded(<<PARENT, PARENT_1, RLE_SMALL, 0, PARENT_SELF>>, <<2>>),
    Encoded(<<2, RLE_LARGE, 0, 3>>, <<1, 2, 3, 4, 5, 6>>),
    Encoded(<<NONE, SELF, 3, PARENT_0, SELF_1, PARENT_1>>, <<8, 0, 6>>),
    Encoded(<<SELF_1, RLE_SMALL, 1, 0>>, <<4>>),
    Encoded(<<SELF, 1, SELF_1, NONE, 2>>, <<4, 7>>),
    [compressed |-> FALSE, codes |-> <<>>, fields |-> <<6, 5, 4, 3, 2, 1>>] }
==============================================================================
