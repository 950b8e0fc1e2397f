-------------------------------- MODULE MCBits --------------------------------
(***************************************************************************)
(* The bit stream and the Huffman decoder in one run.  They are separate   *)
(* machines: a behaviour is one of the bit reader or one of the import of  *)
(* a tree, and the other rests.                                            *)
(***************************************************************************)
EXTENDS BitReader, HuffmanImport

\* Up to three bytes.
MCTapes == UNION {[0 .. n - 1 -> 0 .. 3] : n \in 0 .. 3}

VARIABLE side

bitsvars == <<side, readervars, importvars>>

BitsInit ==
  \/ side = "bits" /\ BitReaderInit /\ lowram = FALSE /\ ImportInit
  \/ side = "tree" /\ tape = <<>> /\ BitReaderInit /\ ImportInit

BitsNext ==
  /\ UNCHANGED side
  /\ \/ side = "bits" /\ BitReaderNext /\ UNCHANGED importvars
     \/ side = "tree" /\ ImportNext /\ UNCHANGED readervars

BitsSpec == BitsInit /\ [][BitsNext]_bitsvars
===============================================================================
