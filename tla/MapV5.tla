-------------------------------- MODULE MapV5 --------------------------------
(***************************************************************************)
(* The hunk map of a compressed CHDv5 file and the two ways libchdr has to *)
(* decode it: all of it at once, pass 1 before pass 2 (decompress_v5_map), *)
(* or both passes side by side from a checkpoint on, one bucket of Stride  *)
(* hunks at a time (build_v5_map_checkpoints, v5_map_get_entry).           *)
(*                                                                         *)
(* The bits of the map are abstracted to what the two passes take from     *)
(* them: "codes", the Huffman symbols of pass 1 in order, and "fields",    *)
(* the fixed-width fields of pass 2 in order.  A position is an index into *)
(* one of them.  The length and the crc of a hunk are one field.           *)
(***************************************************************************)
EXTENDS Integers, Sequences

CONSTANTS
  HunkCount,   \* header->hunkcount
  HunkBytes,   \* header->hunkbytes
  UnitBytes,   \* header->unitbytes
  FirstOffs,   \* the offset the first stored hunk has
  Stride       \* LOWRAM_TARGET_CHECKPOINT_STRIDE

ASSUME MapAssumption ==
  /\ HunkCount \in Nat \ {0} /\ Stride \in Nat \ {0}
  /\ HunkBytes \in Nat \ {0} /\ UnitBytes \in Nat \ {0}
  /\ FirstOffs \in Nat

(* The compression types of a map entry and the pseudo-types of its        *)
(* encoding.                                                               *)
STORED == 0 .. 3
NONE == 4
SELF == 5
PARENT == 6
RLE_SMALL == 7
RLE_LARGE == 8
SELF_0 == 9
SELF_1 == 10
PARENT_SELF == 11
PARENT_0 == 12
PARENT_1 == 13

Hunks == 0 .. (HunkCount - 1)

(* bitstream_peek past the end of what the stream holds delivers zeros.    *)
Taken(seq, end, at) == IF at <= end THEN seq[at] ELSE 0

-----------------------------------------------------------------------------
(* Pass 1: the type of a hunk.  `at` is the next code to take, `end` the   *)
(* last one the stream holds.                                              *)
TypesAtStart == [lastcomp |-> 0, repcount |-> 0, at |-> 1]

(* Is there a code to take although the stream has overflowed?             *)
Overflows(end, p) == p.repcount = 0 /\ p.at > end + 1

RepeatsLarge(codes, end, at) ==
  2 + 16 + 16 * Taken(codes, end, at) + Taken(codes, end, at + 1)

(* The state after the hunk; the type of the hunk itself is its lastcomp.  *)
NextType(codes, end, p) ==
  LET val == Taken(codes, end, p.at)
  IN  CASE p.repcount > 0 -> [p EXCEPT !.repcount = @ - 1]
        [] p.repcount = 0 /\ val = RLE_SMALL ->
             [p EXCEPT !.repcount = 2 + Taken(codes, end, p.at + 1),
                       !.at = @ + 2]
        [] p.repcount = 0 /\ val = RLE_LARGE ->
             [p EXCEPT !.repcount = RepeatsLarge(codes, end, p.at + 1),
                       !.at = @ + 3]
        [] OTHER ->
             [p EXCEPT !.lastcomp = val, !.at = @ + 1]

-----------------------------------------------------------------------------
(* Pass 2: the length, the offset and the crc of a hunk of a known type.   *)
FieldsAtStart ==
  [curoffset |-> FirstOffs, last_self |-> 0, last_parent |-> 0, at |-> 1]

NextFields(fields, end, q, type, hunknum) ==
  LET field == Taken(fields, end, q.at)
  IN  CASE type \in STORED ->
             [q EXCEPT !.curoffset = @ + field, !.at = @ + 1]
        [] type = NONE ->
             [q EXCEPT !.curoffset = @ + HunkBytes, !.at = @ + 1]
        [] type = SELF ->
             [q EXCEPT !.last_self = field, !.at = @ + 1]
        [] type = PARENT ->
             [q EXCEPT !.last_parent = field, !.at = @ + 1]
        [] type = SELF_1 ->
             [q EXCEPT !.last_self = @ + 1]
        [] type = PARENT_SELF ->
             [q EXCEPT !.last_parent = (hunknum * HunkBytes) \div UnitBytes]
        [] type = PARENT_1 ->
             [q EXCEPT !.last_parent = @ + HunkBytes \div UnitBytes]
        [] OTHER -> q

(* The entry, from the state before the hunk and the state after it.       *)
EntryOf(q, after, type) ==
  CASE type \in STORED \cup {NONE} ->
         [type |-> type, offset |-> q.curoffset,
          length |-> after.curoffset - q.curoffset]
    [] type \in {SELF, SELF_0, SELF_1} ->
         [type |-> SELF, offset |-> after.last_self, length |-> 0]
    [] type \in {PARENT, PARENT_SELF, PARENT_0, PARENT_1} ->
         [type |-> PARENT, offset |-> after.last_parent, length |-> 0]
    [] OTHER ->
         [type |-> type, offset |-> q.curoffset, length |-> 0]

-----------------------------------------------------------------------------
(* decompress_v5_map: pass 1 over every hunk, then pass 2 over every hunk. *)
(* The state before each hunk, and after the last.                         *)
TypesBefore(codes) ==
  LET before[h \in 0 .. HunkCount] ==
        IF h = 0 THEN TypesAtStart
                 ELSE NextType(codes, Len(codes), before[h - 1])
  IN  before

FieldsBefore(fields, types) ==
  LET before[h \in 0 .. HunkCount] ==
        IF h = 0 THEN FieldsAtStart
                 ELSE NextFields(fields, Len(fields), before[h - 1],
                                 types[h].lastcomp, h - 1)
  IN  before

decompress_v5_map(codes, fields) ==
  LET types == TypesBefore(codes)
      states == FieldsBefore(fields, types)
  IN  [h \in Hunks |-> EntryOf(states[h], states[h + 1], types[h + 1].lastcomp)]

-----------------------------------------------------------------------------
(* build_v5_map_checkpoints: both states every Stride hunks.               *)
CheckpointCount == (HunkCount - 1) \div Stride + 1
Buckets == 0 .. (CheckpointCount - 1)

(* A checkpoint is [hunknum, p, q]: where to resume, and the states of the *)
(* two passes there.                                                       *)
Checkpoint(codes, fields, bucket) ==
  LET types == TypesBefore(codes)
      hunknum == bucket * Stride
  IN  [hunknum |-> hunknum, p |-> types[hunknum],
       q |-> FieldsBefore(fields, types)[hunknum]]

Boundary(bucket) ==
  IF bucket + 1 < CheckpointCount THEN (bucket + 1) * Stride ELSE HunkCount

(* The positions [from, to] of the codes and of the fields between one     *)
(* checkpoint and the next, or the end of the pass.  A window ends with    *)
(* the map at the latest.                                                  *)
Clipped(to, seq) == IF to > Len(seq) THEN Len(seq) ELSE to

BucketCodes(codes, bucket) ==
  LET types == TypesBefore(codes)
  IN  [from |-> types[bucket * Stride].at,
       to   |-> Clipped(types[Boundary(bucket)].at - 1, codes)]

BucketFields(codes, fields, bucket) ==
  LET states == FieldsBefore(fields, TypesBefore(codes))
  IN  [from |-> states[bucket * Stride].at,
       to   |-> IF bucket + 1 < CheckpointCount
                  THEN Clipped(states[Boundary(bucket)].at - 1, fields) ELSE Len(fields)]

-----------------------------------------------------------------------------
(* The loop of v5_map_get_entry: both passes hunk by hunk, from the state  *)
(* `from` to the hunk asked for.  "ok" is FALSE from where the stream of   *)
(* pass 1 has overflowed.                                                  *)
OneHunk(codes, fields, end1, end2, s, hunknum) ==
  LET p == NextType(codes, end1, s.p)
      q == NextFields(fields, end2, s.q, p.lastcomp, hunknum)
  IN  [p |-> p, q |-> q,
       entry |-> EntryOf(s.q, q, p.lastcomp),
       ok |-> s.ok /\ ~Overflows(end1, s.p)]

Decoded(codes, fields, end1, end2, from, start_hunk, hunknum) ==
  LET upTo[h \in start_hunk .. hunknum] ==
        OneHunk(codes, fields, end1, end2,
                IF h = start_hunk THEN [p |-> from.p, q |-> from.q, ok |-> TRUE]
                                  ELSE upTo[h - 1],
                h)
  IN  upTo[hunknum]
==============================================================================
