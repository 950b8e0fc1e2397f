------------------------------ MODULE MCPlayback ------------------------------
(* Every way to lay out a file of seven bytes as hunks of one to three     *)
(* bytes: all compressed (a payload as large as a hunk is allowed), or     *)
(* mixed with uncompressed hunks, whose payload is exactly a hunk.         *)
EXTENDS Playback, FiniteSets

MCFile == [p \in 0 .. (FileSize - 1) |-> p]
MCBytes == 0 .. (FileSize - 1)
MCJunk == -1
MCNone == {}

(* The cuts of the file into payloads: the sets of inner boundaries.       *)
Cuts == SUBSET (1 .. (FileSize - 1))
Starts(cut) == {0} \cup cut
NthStart(cut, i) ==
  CHOOSE s \in Starts(cut) \cup {FileSize} :
    Cardinality({t \in Starts(cut) : t < s}) = i - 1
LayoutOf(cut, kinds) ==
  [i \in 1 .. Cardinality(Starts(cut)) |->
     [kind   |-> kinds[i],
      offset |-> NthStart(cut, i),
      size   |-> NthStart(cut, i + 1) - NthStart(cut, i)]]

FitsHunks(l) ==
  \A i \in 1 .. Len(l) :
    /\ l[i].size <= HunkBytes
    /\ l[i].kind = "uncompressed" => l[i].size = HunkBytes

Kinds(cut, allowed) == [1 .. Cardinality(Starts(cut)) -> allowed]
LayoutsWith(allowed) ==
  {l \in UNION {{LayoutOf(cut, kinds) : kinds \in Kinds(cut, allowed)} : cut \in Cuts} :
     FitsHunks(l)}

MCLayouts == LayoutsWith({"compressed", "uncompressed"})

=============================================================================
