------------------------------- MODULE Metadata -------------------------------
(***************************************************************************)
(* The metadata of a file: a list linked by offsets of the file, which     *)
(* metadata_find_entry() walks.  A malformed file may link it into a       *)
(* circle, so that a walk ends after MaxEntries entries.                   *)
(*                                                                         *)
(* A list is a function from offsets to entries [tag, length, next].       *)
(***************************************************************************)
EXTENDS Integers, FiniteSets

CONSTANT MaxEntries    \* CHD_MAX_METADATA_ENTRIES

ASSUME MetadataAssumption == MaxEntries \in Nat \ {0}

Wildcard == "*"        \* CHDMETATAG_WILDCARD
HardDisk == "GDDD"     \* HARD_DISK_METADATA_TAG

Matches(list, offset, tag) == tag = Wildcard \/ list[offset].tag = tag

(* The offsets that are walked, from the first on; 0 ends the list, and an *)
(* entry that cannot be read ends the walk as if it did.                   *)
Visit(list, start) ==
  LET at[k \in 1 .. MaxEntries + 1] ==
        IF k = 1 THEN start
        ELSE IF at[k - 1] \in DOMAIN list THEN list[at[k - 1]].next
        ELSE 0
  IN  at

(* The k-th entry walked is the one that is asked for: metaindex counts    *)
(* the matches down.                                                       *)
Found_CountsAll(list, at, k, tag, index) ==
  Matches(list, at[k], tag) /\ k = index + 1
Found(list, at, k, tag, index) ==
  /\ Matches(list, at[k], tag)
  /\ Cardinality({j \in 1 .. k : Matches(list, at[j], tag)}) = index + 1

\* The answer when the walk has met MaxEntries entries.
TooLong(at) == [error |-> "INVALID_DATA", offset |-> 0]

(* metadata_find_entry, when only readable entry headers can be read: the  *)
(* error and the offset of the entry.                                      *)
metadata_find_entry(list, readable, start, tag, index) ==
  LET at      == Visit(list, start)
      open(k) == at[k] # 0 /\ (k <= MaxEntries => at[k] \in readable)
      stops   == {k \in 1 .. MaxEntries : ~open(k) \/ Found(list, at, k, tag, index)}
      k       == CHOOSE i \in stops \cup {MaxEntries + 1} : \A j \in stops : i <= j
  IN  IF ~open(k) THEN [error |-> "METADATA_NOT_FOUND", offset |-> 0]
      ELSE IF k > MaxEntries THEN TooLong(at)
      ELSE [error |-> "NONE", offset |-> at[k]]

-----------------------------------------------------------------------------
(* The list as its links say, for reference.                               *)

\* The offsets reached from an offset, itself included.
ReachedFrom(list, start) ==
  LET step(S) == S \cup {list[o].next : o \in S \cap DOMAIN list}
      reached[n \in 0 .. Cardinality(DOMAIN list) + 1] ==
        IF n = 0 THEN {start} ELSE step(reached[n - 1])
  IN  reached[Cardinality(DOMAIN list) + 1]

EntriesFrom(list, start) == ReachedFrom(list, start) \cap DOMAIN list

IsCircular(list, start) ==
  \E o \in EntriesFrom(list, start) : o \in ReachedFrom(list, list[o].next)

IsWalkedWhole(list, start) ==
  ~IsCircular(list, start) /\ Cardinality(EntriesFrom(list, start)) <= MaxEntries

(* The entries with a tag in front of an entry of a list without a circle. *)
InFrontOf(list, start, offset, tag) ==
  {o \in EntriesFrom(list, start) :
     o # offset /\ Matches(list, o, tag) /\ offset \in ReachedFrom(list, o)}
================================================================================
