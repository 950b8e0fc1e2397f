------------------------------- MODULE Container -------------------------------
(***************************************************************************)
(* From the bytes of a file to a handle: the header is read and validated  *)
(* (header_read), the unit size of an old file is guessed from its         *)
(* metadata (header_guess_unitbytes), the map of a file before version 5   *)
(* is read and checked (map_read).  Then metadata is looked up by tag and  *)
(* index (chd_get_metadata), and map entries are used, which a low-RAM     *)
(* build reads again one by one (map_read_one_legacy).  Any read may fail. *)
(***************************************************************************)
EXTENDS Header, Metadata, Sequences, SequencesExt

CONSTANTS
  Containers,          \* the files: raw header, size, metadata list, map, cookie
  StackEntries,   \* MAP_STACK_ENTRIES
  CDFrameSize,    \* CD_FRAME_SIZE
  MaxFaults       \* how many reads fail

ShortFields(raw) ==
  {raw.length, raw.seclen, raw.hunksize, raw.totalhunks, raw.cylinders, raw.heads,
   raw.sectors, raw.hunkbytes, raw.unitbytes}
EntryTypes ==
  {"invalid", "compressed", "uncompressed", "mini", "self", "parent", "2nd compressed", "other"}
MapEntry == [offset : 0 .. U64 - 1, length : 0 .. U32 - 1, type : EntryTypes]

\* A map that ends inside the file has all of its entries.
ASSUME ContainerAssumption ==
  /\ StackEntries \in Nat \ {0} /\ MaxFaults \in Nat
  /\ CDFrameSize \in 1 .. U32 - 1
  /\ \A f \in Containers :
       /\ f.size \in Nat \ {0} /\ f.cookie \in BOOLEAN
       /\ f.raw.version \in Nat /\ ShortFields(f.raw) \subseteq 0 .. U32 - 1
       /\ {f.raw.logicalbytes, f.raw.metaoffset} \subseteq 0 .. U64 - 1
       /\ IsFiniteSet(DOMAIN f.entries) /\ 0 \notin DOMAIN f.entries
       /\ \A o \in DOMAIN f.entries : f.entries[o].parses \subseteq 0 .. U32 - 1
       /\ f.map \in Seq(MapEntry)
       /\ Legacy(f.raw.version) /\ MapEnd(f.raw) <= f.size => f.raw.totalhunks <= Len(f.map)

VARIABLES
  container,        \* the file
  lowram,      \* the build: LOWRAM_TARGET
  reading,       \* "start", "header", "guess", "checks", "map", "open", "refused"
  tries,       \* how many tags the guess has tried
  unitbytes,   \* header.unitbytes, 0 as long as it is not known
  map,         \* the map entries read so far; dropped by the low-RAM build
  nextentry,   \* the first entry of the next chunk
  maxoffset,   \* the end of what the entries so far refer to
  faults,      \* reads that failed
  error,       \* what opening, or the last call, answered
  call         \* the last call: its arguments and what it delivered

containervars == <<container, lowram, reading, tries, unitbytes, map, nextentry, maxoffset,
          faults, error, call>>

NoCall == [kind |-> "none", tag |-> Wildcard, index |-> 0, offset |-> 0, faux |-> FALSE,
           sound |-> TRUE, entry |-> <<>>]

Raw == container.raw
OldMap == EntrySize(Raw.version) = OldEntry
Accepted == Completed(Raw, unitbytes)

\* A read that fails, of those that may.
ReadFails == faults < MaxFaults /\ faults' = faults + 1

Go(p) == reading' = p /\ UNCHANGED <<container, lowram, error, call>>
Refuse(e) ==
  /\ reading' = "refused" /\ error' = e
  /\ map' = <<>>
  /\ UNCHANGED <<container, lowram, tries, unitbytes, nextentry, maxoffset, call>>

-----------------------------------------------------------------------------
(* header_read                                                             *)

mapping == <<map, nextentry, maxoffset>>

ReadStart ==
  /\ reading = "start"
  /\ \/ StartVerdict(Raw) = "NONE" /\ Go("header") /\ UNCHANGED <<tries, unitbytes, mapping>>
     \/ StartVerdict(Raw) # "NONE" /\ Refuse(StartVerdict(Raw))
  /\ UNCHANGED faults

StartUnreadable ==
  /\ reading \in {"start", "header"} /\ ReadFails
  /\ Refuse("READ_ERROR")

ReadHeader ==
  /\ reading = "header"
  /\ \/ /\ GeometryVerdict(Raw, 1) # "NONE"
        /\ Refuse("INVALID_DATA")
     \/ /\ GeometryVerdict(Raw, 1) = "NONE"
        /\ Go(IF Legacy(Raw.version) THEN "guess" ELSE "checks")
        /\ unitbytes' = IF Legacy(Raw.version) THEN 0 ELSE Raw.unitbytes
        /\ UNCHANGED <<tries, mapping>>
  /\ UNCHANGED faults

(* header_guess_unitbytes: the tags in the order they are tried.           *)
CDTags == <<"CHCD", "CHTR", "CHT2", "CHGT", "CHGD">>
GuessTags == <<HardDisk>> \o CDTags

(* chd_get_metadata as the guess sees it: the offset of the entry, or 0.   *)
Lookup(readable, tag, index) ==
  metadata_find_entry(container.entries, readable, MetaOffset(Raw), tag, index)

Tried == GuessTags[tries + 1]
Guessed(bytes) == Go("checks") /\ unitbytes' = bytes /\ UNCHANGED <<tries, mapping>>
TryNext == Go("guess") /\ tries' = tries + 1 /\ UNCHANGED <<unitbytes, mapping>>

(* The faux metadata of versions 1 and 2 has the sector length: hunkbytes  *)
(* divided by the sectors of a hunk.                                       *)
GuessFromFaux ==
  /\ reading = "guess" /\ tries = 0 /\ Raw.version < 3
  /\ Guessed(HunkBytes(Raw) \div Raw.hunksize)
  /\ UNCHANGED faults

(* What sscanf makes of an entry is the file's: no number, the number      *)
(* there, or any number where the text does not end in what was read.      *)
GuessFromTag ==
  /\ reading = "guess" /\ tries < Len(GuessTags) /\ (tries = 0 => Raw.version >= 3)
  /\ LET found == Lookup(DOMAIN container.entries, Tried, 0)
     IN  IF found.error # "NONE" THEN TryNext
         ELSE IF Tried # HardDisk THEN Guessed(CDFrameSize)
         ELSE IF container.entries[found.offset].parses = {} THEN TryNext
         ELSE \E bytes \in container.entries[found.offset].parses : Guessed(bytes)
  /\ UNCHANGED faults

(* An entry, its header or its data, cannot be read: the walk ends as if   *)
(* the list did, or the entry found is not used.                           *)
GuessUnreadable ==
  /\ reading = "guess" /\ tries < Len(GuessTags) /\ (tries = 0 => Raw.version >= 3)
  /\ ReadFails
  /\ \E o \in DOMAIN container.entries :
       Lookup(DOMAIN container.entries \ {o}, Tried, 0).error # "NONE"
  /\ TryNext

GuessNothing ==
  /\ reading = "guess" /\ tries = Len(GuessTags)
  /\ Guessed(HunkBytes(Raw))
  /\ UNCHANGED faults

CheckHeader ==
  /\ reading = "checks"
  /\ LET verdict == Verdict(Raw, unitbytes, container.size)
     IN  IF verdict # "NONE" THEN Refuse(verdict)
         ELSE IF Legacy(Raw.version) THEN Go("map") /\ UNCHANGED <<tries, unitbytes, mapping>>
         ELSE /\ reading' = "open" /\ error' = "NONE"
              /\ UNCHANGED <<container, lowram, tries, unitbytes, mapping, call>>
  /\ UNCHANGED faults

-----------------------------------------------------------------------------
(* map_read                                                                *)

Stored(entry) == entry.type \in {"compressed", "uncompressed"}

(* map_extract and map_extract_old, which knows two types by the length.   *)
Extracted(entry) ==
  IF OldMap
    THEN [entry EXCEPT !.type = IF entry.length = HunkBytes(Raw) THEN "uncompressed"
                                                                 ELSE "compressed"]
    ELSE entry

EndOf(entry) == (entry.offset + entry.length) % U64
Ends(entries) == {EndOf(e) : e \in {x \in Range(entries) : Stored(x)}}

Chunk == nextentry + 1 .. (IF nextentry + StackEntries < Raw.totalhunks
                             THEN nextentry + StackEntries ELSE Raw.totalhunks)

ReadChunk ==
  /\ reading = "map" /\ nextentry < Raw.totalhunks
  /\ LET chunk == [i \in 1 .. Cardinality(Chunk) |-> Extracted(container.map[nextentry + i])]
     IN  /\ map' = IF lowram THEN <<>> ELSE map \o chunk
         /\ maxoffset' = Max(Ends(chunk) \cup {maxoffset})
  /\ nextentry' = nextentry + StackEntries
  /\ Go("map")
  /\ UNCHANGED <<tries, unitbytes, faults>>

\* The array of entries, which only this build has, is allocated first.
MapNotAllocated ==
  /\ reading = "map" /\ nextentry = 0 /\ ~lowram
  /\ Refuse("OUT_OF_MEMORY")
  /\ UNCHANGED faults

MapUnreadable ==
  /\ reading = "map" /\ ReadFails
  /\ Refuse(IF nextentry < Raw.totalhunks THEN "READ_ERROR" ELSE "INVALID_FILE")

CheckMap_NotTheEnd ==
  /\ reading = "map" /\ nextentry >= Raw.totalhunks
  /\ IF ~container.cookie THEN Refuse("INVALID_FILE")
     ELSE /\ reading' = "open" /\ error' = "NONE"
          /\ UNCHANGED <<container, lowram, tries, unitbytes, mapping, call>>
  /\ UNCHANGED faults
CheckMap ==
  /\ reading = "map" /\ nextentry >= Raw.totalhunks
  /\ IF ~container.cookie \/ maxoffset > container.size THEN Refuse("INVALID_FILE")
     ELSE /\ reading' = "open" /\ error' = "NONE"
          /\ UNCHANGED <<container, lowram, tries, unitbytes, mapping, call>>
  /\ UNCHANGED faults

-----------------------------------------------------------------------------
(* The handle is open.                                                     *)

Called(c, e) ==
  /\ call' = c /\ error' = e
  /\ UNCHANGED <<container, lowram, reading, tries, unitbytes, mapping>>

Answered(tag, index, found, sound) ==
  IF found.error # "NONE" /\ Raw.version < 3 /\ tag \in {HardDisk, Wildcard} /\ index = 0
    THEN Called([NoCall EXCEPT !.kind = "metadata", !.tag = tag, !.faux = TRUE], "NONE")
    ELSE Called([NoCall EXCEPT !.kind = "metadata", !.tag = tag, !.index = index,
                               !.offset = found.offset, !.sound = sound], found.error)

(* A caller goes through the entries with a tag: index 0, then the next as *)
(* long as there is one.                                                   *)
FirstIndex(tag) ==
  IF call.kind = "metadata" /\ call.tag = tag /\ error = "NONE" /\ ~call.faux
    THEN {0, call.index + 1} ELSE {0}

AskedTags == {Wildcard, HardDisk, "CHTR"}

chd_get_metadata ==
  /\ reading = "open"
  /\ \E tag \in AskedTags : \E index \in FirstIndex(tag) :
       Answered(tag, index, Lookup(DOMAIN container.entries, tag, index), TRUE)
  /\ UNCHANGED faults

MetadataUnreadable ==
  /\ reading = "open" /\ ReadFails
  /\ \E tag \in AskedTags : \E index \in FirstIndex(tag) :
       \/ \E o \in DOMAIN container.entries :
            Answered(tag, index, Lookup(DOMAIN container.entries \ {o}, tag, index), FALSE)
       \/ /\ Lookup(DOMAIN container.entries, tag, index).error = "NONE"
          /\ Called([NoCall EXCEPT !.kind = "metadata", !.tag = tag, !.sound = FALSE],
                    "READ_ERROR")

(* hunk_read_into_memory fetches the entry of a hunk.                      *)
FileEntry(h) == Extracted(container.map[h + 1])

UseEntry ==
  /\ reading = "open" /\ Legacy(Raw.version)
  /\ \E h \in 0 .. Raw.totalhunks - 1 :
       Called([NoCall EXCEPT !.kind = "entry", !.index = h,
                             !.entry = <<IF lowram THEN FileEntry(h) ELSE map[h + 1]>>], "NONE")
  /\ UNCHANGED faults

EntryUnreadable ==
  /\ reading = "open" /\ Legacy(Raw.version) /\ lowram /\ ReadFails
  /\ Called(NoCall, "READ_ERROR")

-----------------------------------------------------------------------------
ContainerInit ==
  /\ container \in Containers /\ lowram \in BOOLEAN
  /\ reading = "start" /\ tries = 0 /\ unitbytes = 0
  /\ map = <<>> /\ nextentry = 0 /\ maxoffset = 0
  /\ faults = 0 /\ error = "none" /\ call = NoCall

ContainerNext ==
  \/ ReadStart \/ StartUnreadable \/ ReadHeader
  \/ GuessFromFaux \/ GuessFromTag \/ GuessUnreadable \/ GuessNothing
  \/ CheckHeader
  \/ ReadChunk \/ MapNotAllocated \/ MapUnreadable \/ CheckMap
  \/ chd_get_metadata \/ MetadataUnreadable
  \/ UseEntry \/ EntryUnreadable

ContainerSpec == ContainerInit /\ [][ContainerNext]_containervars

-----------------------------------------------------------------------------
ContainerTypeOK ==
  /\ container \in Containers /\ lowram \in BOOLEAN
  /\ reading \in {"start", "header", "guess", "checks", "map", "open", "refused"}
  /\ tries \in 0 .. Len(GuessTags) /\ unitbytes \in 0 .. U32 - 1
  /\ Len(map) <= Raw.totalhunks /\ maxoffset \in 0 .. U64 - 1
  /\ faults \in 0 .. MaxFaults

Opened == reading = "open"

\* header.logicalbytes is too large to be divided into hunks in 32 bits.
CountWraps == Raw.logicalbytes > (U32 - 1) * Raw.hunkbytes \/ Raw.logicalbytes + Raw.hunkbytes > U64

(* A handle that is open has a coherent geometry: no size is 0, no size of *)
(* the whole exceeds its bound, and the map of an old file ends within the *)
(* file, so that hunk numbers below totalhunks have an entry.  The hunks   *)
(* of a v5 file cover its logical bytes, but for files of 2^32 hunks and   *)
(* more, whose count is cut and taken all the same.                        *)
(* Not promised, for header_read() does not ask: that a unit of a v5 file  *)
(* is no larger than its hunk, or that a hunk has fewer than 256 of them.  *)
(* hunk_read_into_memory() divides by hunkbytes / unitbytes cut to 8 bits, *)
(* which is 0 when the unit is the larger or the quotient a multiple of    *)
(* 256.                                                                    *)
HeaderIsCoherent ==
  Opened =>
    LET h == Accepted
    IN  /\ h.hunkbytes \in 1 .. MaxHunkSize - 1 /\ h.unitbytes > 0
        /\ h.hunkbytes * h.totalhunks < MaxFileSize
        /\ Legacy(h.version) =>
             /\ h.totalhunks > 0
             /\ h.length + h.totalhunks * EntrySize(h.version) <= container.size
        /\ ~Legacy(h.version) /\ ~CountWraps =>
             h.hunkbytes * h.totalhunks >= h.logicalbytes
        /\ h.version < 3 => /\ h.hunkbytes % h.unitbytes = 0
                            /\ h.unitbytes = SectorLength(Raw)

(* The units of an old file are what its metadata says, when all of it can *)
(* be read and walked: the sectors of the first hard disk entry, else CD   *)
(* frames when there is an entry of a CD, else the hunks.                  *)
FirstWith(tag) ==
  {o \in EntriesFrom(container.entries, MetaOffset(Raw)) :
     /\ container.entries[o].tag = tag
     /\ InFrontOf(container.entries, MetaOffset(Raw), o, tag) = {}}

UnitsAreTheMetadatas ==
  Opened /\ Raw.version \in {3, 4} /\ faults = 0
    /\ IsWalkedWhole(container.entries, MetaOffset(Raw)) =>
    LET disk == UNION {container.entries[o].parses : o \in FirstWith(HardDisk)}
    IN  IF disk # {} THEN unitbytes \in disk
        ELSE IF \E i \in DOMAIN CDTags : FirstWith(CDTags[i]) # {} THEN unitbytes = CDFrameSize
        ELSE unitbytes = HunkBytes(Raw)

(* A lookup is answered with the entry that has index entries of its tag   *)
(* in front of it, and with none only when there is no such entry, or one  *)
(* could not be read.                                                      *)
LookupsAreByPosition ==
  call.kind = "metadata" /\ ~call.faux /\ ~IsCircular(container.entries, MetaOffset(Raw)) =>
    LET list    == container.entries
        matches == {o \in EntriesFrom(list, MetaOffset(Raw)) : Matches(list, o, call.tag)}
    IN  /\ error = "NONE" => /\ call.offset \in matches
                             /\ Cardinality(InFrontOf(list, MetaOffset(Raw), call.offset, call.tag))
                                  = call.index
        /\ error = "METADATA_NOT_FOUND" /\ call.sound => Cardinality(matches) <= call.index

(* Whoever counts an index up comes to an end, also when the list is a     *)
(* circle: no more than MaxEntries lookups succeed.                        *)
CountingUpEnds == call.kind = "metadata" /\ error = "NONE" => call.index < MaxEntries

(* What an accepted map refers to is inside the file, unless offset and    *)
(* length wrap around 2^64, and both builds use the same entries: reading  *)
(* one again delivers what was checked.                                    *)
MapEntriesAreTheFiles ==
  /\ Opened /\ Legacy(Raw.version) =>
       \A h \in 0 .. Raw.totalhunks - 1 :
         LET e == FileEntry(h)
         IN  Stored(e) /\ e.offset + e.length < U64 => e.offset + e.length <= container.size
  /\ call.kind = "entry" =>
       LET e == container.map[call.index + 1]
       IN  call.entry[1] = IF ~OldMap THEN e
                           ELSE [e EXCEPT !.type = IF e.length = HunkBytes(Raw)
                                                     THEN "uncompressed" ELSE "compressed"]

(* What header_read, header_validate and the guess of the unit size let    *)
(* pass can be computed with, and stays so while the handle is used.       *)
OpenedFileIsCoherent == ContainerTypeOK /\ HeaderIsCoherent /\ UnitsAreTheMetadatas

(* metadata_find_entry finds what is there, and comes to an end.           *)
LookupsAreRight == LookupsAreByPosition /\ CountingUpEnds
================================================================================
