------------------------------- MODULE HunkRead -------------------------------
(***************************************************************************)
(* chd_read: how hunk_read_into_memory (libchdr_chd.c) finds the content   *)
(* of a hunk by following the references of its map entry - to an earlier  *)
(* hunk of the same file (COMPRESSION_SELF), to the units of a hunk or two *)
(* of the parent (COMPRESSION_PARENT) - and the cache of decoded targets   *)
(* of self-references (selfcache_ensure, _lookup, _store).                 *)
(*                                                                         *)
(* The C recursion is a stack of frames, one per active call.  A step is   *)
(* one call of hunk_read_into_memory up to its return or its nested call,  *)
(* or from the return of a nested call on.  Files are opened child over    *)
(* parent, and the caller may read through any of the handles.             *)
(*                                                                         *)
(* Three formats are read: "v5" compressed, "raw" (an uncompressed v5 map) *)
(* and "legacy" (v1 to v4).  Bringing stored bytes into memory is module   *)
(* ReadAhead; here it works or it does not, and the bytes decode to the    *)
(* payload of the map entry or, where that is corrupt, to nothing the CRC  *)
(* accepts.                                                                *)
(***************************************************************************)
EXTENDS Integers, Sequences

CONSTANTS
  Files,        \* open handles
  NoFile,       \* chd->parent = NULL
  ParentOf,     \* the handle passed as parent when a file was opened
  Depth,        \* a rank of the handles that grows from parent to child
  Format,       \* "v5", "raw" or "legacy"
  TotalHunks,   \* header.totalhunks of each file
  Map,          \* Map[f][h]: the map entry [type, offset, payload] of a hunk
  HunkUnits,    \* header.hunkbytes / header.unitbytes
  Unit,         \* the values a unit takes
  Unwritten,    \* a cell of the destination no call has written
  Undecodable,  \* the payload of an entry whose bytes do not decode
  Content,      \* Content[f][h]: what hunk h of f holds, or Undecodable
  CacheSlots,   \* entries of a self-reference cache
  MapOnDemand,  \* LOWRAM_TARGET: map entries are fetched from the file
  NoRequest

HunksOf(f) == 0 .. (TotalHunks[f] - 1)

(* The content of a hunk some reference names, in the file or not.         *)
At(f, h) == IF h \in HunksOf(f) THEN Content[f][h] ELSE Undecodable

Datum == [0 .. (HunkUnits - 1) -> Unit]

StoredTypes == [v5     |-> {"codec", "none"},
                raw    |-> {"block"},
                legacy |-> {"compressed", "uncompressed", "mini"}]

Types == [v5     |-> StoredTypes.v5 \cup {"self", "parent", "unknown"},
          raw    |-> StoredTypes.raw \cup {"hole"},
          legacy |-> StoredTypes.legacy \cup {"self", "parent", "unknown"}]

Stored(f, e) == e.type \in StoredTypes[Format[f]]

(* A hunk's worth of units, from unit k of one parent hunk into the next.  *)
Joined(a, b, k) ==
  IF a = Undecodable \/ b = Undecodable
    THEN Undecodable
    ELSE [i \in 0 .. (HunkUnits - 1) |->
            IF i < HunkUnits - k THEN a[i + k] ELSE b[i - (HunkUnits - k)]]

UnitsFrom(p, unit) ==
  LET q == unit \div HunkUnits
      k == unit % HunkUnits
  IN  IF k = 0 THEN At(p, q) ELSE Joined(At(p, q), At(p, q + 1), k)

Zeros == [i \in 0 .. (HunkUnits - 1) |-> 0]

(* What a map entry means, in terms of what the hunks it names hold.       *)
Meaning(f, h) ==
  LET e == Map[f][h]
      p == ParentOf[f]
  IN  CASE Stored(f, e) -> e.payload
        [] e.type = "hole" -> IF p = NoFile THEN Zeros ELSE At(p, h)
        [] e.type = "self" -> IF e.offset < h THEN At(f, e.offset) ELSE Undecodable
        [] e.type = "parent" ->
             IF p = NoFile THEN Undecodable
             ELSE IF Format[f] = "legacy" THEN At(p, e.offset)
             ELSE UnitsFrom(p, e.offset)
        [] e.type = "unknown" -> Undecodable

(* A handle's parent was open before it.                                   *)
ASSUME FilesAssumption ==
  /\ NoFile \notin Files
  /\ ParentOf \in [Files -> Files \cup {NoFile}]
  /\ Depth \in [Files -> Nat]
  /\ \A f \in Files : ParentOf[f] # NoFile => Depth[ParentOf[f]] < Depth[f]
  /\ Format \in [Files -> {"v5", "raw", "legacy"}]
  /\ TotalHunks \in [Files -> Nat]

(* hunkbytes and unitbytes are the same along a chain of parents, and the  *)
(* number of units in a hunk, kept in eight bits, is not a multiple of 256 *)
(* (it is divided by).                                                     *)
ASSUME UnitsAssumption ==
  /\ HunkUnits \in Nat \ {0}
  /\ HunkUnits % 256 # 0
  /\ 0 \in Unit
  /\ Unwritten \notin Unit
  /\ Undecodable \notin Datum

ASSUME MapAssumption ==
  \A f \in Files : \A h \in HunksOf(f) :
    /\ Map[f][h].type \in Types[Format[f]]
    /\ Map[f][h].offset \in Nat
    /\ Map[f][h].payload \in Datum \cup {Undecodable}

ASSUME ContentAssumption ==
  \A f \in Files : \A h \in HunksOf(f) :
    /\ Content[f][h] = Meaning(f, h)
    /\ Content[f][h] \in Datum \cup {Undecodable}

ASSUME CacheAssumption == CacheSlots \in Nat \ {0} /\ MapOnDemand \in BOOLEAN

Slots == 0 .. (CacheSlots - 1)
NoHunk == -1

VARIABLES
  selfcache_entries,  \* per file: 0 until a cache was allocated
  selfcache_next,     \* per file: the slot that is filled next
  selfcache_hunk,     \* per file and slot: the hunk it holds
  selfcache_data,     \* per file and slot: its decoded content
  stack,              \* active calls of hunk_read_into_memory, innermost last
  result,             \* what a nested call has just returned
  request,            \* the hunk chd_read was asked for last
  reply,              \* its answer
  faulty              \* did the medium, a decoder or malloc fail under it

selfcache == <<selfcache_entries, selfcache_next, selfcache_hunk, selfcache_data>>
vars == <<selfcache_entries, selfcache_next, selfcache_hunk, selfcache_data,
          stack, result, request, reply, faulty>>

-----------------------------------------------------------------------------
(* Calls and returns.                                                      *)

Pending == [status |-> "none", data |-> Undecodable]
Ok(data) == [status |-> "ok", data |-> data]
Error == [status |-> "error", data |-> Undecodable]
Decoded(payload) == IF payload = Undecodable THEN Error ELSE Ok(payload)

(* `at` says how far a call has come: about to look at its map entry, or   *)
(* waiting for a nested call whose result it will cache ("store"), pass on *)
(* ("pass"), or assemble its own from ("first", "second").                 *)
Frame(f, h) == [file |-> f, hunk |-> h, at |-> "call", held |-> Undecodable]

Top == stack[Len(stack)]
Below == SubSeq(stack, 1, Len(stack) - 1)

(* The innermost call returns: to its caller in the stack or to the user.  *)
Return(value) ==
  /\ stack' = Below
  /\ IF Len(stack) = 1
       THEN reply' = value /\ result' = Pending
       ELSE result' = value /\ UNCHANGED reply

(* It calls again, to go on at `next` with `held` in hand.                 *)
Call(next, held, f, h) ==
  /\ stack' = Append(Append(Below, [Top EXCEPT !.at = next, !.held = held]), Frame(f, h))
  /\ result' = Pending
  /\ UNCHANGED reply

Entering == stack # <<>> /\ Top.at = "call"
Resuming(at) == stack # <<>> /\ Top.at = at /\ result # Pending

Parent == ParentOf[Top.file]
Entry == Map[Top.file][Top.hunk]
EnteringA(type) ==
  /\ Entering
  /\ Top.hunk \in HunksOf(Top.file)
  /\ Entry.type = type

-----------------------------------------------------------------------------
(* selfcache_*                                                             *)

Resident(f, h) == \E i \in Slots : i < selfcache_entries[f] /\ selfcache_hunk[f][i] = h

(* selfcache_lookup: the first slot that names the hunk.                   *)
SlotOf(f, h) ==
  CHOOSE i \in Slots :
    /\ selfcache_hunk[f][i] = h
    /\ \A j \in Slots : j < i => selfcache_hunk[f][j] # h

(* selfcache_ensure: allocate on first use; no cache is not an error.      *)
selfcache_ensure(f) ==
  IF selfcache_entries[f] # 0
    THEN UNCHANGED selfcache
    ELSE \/ UNCHANGED selfcache
         \/ /\ selfcache_entries' = [selfcache_entries EXCEPT ![f] = CacheSlots]
            /\ selfcache_next' = [selfcache_next EXCEPT ![f] = 0]
            /\ selfcache_hunk' = [selfcache_hunk EXCEPT ![f] = [i \in Slots |-> NoHunk]]
            /\ UNCHANGED selfcache_data

(* selfcache_store: round robin, unless the hunk is resident.              *)
selfcache_store_Misfiled(f, h, data) ==
  IF selfcache_entries[f] = 0 \/ Resident(f, h)
    THEN UNCHANGED selfcache
    ELSE LET slot == selfcache_next[f] IN
           /\ selfcache_next' = [selfcache_next EXCEPT ![f] = (slot + 1) % CacheSlots]
           /\ selfcache_hunk' = [selfcache_hunk EXCEPT ![f][slot] = h]
           /\ selfcache_data' =
                [selfcache_data EXCEPT ![f][(slot + 1) % CacheSlots] = data]
           /\ UNCHANGED selfcache_entries
selfcache_store(f, h, data) ==
  IF selfcache_entries[f] = 0 \/ Resident(f, h)
    THEN UNCHANGED selfcache
    ELSE LET slot == selfcache_next[f] IN
           /\ selfcache_next' = [selfcache_next EXCEPT ![f] = (slot + 1) % CacheSlots]
           /\ selfcache_hunk' = [selfcache_hunk EXCEPT ![f][slot] = h]
           /\ selfcache_data' = [selfcache_data EXCEPT ![f][slot] = data]
           /\ UNCHANGED selfcache_entries

-----------------------------------------------------------------------------
(* hunk_read_into_memory, up to its return or its nested call.             *)

OutOfRange ==
  /\ Entering
  /\ Top.hunk \notin HunksOf(Top.file)
  /\ Return(Error)
  /\ UNCHANGED <<selfcache, faulty>>

(* v5_map_get_entry, map_read_one_legacy: the entry is fetched first.      *)
MapEntryNotRead ==
  /\ MapOnDemand
  /\ Entering
  /\ Top.hunk \in HunksOf(Top.file)
  /\ Return(Error)
  /\ faulty' = TRUE
  /\ UNCHANGED selfcache

(* Stored bytes, decoded and checked against the CRC of the map.           *)
ReadStored ==
  /\ Entering
  /\ Top.hunk \in HunksOf(Top.file)
  /\ Stored(Top.file, Entry)
  /\ Return(Decoded(Entry.payload))
  /\ UNCHANGED <<selfcache, faulty>>

(* The transfer or the decoder fails; a "mini" entry needs neither.        *)
StoredNotRead ==
  /\ Entering
  /\ Top.hunk \in HunksOf(Top.file)
  /\ Stored(Top.file, Entry)
  /\ Entry.type # "mini"
  /\ Return(Error)
  /\ faulty' = TRUE
  /\ UNCHANGED selfcache

(* Offset 0 in an uncompressed v5 map: the parent's hunk, or zeros.        *)
ReadHole ==
  /\ EnteringA("hole")
  /\ IF Parent # NoFile
       THEN Call("pass", Undecodable, Parent, Top.hunk)
       ELSE Return(Ok(Zeros))
  /\ UNCHANGED <<selfcache, faulty>>

(* v5 turns an entry of another type down.  The legacy switch has no       *)
(* default: such an entry is answered with a destination left as it was.   *)
UnknownType ==
  /\ EnteringA("unknown")
  /\ Return(IF Format[Top.file] = "legacy"
              THEN Ok([i \in 0 .. (HunkUnits - 1) |-> Unwritten])
              ELSE Error)
  /\ UNCHANGED <<selfcache, faulty>>

Backward_OrItself(f, h, target) == target <= h
Backward(f, h, target) == target < h

SelfNotBackward ==
  /\ EnteringA("self")
  /\ ~Backward(Top.file, Top.hunk, Entry.offset)
  /\ Return(Error)
  /\ UNCHANGED <<selfcache, faulty>>

LegacySelf ==
  /\ EnteringA("self")
  /\ Format[Top.file] = "legacy"
  /\ Backward(Top.file, Top.hunk, Entry.offset)
  /\ Call("pass", Undecodable, Top.file, Entry.offset)
  /\ UNCHANGED <<selfcache, faulty>>

SelfHit ==
  /\ EnteringA("self")
  /\ Format[Top.file] = "v5"
  /\ Backward(Top.file, Top.hunk, Entry.offset)
  /\ Resident(Top.file, Entry.offset)
  /\ Return(Ok(selfcache_data[Top.file][SlotOf(Top.file, Entry.offset)]))
  /\ UNCHANGED <<selfcache, faulty>>

SelfMiss ==
  /\ EnteringA("self")
  /\ Format[Top.file] = "v5"
  /\ Backward(Top.file, Top.hunk, Entry.offset)
  /\ ~Resident(Top.file, Entry.offset)
  /\ selfcache_ensure(Top.file)
  /\ Call("store", Undecodable, Top.file, Entry.offset)
  /\ UNCHANGED faulty

ParentMissing ==
  /\ EnteringA("parent")
  /\ Parent = NoFile
  /\ Return(Error)
  /\ UNCHANGED <<selfcache, faulty>>

LegacyParent ==
  /\ EnteringA("parent")
  /\ Format[Top.file] = "legacy"
  /\ Parent # NoFile
  /\ Call("pass", Undecodable, Parent, Entry.offset)
  /\ UNCHANGED <<selfcache, faulty>>

(* uint8_t units_in_hunk = hunkbytes / unitbytes                           *)
units_in_hunk == HunkUnits % 256
unit_in_hunk == Entry.offset % units_in_hunk
HunkContaining == Entry.offset \div units_in_hunk

V5Parent ==
  /\ EnteringA("parent")
  /\ Format[Top.file] = "v5"
  /\ Parent # NoFile

ParentAligned ==
  /\ V5Parent
  /\ unit_in_hunk = 0
  /\ Call("pass", Undecodable, Parent, HunkContaining)
  /\ UNCHANGED <<selfcache, faulty>>

ParentUnaligned ==
  /\ V5Parent
  /\ unit_in_hunk # 0
  /\ Call("first", Undecodable, Parent, HunkContaining)
  /\ UNCHANGED <<selfcache, faulty>>

(* malloc of the buffer between the two: the nested call refuses NULL.     *)
ParentNoBuffer ==
  /\ V5Parent
  /\ unit_in_hunk # 0
  /\ Return(Error)
  /\ faulty' = TRUE
  /\ UNCHANGED selfcache

-----------------------------------------------------------------------------
(* hunk_read_into_memory, after a nested call.                             *)

PassOn ==
  /\ Resuming("pass")
  /\ Return(result)
  /\ UNCHANGED <<selfcache, faulty>>

(* Only what was read is stored; an error goes up as it came.              *)
StoreTarget ==
  /\ Resuming("store")
  /\ IF result.status = "ok"
       THEN selfcache_store(Top.file, Entry.offset, result.data)
       ELSE UNCHANGED selfcache
  /\ Return(result)
  /\ UNCHANGED faulty

FirstHalfFails_Again ==
  /\ Resuming("first")
  /\ result.status = "error"
  /\ Call("first", Undecodable, Parent, HunkContaining)
  /\ UNCHANGED <<selfcache, faulty>>
FirstHalfFails ==
  /\ Resuming("first")
  /\ result.status = "error"
  /\ Return(Error)
  /\ UNCHANGED <<selfcache, faulty>>

SecondHalfNext ==
  /\ Resuming("first")
  /\ result.status = "ok"
  /\ Call("second", result.data, Parent, HunkContaining + 1)
  /\ UNCHANGED <<selfcache, faulty>>

(* The two memcpy: they cover units_in_hunk units of the destination.      *)
Assembled_Swapped(a, b) ==
  [i \in 0 .. (HunkUnits - 1) |->
     IF i < unit_in_hunk THEN b[i]
     ELSE IF i < units_in_hunk THEN a[i]
     ELSE Unwritten]
Assembled_FirstOnly(a, b) ==
  [i \in 0 .. (HunkUnits - 1) |->
     IF i < units_in_hunk - unit_in_hunk THEN a[i + unit_in_hunk] ELSE Unwritten]
Assembled(a, b) ==
  [i \in 0 .. (HunkUnits - 1) |->
     IF i < units_in_hunk - unit_in_hunk THEN a[i + unit_in_hunk]
     ELSE IF i < units_in_hunk THEN b[i - (units_in_hunk - unit_in_hunk)]
     ELSE Unwritten]

BothHalves ==
  /\ Resuming("second")
  /\ Return(IF result.status = "ok"
              THEN Ok(Assembled(Top.held, result.data))
              ELSE Error)
  /\ UNCHANGED <<selfcache, faulty>>

Step ==
  \/ OutOfRange \/ MapEntryNotRead
  \/ ReadStored \/ StoredNotRead \/ ReadHole \/ UnknownType
  \/ SelfNotBackward \/ LegacySelf \/ SelfHit \/ SelfMiss
  \/ ParentMissing \/ LegacyParent
  \/ ParentAligned \/ ParentUnaligned \/ ParentNoBuffer
  \/ PassOn \/ StoreTarget \/ FirstHalfFails \/ SecondHalfNext \/ BothHalves

-----------------------------------------------------------------------------
(* The caller may ask for any hunk of any handle, and for one too many;    *)
(* chd_read's own range check is that of the call it makes.                *)
Requests == UNION {[file : {f}, hunk : 0 .. TotalHunks[f]] : f \in Files}

chd_read(f, h) ==
  /\ stack = <<>>
  /\ stack' = <<Frame(f, h)>>
  /\ request' = [file |-> f, hunk |-> h]
  /\ reply' = Pending
  /\ result' = Pending
  /\ faulty' = FALSE
  /\ UNCHANGED selfcache

Init ==
  /\ selfcache_entries = [f \in Files |-> 0]
  /\ selfcache_next = [f \in Files |-> 0]
  /\ selfcache_hunk = [f \in Files |-> [i \in Slots |-> NoHunk]]
  /\ selfcache_data = [f \in Files |-> [i \in Slots |-> Undecodable]]
  /\ stack = <<>>
  /\ result = Pending
  /\ request = NoRequest
  /\ reply = Pending
  /\ faulty = FALSE

Next ==
  \/ Step /\ UNCHANGED request
  \/ \E f \in Files : \E h \in 0 .. TotalHunks[f] : chd_read(f, h)

Spec == Init /\ [][Next]_vars

(* The code is sequential and a callback of the medium returns: a call     *)
(* that can go on does.                                                    *)
FairSpec == Spec /\ WF_vars(Step /\ UNCHANGED request)

-----------------------------------------------------------------------------
(* Properties.                                                             *)

Frames == [file : Files, hunk : Nat, at : {"call", "store", "pass", "first", "second"},
           held : Datum \cup {Undecodable}]

Values == [status : {"none", "ok", "error"}, data : Datum \cup {Undecodable}]

(* The shapes of the variables: in particular a data buffer handed on      *)
(* between calls is a hunk with every unit written, or nothing.            *)
TypeOK ==
  /\ selfcache_entries \in [Files -> {0, CacheSlots}]
  /\ selfcache_next \in [Files -> Slots]
  /\ selfcache_hunk \in [Files -> [Slots -> Nat \cup {NoHunk}]]
  /\ selfcache_data \in [Files -> [Slots -> Datum \cup {Undecodable}]]
  /\ stack \in Seq(Frames)
  /\ result \in Values
  /\ request \in Requests \cup {NoRequest}
  /\ reply \in Values
  /\ faulty \in BOOLEAN

(* Whatever calls failed half way, a slot of the cache that names a hunk   *)
(* holds that hunk's content (selfcache_store runs after success only).    *)
CacheFaithful ==
  \A f \in Files : \A i \in Slots :
    (i < selfcache_entries[f] /\ selfcache_hunk[f][i] # NoHunk) =>
      /\ selfcache_hunk[f][i] \in HunksOf(f)
      /\ selfcache_data[f][i] = Content[f][selfcache_hunk[f][i]]
      /\ selfcache_data[f][i] # Undecodable

(* Every nested call is for an earlier hunk of the file or for one of its  *)
(* parent's: "a crafted map would recurse forever" otherwise.              *)
CallsDescend ==
  \A i \in 1 .. (Len(stack) - 1) :
    \/ /\ stack[i + 1].file = stack[i].file
       /\ stack[i + 1].hunk < stack[i].hunk
    \/ /\ stack[i + 1].file = ParentOf[stack[i].file]
       /\ Depth[stack[i + 1].file] < Depth[stack[i].file]

(* What chd_read reports as read is the content of the hunk asked for.     *)
AnswersFaithful ==
  reply.status = "ok" => reply.data = At(request.file, request.hunk)

(* References, their recursion and their cache do not show: chd_read is    *)
(* HunkService.  In particular a cache that cannot be allocated fails no   *)
(* read ("callers must treat failure as just don't cache, never fatal").   *)
Service == INSTANCE HunkService WITH
             Content <- [r \in Requests |-> At(r.file, r.hunk)]

ReadsAreTransparent == Service!Spec

(* Every read comes back to the caller, however its references chain.      *)
EveryReadReturns == (stack # <<>>) ~> (stack = <<>>)

=============================================================================
