------------------------------ MODULE ReadAhead ------------------------------
(***************************************************************************)
(* How libchdr brings the bytes of one hunk into memory: the read-ahead    *)
(* window a caller pays for with chd_set_cache_budget(), the whole-file    *)
(* cache of chd_precache(), and the scratch buffer compressed hunks are    *)
(* read into (hunk_read_compressed, hunk_read_uncompressed, seek_and_read  *)
(* of libchdr_chd.c).                                                      *)
(*                                                                         *)
(* One action is one call of the library.  A transfer from the medium may  *)
(* fail at any time (a seek or a short read), and so may an allocation.    *)
(* A byte is an element of Byte; Junk is the content of memory that was    *)
(* allocated but not filled, and what a copy from beyond a buffer finds.   *)
(*                                                                         *)
(* The two tests of the window add offset and size of a hunk in 64 bits,   *)
(* and the sum may wrap: map_read() lets such an entry of a legacy map     *)
(* through (module Container).  The same sum wraps here (Have).  Every     *)
(* other sum of the code is of places in the file, or is checked.          *)
(*                                                                         *)
(* An operator X_Fault just before X is X as a plausible mistake would     *)
(* write it.  Nothing uses it: it is put in the place of X to see that a   *)
(* property notices.                                                       *)
(***************************************************************************)
EXTENDS Integers, Sequences

CONSTANTS
  U64,            \* uint64_t is arithmetic modulo this
  FileSize,       \* chd->file_size
  File,           \* the contents of the file
  Byte,           \* the values a byte takes
  Junk,           \* an unwritten cell of a buffer
  HunkBytes,      \* header.hunkbytes, the decoded size of a hunk
  LowRam,         \* LOWRAM_TARGET: the scratch buffer grows on demand
  Budgets,        \* the budgets a caller may pass
  Compressed,     \* extents of compressed hunks the map may name
  Uncompressed,   \* extents of COMPRESSION_NONE hunks the map may name
  Raw,            \* extents of the hunks of an uncompressed v5 map
  MaxCalls        \* bound: reads between two settings of the budget

Extent == [offset : 0 .. (U64 - 1), size : 1 .. (U64 - 1)]

ASSUME FileAssumption ==
  /\ FileSize \in Nat \ {0}
  /\ File \in [0 .. (FileSize - 1) -> Byte]
  /\ Junk \notin Byte

ASSUME SizesAssumption ==
  /\ HunkBytes \in Nat \ {0}
  /\ LowRam \in BOOLEAN
  /\ Budgets \subseteq Nat
  /\ MaxCalls \in Nat
  /\ U64 \in Nat /\ FileSize + HunkBytes <= U64

ASSUME MapAssumption ==
  /\ Compressed \subseteq Extent
  /\ Uncompressed \subseteq Extent
  /\ Raw \subseteq Extent

VARIABLES
  file_cache,           \* chd->file_cache # NULL
  compressed_capacity,  \* cells of the scratch buffer chd->compressed
  ra_buf,               \* the window: a function on 0..ra_capacity-1
  ra_capacity,          \* 0 while ra_buf is NULL
  ra_off,               \* file offset of ra_buf[0]
  ra_valid,             \* cells of ra_buf that hold file bytes
  ra_hits, ra_misses,   \* the counters chd_get_cache_stats reports
  calls,                \* reads since chd_set_cache_budget was last called
  io,                   \* the transfers of the last call, in order
  oom,                  \* did an allocation of the last call fail
  reply                 \* the answer to the last read

window == <<ra_buf, ra_capacity, ra_off, ra_valid>>
stats  == <<ra_hits, ra_misses>>
vars   == <<file_cache, compressed_capacity, ra_buf, ra_capacity, ra_off,
            ra_valid, ra_hits, ra_misses, calls, io, oom, reply>>

-----------------------------------------------------------------------------
(* The medium.                                                             *)

InFile(e) == e.offset + e.size <= FileSize

(* Only an entry of a legacy map wraps: offsets of a v5 map have 48 bits.  *)
Wraps(e) == e.offset + e.size >= U64

Slice(e) == [i \in 0 .. (e.size - 1) |-> File[e.offset + i]]

Transfer(at, len, ok) == [at |-> at, len |-> len, ok |-> ok]

(* seek_and_read: a transfer that runs past the end of the file is short   *)
(* and therefore fails; any other may fail or succeed.                     *)
SeekAndRead(at, len) ==
  {t \in {Transfer(at, len, TRUE), Transfer(at, len, FALSE)} :
     t.ok => at + len <= FileSize}

NoReply == [status |-> "none", request |-> [offset |-> 0, size |-> 0], data |-> <<>>]
Answer(e, data) == [status |-> "ok", request |-> e, data |-> data]
Failure(e) == [status |-> "error", request |-> e, data |-> <<>>]

(* The last resort of both readers: fetch exactly the hunk.                *)
DirectRead(e, before) ==
  \E t \in SeekAndRead(e.offset, e.size) :
    /\ io' = Append(before, t)
    /\ reply' = IF t.ok THEN Answer(e, Slice(e)) ELSE Failure(e)

-----------------------------------------------------------------------------
(* The window.                                                             *)

(* have: every byte of the extent is in the window - unless it wraps.      *)
Have(e) ==
  /\ e.offset >= ra_off
  /\ (e.offset + e.size) % U64 <= ra_off + ra_valid

(* memcpy does not know where the window ends.                             *)
Cell(buf, p) == IF p \in DOMAIN buf THEN buf[p] ELSE Junk

FromWindow_Unshifted(e, buf, off) == [i \in 0 .. (e.size - 1) |-> Cell(buf, i)]
FromWindow(e, buf, off) == [i \in 0 .. (e.size - 1) |-> Cell(buf, e.offset - off + i)]

WindowApplies(e) == ra_capacity > 0 /\ e.size <= ra_capacity

(* Bytes held at or after the requested offset: they survive a refill.     *)
Keep(e) ==
  IF e.offset >= ra_off /\ e.offset < ra_off + ra_valid
    THEN ra_off + ra_valid - e.offset
    ELSE 0

(* memmove of the kept bytes to the front of the buffer.                   *)
Slid(e) ==
  [i \in 0 .. (ra_capacity - 1) |->
     IF i < Keep(e) THEN ra_buf[e.offset - ra_off + i] ELSE ra_buf[i]]

FillAt(e) == e.offset + Keep(e)

(* How much a refill asks for: the rest of the buffer or of the file.      *)
Avail_Whole(e) ==
  LET want == ra_capacity IN
    IF FileSize - FillAt(e) > want THEN want ELSE FileSize - FillAt(e)
Avail(e) ==
  LET want == ra_capacity - Keep(e) IN
    IF FileSize - FillAt(e) > want THEN want ELSE FileSize - FillAt(e)

CanRefill(e) == ra_capacity - Keep(e) > 0 /\ FillAt(e) < FileSize

(* The buffer after the transfer behind the kept bytes: filled by it, or   *)
(* left in an unknown state by a transfer that failed half way.            *)
FilledCell(e, i) == Keep(e) <= i /\ i < Keep(e) + Avail(e)

Refilled(e) ==
  [i \in 0 .. (ra_capacity - 1) |->
     IF FilledCell(e, i) THEN File[FillAt(e) + i - Keep(e)] ELSE Slid(e)[i]]

Spoiled(e) ==
  [i \in 0 .. (ra_capacity - 1) |-> IF FilledCell(e, i) THEN Junk ELSE Slid(e)[i]]

(* Serve from a window that now starts at the requested offset, or, when   *)
(* it ends before the hunk does, read the hunk directly.                   *)
ServeOrRead(e, buf, valid, before) ==
  IF e.size <= valid
    THEN /\ reply' = Answer(e, FromWindow(e, buf, e.offset))
         /\ io' = before
    ELSE DirectRead(e, before)

-----------------------------------------------------------------------------
(* hunk_read_compressed: the cases of the window.                          *)

WindowHit(e) ==
  /\ WindowApplies(e)
  /\ Have(e)
  /\ ra_hits' = ra_hits + 1
  /\ reply' = Answer(e, FromWindow(e, ra_buf, ra_off))
  /\ io' = <<>>
  /\ UNCHANGED <<window, ra_misses>>

(* A read behind the window goes to the medium and leaves the window be.   *)
Behind_Never(e) == FALSE
Behind(e) == e.offset < ra_off

BackwardMiss(e) ==
  /\ WindowApplies(e)
  /\ ~Have(e)
  /\ Behind(e)
  /\ ra_misses' = ra_misses + 1
  /\ DirectRead(e, <<>>)
  /\ UNCHANGED <<window, ra_hits>>

ForwardMiss(e) == WindowApplies(e) /\ ~Have(e) /\ ~Behind(e)

RefillSucceeds(e) ==
  /\ ForwardMiss(e)
  /\ CanRefill(e)
  /\ ra_buf' = Refilled(e)
  /\ ra_off' = e.offset
  /\ ra_valid' = Keep(e) + Avail(e)
  /\ ra_misses' = ra_misses + 1
  /\ ServeOrRead(e, ra_buf', ra_valid', <<Transfer(FillAt(e), Avail(e), TRUE)>>)
  /\ UNCHANGED <<ra_capacity, ra_hits>>

(* What a failed refill leaves in ra_valid: nothing, the bytes were moved. *)
ValidAfterFailure_Stale(e) == ra_valid
ValidAfterFailure(e) == 0

RefillFails_Fatal(e) ==
  /\ ForwardMiss(e)
  /\ CanRefill(e)
  /\ ra_buf' = Spoiled(e)
  /\ ra_valid' = ValidAfterFailure(e)
  /\ reply' = Failure(e)
  /\ io' = <<Transfer(FillAt(e), Avail(e), FALSE)>>
  /\ UNCHANGED <<ra_off, ra_capacity, stats>>
RefillFails(e) ==
  /\ ForwardMiss(e)
  /\ CanRefill(e)
  /\ ra_buf' = Spoiled(e)
  /\ ra_valid' = ValidAfterFailure(e)
  /\ DirectRead(e, <<Transfer(FillAt(e), Avail(e), FALSE)>>)
  /\ UNCHANGED <<ra_off, ra_capacity, stats>>

(* Nothing left to fetch behind the kept bytes.                            *)
WindowAtEnd(e) ==
  /\ ForwardMiss(e)
  /\ ~CanRefill(e)
  /\ ra_buf' = Slid(e)
  /\ ra_valid' = Keep(e)
  /\ ra_off' = e.offset
  /\ ServeOrRead(e, ra_buf', ra_valid', <<>>)
  /\ UNCHANGED <<ra_capacity, stats>>

NoWindow(e) ==
  /\ ~WindowApplies(e)
  /\ DirectRead(e, <<>>)
  /\ UNCHANGED <<window, stats>>

ThroughWindow(e) ==
  \/ WindowHit(e)
  \/ BackwardMiss(e)
  \/ RefillSucceeds(e)
  \/ RefillFails(e)
  \/ WindowAtEnd(e)
  \/ NoWindow(e)

-----------------------------------------------------------------------------
(* The readers.                                                            *)

(* A request answered, or refused, without a transfer.                     *)
Refuse(e) ==
  /\ reply' = Failure(e)
  /\ io' = <<>>
  /\ UNCHANGED <<compressed_capacity, window, stats>>

(* Both readers serve from the whole-file cache once there is one.         *)
ReadPrecached(e) ==
  /\ file_cache
  /\ IF InFile(e)
       THEN /\ reply' = Answer(e, Slice(e))
            /\ io' = <<>>
            /\ UNCHANGED <<compressed_capacity, window, stats>>
       ELSE Refuse(e)
  /\ oom' = FALSE

Oversized(e) == e.size > HunkBytes

RejectOversized(e) ==
  /\ ~file_cache
  /\ Oversized(e)
  /\ Refuse(e)
  /\ oom' = FALSE

(* realloc of the scratch buffer fails: the old buffer stays.              *)
ScratchGrowthFails(e) ==
  /\ ~file_cache
  /\ ~Oversized(e)
  /\ e.size > compressed_capacity
  /\ Refuse(e)
  /\ oom' = TRUE

(* Grown to the compressed length at hand, never shrunk.                   *)
GrownScratch_ToFirst(e) ==
  IF compressed_capacity = 0 THEN e.size ELSE compressed_capacity
GrownScratch(e) ==
  IF e.size > compressed_capacity THEN e.size ELSE compressed_capacity

ReadIntoScratch(e) ==
  /\ ~file_cache
  /\ ~Oversized(e)
  /\ compressed_capacity' = (IF LowRam THEN GrownScratch(e) ELSE compressed_capacity)
  /\ ThroughWindow(e)
  /\ oom' = FALSE

hunk_read_compressed(e) ==
  \/ ReadPrecached(e)
  \/ RejectOversized(e)
  \/ LowRam /\ ScratchGrowthFails(e)
  \/ ReadIntoScratch(e)

(* An uncompressed hunk uses the window when it is all there, and never    *)
(* refills it.                                                             *)
ConsumeWindow(e) ==
  /\ ra_capacity > 0
  /\ Have(e)
  /\ reply' = Answer(e, FromWindow(e, ra_buf, ra_off))
  /\ io' = <<>>
  /\ ra_hits' = ra_hits + 1
  /\ UNCHANGED ra_misses

BypassWindow(e) ==
  /\ ~(ra_capacity > 0 /\ Have(e))
  /\ DirectRead(e, <<>>)
  /\ UNCHANGED stats

hunk_read_uncompressed(e) ==
  \/ ReadPrecached(e)
  \/ /\ ~file_cache
     /\ ConsumeWindow(e) \/ BypassWindow(e)
     /\ oom' = FALSE
     /\ UNCHANGED <<compressed_capacity, window>>

(* The hunks of an uncompressed v5 map go straight to the medium, past the *)
(* window and past the whole-file cache.                                   *)
read_raw_hunk(e) ==
  /\ DirectRead(e, <<>>)
  /\ oom' = FALSE
  /\ UNCHANGED <<compressed_capacity, window, stats>>

ReadHunk ==
  /\ calls < MaxCalls
  /\ calls' = calls + 1
  /\ \/ \E e \in Compressed : hunk_read_compressed(e)
     \/ \E e \in Uncompressed : hunk_read_uncompressed(e)
     \/ \E e \in Raw : read_raw_hunk(e)
  /\ UNCHANGED file_cache

-----------------------------------------------------------------------------
(* Tuning.                                                                 *)

(* Releasing is always possible; without a window these are 0 already.     *)
WindowOff ==
  /\ ra_buf' = <<>>
  /\ ra_capacity' = 0
  /\ ra_valid' = 0
  /\ ra_off' = 0

(* A budget below a hunk, or one that cannot be allocated, leaves caching  *)
(* off; the counters restart only with a new window.                       *)
TooSmall(bytes) == bytes < HunkBytes

DisableWindow(bytes) ==
  /\ TooSmall(bytes)
  /\ WindowOff
  /\ oom' = FALSE
  /\ UNCHANGED stats

WindowNotAllocated(bytes) ==
  /\ ~TooSmall(bytes)
  /\ WindowOff
  /\ oom' = TRUE
  /\ UNCHANGED stats

Restarted_Kept(count) == count
Restarted(count) == 0

AllocateWindow(bytes) ==
  /\ ~TooSmall(bytes)
  /\ ra_buf' = [i \in 0 .. (bytes - 1) |-> Junk]
  /\ ra_capacity' = bytes
  /\ ra_valid' = 0
  /\ ra_off' = 0
  /\ ra_hits' = Restarted(ra_hits)
  /\ ra_misses' = Restarted(ra_misses)
  /\ oom' = FALSE

chd_set_cache_budget(bytes) ==
  /\ \/ DisableWindow(bytes)
     \/ WindowNotAllocated(bytes)
     \/ AllocateWindow(bytes)
  /\ calls' = 0
  /\ io' = <<>>
  /\ UNCHANGED <<file_cache, compressed_capacity, reply>>

(* The whole file is read once; a failure leaves no cache behind.          *)
chd_precache ==
  /\ IF file_cache
       THEN oom' = FALSE /\ io' = <<>> /\ UNCHANGED file_cache
       ELSE \/ oom' = TRUE /\ io' = <<>> /\ UNCHANGED file_cache
            \/ \E t \in SeekAndRead(0, FileSize) :
                 oom' = FALSE /\ io' = <<t>> /\ file_cache' = t.ok
  /\ UNCHANGED <<compressed_capacity, window, stats, calls, reply>>

Tune == chd_precache \/ \E bytes \in Budgets : chd_set_cache_budget(bytes)

-----------------------------------------------------------------------------
Init ==
  /\ file_cache = FALSE
  /\ compressed_capacity = (IF LowRam THEN 0 ELSE HunkBytes)
  /\ ra_buf = <<>> /\ ra_capacity = 0 /\ ra_off = 0 /\ ra_valid = 0
  /\ ra_hits = 0 /\ ra_misses = 0
  /\ calls = 0
  /\ io = <<>>
  /\ oom = FALSE
  /\ reply = NoReply

Next == ReadHunk \/ Tune

Spec == Init /\ [][Next]_vars

-----------------------------------------------------------------------------
(* Properties.                                                             *)

(* Every variable keeps its shape; in particular the window never claims   *)
(* more bytes than its buffer has.                                         *)
TypeOK ==
  /\ file_cache \in BOOLEAN
  /\ compressed_capacity \in Nat
  /\ ra_capacity \in Nat
  /\ ra_buf \in [0 .. (ra_capacity - 1) -> Byte \cup {Junk}]
  /\ ra_off \in Nat
  /\ ra_valid \in 0 .. ra_capacity
  /\ ra_hits \in Nat
  /\ ra_misses \in Nat
  /\ calls \in Nat
  /\ io \in Seq([at : Nat, len : Nat, ok : BOOLEAN])
  /\ oom \in BOOLEAN
  /\ reply.status \in {"none", "ok", "error"}

(* What the window says it holds is what the file holds there, after any   *)
(* sequence of refills, slides, failed transfers and changes of budget     *)
(* (the invariant hunk_read_compressed's memcpy relies on).                *)
WindowFaithful ==
  /\ ra_valid > 0 => ra_off + ra_valid <= FileSize
  /\ \A i \in 0 .. (ra_valid - 1) : ra_buf[i] = File[ra_off + i]

(* A transfer inside the file failed, or an allocation did.                *)
Faulty ==
  \/ oom
  \/ \E i \in 1 .. Len(io) : ~io[i].ok /\ io[i].at + io[i].len <= FileSize

Service == INSTANCE FileService
             WITH Requests <- Compressed \cup Uncompressed \cup Raw,
                  faulty   <- Faulty,
                  Wrapping <- {e \in Compressed \cup Uncompressed : Wraps(e)},
                  windowed <- (ra_capacity > 0 /\ ~file_cache)

(* Caching is transparent: hunks are answered exactly as by a service that *)
(* has no cache and fails only for a reason (chd.h, chd_set_cache_budget:  *)
(* "0 reproduces the historical behaviour", and OUT_OF_MEMORY leaves the   *)
(* file "fully usable").  One exception is the code's: a hunk whose offset *)
(* and size wrap is a read error without a window and with the file in     *)
(* memory, but may be answered with other bytes while a window is in use   *)
(* (FileService!Misread).                                                  *)
CachingTransparent == Service!Spec

(* "A failed refill must not fail the read": a read that touched the       *)
(* medium fails only when its last transfer, of exactly the requested      *)
(* bytes, failed.                                                          *)
RefillFailureAbsorbed ==
  [][(ReadHunk /\ reply'.status = "error" /\ io' # <<>>)
        => io'[Len(io')] = Transfer(reply'.request.offset, reply'.request.size, FALSE)]_vars

(* The scratch buffer never receives a hunk larger than it is, and only    *)
(* ever grows (compressed_capacity).                                       *)
ScratchHoldsTheHunk ==
  [][ /\ compressed_capacity' >= compressed_capacity
      /\ \A e \in Compressed :
           (ReadIntoScratch(e) /\ reply'.status = "ok") => e.size <= compressed_capacity' ]_vars

(* chd.h on chd_get_cache_stats: "hit/miss counts since the budget was     *)
(* last set".  That is so while there is a window: its counters count its  *)
(* own reads only, each of them once.                                      *)
StatsOfThisWindow == ra_capacity > 0 => ra_hits + ra_misses <= calls

(* Once the file is cached in memory, a read of a compressed-map hunk      *)
(* needs no transfer and fails only when it lies outside the file.         *)
PrecachedReadsNeedNoMedium ==
  [][(file_cache /\ ReadHunk /\ reply'.request \notin Raw)
        => (io' = <<>> /\ (InFile(reply'.request) => reply'.status = "ok"))]_vars

(* A read of a compressed map fails only for what it could not do without: *)
(* a refill that failed is made good by a direct read, and with the file   *)
(* in memory the medium does not matter.                                   *)
FailuresAreTheReadsOwn == RefillFailureAbsorbed /\ PrecachedReadsNeedNoMedium
=============================================================================
