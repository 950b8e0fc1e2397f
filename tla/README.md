# libchdr in TLA+

libchdr reads CHD files: compressed images of disks and discs, cut into hunks
of equal decoded size, with a map that says for every hunk where its bytes are
and how to decode them. This directory holds TLA+ models of the library's
control logic, TLC configurations that check them, and proofs that TLAPS
checks. All line numbers are of `src/src/libchdr_chd.c` unless another file is
named; `PROJECT.json` maps every definition to the lines it models.

The library is single-threaded: a handle is used by one caller at a time and
every call runs to completion. What makes it hard is not interleaving but

- state that outlives a call (window, caches, resumed decoders, lazily
  initialised codecs) and is trusted by a later call, in an order the caller
  chooses;
- calls that fail half way (a seek or read of the medium, an allocation, a
  decoder) after they have changed some of that state;
- two builds: the default one, and `LOWRAM_TARGET` for embedded targets, which
  does on demand what the other does at open;
- boundaries: end of window, buffer, chunk, bucket and file.

So the models let every transfer and every allocation fail at any time, let
the caller ask for anything the map can name in any order, and state
properties over what is left behind.

## 1. The system

| Component | State it keeps | Operations | Interacts with | Correct when |
|---|---|---|---|---|
| Bytes of a hunk (3012-3168, 2259-2334) | `ra_buf/off/valid/capacity`, `ra_hits/misses`, `file_cache`, `compressed` | `hunk_read_compressed`, `hunk_read_uncompressed`, `chd_set_cache_budget`, `chd_get_cache_stats`, `chd_precache` | callbacks of the medium; called by the hunk reader | the window holds the bytes it names, caching never shows in an answer (one exception, section 2), bytes are fetched once |
| Hunk reader (3199-3500, selfcache 464-528) | `selfcache_*`, C stack | `chd_read`, `hunk_read_into_memory`, `selfcache_ensure/lookup/store` | the map, the bytes, the decoders, the parent's reader | an answer is what the map entry means; the recursion ends |
| Low-RAM map builder (1343-1645) | three `v5_build_stream` windows | `v5_build_stream_init/fill/ensure`, `build_v5_map_checkpoints` | bit stream, medium | bits are consumed once, in order, and are the file's |
| v5 map (1100-1340, 1656-1880) | `header.rawmap`; or checkpoints, two bucket windows, `resume` | `decompress_v5_map`, `ensure_v5_map_window`, `v5_map_get_entry` | bit stream, Huffman decoder, hunk reader | an entry decoded on demand is that of the whole map |
| Codec slots (1891-1930, 2130-2245, 2395-2490, 3170-3192, codec files) | `codecintf[]`, `codec_data`, `codec_lazy_initialized`, `subcode_shared` | codec loop of the open, `ensure_codec_ready`, `cd_lend_subcode_inflater`, `chd_close`, `*_codec_init/free` | hunk reader | a codec decodes only with its state; every state is freed once |
| Opening and closing (1977-2250, 2338-2525) | `cookie`, `parent`, `file` of every handle | `chd_open`, `chd_open_file`, `chd_open_core_file`, `chd_open_core_file_callbacks`, `chd_close` | all of the above | files and parents have one owner and are closed once |
| Header (565-760, 2600-2900) | the header | `header_read`, `header_validate`, `header_guess_unitbytes` | open, metadata | no size is zero or beyond its bound, an old map fits in the file, the hunks cover the bytes; exceptions in section 5 |
| Legacy map (v1-v4) | `chd->map`, `maxoffset` | `map_read`, `map_extract`, `map_extract_old`, `map_read_one_legacy` | open, hunk reader | entries are the file's and point into it; both builds use the same |
| Metadata | none | `metadata_find_entry`, `chd_get_metadata` | open, applications | the walk ends and finds the n-th match |
| Bit stream (`libchdr_bitstream.c`) | accumulator, bit count, byte offset | `bitstream_peek/remove/read/flush/seek_bits/overflow` | map, Huffman, AVHuff | the value of the next n bits |
| Huffman decoder (`libchdr_huffman.c`) | `huffnode`, `lookup`, subtables, kept from tree to tree | both tree imports, assignment of canonical codes, table build, `decode_one` | map, "huff" codec, AVHuff | bad trees are refused; decoding inverts the code |
| CD hunks and ECC (`libchdr_cdrom.c`, `libchdr_codec_cd*.c`, CRC in `libchdr_chd.c`) | the hunk in place, or a scratch | `cd_codec_decompress`, `cdfl_codec_decompress`, `ecc_verify/generate/clear`, `crc16` | base codecs, hunk reader | every byte at its place; parity restored |
| AVHuff (`libchdr_codec_avhuff.c`) | five delta-RLE decoders | `avhuff_codec_decompress_data` and its audio and video loops | Huffman, FLAC, hunk reader | the whole hunk is written from what is inside the input |
| FLAC stream (`libchdr_flac.c`, `dr_flac.h`) | the kept arena block, `alloc_failed`, the bit reader's caches, the current frame | `flac_decoder_init/reset/decode_interleaved/finish/free`, callbacks | cdfl, flac, AVHuff | the samples are the frames'; the end is exact |
| FLAC arithmetic (`dr_flac.h`) | none | Rice residuals, prediction, stereo: scalar, SSE, NEON | FLAC stream | every way is the same and lossless |
| FLAC by streaming (`libchdr_flac_microflac.cpp`) | header and payload position, scratch | the same five functions | cdfl, flac | as above, decoded straight into the caller's buffer where it fits |
| Pools of lzma and zlib (`libchdr_codec_lzma.c`, `libchdr_codec_zlib.c`) | `allocptr[]` | `lzma_fast_alloc/free`, `zlib_fast_alloc/free`, `lzma_codec_init` | vendored decoders | like malloc; bounded by the peak; dictionary large enough |

`PROJECT.json` has the same list with the status of every component, and the
hazards, each at the line where it bites.

## 2. The models

Every module is the whole of its component's control. Data is abstract: a byte
or a unit is a member of a small set, a payload is the value it decodes to. An
operator `X_Fault` just before `X` (`Behind_Never` before `Behind`) is `X` as a
plausible mistake would write it; nothing uses it, it is put in the place of X
to see that a property notices. Properties that say one thing of a component
together are conjunctions of named parts (`HunkIsRebuilt == CdHunkTypeOK /\
SourcesStayInside /\ ...`), each with a comment of its own; the runs check the
conjunctions.

### FileService, ReadAhead, Playback: the bytes of a hunk

`FileService` is the abstract specification: a request for an extent of the
file is answered with exactly those bytes, or fails because it is out of range
or oversized, or because the medium or the allocator failed during the call.
One exception is written into it (`Misread`): while a window is in use, a hunk
whose offset and size wrap at 64 bits may be answered with other bytes.
`map_read` takes such an entry of a legacy map (3566), the two tests of the
window add in 64 bits (3054, 3148) and pass it, and `memcpy` copies from beyond
the window, where a direct read fails. `ReadAhead` has the wrap (`Have`, `U64`).

`ReadAhead` is the code. Its variables have the names of the fields of
`struct _chd_file`; `io`, `oom`, `calls` and `reply` record what the last call
did. One action is one call. `hunk_read_compressed(e)` has one alternative per
way through the function: served from the whole-file cache, refused as
oversized, the scratch buffer cannot grow (`LowRam`), window hit, read behind
the window (the window is left alone), refill after sliding the kept bytes,
failed refill (the window is emptied, the hunk is read directly), nothing left
to fetch, no window. `chd_set_cache_budget` and `chd_precache` have theirs.

`Playback` composes it with a caller that plays a file in order, with
excursions to earlier hunks as self-references make them, over every layout.

### HunkService, HunkRead: the content of a hunk

`HunkService` is the abstract specification of `chd_read`: the content of the
hunk or an error, and an error only for a reason.

`HunkRead` is the code for the three formats of maps. The C recursion is a
stack of frames; a step is one call of `hunk_read_into_memory` up to its return
or its nested call, or from the return of a nested call on (`PassOn`,
`StoreTarget`, `FirstHalfFails`, `SecondHalfNext`, `BothHalves`). The cache of
decoded self-reference targets is modelled as the code keeps it: allocated at
first use if memory allows, filled round-robin. `units_in_hunk` keeps eight
bits, as in the code. What an entry means is given by the equations `Meaning`;
`Content` is a solution of them (an assumption, computed for TLC in
`MCHunkRead`). Bringing bytes to memory is one step that works or does not;
that is what `ReadAhead` and its refinement of `FileService` are about.

### BuildStream: the map read through a small chunk

One stream of `build_v5_map_checkpoints`. The bits are abstracted to their
positions: which bits of the blob a hunk was given, and which of them lay past
the window, where `bitstream_peek` makes up zeros. Both passes are there: pass
1, which refuses to go on after an overflow, and pass 2, which does not ask.
Nothing keeps a stream inside its blob when the map is not well-formed: pass 2
may begin past the end and go on from there. `MaxPast` bounds how far that is
followed, and `MaxTree` the Huffman tree that pass 1 begins behind; the proofs
hold for any value of both.

### MapV5, LowramMap: the map, whole and on demand

`MapV5` has both passes of `decompress_v5_map` as recursive functions over
symbols (a Huffman code or a field is one symbol), and the checkpoints.
`LowramMap` is `v5_map_get_entry`: bucket windows replaced on demand, each
replacement free to fail, and the resume cache, with `dangling` recording which
of its streams points into a window that was freed. The reference is the map
decoded at once.

### CodecSlots: the states of the codecs

The init of every codec is a sequence of steps each of which may fail or not,
and the free of every codec says which parts it releases and which it cannot
cope with. The open resolves and initialises slot by slot; in the
`LOWRAM_TARGET` build (`lazybuild`) `ensure_codec_ready` initialises a slot
when a hunk first needs it. `lost` and `again` record what an init overwrote.

### OpenClose: who closes what

One action per call of the application: the four entry points with every point
of failure, and `chd_close`, which takes the chain of parents with it.

### Header, Metadata, Container: what a file says of itself

`Header` is `header_read` and `header_validate` as operators over raw headers,
with arithmetic that wraps at `U32` and `U64` where C's does. `Metadata` is the
walk over the linked list. `Container` opens a file with them, one action per
stage of `chd_open_core_file_callbacks` that reads: header, unit size guessed
from metadata, map in chunks of `StackEntries`, cookie and offsets; then
metadata is looked up and, in a low-RAM build, map entries are read again. Any
read may come up short or fail.

### Allocator, CodecMemory: the pools

`Allocator` is what a decoder expects of its memory functions, `CodecMemory`
the pool that implements it: rounded sizes, the in-use bit, the table with a
bounded number of entries, and the dictionary size `lzma_codec_init` derives.
Which sizes the vendored decoders ask for is external.

### BitSource, Bitstream, BitReader: bits

`BitSource` is a string of bits with a position and zeros behind it.
`Bitstream` is `libchdr_bitstream.c`, function by function, over a word of
`WordBits`. `BitReader` calls it in any order and implements `BitSource`; the
exception for wide fields (section 5) is part of the abstract specification.

### HuffmanTables, HuffmanImport: trees

`HuffmanTables` assigns canonical codes, builds the flat table and the
two-level one of `LOWRAM_TARGET`, and decodes with each. `HuffmanImport` reads
tree after tree into one decoder object, in both encodings, a field per step,
so that the cells an earlier tree left are still there. The reference is the
definition of a canonical prefix code, stated without tables.

### Ecc, CdHunk: CD sectors

`Ecc` has parity over bits (a byte is the set of its one bits), with the code's
arithmetic on four bytes at a time and with the plain definition next to it,
and the CRC-16. `CdHunk` decodes a hunk: the size checks on three lengths of
the stream, the base codec, the frames moved apart from the last to the first
(or through a scratch), subcode, parity, CRC. Bytes are tokens that say where
they come from, so that a byte in the wrong place shows.

### AvHuff

One hunk after the other through one decoder: sizes, audio by channel, video by
row and pair of samples, padding. Every read is an offset checked against the
length of the input, every write a cell of the hunk; the five delta-RLE
decoders are kept as the code keeps them.

### FlacSource, FlacBits, FlacReader: the bits of a FLAC stream

`FlacSource` is the bit string with frames, their CRC bytes and the end that
`flac_decoder_finish` reports. `FlacBits` is the bit reader of dr_flac: cache
line, buffer of lines, bytes set aside at the end, the CRC kept on the side,
over the read callback of `libchdr_flac.c`. `FlacReader` calls it in any order
and implements `FlacSource`. The CRC itself is replaced by the bytes that went
into it.

### FlacFrames, FlacStream: frames to samples

`FlacFrames` has dr_flac's verdicts on a frame: which headers it takes, passes
over or ends at, which subframes it refuses, how many samples of a partition it
writes. `FlacStream` is `libchdr_flac.c` around it: the block kept from hunk to
hunk for dr_flac's one allocation, reset, reading through a stack buffer in two
layouts, close. A sample is a token of frame, channel and index.

### FlacPredict, FlacStereo: the arithmetic

One subframe, decoded side by side by the scalar loop, by SSE4.1 and by NEON,
each with lanes and sums as in the code; one frame, made stereo by each.
Machine words have `WordBits` bits and wrap where the code's do. `IsSubframe` is
what the header of a subframe can state. Shifts by a whole word or more, undefined
in C, are left out: only streams no encoder writes ask for them (a 17-bit side
channel that wastes 16 bits). `ArithmeticIsExact`, in `FlacStereo`, has both.

### Microflac

The loop of the alternative backend around a streaming decoder outside this
repository: that decoder may stop anywhere in a block, run out of memory, refuse
a block or take nothing. `microturn` flips at every call so that a call without
effect is a step.

### MCHandle, MCBits, MCCodecs

These put separate machines into one run: `side` says which one moves, and the
others rest in one initial state. What TLC is given for each machine (files,
headers, hunks, streams, subframes) is defined there too. They share no state in
the code either, or only through calls that the machines model as external.

## 3. What is checked

All runs are exhaustive. Deadlock is checked except where the modelled life
ends (a closed handle, a caller done playing).

| Run | Shows | Bounds and why they are enough |
|---|---|---|
| `readahead` | window holds file bytes; answers are those of `FileService`, its exception included; a failed refill fails no read; counters belong to the window; scratch is large enough; a precached file needs no medium | 8 distinct bytes, hunks of 3, extents that overlap, end at, and cross the end of file, or wrap at 64 bits (`U64` 12); budgets too small, exact, larger; 3 reads between two settings: refill, slide, fail in any order. The `LOWRAM_TARGET` build, which has all steps of the default one and more |
| `playback` | bytes of compressed hunks are fetched once per pass, of uncompressed ones at most twice | every layout of 7 bytes in hunks of 1 to 3, two passes, four budgets |
| `hunk_read` | `chd_read` implements `HunkService`; cached hunks are right; the recursion descends; each read returns | five handles in a tree of depth three, all formats, every entry type, chains of self-references longer than the cache's two slots, corrupt payloads and references out of range |
| `build_stream` | no bit skipped or repeated; made-up bits only for a hunk that starts within the last `Margin` bytes, or past the blob | chunk 5, margin 2, blobs up to 12 bytes: three refills, every bit offset; every start of a stream up to 12 bits (`MaxPast`) past the blob, trees of up to 20 bits (`MaxTree`), half a chunk of 5 bytes |
| `lowram_map` | entries on demand are those of the whole map until a call fails, and after a failure again as soon as they come from a checkpoint; the state to resume is exact | six hunks in three buckets; runs and SELF/PARENT chains that cross bucket borders |
| `handle` | `Container`: an accepted header is coherent, unit sizes are the metadata's, lookups are by position and end on circles, map entries are inside the file and the same in both builds. `OpenClose`: no file closed twice, used after its close, or left open. `CodecSlots`: no decode without state, no double init, no leak (default), a safe close (low-RAM). `CodecMemory` implements `Allocator`, its table does not outgrow the peak | files of all five versions, sound and with each field too small, too large or wrapping (`U32` 64, `U64` 4096), lists of up to 6 entries, one more than a walk takes, with circles, maps longer than a chunk, one fault; two bases, child, grandchild, four handles; three slots (first, middle, last), both builds, every combination of codecs but huff (section 5), low-RAM ones without repetition; three block sizes that round to two, a table of 3 over a heap of 4; hunk sizes on both sides of every dictionary step |
| `bits` | `BitReader` implements `BitSource`, overflow is exact; exactly the bad trees are refused, each window decodes to the code it starts with, in either table; an import ends within its nodes | bytes of 2 bits in a word of 8 (the code: 8 in 32, so the same four bytes to a word), streams of up to 3 bytes, all widths 1 to 8, every order of calls up to 16 bits; all trees of 6 codes of up to 3 bits with a first level of 2, trees one after the other, tables of all shapes |
| `codecs` | `CdHunk`: sources stay inside, moved sectors spare those not yet moved, frames put together are whole, a hunk that passes its CRC is the content. `Ecc`: the fast parity is the plain one; parity and CRC see a change. `AvHuff`: nothing is read or written outside, all is written, rows and channels do not leak into each other. `FlacReader` implements `FlacSource`. `FlacStream`: samples are the frames', the kept block serves, no room is exceeded, each hunk ends. Prediction and stereo are the same in every way and lossless. `Microflac`: blocks have room, a hunk is the stream's, each hunk ends | sector with 3 bytes of sync, 6 P rows of 2 bytes and the rest by the code's formulas, 1 and 3 frames, compressed lengths too short in each way and just long enough, both builds; two byte values and runs from 2 on; FLAC lines of 2 bytes of 2 bits, two to the buffer, so that every field straddles a line, a refill and the end; frames of 2 and 3 samples through a buffer of 6; orders 0 to 13 with words of 8 bits (past the three groups of four lanes), all pairs of 4-bit samples; hunks of 3 samples in blocks of 1 and 2 |
| `build_stream_tail`, `lowram_map_freed`, `codec_slots_wild`, `hunk_read_many_units` | violations, see section 5 | |

Liveness and its fairness: `EveryReadReturns` under weak fairness of `Step` of
`HunkRead`, `HunkEnds` of `HunkStep` of `FlacStream`, `MicroHunkEnds` of
`MicroStep` of `Microflac`. Each says that a call in progress takes its next
step, which the code justifies: it is sequential, and callbacks and vendored
functions return. That it comes to an end is what is checked: a new request is
no part of what is fair, and a loop that calls without progress is a behaviour
that the property would refuse, which its mutant shows.

`MCCodecs` sets `ChecksCrc` TRUE, the build of dr_flac that checks the CRC of a
frame, which has all the outcomes of the other one and more.

## 4. What is proved

TLAPS checks the theorems below, for all values of the constants that satisfy
the named assumptions of the module; TLC evaluates those assumptions for the
constants of every run. An argument by induction, over the hunks of a map, the
entries of a list or the halvings of a number, is one from the least
counterexample (`LeastOf`, `LeastCount`): the recursive functions of the models
are opened there and only there.

**`ReadAheadProofs`** `TypeCorrect`, `WindowIsFaithful`, and
`CachingIsTransparent`: `Spec` of `ReadAhead` implements `FileService`. From
`FileAssumption`, `SizesAssumption`, `MapAssumption`: any file, hunk size,
budgets, extents, either build. The service has the exception of section 2, and
no other: a place in the file and a hunk behind it add up without a wrap
(`SizesAssumption`: file and hunk together are below 2^64), so only the extent
that wraps itself is misjudged (`InFileDoesNotWrap`, `Misled`). The inductive invariant is `TypeOK /\
WindowFaithful`: that the buffer has `ra_capacity` cells and `ra_valid` of them
are claimed is what makes sliding and filling stay in the buffer, and only
together with the content of the claimed cells does it give the content after a
slide. `SlidFaithful` and `RefilledFaithful` are the two lemmas about the
buffer; each alternative of a read then leaves the invariant and an answer
`FileService` allows (`OutcomeAnswers`).

From the same invariant: `StatsAreOfThisWindow` (it carries itself),
`ScratchAlwaysHoldsTheHunk` and `FailuresAreOfTheRead`, two action properties: a
read that reached the medium fails only when its own last transfer did, so a
failed refill never shows, and a precached file needs no medium.
`PlaybackFetchesOnce` is about `Playback`, for every layout, budget and
excursion. `PlayIInv` adds where the window stands relative to the hunk played
next: what was fetched ahead of it was fetched once and is still in the window
(`AheadIsInWindow`), and in the first pass every byte of the window and every
delivered one was fetched by the stream itself, never by an excursion
(`FirstPass`).

**`HunkReadProofs`** `TypeCorrect`, `CacheIsFaithful`, `RecursionDescends`,
`AnswersAreFaithful`, and `ReadsImplementTheService`: `Spec` of `HunkRead`
implements `HunkService`. Assumed besides the module's assumptions: `FewUnits`
(fewer than 256 units to a hunk, without which it is false: run
`hunk_read_many_units`) and `KnownTypes` (no legacy entry of unknown type,
likewise, section 5). The module assumes that `hunkbytes` and `unitbytes` are
the same along a chain of parents, which the code uses and does not check.
The invariant `IInv` adds to the properties what they need of the stack:
`StackOK` (each frame waits for the frame above it, and for what its map entry
names), `TopOK` (the innermost call is about to look at its entry, or a nested
call for what it waits for has just returned that content, or an error with a
reason), `BottomOK` (the outermost call is the request, and a reply is its
content) and `NoneTwice` (no hunk in two cache slots, so a lookup finds
the right one). Each action makes `Progress`, one lemma per action, and
`Progress` preserves `IInv` and implements a step of the service.

**`BitsProofs`** `MadeUpBitsAreTail`, `PositionIsExact`, of
`BuildStream`, for all sizes of chunk, margin and blob, from `StreamAssumption`
and `FieldsFitMargin` (the fields of a hunk fit in one byte less than the margin;
the comment on `V5_BUILD_STREAM_MARGIN` says "comfortably": 1161 refuses fields
of more than 32 bits, so a hunk takes 48 at most and the margin is 16 bytes).
Nothing is assumed of the map: a stream may start and go on past the blob. The
invariant adds
`Ensured` (before a decode a margin is ahead, or the end of the blob is near)
and `TakenBehind` (what was taken ends where the position is); `TypeOK`, that the
window stays inside chunk and blob, is part of the property (`BitsAreTheBlobs`).

Its second part is about `BitReader`: `TheReaderIsExact`, and
`ReaderImplementsSource`: `BitReaderSpec` implements `BitSource`, for every tape,
every width of a byte and an accumulator of at least two of them. The invariant
`ReaderInv` says that the accumulator is the field of `bits` bits at the
position, at its top, with zeros below (`Holds`), and that `bits` is negative
only after a field wider than `Guaranteed`: then the byte loaded next loses the
bits that were already given away as zeros. A field is a number made bit by bit,
so the argument is about powers of two: a field is its first bits and its last
ones (`FieldInTwo`), one more byte appends a field to the accumulator
(`LoadAppends`), also when it is cut on the left, the top of the accumulator is
the field that is asked for (`TopIs`), and a shift drops it (`ShiftedIs`).

Its third part is about `HuffmanTables` and `HuffmanImport`: `TreesAreWhole` and
`EveryWindowDecodes`, for every number of codes, longest code and width of the
first level, every tree and every stream, in both builds. First about the code
of a tree, by lengths from the longest down: the canonical code of a symbol,
times the windows of its length, is the share of all symbols ahead of it
(`StartsAre`, `CodeIsWindow`), so that symbols have windows of their own side by
side (`CodesAreApart`). From that follow what the code checks and what it does
not: a tree that passes the check on the lengths has a multiple of half the
windows (`AllShareIs`, length 1 is exempt), a good one always passes it
(`GoodIsConsistent`), and a passing one is good exactly when no symbol ends
behind the last window, which is where both builds stop (`GoodWhenInside`,
`FullTable`, `ShortWindows`, `LongWindows`). Of the two levels: symbols share a
subtable exactly when they share a prefix (`SubIdsAre`), a short symbol never has
the cell of a prefix (`LevelsDecode`), and there are no more subtables than cells
of the first level (`SubtablesSuffice`). The invariant `ImportInv` adds what was
read so far (`ReadSoFar`, `SmallTreeSoFar`) and that a tree in use is one that was
read to its end (`ResultIs`). Assumed is `ImportAssumption`: more codes than the
runs of a tree start with, room for the subtables of all prefixes, codes of at
most 24 bits.

**`LowramMapProofs`** `WindowsHoldTheirBucket`, `OnDemandEntriesAreExact`,
`ResumedStateIsExact`, for every map, hunk count and stride. First about
`MapV5`: both passes, started at a checkpoint or resumed between two hunks with
the state they had there, give what they give from the first hunk on, and use
no symbol outside of the bucket's windows. The inductive invariant is then that
the windows are those of their buckets, that the state to resume is that of the
whole passes, that it ends where the windows of one bucket end
(`ResumesInItsBucket`: else resuming could run past the symbols it has), and
that a freed window is still pointed to only after a failure
(`DanglingAfterAFailure`).

**`HandleProofs`** has the three machines of the run `handle` that own things.
`FilesAndParentsHaveOneOwner`: the handles that `chd_close` takes down with one
are its family. The invariant is that parents are older than their children and
open, that the families of the handles the application owns are disjoint
(`FamiliesApart`) and together all there is (`FamiliesAreAll`), and that no two
handles have one file. An open puts a handle on top of a family or starts
another, a close takes a whole one away, so nothing is closed twice or
forgotten.
`StatesMadeAndFreedOnce`: for every header, both builds. In the default build
only the first slot of a codec makes a state, in front of the slot the open is
at (`FirstSlotsMakeStates`), so none is overwritten (`NothingAgain`); in the
other one a codec that is ready is so for a slot that is marked
(`LazyIsMarked`); a codec that was ready once keeps what its free needs
(`CallbacksStay`).
`OnlyDoubtfulCodecsLackTheirState` holds for every header and
names the exceptions: "huff", and a codec the lazy build initialises again.
`DecodersAlwaysHaveTheirState` has them excluded by an hypothesis on the
headers, `HeadersWithoutDoubt`, which is the bound of the run (section 5 says
why it is needed).
`PoolsAreSound` and `PoolsLendLikeMalloc`: every block on the heap has one slot
of the table, but those the table had no slot for (`TableIsTheHeap`); a word is
its block's rounded size, plus the mark while it is lent (`WordsTell`); what is
lent is in the table once (`LentOnce`); from that the table implements
`Allocator`. `DictionariesAreTheEncoders` is arithmetic: the smallest
size of two series that is not below the requested one, for every hunk size.

**`ContainerProofs`** `HeadersAreCoherent`, `OpenedFilesAreCoherent`,
`MapsAreInTheirFiles`, `LookupsFindTheirEntries`, `CountingEnds`: for every file
and all widths `U32 <= U64`. The invariant says what each stage of an open has
established (`StagesPassed`: validated header, guessed units, end of map within
the file), that the part of the map read so far was checked (`MapSoFar`), and
what answers were given (`CallsAnswered`). `HeadersAreCoherent` says nothing of
the units of a v5 file but that they are not of size 0 (section 5). The walk over the metadata is
compared with positions on the list, entry by entry; that the list ends or is a
circle is not assumed. `ContainerAssumption` says that fields have their widths and that
the entries of a file are finitely many.

**`FlacProofs`** has both backends of FLAC and the arithmetic. `StreamedHunksAreDecoded`: in the
middle of a hunk the delivered samples are the beginning of the joined blocks,
up to the block in front of the current one or up to what is wanted
(`Delivered`), and the bytes taken are those of the blocks behind plus what was
fed before a pause (`Underway`); swapping the bytes of each sample commutes with
joining. `OneBlockServes`: a stream stands in the kept block or there is none
(`StreamStands`), so closing it gives the block back, and the next reset finds
it free: lent again if large enough, else replaced by a larger one, and nothing
is ever allocated beside it.
`HunksAreTheirFrames`: `DataTypes` (the room of a stream is the domain of its
memory, whatever a frame says of its size, because a larger one is refused),
`FrameStands` (memory has the samples of the frame that is being handed out, as
far as its partitions write them) and `OnTrack` (what is written, then what is
in the small buffer, then what remains of the frame are the samples served, in
order, without a gap).
`PredictionHolds` and `StereoHolds`, together `ArithmeticHolds`, are the
arithmetic, for every width of a word. The invariant `PredictInv` says that each
sample is predicted from those before it (`Decoded`), and where the vectors are
in use that a lane holds the sample its coefficient is for (`LanesAt`), or has a
zero coefficient, or takes no part. Then the sum over the lanes is the scalar
loop's (`SumOfLanes`, order by order up to 12), four samples roll the lanes to
where the next four need them (`LanesAfter`), and the last lanes are the samples
to store (`NewestFour`). What the ways cut off differently is a multiple of a
word (`Multiples`, `ShiftedMultiple`), which the last cut takes off as well. That
the 32-bit sum does not overflow follows from a bound on each product and on how
many there are (`SumBound`, `NarrowSum`). For stereo, words are compared up to
whole words (`Like`): wasted bits shift back (`Restored`), mid/side keeps the bit
that the halving lost in the parity of side (`MidIs`), and both halves of every
way to write a pair are then the pair (`WordsAre`); `StereoInv` says the output is
the pairs so far, interleaved. Assumed is what a stream can state: `IsSubframe`
(order at most 32, precision at most 15, no negative shift, the warm-up and the
coefficients of their own bits, and the sum within two words) and
`FlacStereoAssumption` (16-bit samples, fewer wasted bits than half a word).

**`CodecProofs`** is about CD hunks, for all sizes of sector, subcode and hunk,
and about AVHuff.
`HunksAreRebuilt`: the invariant says up to which frame the decoded sectors are
where the codec left them (`SectorsOf`), that the subcode waits in the scratch
(`SubcodeOf`), and that every frame put together has its sector, its subcode and
its parity (`Assembled`). In place, frame f is written behind all packed sectors
before f, so those stay (`MoveAssembles`), and frames are apart
(`FramesAreApart`). Of the base decoders nothing is assumed but that they fill
what they are given, or fail; FLAC may also deliver a sector short.
`RestoredSectorsVerify`: `ecc_verify` accepts what `ecc_generate` has put back,
for every sector of bytes (`GeneratedVerifies`). Three arguments meet there: no
bit of a lane of a word comes into the next lane, so four rows at a time are
each the recursion over its own bytes (`LanesOfTwice`, `LanesOfRow`); every byte
is the sum of some byte and its double, so the table `ecchigh` has an entry for
each (`DoubleAndItself`); and no parity is written where a later row reads,
except the first parity that the rows of the second kind are to read
(`HasRowsOfP`, `HasRowsOfQ`).
`ChangedSectorIsRefused`: a row's parity is a sum without carries, so a row that
counts the changed byte once, and no other byte that changed, has another sum
(`SumSeesOne`); every data byte is counted once by one row of the first kind
(`RowOfByte`), and a change of a parity byte leaves the row it belongs to without
a change of its sum (`ParityChangeIsSeen`). What mode 2 does not count is left
out by the theorem's hypotheses, as in the code.
`TablesAreTheRegister`: one step of the shift register is linear and only moves
up what does not reach its highest bit (`RegisterOfXor`, `RegisterMovesUp`), so
eight steps after a byte are the old register's eight steps and an entry of the
first table (`TablesAre`), and four bytes at once are the sum of four entries
(`FourBytes`). With both, `ParityAndCrcHold` states the property of the run for
every geometry and every hunk.
That a hunk which passes its CRC is the content (`VerifiedHunkIsTheContent`)
cannot be proved: FLAC's stale bytes could have the same CRC. TLC shows it for
the contents of the run.
`AvHunksAreTheirStreams`: for every header, every list of channel sizes and
every choice of codes. `AvInv` says for each phase of a hunk which bytes are
written: all those in front of a place, except the last pixels of the rows of an
odd width so far, so that no byte is written twice and the padding completes the
rest (`RowsInv`, `EndInv`); where in the source the next tree or channel starts
(`TreesInv`, `AudioInv`, `VideoInv`); and of each delta-RLE stream (`StreamIs`)
that the bytes made are what the codes taken stand for, and that the repeats left
are what the last of them still stands for. One code more changes no byte already
made and keeps every start (`DeltasOfAppend`, `StartsOfAppend`), which is what a stream
needs to go on; `FirstRun + k` and the shift of the code agree with the doubling
of the format (`RunsAreDocumented`).

Helpers that exist so that the above can be said: `Clipped` of `MapV5`,
`FirstOf` of `CodecMemory` (the code's first match as a set of one slot),
`MapEntry` and `ShortFields` of `Container`, the recursive functions of
`FlacFrames`, `FlacStream`, `FlacPredict`, `Microflac`, `Ecc`, `CdHunk`, `AvHuff`,
`Bitstream` and `BitSource`, and `Share` of `HuffmanTables`, in place of folds, powers and
RECURSIVE operators.

Only model-checked:

- liveness (`EveryReadReturns`, `HunkEnds`, `MicroHunkEnds`): fairness and
  ENABLED are out of this prover's reach;
- `FlacReader`: its source is of RECURSIVE operators, which a module with proofs
  cannot reach;
- of `CdHunk`, that a hunk which passes its CRC is the content, which holds of
  the contents of the run and not of all.

## 5. Where the code and its comments disagree

Four runs are expected to find a violation; `PROJECT.json` quotes the text.

- `lowram_map_freed`: a lookup that replaces one window of a bucket and then
  fails leaves the resume cache valid and pointing into freed memory.
- `codec_slots_wild`: in the default build, an open that fails before
  `lzma_codec_init` ran frees the `cdlz` slot through a NULL `Free` pointer.
- `build_stream_tail`: near the end of the blob no refill is made although the
  window ends before the blob; an intact file can be turned down.
- `hunk_read_many_units`: `units_in_hunk` is a `uint8_t`, so 300 units count as
  44. Unit 88 is then taken for the start of parent hunk 2, and that hunk is the
  answer, where units 88 to 299 of hunk 0 and 0 to 87 of hunk 1 are meant.

Met while modelling, and present in the models, without a run of their own:

- A failing `chd_open` (no name, another mode, no such file), or
  `chd_open_core_file` without a file, leaves the parent open; `chd.h:384` says
  it has been closed (`OpenFailsEarly` of `OpenClose`).
- The counters of `chd_get_cache_stats` survive a budget that turns the window
  off (`DisableWindow`, `WindowNotAllocated` of `ReadAhead`); `chd.h:434` says
  "since the budget was last set". `StatsOfThisWindow` says what does hold.
- An uncompressed hunk that is partly in the window is read whole;
  `chd.h:415` says every byte is transferred exactly once.
  `EachByteFetchedOnce` says what does hold.
- Under `LOWRAM_TARGET` a lazy init that fails half way is never freed
  (`NothingLeaks` does not hold there). With one codec in two slots, using the
  later slot first initialises it a second time for the earlier one, and what
  the first init allocated is lost; if that second init fails, the later slot
  decodes with what is left. `InitialisedOnce` says what does hold, and
  the low-RAM headers of `MCHandle` repeat no codec whose init allocates.
- A legacy map entry of type 0 or 6 is answered with success and an unwritten
  buffer (`UnknownType` of `HunkRead`).
- `huff_codec_init` reports success when its decoder was not allocated
  (`Succeeds` of `CodecSlots`); the headers of the runs leave the codec out.
- `chd_read` of an uncompressed v5 map ignores the whole-file cache
  (`read_raw_hunk` of `ReadAhead`).

- Header: `unitbytes` of a v5 file is compared with nothing (2916, "Do not
  validate v5 header"). When a unit is larger than a hunk, or a hunk a multiple
  of 256 units, `units_in_hunk` is 0 and the first entry that names the parent
  divides by it (3464). `HeaderIsCoherent` takes such files, and `HunkRead`
  assumes another number of units (`UnitsAssumption`).
- A legacy entry whose offset and size wrap is answered from beyond the
  read-ahead window (`FileService!Misread`, section 2).
- Header: the hunk count of a v5 file is cut to 32 bits, so a file of 2^32 hunks
  is taken with a wrong count (`HeaderIsCoherent` excepts it). The old file's
  unit size is scanned with `sscanf` from text that need not end.
- Metadata: of a list longer than 65536 entries the rest is never found. The
  made-up hard-disk entry of old files leaves `resultflags` unset.
- The "none" codec of a v1-v4 file has no decompress function: a compressed
  hunk of such a file is answered with success and an unwritten buffer.
- Bit stream: a field of more than 25 bits at an unaligned position can lose its
  low bits, and a flush right after it can go back (`Guaranteed`).
- FLAC: a frame that is refused in the middle of a hunk does not fail the hunk.
  The short read is written out in full with what the buffer held, and only the
  CRC of the hunk tells (`SamplesAreTheFrames` is about reads that were not
  short). A failed decode leaves its stream open until the next reset. A
  partition count that does not divide the block leaves older samples.
  Wasted bits are counted in a `uint8` and wrap at 256 (`WastedBits`), and a
  side channel may waste 16 bits, for a shift by 32, which the models leave out
  (section 2). The `realloc` callback is never called. AVHuff does
  not look at `alloc_failed` and answers `CHDERR_DECOMPRESSION_ERROR` when memory
  is short (`ResetRefused` is of the other two codecs).
- `libchdr_codec_flac.c:51` looks at the first byte before it asks for the
  length.
- `libchdr_flac_microflac.cpp:104-119` and `flac.h:37-39` say that the dr_flac
  backend writes `block_size * num_channels` and would decode larger frames;
  `libchdr_flac.c:251-263` writes `block_size` and refuses them as well.
- `create_huffman_decoder` does not look whether its three allocations
  succeeded (132-143 of `libchdr_huffman.c`); `HuffmanImport` begins with those
  that did. A `NEED_MORE_DATA` that takes no byte of the FLAC header would keep
  `flac_decoder_reset` of the streaming backend asking for ever (179);
  `FeedHeader` assumes that it takes one.
- `chd_read_header` fills only three fields of a `chd_file` on its stack.

## 6. What is not modelled

zlib (miniz), LZMA and Zstandard are vendored: their decoders are steps that
produce the content, something else or an error. So are the parts of dr_flac
that libchdr never calls: seeking, Ogg, metadata blocks, the file API, output
formats other than 16 bits interleaved. The literal tables of ECC and CRC are
replaced by the formulas; they were compared value by value. Hashes, the map CRC
of v5, wording and layout of metadata, ports, benchmarks and build files are left out,
and so are the default stdio callbacks, which hold no state.

A `ReadAhead` map is either raw or not; a run with both kinds of extents has the
behaviours of each. The three streams of the map builder share nothing but the
position of the file, which every refill sets, so one stands for all. The one
codec of a v1 to v4 file has no shared slots and is not in `CodecSlots`. The
"huff" codec is left out of its headers (section 5). Inside AVHuff, FLAC audio is
one step that fills its channel or fails.

## 7. Plan

Done, in this order: the bytes of a hunk, the hunk reader and the map builder,
each with its proofs; the map on demand; codec slots; opening and closing;
header, metadata and legacy map; bit stream; Huffman; CD hunks; AVHuff; FLAC;
the pools; the streaming backend; then the proofs of section 4 about playback,
the map on demand, what a handle owns, opening, FLAC, CD hunks, AVHuff, the bit
reader and the trees. To come:

1. `FlacBits` and `FlacSource` without RECURSIVE operators, so that `FlacReader`
   can be proved to implement its source.
2. A parent of another geometry in `HunkRead`, and map offsets of 48 bits cut
   to 32.
3. The codec of a v1 to v4 file in `CodecSlots`.
