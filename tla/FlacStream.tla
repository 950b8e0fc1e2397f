------------------------------ MODULE FlacStream ------------------------------
(***************************************************************************)
(* A flac_decoder over many hunks (libchdr_flac.c and the part of dr_flac  *)
(* it drives): the block kept from hunk to hunk for dr_flac's one          *)
(* allocation, the stream opened on the generated header, the samples read *)
(* frame by frame through a small buffer, the close.                       *)
(***************************************************************************)
EXTENDS FlacFrames

CONSTANTS
  Hunks,          \* [frames, channels, target, items]: the samples wanted, the
                  \* limit of the block size, and what a search finds
  BufferSamples,  \* 2352 / 2, the stack buffer
  VectorSamples   \* DRFLAC_MAX_SIMD_VECTOR_SIZE / 4

ASSUME FlacStreamAssumption ==
  /\ BufferSamples \in Nat /\ VectorSamples \in Nat \ {0}
  /\ \A h \in Hunks :
       /\ h.frames \in Nat \ {0} /\ h.channels \in 1 .. 2 /\ h.target \in Nat \ {0}
       /\ BufferSamples >= h.channels
       /\ h.items \in Seq(CodedFrames)
       /\ \A k \in DOMAIN h.items : Len(h.items[k].subs) = ChannelsOf(h.items[k])

VARIABLES
  phase,      \* "idle", "read", "frames" or "freed"
  arena,      \* what arena_size says, 0 when there is no block
  busy,       \* arena_busy
  decoder,    \* where drflac stands: "none", "arena" or "other"
  live,       \* blocks allocated and not released
  refused,    \* malloc failed in this hunk
  hunk,       \* the hunk that is decoded
  item,       \* how many of its items were read
  memory,     \* pDecodedSamples
  remaining,  \* pcmFramesRemaining of the frame items[item]
  wanted,     \* num_frames: samples still to be read
  asked,      \* what is left of framesToRead
  buffer,     \* the stack buffer
  filled,     \* framesRead
  hunkout,        \* the samples written, one tuple of channels each
  served,     \* the samples of the frames that were taken, <<item, index>>
  short,      \* a read ended early
  result      \* the last answer

flacstream == <<hunk, item, memory, remaining, wanted, asked, buffer, filled, hunkout, served, short>>
streamvars == <<phase, arena, busy, decoder, live, refused, flacstream, result>>

Junk == <<>>
Lower(a, b) == IF a < b THEN a ELSE b

(* flac_codec_blocksize and cdfl_codec_blocksize: halved until it fits.    *)
codec_blocksize(h) ==
  LET halved[n \in 0 .. h.frames] == IF n <= h.target THEN n ELSE halved[n \div 2]
  IN  halved[h.frames]

(* The samples drflac_open_with_metadata makes room for, and the size of   *)
(* its allocation in samples; the rest of it does not depend on the hunk.  *)
Room(h) == ((codec_blocksize(h) + VectorSamples - 1) \div VectorSamples) * VectorSamples
             * h.channels
AllocationSize(h) == 1 + Room(h)

BufferFrames == BufferSamples \div hunk.channels
FrameNow == hunk.items[item]

-----------------------------------------------------------------------------
(* flac_decoder_free_callback, from drflac_close.                          *)
Closed ==
  /\ live' = IF decoder = "other" THEN live - 1 ELSE live
  /\ busy' = IF decoder = "arena" THEN FALSE ELSE busy

BusyAfterClose_NoClose == busy
BusyAfterClose == busy /\ decoder # "arena"

NoStream == [frames |-> 1, channels |-> 1, target |-> 1, items |-> <<>>]

Opened(h) ==
  /\ hunk' = h /\ item' = 0 /\ remaining' = 0
  /\ memory' = [i \in 0 .. Room(h) - 1 |-> Junk]
  /\ wanted' = h.frames /\ asked' = 0
  /\ buffer' = <<>> /\ filled' = 0 /\ hunkout' = <<>> /\ served' = <<>> /\ short' = FALSE

FitsBits(h) == ~BusyAfterClose /\ arena > 0 /\ arena >= AllocationSize(h)

(* flac_decoder_reset when the kept block serves: the stream before is     *)
(* closed, the block is lent again.  What it holds is of earlier frames.   *)
ResetInArena(h) ==
  /\ phase = "idle" /\ FitsBits(h)
  /\ Opened(h) /\ phase' = "read"
  /\ live' = IF decoder = "other" THEN live - 1 ELSE live
  /\ busy' = TRUE /\ decoder' = "arena" /\ refused' = FALSE
  /\ UNCHANGED <<arena, result>>

(* ... when malloc is called: the first block, or a larger one, is kept    *)
(* and the one before released.                                            *)
Adopts(h) == ~BusyAfterClose /\ AllocationSize(h) > arena
ResetWithMalloc(h) ==
  /\ phase = "idle" /\ ~FitsBits(h)
  /\ Opened(h) /\ phase' = "read"
  /\ live' = live + 1 - (IF decoder = "other" THEN 1 ELSE 0)
                  - (IF Adopts(h) /\ arena > 0 THEN 1 ELSE 0)
  /\ arena' = IF Adopts(h) THEN AllocationSize(h) ELSE arena
  /\ busy' = IF Adopts(h) THEN TRUE ELSE BusyAfterClose
  /\ decoder' = IF Adopts(h) THEN "arena" ELSE "other"
  /\ refused' = FALSE
  /\ UNCHANGED result

(* alloc_failed tells the codec why the reset failed, which is what "flac" *)
(* and "cdfl" answer.  AVHuff does not look at it and answers              *)
(* DECOMPRESSION_ERROR; what happens to the block is the same.             *)
ResetRefused(h) ==
  /\ phase = "idle" /\ ~FitsBits(h)
  /\ Closed /\ decoder' = "none" /\ refused' = TRUE
  /\ result' = "OUT_OF_MEMORY"
  /\ UNCHANGED <<phase, arena, flacstream>>

-----------------------------------------------------------------------------
(* drflac_read_pcm_frames_s16 for the next part of the hunk.               *)
StartRead ==
  /\ phase = "read" /\ wanted > 0
  /\ asked' = Lower(wanted, BufferFrames)
  /\ filled' = 0
  /\ phase' = "frames"
  /\ UNCHANGED <<arena, busy, decoder, live, refused, hunk, item, memory, remaining, wanted,
                 buffer, hunkout, served, short, result>>

NeedsFrame == phase = "frames" /\ asked > 0 /\ remaining = 0

\* What a frame writes: channel c at c times the size of the frame.
Samples(f, k) ==
  LET size == BlockSize(f)
  IN  [p \in UNION {{c * size + i : i \in 0 .. Written(f.subs[c + 1], size) - 1} :
                      c \in DecodedChannels(f)} |-> <<k, p \div size, p % size>>]

\* Also the frame whose CRC is bad or missing has written its samples.
Overwritten(f, k) ==
  IF FrameIsRefused(f, codec_blocksize(hunk), hunk.channels) THEN memory
  ELSE [p \in DOMAIN memory \cup DOMAIN Samples(f, k) |->
          IF p \in DOMAIN Samples(f, k) THEN Samples(f, k)[p] ELSE memory[p]]

ReadFrame(f) ==
  /\ HeaderVerdict(f) = "take"
  /\ FrameVerdict(f, codec_blocksize(hunk), hunk.channels) = "take"
  /\ memory' = Overwritten(f, item + 1)
  /\ remaining' = BlockSize(f)
  /\ served' = served \o [i \in 1 .. BlockSize(f) |-> <<item + 1, i - 1>>]
  /\ UNCHANGED <<asked, short>>

\* Not a frame, or a frame with a bad CRC: the search goes on.
PassOver(f) ==
  /\ \/ HeaderVerdict(f) = "search" /\ UNCHANGED memory
     \/ /\ HeaderVerdict(f) = "take"
        /\ FrameVerdict(f, codec_blocksize(hunk), hunk.channels) = "search"
        /\ memory' = Overwritten(f, item + 1)
  /\ UNCHANGED <<asked, remaining, served, short>>

\* The read ends with what it has; the next one searches on from here.
GiveUp(f) ==
  /\ \/ HeaderVerdict(f) = "end" /\ UNCHANGED memory
     \/ /\ HeaderVerdict(f) = "take"
        /\ FrameVerdict(f, codec_blocksize(hunk), hunk.channels) = "end"
        /\ memory' = Overwritten(f, item + 1)
  /\ asked' = 0 /\ short' = TRUE
  /\ UNCHANGED <<remaining, served>>

ReadItem ==
  /\ NeedsFrame /\ item < Len(hunk.items)
  /\ item' = item + 1
  /\ LET f == hunk.items[item + 1] IN ReadFrame(f) \/ PassOver(f) \/ GiveUp(f)
  /\ UNCHANGED <<phase, arena, busy, decoder, live, refused, hunk, wanted, buffer, filled, hunkout,
                 result>>

StreamEnds ==
  /\ NeedsFrame /\ item = Len(hunk.items)
  /\ asked' = 0 /\ short' = TRUE
  /\ UNCHANGED <<phase, arena, busy, decoder, live, refused, hunk, item, memory, remaining,
                 wanted, buffer, filled, hunkout, served, result>>

\* Sample i of channel c of the frame being read.
Sample(c, i) == memory[c * BlockSize(FrameNow) + (BlockSize(FrameNow) - remaining) + i]

Put(old, at, new) ==
  [j \in 1 .. (IF at + Len(new) > Len(old) THEN at + Len(new) ELSE Len(old)) |->
     IF j > at /\ j <= at + Len(new) THEN new[j - at] ELSE old[j]]

TakeSamples ==
  /\ phase = "frames" /\ asked > 0 /\ remaining > 0
  /\ LET count == Lower(asked, remaining)
     IN  /\ buffer' = Put(buffer, filled,
                          [i \in 1 .. count |-> [c \in 0 .. hunk.channels - 1 |-> Sample(c, i - 1)]])
         /\ filled' = filled + count
         /\ asked' = asked - count
         /\ remaining' = remaining - count
  /\ UNCHANGED <<phase, arena, busy, decoder, live, refused, hunk, item, memory, wanted, hunkout,
                 served, short, result>>

(* flac_decoder_write_callback writes as many samples as were asked for,   *)
(* whatever was read; those not read are what the buffer held.             *)
WriteSamples ==
  /\ phase = "frames" /\ asked = 0 /\ filled > 0
  /\ LET count == Lower(wanted, BufferFrames)
     IN  /\ hunkout' = hunkout \o [i \in 1 .. count |->
                             IF i <= Len(buffer) THEN buffer[i]
                             ELSE [c \in 0 .. hunk.channels - 1 |-> Junk]]
         /\ wanted' = wanted - count
  /\ phase' = "read"
  /\ UNCHANGED <<arena, busy, decoder, live, refused, hunk, item, memory, remaining, asked,
                 buffer, filled, served, short, result>>

NothingRead_Ignored ==
  /\ phase = "frames" /\ asked = 0 /\ filled = 0
  /\ phase' = "read"
  /\ UNCHANGED <<arena, busy, decoder, live, refused, flacstream, result>>
(* Nothing was read: decode_interleaved fails and the stream stays open.   *)
NothingRead ==
  /\ phase = "frames" /\ asked = 0 /\ filled = 0
  /\ phase' = "idle" /\ result' = "DECOMPRESSION_ERROR"
  /\ UNCHANGED <<arena, busy, decoder, live, refused, flacstream>>

(* flac_decoder_finish, by the codec.                                      *)
FinishStream ==
  /\ phase = "read" /\ wanted = 0
  /\ Closed /\ decoder' = "none"
  /\ phase' = "idle" /\ result' = "NONE"
  /\ UNCHANGED <<arena, refused, flacstream>>

flac_decoder_free ==
  /\ live' = live - (IF decoder = "other" THEN 1 ELSE 0) - (IF arena > 0 THEN 1 ELSE 0)
  /\ arena' = 0 /\ busy' = IF arena > 0 THEN FALSE ELSE BusyAfterClose
  /\ decoder' = "none"

Free ==
  /\ phase = "idle"
  /\ flac_decoder_free
  /\ phase' = "freed"
  /\ Opened(NoStream)
  /\ UNCHANGED <<refused, result>>

\* flac_decoder_init.
Start ==
  /\ phase = "freed"
  /\ phase' = "idle" /\ result' = "none" /\ refused' = FALSE
  /\ arena' = 0 /\ busy' = FALSE /\ decoder' = "none"
  /\ UNCHANGED <<live, flacstream>>

FlacStreamInit ==
  /\ phase = "idle" /\ arena = 0 /\ busy = FALSE /\ decoder = "none" /\ live = 0
  /\ refused = FALSE /\ result = "none"
  /\ hunk = NoStream /\ item = 0 /\ remaining = 0
  /\ memory = [i \in 0 .. Room(NoStream) - 1 |-> Junk]
  /\ wanted = 1 /\ asked = 0 /\ buffer = <<>> /\ filled = 0 /\ hunkout = <<>> /\ served = <<>>
  /\ short = FALSE

HunkStep == StartRead \/ ReadItem \/ StreamEnds \/ TakeSamples \/ WriteSamples \/ NothingRead \/ FinishStream

FlacStreamNext ==
  \/ \E h \in Hunks : ResetInArena(h) \/ ResetWithMalloc(h) \/ ResetRefused(h)
  \/ HunkStep \/ Free \/ Start

\* A decode runs on to its end in the thread that called it.
FlacStreamSpec == FlacStreamInit /\ [][FlacStreamNext]_streamvars /\ WF_streamvars(HunkStep)

-----------------------------------------------------------------------------
(* What a cell of dr_flac's buffer, of the stack buffer or of the hunk     *)
(* holds: sample i of channel c of the item k, or something older.         *)
Cells == {Junk} \cup ((1 .. Len(hunk.items)) \X (0 .. hunk.channels - 1) \X Nat)
Tuples == [0 .. hunk.channels - 1 -> Cells]

\* The variables have their types.
FlacStreamTypeOK ==
  /\ phase \in {"idle", "read", "frames", "freed"}
  /\ arena \in Nat /\ busy \in BOOLEAN /\ decoder \in {"none", "arena", "other"} /\ live \in Nat
  /\ item \in 0 .. Len(hunk.items) /\ wanted \in 0 .. hunk.frames
  /\ asked \in 0 .. BufferFrames /\ filled \in 0 .. BufferFrames - asked
  /\ remaining \in 0 .. codec_blocksize(hunk)
  /\ buffer \in Seq(Tuples) /\ Len(buffer) <= BufferFrames
  /\ hunkout \in Seq(Tuples) /\ Len(hunkout) + wanted = hunk.frames

(* As long as no read ended early, the t-th sample written is the t-th     *)
(* sample of the frames that were taken, in every channel; only what a     *)
(* predicted subframe leaves out, whose partitions do not make up the      *)
(* block, may be something older.                                          *)
SamplesAreTheFrames ==
  ~short => /\ Len(hunkout) <= Len(served)
            /\ \A t \in 1 .. Len(hunkout), c \in 0 .. hunk.channels - 1 :
                 LET k == served[t][1]  i == served[t][2]  f == hunk.items[k]
                 IN  i < Written(f.subs[c + 1], BlockSize(f)) => hunkout[t][c] = <<k, c, i>>

(* No frame, taken or not, writes past the samples the stream has room     *)
(* for: the block size of STREAMINFO is the codec's guess, not the file's. *)
FrameStaysInside == DOMAIN memory = 0 .. Room(hunk) - 1

(* Every block that was allocated is the kept one or the stream's own, and *)
(* the kept one is lent exactly while a stream stands in it.               *)
BlocksAreAccountedFor ==
  /\ live = (IF arena > 0 THEN 1 ELSE 0) + (IF decoder = "other" THEN 1 ELSE 0)
  /\ busy <=> decoder = "arena"
  /\ phase = "freed" => live = 0

(* The kept block always serves: a stream, closed or left open by a decode *)
(* that failed, never makes the next one stand outside of it, and never    *)
(* in a block too small for it.                                            *)
KeptBlockServes ==
  /\ decoder # "other"
  /\ phase \in {"read", "frames"} => arena >= AllocationSize(hunk)

(* "flac" and "cdfl" answer out of memory exactly when malloc failed in    *)
(* this hunk, not when it failed in an earlier one, nor for a bad stream.  *)
OutOfMemoryIsReported == phase = "idle" => (refused <=> result = "OUT_OF_MEMORY")

(* A decode comes to an end, whatever the stream.                          *)
HunkEnds == phase \in {"read", "frames"} ~> phase = "idle"

(* What is written is the samples of the frames, in the room there is.     *)
FramesAreDecoded == FlacStreamTypeOK /\ SamplesAreTheFrames /\ FrameStaysInside

(* One block serves hunk after hunk: it is never lent twice, never lost,   *)
(* and a failure to have one is told from a bad stream.                    *)
KeptBlockIsSound == BlocksAreAccountedFor /\ KeptBlockServes /\ OutOfMemoryIsReported
================================================================================
