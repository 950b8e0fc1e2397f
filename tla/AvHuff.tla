-------------------------------- MODULE AvHuff --------------------------------
(***************************************************************************)
(* The AVHuff codec of laserdisc images (libchdr_codec_avhuff.c).  A hunk  *)
(* is metadata, audio and video; audio is FLAC, raw deltas or two streams  *)
(* of delta-RLE codes for the high and the low bytes, video three streams  *)
(* of delta-RLE codes for Y, Cb and Cr.  One codec decodes hunk after      *)
(* hunk and keeps the state of its five delta-RLE decoders.                *)
(*                                                                         *)
(* A byte has ByteValues values and the shortest run is FirstRun long: 256 *)
(* and 8 in the code.  The codes a Huffman tree decodes are whatever the   *)
(* stream holds, and so is whether a tree is bad and where a stream ends.  *)
(***************************************************************************)
EXTENDS Integers, Sequences, FiniteSets, SequencesExt

CONSTANTS
  ByteValues, FirstRun,
  Symbols,     \* the codes that occur
  AvHunks        \* compressed hunks: the fields of the header, complen, destlen
               \* and whether the video says that it is lossless

FlacAudio == 65535    \* treesize 0xffff

ASSUME AvHuffAssumption ==
  /\ ByteValues \in Nat \ {0, 1} /\ FirstRun \in Nat \ {0}
  /\ Symbols \subseteq Nat
  /\ AvHunks # {}
  /\ \A h \in AvHunks :
       /\ {h.metasize, h.channels, h.samples, h.width, h.height, h.complen, h.destlen}
            \subseteq Nat
       /\ h.treesize \in Nat
       /\ h.sizes \in Seq(Nat) /\ Len(h.sizes) = h.channels /\ h.lossless \in BOOLEAN

VARIABLES
  avhunk,      \* the hunk that is decoded
  avphase,     \* "idle", "trees", "audio", "video", "rows" or "end"
  chnum,     \* the audio channel
  sampnum,   \* the sample in it
  dy, dx,    \* the row, and the pair of pixels in it
  srcoffs,   \* where the next part of the hunk starts
  context,   \* the delta-RLE decoders: previous byte and repeats left
  taken,     \* the codes each has taken in this row or channel
  made,      \* the bytes each has produced in this row or channel
  sample,    \* the samples of the channel so far
  before,    \* the bytes this row goes on from, by what the format says
  written,   \* the offsets of the destination written
  writes,    \* how many writes that took
  read,      \* the end of what was read of the source
  answer     \* "none", or what the last hunk was answered with

place   == <<chnum, sampnum, dy, dx>>
streams == <<context, taken, made, sample, before>>
avmemory  == <<written, writes, read>>
avhuffvars    == <<avhunk, avphase, place, srcoffs, streams, avmemory, answer>>

Planes == {"y", "cb", "cr", "ahi", "alo"}

-----------------------------------------------------------------------------
\* x << n
shl(x, n) == LET at[i \in 0 .. n] == IF i = 0 THEN x ELSE 2 * at[i - 1] IN at[n]

code_to_rlecount(code) ==
  LET k == code - ByteValues
  IN  IF k < FirstRun THEN FirstRun + k ELSE shl(2 * FirstRun, k - FirstRun)

Fresh == [prev |-> 0, rlecount |-> 0]
deltarle_reset(c) == Fresh
deltarle_flush_KeepsRun(c) == c
deltarle_flush(c) == [c EXCEPT !.rlecount = 0]

(* The decoder after one byte, which is its prev; code is only looked at   *)
(* when no repeat is left.                                                 *)
deltarle_decode_one(c, code) ==
  IF c.rlecount # 0 THEN [c EXCEPT !.rlecount = @ - 1]
  ELSE IF code < ByteValues THEN [c EXCEPT !.prev = (@ + code) % ByteValues]
  ELSE [c EXCEPT !.rlecount = code_to_rlecount(code) - 1]

\* The codes that may be taken next: none is when a repeat is left.
NextCodes(c) == IF c.rlecount # 0 THEN {0} ELSE Symbols

\* One byte from a decoder, in the state s of all of them.
Decode(s, plane, code) ==
  LET c    == s.context[plane]
      next == deltarle_decode_one(c, code)
  IN  [s EXCEPT !.context[plane] = next,
                !.taken[plane] = IF c.rlecount # 0 THEN @ ELSE Append(@, code),
                !.out[plane] = Append(@, next.prev)]

AvStreams == [context |-> context, taken |-> taken, out |-> made]
SetStreams(s) == context' = s.context /\ taken' = s.taken /\ made' = s.out

Nothing == [p \in Planes |-> <<>>]
Zeros == [p \in Planes |-> 0]

-----------------------------------------------------------------------------
(* avhuff_codec_decompress: the checks of the header.                      *)

Sum(sizes) ==
  LET sum[i \in 0 .. Len(sizes)] == IF i = 0 THEN 0 ELSE sum[i - 1] + sizes[i]
  IN  sum[Len(sizes)]
TreeBytes(h) == IF h.treesize = FlacAudio THEN 0 ELSE h.treesize
HeaderEnd(h) == 10 + 2 * h.channels

TotalSize(h) == HeaderEnd(h) + h.metasize + TreeBytes(h) + Sum(h.sizes)

Payload(h) == h.metasize + 2 * h.channels * h.samples + 2 * h.width * h.height

Verdict(h) ==
  IF h.complen < 8 \/ h.channels > 16 \/ h.complen < HeaderEnd(h) \/ TotalSize(h) >= h.complen
    THEN "INVALID_DATA"
  ELSE IF 12 + Payload(h) > h.destlen THEN "DECOMPRESSION_ERROR"
  ELSE "NONE"

AudioStart(h, ch) == 12 + h.metasize + 2 * h.samples * ch
VideoStart(h) == AudioStart(h, h.channels)

Wrote(bytes) == written' = written \cup bytes /\ writes' = writes + Cardinality(bytes)
ReadTo(end) == read' = IF end > read THEN end ELSE read

AvAnswer(error) ==
  /\ avphase' = "idle" /\ answer' = error
  /\ taken' = Nothing /\ made' = Nothing /\ sample' = <<>> /\ before' = Zeros

RefuseHunk ==
  /\ avphase = "idle"
  /\ \E h \in AvHunks :
       /\ Verdict(h) # "NONE"
       /\ avhunk' = h
       /\ AvAnswer(Verdict(h))
  /\ written' = {} /\ writes' = 0 /\ read' = 0
  /\ UNCHANGED <<place, srcoffs, context>>

(* The header and the metadata are written at once.                        *)
StartHunk ==
  /\ avphase = "idle"
  /\ \E h \in AvHunks :
       /\ Verdict(h) = "NONE"
       /\ avhunk' = h
       /\ written' = 0 .. 12 + h.metasize - 1 /\ writes' = 12 + h.metasize
       /\ read' = HeaderEnd(h) + h.metasize
       /\ srcoffs' = HeaderEnd(h) + h.metasize
       /\ avphase' = IF h.channels = 0 THEN "video"
                   ELSE IF h.treesize \in {0, FlacAudio} THEN "audio" ELSE "trees"
  /\ chnum' = 0 /\ sampnum' = 0 /\ dy' = 0 /\ dx' = 0
  /\ answer' = "none" /\ taken' = Nothing /\ made' = Nothing /\ sample' = <<>> /\ before' = Zeros
  /\ UNCHANGED context

StopHunk(error) ==
  /\ AvAnswer(error)
  /\ UNCHANGED <<avhunk, place, srcoffs, context>>

-----------------------------------------------------------------------------
(* decode_audio and decode_audio_flac                                      *)

ImportAudioTrees ==
  /\ avphase = "trees"
  /\ avphase' = "audio" /\ srcoffs' = srcoffs + avhunk.treesize
  /\ ReadTo(srcoffs + avhunk.treesize)
  /\ UNCHANGED <<avhunk, place, streams, written, writes, answer>>

\* A tree is bad, or the two do not end where the tree bytes do.
AudioTreesAreBad ==
  /\ avphase = "trees"
  /\ StopHunk("INVALID_DATA")
  /\ ReadTo(srcoffs + avhunk.treesize) /\ UNCHANGED <<written, writes>>

ChannelSize == avhunk.sizes[chnum + 1]
ChannelBytes == AudioStart(avhunk, chnum) .. AudioStart(avhunk, chnum) + 2 * avhunk.samples - 1
InChannel == avphase = "audio" /\ chnum < avhunk.channels

NextChannel ==
  /\ chnum' = chnum + 1 /\ sampnum' = 0
  /\ srcoffs' = srcoffs + ChannelSize
  /\ UNCHANGED <<avhunk, dy, dx, avphase, answer>>

FlacChannel ==
  /\ InChannel /\ avhunk.treesize = FlacAudio
  /\ Wrote(ChannelBytes) /\ ReadTo(srcoffs + ChannelSize)
  /\ NextChannel
  /\ UNCHANGED streams

\* The stream is refused, before or after samples were written.
FlacChannelIsBad ==
  /\ InChannel /\ avhunk.treesize = FlacAudio
  /\ ReadTo(srcoffs + ChannelSize)
  /\ \E n \in 0 .. Cardinality(ChannelBytes) :
       Wrote(AudioStart(avhunk, chnum) .. AudioStart(avhunk, chnum) + n - 1)
  /\ StopHunk("DECOMPRESSION_ERROR")

RawTooShort == ChannelSize < 2 * avhunk.samples

RawChannel ==
  /\ InChannel /\ avhunk.treesize = 0 /\ ~RawTooShort
  /\ Wrote(ChannelBytes) /\ ReadTo(srcoffs + 2 * avhunk.samples)
  /\ NextChannel
  /\ UNCHANGED streams

RawChannelIsShort ==
  /\ InChannel /\ avhunk.treesize = 0 /\ RawTooShort
  /\ StopHunk("INVALID_DATA")
  /\ UNCHANGED avmemory

Coded == InChannel /\ avhunk.treesize \notin {0, FlacAudio}

StartCodedChannel(s) ==
  [s EXCEPT !.context["ahi"] = deltarle_reset(@), !.context["alo"] = deltarle_reset(@)]

(* A sample is the sample before plus a delta of two bytes.                *)
Delta(hi, lo) == hi * ByteValues + lo
Plus(value, delta) == (value + delta) % (ByteValues * ByteValues)

CodedSample ==
  /\ Coded /\ sampnum < avhunk.samples
  /\ LET s == IF sampnum = 0 THEN StartCodedChannel(AvStreams) ELSE AvStreams
     IN  \E hi \in NextCodes(s.context["ahi"]), lo \in NextCodes(s.context["alo"]) :
           LET t == Decode(Decode(s, "ahi", hi), "alo", lo)
           IN  /\ SetStreams(t)
               /\ sample' = Append(sample,
                              Plus(IF sampnum = 0 THEN 0 ELSE Last(sample),
                                   Delta(t.context["ahi"].prev, t.context["alo"].prev)))
  /\ LET at == AudioStart(avhunk, chnum) + 2 * sampnum IN Wrote({at, at + 1})
  /\ ReadTo(srcoffs + ChannelSize)
  /\ sampnum' = sampnum + 1
  /\ UNCHANGED <<avhunk, avphase, chnum, dy, dx, srcoffs, before, answer>>

EndCodedChannel ==
  /\ Coded /\ sampnum = avhunk.samples
  /\ NextChannel
  /\ taken' = Nothing /\ made' = Nothing /\ sample' = <<>> /\ before' = Zeros
  /\ UNCHANGED <<context, avmemory>>

\* bitstream_overflow: the codes went on past the bytes of the channel.
CodedChannelOverflows ==
  /\ Coded /\ sampnum = avhunk.samples
  /\ StopHunk("INVALID_DATA")
  /\ UNCHANGED avmemory

HasVideo == avhunk.width > 0 /\ avhunk.height > 0

(* The decoders of the audio, which are allocated when they are first      *)
(* needed, or a bit stream cannot be had.                                  *)
NoMemory ==
  /\ \/ avphase = "trees" /\ ReadTo(srcoffs)
     \/ Coded /\ sampnum = 0 /\ ReadTo(srcoffs)
     \/ avphase = "video" /\ HasVideo /\ avhunk.lossless /\ ReadTo(srcoffs + 1)
  /\ StopHunk("OUT_OF_MEMORY")
  /\ UNCHANGED <<written, writes>>

AudioDone ==
  /\ avphase = "audio" /\ chnum = avhunk.channels
  /\ avphase' = "video"
  /\ UNCHANGED <<avhunk, place, srcoffs, streams, avmemory, answer>>

-----------------------------------------------------------------------------
(* decode_video_lossless                                                   *)

NoVideo ==
  /\ avphase = "video" /\ ~HasVideo
  /\ avphase' = "end"
  /\ UNCHANGED <<avhunk, place, srcoffs, streams, avmemory, answer>>

\* The flag, a tree that is bad, or codes past the end.
VideoIsBad ==
  /\ avphase = "video" /\ HasVideo
  /\ \/ ~avhunk.lossless /\ StopHunk("DECOMPRESSION_ERROR") /\ ReadTo(srcoffs + 1)
     \/ avhunk.lossless /\ StopHunk("INVALID_DATA") /\ ReadTo(avhunk.complen)
  /\ UNCHANGED <<written, writes>>

VideoContexts(c) ==
  [p \in Planes |-> IF p \in {"y", "cb", "cr"} THEN deltarle_reset(c[p]) ELSE c[p]]

ImportVideoTrees ==
  /\ avphase = "video" /\ HasVideo /\ avhunk.lossless
  /\ avphase' = "rows"
  /\ context' = VideoContexts(context)
  /\ ReadTo(avhunk.complen)
  /\ UNCHANGED <<avhunk, place, srcoffs, taken, made, sample, before, written, writes, answer>>

InRow == avphase = "rows" /\ dy < avhunk.height
RowAt == VideoStart(avhunk) + dy * 2 * avhunk.width

PixelPair ==
  /\ InRow /\ dx < avhunk.width \div 2
  /\ \E y0 \in NextCodes(context["y"]), cb \in NextCodes(context["cb"]),
        cr \in NextCodes(context["cr"]) :
       LET s == Decode(Decode(AvStreams, "y", y0), "cb", cb)
       IN  \E y1 \in NextCodes(s.context["y"]) :
             SetStreams(Decode(Decode(s, "y", y1), "cr", cr))
  /\ LET at == RowAt + 4 * dx IN Wrote(at .. at + 3)
  /\ dx' = dx + 1
  /\ UNCHANGED <<avhunk, avphase, chnum, sampnum, dy, srcoffs, sample, before, read, answer>>

EndRow ==
  /\ InRow /\ dx = avhunk.width \div 2
  /\ context' = [p \in Planes |-> IF p \in {"y", "cb", "cr"} THEN deltarle_flush(context[p])
                                                            ELSE context[p]]
  /\ taken' = Nothing /\ made' = Nothing
  /\ before' = [p \in Planes |-> IF made[p] = <<>> THEN before[p] ELSE Last(made[p])]
  /\ dy' = dy + 1 /\ dx' = 0
  /\ UNCHANGED <<avhunk, avphase, chnum, sampnum, srcoffs, sample, avmemory, answer>>

EndVideo ==
  /\ avphase = "rows" /\ dy = avhunk.height
  /\ avphase' = "end"
  /\ UNCHANGED <<avhunk, place, srcoffs, streams, avmemory, answer>>

\* The codes went past the end of the hunk or ended before it.
VideoEndsElsewhere ==
  /\ avphase = "rows" /\ dy = avhunk.height
  /\ StopHunk("INVALID_DATA")
  /\ UNCHANGED avmemory

PadAndAnswer ==
  /\ avphase = "end"
  /\ Wrote(12 + Payload(avhunk) .. avhunk.destlen - 1)
  /\ AvAnswer("NONE")
  /\ UNCHANGED <<avhunk, place, srcoffs, context, read>>

-----------------------------------------------------------------------------
AvHuffInit ==
  /\ avhunk = CHOOSE h \in AvHunks : TRUE
  /\ avphase = "idle"
  /\ chnum = 0 /\ sampnum = 0 /\ dy = 0 /\ dx = 0 /\ srcoffs = 0
  /\ context = [p \in Planes |-> Fresh]
  /\ taken = Nothing /\ made = Nothing /\ sample = <<>> /\ before = Zeros
  /\ written = {} /\ writes = 0 /\ read = 0
  /\ answer = "none"

AvHuffNext ==
  \/ RefuseHunk \/ StartHunk
  \/ ImportAudioTrees \/ AudioTreesAreBad
  \/ FlacChannel \/ FlacChannelIsBad
  \/ RawChannel \/ RawChannelIsShort
  \/ CodedSample \/ EndCodedChannel \/ CodedChannelOverflows
  \/ NoMemory \/ AudioDone
  \/ NoVideo \/ VideoIsBad \/ ImportVideoTrees
  \/ PixelPair \/ EndRow \/ EndVideo \/ VideoEndsElsewhere
  \/ PadAndAnswer

AvHuffSpec == AvHuffInit /\ [][AvHuffNext]_avhuffvars
-----------------------------------------------------------------------------
AvHuffTypeOK ==
  /\ avhunk \in AvHunks
  /\ avphase \in {"idle", "trees", "audio", "video", "rows", "end"}
  /\ \A p \in Planes : /\ context[p].prev \in 0 .. ByteValues - 1
                       /\ context[p].rlecount \in Nat
                       /\ taken[p] \in Seq(Symbols)
                       /\ made[p] \in Seq(0 .. ByteValues - 1)
  /\ answer \in {"none", "NONE", "INVALID_DATA", "DECOMPRESSION_ERROR", "OUT_OF_MEMORY"}

(* Nothing outside the compressed hunk is read and nothing outside the     *)
(* destination is written, and no byte of it twice: metadata, channels,    *)
(* rows and padding do not overlap, whatever the header says.  The byte    *)
(* that says how the video is coded is there when it is looked at: the     *)
(* check of srcoffs before it can be left out, as it is here.              *)
StaysInside ==
  /\ avphase = "video" => srcoffs < avhunk.complen
  /\ read <= avhunk.complen
  /\ written \subseteq 0 .. avhunk.destlen - 1
  /\ writes = Cardinality(written)

(* A hunk that is answered with success is written whole, except that of   *)
(* an odd width the last pixel of every row is left as it was.             *)
LeftOver(h) ==
  IF h.width % 2 = 0 THEN {}
  ELSE {VideoStart(h) + row * 2 * h.width + 2 * h.width - k : row \in 0 .. h.height - 1, k \in 1 .. 2}

HunkIsWritten ==
  answer = "NONE" => written = (0 .. avhunk.destlen - 1) \ LeftOver(avhunk)

(* The run lengths of the format: from FirstRun in steps of one, then      *)
(* doubling from twice FirstRun.                                           *)
DocumentedRun(k) ==
  LET run[i \in 0 .. k] == IF i <= FirstRun THEN FirstRun + i ELSE 2 * run[i - 1]
  IN  run[k]

SpanOf(code) == IF code < ByteValues THEN 1 ELSE DocumentedRun(code - ByteValues)

StartOf(codes, j) == 1 + Sum([i \in 1 .. j - 1 |-> SpanOf(codes[i])])

(* The n bytes that codes stand for after the byte prev: a delta changes   *)
(* the value, a run repeats it.                                            *)
Expansion(codes, prev, n) ==
  [k \in 1 .. n |->
     (prev + Sum([j \in 1 .. Len(codes) |->
                    IF codes[j] < ByteValues /\ StartOf(codes, j) <= k THEN codes[j] ELSE 0]))
     % ByteValues]

\* Enough codes for the bytes, and none that starts behind them.
JustEnough(codes, n) ==
  /\ \A j \in 1 .. Len(codes) : StartOf(codes, j) <= n
  /\ StartOf(codes, Len(codes) + 1) > n

(* Every row decodes to what its own codes say, going on from the last     *)
(* byte of the row above: a run that reaches past the end of its row says  *)
(* nothing about the next, the first row goes on from 0, and the planes    *)
(* share one stream without disturbing each other.                         *)
RowsAreTheirRuns ==
  avphase = "rows" =>
    \A p \in {"y", "cb", "cr"} :
      LET prev == IF dy = 0 THEN 0 ELSE before[p]
      IN  /\ made[p] = Expansion(taken[p], prev, Len(made[p]))
          /\ JustEnough(taken[p], Len(made[p]))

(* The first n samples: each is the one before and its delta.              *)
DeltaSums(hi, lo, n) ==
  LET at[k \in 0 .. n] == IF k = 0 THEN 0 ELSE Plus(at[k - 1], Delta(hi[k], lo[k]))
  IN  [k \in 1 .. n |-> at[k]]

(* A channel is decoded from its own bytes alone: the first sample is the  *)
(* first delta, and nothing is left of an earlier channel or hunk.         *)
SamplesAreTheirDeltas ==
  Coded =>
    /\ \A p \in {"ahi", "alo"} :
         /\ made[p] = Expansion(taken[p], 0, sampnum)
         /\ JustEnough(taken[p], sampnum)
    /\ sample = DeltaSums(made["ahi"], made["alo"], sampnum)

(* An AVHuff hunk is read from inside its bytes, is written whole, and     *)
(* each of its streams starts from nothing and runs as it was coded.       *)
HunkIsItsStreams ==
  AvHuffTypeOK /\ StaysInside /\ HunkIsWritten /\ RowsAreTheirRuns /\ SamplesAreTheirDeltas
================================================================================
