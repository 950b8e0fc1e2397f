------------------------------- MODULE MCCodecs -------------------------------
(***************************************************************************)
(* What makes a hunk of its compressed bytes, in one run: CD frames, the   *)
(* AVHuff codec, the parts of the FLAC decoder, and the streaming backend  *)
(* for FLAC.  They are separate machines: in a behaviour one of them moves *)
(* and the others rest.                                                    *)
(***************************************************************************)
EXTENDS CdHunk, AvHuff, FlacReader, FlacStream, FlacPredict, FlacStereo,
        Microflac

(* CdHunk: the parity left out of no frame, of the last, or of every one.  *)
MCFlags(n) == {{}, {n - 1}, 0 .. n - 1}

(***************************************************************************)
(* Hunks of every kind of audio, of even and odd width, whole or too long  *)
(* or too short by a byte, on either side.                                 *)
(***************************************************************************)
AvHunk(meta, samples, width, height, treesize, sizes, video, spare) ==
  [metasize |-> meta, channels |-> Len(sizes), samples |-> samples,
   width |-> width, height |-> height, treesize |-> treesize, sizes |-> sizes,
   complen |-> 10 + 2 * Len(sizes) + meta + (IF treesize = FlacAudio THEN 0 ELSE treesize)
                 + Sum(sizes) + video,
   destlen |-> 12 + meta + 2 * Len(sizes) * samples + 2 * width * height + spare,
   lossless |-> TRUE]

Video == {AvHunk(1, 0, 4, 2, 0, <<>>, 3, 2), AvHunk(0, 0, 3, 2, 0, <<>>, 3, 0)}
Audio == {AvHunk(0, 3, 0, 2, 1, <<2, 0>>, 1, 1), AvHunk(1, 2, 2, 2, FlacAudio, <<3, 0>>, 2, 0),
          AvHunk(2, 2, 0, 0, 0, <<4, 5>>, 1, 3)}
Bad == {AvHunk(2, 2, 0, 0, 0, <<3, 5>>, 1, 3), AvHunk(3, 2, 0, 0, 0, <<4, 5>>, 0, 3),
        AvHunk(3, 0, 2, 2, 0, <<>>, 3, -1), AvHunk(1, 2, 2, 2, 3, <<3>>, 0, 0),
        [AvHunk(0, 0, 2, 1, 0, <<>>, 1, 0) EXCEPT !.lossless = FALSE],
        [AvHunk(0, 0, 2, 1, 0, <<>>, 1, 0) EXCEPT !.complen = 7],
        AvHunk(0, 0, 2, 1, 0, [i \in 1 .. 17 |-> 0], 3, 0)}

MCAvHunks == Video \cup Audio \cup Bad

Bytes(n) == [0 .. n - 1 -> 0 .. 2 ^ ByteBits - 1]
\* Streams shorter than the buffer, and longer ones that start with a frame.
MCStreams == UNION {Bytes(n) : n \in 0 .. 3}
             \cup {d \in UNION {Bytes(n) : n \in 4 .. 6} : d[0] = 3 /\ d[1] = 0 /\ d[2] < 2}
             \cup {d \in Bytes(7) : d[0] = 3 /\ d[1] = 0 /\ d[2] < 2 /\ d[3] = 1 /\ d[4] = 2}

(* FlacStream with frames of two or three samples.                         *)
Sub == [type |-> 1, wasted |-> 0, precision |-> 0, shift |-> 0, method |-> 0, partition |-> 0,
        cut |-> FALSE]
Fixed(order, partition) == [Sub EXCEPT !.type = 8 + order, !.partition = partition]
Lpc(order, shift) == [Sub EXCEPT !.type = 31 + order, !.shift = shift, !.precision = 14]

Frame(size, subs) ==
  [reserved |-> 0, reserved2 |-> 0, size |-> 6, extra |-> size - 1, rate |-> 9,
   assignment |-> IF Len(subs) = 1 THEN 0 ELSE 10, bps |-> 4, number |-> "good", crc8 |-> TRUE,
   subs |-> subs, crc16 |-> "good"]

Two == Frame(2, <<Sub, Fixed(1, 0)>>)
Three == Frame(3, <<[Sub EXCEPT !.type = 0]>>)
Odd == Frame(3, <<Fixed(0, 1)>>)
One == Frame(1, <<Lpc(1, 0)>>)

HunkOf(n, c, target, items) == [frames |-> n, channels |-> c, target |-> target, items |-> items]

Faulty ==
  {[Two EXCEPT !.reserved = 1], [Two EXCEPT !.bps = 1], [Two EXCEPT !.crc8 = FALSE],
   [Two EXCEPT !.crc16 = "bad"], [Two EXCEPT !.crc16 = "cut"], [Two EXCEPT !.number = "cut"],
   [Two EXCEPT !.subs = <<Sub, [Sub EXCEPT !.wasted = 17]>>],
   [Two EXCEPT !.subs = <<Sub, [Sub EXCEPT !.wasted = 256]>>],
   [Two EXCEPT !.subs = <<[Sub EXCEPT !.type = 65], Sub>>],
   [Two EXCEPT !.subs = <<Fixed(3, 0), Sub>>], Frame(3, <<Sub, Sub>>), Three}

UpToThree(S) == UNION {[1 .. k -> S] : k \in 1 .. 3}

Stereo == {Two, [Two EXCEPT !.crc16 = "bad"], [Two EXCEPT !.crc16 = "cut"], Frame(3, <<Sub, Sub>>)}
Mono == {Three, Odd, [Odd EXCEPT !.subs = <<Lpc(1, -1)>>]}

MCFlacHunks ==
  {HunkOf(4, 2, 2, s) : s \in UpToThree(Stereo)} \cup {HunkOf(6, 1, 3, s) : s \in UpToThree(Mono)}
  \cup {HunkOf(4, 2, 2, <<Two, f, Two>>) : f \in Faulty}
  \cup {HunkOf(5, 1, 3, <<One, One, One, One, One>>), HunkOf(3, 1, 3, <<Odd>>)}

(* FlacPredict with words of 8 bits.                                       *)
Least(bits) == -2 ^ (bits - 1)
Mixed(n, bits, seed) == [j \in 1 .. n |-> Signed(3 * j * j + seed, bits)]
Lowest(n, bits) == [j \in 1 .. n |-> Least(bits)]

MCSubframes ==
  {[bits |-> bits, order |-> n, precision |-> p, shift |-> shift, coefficients |-> c,
    warmup |-> w, param |-> param,
    parts |-> [j \in 1 .. 6 |-> <<(j * seed) % 3, (5 * j + seed) % 8>>]] :
     <<n, bits, p, shift, param, seed, c, w>> \in
       UNION {{n} \X {bits} \X {p} \X {0, 1} \X {0, 2} \X (0 .. 3)
                \X {Mixed(n, p, 1), Lowest(n, p)} \X {Mixed(n, bits, 2), Lowest(n, bits)} :
                n \in {0, 1, 2, 3, 4, 5, 7, 8, 9, 12, 13}, bits \in {3, 5}, p \in {2, 4}}}

(* FlacStereo with words of 8 bits: all left and right samples of 4 bits,  *)
(* in the first place of a run of six.                                     *)
MCPairs ==
  {[assignment |-> a, wasted0 |-> u, wasted1 |-> v,
    pcm |-> [i \in 1 .. 6 |-> <<Int16(l + (i - 1) * d), Int16(r - (i - 1) * d)>>]] :
     <<a, u, v, l, r, d>> \in
       {"left_side", "right_side", "mid_side", "independent"} \X (0 .. 1) \X (0 .. 2)
         \X (-8 .. 7) \X (-8 .. 7) \X {3, 4}}

(* Streams of blocks of one or two samples in two or three bytes, for a    *)
(* hunk of three samples: whole, cut short, with bytes behind, with a bad  *)
(* block, and with a block larger than the header says.                    *)
MicroBlock(n, good) == [samples |-> n, bytes |-> n + 1, good |-> good]
MicroStream(maxblock, blocks, spare) ==
  [want |-> 3, maxblock |-> maxblock, blocks |-> blocks, swap |-> maxblock = 2,
   length |-> FoldLeft(LAMBDA sum, b : sum + b.bytes, 0, blocks) + spare]
MicroSound(counts) == [i \in DOMAIN counts |-> MicroBlock(counts[i], TRUE)]

MCMicroHunks ==
  {MicroStream(maxblock, MicroSound(counts), spare) :
     maxblock \in 2 .. 3, spare \in {-1, 0, 2},
     counts \in {<<1>>, <<1, 1, 2>>, <<2, 2>>}}
  \cup {MicroStream(1, MicroSound(<<1, 2>>), 0),
        MicroStream(2, <<MicroBlock(2, TRUE), MicroBlock(2, FALSE)>>, 0)}

-----------------------------------------------------------------------------
VARIABLE side

\* Where a machine that rests stays.
RestingSubframe == CHOOSE s \in Subframes : TRUE
RestingPair     == CHOOSE c \in Pairs : Fits(c)

CdAtRest      == inplace = TRUE /\ frames = 1 /\ CdHunkInit
ReaderAtRest  == stream = [i \in {} |-> 0] /\ FlacReaderInit
PredictAtRest == sub = RestingSubframe /\ FlacPredictInit
StereoAtRest  == coded = RestingPair /\ FlacStereoInit

CodecsInit ==
  /\ side \in {"cd", "avhuff", "flac reader", "flac stream", "flac samples", "flac stereo",
              "microflac"}
  /\ AvHuffInit /\ FlacStreamInit /\ MicroInit
  /\ IF side = "cd" THEN TRUE ELSE CdAtRest
  /\ IF side = "flac reader" THEN TRUE ELSE ReaderAtRest
  /\ IF side = "flac samples" THEN TRUE ELSE PredictAtRest
  /\ IF side = "flac stereo" THEN TRUE ELSE StereoAtRest
  /\ CASE side = "cd" -> CdHunkInit
       [] side = "flac reader" -> FlacReaderInit
       [] side = "flac samples" -> FlacPredictInit
       [] side = "flac stereo" -> FlacStereoInit
       [] OTHER -> TRUE

Moves(which) ==
  /\ side = which /\ UNCHANGED side
  /\ which # "cd" => UNCHANGED cdvars
  /\ which # "avhuff" => UNCHANGED avhuffvars
  /\ which # "flac reader" => UNCHANGED flacreadervars
  /\ which # "flac stream" => UNCHANGED streamvars
  /\ which # "flac samples" => UNCHANGED predictvars
  /\ which # "flac stereo" => UNCHANGED stereovars
  /\ which # "microflac" => UNCHANGED microvars

CodecsNext ==
  \/ Moves("cd") /\ CdHunkNext
  \/ Moves("avhuff") /\ AvHuffNext
  \/ Moves("flac reader") /\ FlacReaderNext
  \/ Moves("flac stream") /\ FlacStreamNext
  \/ Moves("flac samples") /\ FlacPredictNext
  \/ Moves("flac stereo") /\ FlacStereoNext
  \/ Moves("microflac") /\ MicroNext

codecvars == <<side, cdvars, avhuffvars, flacreadervars, streamvars, predictvars, stereovars,
               microvars>>

CodecsSpec ==
  /\ CodecsInit /\ [][CodecsNext]_codecvars
  /\ WF_codecvars(Moves("flac stream") /\ HunkStep)
  /\ WF_codecvars(Moves("microflac") /\ MicroStep)

-----------------------------------------------------------------------------
(* With either backend, the decode of a FLAC hunk ends.                    *)
HunksEnd == HunkEnds /\ MicroHunkEnds
===============================================================================
