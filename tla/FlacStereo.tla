------------------------------ MODULE FlacStereo ------------------------------
(***************************************************************************)
(* drflac_read_pcm_frames_s16 for two channels: the decoded subframes made *)
(* into left and right samples, in the scalar loop, with SSE2 and with     *)
(* NEON, four at a time and then the last few.  A word is WordBits wide,   *)
(* 32 in the code, and a sample of the stream and of the output half of    *)
(* it.                                                                     *)
(***************************************************************************)
EXTENDS FlacPredict

CONSTANTS
  StereoWordBits,
  Pairs       \* [assignment, wasted0, wasted1, pcm]: pcm are the <<left, right>> coded

(* Samples are signed half words, and so few bits are wasted that no shift *)
(* reaches the width of a word, which C leaves undefined.                  *)
ASSUME FlacStereoAssumption ==
  /\ StereoWordBits \in Nat \ {0} /\ StereoWordBits % 2 = 0
  /\ \A c \in Pairs :
       /\ c.assignment \in {"left_side", "right_side", "mid_side", "independent"}
       /\ c.wasted0 \in 0 .. StereoWordBits \div 2 - 1
       /\ c.wasted1 \in 0 .. StereoWordBits \div 2 - 1
       /\ c.pcm \in Seq(Int \X Int)
       /\ \A i \in 1 .. Len(c.pcm) : \A k \in 1 .. 2 : IsSigned(c.pcm[i][k], StereoWordBits \div 2)

VARIABLES
  coded,                          \* the frame
  scalarpcm, ssepcm, neonpcm      \* the samples so far, interleaved

stereovars == <<coded, scalarpcm, ssepcm, neonpcm>>

Half == StereoWordBits \div 2     \* 16: bits of a sample, and unusedBitsPerSample

Uint32(x) == Unsigned(x, StereoWordBits)
Shl(x, n) == Uint32(x * TwoTo(n))
SignedWord(x) == Signed(x, StereoWordBits)
Int16(x) == Signed(x, Half)

(* What an encoder makes of left and right, before the wasted bits are     *)
(* taken off.                                                              *)
Channels(assignment, p) ==
  CASE assignment = "left_side"   -> <<p[1], p[1] - p[2]>>
    [] assignment = "right_side"  -> <<p[1] - p[2], p[2]>>
    [] assignment = "mid_side"    -> <<(p[1] + p[2]) \div 2, p[1] - p[2]>>
    [] assignment = "independent" -> p

Fits(c) ==
  \A i \in 1 .. Len(c.pcm) : LET ch == Channels(c.assignment, c.pcm[i])
                             IN ch[1] % TwoTo(c.wasted0) = 0 /\ ch[2] % TwoTo(c.wasted1) = 0

\* pDecodedSamples0 and pDecodedSamples1.
Input(i) ==
  LET ch == Channels(coded.assignment, coded.pcm[i])
  IN  <<ch[1] \div TwoTo(coded.wasted0), ch[2] \div TwoTo(coded.wasted1)>>

-----------------------------------------------------------------------------
(* The two words whose upper halves are the samples, as all three ways     *)
(* compute them: mid/side has a bit more, which a shift of one less loses. *)
Shifted0(a) == Shl(a, Half + coded.wasted0)
Shifted1(b) == Shl(b, Half + coded.wasted1)

decode_left_side(a, b) == <<Shifted0(a), Uint32(Shifted0(a) - Shifted1(b))>>
decode_right_side(a, b) == <<Uint32(Shifted1(b) + Shifted0(a)), Shifted1(b)>>
decode_independent_stereo(a, b) == <<Shifted0(a), Shifted1(b)>>

Side(b) == Shl(b, coded.wasted1)
Mid(a, b) == Uint32(Shl(Shl(a, coded.wasted0), 1) + (Side(b) % 2))

decode_mid_side(a, b) ==
  <<Shl(Mid(a, b) + Side(b), Half - 1), Shl(Mid(a, b) - Side(b), Half - 1)>>

\* The last few samples of mid/side are halved before they are shifted.
decode_mid_side_tail(a, b) ==
  <<Shl(SignedWord(Mid(a, b) + Side(b)) \div 2, Half), Shl(SignedWord(Mid(a, b) - Side(b)) \div 2, Half)>>

Words(a, b) ==
  CASE coded.assignment = "left_side"   -> decode_left_side(a, b)
    [] coded.assignment = "right_side"  -> decode_right_side(a, b)
    [] coded.assignment = "mid_side"    -> decode_mid_side(a, b)
    [] coded.assignment = "independent" -> decode_independent_stereo(a, b)
ScalarTail(a, b) ==
  IF coded.assignment = "mid_side" THEN decode_mid_side_tail(a, b) ELSE Words(a, b)

-----------------------------------------------------------------------------
\* The upper half: shifted down as unsigned and cut, or as signed.
Upper(w) == Int16(w \div TwoTo(Half))
SignedUpper(w) == SignedWord(w) \div TwoTo(Half)
Saturated(x) == IF x > TwoTo(Half - 1) - 1 THEN TwoTo(Half - 1) - 1
                ELSE IF x < -TwoTo(Half - 1) THEN -TwoTo(Half - 1) ELSE x

Interleaved(f, g) ==
  [k \in 1 .. 2 * Len(f) |-> IF k % 2 = 1 THEN f[(k + 1) \div 2] ELSE g[k \div 2]]

\* Shuffles of pairs and of single samples, by the index each comes from.
Picked(s, from) == [i \in 1 .. Len(from) |-> s[from[i]]]
mm_packs_interleaved_epi32(a, b) ==
  LET r == [i \in 1 .. 8 |-> Saturated((a \o b)[i])]
      halves == Picked(r, <<1, 2, 5, 6, 3, 4, 7, 8>>)
  IN  Picked(halves, <<1, 3, 2, 4, 5, 7, 6, 8>>)

Done == Len(scalarpcm) \div 2
Next4 == [i \in 1 .. 4 |-> LET in == Input(Done + i) IN Words(in[1], in[2])]

\* Left and right side go down unsigned with NEON, the others signed; the cut is the same.
NeonUpper(w) ==
  IF coded.assignment \in {"left_side", "right_side"} THEN Upper(w) ELSE Int16(SignedUpper(w))

FourSamples ==
  /\ Done + 4 <= Len(coded.pcm)
  /\ LET w == Next4
     IN  /\ scalarpcm' = scalarpcm \o Interleaved([i \in 1 .. 4 |-> Upper(w[i][1])],
                                                  [i \in 1 .. 4 |-> Upper(w[i][2])])
         /\ ssepcm' = ssepcm \o mm_packs_interleaved_epi32([i \in 1 .. 4 |-> SignedUpper(w[i][1])],
                                                          [i \in 1 .. 4 |-> SignedUpper(w[i][2])])
         /\ neonpcm' = neonpcm \o Interleaved([i \in 1 .. 4 |-> NeonUpper(w[i][1])],
                                              [i \in 1 .. 4 |-> NeonUpper(w[i][2])])
  /\ UNCHANGED coded

LastSample ==
  /\ Done < Len(coded.pcm) /\ Done + 4 > Len(coded.pcm)
  /\ LET in == Input(Done + 1)
         tail == ScalarTail(in[1], in[2])
         vector == Words(in[1], in[2])
     IN  /\ scalarpcm' = scalarpcm \o <<Upper(tail[1]), Upper(tail[2])>>
         /\ ssepcm' = ssepcm \o <<Upper(vector[1]), Upper(vector[2])>>
         /\ neonpcm' = neonpcm \o <<Upper(vector[1]), Upper(vector[2])>>
  /\ UNCHANGED coded

FlacStereoInit ==
  /\ coded \in {c \in Pairs : Fits(c)}
  /\ scalarpcm = <<>> /\ ssepcm = <<>> /\ neonpcm = <<>>

FlacStereoNext == FourSamples \/ LastSample
FlacStereoSpec == FlacStereoInit /\ [][FlacStereoNext]_stereovars

-----------------------------------------------------------------------------
(* Left and right come back as they were coded, whichever channel holds    *)
(* their difference and whatever bits the channels waste, in the groups of *)
(* four and in the last few, and the same on every machine: the words wrap *)
(* and the bit that mid loses is the lowest one of side.                   *)
StereoIsLossless ==
  LET all == Interleaved([i \in 1 .. Len(coded.pcm) |-> coded.pcm[i][1]],
                         [i \in 1 .. Len(coded.pcm) |-> coded.pcm[i][2]])
  IN  \A pcm \in {scalarpcm, ssepcm, neonpcm} : pcm = SubSeq(all, 1, Len(pcm))

(* Prediction and stereo give the samples that were coded, by the scalar   *)
(* loop and by both vector units alike.                                    *)
ArithmeticIsExact ==
  /\ FlacPredictTypeOK /\ EveryWayIsTheSame /\ SumsDoNotOverflow /\ SamplesAreWhatWasCoded
  /\ StereoIsLossless
================================================================================
