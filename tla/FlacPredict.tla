----------------------------- MODULE FlacPredict -----------------------------
(***************************************************************************)
(* The samples of a predicted subframe of dr_flac, decoded side by side in *)
(* its three ways: the scalar loop, four at a time with SSE4.1, and four   *)
(* at a time with NEON.  Which one runs depends on the machine, and which  *)
(* width of sum on the stream.  A word is WordBits wide, 32 in the code.   *)
(***************************************************************************)
EXTENDS Integers, Sequences

CONSTANTS
  WordBits,
  Subframes    \* [bits, order, precision, shift, coefficients, warmup, param, parts]:
               \* parts are the <<zeros, low>> that read_rice_parts_x1 finds

VARIABLES
  sub,                    \* the subframe
  scalar, sse, neon,      \* its samples so far, the warm-up samples first
  sselanes, neonlanes     \* samples128_0, _4 and _8

predictvars == <<sub, scalar, sse, neon, sselanes, neonlanes>>

TwoTo(n) ==
  LET power[i \in 0 .. n] == IF i = 0 THEN 1 ELSE 2 * power[i - 1]
  IN  power[n]

Unsigned(x, bits) == x % TwoTo(bits)
Signed(x, bits) == IF Unsigned(x, bits) >= TwoTo(bits - 1) THEN Unsigned(x, bits) - TwoTo(bits)
                   ELSE Unsigned(x, bits)
Int32(x) == Signed(x, WordBits)

ilog2_u32(x) == CHOOSE k \in 0 .. x : TwoTo(k) > x /\ \A j \in 0 .. k - 1 : TwoTo(j) <= x

use_64_bit_prediction(bits, order, precision) == bits + precision + ilog2_u32(order) > WordBits

Wide == use_64_bit_prediction(sub.bits, sub.order, sub.precision)

(* A subframe as it is read: what precedes the residuals has the bits of   *)
(* the subframe, coefficients have their precision, and a word is as wide  *)
(* as the sums need: 32 bits for samples of up to 32 and coefficients of   *)
(* up to 15.                                                               *)
IsSigned(x, bits) == x \in -TwoTo(bits - 1) .. TwoTo(bits - 1) - 1
IsSubframe(s) ==
  /\ s.bits \in 1 .. WordBits /\ s.order \in 0 .. 32 /\ s.precision \in 1 .. 15
  /\ s.shift \in 0 .. WordBits - 1 /\ s.param \in 0 .. WordBits - 1
  /\ s.bits + s.precision + ilog2_u32(s.order) <= 2 * WordBits
  /\ s.coefficients \in Seq(Int) /\ Len(s.coefficients) = s.order
  /\ \A j \in 1 .. s.order : IsSigned(s.coefficients[j], s.precision)
  /\ s.warmup \in Seq(Int) /\ Len(s.warmup) = s.order
  /\ \A j \in 1 .. s.order : IsSigned(s.warmup[j], s.bits)
  /\ s.parts \in Seq(Nat \X Nat)

ASSUME FlacPredictAssumption == WordBits \in Nat \ {0} /\ \A s \in Subframes : IsSubframe(s)

-----------------------------------------------------------------------------
\* The j-th sample before the next one.
Before(s, j) == s[Len(s) + 1 - j]

SumOfProducts(s) ==
  LET sum[j \in 0 .. sub.order] ==
        IF j = 0 THEN 0 ELSE sum[j - 1] + sub.coefficients[j] * Before(s, j)
  IN  sum[sub.order]

calculate_prediction_32(s) == Int32(SumOfProducts(s)) \div TwoTo(sub.shift)
calculate_prediction_64(s) == Int32(Signed(SumOfProducts(s), 2 * WordBits) \div TwoTo(sub.shift))

calculate_prediction(s) ==
  IF Wide THEN calculate_prediction_64(s) ELSE calculate_prediction_32(s)

(* A Rice code: the low bits, masked, below the number of zeros, unfolded  *)
(* with the table t.                                                       *)
Code(part) ==
  Unsigned((part[2] % TwoTo(sub.param)) + part[1] * TwoTo(sub.param), WordBits)
Residual(part) ==
  LET u == Code(part) IN IF u % 2 = 0 THEN u \div 2 ELSE TwoTo(WordBits) - 1 - (u \div 2)

Appended(s, part) == Append(s, Int32(Residual(part) + calculate_prediction(s)))
AppendedFour(s, parts) ==
  Appended(Appended(Appended(Appended(s, parts[1]), parts[2]), parts[3]), parts[4])

-----------------------------------------------------------------------------
(* Vectors: three groups of four lanes, the newest sample in the last lane *)
(* of group 0.  Lanes with no coefficient are zero.                        *)
Width == 4
Group(s, g, n) ==
  [lane \in 1 .. Width |-> LET j == Width * g + Width + 1 - lane
                           IN IF j <= n THEN Before(s, j) ELSE 0]
SseSamples(s) == [g \in 0 .. 2 |-> Group(s, g, sub.order)]
Coefficients(n) ==
  [g \in 0 .. 2 |-> [lane \in 1 .. Width |-> LET j == Width * g + Width + 1 - lane
                                             IN IF j <= n THEN sub.coefficients[j] ELSE 0]]
SseCoefficients == Coefficients(sub.order)

(* NEON fills tempC and tempS for the group the order ends in and loads    *)
(* them into the groups after it as well.                                  *)
Ending == IF sub.order % Width = 0 THEN 3 ELSE sub.order \div Width
NeonSamples(s) == [g \in 0 .. 2 |-> SseSamples(s)[IF g > Ending THEN Ending ELSE g]]
NeonCoefficients == [g \in 0 .. 2 |-> SseCoefficients[IF g > Ending THEN Ending ELSE g]]

(* The lanes that take part in the sum: whole groups, or, with 64-bit      *)
(* sums, the pairs that the switch on the order falls through.             *)
Lanes_PairsFromFour(g) ==
  IF Wide THEN {lane \in 1 .. Width : sub.order >= Width * g + (IF lane > 2 THEN 1 ELSE 4)}
  ELSE IF sub.order <= Width * g /\ g > 0 THEN {} ELSE 1 .. Width
Lanes(g) ==
  IF Wide THEN {lane \in 1 .. Width : sub.order >= Width * g + (IF lane > 2 THEN 1 ELSE 3)}
  ELSE IF sub.order <= Width * g /\ g > 0 THEN {} ELSE 1 .. Width

Product(c, v, g, lane) == IF lane \in Lanes(g) THEN c[g][lane] * v[g][lane] ELSE 0
GroupSum(c, v, g) ==
  Product(c, v, g, 1) + Product(c, v, g, 2) + Product(c, v, g, 3) + Product(c, v, g, 4)
VectorSum(c, v) == GroupSum(c, v, 0) + GroupSum(c, v, 1) + GroupSum(c, v, 2)

\* drflac__mm_srai_epi64: the two halves shifted apart; only the low word is kept.
ShiftedLow(x) == Unsigned(Unsigned(x, 2 * WordBits) \div TwoTo(sub.shift), WordBits)

VectorPrediction(c, v) ==
  IF Wide THEN ShiftedLow(VectorSum(c, v)) ELSE Int32(VectorSum(c, v)) \div TwoTo(sub.shift)

\* alignr: each group moves down a lane and takes the oldest lane of the next newer one.
Rolled(v, x) ==
  [g \in 0 .. 2 |-> [lane \in 1 .. Width |->
     IF lane < Width THEN v[g][lane + 1] ELSE IF g = 0 THEN x ELSE v[g - 1][1]]]

NextVectors(c, v, part) == Rolled(v, Int32(Residual(part) + VectorPrediction(c, v)))
VectorGroup(c, v, parts) ==
  NextVectors(c, NextVectors(c, NextVectors(c, NextVectors(c, v, parts[1]), parts[2]), parts[3]),
              parts[4])

-----------------------------------------------------------------------------
Taken == Len(scalar) - sub.order
NextPart == sub.parts[Taken + 1]
NextFour == [i \in 1 .. Width |-> sub.parts[Taken + i]]
Vectors == sub.order \in 1 .. 12     \* other orders are left to the scalar loop

\* Four at a time.  The vectors stay loaded from one group of four to the next.
DecodeFour ==
  /\ Taken + Width <= Len(sub.parts)
  /\ scalar' = AppendedFour(scalar, NextFour)
  /\ \/ /\ Vectors
        /\ sselanes' = VectorGroup(SseCoefficients, sselanes, NextFour)
        /\ neonlanes' = VectorGroup(NeonCoefficients, neonlanes, NextFour)
        /\ sse' = sse \o sselanes'[0] /\ neon' = neon \o neonlanes'[0]
     \/ /\ ~Vectors
        /\ sse' = AppendedFour(sse, NextFour) /\ neon' = AppendedFour(neon, NextFour)
        /\ UNCHANGED <<sselanes, neonlanes>>
  /\ UNCHANGED sub

\* The last few samples, one at a time.
DecodeLast ==
  /\ Taken < Len(sub.parts) /\ Taken + Width > Len(sub.parts)
  /\ scalar' = Appended(scalar, NextPart)
  /\ sse' = Appended(sse, NextPart) /\ neon' = Appended(neon, NextPart)
  /\ UNCHANGED <<sub, sselanes, neonlanes>>

FlacPredictInit ==
  /\ sub \in Subframes
  /\ scalar = sub.warmup /\ sse = sub.warmup /\ neon = sub.warmup
  /\ sselanes = SseSamples(sub.warmup) /\ neonlanes = NeonSamples(sub.warmup)

FlacPredictNext == DecodeFour \/ DecodeLast
FlacPredictSpec == FlacPredictInit /\ [][FlacPredictNext]_predictvars

-----------------------------------------------------------------------------
\* A sample is an int32.
FlacPredictTypeOK ==
  \A s \in {scalar, sse, neon} :
    \A i \in 1 .. Len(s) : IsSigned(s[i], WordBits)

(* Whichever way the machine has, the samples are the same: for every      *)
(* order, also those that end inside a group of lanes, with both widths of *)
(* the sum, and with sums, shifts and residuals that wrap.                 *)
EveryWayIsTheSame == sse = scalar /\ neon = scalar

(* The 32-bit sum is only taken where it cannot overflow, which is         *)
(* undefined for the scalar loop: as long as the samples keep to the bits  *)
(* of the subframe.                                                        *)
SumsDoNotOverflow ==
  /\ ~Wide /\ Taken < Len(sub.parts)
  /\ \A i \in 1 .. Len(scalar) : IsSigned(scalar[i], sub.bits)
  => SumOfProducts(scalar) = Int32(SumOfProducts(scalar))

(* What an encoder does: the prediction of each sample subtracted from it, *)
(* and the residual folded.  Decoding it gives the samples back.           *)
Folded(r) == IF r >= 0 THEN 2 * r ELSE -2 * r - 1
Exact(i) == SumOfProducts(SubSeq(scalar, 1, i - 1)) \div TwoTo(sub.shift)
SamplesAreWhatWasCoded ==
  \A i \in sub.order + 1 .. Len(scalar) :
    LET r == scalar[i] - Exact(i)
    IN  /\ \A k \in 1 .. Len(scalar) : IsSigned(scalar[k], sub.bits)
        /\ IsSigned(r, WordBits)
        => Folded(r) = Code(sub.parts[i - sub.order])
================================================================================
