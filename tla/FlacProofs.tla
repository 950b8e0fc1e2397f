------------------------------ MODULE FlacProofs ------------------------------
(****************************************************************************)
(* The two backends of FLAC, and the arithmetic of the second.              *)
(*                                                                          *)
(* The streaming one decodes a hunk to the samples of its stream and        *)
(* nothing else, for every stream, every size of block and every way its    *)
(* decoder stops and goes on. The invariant says where the loop stands:     *)
(* what it has is the beginning of the stream, up to the end of the block   *)
(* in front of the one it is at, or up to what is wanted if that comes      *)
(* earlier.                                                                 *)
(*                                                                          *)
(* The other keeps one block of memory for every hunk of a file, and writes *)
(* the samples of a hunk through a small buffer. Its invariants say how     *)
(* large the block is, where the partitions of a frame may end, and which   *)
(* frame every sample gathered so far is from.                              *)
(*                                                                          *)
(* The samples of a frame are sums of products, shifted and cut to a word,  *)
(* and the two channels are made left and right out of words that wrap. The *)
(* vectors give what the scalar loop gives since a lane holds the sample    *)
(* its coefficient is for, or is left out; and what a sum or a word loses   *)
(* is a multiple of a whole word, which the last cut takes off again.       *)
(****************************************************************************)
EXTENDS Microflac, FlacStream, FlacStereo, FiniteSetTheorems, SequenceTheorems, TLAPS

(* A nonempty set of naturals has a least element.                          *)
LEMMA LeastCount ==
  ASSUME NEW T \in SUBSET Nat, T # {}
  PROVE  \E n \in T : \A m \in T : n <= m
<1> DEFINE Below(n) == 0 .. (n - 1)
           U == {Below(n) : n \in T}
<1>1. U \subseteq FiniteSubsetsOf(Nat) /\ U # {}
  <2>1. \A n \in T : IsFiniteSet(Below(n)) /\ Below(n) \subseteq Nat
    BY FS_Interval
  <2> QED BY <2>1, Zenon DEF FiniteSubsetsOf
<1>2. PICK x \in U : \A y \in U : <<y, x>> \notin StrictSubsetOrdering(Nat)
  <2> HIDE DEF U
  <2> QED BY <1>1, FS_StrictSubsetOrderingWellFounded, WFMin, Zenon
<1>3. PICK n \in T : x = Below(n)
  OBVIOUS
<1>4. ASSUME NEW m \in T, m < n PROVE FALSE
  <2>1. Below(m) \in U
    OBVIOUS
  <2>2. Below(m) \subseteq x /\ Below(m) # x
    BY <1>3, <1>4
  <2>3. <<Below(m), x>> \in StrictSubsetOrdering(Nat)
    BY <2>2, <1>3 DEF StrictSubsetOrdering
  <2> QED BY <2>1, <2>3, <1>2
<1> QED BY <1>4

-----------------------------------------------------------------------------
(* Running along a list: joining its sequences, or adding up its numbers.   *)
Runs(joins, list, n, f) ==
  /\ f = [i \in 0 .. n |-> f[i]]
  /\ f[0] = IF joins THEN <<>> ELSE 0
  /\ \A i \in 1 .. n : f[i] = IF joins THEN f[i - 1] \o list[i] ELSE f[i - 1] + list[i]

LEMMA RunExists ==
  ASSUME NEW joins, NEW list, NEW n \in Nat
  PROVE  \E f : Runs(joins, list, n, f)
<1> DEFINE T == {k \in 0 .. n : \A f : ~ Runs(joins, list, k, f)}
<1>1. ASSUME NEW k \in T, \A m \in T : k <= m PROVE FALSE
  <2>1. k \in 0 .. n /\ \A f : ~ Runs(joins, list, k, f)
    OBVIOUS
  <2>2. Runs(joins, list, 0, [i \in 0 .. 0 |-> IF joins THEN <<>> ELSE 0])
    BY DEF Runs
  <2>3. k # 0
    BY <2>1, <2>2
  <2>4. k - 1 \in 0 .. n /\ k - 1 \notin T
    <3> HIDE DEF T
    <3> QED BY <1>1, <2>1, <2>3
  <2>5. PICK f : Runs(joins, list, k - 1, f)
    BY <2>4
  <2> DEFINE next == IF joins THEN f[k - 1] \o list[k] ELSE f[k - 1] + list[k]
             g == [i \in 0 .. k |-> IF i < k THEN f[i] ELSE next]
  <2>6. g = [i \in 0 .. k |-> g[i]] /\ g[0] = f[0] /\ g[k] = next
    BY <2>1, <2>3
  <2>7. ASSUME NEW i \in 1 .. k
        PROVE  g[i] = IF joins THEN g[i - 1] \o list[i] ELSE g[i - 1] + list[i]
    <3>1. CASE i = k
      <4>1. g[k - 1] = f[k - 1]
        BY <2>1, <2>3
      <4> QED BY <3>1, <4>1, <2>6
    <3>2. CASE i # k
      <4>1. i \in 1 .. k - 1 /\ g[i] = f[i] /\ g[i - 1] = f[i - 1]
        BY <3>2, <2>1
      <4> HIDE DEF g
      <4> QED BY <4>1, <2>5 DEF Runs
    <3> QED BY <3>1, <3>2
  <2>8. Runs(joins, list, k, g)
    <3> HIDE DEF g, next
    <3> QED BY <2>5, <2>6, <2>7 DEF Runs
  <2> QED BY <2>1, <2>8
<1>2. T = {}
  <2>1. T \in SUBSET Nat
    OBVIOUS
  <2> HIDE DEF T
  <2> QED BY <1>1, <2>1, LeastCount
<1>3. n \in 0 .. n /\ n \notin T
  BY <1>2
<1> QED BY <1>3

RunOf(joins, list, n) == CHOOSE f : Runs(joins, list, n, f)

LEMMA RunOfIs ==
  ASSUME NEW joins, NEW list, NEW n \in Nat
  PROVE  Runs(joins, list, n, RunOf(joins, list, n))
BY RunExists DEF RunOf

-----------------------------------------------------------------------------
(* The samples and the bytes of a hunk's blocks, up to each of them.        *)
Payloads == MicroHunks \cup {NoPayload}
MicroSample == Nat \X Nat \X BOOLEAN
BlockSamples(h, swapped, b) == [i \in 1 .. h.blocks[b].samples |-> <<b, i, swapped>>]
AllBlocks(h, swapped) == [b \in 1 .. Len(h.blocks) |-> BlockSamples(h, swapped, b)]
Joined(h, swapped) == RunOf(TRUE, AllBlocks(h, swapped), Len(h.blocks))
AllBytes(h) == [b \in 1 .. Len(h.blocks) |-> h.blocks[b].bytes]
BytesTo(h) == RunOf(FALSE, AllBytes(h), Len(h.blocks))

LEMMA PayloadFacts ==
  ASSUME NEW h \in Payloads
  PROVE  /\ h.want \in Nat \ {0} /\ h.maxblock \in Nat \ {0} /\ h.length \in Nat
         /\ Len(h.blocks) \in Nat /\ h.swap \in BOOLEAN
         /\ \A b \in 1 .. Len(h.blocks) :
              h.blocks[b].samples \in Nat \ {0} /\ h.blocks[b].bytes \in Nat \ {0}
<1> DEFINE Block == [samples : Nat \ {0}, bytes : Nat \ {0}, good : BOOLEAN]
<1>1. CASE h \in MicroHunks
  <2>1. /\ h.want \in Nat \ {0} /\ h.maxblock \in Nat \ {0} /\ h.length \in Nat
        /\ h.blocks \in Seq(Block) /\ h.swap \in BOOLEAN
    BY <1>1, MicroflacAssumption
  <2>2. \A b \in 1 .. Len(h.blocks) : h.blocks[b] \in Block
    <3> HIDE DEF Block
    <3> QED BY <2>1
  <2>3. \A x \in Block : x.samples \in Nat \ {0} /\ x.bytes \in Nat \ {0}
    OBVIOUS
  <2>4. Len(h.blocks) \in Nat
    <3> HIDE DEF Block
    <3> QED BY <2>1
  <2> QED BY <2>1, <2>2, <2>3, <2>4
<1>2. CASE h = NoPayload
  BY <1>2 DEF NoPayload
<1> QED BY <1>1, <1>2 DEF Payloads

LEMMA BlockSamplesType ==
  ASSUME NEW h \in Payloads, NEW swapped \in BOOLEAN, NEW b \in 1 .. Len(h.blocks)
  PROVE  /\ BlockSamples(h, swapped, b) \in Seq(MicroSample)
         /\ Len(BlockSamples(h, swapped, b)) = h.blocks[b].samples
<1>1. h.blocks[b].samples \in Nat /\ b \in Nat
  BY PayloadFacts
<1>2. BlockSamples(h, swapped, b) \in [1 .. h.blocks[b].samples -> MicroSample]
  BY <1>1 DEF BlockSamples, MicroSample
<1> QED BY <1>1, <1>2

LEMMA JoinedSteps ==
  ASSUME NEW h \in Payloads, NEW swapped \in BOOLEAN
  PROVE  /\ Joined(h, swapped)[0] = <<>>
         /\ \A b \in 1 .. Len(h.blocks) :
              Joined(h, swapped)[b] = Joined(h, swapped)[b - 1] \o BlockSamples(h, swapped, b)
<1>1. Runs(TRUE, AllBlocks(h, swapped), Len(h.blocks), Joined(h, swapped))
  BY PayloadFacts, RunOfIs DEF Joined
<1>2. \A b \in 1 .. Len(h.blocks) : AllBlocks(h, swapped)[b] = BlockSamples(h, swapped, b)
  BY DEF AllBlocks
<1> QED BY <1>1, <1>2 DEF Runs

LEMMA BytesSteps ==
  ASSUME NEW h \in Payloads
  PROVE  /\ BytesTo(h)[0] = 0
         /\ \A b \in 1 .. Len(h.blocks) : BytesTo(h)[b] = BytesTo(h)[b - 1] + h.blocks[b].bytes
<1>1. Runs(FALSE, AllBytes(h), Len(h.blocks), BytesTo(h))
  BY PayloadFacts, RunOfIs DEF BytesTo
<1>2. \A b \in 1 .. Len(h.blocks) : AllBytes(h)[b] = h.blocks[b].bytes
  BY DEF AllBytes
<1> QED BY <1>1, <1>2 DEF Runs

LEMMA JoinedType ==
  ASSUME NEW h \in Payloads, NEW swapped \in BOOLEAN
  PROVE  \A b \in 0 .. Len(h.blocks) : Joined(h, swapped)[b] \in Seq(MicroSample)
<1> DEFINE T == {b \in 0 .. Len(h.blocks) : Joined(h, swapped)[b] \notin Seq(MicroSample)}
<1>0. Len(h.blocks) \in Nat
  BY PayloadFacts
<1>1. ASSUME NEW b \in T, \A m \in T : b <= m PROVE FALSE
  <2>0. <<>> \in Seq(MicroSample)
    OBVIOUS
  <2>1. b # 0
    <3>1. Joined(h, swapped)[b] \notin Seq(MicroSample)
      OBVIOUS
    <3> QED BY <3>1, <2>0, JoinedSteps
  <2>2. b - 1 \in 0 .. Len(h.blocks) /\ b - 1 \notin T /\ b \in 1 .. Len(h.blocks)
    BY <1>0, <1>1, <2>1
  <2>3. PICK s \in Seq(MicroSample), t \in Seq(MicroSample) : s = Joined(h, swapped)[b - 1] /\ t = BlockSamples(h, swapped, b)
    BY <2>2, BlockSamplesType
  <2>4. Joined(h, swapped)[b] = s \o t
    BY <2>2, <2>3, JoinedSteps
  <2>5. s \o t \in Seq(MicroSample)
    OBVIOUS
  <2> QED BY <2>4, <2>5
<1>2. T = {}
  <2>1. T \in SUBSET Nat
    BY <1>0
  <2> HIDE DEF T
  <2> QED BY <1>1, <2>1, LeastCount
<1> QED BY <1>2

(* What one more block adds.                                                *)
LEMMA JoinedGrows ==
  ASSUME NEW h \in Payloads, NEW swapped \in BOOLEAN, NEW b \in 1 .. Len(h.blocks)
  PROVE  /\ Len(Joined(h, swapped)[b]) = Len(Joined(h, swapped)[b - 1]) + h.blocks[b].samples
         /\ \A i \in 1 .. Len(Joined(h, swapped)[b - 1]) :
              Joined(h, swapped)[b][i] = Joined(h, swapped)[b - 1][i]
         /\ \A i \in 1 .. h.blocks[b].samples :
              Joined(h, swapped)[b][Len(Joined(h, swapped)[b - 1]) + i] = <<b, i, swapped>>
<1>1. b - 1 \in 0 .. Len(h.blocks) /\ h.blocks[b].samples \in Nat
  BY PayloadFacts
<1>2. PICK s \in Seq(MicroSample) : s = Joined(h, swapped)[b - 1]
  BY <1>1, JoinedType
<1>3. PICK t \in Seq(MicroSample) : t = BlockSamples(h, swapped, b)
  BY BlockSamplesType
<1>4. Joined(h, swapped)[b] = s \o t
  BY <1>2, <1>3, JoinedSteps
<1>5. Len(t) = h.blocks[b].samples /\ \A i \in 1 .. h.blocks[b].samples : t[i] = <<b, i, swapped>>
  BY <1>3, BlockSamplesType DEF BlockSamples
<1>6. /\ Len(s \o t) = Len(s) + Len(t)
      /\ \A i \in 1 .. Len(s) : (s \o t)[i] = s[i]
      /\ \A i \in 1 .. Len(t) : (s \o t)[Len(s) + i] = t[i]
  OBVIOUS
<1> QED BY <1>2, <1>4, <1>5, <1>6

(* An earlier part is the beginning of a later one.                         *)
LEMMA JoinedAgrees ==
  ASSUME NEW h \in Payloads, NEW swapped \in BOOLEAN,
         NEW b \in 0 .. Len(h.blocks), NEW c \in 0 .. Len(h.blocks), b <= c
  PROVE  /\ Len(Joined(h, swapped)[b]) <= Len(Joined(h, swapped)[c])
         /\ \A i \in 1 .. Len(Joined(h, swapped)[b]) :
              Joined(h, swapped)[c][i] = Joined(h, swapped)[b][i]
<1> DEFINE J == Joined(h, swapped)
           Agrees(k) == Len(J[b]) <= Len(J[k]) /\ \A i \in 1 .. Len(J[b]) : J[k][i] = J[b][i]
           T == {k \in b .. c : ~ Agrees(k)}
<1>0. /\ Len(h.blocks) \in Nat /\ \A k \in 0 .. Len(h.blocks) : Len(J[k]) \in Nat
      /\ \A k \in 1 .. Len(h.blocks) : h.blocks[k].samples \in Nat
  BY PayloadFacts, JoinedType
<1>1. ASSUME NEW k \in T, \A m \in T : k <= m PROVE FALSE
  <2>1. Agrees(b)
    BY <1>0
  <2>2. k # b
    BY <2>1
  <2>3. k - 1 \in b .. c /\ k - 1 \notin T /\ k \in 1 .. Len(h.blocks) /\ k - 1 \in 0 .. Len(h.blocks)
    BY <1>0, <1>1, <2>2
  <2>4. Agrees(k - 1)
    BY <2>3
  <2>5. Len(J[k]) = Len(J[k - 1]) + h.blocks[k].samples /\ \A i \in 1 .. Len(J[k - 1]) : J[k][i] = J[k - 1][i]
    BY <2>3, JoinedGrows
  <2> HIDE DEF J
  <2>6. Agrees(k)
    BY <1>0, <2>3, <2>4, <2>5, SMTT(30)
  <2> QED BY <2>6
<1>2. T = {}
  <2>1. T \in SUBSET Nat
    BY <1>0
  <2> HIDE DEF T
  <2> QED BY <1>1, <2>1, LeastCount
<1> HIDE DEF Agrees
<1>3. Agrees(c)
  BY <1>2
<1> QED BY <1>3 DEF Agrees

(* Swapping the bytes of one sample.                                        *)
LEMMA OneSwapped ==
  ASSUME NEW swapped
  PROVE  \A x, y : <<x, y, swapped>> = [<<x, y, FALSE>> EXCEPT ![3] = swapped]
  OBVIOUS

LEMMA SwappedIsASample ==
  ASSUME NEW swapped \in BOOLEAN, NEW x \in MicroSample
  PROVE  [x EXCEPT ![3] = swapped] \in MicroSample /\ [x EXCEPT ![3] = swapped][1] = x[1]
  BY DEF MicroSample

(* Swapped or not, the samples are the same ones.                           *)
LEMMA SwapIsTheOnlyDifference ==
  ASSUME NEW h \in Payloads, NEW swapped \in BOOLEAN
  PROVE  \A b \in 0 .. Len(h.blocks) :
           /\ Len(Joined(h, swapped)[b]) = Len(Joined(h, FALSE)[b])
           /\ \A i \in 1 .. Len(Joined(h, swapped)[b]) :
                Joined(h, swapped)[b][i] = [Joined(h, FALSE)[b][i] EXCEPT ![3] = swapped]
<1> DEFINE J == Joined(h, FALSE)
           K == Joined(h, swapped)
           Same(b) == Len(K[b]) = Len(J[b]) /\ \A i \in 1 .. Len(K[b]) : K[b][i] = [J[b][i] EXCEPT ![3] = swapped]
           T == {b \in 0 .. Len(h.blocks) : ~ Same(b)}
<1>a. FALSE \in BOOLEAN
  OBVIOUS
<1>b. /\ J[0] = <<>> /\ K[0] = <<>>
      /\ \A b \in 0 .. Len(h.blocks) : J[b] \in Seq(MicroSample)
  BY <1>a, JoinedType, JoinedSteps, Zenon
<1>c. ASSUME NEW b \in 1 .. Len(h.blocks)
      PROVE  /\ Len(J[b]) = Len(J[b - 1]) + h.blocks[b].samples
             /\ \A i \in 1 .. Len(J[b - 1]) : J[b][i] = J[b - 1][i]
             /\ \A i \in 1 .. h.blocks[b].samples : J[b][Len(J[b - 1]) + i] = <<b, i, FALSE>>
  BY <1>a, JoinedGrows, Zenon
<1>d. ASSUME NEW b \in 1 .. Len(h.blocks)
      PROVE  /\ Len(K[b]) = Len(K[b - 1]) + h.blocks[b].samples
             /\ \A i \in 1 .. Len(K[b - 1]) : K[b][i] = K[b - 1][i]
             /\ \A i \in 1 .. h.blocks[b].samples : K[b][Len(K[b - 1]) + i] = <<b, i, swapped>>
  BY JoinedGrows, Zenon
<1> HIDE DEF J, K
<1>0. /\ Len(h.blocks) \in Nat /\ \A b \in 0 .. Len(h.blocks) : Len(J[b]) \in Nat
      /\ \A b \in 1 .. Len(h.blocks) : h.blocks[b].samples \in Nat
  <2>1. \A s \in Seq(MicroSample) : Len(s) \in Nat
    OBVIOUS
  <2>2. Len(h.blocks) \in Nat /\ \A b \in 1 .. Len(h.blocks) : h.blocks[b].samples \in Nat
    BY PayloadFacts
  <2> QED BY <1>b, <2>1, <2>2, Zenon
<1>1. Same(0)
  BY <1>b
<1> HIDE DEF Same
<1>2. ASSUME NEW b \in T, \A m \in T : b <= m PROVE FALSE
  <2>1. b \in 0 .. Len(h.blocks) /\ b # 0 /\ ~ Same(b)
    BY <1>1
  <2>2. b - 1 \in 0 .. Len(h.blocks) /\ ~ (b <= b - 1)
    BY <1>0, <2>1
  <2>3. Same(b - 1)
    BY <1>2, <2>2
  <2>4. b \in 1 .. Len(h.blocks)
    BY <1>0, <2>1
  <2> HIDE DEF T
  <2>5. /\ Len(J[b]) = Len(J[b - 1]) + h.blocks[b].samples
        /\ \A i \in 1 .. Len(J[b - 1]) : J[b][i] = J[b - 1][i]
        /\ \A i \in 1 .. h.blocks[b].samples : J[b][Len(J[b - 1]) + i] = <<b, i, FALSE>>
    BY <1>c, <2>4
  <2>6. /\ Len(K[b]) = Len(K[b - 1]) + h.blocks[b].samples
        /\ \A i \in 1 .. Len(K[b - 1]) : K[b][i] = K[b - 1][i]
        /\ \A i \in 1 .. h.blocks[b].samples : K[b][Len(K[b - 1]) + i] = <<b, i, swapped>>
    BY <1>d, <2>4
  <2>7. PICK have \in Nat, more \in Nat : have = Len(J[b - 1]) /\ more = h.blocks[b].samples
    BY <1>0, <2>2, <2>4
  <2>8. Len(K[b - 1]) = have /\ \A i \in 1 .. have : K[b - 1][i] = [J[b - 1][i] EXCEPT ![3] = swapped]
    BY <2>3, <2>7 DEF Same
  <2>9. ASSUME NEW i \in 1 .. have + more PROVE K[b][i] = [J[b][i] EXCEPT ![3] = swapped]
    <3>1. CASE i <= have
      <4>1. i \in 1 .. have
        BY <3>1, <2>7
      <4> QED BY <4>1, <2>5, <2>6, <2>7, <2>8
    <3>2. CASE i > have
      <4>1. PICK k \in 1 .. more : i = have + k
        <5>1. i - have \in 1 .. more /\ i = have + (i - have)
          BY <3>2, <2>7
        <5> QED BY <5>1
      <4>2. K[b][have + k] = <<b, k, swapped>>
        BY <2>6, <2>7, <2>8, Zenon
      <4>3. J[b][have + k] = <<b, k, FALSE>>
        BY <2>5, <2>7, Zenon
      <4>4. <<b, k, swapped>> = [<<b, k, FALSE>> EXCEPT ![3] = swapped]
        BY OneSwapped
      <4> QED BY <4>1, <4>2, <4>3, <4>4
    <3> QED BY <3>1, <3>2, <2>7
  <2>10. Len(K[b]) = have + more /\ Len(J[b]) = have + more
    BY <2>5, <2>6, <2>7, <2>8
  <2> QED BY <2>1, <2>9, <2>10 DEF Same
<1>3. T = {}
  <2>1. T \in SUBSET Nat
    BY <1>0
  <2> HIDE DEF T
  <2> QED BY <1>2, <2>1, LeastCount
<1>4. \A b \in 0 .. Len(h.blocks) : Same(b)
  BY <1>3
<1> QED BY <1>4, Zenon DEF Same, J, K

(* The stream of a hunk is all its blocks joined.                           *)
Flattens(seqs, n, f) == f = [i \in 1 .. n |-> IF i = 1 THEN seqs[i] ELSE f[i - 1] \o seqs[i]]

LEMMA StreamIsJoined ==
  ASSUME NEW h \in Payloads, NEW swapped \in BOOLEAN
  PROVE  MicroStreamOf(h, swapped) = Joined(h, swapped)[Len(h.blocks)]
<1> DEFINE n == Len(h.blocks)
           J == Joined(h, swapped)
           seqs == AllBlocks(h, swapped)
           flat == CHOOSE f : Flattens(seqs, n, f)
<1>0. n \in Nat /\ Len(seqs) = n
  BY PayloadFacts DEF AllBlocks
<1>1. MicroStreamOf(h, swapped) = IF n = 0 THEN seqs ELSE flat[n]
  <2>1. MicroStreamOf(h, swapped) = FlattenSeq(seqs)
    BY DEF MicroStreamOf, AllBlocks, BlockSamples
  <2> HIDE DEF seqs
  <2>2. FlattenSeq(seqs) = IF Len(seqs) = 0 THEN seqs ELSE
          (CHOOSE f : Flattens(seqs, Len(seqs), f))[Len(seqs)]
    BY DEF FlattenSeq, Flattens
  <2> QED BY <1>0, <2>1, <2>2
<1>2. CASE n = 0
  <2>1. seqs = <<>>
    BY <1>2 DEF AllBlocks
  <2> QED BY <1>1, <1>2, <2>1, JoinedSteps
<1>3. CASE n # 0
  <2>1. \A b \in 1 .. n : seqs[b] = BlockSamples(h, swapped, b)
    BY DEF AllBlocks
  <2>2. J[1] = seqs[1]
    <3>1. 1 \in 1 .. n
      BY <1>0, <1>3
    <3>2. J[1] = J[0] \o seqs[1] /\ J[0] = <<>>
      <4>1. J[1] = J[1 - 1] \o BlockSamples(h, swapped, 1) /\ J[0] = <<>>
        BY <3>1, JoinedSteps, Zenon
      <4>2. 1 - 1 = 0
        OBVIOUS
      <4> QED BY <4>1, <4>2, <3>1, <2>1, Zenon
    <3>3. seqs[1] \in Seq(MicroSample)
      BY <3>1, <2>1, BlockSamplesType
    <3> HIDE DEF J, seqs
    <3>4. \A t \in Seq(MicroSample) : <<>> \o t = t
      OBVIOUS
    <3> QED BY <3>2, <3>3, <3>4
  <2>3. \A b \in 2 .. n : J[b] = J[b - 1] \o seqs[b]
    <3>1. \A b \in 2 .. n : b \in 1 .. n
      BY <1>0
    <3>2. \A b \in 1 .. n : J[b] = J[b - 1] \o BlockSamples(h, swapped, b)
      BY JoinedSteps, Zenon
    <3> QED BY <2>1, <3>1, <3>2, Zenon
  <2> HIDE DEF J, seqs
  <2>4. Flattens(seqs, n, [b \in 1 .. n |-> J[b]])
    <3> DEFINE g == [b \in 1 .. n |-> J[b]]
    <3>1. ASSUME NEW b \in 1 .. n PROVE g[b] = IF b = 1 THEN seqs[b] ELSE g[b - 1] \o seqs[b]
      <4>1. CASE b = 1
        BY <4>1, <2>2
      <4>2. CASE b # 1
        <5>1. b \in 2 .. n /\ b - 1 \in 1 .. n
          BY <4>2, <1>0
        <5> QED BY <4>2, <5>1, <2>3
      <4> QED BY <4>1, <4>2
    <3>2. g = [b \in 1 .. n |-> g[b]]
      OBVIOUS
    <3> HIDE DEF g
    <3>3. \A b \in 1 .. n : g[b] = IF b = 1 THEN seqs[b] ELSE g[b - 1] \o seqs[b]
      BY <3>1
    <3>4. [b \in 1 .. n |-> g[b]] = [b \in 1 .. n |-> IF b = 1 THEN seqs[b] ELSE g[b - 1] \o seqs[b]]
      BY <3>3
    <3>5. g = [b \in 1 .. n |-> IF b = 1 THEN seqs[b] ELSE g[b - 1] \o seqs[b]]
      BY <3>2, <3>4, Zenon
    <3> QED BY <3>5, Zenon DEF Flattens, g
  <2>5. Flattens(seqs, n, flat)
    BY <2>4
  <2> HIDE DEF flat
  <2> DEFINE T == {b \in 1 .. n : flat[b] # J[b]}
  <2>6. ASSUME NEW b \in T, \A m \in T : b <= m PROVE FALSE
    <3>1. flat[b] = IF b = 1 THEN seqs[b] ELSE flat[b - 1] \o seqs[b]
      BY <2>5 DEF Flattens
    <3>2. b # 1
      BY <3>1, <2>2
    <3>3. b - 1 \in 1 .. n /\ b - 1 \notin T /\ b \in 2 .. n
      BY <1>0, <2>6, <3>2
    <3>4. flat[b - 1] = J[b - 1]
      BY <3>3
    <3> QED BY <3>1, <3>2, <3>3, <3>4, <2>3
  <2>7. T = {}
    <3>1. T \in SUBSET Nat
      BY <1>0
    <3> HIDE DEF T
    <3> QED BY <2>6, <3>1, LeastCount
  <2>8. n \in 1 .. n
    BY <1>0, <1>3
  <2>9. flat[n] = J[n]
    BY <2>7, <2>8
  <2> QED BY <1>1, <1>3, <2>9 DEF J
<1> QED BY <1>2, <1>3

(* The bytes up to a block, as the property counts them.                    *)
Counts(h, b, f) == f = [i \in 0 .. b |-> IF i = 0 THEN 0 ELSE f[i - 1] + h.blocks[i].bytes]

LEMMA BytesAreCounted ==
  ASSUME NEW h \in Payloads, NEW b \in 0 .. Len(h.blocks)
  PROVE  MicroBytesTo(h, b) = BytesTo(h)[b] /\ BytesTo(h)[b] \in Nat
<1> DEFINE to == CHOOSE f : Counts(h, b, f)
<1>0. /\ Len(h.blocks) \in Nat /\ b \in Nat
      /\ \A i \in 1 .. Len(h.blocks) : h.blocks[i].bytes \in Nat
  BY PayloadFacts
<1>1. MicroBytesTo(h, b) = to[b]
  BY DEF MicroBytesTo, Counts
<1>2. Counts(h, b, [i \in 0 .. b |-> BytesTo(h)[i]])
  <2> DEFINE g == [i \in 0 .. b |-> BytesTo(h)[i]]
  <2>1. ASSUME NEW i \in 0 .. b PROVE g[i] = IF i = 0 THEN 0 ELSE g[i - 1] + h.blocks[i].bytes
    <3>1. CASE i = 0
      BY <3>1, BytesSteps, <1>0
    <3>2. CASE i # 0
      <4>1. i \in 1 .. Len(h.blocks) /\ i - 1 \in 0 .. b
        BY <3>2, <1>0
      <4> QED BY <3>2, <4>1, BytesSteps
    <3> QED BY <3>1, <3>2
  <2>2. g = [i \in 0 .. b |-> g[i]]
    OBVIOUS
  <2> HIDE DEF g
  <2> QED BY <2>1, <2>2 DEF Counts
<1>3. Counts(h, b, to)
  BY <1>2
<1> HIDE DEF to
<1> DEFINE T == {i \in 0 .. b : ~ (to[i] = BytesTo(h)[i] /\ BytesTo(h)[i] \in Nat)}
<1>4. ASSUME NEW i \in T, \A m \in T : i <= m PROVE FALSE
  <2>1. to[i] = IF i = 0 THEN 0 ELSE to[i - 1] + h.blocks[i].bytes
    BY <1>3 DEF Counts
  <2>2. i # 0
    BY <2>1, BytesSteps
  <2>3. i - 1 \in 0 .. b /\ i - 1 \notin T /\ i \in 1 .. Len(h.blocks)
    BY <1>0, <1>4, <2>2
  <2>4. to[i - 1] = BytesTo(h)[i - 1] /\ BytesTo(h)[i - 1] \in Nat
    BY <2>3
  <2>5. BytesTo(h)[i] = BytesTo(h)[i - 1] + h.blocks[i].bytes
    BY <2>3, BytesSteps
  <2>6. BytesTo(h)[i] \in Nat
    BY <2>3, <2>4, <2>5, <1>0
  <2> QED BY <2>1, <2>2, <2>4, <2>5, <2>6
<1>5. T = {}
  <2>1. T \in SUBSET Nat
    BY <1>0
  <2> HIDE DEF T
  <2> QED BY <1>4, <2>1, LeastCount
<1>6. b \in 0 .. b
  BY <1>0
<1> QED BY <1>1, <1>5, <1>6

-----------------------------------------------------------------------------
(* Where the loop stands: `samples' were delivered when the decoder was     *)
(* about to begin, or go on with, block `at' of the hunk.                   *)
Delivered(h, at, samples) ==
  /\ Len(samples) <= h.want
  /\ Len(samples) <= Len(Joined(h, FALSE)[at - 1])
  /\ Len(samples) < h.want => Len(samples) = Len(Joined(h, FALSE)[at - 1])
  /\ Len(samples) = h.want => at > 1 /\ Len(Joined(h, FALSE)[at - 2]) < h.want
  /\ \A i \in 1 .. Len(samples) : samples[i] = Joined(h, FALSE)[at - 1][i]

LEMMA NothingDelivered ==
  ASSUME NEW h \in Payloads
  PROVE  Delivered(h, 1, <<>>)
<1>1. Joined(h, FALSE)[0] = <<>>
  <2>1. FALSE \in BOOLEAN
    OBVIOUS
  <2> QED BY <2>1, JoinedSteps, Zenon
<1>2. Len(<<>>) = 0 /\ 1 - 1 = 0
  OBVIOUS
<1>3. h.want \in Nat \ {0}
  BY PayloadFacts
<1>4. PICK none \in Seq(MicroSample) : none = <<>> /\ Len(none) = 0
  <2>1. <<>> \in Seq(MicroSample)
    OBVIOUS
  <2> QED BY <2>1, <1>2, Zenon
<1>5. Len(Joined(h, FALSE)[1 - 1]) = 0
  BY <1>1, <1>2
<1>6. Delivered(h, 1, none)
  <2>1. 0 <= h.want /\ 0 <= 0 /\ 0 # h.want /\ \A i \in 1 .. 0 : FALSE
    BY <1>3
  <2> QED BY <2>1, <1>4, <1>5, Zenon DEF Delivered
<1> QED BY <1>4, <1>6

(* One more block, whole or cut.                                            *)
LEMMA BlockDelivered ==
  ASSUME NEW h \in Payloads, NEW b \in 1 .. Len(h.blocks), NEW s \in Seq(MicroSample),
         Delivered(h, b, s), Len(s) < h.want, NEW taken \in Nat,
         taken = IF Len(s) + h.blocks[b].samples > h.want THEN h.want - Len(s)
                 ELSE h.blocks[b].samples
  PROVE  /\ s \o [i \in 1 .. taken |-> <<b, i, FALSE>>] \in Seq(MicroSample)
         /\ Len(s \o [i \in 1 .. taken |-> <<b, i, FALSE>>]) = Len(s) + taken
         /\ Delivered(h, b + 1, s \o [i \in 1 .. taken |-> <<b, i, FALSE>>])
<1> DEFINE J == Joined(h, FALSE)
           tail == [i \in 1 .. taken |-> <<b, i, FALSE>>]
<1>1. h.want \in Nat /\ h.blocks[b].samples \in Nat \ {0} /\ b \in Nat /\ b >= 1 /\ Len(s) \in Nat
  BY PayloadFacts
<1>2. tail \in Seq(MicroSample) /\ Len(tail) = taken /\ \A i \in 1 .. taken : tail[i] = <<b, i, FALSE>>
  <2>1. \A i \in 1 .. taken : <<b, i, FALSE>> \in MicroSample
    <3>1. \A x, y \in Nat, z \in BOOLEAN : <<x, y, z>> \in MicroSample
      BY DEF MicroSample
    <3>2. \A i \in 1 .. taken : i \in Nat
      OBVIOUS
    <3>3. FALSE \in BOOLEAN
      OBVIOUS
    <3> QED BY <1>1, <3>1, <3>2, <3>3, Zenon
  <2>2. tail \in [1 .. taken -> MicroSample]
    BY <2>1
  <2>3. \A f \in [1 .. taken -> MicroSample] : f \in Seq(MicroSample) /\ Len(f) = taken
    OBVIOUS
  <2>4. \A i \in 1 .. taken : tail[i] = <<b, i, FALSE>>
    OBVIOUS
  <2> HIDE DEF tail
  <2> QED BY <2>2, <2>3, <2>4
<1>3. /\ Len(J[b]) = Len(J[b - 1]) + h.blocks[b].samples
      /\ \A i \in 1 .. Len(J[b - 1]) : J[b][i] = J[b - 1][i]
      /\ \A i \in 1 .. h.blocks[b].samples : J[b][Len(J[b - 1]) + i] = <<b, i, FALSE>>
  <2>1. FALSE \in BOOLEAN
    OBVIOUS
  <2> QED BY <2>1, JoinedGrows, Zenon
<1>4. Len(s) = Len(J[b - 1]) /\ \A i \in 1 .. Len(s) : s[i] = J[b - 1][i]
  BY DEF Delivered
<1> HIDE DEF tail, J
<1>5. PICK all \in Seq(MicroSample) : all = s \o tail
  <2>1. \A t \in Seq(MicroSample) : s \o t \in Seq(MicroSample)
    OBVIOUS
  <2> QED BY <2>1, <1>2
<1>6. /\ Len(all) = Len(s) + taken
      /\ \A i \in 1 .. Len(s) : all[i] = s[i]
      /\ \A i \in 1 .. taken : all[Len(s) + i] = tail[i]
  BY <1>2, <1>5, SMTT(30)
<1>7. taken <= h.blocks[b].samples /\ taken \in Nat
  BY <1>1
<1>8. ASSUME NEW i \in 1 .. Len(all) PROVE all[i] = J[b][i]
  <2>1. CASE i <= Len(s)
    <3>1. i \in 1 .. Len(s)
      BY <2>1, <1>1, <1>6
    <3> QED BY <3>1, <1>3, <1>4, <1>6
  <2>2. CASE i > Len(s)
    <3>1. i - Len(s) \in 1 .. taken /\ i - Len(s) \in 1 .. h.blocks[b].samples /\ i = Len(s) + (i - Len(s))
      BY <2>2, <1>1, <1>6, <1>7, SMTT(30)
    <3>2. all[Len(s) + (i - Len(s))] = <<b, i - Len(s), FALSE>>
      BY <3>1, <1>2, <1>6
    <3>3. J[b][Len(s) + (i - Len(s))] = <<b, i - Len(s), FALSE>>
      BY <3>1, <1>3, <1>4
    <3> QED BY <3>1, <3>2, <3>3
  <2> QED BY <2>1, <2>2, <1>1, <1>6
<1>9. (b + 1) - 1 = b /\ (b + 1) - 2 = b - 1
  BY <1>1
<1>10. Delivered(h, b + 1, all)
  <2>1. /\ Len(all) <= h.want /\ Len(all) <= Len(J[b])
        /\ Len(all) < h.want => Len(all) = Len(J[b])
        /\ b + 1 > 1 /\ Len(J[b - 1]) < h.want
    <3> DEFINE m == h.blocks[b].samples
    <3>1. taken = IF Len(s) + m > h.want THEN h.want - Len(s) ELSE m
      OBVIOUS
    <3>2. m \in Nat \ {0} /\ Len(J[b]) = Len(s) + m /\ Len(J[b - 1]) = Len(s)
      BY <1>1, <1>3, <1>4
    <3>3. m \in Nat /\ m # 0 /\ h.want \in Nat /\ Len(s) \in Nat
            /\ Len(J[b]) \in Nat /\ Len(J[b - 1]) \in Nat /\ Len(s) < h.want
      BY <1>1, <3>2, SMTT(30)
    <3>4. b + 1 > 1
      BY <1>1
    <3> HIDE DEF m
    <3>5. /\ Len(s) + taken <= h.want /\ Len(s) + taken <= Len(J[b])
          /\ Len(s) + taken < h.want => Len(s) + taken = Len(J[b])
          /\ Len(J[b - 1]) < h.want
      <4>1. PICK have \in Nat, want \in Nat : have = Len(s) /\ want = h.want
        BY <3>3
      <4>2. /\ m \in Nat /\ m # 0 /\ have < want
            /\ taken = IF have + m > want THEN want - have ELSE m
        BY <3>1, <3>3, <4>1, Zenon
      <4>3. /\ have + taken <= want /\ have + taken <= have + m
            /\ have + taken < want => have + taken = have + m
        <5>1. CASE have + m > want
          <6>1. taken = want - have
            BY <4>2, <5>1, Zenon
          <6>2. have + taken = want
            BY <6>1
          <6> QED BY <4>2, <5>1, <6>2, SMTT(30)
        <5>2. CASE ~ (have + m > want)
          <6>1. taken = m
            BY <4>2, <5>2, Zenon
          <6>2. have + m <= want
            BY <4>2, <5>2
          <6> QED BY <6>1, <6>2, <4>2, SMTT(30)
        <5> QED BY <5>1, <5>2, Zenon
      <4>4. Len(J[b]) = have + m /\ Len(J[b - 1]) = have
        BY <3>2, <4>1
      <4> QED BY <4>1, <4>2, <4>3, <4>4, Zenon
    <3> QED BY <1>6, <3>4, <3>5
  <2> QED BY <2>1, <1>8, <1>9 DEF Delivered, J
<1> QED BY <1>5, <1>6, <1>10 DEF tail

(* When all that is wanted is there it is the beginning of the stream, and  *)
(* the last sample is of the block that was decoded last.                   *)
Swapped(h, s) == [i \in DOMAIN s |-> [s[i] EXCEPT ![3] = h.swap]]

LEMMA DeliveredIsTheStream ==
  ASSUME NEW h \in Payloads, NEW at \in 1 .. Len(h.blocks) + 1, NEW s \in Seq(MicroSample),
         Delivered(h, at, s), Len(s) = h.want
  PROVE  /\ Swapped(h, s) \in Seq(MicroSample) /\ Len(Swapped(h, s)) = h.want
         /\ Swapped(h, s) = SubSeq(MicroStreamOf(h, h.swap), 1, h.want)
         /\ Swapped(h, s)[h.want][1] = at - 1
<1> DEFINE J == Joined(h, FALSE)
           n == Len(h.blocks)
           out == [i \in DOMAIN s |-> [s[i] EXCEPT ![3] = h.swap]]
<1>1. h.want \in Nat \ {0} /\ n \in Nat /\ h.swap \in BOOLEAN /\ FALSE \in BOOLEAN
  BY PayloadFacts
<1>2. PICK stream \in Seq(MicroSample) : stream = MicroStreamOf(h, h.swap) /\ stream = Joined(h, h.swap)[n]
  <2>1. n \in 0 .. n
    BY <1>1
  <2> QED BY <2>1, <1>1, StreamIsJoined, JoinedType, Zenon
<1>3. /\ Len(stream) = Len(J[n])
      /\ \A i \in 1 .. Len(stream) : stream[i] = [J[n][i] EXCEPT ![3] = h.swap]
  <2>1. n \in 0 .. n
    BY <1>1
  <2>2. /\ Len(Joined(h, h.swap)[n]) = Len(J[n])
        /\ \A i \in 1 .. Len(Joined(h, h.swap)[n]) :
             Joined(h, h.swap)[n][i] = [J[n][i] EXCEPT ![3] = h.swap]
    <3>1. \A b \in 0 .. Len(h.blocks) :
           /\ Len(Joined(h, h.swap)[b]) = Len(Joined(h, FALSE)[b])
           /\ \A i \in 1 .. Len(Joined(h, h.swap)[b]) :
                Joined(h, h.swap)[b][i] = [Joined(h, FALSE)[b][i] EXCEPT ![3] = h.swap]
      BY <1>1, SwapIsTheOnlyDifference
    <3> QED BY <2>1, <3>1
  <2> QED BY <2>2, <1>2
<1>4. /\ at - 1 \in 0 .. n /\ n \in 0 .. n /\ at - 1 <= n /\ at > 1 /\ at - 1 \in 1 .. n
      /\ Len(J[at - 2]) < h.want /\ h.want <= Len(J[at - 1])
      /\ \A i \in 1 .. h.want : s[i] = J[at - 1][i]
  <2>1. /\ at > 1 /\ Len(J[at - 2]) < h.want /\ h.want <= Len(J[at - 1])
        /\ \A i \in 1 .. h.want : s[i] = J[at - 1][i]
    BY DEF Delivered
  <2>2. at \in Nat
    BY <1>1
  <2>3. at - 1 \in 0 .. n /\ n \in 0 .. n /\ at - 1 <= n /\ at - 1 \in 1 .. n
    <3> HIDE DEF J
    <3> QED BY <1>1, <2>1, <2>2
  <2> QED BY <2>1, <2>3
<1>5. /\ Len(J[at - 1]) <= Len(J[n])
      /\ \A i \in 1 .. Len(J[at - 1]) : J[n][i] = J[at - 1][i]
  BY <1>1, <1>4, JoinedAgrees, Zenon
<1>6. Len(J[at - 1]) \in Nat /\ Len(J[at - 2]) \in Nat
  <2>1. at - 2 \in 0 .. n
    BY <1>1, <1>4
  <2>2. J[at - 1] \in Seq(MicroSample) /\ J[at - 2] \in Seq(MicroSample)
    BY <2>1, <1>1, <1>4, JoinedType, Zenon
  <2>3. \A f \in Seq(MicroSample) : Len(f) \in Nat
    OBVIOUS
  <2> QED BY <2>2, <2>3
<1>7. /\ Len(J[at - 1]) = Len(J[at - 2]) + h.blocks[at - 1].samples
      /\ \A i \in 1 .. h.blocks[at - 1].samples : J[at - 1][Len(J[at - 2]) + i] = <<at - 1, i, FALSE>>
      /\ h.blocks[at - 1].samples \in Nat
  <2>1. (at - 1) - 1 = at - 2
    OBVIOUS
  <2>2. h.blocks[at - 1].samples \in Nat
    BY <1>4, PayloadFacts
  <2>3. /\ Len(J[at - 1]) = Len(J[(at - 1) - 1]) + h.blocks[at - 1].samples
        /\ \A i \in 1 .. h.blocks[at - 1].samples : J[at - 1][Len(J[(at - 1) - 1]) + i] = <<at - 1, i, FALSE>>
    BY <1>1, <1>4, JoinedGrows, Zenon
  <2> QED BY <2>1, <2>2, <2>3, Zenon
<1> HIDE DEF J
<1>8. DOMAIN s = 1 .. h.want /\ \A i \in 1 .. h.want : s[i] \in MicroSample
  BY <1>1
<1>9. \A x \in MicroSample : [x EXCEPT ![3] = h.swap] \in MicroSample /\ [x EXCEPT ![3] = h.swap][1] = x[1]
  BY <1>1, SwappedIsASample, Zenon
<1>10. /\ out = [i \in 1 .. h.want |-> out[i]]
       /\ \A i \in 1 .. h.want : out[i] = [s[i] EXCEPT ![3] = h.swap]
  BY <1>8
<1> HIDE DEF out
<1>11. \A i \in 1 .. h.want : out[i] \in MicroSample
  BY <1>8, <1>9, <1>10, ZenonT(30)
<1>12. out \in [1 .. h.want -> MicroSample]
  BY <1>10, <1>11
<1>13. out \in Seq(MicroSample) /\ Len(out) = h.want
  BY <1>1, <1>12, SMTT(30)
<1>14. h.want <= Len(stream) /\ Len(stream) \in Nat
  BY <1>1, <1>3, <1>4, <1>5, <1>6
<1>15. \A i \in 1 .. h.want : out[i] = stream[i]
  <2> TAKE i \in 1 .. h.want
  <2>1. i \in 1 .. Len(stream) /\ i \in 1 .. Len(J[at - 1])
    BY <1>1, <1>4, <1>6, <1>14, SMTT(30)
  <2>2. J[n][i] = s[i]
    BY <2>1, <1>4, <1>5
  <2> QED BY <2>1, <2>2, <1>3, <1>10
<1>16. SubSeq(stream, 1, h.want) = [i \in 1 .. h.want |-> stream[i]]
  BY <1>1, <1>14
<1>17. out = SubSeq(stream, 1, h.want)
  <2>1. [i \in 1 .. h.want |-> stream[i]] = [i \in 1 .. h.want |-> out[i]]
    BY <1>15
  <2> QED BY <2>1, <1>10, <1>16, Zenon
<1>18. out[h.want][1] = at - 1
  <2>1. h.want \in 1 .. h.want
    BY <1>1
  <2>2. h.want - Len(J[at - 2]) \in 1 .. h.blocks[at - 1].samples
        /\ h.want = Len(J[at - 2]) + (h.want - Len(J[at - 2]))
    <3>1. PICK want \in Nat, old \in Nat, new \in Nat, m \in Nat :
            want = h.want /\ old = Len(J[at - 2]) /\ new = Len(J[at - 1]) /\ m = h.blocks[at - 1].samples
      BY <1>1, <1>6, <1>7
    <3>2. new = old + m /\ old < want /\ want <= new
      BY <3>1, <1>4, <1>7, Zenon
    <3>3. want - old \in 1 .. m /\ want = old + (want - old)
      BY <3>2
    <3> QED BY <3>1, <3>3, Zenon
  <2>3. s[h.want] = <<at - 1, h.want - Len(J[at - 2]), FALSE>>
    BY <2>1, <2>2, <1>4, <1>7
  <2>4. out[h.want][1] = s[h.want][1]
    <3>1. s[h.want] \in MicroSample /\ out[h.want] = [s[h.want] EXCEPT ![3] = h.swap]
      BY <2>1, <1>8, <1>10
    <3>2. [s[h.want] EXCEPT ![3] = h.swap][1] = s[h.want][1]
      BY <3>1, <1>9, Zenon
    <3> QED BY <3>1, <3>2
  <2> QED BY <2>3, <2>4
<1> QED BY <1>2, <1>13, <1>17, <1>18 DEF out, Swapped

-----------------------------------------------------------------------------
(* While a hunk is decoded no allocation has failed, what there is of it is *)
(* the beginning of its stream, and the bytes taken are those of the blocks *)
(* behind and of the part of a block that was fed before a pause.           *)
Underway ==
  microphase \in {"header", "decode"} =>
    /\ ~ alloc_failed /\ ~ memoryfailed
    /\ Delivered(payload, atblock, microsamples)
    /\ payload_consumed = BytesTo(payload)[atblock - 1] + inblock
    /\ inblock # 0 =>
         /\ AtMicroBlock /\ inblock < MicroBlockHere.bytes
         /\ microhave < payload.want

MicroIInv ==
  /\ MicroTypeOK /\ BlocksHaveRoom /\ MicroHunkIsTheStream /\ MicroOutOfMemory
  /\ payload \in Payloads /\ microsamples \in Seq(MicroSample)
  /\ Underway

LEMMA MicroInitHolds == MicroInit => MicroIInv
<1> SUFFICES ASSUME MicroInit PROVE MicroIInv
  OBVIOUS
<1>1. <<>> \in Seq(MicroSample) /\ Len(<<>>) = 0
  OBVIOUS
<1>2. payload \in Payloads /\ microsamples \in Seq(MicroSample)
  BY <1>1 DEF MicroInit, Payloads
<1>3. /\ payload.length = 0 /\ payload.want = 1 /\ payload.maxblock = 1 /\ payload.blocks = <<>>
  BY DEF MicroInit, NoPayload
<1>4. MicroTypeOK
  <2>1. 0 \in 0 .. 0 /\ 1 \in 1 .. 0 + 1 /\ 0 \in 0 .. MicroHeader /\ 0 \in Nat
    BY MicroflacAssumption
  <2>2. microhave = Len(microsamples) /\ payload_consumed \in 0 .. payload.length
          /\ atblock \in 1 .. Len(payload.blocks) + 1
    BY <1>1, <1>3, <2>1, Zenon DEF MicroInit
  <2> QED BY <2>1, <2>2, Zenon DEF MicroInit, MicroTypeOK
<1>5. BlocksHaveRoom
  BY <1>1, <1>3 DEF MicroInit, BlocksHaveRoom
<1>6. MicroHunkIsTheStream /\ MicroOutOfMemory /\ Underway
  BY DEF MicroInit, MicroHunkIsTheStream, MicroOutOfMemory, Underway
<1> QED BY <1>2, <1>4, <1>5, <1>6 DEF MicroIInv

(* A hunk that is given up leaves nothing to be said about its samples.     *)
LEMMA GivenUp ==
  ASSUME MicroIInv, MicroTypeOK', BlocksHaveRoom', payload' = payload, microsamples' = microsamples,
         microphase' = "idle", microanswer' # "NONE", memoryfailed' <=> (microanswer' = "OUT_OF_MEMORY")
  PROVE  MicroIInv'
<1>1. MicroHunkIsTheStream' /\ MicroOutOfMemory' /\ Underway'
  BY DEF MicroHunkIsTheStream, MicroOutOfMemory, Underway
<1> QED BY <1>1 DEF MicroIInv

LEMMA MicroBetweenHunks ==
  ASSUME MicroIInv, ConstructMicro \/ DestroyMicro \/ UNCHANGED microvars
  PROVE  MicroIInv'
<1> USE DEF microvars, micropayload, delivered
<1>1. CASE ConstructMicro
  <2>1. MicroTypeOK' /\ BlocksHaveRoom'
    BY <1>1 DEF MicroIInv, ConstructMicro, MicroTypeOK, BlocksHaveRoom
  <2>2. MicroHunkIsTheStream' /\ MicroOutOfMemory' /\ Underway'
    BY <1>1 DEF ConstructMicro, MicroHunkIsTheStream, MicroOutOfMemory, Underway
  <2> QED BY <1>1, <2>1, <2>2 DEF MicroIInv, ConstructMicro
<1>2. CASE DestroyMicro
  <2>1. MicroTypeOK' /\ BlocksHaveRoom'
    BY <1>2 DEF MicroIInv, DestroyMicro, MicroTypeOK, BlocksHaveRoom
  <2>2. MicroHunkIsTheStream' /\ MicroOutOfMemory' /\ Underway'
    BY <1>2 DEF DestroyMicro, MicroHunkIsTheStream, MicroOutOfMemory, Underway
  <2> QED BY <1>2, <2>1, <2>2 DEF MicroIInv, DestroyMicro
<1>3. CASE UNCHANGED microvars
  BY <1>3 DEF MicroIInv, MicroTypeOK, BlocksHaveRoom, MicroHunkIsTheStream, MicroOutOfMemory,
              Underway, AtMicroBlock, MicroBlockHere
<1> QED BY <1>1, <1>2, <1>3

LEMMA MicroHunkStarts ==
  ASSUME MicroIInv, NEW h \in MicroHunks, StartMicro(h)
  PROVE  MicroIInv'
<1>1. h \in Payloads /\ MicroHeader \in Nat \ {0}
  BY MicroflacAssumption DEF Payloads
<1>2. h.want \in Nat \ {0} /\ h.maxblock \in Nat \ {0} /\ h.length \in Nat /\ Len(h.blocks) \in Nat
  BY <1>1, PayloadFacts
<1>3. <<>> \in Seq(MicroSample) /\ Len(<<>>) = 0 /\ 1 - 1 = 0
  OBVIOUS
<1>4. MicroTypeOK' /\ BlocksHaveRoom'
  <2>1. scratch_size \in Nat /\ 0 \in 0 .. h.length /\ 1 \in 1 .. Len(h.blocks) + 1
          /\ MicroHeader \in 0 .. MicroHeader /\ 0 <= h.want /\ h.maxblock >= h.maxblock
    BY <1>1, <1>2 DEF MicroIInv, MicroTypeOK
  <2> QED BY <1>3, <2>1 DEF StartMicro, ResetMicro, MicroTypeOK, BlocksHaveRoom
<1>5. MicroHunkIsTheStream' /\ MicroOutOfMemory'
  BY DEF StartMicro, MicroHunkIsTheStream, MicroOutOfMemory
<1>6. Underway'
  <2>1. Delivered(h, 1, <<>>)
    BY <1>1, NothingDelivered
  <2>2. BytesTo(h)[1 - 1] + 0 = 0
    BY <1>1, <1>3, BytesSteps
  <2> QED BY <2>1, <2>2 DEF StartMicro, ResetMicro, Underway
<1> QED BY <1>1, <1>3, <1>4, <1>5, <1>6 DEF MicroIInv, StartMicro

LEMMA MicroHeaderKeeps ==
  ASSUME MicroIInv, FeedHeader \/ HeaderReady \/ HeaderFails
  PROVE  MicroIInv'
<1> USE DEF micropayload, delivered
<1>1. CASE FeedHeader
  <2>1. headerleft' \in 0 .. MicroHeader
    BY <1>1, MicroflacAssumption DEF MicroIInv, MicroTypeOK, FeedHeader
  <2>2. MicroTypeOK' /\ BlocksHaveRoom'
    BY <1>1, <2>1 DEF MicroIInv, MicroTypeOK, BlocksHaveRoom, FeedHeader
  <2>3. MicroHunkIsTheStream' /\ MicroOutOfMemory'
    BY <1>1 DEF FeedHeader, MicroHunkIsTheStream, MicroOutOfMemory
  <2>4. Underway'
    BY <1>1 DEF MicroIInv, FeedHeader, Underway, AtMicroBlock, MicroBlockHere
  <2> QED BY <1>1, <2>2, <2>3, <2>4 DEF MicroIInv, FeedHeader
<1>2. CASE HeaderReady
  <2>1. 0 \in 0 .. MicroHeader
    BY MicroflacAssumption
  <2>2. MicroTypeOK' /\ BlocksHaveRoom'
    BY <1>2, <2>1 DEF MicroIInv, MicroTypeOK, BlocksHaveRoom, HeaderReady
  <2>3. MicroHunkIsTheStream' /\ MicroOutOfMemory'
    BY <1>2 DEF HeaderReady, MicroHunkIsTheStream, MicroOutOfMemory
  <2>4. Underway'
    BY <1>2 DEF MicroIInv, HeaderReady, Underway, AtMicroBlock, MicroBlockHere
  <2> QED BY <1>2, <2>2, <2>3, <2>4 DEF MicroIInv, HeaderReady
<1>3. CASE HeaderFails
  <2>1. ~ alloc_failed /\ ~ memoryfailed
    BY <1>3 DEF MicroIInv, Underway, HeaderFails
  <2>2. /\ microphase' = "idle" /\ microanswer' # "NONE"
        /\ memoryfailed' <=> (microanswer' = "OUT_OF_MEMORY")
        /\ alloc_failed' \in BOOLEAN /\ memoryfailed' \in BOOLEAN
    <3>1. microphase' = "idle" /\ \E failed \in BOOLEAN :
            memoryfailed' = failed /\ alloc_failed' = failed
            /\ microanswer' = IF failed THEN "OUT_OF_MEMORY" ELSE "DECOMPRESSION_ERROR"
      <4>1. CASE FailMicro(TRUE) /\ memoryfailed' = TRUE
        BY <4>1 DEF FailMicro
      <4>2. CASE FailMicro(alloc_failed) /\ UNCHANGED memoryfailed
        <5>1. alloc_failed \in BOOLEAN /\ memoryfailed \in BOOLEAN
          BY Zenon DEF MicroIInv, MicroTypeOK
        <5>2. alloc_failed = FALSE /\ memoryfailed' = FALSE
          BY <4>2, <5>1, <2>1, Zenon
        <5> QED BY <4>2, <5>2, Zenon DEF FailMicro
      <4> QED BY <1>3, <4>1, <4>2, Zenon DEF HeaderFails
    <3> QED BY <3>1
  <2>3. MicroTypeOK' /\ BlocksHaveRoom'
    BY <1>3, <2>2 DEF MicroIInv, MicroTypeOK, BlocksHaveRoom, HeaderFails
  <2> QED BY <1>3, <2>2, <2>3, GivenUp DEF HeaderFails
<1> QED BY <1>1, <1>2, <1>3

(* The room a call is given is never less than the largest block.           *)
LEMMA CallsGiveRoom ==
  ASSUME MicroIInv, NEW taken, CallMicro(taken)
  PROVE  microroom' >= payload'.maxblock /\ scratch_size' \in Nat
           /\ microturn' \in BOOLEAN /\ payload' = payload
<1>1. payload.maxblock \in Nat /\ payload.want \in Nat /\ microhave \in Nat /\ scratch_size \in Nat
  BY PayloadFacts DEF MicroIInv, MicroTypeOK
<1> QED BY <1>1 DEF CallMicro, RoomGiven, Direct, MicroRoom

LEMMA MicroScratchFails ==
  ASSUME MicroIInv, ScratchNotGrown
  PROVE  MicroIInv'
<1> USE DEF micropayload, delivered
<1>1. /\ microphase' = "idle" /\ microanswer' = "OUT_OF_MEMORY"
      /\ alloc_failed' = TRUE /\ memoryfailed' = TRUE
  BY DEF ScratchNotGrown, FailMicro
<1>2. MicroTypeOK' /\ BlocksHaveRoom'
  BY <1>1 DEF MicroIInv, MicroTypeOK, BlocksHaveRoom, ScratchNotGrown
<1> QED BY <1>1, <1>2, GivenUp DEF ScratchNotGrown

LEMMA MicroDecodeStops ==
  ASSUME MicroIInv, DecodeStops
  PROVE  MicroIInv'
<1>1. PICK taken \in {0, PayloadLeft}, failed \in {alloc_failed, TRUE} :
        CallMicro(taken) /\ FailMicro(failed) /\ memoryfailed' = (memoryfailed \/ failed)
  BY DEF DecodeStops
<1>2. ~ alloc_failed /\ ~ memoryfailed
  BY <1>1 DEF CallMicro, MicroDecoding, MicroIInv, Underway
<1>3. failed \in BOOLEAN /\ memoryfailed' = failed /\ memoryfailed \in BOOLEAN
  BY <1>1, <1>2, Zenon DEF MicroIInv, MicroTypeOK
<1>4. /\ microphase' = "idle" /\ alloc_failed' = failed
      /\ microanswer' = IF failed THEN "OUT_OF_MEMORY" ELSE "DECOMPRESSION_ERROR"
  BY <1>1 DEF FailMicro
<1>5. /\ microroom' >= payload'.maxblock /\ scratch_size' \in Nat
      /\ microturn' \in BOOLEAN /\ payload' = payload
  BY <1>1, CallsGiveRoom
<1>6. payload_consumed' \in 0 .. payload.length
  <2>1. payload.length \in Nat /\ payload_consumed \in 0 .. payload.length
    BY PayloadFacts DEF MicroIInv, MicroTypeOK
  <2>2. payload_consumed' = payload_consumed + taken
    BY <1>1 DEF CallMicro
  <2> QED BY <1>1, <2>1, <2>2 DEF PayloadLeft
<1>7. /\ UNCHANGED <<headerleft, header_done>>
      /\ UNCHANGED <<atblock, inblock, microhave, microsamples>>
  BY <1>1 DEF CallMicro, DecodeStops
<1>8. MicroTypeOK' /\ BlocksHaveRoom'
  <2>1. alloc_failed' \in BOOLEAN /\ memoryfailed' \in BOOLEAN
    BY <1>3, <1>4
  <2> QED BY <1>4, <1>5, <1>6, <1>7, <2>1 DEF MicroIInv, MicroTypeOK, BlocksHaveRoom
<1>9. microanswer' # "NONE" /\ (memoryfailed' <=> (microanswer' = "OUT_OF_MEMORY"))
  BY <1>3, <1>4
<1> QED BY <1>4, <1>5, <1>7, <1>8, <1>9, GivenUp

LEMMA MicroPauses ==
  ASSUME MicroIInv, PauseInBlock
  PROVE  MicroIInv'
<1>1. PICK taken \in 0 .. PayloadLeft :
        /\ taken < RestOfBlock /\ CallMicro(taken) /\ inblock' = inblock + taken
        /\ IF NoProgress(taken) THEN FailMicro(alloc_failed)
           ELSE UNCHANGED <<microphase, microanswer, alloc_failed>>
  BY DEF PauseInBlock
<1>2. /\ microphase = "decode" /\ microhave < payload.want /\ AtMicroBlock
      /\ UNCHANGED <<headerleft, header_done>>
      /\ UNCHANGED <<atblock, microhave, microsamples, memoryfailed>>
      /\ payload_consumed' = payload_consumed + taken
  BY <1>1 DEF PauseInBlock, CallMicro, MicroDecoding
<1>3. ~ alloc_failed /\ ~ memoryfailed
  BY <1>2 DEF MicroIInv, Underway
<1>4. /\ microroom' >= payload'.maxblock /\ scratch_size' \in Nat
      /\ microturn' \in BOOLEAN /\ payload' = payload
  BY <1>1, CallsGiveRoom
<1>5. /\ payload.length \in Nat /\ payload_consumed \in 0 .. payload.length
      /\ inblock \in Nat /\ MicroBlockHere.bytes \in Nat \ {0}
  <2>1. atblock \in 1 .. Len(payload.blocks) /\ payload \in Payloads
    BY <1>2, PayloadFacts DEF MicroIInv, MicroTypeOK, AtMicroBlock
  <2> QED BY <2>1, PayloadFacts DEF MicroIInv, MicroTypeOK, MicroBlockHere
<1>6. payload_consumed' \in 0 .. payload.length /\ inblock' \in Nat
        /\ inblock' < MicroBlockHere.bytes
  BY <1>1, <1>2, <1>5 DEF PayloadLeft, RestOfBlock
<1>7. alloc_failed' \in BOOLEAN /\ memoryfailed' \in BOOLEAN
        /\ microphase' \in {"idle", "decode"}
  <2>1. alloc_failed \in BOOLEAN /\ memoryfailed \in BOOLEAN
    BY Zenon DEF MicroIInv, MicroTypeOK
  <2> QED BY <1>1, <1>2, <2>1, Zenon DEF FailMicro
<1>8. MicroTypeOK' /\ BlocksHaveRoom'
  <2>1. header_done
    BY <1>2 DEF MicroIInv, MicroTypeOK
  <2> QED BY <1>2, <1>4, <1>6, <1>7, <2>1 DEF MicroIInv, MicroTypeOK, BlocksHaveRoom
<1>9. CASE NoProgress(taken)
  <2>1. microphase' = "idle" /\ microanswer' = "DECOMPRESSION_ERROR" /\ ~ memoryfailed'
    BY <1>1, <1>2, <1>3, <1>9 DEF FailMicro
  <2> QED BY <1>2, <1>4, <1>8, <2>1, GivenUp
<1>10. CASE ~ NoProgress(taken)
  <2>1. UNCHANGED <<microphase, microanswer, alloc_failed>>
    BY <1>1, <1>10
  <2>2. MicroHunkIsTheStream' /\ MicroOutOfMemory'
    BY <1>2, <2>1 DEF MicroHunkIsTheStream, MicroOutOfMemory
  <2>3. /\ Delivered(payload, atblock, microsamples)
        /\ payload_consumed = BytesTo(payload)[atblock - 1] + inblock
    BY <1>2 DEF MicroIInv, Underway
  <2>4. payload_consumed' = BytesTo(payload)[atblock - 1] + inblock'
    <3>1. BytesTo(payload)[atblock - 1] \in Nat
      <4>1. payload \in Payloads /\ atblock - 1 \in 0 .. Len(payload.blocks)
        BY PayloadFacts DEF MicroIInv, MicroTypeOK
      <4> QED BY <4>1, BytesAreCounted
    <3> QED BY <1>1, <1>2, <1>5, <2>3, <3>1
  <2>5. Underway'
    BY <1>2, <1>3, <1>4, <1>6, <2>1, <2>3, <2>4 DEF Underway, AtMicroBlock, MicroBlockHere
  <2> QED BY <1>2, <1>4, <1>8, <2>2, <2>5 DEF MicroIInv
<1> QED BY <1>9, <1>10

LEMMA MicroDecodesBlock ==
  ASSUME MicroIInv, DecodeBlock
  PROVE  MicroIInv'
<1> DEFINE taken == TakenOf(MicroBlockHere.samples)
           more == [i \in 1 .. taken |-> <<atblock, i, FALSE>>]
<1>1. /\ microphase = "decode" /\ microhave < payload.want /\ AtMicroBlock
      /\ UNCHANGED <<headerleft, header_done, microphase, alloc_failed, memoryfailed, microanswer>>
      /\ payload_consumed' = payload_consumed + RestOfBlock /\ RestOfBlock <= PayloadLeft
      /\ microsamples' = microsamples \o more /\ microhave' = microhave + taken
      /\ atblock' = atblock + 1 /\ inblock' = 0
  BY DEF DecodeBlock, CallMicro, MicroDecoding, BlockSound
<1>2. /\ microroom' >= payload'.maxblock /\ scratch_size' \in Nat
      /\ microturn' \in BOOLEAN /\ payload' = payload
  BY CallsGiveRoom DEF DecodeBlock
<1>3. /\ ~ alloc_failed /\ ~ memoryfailed
      /\ Delivered(payload, atblock, microsamples)
      /\ payload_consumed = BytesTo(payload)[atblock - 1] + inblock
      /\ inblock # 0 => inblock < MicroBlockHere.bytes
  BY <1>1 DEF MicroIInv, Underway
<1>4. /\ payload \in Payloads /\ microsamples \in Seq(MicroSample) /\ microhave = Len(microsamples)
      /\ atblock \in 1 .. Len(payload.blocks)
  BY <1>1, PayloadFacts DEF MicroIInv, MicroTypeOK, AtMicroBlock
<1>5. /\ payload.want \in Nat /\ payload.length \in Nat /\ Len(payload.blocks) \in Nat
      /\ MicroBlockHere.samples \in Nat \ {0} /\ MicroBlockHere.bytes \in Nat \ {0}
      /\ microhave \in Nat /\ inblock \in Nat /\ payload_consumed \in 0 .. payload.length
  BY <1>4, PayloadFacts DEF MicroBlockHere, MicroIInv, MicroTypeOK
<1>6. taken \in Nat /\ taken = IF Len(microsamples) + MicroBlockHere.samples > payload.want
                               THEN payload.want - Len(microsamples) ELSE MicroBlockHere.samples
  BY <1>1, <1>4, <1>5, SMTT(30) DEF TakenOf
<1>7. /\ microsamples \o more \in Seq(MicroSample)
      /\ Len(microsamples \o more) = Len(microsamples) + taken
      /\ Delivered(payload, atblock + 1, microsamples \o more)
  <2>1. Len(microsamples) < payload.want
    BY <1>1, <1>4
  <2> HIDE DEF taken
  <2> QED BY <1>3, <1>4, <1>6, <2>1, BlockDelivered DEF MicroBlockHere
<1>8. payload_consumed' = BytesTo(payload)[atblock] /\ payload_consumed' \in 0 .. payload.length
  <2>1. BytesTo(payload)[atblock] = BytesTo(payload)[atblock - 1] + MicroBlockHere.bytes
    BY <1>4, BytesSteps DEF MicroBlockHere
  <2>2. BytesTo(payload)[atblock - 1] \in Nat
    <3>1. atblock - 1 \in 0 .. Len(payload.blocks)
      BY <1>4, <1>5
    <3> QED BY <3>1, <1>4, BytesAreCounted
  <2>3. PICK bytes \in Nat, before \in Nat, all \in Nat :
          bytes = MicroBlockHere.bytes /\ before = BytesTo(payload)[atblock - 1] /\ all = payload.length
    BY <1>5, <2>2
  <2>4. /\ payload_consumed = before + inblock /\ inblock \in Nat
        /\ payload_consumed' = payload_consumed + (bytes - inblock)
        /\ bytes - inblock <= all - payload_consumed
        /\ inblock < bytes \/ inblock = 0
    BY <1>1, <1>3, <1>5, <2>3 DEF RestOfBlock, PayloadLeft
  <2>5. payload_consumed' = before + bytes /\ payload_consumed' \in 0 .. all
    BY <2>4
  <2> QED BY <2>1, <2>3, <2>5
<1> HIDE DEF taken, more
<1>9. atblock' \in 1 .. Len(payload.blocks) + 1 /\ (atblock + 1) - 1 = atblock
  BY <1>1, <1>4, <1>5
<1>10. MicroTypeOK' /\ BlocksHaveRoom'
  <2>1. Len(microsamples \o more) <= payload.want
    BY <1>7 DEF Delivered
  <2>2. microhave' = Len(microsamples')
    BY <1>1, <1>4, <1>7
  <2> QED BY <1>1, <1>2, <1>8, <1>9, <2>1, <2>2 DEF MicroIInv, MicroTypeOK, BlocksHaveRoom
<1>11. MicroHunkIsTheStream' /\ MicroOutOfMemory'
  BY <1>1 DEF MicroHunkIsTheStream, MicroOutOfMemory
<1>12. Underway'
  <2>1. payload_consumed' = BytesTo(payload)[(atblock + 1) - 1] + 0
    BY <1>8, <1>9
  <2> QED BY <1>1, <1>2, <1>3, <1>7, <2>1 DEF Underway
<1> QED BY <1>1, <1>2, <1>4, <1>7, <1>10, <1>11, <1>12 DEF MicroIInv

LEMMA MicroFinishes ==
  ASSUME MicroIInv, FinishMicro
  PROVE  MicroIInv'
<1> DEFINE out == Swapped(payload, microsamples)
<1>1. /\ microphase = "decode" /\ microhave >= payload.want
      /\ microsamples' = out /\ microphase' = "idle" /\ microanswer' = "NONE"
      /\ UNCHANGED <<payload, headerleft, header_done, payload_consumed, atblock, inblock,
                     microhave, microturn, microroom, scratch_size, alloc_failed, memoryfailed>>
  BY DEF FinishMicro, Swapped
<1>2. /\ ~ memoryfailed /\ Delivered(payload, atblock, microsamples)
      /\ payload_consumed = BytesTo(payload)[atblock - 1] + inblock
      /\ inblock # 0 => microhave < payload.want
  BY <1>1 DEF MicroIInv, Underway
<1>3. /\ payload \in Payloads /\ microsamples \in Seq(MicroSample) /\ microhave = Len(microsamples)
      /\ atblock \in 1 .. Len(payload.blocks) + 1
      /\ Len(microsamples) <= payload.want
  BY DEF MicroIInv, MicroTypeOK, BlocksHaveRoom
<1>4. payload.want \in Nat /\ Len(payload.blocks) \in Nat /\ Len(microsamples) \in Nat
        /\ atblock - 1 \in 0 .. Len(payload.blocks)
  BY <1>3, PayloadFacts
<1>5. Len(microsamples) = payload.want /\ inblock = 0
  BY <1>1, <1>2, <1>3, <1>4
<1>6. /\ out \in Seq(MicroSample) /\ Len(out) = payload.want
      /\ out = SubSeq(MicroStreamOf(payload, payload.swap), 1, payload.want)
      /\ out[payload.want][1] = atblock - 1
  BY <1>2, <1>3, <1>5, DeliveredIsTheStream, Zenon
<1>7. payload_consumed = MicroBytesTo(payload, atblock - 1)
  <2>1. MicroBytesTo(payload, atblock - 1) = BytesTo(payload)[atblock - 1]
          /\ BytesTo(payload)[atblock - 1] \in Nat
    BY <1>3, <1>4, BytesAreCounted
  <2> QED BY <1>2, <1>5, <2>1
<1> HIDE DEF out
<1>8. MicroHunkIsTheStream'
  BY <1>1, <1>6, <1>7 DEF MicroHunkIsTheStream
<1>9. MicroOutOfMemory' /\ Underway'
  BY <1>1, <1>2 DEF MicroOutOfMemory, Underway
<1>10. MicroTypeOK' /\ BlocksHaveRoom'
  <2>1. microhave = Len(out) /\ Len(out) <= payload.want
    BY <1>3, <1>4, <1>5, <1>6
  <2> QED BY <1>1, <2>1 DEF MicroIInv, MicroTypeOK, BlocksHaveRoom
<1> QED BY <1>1, <1>3, <1>6, <1>8, <1>9, <1>10 DEF MicroIInv

-----------------------------------------------------------------------------
LEMMA MicroNextKeeps == MicroIInv /\ [MicroNext]_microvars => MicroIInv'
<1> SUFFICES ASSUME MicroIInv, [MicroNext]_microvars PROVE MicroIInv'
  OBVIOUS
<1>1. CASE MicroStep
  BY <1>1, MicroHeaderKeeps, MicroScratchFails, MicroDecodesBlock, MicroPauses, MicroDecodeStops,
     MicroFinishes, Zenon DEF MicroStep
<1>2. CASE \E h \in MicroHunks : StartMicro(h)
  BY <1>2, MicroHunkStarts, Zenon
<1> QED BY <1>1, <1>2, MicroBetweenHunks, Zenon DEF MicroNext

(* For every stream, cut anywhere, every size of block and every way the    *)
(* streaming decoder stops: a hunk that is answered is the beginning of its *)
(* stream and leaves the decoder at the end of the last block it needed, no *)
(* block is decoded without room for it, and the codec is out of memory     *)
(* exactly when an allocation failed.                                       *)
THEOREM StreamedHunksAreDecoded == MicroSpec => []MicroHunkIsDecoded
<1>1. MicroInit => MicroIInv
  BY MicroInitHolds
<1>2. MicroIInv /\ [MicroNext]_microvars => MicroIInv'
  BY MicroNextKeeps
<1>3. MicroIInv => MicroHunkIsDecoded
  BY DEF MicroIInv, MicroHunkIsDecoded
<1> QED BY <1>1, <1>2, <1>3, PTL DEF MicroSpec

-----------------------------------------------------------------------------
(* The size of a block: halved until it is no more than the target.         *)
KnownHunks == Hunks \cup {NoStream}

LEMMA HunkFacts ==
  ASSUME NEW h \in KnownHunks
  PROVE  /\ h.frames \in Nat \ {0} /\ h.channels \in 1 .. 2 /\ h.target \in Nat \ {0}
         /\ Len(h.items) \in Nat
         /\ \A k \in 1 .. Len(h.items) :
              h.items[k] \in CodedFrames /\ Len(h.items[k].subs) = ChannelsOf(h.items[k])
<1>1. CASE h \in Hunks
  <2>1. /\ h.frames \in Nat \ {0} /\ h.channels \in 1 .. 2 /\ h.target \in Nat \ {0}
        /\ h.items \in Seq(CodedFrames)
        /\ \A k \in DOMAIN h.items : Len(h.items[k].subs) = ChannelsOf(h.items[k])
    BY <1>1, FlacStreamAssumption
  <2>2. /\ Len(h.items) \in Nat /\ DOMAIN h.items = 1 .. Len(h.items)
        /\ \A k \in 1 .. Len(h.items) : h.items[k] \in CodedFrames
    BY <2>1
  <2> QED BY <2>1, <2>2
<1>2. CASE h = NoStream
  <2>1. Len(<<>>) = 0
    OBVIOUS
  <2> QED BY <1>2, <2>1 DEF NoStream
<1> QED BY <1>1, <1>2 DEF KnownHunks

Halves(h, n, f) == f = [m \in 0 .. n |-> IF m <= h.target THEN m ELSE f[m \div 2]]

LEMMA HalvesExist ==
  ASSUME NEW h, h.target \in Nat \ {0}, NEW n \in Nat
  PROVE  \E f : Halves(h, n, f)
<1> DEFINE T == {k \in 0 .. n : \A f : ~ Halves(h, k, f)}
<1>1. ASSUME NEW k \in T, \A m \in T : k <= m PROVE FALSE
  <2>1. k \in 0 .. n /\ \A f : ~ Halves(h, k, f)
    OBVIOUS
  <2>2. Halves(h, 0, [m \in 0 .. 0 |-> m])
    <3>1. [m \in 0 .. 0 |-> m] = [m \in 0 .. 0 |-> IF m <= h.target THEN m ELSE [q \in 0 .. 0 |-> q][m \div 2]]
      OBVIOUS
    <3> QED BY <3>1 DEF Halves
  <2>3. k # 0
    BY <2>1, <2>2
  <2>4. k - 1 \in 0 .. n /\ k - 1 \notin T
    <3> HIDE DEF T
    <3> QED BY <1>1, <2>1, <2>3
  <2>5. PICK f : Halves(h, k - 1, f)
    BY <2>4
  <2> DEFINE next == IF k <= h.target THEN k ELSE f[k \div 2]
             g == [m \in 0 .. k |-> IF m < k THEN f[m] ELSE next]
  <2>6. ASSUME NEW m \in 0 .. k PROVE g[m] = IF m <= h.target THEN m ELSE g[m \div 2]
    <3>0. k \in Nat \ {0}
      BY <2>1, <2>3
    <3>1. CASE m < k
      <4>1. m \in 0 .. k - 1 /\ m \div 2 \in 0 .. k /\ m \div 2 < k
        BY <3>0, <3>1
      <4>2. g[m] = f[m] /\ g[m \div 2] = f[m \div 2]
        BY <3>1, <4>1
      <4>3. f[m] = IF m <= h.target THEN m ELSE f[m \div 2]
        BY <2>5, <4>1 DEF Halves
      <4> QED BY <4>2, <4>3
    <3>2. CASE m = k
      <4>1. k \div 2 \in 0 .. k /\ k \div 2 < k
        BY <3>0
      <4> QED BY <3>2, <4>1
    <3> QED BY <3>1, <3>2
  <2>7. g = [m \in 0 .. k |-> g[m]]
    OBVIOUS
  <2>8. Halves(h, k, g)
    <3> HIDE DEF g, next
    <3>1. [m \in 0 .. k |-> g[m]] = [m \in 0 .. k |-> IF m <= h.target THEN m ELSE g[m \div 2]]
      BY <2>6
    <3>2. g = [m \in 0 .. k |-> IF m <= h.target THEN m ELSE g[m \div 2]]
      BY <2>7, <3>1, Zenon
    <3> QED BY <3>2, Zenon DEF Halves
  <2> QED BY <2>1, <2>8
<1>2. T = {}
  <2>1. T \in SUBSET Nat
    OBVIOUS
  <2> HIDE DEF T
  <2> QED BY <1>1, <2>1, LeastCount
<1>3. n \in 0 .. n /\ n \notin T
  BY <1>2
<1> QED BY <1>3

LEMMA BlockSizeIs ==
  ASSUME NEW h \in KnownHunks
  PROVE  codec_blocksize(h) \in Nat \ {0} /\ codec_blocksize(h) <= h.target
<1> DEFINE half == CHOOSE f : Halves(h, h.frames, f)
           T == {m \in 1 .. h.frames : ~ (half[m] \in Nat \ {0} /\ half[m] <= h.target)}
<1>0. h.frames \in Nat \ {0} /\ h.target \in Nat \ {0}
  BY HunkFacts
<1>1. Halves(h, h.frames, half)
  BY <1>0, HalvesExist
<1>2. codec_blocksize(h) = half[h.frames]
  BY DEF codec_blocksize, Halves
<1> HIDE DEF half
<1>3. ASSUME NEW m \in T, \A k \in T : m <= k PROVE FALSE
  <2>1. half[m] = IF m <= h.target THEN m ELSE half[m \div 2]
    BY <1>1, <1>0 DEF Halves
  <2>2. ~ (m <= h.target)
    BY <1>0, <2>1
  <2>3. m \div 2 \in 1 .. h.frames /\ m \div 2 < m
    BY <1>0, <2>2
  <2>4. m \div 2 \notin T
    BY <1>3, <2>3
  <2> QED BY <2>1, <2>2, <2>3, <2>4
<1>4. T = {}
  <2>1. T \in SUBSET Nat
    BY <1>0
  <2> HIDE DEF T
  <2> QED BY <1>3, <2>1, LeastCount
<1>5. h.frames \in 1 .. h.frames
  BY <1>0
<1> QED BY <1>2, <1>4, <1>5

(* There is room for a block in every channel.                              *)
LEMMA RoomIs ==
  ASSUME NEW h \in KnownHunks
  PROVE  /\ Room(h) \in Nat /\ codec_blocksize(h) * h.channels <= Room(h)
         /\ AllocationSize(h) \in Nat \ {0}
<1>1. /\ codec_blocksize(h) \in Nat \ {0} /\ VectorSamples \in Nat \ {0} /\ h.channels \in 1 .. 2
  BY BlockSizeIs, HunkFacts, FlacStreamAssumption
<1>2. PICK n \in Nat \ {0}, v \in Nat \ {0} : n = codec_blocksize(h) /\ v = VectorSamples
  BY <1>1
<1>3. PICK q : q = (n + v - 1) \div v
  OBVIOUS
<1>4. q \in Nat /\ v * q <= n + v - 1 /\ n + v - 1 < v * q + v
  <2>1. PICK a \in Nat : a = n + v - 1
    BY <1>2
  <2>2. q = a \div v
    BY <1>3, <2>1
  <2>3. q \in Nat /\ v * q <= a /\ a < v * q + v
    BY <2>2
  <2> QED BY <2>1, <2>3
<1>5. q * v \in Nat /\ n <= q * v
  BY <1>2, <1>4
<1>6. Room(h) = (q * v) * h.channels
  BY <1>2, <1>3 DEF Room
<1>7. PICK r \in Nat : r = q * v
  BY <1>5
<1>8. h.channels = 1 \/ h.channels = 2
  BY <1>1
<1>9. r * h.channels \in Nat /\ n * h.channels <= r * h.channels
  BY <1>5, <1>7, <1>8
<1> QED BY <1>2, <1>6, <1>7, <1>9 DEF AllocationSize

-----------------------------------------------------------------------------
(* The kept block: while a stream is read it stands in it.                  *)
StreamStands ==
  /\ decoder = "arena" => arena > 0
  /\ phase \in {"read", "frames"} => decoder = "arena" /\ ~ refused
  /\ phase = "freed" => decoder = "none" /\ arena = 0

KeptTypes ==
  /\ arena \in Nat /\ live \in Nat /\ busy \in BOOLEAN /\ refused \in BOOLEAN
  /\ decoder \in {"none", "arena", "other"}
  /\ phase \in {"idle", "read", "frames", "freed"}
  /\ hunk \in KnownHunks

KeptIInv == KeptTypes /\ StreamStands /\ KeptBlockIsSound

LEMMA KeptInitHolds == FlacStreamInit => KeptIInv
<1> SUFFICES ASSUME FlacStreamInit PROVE KeptIInv
  OBVIOUS
<1>1. KeptTypes
  <2>1. 0 \in Nat
    OBVIOUS
  <2> QED BY <2>1, Zenon DEF FlacStreamInit, KeptTypes, KnownHunks
<1>2. StreamStands /\ KeptBlockServes /\ OutOfMemoryIsReported /\ BlocksAreAccountedFor
  BY DEF FlacStreamInit, StreamStands, KeptBlockServes, OutOfMemoryIsReported, BlocksAreAccountedFor
<1> QED BY <1>1, <1>2 DEF KeptIInv, KeptBlockIsSound

LEMMA KeptNextHolds == KeptIInv /\ [FlacStreamNext]_streamvars => KeptIInv'
<1> SUFFICES ASSUME KeptIInv, [FlacStreamNext]_streamvars PROVE KeptIInv'
  OBVIOUS
<1> USE DEF flacstream
<1>a. KeptTypes /\ StreamStands /\ BlocksAreAccountedFor /\ KeptBlockServes /\ OutOfMemoryIsReported
  BY DEF KeptIInv, KeptBlockIsSound
<1>b. /\ decoder # "other" /\ live = (IF arena > 0 THEN 1 ELSE 0)
      /\ busy = (decoder = "arena") /\ BusyAfterClose = FALSE
  <2>1. /\ decoder # "other" /\ live = (IF arena > 0 THEN 1 ELSE 0) + (IF decoder = "other" THEN 1 ELSE 0)
        /\ busy \in BOOLEAN /\ (busy <=> decoder = "arena")
    BY <1>a, Zenon DEF KeptTypes, BlocksAreAccountedFor, KeptBlockServes
  <2>2. live = (IF arena > 0 THEN 1 ELSE 0)
    BY <2>1
  <2>3. busy = (decoder = "arena") /\ BusyAfterClose = FALSE
    BY <2>1, Zenon DEF BusyAfterClose
  <2> QED BY <2>1, <2>2, <2>3
<1>c. \A h \in Hunks : h \in KnownHunks /\ AllocationSize(h) \in Nat \ {0}
  BY RoomIs DEF KnownHunks
<1>1. ASSUME NEW h \in Hunks, ResetInArena(h) PROVE KeptIInv'
  <2>1. /\ arena > 0 /\ arena >= AllocationSize(h) /\ hunk' = h /\ phase' = "read"
        /\ live' = live /\ busy' = TRUE /\ decoder' = "arena" /\ refused' = FALSE
        /\ UNCHANGED <<arena, result>>
    BY <1>1, <1>b DEF ResetInArena, FitsBits, Opened
  <2>2. KeptTypes' /\ StreamStands' /\ OutOfMemoryIsReported'
    BY <1>a, <1>c, <2>1 DEF KeptTypes, StreamStands, OutOfMemoryIsReported
  <2>3. BlocksAreAccountedFor' /\ KeptBlockServes'
    BY <1>b, <2>1 DEF BlocksAreAccountedFor, KeptBlockServes
  <2> QED BY <2>2, <2>3 DEF KeptIInv, KeptBlockIsSound
<1>2. ASSUME NEW h \in Hunks, ResetWithMalloc(h) PROVE KeptIInv'
  <2>1. AllocationSize(h) > arena /\ arena \in Nat /\ AllocationSize(h) \in Nat \ {0}
    BY <1>2, <1>a, <1>b, <1>c DEF ResetWithMalloc, FitsBits, KeptTypes
  <2>2. Adopts(h)
    BY <1>b, <2>1 DEF Adopts
  <2>3. /\ hunk' = h /\ phase' = "read" /\ busy' = TRUE /\ decoder' = "arena" /\ refused' = FALSE
        /\ arena' = AllocationSize(h) /\ live' = live + 1 - 0 - (IF arena > 0 THEN 1 ELSE 0)
    BY <1>2, <1>b, <2>2 DEF ResetWithMalloc, Opened
  <2>4. live' = 1
    BY <1>b, <2>3
  <2>5. KeptTypes' /\ StreamStands' /\ OutOfMemoryIsReported'
    <3>1. KeptTypes'
      <4>1. live' \in Nat /\ arena' \in Nat /\ h \in KnownHunks
        BY <1>c, <2>3, <2>4
      <4> QED BY <2>3, <4>1, Zenon DEF KeptTypes
    <3>2. StreamStands' /\ OutOfMemoryIsReported'
      BY <2>1, <2>3 DEF StreamStands, OutOfMemoryIsReported
    <3> QED BY <3>1, <3>2
  <2>6. BlocksAreAccountedFor' /\ KeptBlockServes'
    BY <2>1, <2>3, <2>4 DEF BlocksAreAccountedFor, KeptBlockServes
  <2> QED BY <2>5, <2>6 DEF KeptIInv, KeptBlockIsSound
<1>3. ASSUME NEW h \in Hunks, ResetRefused(h) PROVE KeptIInv'
  <2>1. /\ decoder' = "none" /\ refused' = TRUE /\ result' = "OUT_OF_MEMORY" /\ live' = live
        /\ busy' = FALSE /\ UNCHANGED <<phase, arena, hunk>> /\ phase = "idle"
    BY <1>3, <1>b DEF ResetRefused, Closed
  <2>2. KeptTypes' /\ StreamStands' /\ OutOfMemoryIsReported'
    BY <1>a, <2>1 DEF KeptTypes, StreamStands, OutOfMemoryIsReported
  <2>3. BlocksAreAccountedFor' /\ KeptBlockServes'
    BY <1>b, <2>1 DEF BlocksAreAccountedFor, KeptBlockServes
  <2> QED BY <2>2, <2>3 DEF KeptIInv, KeptBlockIsSound
<1>4. ASSUME UNCHANGED <<arena, busy, decoder, live, refused, hunk, result>>,
             \/ phase' \in {"read", "frames"} /\ phase \in {"read", "frames"}
             \/ phase' = phase
      PROVE  KeptIInv'
  <2>1. KeptTypes' /\ StreamStands' /\ OutOfMemoryIsReported'
    BY <1>a, <1>4 DEF KeptTypes, StreamStands, OutOfMemoryIsReported
  <2>2. BlocksAreAccountedFor' /\ KeptBlockServes'
    BY <1>a, <1>4 DEF BlocksAreAccountedFor, KeptBlockServes
  <2> QED BY <2>1, <2>2 DEF KeptIInv, KeptBlockIsSound
<1>5. CASE HunkStep
  <2>1. CASE StartRead \/ ReadItem \/ StreamEnds \/ TakeSamples \/ WriteSamples
    <3>1. /\ UNCHANGED <<arena, busy, decoder, live, refused, hunk, result>>
          /\ \/ phase' \in {"read", "frames"} /\ phase \in {"read", "frames"}
             \/ phase' = phase
      BY <2>1 DEF StartRead, ReadItem, StreamEnds, TakeSamples, WriteSamples
    <3> QED BY <3>1, <1>4
  <2>2. CASE NothingRead
    <3>1. /\ phase = "frames" /\ phase' = "idle" /\ result' = "DECOMPRESSION_ERROR"
          /\ UNCHANGED <<arena, busy, decoder, live, refused, hunk>>
      BY <2>2 DEF NothingRead
    <3>2. KeptTypes' /\ StreamStands' /\ OutOfMemoryIsReported'
      BY <1>a, <3>1 DEF KeptTypes, StreamStands, OutOfMemoryIsReported
    <3>3. BlocksAreAccountedFor' /\ KeptBlockServes'
      BY <1>a, <3>1 DEF BlocksAreAccountedFor, KeptBlockServes
    <3> QED BY <3>2, <3>3 DEF KeptIInv, KeptBlockIsSound
  <2>3. CASE FinishStream
    <3>1. /\ phase = "read" /\ phase' = "idle" /\ result' = "NONE" /\ decoder' = "none"
          /\ live' = live /\ busy' = FALSE /\ UNCHANGED <<arena, refused, hunk>>
      BY <2>3, <1>b DEF FinishStream, Closed
    <3>2. KeptTypes' /\ StreamStands' /\ OutOfMemoryIsReported'
      BY <1>a, <3>1 DEF KeptTypes, StreamStands, OutOfMemoryIsReported
    <3>3. BlocksAreAccountedFor' /\ KeptBlockServes'
      BY <1>b, <3>1 DEF BlocksAreAccountedFor, KeptBlockServes
    <3> QED BY <3>2, <3>3 DEF KeptIInv, KeptBlockIsSound
  <2> QED BY <1>5, <2>1, <2>2, <2>3 DEF HunkStep
<1>6. CASE Free
  <2>1. /\ phase = "idle" /\ phase' = "freed" /\ arena' = 0 /\ busy' = FALSE /\ decoder' = "none"
        /\ live' = live - 0 - (IF arena > 0 THEN 1 ELSE 0) /\ hunk' = NoStream
        /\ UNCHANGED <<refused, result>>
    BY <1>6, <1>b DEF Free, flac_decoder_free, Opened
  <2>2. live' = 0
    BY <1>b, <2>1
  <2>3. KeptTypes' /\ StreamStands' /\ OutOfMemoryIsReported'
    <3>1. KeptTypes'
      <4>1. live' \in Nat /\ arena' \in Nat /\ NoStream \in KnownHunks
        BY <2>1, <2>2 DEF KnownHunks
      <4> QED BY <1>a, <2>1, <4>1, Zenon DEF KeptTypes
    <3>2. StreamStands' /\ OutOfMemoryIsReported'
      BY <1>a, <2>1 DEF StreamStands, OutOfMemoryIsReported
    <3> QED BY <3>1, <3>2
  <2>4. BlocksAreAccountedFor' /\ KeptBlockServes'
    BY <2>1, <2>2 DEF BlocksAreAccountedFor, KeptBlockServes
  <2> QED BY <2>3, <2>4 DEF KeptIInv, KeptBlockIsSound
<1>7. CASE Start
  <2>1. /\ phase = "freed" /\ phase' = "idle" /\ result' = "none" /\ refused' = FALSE
        /\ arena' = 0 /\ busy' = FALSE /\ decoder' = "none" /\ UNCHANGED <<live, hunk>> /\ live = 0
    BY <1>7, <1>a DEF Start, BlocksAreAccountedFor
  <2>2. KeptTypes' /\ StreamStands' /\ OutOfMemoryIsReported'
    BY <1>a, <2>1 DEF KeptTypes, StreamStands, OutOfMemoryIsReported
  <2>3. BlocksAreAccountedFor' /\ KeptBlockServes'
    BY <2>1 DEF BlocksAreAccountedFor, KeptBlockServes
  <2> QED BY <2>2, <2>3 DEF KeptIInv, KeptBlockIsSound
<1>8. CASE UNCHANGED streamvars
  <2>1. UNCHANGED <<arena, busy, decoder, live, refused, hunk, result>> /\ phase' = phase
    BY <1>8 DEF streamvars
  <2> QED BY <2>1, <1>4
<1> QED BY <1>1, <1>2, <1>3, <1>5, <1>6, <1>7, <1>8, Zenon DEF FlacStreamNext

(* For every sequence of hunks and streams, and mallocs that fail anywhere: *)
(* one block serves hunk after hunk, it is never lent twice and never lost, *)
(* and running out of memory is told from a bad stream.                     *)
THEOREM OneBlockServes == FlacStreamSpec => []KeptBlockIsSound
<1>1. FlacStreamInit => KeptIInv
  BY KeptInitHolds
<1>2. KeptIInv /\ [FlacStreamNext]_streamvars => KeptIInv'
  BY KeptNextHolds
<1>3. KeptIInv => KeptBlockIsSound
  BY DEF KeptIInv
<1> QED BY <1>1, <1>2, <1>3, PTL DEF FlacStreamSpec

-----------------------------------------------------------------------------
(* The samples a subframe writes, and where.                                *)
LEMMA SubframeFields ==
  ASSUME NEW subframe \in CodedSubframes
  PROVE  subframe.type \in 0 .. 127 /\ subframe.partition \in 0 .. 15 /\ Order(subframe) \in Nat
           /\ Kind(subframe) \in {"constant", "verbatim", "lpc", "fixed", "reserved"}
<1>1. subframe.type \in 0 .. 127 /\ subframe.partition \in 0 .. 15
  BY DEF CodedSubframes
<1>2. (subframe.type % 32) + 1 \in Nat /\ subframe.type % 8 \in Nat
  BY <1>1
<1>3. Order(subframe) \in Nat
  BY <1>2 DEF Order
<1>4. Kind(subframe) \in {"constant", "verbatim", "lpc", "fixed", "reserved"}
  BY DEF Kind
<1> QED BY <1>1, <1>3, <1>4

LEMMA PartitionPowers ==
  \A p \in 0 .. 8 : 2 ^ p \in {1, 2, 4, 8, 16, 32, 64, 128, 256} /\ 2 ^ p \in Nat \ {0}
<1>1. /\ 2 ^ 0 = 1 /\ 2 ^ 1 = 2 /\ 2 ^ 2 = 4 /\ 2 ^ 3 = 8 /\ 2 ^ 4 = 16
      /\ 2 ^ 5 = 32 /\ 2 ^ 6 = 64 /\ 2 ^ 7 = 128 /\ 2 ^ 8 = 256
  OBVIOUS
<1> DEFINE power(p) == 2 ^ p
<1>2. /\ power(0) = 1 /\ power(1) = 2 /\ power(2) = 4 /\ power(3) = 8 /\ power(4) = 16
      /\ power(5) = 32 /\ power(6) = 64 /\ power(7) = 128 /\ power(8) = 256
  BY <1>1
<1>3. \A p \in 0 .. 8 : p \in {0, 1, 2, 3, 4, 5, 6, 7, 8}
  OBVIOUS
<1> HIDE DEF power
<1>4. \A p \in 0 .. 8 : power(p) \in {1, 2, 4, 8, 16, 32, 64, 128, 256}
  BY <1>2, <1>3
<1>5. \A p \in 0 .. 8 : power(p) \in Nat \ {0}
  BY <1>4
<1> QED BY <1>4, <1>5 DEF power

(* The sizes of the partitions add up, one after the other.                 *)
Adds(subframe, size, n, f) ==
  f = [k \in 0 .. n |-> IF k = 0 THEN Order(subframe) ELSE f[k - 1] + SamplesInPartition(subframe, size, k - 1)]

LEMMA WrittenIs ==
  ASSUME NEW subframe \in CodedSubframes, NEW size \in Nat \ {0},
         Kind(subframe) # "reserved", ~ ResidualIsBad(subframe, size)
  PROVE  Written(subframe, size) \in Nat /\ Written(subframe, size) <= size
<1>1. CASE Kind(subframe) \in {"constant", "verbatim"}
  BY <1>1 DEF Written
<1>2. CASE Kind(subframe) \notin {"constant", "verbatim"}
  <2> DEFINE n == 2 ^ subframe.partition
             upto == CHOOSE f : Adds(subframe, size, n, f)
  <2>1. Kind(subframe) \in {"fixed", "lpc"}
    BY <1>2, SubframeFields
  <2>2. subframe.partition \in 0 .. 8 /\ ~ (size \div n < Order(subframe))
    BY <2>1, SubframeFields DEF ResidualIsBad
  <2>3. n \in {1, 2, 4, 8, 16, 32, 64, 128, 256}
    BY <2>2, PartitionPowers
  <2>4. Written(subframe, size) = upto[n]
    BY <1>2 DEF Written, Adds
  <2>5. PICK q : q = size \div n
    OBVIOUS
  <2>6. q \in Nat /\ n * q <= size /\ n \in Nat \ {0} /\ Order(subframe) \in Nat
    BY <2>3, <2>5, SubframeFields
  <2>7. \A k \in 1 .. n : SamplesInPartition(subframe, size, k - 1) = IF k = 1 THEN q - Order(subframe) ELSE q
    BY <2>5, <2>6 DEF SamplesInPartition
  <2> HIDE DEF n
  <2>8. Adds(subframe, size, n, [k \in 0 .. n |-> IF k = 0 THEN Order(subframe) ELSE k * q])
    <3> DEFINE g == [k \in 0 .. n |-> IF k = 0 THEN Order(subframe) ELSE k * q]
    <3>1. ASSUME NEW k \in 0 .. n
          PROVE  g[k] = IF k = 0 THEN Order(subframe) ELSE g[k - 1] + SamplesInPartition(subframe, size, k - 1)
      <4>1. CASE k = 0
        BY <4>1
      <4>2. CASE k = 1
        <5>1. 1 \in 1 .. n /\ 1 - 1 = 0 /\ 0 \in 0 .. n /\ 1 \in 0 .. n
          BY <2>6
        <5>2. g[1] = 1 * q /\ g[1 - 1] = Order(subframe)
          BY <5>1
        <5>3. Order(subframe) + (q - Order(subframe)) = 1 * q
          BY <2>6
        <5>4. SamplesInPartition(subframe, size, 1 - 1) = q - Order(subframe)
          BY <5>1, <2>7, Zenon
        <5> HIDE DEF g
        <5> QED BY <4>2, <5>2, <5>3, <5>4
      <4>3. CASE k # 0 /\ k # 1
        <5>1. k \in 1 .. n /\ k - 1 \in 0 .. n /\ k - 1 # 0
          BY <4>3, <2>6
        <5>2. g[k] = k * q /\ g[k - 1] = (k - 1) * q
          BY <4>3, <5>1
        <5>3. SamplesInPartition(subframe, size, k - 1) = q
          BY <4>3, <5>1, <2>7
        <5>4. (k - 1) * q + q = k * q
          BY <5>1, <2>6
        <5> HIDE DEF g
        <5> QED BY <4>3, <5>2, <5>3, <5>4
      <4> QED BY <4>1, <4>2, <4>3
    <3>2. g = [k \in 0 .. n |-> g[k]]
      OBVIOUS
    <3> HIDE DEF g
    <3>3. [k \in 0 .. n |-> g[k]]
            = [k \in 0 .. n |-> IF k = 0 THEN Order(subframe) ELSE g[k - 1] + SamplesInPartition(subframe, size, k - 1)]
      BY <3>1
    <3>4. g = [k \in 0 .. n |-> IF k = 0 THEN Order(subframe) ELSE g[k - 1] + SamplesInPartition(subframe, size, k - 1)]
      BY <3>2, <3>3, Zenon
    <3> QED BY <3>4, Zenon DEF Adds, g
  <2>9. Adds(subframe, size, n, upto)
    BY <2>8
  <2> HIDE DEF upto
  <2> DEFINE T == {k \in 1 .. n : upto[k] # k * q}
  <2>10. ASSUME NEW k \in T, \A m \in T : k <= m PROVE FALSE
    <3>1. upto[k] = upto[k - 1] + SamplesInPartition(subframe, size, k - 1) /\ upto[0] = Order(subframe)
      BY <2>6, <2>9 DEF Adds
    <3>2. CASE k = 1
      <4>1. upto[1] = Order(subframe) + (q - Order(subframe))
        <5>1. 1 \in 1 .. n /\ 1 - 1 = 0
          BY <2>6
        <5>2. SamplesInPartition(subframe, size, 1 - 1) = q - Order(subframe)
          BY <5>1, <2>7, Zenon
        <5> QED BY <3>1, <3>2, <5>1, <5>2
      <4> QED BY <4>1, <3>2, <2>6
    <3>3. CASE k # 1
      <4>1. k - 1 \in 1 .. n /\ k \in 1 .. n
        BY <3>3, <2>6
      <4>2. k - 1 \notin T
        <5> HIDE DEF T
        <5> QED BY <4>1, <2>10
      <4>3. upto[k - 1] = (k - 1) * q
        BY <4>1, <4>2
      <4>4. upto[k] = (k - 1) * q + q
        BY <3>1, <3>3, <4>1, <4>3, <2>7
      <4>5. (k - 1) * q + q = k * q
        BY <4>1, <2>6
      <4> QED BY <4>4, <4>5
    <3> QED BY <3>2, <3>3
  <2>11. T = {}
    <3>1. T \in SUBSET Nat
      BY <2>6
    <3> HIDE DEF T
    <3> QED BY <2>10, <3>1, LeastCount
  <2>12. n \in 1 .. n
    BY <2>6
  <2>13. upto[n] = n * q
    BY <2>11, <2>12
  <2>14. n * q \in Nat
    BY <2>3, <2>6
  <2> QED BY <2>4, <2>6, <2>13, <2>14 DEF upto
<1> QED BY <1>1, <1>2

LEMMA FrameFields ==
  ASSUME NEW f \in CodedFrames
  PROVE  /\ f.size \in 0 .. 15 /\ f.extra \in Nat /\ f.assignment \in 0 .. 15
         /\ f.subs \in Seq(CodedSubframes)
BY DEF CodedFrames

LEMMA BlocksAreNotEmpty ==
  ASSUME NEW f \in CodedFrames, HeaderVerdict(f) = "take"
  PROVE  BlockSize(f) \in Nat \ {0}
<1>1. f.size \in 0 .. 15 /\ f.extra \in Nat
  BY FrameFields
<1>2. f.size # 0
  BY DEF HeaderVerdict
<1>3. f.size \in {1, 2, 3, 4, 5, 6, 7, 8, 9, 10, 11, 12, 13, 14, 15}
  BY <1>1, <1>2
<1>4. f.size \in 2 .. 5 => f.size - 2 \in 0 .. 8
  BY <1>3
<1>5. f.size \in 8 .. 15 => f.size - 8 \in 0 .. 8
  BY <1>3
<1>6. \A p \in 0 .. 8 : 2 ^ p \in Nat \ {0}
  BY PartitionPowers, Zenon
<1>7. CASE f.size \in 2 .. 5
  <2>1. PICK n \in Nat \ {0} : n = 2 ^ (f.size - 2)
    BY <1>4, <1>6, <1>7
  <2>2. BlockSize(f) = 576 * n
    BY <1>7, <2>1 DEF BlockSize
  <2> QED BY <2>2
<1>8. CASE f.size \in 8 .. 15
  <2>1. PICK n \in Nat \ {0} : n = 2 ^ (f.size - 8)
    BY <1>5, <1>6, <1>8
  <2>2. BlockSize(f) = 256 * n
    BY <1>8, <2>1 DEF BlockSize
  <2> QED BY <2>2
<1>9. CASE f.size \in {1, 6, 7}
  BY <1>1, <1>9 DEF BlockSize
<1> QED BY <1>3, <1>7, <1>8, <1>9

(* A sample of a channel is told by its place.                              *)
LEMMA PlacesAreTold ==
  ASSUME NEW size \in Nat \ {0}, NEW c \in 0 .. 1, NEW i \in 0 .. size - 1
  PROVE  (c * size + i) \div size = c /\ (c * size + i) % size = i
<1>1. CASE c = 0
  <2>1. c * size + i = i
    BY <1>1
  <2>2. i \div size = 0 /\ i % size = i
    OBVIOUS
  <2> QED BY <1>1, <2>1, <2>2
<1>2. CASE c = 1
  <2>1. c * size + i = size + i
    BY <1>2
  <2>2. (size + i) \div size = 1 /\ (size + i) % size = i
    OBVIOUS
  <2> QED BY <1>2, <2>1, <2>2
<1> QED BY <1>1, <1>2

FrameFits(h, f) ==
  HeaderVerdict(f) = "take" /\ ~ FrameIsRefused(f, codec_blocksize(h), h.channels)
FrameTaken(h, f) == FrameFits(h, f) /\ \A c \in 0 .. h.channels - 1 : ~ SubframeIsBad(f, c)

LEMMA FramesFit ==
  ASSUME NEW h \in KnownHunks, NEW k \in 1 .. Len(h.items), FrameFits(h, h.items[k])
  PROVE  /\ BlockSize(h.items[k]) \in Nat \ {0} /\ BlockSize(h.items[k]) <= codec_blocksize(h)
         /\ ChannelsOf(h.items[k]) = h.channels /\ h.channels \in 1 .. 2
         /\ BlockSize(h.items[k]) * h.channels <= Room(h) /\ Room(h) \in Nat
<1> DEFINE f == h.items[k]
<1>1. f \in CodedFrames /\ h.channels \in 1 .. 2
  BY HunkFacts
<1>2. BlockSize(f) \in Nat \ {0}
  BY <1>1, BlocksAreNotEmpty DEF FrameFits
<1>3. codec_blocksize(h) \in Nat /\ codec_blocksize(h) * h.channels <= Room(h) /\ Room(h) \in Nat
  BY BlockSizeIs, RoomIs
<1>4. ~ (BlockSize(f) > codec_blocksize(h)) /\ ChannelsOf(f) = h.channels
  BY DEF FrameFits, FrameIsRefused
<1> HIDE DEF f
<1>5. PICK size \in Nat \ {0}, block \in Nat, room \in Nat :
        size = BlockSize(f) /\ block = codec_blocksize(h) /\ room = Room(h)
  BY <1>2, <1>3
<1>6. size <= block /\ block * h.channels <= room
  BY <1>3, <1>4, <1>5
<1>7. h.channels = 1 \/ h.channels = 2
  BY <1>1
<1>8. size * h.channels <= room
  BY <1>6, <1>7
<1> QED BY <1>1, <1>2, <1>3, <1>4, <1>5, <1>6, <1>8 DEF f

LEMMA ChannelsWrite ==
  ASSUME NEW h \in KnownHunks, NEW k \in 1 .. Len(h.items), FrameFits(h, h.items[k]),
         NEW c \in 0 .. h.channels - 1, ~ SubframeIsBad(h.items[k], c)
  PROVE  /\ Written(h.items[k].subs[c + 1], BlockSize(h.items[k])) \in Nat
         /\ Written(h.items[k].subs[c + 1], BlockSize(h.items[k])) <= BlockSize(h.items[k])
<1>1. c + 1 \in 1 .. Len(h.items[k].subs)
  <2>1. Len(h.items[k].subs) = h.channels
    BY FramesFit, HunkFacts, Zenon
  <2>2. h.channels \in 1 .. 2
    BY HunkFacts
  <2> QED BY <2>1, <2>2
<1>2. h.items[k].subs[c + 1] \in CodedSubframes
  <2>1. h.items[k].subs \in Seq(CodedSubframes)
    BY HunkFacts, FrameFields
  <2>2. \A s \in Seq(CodedSubframes) : \A j \in 1 .. Len(s) : s[j] \in CodedSubframes
    OBVIOUS
  <2> QED BY <1>1, <2>1, <2>2, Zenon
<1>3. /\ Kind(h.items[k].subs[c + 1]) # "reserved"
      /\ ~ ResidualIsBad(h.items[k].subs[c + 1], BlockSize(h.items[k]))
  BY Zenon DEF SubframeIsBad
<1> QED BY <1>2, <1>3, FramesFit, WrittenIs

CellsOf(h) == {Junk} \cup ((1 .. Len(h.items)) \X (0 .. h.channels - 1) \X Nat)

(* A frame writes inside the room of the stream, each sample at its place.  *)
LEMMA FrameWrites ==
  ASSUME NEW h \in KnownHunks, NEW k \in 1 .. Len(h.items), FrameFits(h, h.items[k])
  PROVE  /\ \A p \in DOMAIN Samples(h.items[k], k) :
              p \in 0 .. Room(h) - 1 /\ Samples(h.items[k], k)[p] \in CellsOf(h)
         /\ \A c \in DecodedChannels(h.items[k]) :
              \A i \in 0 .. Written(h.items[k].subs[c + 1], BlockSize(h.items[k])) - 1 :
                /\ c * BlockSize(h.items[k]) + i \in DOMAIN Samples(h.items[k], k)
                /\ Samples(h.items[k], k)[c * BlockSize(h.items[k]) + i] = <<k, c, i>>
<1> DEFINE f == h.items[k]
           len(c) == Written(f.subs[c + 1], BlockSize(f))
           S == Samples(f, k)
<1>1. PICK size \in Nat \ {0} : size = BlockSize(f)
  BY FramesFit
<1>2. size * h.channels <= Room(h) /\ Room(h) \in Nat /\ h.channels \in 1 .. 2
  BY <1>1, FramesFit
<1>3. ASSUME NEW c \in DecodedChannels(f)
      PROVE  c \in 0 .. h.channels - 1 /\ c \in 0 .. 1 /\ len(c) \in Nat /\ len(c) <= size
  <2>1. c \in 0 .. h.channels - 1 /\ ~ SubframeIsBad(f, c)
    BY FramesFit DEF DecodedChannels
  <2>2. c \in 0 .. 1
    BY <1>2, <2>1
  <2> QED BY <1>1, <2>1, <2>2, ChannelsWrite
<1>4. /\ DOMAIN S = UNION {{c * size + i : i \in 0 .. len(c) - 1} : c \in DecodedChannels(f)}
      /\ \A p \in DOMAIN S : S[p] = <<k, p \div size, p % size>>
  BY <1>1, SMTT(30) DEF Samples
<1> HIDE DEF f, len, S
<1>5. ASSUME NEW c \in DecodedChannels(f), NEW i \in 0 .. len(c) - 1
      PROVE  /\ c * size + i \in DOMAIN S /\ S[c * size + i] = <<k, c, i>>
             /\ c * size + i \in 0 .. Room(h) - 1
             /\ c \in 0 .. h.channels - 1 /\ i \in Nat
  <2>1. c * size + i \in DOMAIN S
    BY <1>4
  <2>2. i \in 0 .. size - 1 /\ c \in 0 .. 1 /\ c \in 0 .. h.channels - 1
    BY <1>3
  <2>3. S[c * size + i] = <<k, c, i>>
    BY <1>4, <2>1, <2>2, PlacesAreTold
  <2>4. c * size + i \in 0 .. Room(h) - 1
    <3>1. PICK room \in Nat : room = Room(h)
      BY <1>2
    <3>2. CASE c = 0
      <4>1. size <= room
        <5>1. h.channels = 1 \/ h.channels = 2
          BY <1>2
        <5> QED BY <5>1, <1>2, <3>1
      <4>2. c * size + i = i
        BY <3>2, <2>2
      <4> QED BY <3>1, <2>2, <4>1, <4>2
    <3>3. CASE c = 1
      <4>1. h.channels = 2
        BY <3>3, <2>2, <1>2
      <4>2. size + size <= room
        BY <4>1, <1>2, <3>1
      <4>3. c * size + i = size + i
        BY <3>3, <2>2
      <4> QED BY <3>1, <2>2, <4>2, <4>3
    <3> QED BY <2>2, <3>2, <3>3
  <2>5. i \in Nat
    BY <2>2
  <2> QED BY <2>1, <2>2, <2>3, <2>4, <2>5
<1>6. ASSUME NEW p \in DOMAIN S
      PROVE  p \in 0 .. Room(h) - 1 /\ S[p] \in CellsOf(h)
  <2>a. PICK c \in DecodedChannels(f) : \E i \in 0 .. len(c) - 1 : p = c * size + i
    BY <1>4
  <2>1. PICK i \in 0 .. len(c) - 1 : p = c * size + i
    BY <2>a
  <2>2. S[p] = <<k, c, i>> /\ p \in 0 .. Room(h) - 1 /\ c \in 0 .. h.channels - 1 /\ i \in Nat
    BY <1>5, <2>1
  <2>3. <<k, c, i>> \in CellsOf(h)
    <3>1. <<k, c, i>> \in (1 .. Len(h.items)) \X (0 .. h.channels - 1) \X Nat
      BY <2>2
    <3> QED BY <3>1, Zenon DEF CellsOf
  <2> QED BY <2>2, <2>3
<1> QED BY <1>1, <1>5, <1>6 DEF f, len, S

(* What the memory is after a frame.                                        *)
LEMMA OverwrittenIs ==
  ASSUME hunk \in KnownHunks, memory \in [0 .. Room(hunk) - 1 -> CellsOf(hunk)],
         NEW k \in 1 .. Len(hunk.items), HeaderVerdict(hunk.items[k]) = "take"
  PROVE  /\ Overwritten(hunk.items[k], k) \in [0 .. Room(hunk) - 1 -> CellsOf(hunk)]
         /\ FrameVerdict(hunk.items[k], codec_blocksize(hunk), hunk.channels) = "take" =>
              /\ FrameTaken(hunk, hunk.items[k])
              /\ \A c \in 0 .. hunk.channels - 1 :
                   \A i \in 0 .. Written(hunk.items[k].subs[c + 1], BlockSize(hunk.items[k])) - 1 :
                     Overwritten(hunk.items[k], k)[c * BlockSize(hunk.items[k]) + i] = <<k, c, i>>
<1> DEFINE f == hunk.items[k]
           S == Samples(f, k)
           M == Overwritten(f, k)
           room == 0 .. Room(hunk) - 1
<1>1. CASE FrameIsRefused(f, codec_blocksize(hunk), hunk.channels)
  <2>1. M = memory
    BY <1>1 DEF Overwritten
  <2>2. FrameVerdict(f, codec_blocksize(hunk), hunk.channels) # "take"
    BY <1>1 DEF FrameVerdict
  <2> QED BY <2>1, <2>2
<1>2. CASE ~ FrameIsRefused(f, codec_blocksize(hunk), hunk.channels)
  <2>1. FrameFits(hunk, f)
    BY <1>2 DEF FrameFits
  <2>2. \A p \in DOMAIN S : p \in room /\ S[p] \in CellsOf(hunk)
    BY <2>1, FrameWrites
  <2>3. M = [p \in DOMAIN memory \cup DOMAIN S |-> IF p \in DOMAIN S THEN S[p] ELSE memory[p]]
    BY <1>2 DEF Overwritten
  <2>4. DOMAIN memory = room /\ \A p \in room : memory[p] \in CellsOf(hunk)
    OBVIOUS
  <2>5. ASSUME NEW c \in DecodedChannels(f), NEW i \in 0 .. Written(f.subs[c + 1], BlockSize(f)) - 1
        PROVE  c * BlockSize(f) + i \in DOMAIN S /\ S[c * BlockSize(f) + i] = <<k, c, i>>
    BY <2>1, FrameWrites
  <2>6. FrameVerdict(f, codec_blocksize(hunk), hunk.channels) = "take" =>
          /\ DecodedChannels(f) = 0 .. hunk.channels - 1
          /\ \A c \in 0 .. hunk.channels - 1 : ~ SubframeIsBad(f, c)
    <3>1. ChannelsOf(f) = hunk.channels
      BY <2>1, FramesFit
    <3>2. FrameVerdict(f, codec_blocksize(hunk), hunk.channels) = "take" =>
            \A c \in 0 .. ChannelsOf(f) - 1 : ~ SubframeIsBad(f, c)
      BY <1>2 DEF FrameVerdict
    <3>3. hunk.channels \in 1 .. 2
      BY <2>1, FramesFit
    <3>4. \A c \in 0 .. hunk.channels - 1 : \A d \in 0 .. c : d \in 0 .. hunk.channels - 1
      BY <3>3
    <3>5. DecodedChannels(f) = {c \in 0 .. hunk.channels - 1 : \A d \in 0 .. c : ~ SubframeIsBad(f, d)}
      BY <3>1 DEF DecodedChannels
    <3> HIDE DEF f
    <3> QED BY <3>1, <3>2, <3>4, <3>5
  <2> HIDE DEF M, S, room
  <2>7. M \in [room -> CellsOf(hunk)]
    <3>1. DOMAIN memory \cup DOMAIN S = room
      BY <2>2, <2>4
    <3> QED BY <2>2, <2>3, <2>4, <3>1
  <2>8. \A p \in DOMAIN S : M[p] = S[p]
    BY <2>3
  <2> QED BY <2>1, <2>5, <2>6, <2>7, <2>8 DEF M, S, room, FrameTaken
<1> QED BY <1>1, <1>2

-----------------------------------------------------------------------------
(* What there is of a hunk: each sample that was written or is in the small *)
(* buffer is the one of the frames that were taken, and what is left of the *)
(* frame at hand is the end of them.                                        *)
TuplesOf(h) == [0 .. h.channels - 1 -> CellsOf(h)]
PlacesOf(h) == (1 .. Len(h.items)) \X Nat

TupleIs(h, place, tuple) ==
  \A c \in 0 .. h.channels - 1 :
    place[2] < Written(h.items[place[1]].subs[c + 1], BlockSize(h.items[place[1]])) =>
      tuple[c] = <<place[1], c, place[2]>>

Gathered(h, places, done, tuples, n) ==
  done + n <= Len(places) /\ \A j \in 1 .. n : TupleIs(h, places[done + j], tuples[j])

Pending(h, places, at, left) ==
  /\ left <= Len(places)
  /\ \A j \in 1 .. left :
       places[(Len(places) - left) + j] = <<at, (BlockSize(h.items[at]) - left) + (j - 1)>>

MemoryIs(h, at, cells) ==
  \A c \in 0 .. h.channels - 1 :
    \A i \in 0 .. Written(h.items[at].subs[c + 1], BlockSize(h.items[at])) - 1 :
      cells[c * BlockSize(h.items[at]) + i] = <<at, c, i>>

LEMMA PutIs ==
  ASSUME NEW T, NEW old \in Seq(T), NEW new \in Seq(T), NEW at \in 0 .. Len(old)
  PROVE  /\ Put(old, at, new) \in Seq(T)
         /\ Len(Put(old, at, new)) = IF at + Len(new) > Len(old) THEN at + Len(new) ELSE Len(old)
         /\ \A j \in 1 .. at : Put(old, at, new)[j] = old[j]
         /\ \A j \in 1 .. Len(new) : Put(old, at, new)[at + j] = new[j]
<1>1. Len(old) \in Nat /\ Len(new) \in Nat /\ at \in Nat /\ at <= Len(old)
  OBVIOUS
<1>2. PICK n \in Nat : n = IF at + Len(new) > Len(old) THEN at + Len(new) ELSE Len(old)
  BY <1>1
<1> DEFINE put == [j \in 1 .. n |-> IF j > at /\ j <= at + Len(new) THEN new[j - at] ELSE old[j]]
<1>3. Put(old, at, new) = put
  BY <1>2 DEF Put
<1>4. ASSUME NEW j \in 1 .. n
      PROVE  (IF j > at /\ j <= at + Len(new) THEN new[j - at] ELSE old[j]) \in T
  <2>1. CASE j > at /\ j <= at + Len(new)
    <3>1. j - at \in 1 .. Len(new)
      BY <1>1, <2>1
    <3> QED BY <2>1, <3>1
  <2>2. CASE ~ (j > at /\ j <= at + Len(new))
    <3>1. j \in 1 .. Len(old)
      BY <1>1, <1>2, <2>2
    <3> QED BY <2>2, <3>1
  <2> QED BY <2>1, <2>2
<1>5. put \in [1 .. n -> T]
  BY <1>4
<1>6. \A f \in [1 .. n -> T] : f \in Seq(T) /\ Len(f) = n
  OBVIOUS
<1>7. ASSUME NEW j \in 1 .. at PROVE put[j] = old[j]
  <2>1. j \in 1 .. n /\ ~ (j > at)
    BY <1>1, <1>2
  <2> QED BY <2>1
<1>8. ASSUME NEW j \in 1 .. Len(new) PROVE put[at + j] = new[j]
  <2>1. at + j \in 1 .. n /\ at + j > at /\ at + j <= at + Len(new) /\ (at + j) - at = j
    BY <1>1, <1>2
  <2> QED BY <2>1
<1> HIDE DEF put
<1> QED BY <1>2, <1>3, <1>5, <1>6, <1>7, <1>8

(* Every place of a block in every channel is inside the room.              *)
LEMMA PlaceInside ==
  ASSUME NEW size \in Nat \ {0}, NEW channels \in 1 .. 2, NEW room \in Nat, size * channels <= room,
         NEW c \in 0 .. channels - 1, NEW i \in 0 .. size - 1
  PROVE  c * size + i \in 0 .. room - 1
<1>1. CASE c = 0
  <2>1. c * size + i = i
    BY <1>1
  <2>2. channels = 1 \/ channels = 2
    OBVIOUS
  <2>3. size <= room
    BY <2>2
  <2> QED BY <2>1, <2>3
<1>2. CASE c = 1
  <2>1. c * size + i = size + i
    BY <1>2
  <2>2. channels = 2
    BY <1>2
  <2>3. size + size <= room
    BY <2>2
  <2> QED BY <2>1, <2>3
<1>3. c = 0 \/ c = 1
  OBVIOUS
<1> QED BY <1>1, <1>2, <1>3

(* Taking samples from the frame at hand.                                   *)
LEMMA SamplesTaken ==
  ASSUME hunk \in KnownHunks, memory \in [0 .. Room(hunk) - 1 -> CellsOf(hunk)],
         item \in 1 .. Len(hunk.items), FrameTaken(hunk, FrameNow), MemoryIs(hunk, item, memory),
         remaining \in Nat, remaining <= BlockSize(FrameNow),
         NEW count \in Nat, count <= remaining
  PROVE  LET new == [i \in 1 .. count |-> [c \in 0 .. hunk.channels - 1 |-> Sample(c, i - 1)]]
         IN  /\ new \in Seq(TuplesOf(hunk)) /\ Len(new) = count
             /\ \A j \in 1 .. count :
                  TupleIs(hunk, <<item, (BlockSize(FrameNow) - remaining) + (j - 1)>>, new[j])
<1> DEFINE new == [i \in 1 .. count |-> [c \in 0 .. hunk.channels - 1 |-> Sample(c, i - 1)]]
           place(j) == (BlockSize(FrameNow) - remaining) + (j - 1)
<1>1. PICK size \in Nat \ {0} : size = BlockSize(FrameNow)
  BY FramesFit DEF FrameNow, FrameTaken
<1>2. size * hunk.channels <= Room(hunk) /\ Room(hunk) \in Nat /\ hunk.channels \in 1 .. 2
  BY <1>1, FramesFit DEF FrameNow, FrameTaken
<1>3. ASSUME NEW j \in 1 .. count, NEW c \in 0 .. hunk.channels - 1
      PROVE  /\ Sample(c, j - 1) = memory[c * size + place(j)]
             /\ place(j) \in 0 .. size - 1 /\ c * size + place(j) \in 0 .. Room(hunk) - 1
  <2>1. place(j) \in 0 .. size - 1
    BY <1>1
  <2>2. c * size + place(j) \in 0 .. Room(hunk) - 1
    BY <1>2, <2>1, PlaceInside
  <2>3. (c * size + (size - remaining)) + (j - 1) = c * size + ((size - remaining) + (j - 1))
    <3>1. c \in Nat
      BY <1>2
    <3>2. c * size \in Nat
      BY <3>1
    <3> QED BY <3>2
  <2> QED BY <1>1, <2>1, <2>2, <2>3 DEF Sample
<1>4. \A j \in 1 .. count : [c \in 0 .. hunk.channels - 1 |-> Sample(c, j - 1)] \in TuplesOf(hunk)
  <2> TAKE j \in 1 .. count
  <2>1. \A c \in 0 .. hunk.channels - 1 : Sample(c, j - 1) \in CellsOf(hunk)
    BY <1>3
  <2> QED BY <2>1 DEF TuplesOf
<1>5. new \in [1 .. count -> TuplesOf(hunk)]
  BY <1>4
<1>6. \A f \in [1 .. count -> TuplesOf(hunk)] : f \in Seq(TuplesOf(hunk)) /\ Len(f) = count
  OBVIOUS
<1>7. ASSUME NEW j \in 1 .. count PROVE TupleIs(hunk, <<item, place(j)>>, new[j])
  <2>1. new[j] = [c \in 0 .. hunk.channels - 1 |-> Sample(c, j - 1)]
    OBVIOUS
  <2>2. ASSUME NEW c \in 0 .. hunk.channels - 1,
               place(j) < Written(hunk.items[item].subs[c + 1], size)
        PROVE  memory[c * size + place(j)] = <<item, c, place(j)>>
    <3>1. Written(hunk.items[item].subs[c + 1], size) \in Nat
      BY <1>1, ChannelsWrite DEF FrameNow, FrameTaken
    <3>2. place(j) \in 0 .. Written(hunk.items[item].subs[c + 1], size) - 1
      BY <1>3, <2>2, <3>1
    <3> QED BY <1>1, <3>2 DEF MemoryIs, FrameNow
  <2>3. ASSUME NEW c \in 0 .. hunk.channels - 1,
               place(j) < Written(hunk.items[item].subs[c + 1], size)
        PROVE  new[j][c] = <<item, c, place(j)>>
    BY <1>3, <2>1, <2>2, <2>3
  <2> HIDE DEF new, place
  <2> QED BY <1>1, <2>3 DEF TupleIs, FrameNow
<1> HIDE DEF new
<1> QED BY <1>5, <1>6, <1>7 DEF new

-----------------------------------------------------------------------------
DataTypes ==
  /\ item \in 0 .. Len(hunk.items) /\ wanted \in 0 .. hunk.frames
  /\ asked \in 0 .. BufferFrames /\ filled \in 0 .. BufferFrames - asked
  /\ remaining \in 0 .. codec_blocksize(hunk)
  /\ buffer \in Seq(TuplesOf(hunk)) /\ Len(buffer) <= BufferFrames /\ filled <= Len(buffer)
  /\ hunkout \in Seq(TuplesOf(hunk)) /\ Len(hunkout) + wanted = hunk.frames
  /\ memory \in [0 .. Room(hunk) - 1 -> CellsOf(hunk)]
  /\ served \in Seq(PlacesOf(hunk)) /\ short \in BOOLEAN

FrameStands ==
  remaining > 0 =>
    /\ item >= 1 /\ FrameTaken(hunk, FrameNow) /\ remaining <= BlockSize(FrameNow)
    /\ MemoryIs(hunk, item, memory)

(* As long as no read ended early nothing was lost or repeated between the  *)
(* frames and the hunk.                                                     *)
OnTrack ==
  ~ short =>
    /\ Gathered(hunk, served, 0, hunkout, Len(hunkout))
    /\ phase \in {"read", "frames"} => Pending(hunk, served, item, remaining)
    /\ phase = "read" => Len(hunkout) + remaining = Len(served)
    /\ phase = "frames" =>
         /\ Len(hunkout) + filled + remaining = Len(served)
         /\ filled + asked = Lower(wanted, BufferFrames)
         /\ Gathered(hunk, served, Len(hunkout), buffer, filled)

StreamIInv == KeptTypes /\ DataTypes /\ FrameStands /\ OnTrack

LEMMA BufferHolds ==
  ASSUME hunk \in KnownHunks
  PROVE  BufferFrames \in Nat /\ hunk.frames \in Nat /\ codec_blocksize(hunk) \in Nat
           /\ Len(hunk.items) \in Nat
<1>1. BufferSamples \in Nat /\ hunk.channels \in Nat \ {0}
  BY HunkFacts, FlacStreamAssumption
<1>2. BufferFrames \in Nat
  BY <1>1 DEF BufferFrames
<1>3. codec_blocksize(hunk) \in Nat
  BY BlockSizeIs
<1> QED BY <1>2, <1>3, HunkFacts

(* The invariant says what the property says.                               *)
LEMMA OnTrackIsRight == StreamIInv => FramesAreDecoded
<1> SUFFICES ASSUME StreamIInv PROVE FramesAreDecoded
  OBVIOUS
<1>1. CellsOf(hunk) = Cells /\ TuplesOf(hunk) = Tuples
  BY DEF CellsOf, Cells, TuplesOf, Tuples
<1>2. FlacStreamTypeOK
  <2>1. KeptTypes /\ DataTypes
    BY DEF StreamIInv
  <2> QED BY <1>1, <2>1, Zenon DEF FlacStreamTypeOK, KeptTypes, DataTypes
<1>3. FrameStaysInside
  BY DEF FrameStaysInside, StreamIInv, DataTypes
<1>4. SamplesAreTheFrames
  <2> SUFFICES ASSUME ~ short
               PROVE  /\ Len(hunkout) <= Len(served)
                      /\ \A t \in 1 .. Len(hunkout), c \in 0 .. hunk.channels - 1 :
                           served[t][2] < Written(hunk.items[served[t][1]].subs[c + 1],
                                                  BlockSize(hunk.items[served[t][1]])) =>
                             hunkout[t][c] = <<served[t][1], c, served[t][2]>>
    BY DEF SamplesAreTheFrames
  <2>1. Gathered(hunk, served, 0, hunkout, Len(hunkout))
    BY DEF StreamIInv, OnTrack
  <2>2. Len(hunkout) \in Nat /\ Len(served) \in Nat
    BY DEF StreamIInv, DataTypes
  <2>3. Len(hunkout) <= Len(served) /\ \A t \in 1 .. Len(hunkout) : TupleIs(hunk, served[t], hunkout[t])
    BY <2>1, <2>2 DEF Gathered
  <2> QED BY <2>3 DEF TupleIs
<1> QED BY <1>2, <1>3, <1>4 DEF FramesAreDecoded

(* A stream that was just opened.                                           *)
LEMMA JustOpened ==
  ASSUME NEW h \in KnownHunks, Opened(h), KeptTypes', phase' # "frames"
  PROVE  StreamIInv'
<1>1. hunk' = h /\ item' = 0 /\ remaining' = 0 /\ wanted' = h.frames /\ asked' = 0
        /\ memory' = [i \in 0 .. Room(h) - 1 |-> Junk]
        /\ buffer' = <<>> /\ filled' = 0 /\ hunkout' = <<>> /\ served' = <<>> /\ short' = FALSE
  BY DEF Opened
<1>2. /\ Len(<<>>) = 0 /\ <<>> \in Seq(TuplesOf(h)) /\ <<>> \in Seq(PlacesOf(h))
  OBVIOUS
<1>3. h.frames \in Nat /\ Len(h.items) \in Nat /\ codec_blocksize(h) \in Nat
        /\ BufferSamples \div h.channels \in Nat
  <2>1. BufferSamples \in Nat /\ h.channels \in Nat \ {0}
    BY HunkFacts, FlacStreamAssumption
  <2>2. BufferSamples \div h.channels \in Nat
    BY <2>1
  <2> QED BY <2>2, HunkFacts, BlockSizeIs
<1>4. [i \in 0 .. Room(h) - 1 |-> Junk] \in [0 .. Room(h) - 1 -> CellsOf(h)]
  BY DEF CellsOf
<1>5. DataTypes'
  <2>1. 0 \in 0 .. Len(h.items) /\ h.frames \in 0 .. h.frames
          /\ 0 \in 0 .. codec_blocksize(h) /\ 0 + h.frames = h.frames
    BY <1>3
  <2>2. BufferFrames' = BufferSamples \div h.channels
    BY <1>1 DEF BufferFrames
  <2>3. asked' \in 0 .. BufferFrames' /\ filled' \in 0 .. BufferFrames' - asked'
          /\ Len(buffer') <= BufferFrames' /\ filled' <= Len(buffer')
    BY <1>1, <1>2, <1>3, <2>2
  <2>4. short' \in BOOLEAN
    BY <1>1
  <2>5. memory' \in [0 .. Room(hunk') - 1 -> CellsOf(hunk')]
    BY <1>1, <1>4
  <2>6. /\ item' \in 0 .. Len(hunk'.items) /\ wanted' \in 0 .. hunk'.frames
        /\ remaining' \in 0 .. codec_blocksize(hunk')
        /\ Len(hunkout') + wanted' = hunk'.frames
    BY <1>1, <1>2, <2>1
  <2>7. /\ buffer' \in Seq(TuplesOf(hunk')) /\ hunkout' \in Seq(TuplesOf(hunk'))
        /\ served' \in Seq(PlacesOf(hunk'))
    BY <1>1, <1>2, Zenon
  <2> QED BY <2>3, <2>4, <2>5, <2>6, <2>7 DEF DataTypes
<1>6. FrameStands'
  BY <1>1 DEF FrameStands
<1>7. OnTrack'
  <2>1. \A j \in 1 .. 0 : FALSE
    OBVIOUS
  <2>2. \A at : Gathered(h, <<>>, 0, <<>>, 0) /\ Pending(h, <<>>, at, 0)
    BY <1>2, <2>1 DEF Gathered, Pending
  <2> QED
    <3>1. Gathered(hunk', served', 0, hunkout', Len(hunkout')) /\ Pending(hunk', served', item', remaining')
      BY <1>1, <1>2, <2>2
    <3>2. Len(hunkout') + remaining' = Len(served')
      BY <1>1, <1>2
    <3> QED BY <3>1, <3>2 DEF OnTrack
<1> QED BY <1>5, <1>6, <1>7 DEF StreamIInv

(* Steps that leave the data alone.                                         *)
LEMMA DataRests ==
  ASSUME StreamIInv, KeptTypes', UNCHANGED flacstream,
         \/ phase' = phase
         \/ phase' \in {"idle", "freed"}
         \/ phase \in {"idle", "freed"} /\ phase' \notin {"read", "frames"}
  PROVE  StreamIInv'
<1> USE DEF flacstream
<1>1. DataTypes'
  BY DEF StreamIInv, DataTypes, BufferFrames
<1>2. FrameStands'
  BY DEF StreamIInv, FrameStands, FrameNow
<1>3. OnTrack'
  BY DEF StreamIInv, OnTrack, BufferFrames
<1> QED BY <1>1, <1>2, <1>3 DEF StreamIInv

LEMMA LowerIs ==
  ASSUME NEW a \in Nat, NEW b \in Nat
  PROVE  Lower(a, b) \in Nat /\ Lower(a, b) <= a /\ Lower(a, b) <= b
BY DEF Lower

LEMMA ReadStarts ==
  ASSUME StreamIInv, KeptTypes', StartRead
  PROVE  StreamIInv'
<1>1. /\ phase = "read" /\ phase' = "frames" /\ asked' = Lower(wanted, BufferFrames) /\ filled' = 0
      /\ UNCHANGED <<hunk, item, memory, remaining, wanted, buffer, hunkout, served, short>>
  BY DEF StartRead
<1>2. /\ hunk \in KnownHunks /\ BufferFrames \in Nat /\ wanted \in Nat /\ BufferFrames' = BufferFrames
      /\ Len(buffer) \in Nat
  BY <1>1, BufferHolds DEF StreamIInv, KeptTypes, DataTypes, BufferFrames
<1>3. Lower(wanted, BufferFrames) \in 0 .. BufferFrames
  <2>1. Lower(wanted, BufferFrames) \in Nat /\ Lower(wanted, BufferFrames) <= BufferFrames
    BY <1>2, LowerIs, Zenon
  <2> QED BY <1>2, <2>1
<1>4. DataTypes'
  <2>1. 0 \in 0 .. BufferFrames - Lower(wanted, BufferFrames) /\ 0 <= Len(buffer)
    BY <1>2, <1>3
  <2> QED BY <1>1, <1>2, <1>3, <2>1 DEF StreamIInv, DataTypes
<1>5. FrameStands'
  BY <1>1 DEF StreamIInv, FrameStands, FrameNow
<1>6. OnTrack'
  <2> SUFFICES ASSUME ~ short PROVE OnTrack'
    BY <1>1 DEF OnTrack
  <2>1. /\ Gathered(hunk, served, 0, hunkout, Len(hunkout))
        /\ Pending(hunk, served, item, remaining)
        /\ Len(hunkout) + remaining = Len(served)
    BY <1>1 DEF StreamIInv, OnTrack
  <2>2. Len(hunkout) \in Nat /\ remaining \in Nat /\ Len(served) \in Nat
    BY <1>2, BufferHolds DEF StreamIInv, DataTypes
  <2>3. Gathered(hunk, served, Len(hunkout), buffer, 0)
    BY <2>1, <2>2 DEF Gathered
  <2>4. Len(hunkout) + 0 + remaining = Len(served)
          /\ 0 + Lower(wanted, BufferFrames) = Lower(wanted, BufferFrames)
    BY <1>2, <1>3, <2>1, <2>2
  <2> QED BY <1>1, <1>2, <2>1, <2>3, <2>4 DEF OnTrack
<1> QED BY <1>4, <1>5, <1>6 DEF StreamIInv

(* A read that ends early says so.                                          *)
LEMMA ReadEndsShort ==
  ASSUME StreamIInv, KeptTypes', phase' = phase, asked' = 0, short' = TRUE,
         UNCHANGED <<hunk, wanted, buffer, filled, hunkout, served, remaining>>, remaining = 0,
         item' \in 0 .. Len(hunk.items), memory' \in [0 .. Room(hunk) - 1 -> CellsOf(hunk)]
  PROVE  StreamIInv'
<1>1. BufferFrames \in Nat /\ BufferFrames' = BufferFrames
  BY BufferHolds DEF StreamIInv, KeptTypes, BufferFrames
<1>2. DataTypes'
  <2>1. asked' \in 0 .. BufferFrames /\ filled \in 0 .. BufferFrames - 0
    BY <1>1 DEF StreamIInv, DataTypes
  <2>2. short' \in BOOLEAN
    OBVIOUS
  <2> QED BY <1>1, <2>1, <2>2 DEF StreamIInv, DataTypes
<1>3. FrameStands' /\ OnTrack'
  BY DEF FrameStands, OnTrack
<1> QED BY <1>2, <1>3 DEF StreamIInv

(* What was gathered stays so when more frames are taken.                   *)
LEMMA GatheredStays ==
  ASSUME NEW h, NEW T, NEW places \in Seq(T), NEW more \in Seq(T), NEW done \in Nat, NEW tuples, NEW n \in Nat,
         Gathered(h, places, done, tuples, n)
  PROVE  Gathered(h, places \o more, done, tuples, n)
<1>1. /\ Len(places \o more) = Len(places) + Len(more) /\ Len(places) \in Nat /\ Len(more) \in Nat
      /\ \A j \in 1 .. Len(places) : (places \o more)[j] = places[j]
  OBVIOUS
<1>2. done + n <= Len(places) /\ \A j \in 1 .. n : done + j \in 1 .. Len(places)
  BY <1>1 DEF Gathered
<1>3. PICK all : all = places \o more
  OBVIOUS
<1>4. done + n <= Len(all) /\ \A j \in 1 .. n : all[done + j] = places[done + j]
  BY <1>1, <1>2, <1>3
<1> QED BY <1>3, <1>4 DEF Gathered

LEMMA ItemsAreRead ==
  ASSUME StreamIInv, KeptTypes', ReadItem
  PROVE  StreamIInv'
<1> DEFINE f == hunk.items[item + 1]
<1>1. /\ phase = "frames" /\ asked > 0 /\ remaining = 0 /\ item < Len(hunk.items) /\ item' = item + 1
      /\ UNCHANGED <<phase, hunk, wanted, buffer, filled, hunkout>>
      /\ ReadFrame(f) \/ PassOver(f) \/ GiveUp(f)
  BY DEF ReadItem, NeedsFrame
<1>2. /\ hunk \in KnownHunks /\ memory \in [0 .. Room(hunk) - 1 -> CellsOf(hunk)]
      /\ item + 1 \in 1 .. Len(hunk.items) /\ BufferFrames' = BufferFrames
  <2>1. item \in 0 .. Len(hunk.items) /\ Len(hunk.items) \in Nat
    BY HunkFacts DEF StreamIInv, KeptTypes, DataTypes
  <2> QED BY <1>1, <2>1 DEF StreamIInv, KeptTypes, DataTypes, BufferFrames
<1>3. HeaderVerdict(f) = "take" =>
        Overwritten(f, item + 1) \in [0 .. Room(hunk) - 1 -> CellsOf(hunk)]
  BY <1>2, OverwrittenIs
<1>4. CASE GiveUp(f)
  <2>1. /\ memory' \in [0 .. Room(hunk) - 1 -> CellsOf(hunk)]
        /\ asked' = 0 /\ short' = TRUE /\ UNCHANGED <<remaining, served>>
    BY <1>2, <1>3, <1>4 DEF GiveUp
  <2>2. item' \in 0 .. Len(hunk.items)
    BY <1>1, <1>2
  <2> HIDE DEF f
  <2> QED BY <1>1, <2>1, <2>2, ReadEndsShort
<1>5. CASE PassOver(f)
  <2>1. /\ memory' \in [0 .. Room(hunk) - 1 -> CellsOf(hunk)]
        /\ UNCHANGED <<asked, remaining, served, short>>
    BY <1>2, <1>3, <1>5 DEF PassOver
  <2>2. item' \in 0 .. Len(hunk.items)
    BY <1>1, <1>2
  <2> HIDE DEF f
  <2>3. DataTypes'
    BY <1>1, <1>2, <2>1, <2>2 DEF StreamIInv, DataTypes
  <2>4. FrameStands'
    BY <1>1, <2>1 DEF FrameStands
  <2>5. OnTrack'
    <3> SUFFICES ASSUME ~ short PROVE OnTrack'
      BY <2>1 DEF OnTrack
    <3>1. Pending(hunk, served, item', 0)
      <4>1. Len(served) \in Nat
        BY DEF StreamIInv, DataTypes
      <4> QED BY <4>1 DEF Pending
    <3> QED BY <1>1, <1>2, <2>1, <3>1 DEF StreamIInv, OnTrack
  <2> QED BY <2>3, <2>4, <2>5 DEF StreamIInv
<1>6. CASE ReadFrame(f)
  <2> DEFINE size == BlockSize(f)
             more == [i \in 1 .. size |-> <<item + 1, i - 1>>]
  <2>1. /\ memory' = Overwritten(f, item + 1) /\ remaining' = size
        /\ HeaderVerdict(f) = "take"
        /\ FrameVerdict(f, codec_blocksize(hunk), hunk.channels) = "take"
        /\ served' = served \o more /\ UNCHANGED <<asked, short>>
    BY <1>6 DEF ReadFrame
  <2>2. /\ memory' \in [0 .. Room(hunk) - 1 -> CellsOf(hunk)] /\ FrameTaken(hunk, f)
        /\ MemoryIs(hunk, item + 1, memory')
    BY <1>2, <2>1, OverwrittenIs DEF MemoryIs
  <2>3. size \in Nat \ {0} /\ size <= codec_blocksize(hunk) /\ codec_blocksize(hunk) \in Nat
    BY <1>2, <2>2, FramesFit, BufferHolds DEF FrameTaken
  <2>4. more \in Seq(PlacesOf(hunk)) /\ Len(more) = size /\ \A i \in 1 .. size : more[i] = <<item + 1, i - 1>>
    <3>1. \A i \in 1 .. size : <<item + 1, i - 1>> \in PlacesOf(hunk)
      BY <1>2, <2>3 DEF PlacesOf
    <3>2. more \in [1 .. size -> PlacesOf(hunk)]
      BY <3>1
    <3>3. \A g \in [1 .. size -> PlacesOf(hunk)] : g \in Seq(PlacesOf(hunk)) /\ Len(g) = size
      BY <2>3
    <3>4. \A i \in 1 .. size : more[i] = <<item + 1, i - 1>>
      OBVIOUS
    <3> HIDE DEF more, size
    <3> QED BY <3>2, <3>3, <3>4
  <2> HIDE DEF more, size, f
  <2>5. served \in Seq(PlacesOf(hunk)) /\ Len(served) \in Nat /\ item' \in 0 .. Len(hunk.items)
    BY <1>1, <1>2 DEF StreamIInv, DataTypes
  <2>6. /\ served' \in Seq(PlacesOf(hunk)) /\ Len(served') = Len(served) + size
        /\ \A i \in 1 .. size : served'[Len(served) + i] = more[i]
    <3>1. \A s, t \in Seq(PlacesOf(hunk)) :
            /\ s \o t \in Seq(PlacesOf(hunk)) /\ Len(s \o t) = Len(s) + Len(t)
            /\ \A i \in 1 .. Len(t) : (s \o t)[Len(s) + i] = t[i]
      OBVIOUS
    <3>2. served \o more \in Seq(PlacesOf(hunk)) /\ Len(served \o more) = Len(served) + Len(more)
            /\ \A i \in 1 .. Len(more) : (served \o more)[Len(served) + i] = more[i]
      BY <2>4, <2>5, <3>1
    <3> QED BY <2>1, <2>4, <3>2
  <2>7. remaining' \in 0 .. codec_blocksize(hunk)
    BY <2>1, <2>3
  <2>8. DataTypes'
    BY <1>1, <1>2, <2>1, <2>2, <2>5, <2>6, <2>7 DEF StreamIInv, DataTypes
  <2>9. FrameStands'
    <3>1. FrameNow' = f /\ item' >= 1 /\ remaining' <= BlockSize(FrameNow')
      BY <1>1, <1>2, <2>1, <2>3 DEF FrameNow, f, size
    <3> QED BY <1>1, <2>2, <3>1 DEF FrameStands
  <2>10. OnTrack'
    <3> SUFFICES ASSUME ~ short PROVE OnTrack'
      BY <2>1 DEF OnTrack
    <3>1. /\ Gathered(hunk, served, 0, hunkout, Len(hunkout))
          /\ Gathered(hunk, served, Len(hunkout), buffer, filled)
          /\ Len(hunkout) + filled + remaining = Len(served)
          /\ filled + asked = Lower(wanted, BufferFrames)
      BY <1>1 DEF StreamIInv, OnTrack
    <3>2. Len(hunkout) \in Nat /\ filled \in Nat
      BY <1>2, BufferHolds DEF StreamIInv, DataTypes
    <3>3. /\ Gathered(hunk, served', 0, hunkout, Len(hunkout))
          /\ Gathered(hunk, served', Len(hunkout), buffer, filled)
      BY <2>1, <2>4, <2>5, <3>1, <3>2, GatheredStays
    <3>4. Len(hunkout) + filled + size = Len(served')
      BY <1>1, <2>3, <2>5, <2>6, <3>1, <3>2, SMTT(30)
    <3>5. Pending(hunk, served', item + 1, size)
      <4>1. size <= Len(served') /\ Len(served') - size = Len(served)
        BY <2>3, <2>5, <2>6
      <4>2. ASSUME NEW j \in 1 .. size
            PROVE  served'[(Len(served') - size) + j] = <<item + 1, (size - size) + (j - 1)>>
        <5>1. (size - size) + (j - 1) = j - 1
          BY <2>3
        <5> QED BY <2>4, <2>6, <4>1, <5>1
      <4> QED BY <4>1, <4>2 DEF Pending, size, f
    <3> QED BY <1>1, <1>2, <2>1, <3>1, <3>3, <3>4, <3>5 DEF OnTrack
  <2> QED BY <2>8, <2>9, <2>10 DEF StreamIInv
<1> HIDE DEF f
<1> QED BY <1>1, <1>4, <1>5, <1>6

LEMMA StreamRunsOut ==
  ASSUME StreamIInv, KeptTypes', StreamEnds
  PROVE  StreamIInv'
<1>1. /\ phase' = phase /\ asked' = 0 /\ short' = TRUE /\ remaining = 0
      /\ UNCHANGED <<hunk, item, memory, wanted, buffer, filled, hunkout, served, remaining>>
  BY DEF StreamEnds, NeedsFrame
<1>2. item' \in 0 .. Len(hunk.items) /\ memory' \in [0 .. Room(hunk) - 1 -> CellsOf(hunk)]
  BY <1>1 DEF StreamIInv, DataTypes
<1> QED BY <1>1, <1>2, ReadEndsShort

LEMMA SamplesAreTaken ==
  ASSUME StreamIInv, KeptTypes', TakeSamples
  PROVE  StreamIInv'
<1>1. PICK count : count = Lower(asked, remaining)
  OBVIOUS
<1> DEFINE new == [i \in 1 .. count |-> [c \in 0 .. hunk.channels - 1 |-> Sample(c, i - 1)]]
<1>2. /\ phase = "frames" /\ asked > 0 /\ remaining > 0
      /\ buffer' = Put(buffer, filled, new) /\ filled' = filled + count
      /\ asked' = asked - count /\ remaining' = remaining - count
      /\ UNCHANGED <<phase, hunk, item, memory, wanted, hunkout, served, short>>
  BY <1>1 DEF TakeSamples
<1>3. /\ hunk \in KnownHunks /\ BufferFrames \in Nat /\ BufferFrames' = BufferFrames
      /\ codec_blocksize(hunk) \in Nat
  BY <1>2, BufferHolds DEF StreamIInv, KeptTypes, BufferFrames
<1>4. /\ asked \in Nat /\ filled \in Nat /\ filled <= BufferFrames - asked /\ asked <= BufferFrames
      /\ remaining \in Nat /\ remaining <= codec_blocksize(hunk)
      /\ Len(buffer) \in Nat /\ filled <= Len(buffer) /\ Len(buffer) <= BufferFrames
      /\ Len(hunkout) \in Nat /\ Len(served) \in Nat
  BY <1>3 DEF StreamIInv, DataTypes
<1>5. count \in Nat /\ count <= asked /\ count <= remaining
  BY <1>1, <1>4, LowerIs, Zenon
<1>6. /\ item \in 1 .. Len(hunk.items) /\ FrameTaken(hunk, FrameNow) /\ remaining <= BlockSize(FrameNow)
      /\ MemoryIs(hunk, item, memory) /\ memory \in [0 .. Room(hunk) - 1 -> CellsOf(hunk)]
  BY <1>2, <1>3, HunkFacts DEF StreamIInv, DataTypes, FrameStands
<1>7. PICK size \in Nat : size = BlockSize(FrameNow)
  BY <1>3, <1>6, FramesFit DEF FrameTaken, FrameNow
<1>8. /\ new \in Seq(TuplesOf(hunk)) /\ Len(new) = count
      /\ \A j \in 1 .. count : TupleIs(hunk, <<item, (size - remaining) + (j - 1)>>, new[j])
  BY <1>3, <1>4, <1>5, <1>6, <1>7, SamplesTaken
<1> HIDE DEF new
<1>9. /\ buffer \in Seq(TuplesOf(hunk)) /\ filled \in 0 .. Len(buffer)
  BY <1>4 DEF StreamIInv, DataTypes
<1>10. /\ buffer' \in Seq(TuplesOf(hunk))
       /\ Len(buffer') = IF filled + count > Len(buffer) THEN filled + count ELSE Len(buffer)
       /\ \A j \in 1 .. filled : buffer'[j] = buffer[j]
       /\ \A j \in 1 .. count : buffer'[filled + j] = new[j]
  <2>1. PICK p : p = Put(buffer, filled, new)
    OBVIOUS
  <2>2. /\ p \in Seq(TuplesOf(hunk))
        /\ Len(p) = IF filled + Len(new) > Len(buffer) THEN filled + Len(new) ELSE Len(buffer)
        /\ \A j \in 1 .. filled : p[j] = buffer[j]
        /\ \A j \in 1 .. Len(new) : p[filled + j] = new[j]
    <3>1. PICK T : T = TuplesOf(hunk)
      OBVIOUS
    <3>2. PICK old \in Seq(T), w \in Seq(T) : old = buffer /\ w = new
      BY <1>8, <1>9, <3>1, Zenon
    <3>3. PICK at \in 0 .. Len(old) : at = filled
      BY <1>9, <3>2, Zenon
    <3>4. /\ Put(old, at, w) \in Seq(T)
          /\ Len(Put(old, at, w)) = IF at + Len(w) > Len(old) THEN at + Len(w) ELSE Len(old)
          /\ \A j \in 1 .. at : Put(old, at, w)[j] = old[j]
          /\ \A j \in 1 .. Len(w) : Put(old, at, w)[at + j] = w[j]
      BY PutIs
    <3>5. p = Put(old, at, w)
      BY <2>1, <3>2, <3>3, Zenon
    <3> QED BY <3>1, <3>2, <3>3, <3>4, <3>5, Zenon
  <2> QED BY <1>2, <1>8, <2>1, <2>2, Zenon
<1>11. DataTypes'
  <2>1. /\ asked' \in 0 .. BufferFrames /\ filled' \in 0 .. BufferFrames - asked'
        /\ remaining' \in 0 .. codec_blocksize(hunk)
        /\ Len(buffer') <= BufferFrames /\ filled' <= Len(buffer')
    <3>1. PICK a \in Nat, f \in Nat, r \in Nat, l \in Nat, most \in Nat, block \in Nat :
            /\ a = asked /\ f = filled /\ r = remaining /\ l = Len(buffer)
            /\ most = BufferFrames /\ block = codec_blocksize(hunk)
      BY <1>3, <1>4, Zenon
    <3>2. /\ f <= most - a /\ a <= most /\ r <= block /\ f <= l /\ l <= most
          /\ count \in Nat /\ count <= a /\ count <= r
      BY <1>4, <1>5, <3>1, Zenon
    <3>3. /\ a - count \in 0 .. most /\ f + count \in 0 .. most - (a - count)
          /\ r - count \in 0 .. block
          /\ f + count > l => f + count <= most
          /\ ~ (f + count > l) => f + count <= l
          /\ f + count <= f + count
      BY <3>2
    <3>4. /\ asked' = a - count /\ filled' = f + count /\ remaining' = r - count
          /\ BufferFrames' = most
          /\ Len(buffer') = IF f + count > l THEN f + count ELSE l
      BY <1>2, <1>3, <1>10, <3>1, Zenon
    <3>5. Len(buffer') <= most /\ f + count <= Len(buffer')
      BY <3>2, <3>3, <3>4
    <3> QED BY <3>1, <3>3, <3>4, <3>5, Zenon
  <2> QED BY <1>2, <1>3, <1>10, <2>1 DEF StreamIInv, DataTypes
<1>12. FrameStands'
  <2>1. remaining' <= size
    BY <1>2, <1>4, <1>5, <1>6, <1>7
  <2> QED BY <1>2, <1>6, <1>7, <2>1 DEF FrameStands, FrameNow
<1>13. OnTrack'
  <2> SUFFICES ASSUME ~ short PROVE OnTrack'
    BY <1>2 DEF OnTrack
  <2>1. /\ Gathered(hunk, served, 0, hunkout, Len(hunkout))
        /\ Gathered(hunk, served, Len(hunkout), buffer, filled)
        /\ Pending(hunk, served, item, remaining)
        /\ Len(hunkout) + filled + remaining = Len(served)
        /\ filled + asked = Lower(wanted, BufferFrames)
    BY <1>2 DEF StreamIInv, OnTrack
  <2>2. Len(hunkout) + filled' + remaining' = Len(served) /\ filled' + asked' = Lower(wanted, BufferFrames)
    BY <1>2, <1>4, <1>5, <2>1
  <2>3. \A j \in 1 .. remaining : served[(Len(served) - remaining) + j] = <<item, (size - remaining) + (j - 1)>>
    BY <1>7, <2>1 DEF Pending, FrameNow
  <2>4. Gathered(hunk, served, Len(hunkout), buffer', filled')
    <3>1. ASSUME NEW j \in 1 .. filled' PROVE TupleIs(hunk, served[Len(hunkout) + j], buffer'[j])
      <4>1. CASE j <= filled
        <5>1. j \in 1 .. filled
          BY <1>2, <1>4, <1>5, <4>1
        <5> QED BY <1>10, <2>1, <5>1 DEF Gathered
      <4>2. CASE j > filled
        <5>1. PICK i \in 1 .. count : j = filled + i
          <6>1. j - filled \in 1 .. count /\ j = filled + (j - filled)
            BY <1>2, <1>4, <1>5, <4>2
          <6> QED BY <6>1
        <5>2. i \in 1 .. remaining /\ Len(hunkout) + j = (Len(served) - remaining) + i
          BY <1>4, <1>5, <2>1, <5>1
        <5>3. served[Len(hunkout) + j] = <<item, (size - remaining) + (i - 1)>>
          BY <2>3, <5>2
        <5>4. buffer'[j] = new[i]
          BY <1>10, <5>1
        <5> QED BY <1>8, <5>3, <5>4
      <4> QED BY <1>2, <1>4, <1>5, <4>1, <4>2
    <3>2. Len(hunkout) + filled' <= Len(served)
      BY <1>2, <1>4, <1>5, <2>1
    <3> QED BY <3>1, <3>2 DEF Gathered
  <2>5. Pending(hunk, served, item, remaining')
    <3>1. ASSUME NEW j \in 1 .. remaining'
          PROVE  served[(Len(served) - remaining') + j] = <<item, (size - remaining') + (j - 1)>>
      <4>1. count + j \in 1 .. remaining
        BY <1>2, <1>4, <1>5
      <4>2. /\ (Len(served) - remaining') + j = (Len(served) - remaining) + (count + j)
            /\ (size - remaining') + (j - 1) = (size - remaining) + ((count + j) - 1)
        BY <1>2, <1>4, <1>5
      <4> QED BY <2>3, <4>1, <4>2
    <3>2. remaining' <= Len(served)
      BY <1>2, <1>4, <1>5, <2>1
    <3> QED BY <1>7, <3>1, <3>2 DEF Pending, FrameNow
  <2> QED BY <1>2, <1>3, <2>1, <2>2, <2>4, <2>5 DEF OnTrack
<1> QED BY <1>11, <1>12, <1>13 DEF StreamIInv

LEMMA SamplesAreWritten ==
  ASSUME StreamIInv, KeptTypes', WriteSamples
  PROVE  StreamIInv'
<1>1. PICK count : count = Lower(wanted, BufferFrames)
  OBVIOUS
<1> DEFINE out(i) == IF i <= Len(buffer) THEN buffer[i] ELSE [c \in 0 .. hunk.channels - 1 |-> Junk]
           new == [i \in 1 .. count |-> out(i)]
<1>2. /\ phase = "frames" /\ phase' = "read" /\ asked = 0
      /\ hunkout' = hunkout \o new /\ wanted' = wanted - count
      /\ UNCHANGED <<hunk, item, memory, remaining, asked, buffer, filled, served, short>>
  BY <1>1 DEF WriteSamples
<1>3. /\ hunk \in KnownHunks /\ BufferFrames \in Nat /\ BufferFrames' = BufferFrames
      /\ codec_blocksize(hunk) \in Nat /\ hunk.frames \in Nat
  BY <1>2, BufferHolds DEF StreamIInv, KeptTypes, BufferFrames
<1>4. /\ wanted \in Nat /\ wanted <= hunk.frames /\ filled \in Nat /\ remaining \in Nat
      /\ Len(buffer) \in Nat /\ filled <= Len(buffer)
      /\ Len(hunkout) \in Nat /\ Len(served) \in Nat /\ Len(hunkout) + wanted = hunk.frames
      /\ buffer \in Seq(TuplesOf(hunk)) /\ hunkout \in Seq(TuplesOf(hunk))
  BY <1>3 DEF StreamIInv, DataTypes
<1>5. count \in Nat /\ count <= wanted
  BY <1>1, <1>3, <1>4, LowerIs, Zenon
<1>6. new \in Seq(TuplesOf(hunk)) /\ Len(new) = count /\ \A i \in 1 .. count : new[i] = out(i)
  <2>1. ASSUME NEW i \in 1 .. count PROVE out(i) \in TuplesOf(hunk)
    <3>1. CASE i <= Len(buffer)
      BY <1>4, <3>1
    <3>2. CASE ~ (i <= Len(buffer))
      <4>1. [c \in 0 .. hunk.channels - 1 |-> Junk] \in TuplesOf(hunk)
        BY DEF TuplesOf, CellsOf
      <4> QED BY <3>2, <4>1
    <3> QED BY <3>1, <3>2
  <2> HIDE DEF out
  <2>2. new \in [1 .. count -> TuplesOf(hunk)]
    BY <2>1
  <2>3. \A g \in [1 .. count -> TuplesOf(hunk)] : g \in Seq(TuplesOf(hunk)) /\ Len(g) = count
    BY <1>5
  <2>4. \A i \in 1 .. count : new[i] = out(i)
    OBVIOUS
  <2> HIDE DEF new
  <2> QED BY <2>2, <2>3, <2>4
<1> HIDE DEF new
<1>7. /\ hunkout' \in Seq(TuplesOf(hunk)) /\ Len(hunkout') = Len(hunkout) + count
      /\ \A t \in 1 .. Len(hunkout) : hunkout'[t] = hunkout[t]
      /\ \A i \in 1 .. count : hunkout'[Len(hunkout) + i] = new[i]
  <2>1. \A s, t \in Seq(TuplesOf(hunk)) :
          /\ s \o t \in Seq(TuplesOf(hunk)) /\ Len(s \o t) = Len(s) + Len(t)
          /\ \A i \in 1 .. Len(s) : (s \o t)[i] = s[i]
          /\ \A i \in 1 .. Len(t) : (s \o t)[Len(s) + i] = t[i]
    OBVIOUS
  <2>2. /\ hunkout \o new \in Seq(TuplesOf(hunk)) /\ Len(hunkout \o new) = Len(hunkout) + Len(new)
        /\ \A i \in 1 .. Len(hunkout) : (hunkout \o new)[i] = hunkout[i]
        /\ \A i \in 1 .. Len(new) : (hunkout \o new)[Len(hunkout) + i] = new[i]
    BY <1>4, <1>6, <2>1
  <2> QED BY <1>2, <1>6, <2>2
<1>8. DataTypes'
  <2>1. wanted' \in 0 .. hunk.frames /\ Len(hunkout') + wanted' = hunk.frames
    <3>1. PICK w \in Nat, l \in Nat, fr \in Nat :
            w = wanted /\ l = Len(hunkout) /\ fr = hunk.frames
      BY <1>3, <1>4
    <3>2. count \in Nat /\ count <= w /\ l + w = fr
      BY <1>4, <1>5, <3>1
    <3>3. w - count \in 0 .. fr /\ (l + count) + (w - count) = fr
      BY <3>2
    <3>4. wanted' = w - count /\ Len(hunkout') = l + count
      BY <1>2, <1>7, <3>1, Zenon
    <3> QED BY <3>1, <3>3, <3>4, Zenon
  <2> QED BY <1>2, <1>3, <1>7, <2>1 DEF StreamIInv, DataTypes
<1>9. FrameStands'
  BY <1>2 DEF StreamIInv, FrameStands, FrameNow
<1>10. OnTrack'
  <2> SUFFICES ASSUME ~ short PROVE OnTrack'
    BY <1>2 DEF OnTrack
  <2>1. /\ Gathered(hunk, served, 0, hunkout, Len(hunkout))
        /\ Gathered(hunk, served, Len(hunkout), buffer, filled)
        /\ Pending(hunk, served, item, remaining)
        /\ Len(hunkout) + filled + remaining = Len(served)
        /\ filled + asked = Lower(wanted, BufferFrames)
    BY <1>2 DEF StreamIInv, OnTrack
  <2>2. count = filled
    BY <1>1, <1>2, <1>4, <2>1
  <2>3. Len(hunkout') + remaining = Len(served)
    BY <1>4, <1>7, <2>1, <2>2
  <2>4. ASSUME NEW t \in 1 .. Len(hunkout') PROVE TupleIs(hunk, served[0 + t], hunkout'[t])
    <3>1. CASE t <= Len(hunkout)
      <4>1. t \in 1 .. Len(hunkout)
        BY <1>4, <1>5, <1>7, <3>1
      <4> QED BY <1>7, <2>1, <4>1 DEF Gathered
    <3>2. CASE t > Len(hunkout)
      <4>1. PICK i \in 1 .. count : t = Len(hunkout) + i
        <5>1. t - Len(hunkout) \in 1 .. count /\ t = Len(hunkout) + (t - Len(hunkout))
          BY <1>4, <1>5, <1>7, <3>2
        <5> QED BY <5>1
      <4>2. i \in 1 .. filled /\ i <= Len(buffer) /\ 0 + t = Len(hunkout) + i
        BY <1>4, <1>5, <2>2, <4>1
      <4>3. hunkout'[t] = buffer[i]
        BY <1>6, <1>7, <4>1, <4>2
      <4> QED BY <2>1, <4>2, <4>3 DEF Gathered
    <3> QED BY <1>4, <1>5, <1>7, <3>1, <3>2
  <2>5. 0 + Len(hunkout') <= Len(served)
    BY <1>4, <1>5, <1>7, <2>3
  <2>6. Gathered(hunk, served, 0, hunkout', Len(hunkout'))
    BY <2>4, <2>5 DEF Gathered
  <2> QED BY <1>2, <1>3, <2>1, <2>3, <2>6 DEF OnTrack
<1> QED BY <1>8, <1>9, <1>10 DEF StreamIInv

-----------------------------------------------------------------------------
LEMMA StreamInitHolds == FlacStreamInit => StreamIInv
<1> SUFFICES ASSUME FlacStreamInit PROVE StreamIInv
  OBVIOUS
<1>1. KeptTypes
  BY KeptInitHolds DEF KeptIInv
<1>2. hunk = NoStream /\ NoStream \in KnownHunks /\ hunk.frames = 1 /\ hunk.items = <<>>
        /\ hunk.channels = 1
  BY DEF FlacStreamInit, KnownHunks, NoStream
<1>3. /\ Len(<<>>) = 0 /\ <<>> \in Seq(TuplesOf(hunk)) /\ <<>> \in Seq(PlacesOf(hunk))
      /\ BufferFrames \in Nat /\ codec_blocksize(hunk) \in Nat
  BY <1>2, BufferHolds
<1>4. [i \in 0 .. Room(hunk) - 1 |-> Junk] \in [0 .. Room(hunk) - 1 -> CellsOf(hunk)]
  BY DEF CellsOf
<1>5. DataTypes
  <2>1. /\ item \in 0 .. Len(hunk.items) /\ wanted \in 0 .. hunk.frames
        /\ asked \in 0 .. BufferFrames /\ filled \in 0 .. BufferFrames - asked
        /\ remaining \in 0 .. codec_blocksize(hunk)
        /\ Len(buffer) <= BufferFrames /\ filled <= Len(buffer)
        /\ Len(hunkout) + wanted = hunk.frames
    BY <1>2, <1>3 DEF FlacStreamInit
  <2>2. /\ buffer \in Seq(TuplesOf(hunk)) /\ hunkout \in Seq(TuplesOf(hunk))
        /\ served \in Seq(PlacesOf(hunk)) /\ short \in BOOLEAN
    BY <1>3, Zenon DEF FlacStreamInit
  <2>3. memory \in [0 .. Room(hunk) - 1 -> CellsOf(hunk)]
    BY <1>2, <1>4 DEF FlacStreamInit
  <2> QED BY <2>1, <2>2, <2>3 DEF DataTypes
<1>6. FrameStands
  BY DEF FlacStreamInit, FrameStands
<1>7. OnTrack
  <2>1. Gathered(hunk, served, 0, hunkout, Len(hunkout))
    <3>1. \A j \in 1 .. 0 : FALSE
      OBVIOUS
    <3>2. Len(hunkout) = 0 /\ Len(served) = 0
      BY <1>3 DEF FlacStreamInit
    <3> QED BY <3>1, <3>2 DEF Gathered
  <2> QED BY <2>1 DEF FlacStreamInit, OnTrack
<1> QED BY <1>1, <1>5, <1>6, <1>7 DEF StreamIInv

LEMMA StreamNextKeeps ==
  ASSUME KeptIInv, StreamIInv, [FlacStreamNext]_streamvars
  PROVE  StreamIInv'
<1>1. KeptTypes'
  BY KeptNextHolds DEF KeptIInv
<1>2. ASSUME NEW h \in Hunks, ResetInArena(h) \/ ResetWithMalloc(h)
      PROVE  StreamIInv'
  <2>1. h \in KnownHunks /\ Opened(h) /\ phase' # "frames"
    BY <1>2 DEF ResetInArena, ResetWithMalloc, KnownHunks
  <2> QED BY <1>1, <2>1, JustOpened
<1>3. ASSUME NEW h \in Hunks, ResetRefused(h)
      PROVE  StreamIInv'
  <2>1. UNCHANGED flacstream /\ phase' = phase
    BY <1>3 DEF ResetRefused
  <2> QED BY <1>1, <2>1, DataRests
<1>4. CASE HunkStep
  <2>1. CASE NothingRead \/ FinishStream
    <3>1. UNCHANGED flacstream /\ phase' = "idle"
      BY <2>1 DEF NothingRead, FinishStream
    <3> QED BY <1>1, <3>1, DataRests
  <2> QED BY <1>1, <1>4, <2>1, ReadStarts, ItemsAreRead, StreamRunsOut, SamplesAreTaken,
             SamplesAreWritten, Zenon DEF HunkStep
<1>5. CASE Free
  <2>1. NoStream \in KnownHunks /\ Opened(NoStream) /\ phase' # "frames"
    BY <1>5 DEF Free, KnownHunks
  <2> QED BY <1>1, <2>1, JustOpened
<1>6. CASE Start
  <2>1. UNCHANGED flacstream /\ phase' = "idle"
    BY <1>6 DEF Start
  <2> QED BY <1>1, <2>1, DataRests
<1>7. CASE UNCHANGED streamvars
  <2>1. UNCHANGED flacstream /\ phase' = phase
    BY <1>7 DEF streamvars
  <2> QED BY <1>1, <2>1, DataRests
<1> QED BY <1>2, <1>3, <1>4, <1>5, <1>6, <1>7, Zenon DEF FlacStreamNext

(* For every hunk, every size of the small buffer and every stream, sound   *)
(* or not: no frame writes outside the room of the stream, and as long as   *)
(* no read ended early what is written is the samples of the frames that    *)
(* were taken, in order, in every channel.                                  *)
THEOREM HunksAreTheirFrames == FlacStreamSpec => []FramesAreDecoded
<1>1. FlacStreamInit => KeptIInv /\ StreamIInv
  BY KeptInitHolds, StreamInitHolds
<1>2. KeptIInv /\ StreamIInv /\ [FlacStreamNext]_streamvars => KeptIInv' /\ StreamIInv'
  BY KeptNextHolds, StreamNextKeeps
<1>3. StreamIInv => FramesAreDecoded
  BY OnTrackIsRight
<1> QED BY <1>1, <1>2, <1>3, PTL DEF FlacStreamSpec

-----------------------------------------------------------------------------
(* Powers of two.                                                           *)
PowerIs(n, f) == f = [i \in 0 .. n |-> IF i = 0 THEN 1 ELSE 2 * f[i - 1]]

LEMMA PowerExists ==
  ASSUME NEW n \in Nat
  PROVE  \E f : PowerIs(n, f)
<1> DEFINE T == {k \in 0 .. n : \A f : ~ PowerIs(k, f)}
<1>1. ASSUME NEW k \in T, \A m \in T : k <= m PROVE FALSE
  <2>1. k \in 0 .. n /\ \A f : ~ PowerIs(k, f)
    OBVIOUS
  <2>2. PowerIs(0, [i \in 0 .. 0 |-> 1])
    BY DEF PowerIs
  <2>3. k # 0
    BY <2>1, <2>2
  <2>4. k - 1 \in 0 .. n /\ k - 1 \notin T
    <3> HIDE DEF T
    <3> QED BY <1>1, <2>1, <2>3
  <2>5. PICK f : PowerIs(k - 1, f)
    BY <2>4
  <2> DEFINE g == [i \in 0 .. k |-> IF i < k THEN f[i] ELSE 2 * f[k - 1]]
  <2>6. ASSUME NEW i \in 0 .. k PROVE g[i] = IF i = 0 THEN 1 ELSE 2 * g[i - 1]
    <3>1. CASE i = k
      <4>1. g[i] = 2 * f[k - 1] /\ g[i - 1] = f[k - 1]
        BY <2>1, <2>3, <3>1
      <4> QED BY <2>3, <3>1, <4>1
    <3>2. CASE i # k
      <4>1. i \in 0 .. k - 1 /\ g[i] = f[i] /\ (i # 0 => g[i - 1] = f[i - 1])
        BY <2>1, <3>2
      <4>2. f[i] = IF i = 0 THEN 1 ELSE 2 * f[i - 1]
        BY <2>5, <4>1 DEF PowerIs
      <4> HIDE DEF g
      <4> QED BY <4>1, <4>2
    <3> QED BY <3>1, <3>2
  <2>7. g = [i \in 0 .. k |-> g[i]]
    OBVIOUS
  <2>8. PowerIs(k, g)
    <3> HIDE DEF g
    <3> QED BY <2>6, <2>7 DEF PowerIs
  <2> QED BY <2>1, <2>8
<1>2. T = {}
  <2>1. T \in SUBSET Nat
    OBVIOUS
  <2> HIDE DEF T
  <2> QED BY <1>1, <2>1, LeastCount
<1>3. n \in 0 .. n /\ n \notin T
  BY <1>2
<1> QED BY <1>3

LEMMA PowerHas ==
  ASSUME NEW n \in Nat
  PROVE  \E f : /\ f[n] = TwoTo(n) /\ f[0] = 1
                /\ \A i \in 1 .. n : f[i] = 2 * f[i - 1]
<1> DEFINE g == CHOOSE f : PowerIs(n, f)
<1>1. TwoTo(n) = g[n]
  BY DEF TwoTo, PowerIs
<1>2. PowerIs(n, g)
  BY PowerExists
<1> HIDE DEF g
<1>3. g[0] = 1
  BY <1>2 DEF PowerIs
<1>4. ASSUME NEW i \in 1 .. n PROVE g[i] = 2 * g[i - 1]
  <2>1. i \in 0 .. n /\ i # 0
    OBVIOUS
  <2> QED BY <1>2, <2>1 DEF PowerIs
<1> QED BY <1>1, <1>3, <1>4

(* What holds at the start and is kept by every step holds all along.       *)
LEMMA KeptAlong ==
  ASSUME NEW n \in Nat, NEW good, 0 \in good,
         \A k \in 1 .. n : k - 1 \in good => k \in good
  PROVE  \A k \in 0 .. n : k \in good
<1> DEFINE T == {k \in 0 .. n : k \notin good}
<1>1. ASSUME NEW k \in T, \A m \in T : k <= m PROVE FALSE
  <2>1. k \in 1 .. n
    OBVIOUS
  <2>2. k - 1 \in 0 .. n /\ k - 1 \notin T
    <3> HIDE DEF T
    <3> QED BY <1>1, <2>1
  <2> QED BY <2>1, <2>2
<1>2. T = {}
  <2>1. T \in SUBSET Nat
    OBVIOUS
  <2> HIDE DEF T
  <2> QED BY <1>1, <2>1, LeastCount
<1> QED BY <1>2

LEMMA TwoToDoubles ==
  /\ TwoTo(0) = 1
  /\ \A n \in Nat : TwoTo(n) \in Nat /\ TwoTo(n) > n /\ TwoTo(n + 1) = 2 * TwoTo(n)
<1>1. TwoTo(0) = 1
  <2>1. PICK z : z = 0
    OBVIOUS
  <2>2. \E f : f[z] = TwoTo(z) /\ f[0] = 1
    BY <2>1, PowerHas
  <2> QED BY <2>1, <2>2
<1>2. ASSUME NEW n \in Nat PROVE TwoTo(n + 1) = 2 * TwoTo(n)
  <2>1. PICK f : f[n] = TwoTo(n) /\ f[0] = 1 /\ \A i \in 1 .. n : f[i] = 2 * f[i - 1]
    BY PowerHas
  <2>2. PICK g : g[n + 1] = TwoTo(n + 1) /\ g[0] = 1 /\ \A i \in 1 .. n + 1 : g[i] = 2 * g[i - 1]
    BY PowerHas
  <2> DEFINE good == {k \in 0 .. n : f[k] = g[k]}
  <2>3. 0 \in good /\ \A k \in 1 .. n : k - 1 \in good => k \in good
    BY <2>1, <2>2
  <2>4. \A k \in 0 .. n : k \in good
    <3> HIDE DEF good
    <3> QED BY <2>3, KeptAlong
  <2>5. f[n] = g[n]
    BY <2>4
  <2>6. g[n + 1] = 2 * g[n]
    <3>1. n + 1 \in 1 .. n + 1 /\ (n + 1) - 1 = n
      OBVIOUS
    <3> QED BY <2>2, <3>1
  <2> QED BY <2>1, <2>2, <2>5, <2>6
<1>3. ASSUME NEW n \in Nat PROVE TwoTo(n) \in Nat /\ TwoTo(n) > n
  <2> DEFINE good == {k \in 0 .. n : TwoTo(k) \in Nat /\ TwoTo(k) > k}
  <2>1. 0 \in good
    BY <1>1
  <2>2. ASSUME NEW k \in 1 .. n, k - 1 \in good PROVE k \in good
    <3>1. PICK j \in Nat : j = k - 1 /\ k = j + 1
      OBVIOUS
    <3>2. TwoTo(j) \in Nat /\ TwoTo(j) > j /\ TwoTo(k) = 2 * TwoTo(j)
      BY <1>2, <2>2, <3>1
    <3> QED BY <3>1, <3>2
  <2>3. \A k \in 0 .. n : k \in good
    <3> HIDE DEF good
    <3> QED BY <2>1, <2>2, KeptAlong
  <2>4. n \in 0 .. n
    OBVIOUS
  <2> QED BY <2>3, <2>4
<1> QED BY <1>1, <1>2, <1>3

LEMMA TwoToSum ==
  ASSUME NEW a \in Nat, NEW b \in Nat
  PROVE  TwoTo(a + b) = TwoTo(a) * TwoTo(b)
<1> DEFINE good == {k \in 0 .. b : TwoTo(a + k) = TwoTo(a) * TwoTo(k)}
<1>1. 0 \in good
  <2>1. TwoTo(a) \in Nat /\ TwoTo(0) = 1 /\ a + 0 = a
    BY TwoToDoubles
  <2> QED BY <2>1
<1>2. ASSUME NEW k \in 1 .. b, k - 1 \in good PROVE k \in good
  <2>1. PICK j \in Nat : j = k - 1 /\ k = j + 1 /\ a + k = (a + j) + 1
    OBVIOUS
  <2>2. TwoTo(k) = 2 * TwoTo(j) /\ TwoTo(a + k) = 2 * TwoTo(a + j)
    BY <2>1, TwoToDoubles
  <2>3. PICK x \in Nat, y \in Nat : x = TwoTo(a) /\ y = TwoTo(j)
    BY TwoToDoubles
  <2>4. TwoTo(a + j) = x * y
    BY <1>2, <2>1, <2>3
  <2>5. 2 * (x * y) = x * (2 * y)
    OBVIOUS
  <2> QED BY <2>2, <2>3, <2>4, <2>5
<1>3. \A k \in 0 .. b : k \in good
  <2> HIDE DEF good
  <2> QED BY <1>1, <1>2, KeptAlong
<1> QED BY <1>3

-----------------------------------------------------------------------------
(* Quotient and remainder, and what differs by a multiple.                  *)
LEMMA Divides ==
  ASSUME NEW N \in Nat \ {0}, NEW x \in Int
  PROVE  x \div N \in Int /\ x % N \in 0 .. N - 1 /\ x = (x \div N) * N + (x % N)
OBVIOUS

LEMMA OneQuotient ==
  ASSUME NEW N \in Nat \ {0}, NEW q \in Int, NEW r \in 0 .. N - 1
  PROVE  (q * N + r) \div N = q /\ (q * N + r) % N = r
<1>1. PICK x \in Int : x = q * N + r
  OBVIOUS
<1>2. PICK p \in Int, s \in 0 .. N - 1 : p = x \div N /\ s = x % N /\ x = p * N + s
  BY Divides
<1>3. (p - q) * N = r - s /\ r - s < N /\ r - s > - N
  <2>1. p * N + s = q * N + r /\ p * N \in Int /\ q * N \in Int
    BY <1>1, <1>2
  <2>2. (p - q) * N = p * N - q * N
    OBVIOUS
  <2> QED BY <2>1, <2>2
<1>4. p = q
  <2>1. CASE p - q >= 1
    <3>1. (p - q) * N >= N
      BY <2>1
    <3> QED BY <1>3, <3>1
  <2>2. CASE p - q <= -1
    <3>1. (p - q) * N <= - N
      BY <2>2
    <3> QED BY <1>3, <3>1
  <2> QED BY <2>1, <2>2
<1>5. s = r
  BY <1>1, <1>2, <1>4
<1> QED BY <1>1, <1>2, <1>4, <1>5

LEMMA ByMultiple ==
  ASSUME NEW N \in Nat \ {0}, NEW x \in Int, NEW k \in Int
  PROVE  (x + k * N) % N = x % N /\ (x + k * N) \div N = (x \div N) + k
<1>1. PICK q \in Int, r \in 0 .. N - 1 : q = x \div N /\ r = x % N /\ x = q * N + r
  BY Divides
<1>2. x + k * N = (q + k) * N + r /\ q + k \in Int
  <2>1. (q + k) * N = q * N + k * N /\ q * N \in Int /\ k * N \in Int
    OBVIOUS
  <2> QED BY <1>1, <2>1
<1>3. PICK y, p : y = x + k * N /\ p = q + k
  OBVIOUS
<1>4. y = p * N + r /\ p \in Int
  BY <1>2, <1>3
<1>5. y \div N = p /\ y % N = r
  BY <1>4, OneQuotient
<1> QED BY <1>1, <1>3, <1>5

LEMMA SameRemainder ==
  ASSUME NEW N \in Nat \ {0}, NEW x \in Int, NEW y \in Int, x % N = y % N
  PROVE  \E k \in Int : x = y + k * N
<1>1. PICK q, p, r : q = x \div N /\ p = y \div N /\ r = x % N /\ r = y % N
  OBVIOUS
<1>a. q \in Int /\ p \in Int /\ r \in Int /\ x = q * N + r /\ y = p * N + r
  BY <1>1, Divides
<1>2. q - p \in Int /\ x = y + (q - p) * N
  <2>1. PICK a, b, c : a = q * N /\ b = p * N /\ c = (q - p) * N
    OBVIOUS
  <2>2. a \in Int /\ b \in Int /\ c = a - b
    BY <1>a, <2>1
  <2>3. x = y + c
    BY <1>a, <2>1, <2>2
  <2> QED BY <1>a, <2>1, <2>3
<1> QED BY <1>2

(* A number is signed in one way.                                           *)
LEMMA SignedIs ==
  ASSUME NEW n \in Nat \ {0}, NEW x \in Int
  PROVE  /\ Signed(x, n) \in Int /\ IsSigned(Signed(x, n), n)
         /\ \E k \in Int : Signed(x, n) = x + k * TwoTo(n)
<1>1. PICK N \in Nat \ {0}, h \in Nat \ {0} : N = TwoTo(n) /\ h = TwoTo(n - 1) /\ N = 2 * h
  <2>1. PICK m \in Nat : m = n - 1 /\ n = m + 1
    OBVIOUS
  <2>2. TwoTo(m) \in Nat /\ TwoTo(m) > m /\ TwoTo(m + 1) = 2 * TwoTo(m)
    BY TwoToDoubles
  <2> QED BY <2>1, <2>2
<1>2. PICK q \in Int, u \in 0 .. N - 1 : q = x \div N /\ u = x % N /\ x = q * N + u
  BY Divides
<1>3. Signed(x, n) = IF u >= h THEN u - N ELSE u
  BY <1>1, <1>2 DEF Signed, Unsigned
<1>4. CASE u >= h
  <2>1. Signed(x, n) = u - N /\ u - N \in - h .. h - 1 /\ -1 - q \in Int
    BY <1>1, <1>3, <1>4
  <2>2. u - N = x + (-1 - q) * N
    <3>1. (-1 - q) * N = - N - q * N /\ q * N \in Int
      OBVIOUS
    <3> QED BY <1>2, <3>1
  <2> QED BY <1>1, <2>1, <2>2 DEF IsSigned
<1>5. CASE ~ (u >= h)
  <2>1. Signed(x, n) = u /\ u \in - h .. h - 1 /\ - q \in Int
    BY <1>1, <1>3, <1>5
  <2>2. u = x + (- q) * N
    <3>1. (- q) * N = - (q * N) /\ q * N \in Int
      OBVIOUS
    <3> QED BY <1>2, <3>1
  <2> QED BY <1>1, <2>1, <2>2 DEF IsSigned
<1> QED BY <1>4, <1>5

LEMMA SignedOnce ==
  ASSUME NEW n \in Nat \ {0}, NEW x \in Int, NEW y \in Int, NEW k \in Int,
         IsSigned(y, n), y = x + k * TwoTo(n)
  PROVE  Signed(x, n) = y
<1>1. PICK N \in Nat \ {0}, h \in Nat \ {0} : N = TwoTo(n) /\ h = TwoTo(n - 1) /\ N = 2 * h
  <2>1. PICK m \in Nat : m = n - 1 /\ n = m + 1
    OBVIOUS
  <2>2. TwoTo(m) \in Nat /\ TwoTo(m) > m /\ TwoTo(m + 1) = 2 * TwoTo(m)
    BY TwoToDoubles
  <2> QED BY <2>1, <2>2
<1>2. PICK z \in Int : z = Signed(x, n)
  BY SignedIs
<1>3. PICK j \in Int : z = x + j * N
  <2>1. \E j \in Int : Signed(x, n) = x + j * TwoTo(n)
    BY SignedIs
  <2> QED BY <1>1, <1>2, <2>1
<1>4. z \in - h .. h - 1 /\ y \in - h .. h - 1
  BY <1>1, <1>2, SignedIs DEF IsSigned
<1>5. z - y = (j - k) * N /\ z - y < N /\ z - y > - N
  <2>1. (j - k) * N = j * N - k * N /\ j * N \in Int /\ k * N \in Int
    OBVIOUS
  <2> QED BY <1>1, <1>3, <1>4, <2>1
<1>6. j = k
  <2>1. CASE j - k >= 1
    <3>1. (j - k) * N >= N
      BY <2>1
    <3> QED BY <1>5, <3>1
  <2>2. CASE j - k <= -1
    <3>1. (j - k) * N <= - N
      BY <2>2
    <3> QED BY <1>5, <3>1
  <2> QED BY <2>1, <2>2
<1> QED BY <1>1, <1>2, <1>3, <1>6

LEMMA SignedFits ==
  ASSUME NEW n \in Nat \ {0}, NEW x \in Int, IsSigned(x, n)
  PROVE  Signed(x, n) = x
<1>1. TwoTo(n) \in Nat
  BY TwoToDoubles
<1>2. x = x + 0 * TwoTo(n)
  BY <1>1
<1> QED BY <1>2, SignedOnce

LEMMA SignedSame ==
  ASSUME NEW n \in Nat \ {0}, NEW x \in Int, NEW y \in Int, NEW k \in Int,
         y = x + k * TwoTo(n)
  PROVE  Signed(x, n) = Signed(y, n)
<1>1. PICK N \in Nat : N = TwoTo(n)
  BY TwoToDoubles
<1>2. PICK z \in Int, j \in Int : z = Signed(y, n) /\ IsSigned(z, n) /\ z = y + j * N
  BY <1>1, SignedIs
<1>3. z = x + (j + k) * N /\ j + k \in Int
  <2>1. (j + k) * N = j * N + k * N /\ j * N \in Int /\ k * N \in Int
    OBVIOUS
  <2> QED BY <1>1, <1>2, <2>1
<1> QED BY <1>1, <1>2, <1>3, SignedOnce

-----------------------------------------------------------------------------
(* Subframes.                                                               *)
LEMMA SubframeHas ==
  ASSUME sub \in Subframes
  PROVE  /\ WordBits \in Nat \ {0} /\ sub.bits \in 1 .. WordBits /\ sub.order \in 0 .. 32
         /\ sub.precision \in 1 .. 15 /\ sub.shift \in 0 .. WordBits - 1 /\ sub.param \in Nat
         /\ sub.bits + sub.precision + ilog2_u32(sub.order) <= 2 * WordBits
         /\ sub.coefficients \in Seq(Int) /\ Len(sub.coefficients) = sub.order
         /\ \A j \in 1 .. sub.order : IsSigned(sub.coefficients[j], sub.precision)
         /\ sub.warmup \in Seq(Int) /\ Len(sub.warmup) = sub.order
         /\ \A j \in 1 .. sub.order : IsSigned(sub.warmup[j], sub.bits)
         /\ sub.parts \in Seq(Nat \X Nat)
<1>1. IsSubframe(sub) /\ WordBits \in Nat \ {0}
  BY FlacPredictAssumption
<1>2. /\ sub.coefficients \in Seq(Int) /\ Len(sub.coefficients) = sub.order
      /\ sub.warmup \in Seq(Int) /\ Len(sub.warmup) = sub.order
      /\ sub.parts \in Seq(Nat \X Nat)
      /\ sub.bits + sub.precision + ilog2_u32(sub.order) <= 2 * WordBits
      /\ sub.bits \in 1 .. WordBits /\ sub.order \in 0 .. 32 /\ sub.precision \in 1 .. 15
      /\ sub.shift \in 0 .. WordBits - 1 /\ sub.param \in 0 .. WordBits - 1
      /\ \A j \in 1 .. sub.order : IsSigned(sub.coefficients[j], sub.precision)
      /\ \A j \in 1 .. sub.order : IsSigned(sub.warmup[j], sub.bits)
  BY <1>1, Zenon DEF IsSubframe
<1>3. sub.param \in Nat
  <2>1. PICK p \in 0 .. WordBits - 1 : p = sub.param
    BY <1>2, Zenon
  <2>2. p \in Nat
    BY <1>1
  <2> QED BY <2>1, <2>2, Zenon
<1> QED BY <1>1, <1>2, <1>3, Zenon

LEMMA OrderIsNat ==
  ASSUME sub \in Subframes
  PROVE  sub.order \in Nat /\ Len(sub.parts) \in Nat
<1>1. 0 .. 32 \subseteq Nat
  OBVIOUS
<1>2. sub.order \in Nat
  BY <1>1, SubframeHas, Zenon
<1>3. PICK parts \in Seq(Nat \X Nat) : parts = sub.parts
  BY SubframeHas, Zenon
<1>4. Len(parts) \in Nat
  OBVIOUS
<1> QED BY <1>2, <1>3, <1>4

LEMMA SumRuns ==
  ASSUME sub \in Subframes, NEW s \in Seq(Int), Len(s) >= sub.order
  PROVE  \E f : /\ f[0] = 0 /\ f[sub.order] = SumOfProducts(s)
                /\ \A j \in 0 .. sub.order : f[j] \in Int
                /\ \A j \in 1 .. sub.order :
                     /\ sub.coefficients[j] \in Int /\ Before(s, j) \in Int
                     /\ f[j] = f[j - 1] + sub.coefficients[j] * Before(s, j)
<1> DEFINE list == [j \in 1 .. sub.order |-> sub.coefficients[j] * Before(s, j)]
           Is(f) == f = [j \in 0 .. sub.order |->
                           IF j = 0 THEN 0 ELSE f[j - 1] + sub.coefficients[j] * Before(s, j)]
           g == CHOOSE f : Is(f)
<1>1. SumOfProducts(s) = g[sub.order]
  BY DEF SumOfProducts
<1>2. sub.order \in Nat
  BY OrderIsNat, Zenon
<1>3. PICK f : Runs(FALSE, list, sub.order, f)
  BY <1>2, RunExists
<1>4. Is(f)
  <2>1. ASSUME NEW j \in 0 .. sub.order
        PROVE  f[j] = IF j = 0 THEN 0 ELSE f[j - 1] + sub.coefficients[j] * Before(s, j)
    <3>1. CASE j = 0
      BY <1>3, <3>1 DEF Runs
    <3>2. CASE j # 0
      <4>1. j \in 1 .. sub.order
        BY <1>2, <3>2
      <4>2. f[j] = f[j - 1] + list[j]
        BY <1>3, <4>1 DEF Runs
      <4> QED BY <3>2, <4>1, <4>2
    <3> QED BY <3>1, <3>2
  <2>2. f = [j \in 0 .. sub.order |-> f[j]]
    BY <1>3 DEF Runs
  <2> QED BY <2>1, <2>2
<1>5. Is(g)
  <2> HIDE DEF Is
  <2> QED BY <1>4
<1> HIDE DEF g
<1>6. g[0] = 0 /\ \A j \in 1 .. sub.order : g[j] = g[j - 1] + sub.coefficients[j] * Before(s, j)
  <2>1. 0 \in 0 .. sub.order
    BY <1>2
  <2>2. ASSUME NEW j \in 1 .. sub.order
        PROVE  g[j] = g[j - 1] + sub.coefficients[j] * Before(s, j)
    <3>1. j \in 0 .. sub.order /\ j # 0
      BY <1>2
    <3> QED BY <1>5, <3>1
  <2> QED BY <1>5, <2>1, <2>2
<1>7. \A j \in 1 .. sub.order : sub.coefficients[j] \in Int /\ Before(s, j) \in Int
  <2> SUFFICES ASSUME NEW j \in 1 .. sub.order
               PROVE  sub.coefficients[j] \in Int /\ Before(s, j) \in Int
    OBVIOUS
  <2>1. PICK n \in Nat, m \in Nat : n = sub.order /\ m = Len(s) /\ n <= m
    BY <1>2
  <2>2. j \in 1 .. n /\ m + 1 - j \in 1 .. m
    BY <2>1
  <2>3. s[m + 1 - j] \in Int
    BY <2>1, <2>2
  <2>4. sub.coefficients \in Seq(Int) /\ Len(sub.coefficients) = n
    BY <2>1, SubframeHas
  <2>5. sub.coefficients[j] \in Int
    BY <2>2, <2>4
  <2> QED BY <2>1, <2>3, <2>5 DEF Before
<1>8. \A j \in 0 .. sub.order : g[j] \in Int
  <2> DEFINE good == {j \in 0 .. sub.order : g[j] \in Int}
  <2>1. 0 \in good
    BY <1>2, <1>6
  <2>2. ASSUME NEW j \in 1 .. sub.order, j - 1 \in good PROVE j \in good
    <3>1. j \in 0 .. sub.order /\ g[j - 1] \in Int
      BY <1>2, <2>2
    <3>2. g[j - 1] + sub.coefficients[j] * Before(s, j) \in Int
      BY <1>7, <3>1
    <3> QED BY <1>6, <3>1, <3>2
  <2>3. \A j \in 0 .. sub.order : j \in good
    <3> HIDE DEF good
    <3> QED BY <1>2, <2>1, <2>2, KeptAlong
  <2> QED BY <2>3
<1> QED BY <1>1, <1>6, <1>7, <1>8

LEMMA SumIsInt ==
  ASSUME sub \in Subframes, NEW s \in Seq(Int), Len(s) >= sub.order
  PROVE  SumOfProducts(s) \in Int
<1>1. sub.order \in 0 .. sub.order
  BY SubframeHas, SMTT(30)
<1> QED BY <1>1, SumRuns

-----------------------------------------------------------------------------
(* The vectors.                                                             *)
Place(g, lane) == 4 * g + 5 - lane
Term(s, j) == IF j <= sub.order THEN sub.coefficients[j] * Before(s, j) ELSE 0

LanesHold(v, s, n) ==
  \A g \in 0 .. 2 : \A lane \in 1 .. 4 :
    v[g][lane] \in Int /\ (Place(g, lane) <= n => v[g][lane] = Before(s, Place(g, lane)))

LEMMA TwelveTerms ==
  ASSUME sub \in Subframes, sub.order \in 1 .. 12, NEW s \in Seq(Int), Len(s) >= sub.order
  PROVE  /\ \A j \in 1 .. 12 : Term(s, j) \in Int
         /\ SumOfProducts(s) = Term(s, 1) + Term(s, 2) + Term(s, 3) + Term(s, 4) + Term(s, 5)
                                 + Term(s, 6) + Term(s, 7) + Term(s, 8) + Term(s, 9) + Term(s, 10)
                                 + Term(s, 11) + Term(s, 12)
<1>1. PICK f : /\ f[0] = 0 /\ f[sub.order] = SumOfProducts(s)
               /\ \A j \in 0 .. sub.order : f[j] \in Int
               /\ \A j \in 1 .. sub.order :
                    /\ sub.coefficients[j] \in Int /\ Before(s, j) \in Int
                    /\ f[j] = f[j - 1] + sub.coefficients[j] * Before(s, j)
  BY SumRuns
<1> DEFINE F(k) == IF k <= sub.order THEN f[k] ELSE f[sub.order]
<1>2. ASSUME NEW k \in 1 .. 12
      PROVE  F(k) \in Int /\ Term(s, k) \in Int /\ F(k) = F(k - 1) + Term(s, k)
  <2>1. CASE k <= sub.order
    <3>1. k \in 1 .. sub.order /\ k \in 0 .. sub.order
      BY <2>1
    <3>2. sub.coefficients[k] * Before(s, k) \in Int
      BY <1>1, <3>1
    <3>3. F(k) = f[k] /\ F(k - 1) = f[k - 1]
      BY <2>1
    <3> QED BY <1>1, <2>1, <3>1, <3>2, <3>3 DEF Term
  <2>2. CASE ~ (k <= sub.order)
    <3>1. F(k) = f[sub.order] /\ F(k - 1) = f[sub.order] /\ sub.order \in 0 .. sub.order
      <4>1. CASE k - 1 <= sub.order
        <5>1. k - 1 = sub.order
          BY <2>2, <4>1
        <5> QED BY <2>2, <5>1
      <4>2. CASE ~ (k - 1 <= sub.order)
        BY <2>2, <4>2, SMTT(30)
      <4> QED BY <4>1, <4>2
    <3>2. f[sub.order] \in Int
      BY <1>1, <3>1
    <3>3. Term(s, k) = 0
      BY <2>2 DEF Term
    <3> HIDE DEF F
    <3> QED BY <3>1, <3>2, <3>3
  <2> QED BY <2>1, <2>2
<1>3. F(0) = 0 /\ F(12) = SumOfProducts(s)
  <2>1. CASE sub.order = 12
    BY <1>1, <2>1
  <2>2. CASE sub.order # 12
    BY <1>1, <2>2
  <2> QED BY <2>1, <2>2
<1> HIDE DEF F
<1>4. /\ F(1) = 0 + Term(s, 1) /\ F(2) = F(1) + Term(s, 2) /\ F(3) = F(2) + Term(s, 3)
      /\ F(4) = F(3) + Term(s, 4) /\ F(5) = F(4) + Term(s, 5) /\ F(6) = F(5) + Term(s, 6)
      /\ F(7) = F(6) + Term(s, 7) /\ F(8) = F(7) + Term(s, 8) /\ F(9) = F(8) + Term(s, 9)
      /\ F(10) = F(9) + Term(s, 10) /\ F(11) = F(10) + Term(s, 11)
      /\ F(12) = F(11) + Term(s, 12)
  BY <1>2, <1>3
<1>5. \A j \in 1 .. 12 : Term(s, j) \in Int
  BY <1>2
<1> QED BY <1>3, <1>4, <1>5

LEMMA OneProduct ==
  ASSUME sub \in Subframes, sub.order \in 1 .. 12, NEW s \in Seq(Int), Len(s) >= sub.order,
         NEW c \in {SseCoefficients, NeonCoefficients}, NEW v, LanesHold(v, s, sub.order),
         NEW g \in 0 .. 2, NEW lane \in 1 .. 4
  PROVE  Product(c, v, g, lane) = Term(s, Place(g, lane))
<1>1. PICK j \in 1 .. 12 : j = Place(g, lane)
  BY DEF Place
<1>2. SseCoefficients[g][lane] = IF j <= sub.order THEN sub.coefficients[j] ELSE 0
  BY <1>1 DEF SseCoefficients, Coefficients, Width, Place
<1>3. Ending \in 0 .. 3 /\ (g > Ending => sub.order < 4 * g)
  <2>1. CASE sub.order % 4 = 0
    BY <2>1 DEF Ending, Width
  <2>2. CASE sub.order % 4 # 0
    <3>1. PICK n \in 1 .. 12 : n = sub.order
      OBVIOUS
    <3>2. Ending = n \div 4
      BY <2>2, <3>1 DEF Ending, Width
    <3>3. n \div 4 \in 0 .. 3 /\ n < 4 * (n \div 4) + 4
      OBVIOUS
    <3>4. g > n \div 4 => n < 4 * g
      BY <3>3
    <3> QED BY <3>1, <3>2, <3>3, <3>4
  <2> QED BY <2>1, <2>2
<1>4. g <= Ending => NeonCoefficients[g] = SseCoefficients[g]
  BY <1>3 DEF NeonCoefficients
<1>5. lane \in Lanes(g) => g <= Ending
  <2>1. PICK n \in 1 .. 12, e \in 0 .. 3 : n = sub.order /\ e = Ending /\ (g > e => n < 4 * g)
    BY <1>3
  <2>2. CASE Wide
    <3>1. lane \in Lanes(g) => n >= 4 * g + (IF lane > 2 THEN 1 ELSE 3)
      BY <2>1, <2>2 DEF Lanes, Width
    <3>2. n >= 4 * g + (IF lane > 2 THEN 1 ELSE 3) => n >= 4 * g
      OBVIOUS
    <3> QED BY <2>1, <3>1, <3>2
  <2>3. CASE ~ Wide
    <3>1. lane \in Lanes(g) => n > 4 * g \/ g <= 0
      BY <2>1, <2>3 DEF Lanes, Width
    <3> QED BY <2>1, <3>1
  <2> QED BY <2>2, <2>3
<1>6. j <= sub.order => lane \in Lanes(g)
  <2>1. PICK n \in 1 .. 12 : n = sub.order
    OBVIOUS
  <2>2. j = 4 * g + 5 - lane
    BY <1>1 DEF Place
  <2>3. j <= n => n >= 4 * g + (IF lane > 2 THEN 1 ELSE 3)
    <3>1. CASE lane > 2
      BY <2>2, <3>1
    <3>2. CASE ~ (lane > 2)
      BY <2>2, <3>2
    <3> QED BY <3>1, <3>2
  <2>4. j <= n => ~ (n <= 4 * g)
    BY <2>2
  <2>5. CASE Wide
    BY <2>1, <2>3, <2>5 DEF Lanes, Width
  <2>6. CASE ~ Wide
    BY <2>1, <2>4, <2>6 DEF Lanes, Width
  <2> QED BY <2>5, <2>6
<1>7. lane \in Lanes(g) => c[g][lane] = IF j <= sub.order THEN sub.coefficients[j] ELSE 0
  BY <1>2, <1>4, <1>5
<1>8. v[g][lane] \in Int /\ (j <= sub.order => v[g][lane] = Before(s, j))
  BY <1>1 DEF LanesHold
<1>9. CASE j <= sub.order
  BY <1>1, <1>6, <1>7, <1>8, <1>9 DEF Product, Term
<1>10. CASE ~ (j <= sub.order)
  <2>1. Term(s, Place(g, lane)) = 0
    BY <1>1, <1>10 DEF Term
  <2>2. CASE lane \in Lanes(g)
    <3>1. Product(c, v, g, lane) = 0 * v[g][lane]
      BY <1>7, <1>10, <2>2 DEF Product
    <3> QED BY <1>8, <2>1, <3>1
  <2>3. CASE lane \notin Lanes(g)
    BY <2>1, <2>3 DEF Product
  <2> QED BY <2>2, <2>3
<1> QED BY <1>9, <1>10

(* Whole groups, pairs, and lanes left over: the sum is the scalar one.     *)
LEMMA SumOfLanes ==
  ASSUME sub \in Subframes, sub.order \in 1 .. 12, NEW s \in Seq(Int), Len(s) >= sub.order,
         NEW c \in {SseCoefficients, NeonCoefficients}, NEW v, LanesHold(v, s, sub.order)
  PROVE  VectorSum(c, v) = SumOfProducts(s)
<1>1. \A g \in 0 .. 2 : \A lane \in 1 .. 4 : Product(c, v, g, lane) = Term(s, Place(g, lane))
  BY OneProduct
<1>2. /\ Product(c, v, 0, 1) = Term(s, 4) /\ Product(c, v, 0, 2) = Term(s, 3)
      /\ Product(c, v, 0, 3) = Term(s, 2) /\ Product(c, v, 0, 4) = Term(s, 1)
  BY <1>1 DEF Place
<1>3. /\ Product(c, v, 1, 1) = Term(s, 8) /\ Product(c, v, 1, 2) = Term(s, 7)
      /\ Product(c, v, 1, 3) = Term(s, 6) /\ Product(c, v, 1, 4) = Term(s, 5)
  BY <1>1 DEF Place
<1>4. /\ Product(c, v, 2, 1) = Term(s, 12) /\ Product(c, v, 2, 2) = Term(s, 11)
      /\ Product(c, v, 2, 3) = Term(s, 10) /\ Product(c, v, 2, 4) = Term(s, 9)
  BY <1>1 DEF Place
<1>5. /\ GroupSum(c, v, 0) = Term(s, 4) + Term(s, 3) + Term(s, 2) + Term(s, 1)
      /\ GroupSum(c, v, 1) = Term(s, 8) + Term(s, 7) + Term(s, 6) + Term(s, 5)
      /\ GroupSum(c, v, 2) = Term(s, 12) + Term(s, 11) + Term(s, 10) + Term(s, 9)
  BY <1>2, <1>3, <1>4 DEF GroupSum
<1>6. SumOfProducts(s) = Term(s, 1) + Term(s, 2) + Term(s, 3) + Term(s, 4) + Term(s, 5)
                           + Term(s, 6) + Term(s, 7) + Term(s, 8) + Term(s, 9) + Term(s, 10)
                           + Term(s, 11) + Term(s, 12)
  BY TwelveTerms
<1>7. VectorSum(c, v) = GroupSum(c, v, 0) + GroupSum(c, v, 1) + GroupSum(c, v, 2)
  BY DEF VectorSum
<1>8. PICK t : t = [j \in 1 .. 12 |-> Term(s, j)]
  OBVIOUS
<1>9. \A j \in 1 .. 12 : t[j] \in Int
  BY <1>8, TwelveTerms
<1>10. \A j \in 1 .. 12 : Term(s, j) = t[j]
  BY <1>8
<1>11. /\ GroupSum(c, v, 0) = t[4] + t[3] + t[2] + t[1]
       /\ GroupSum(c, v, 1) = t[8] + t[7] + t[6] + t[5]
       /\ GroupSum(c, v, 2) = t[12] + t[11] + t[10] + t[9]
  BY <1>5, <1>10
<1>12. SumOfProducts(s) = t[1] + t[2] + t[3] + t[4] + t[5] + t[6] + t[7] + t[8] + t[9] + t[10]
                           + t[11] + t[12]
  BY <1>6, <1>10
<1>13. PICK d1, d2, d3, d4, d5, d6, e1, e2, e3, e4, e5, e6 :
         /\ d1 = t[1] /\ d2 = t[2] /\ d3 = t[3] /\ d4 = t[4] /\ d5 = t[5] /\ d6 = t[6]
         /\ e1 = t[7] /\ e2 = t[8] /\ e3 = t[9] /\ e4 = t[10] /\ e5 = t[11] /\ e6 = t[12]
  OBVIOUS
<1>14. /\ d1 \in Int /\ d2 \in Int /\ d3 \in Int /\ d4 \in Int /\ d5 \in Int /\ d6 \in Int
       /\ e1 \in Int /\ e2 \in Int /\ e3 \in Int /\ e4 \in Int /\ e5 \in Int /\ e6 \in Int
  BY <1>9, <1>13
<1>15. VectorSum(c, v) = (d4 + d3 + d2 + d1) + (e2 + e1 + d6 + d5) + (e6 + e5 + e4 + e3)
  BY <1>7, <1>11, <1>13
<1>16. SumOfProducts(s) = d1 + d2 + d3 + d4 + d5 + d6 + e1 + e2 + e3 + e4 + e5 + e6
  BY <1>12, <1>13
<1> QED BY <1>14, <1>15, <1>16

-----------------------------------------------------------------------------
(* Predictions: what the two ways cut off are multiples of a word.          *)
LEMMA TwoToPositive ==
  ASSUME NEW n \in Nat
  PROVE  TwoTo(n) \in Nat \ {0}
<1>1. TwoTo(n) \in Nat /\ TwoTo(n) > n
  BY TwoToDoubles
<1> QED BY <1>1

LEMMA Multiples ==
  ASSUME NEW N \in Int, NEW x \in Int, NEW a \in Int, NEW b \in Int
  PROVE  (x + a * N) + b * N = x + (a + b) * N
<1>1. (a + b) * N = a * N + b * N /\ a * N \in Int /\ b * N \in Int
  OBVIOUS
<1> QED BY <1>1

LEMMA UnsignedIs ==
  ASSUME NEW n \in Nat, NEW x \in Int
  PROVE  /\ Unsigned(x, n) \in 0 .. TwoTo(n) - 1
         /\ \E k \in Int : Unsigned(x, n) = x + k * TwoTo(n)
<1>1. PICK N \in Nat \ {0} : N = TwoTo(n)
  BY TwoToPositive
<1>2. PICK q \in Int, u \in 0 .. N - 1 : q = x \div N /\ u = x % N /\ x = q * N + u
  BY Divides
<1>3. Unsigned(x, n) = u
  BY <1>1, <1>2 DEF Unsigned
<1>4. u = x + (- q) * N /\ - q \in Int
  <2>1. (- q) * N = - (q * N) /\ q * N \in Int
    OBVIOUS
  <2> QED BY <1>2, <2>1
<1> QED BY <1>1, <1>3, <1>4

LEMMA ShiftedMultiple ==
  ASSUME NEW W \in Nat \ {0}, NEW shift \in 0 .. W - 1, NEW x \in Int, NEW k \in Int
  PROVE  /\ x \div TwoTo(shift) \in Int
         /\ \E j \in Int : (x + k * TwoTo(2 * W)) \div TwoTo(shift)
                           = (x \div TwoTo(shift)) + j * TwoTo(W)
<1>1. PICK a \in Nat, b \in Nat : a = shift /\ b = W - shift /\ 2 * W = (W + b) + a
  OBVIOUS
<1>2. PICK A \in Nat \ {0}, B \in Nat \ {0}, N \in Nat \ {0} :
        A = TwoTo(a) /\ B = TwoTo(b) /\ N = TwoTo(W)
  BY TwoToPositive
<1>3. W + b \in Nat /\ TwoTo(W + b) = N * B
  BY <1>2, TwoToSum
<1>4. TwoTo((W + b) + a) = (N * B) * A
  BY <1>2, <1>3, TwoToSum
<1>5. k * ((N * B) * A) = (k * (N * B)) * A /\ k * (N * B) = (k * B) * N /\ k * B \in Int
      /\ k * (N * B) \in Int
  OBVIOUS
<1>6. PICK m \in Int : m = k * (N * B)
  BY <1>5
<1>7. (x + m * A) \div A = (x \div A) + m
  BY ByMultiple
<1>8. x \div A \in Int
  BY Divides
<1>9. x + k * TwoTo(2 * W) = x + m * A
  BY <1>1, <1>4, <1>5, <1>6
<1>10. m = (k * B) * N
  BY <1>5, <1>6
<1> QED BY <1>1, <1>2, <1>5, <1>7, <1>8, <1>9, <1>10

LEMMA CodeIs ==
  ASSUME sub \in Subframes, NEW part \in Nat \X Nat
  PROVE  Code(part) \in 0 .. TwoTo(WordBits) - 1 /\ Residual(part) \in Int
<1>1. PICK P \in Nat \ {0}, z \in Nat, l \in Nat :
        P = TwoTo(sub.param) /\ z = part[1] /\ l = part[2]
  <2>1. TwoTo(sub.param) \in Nat \ {0}
    BY SubframeHas, TwoToPositive, Zenon
  <2>2. part[1] \in Nat /\ part[2] \in Nat
    OBVIOUS
  <2> QED BY <2>1, <2>2, Zenon
<1>2. (l % P) + z * P \in Int
  <2>1. l % P \in Int /\ z * P \in Int
    BY Divides
  <2> QED BY <2>1
<1>3. WordBits \in Nat /\ TwoTo(WordBits) \in Nat
  BY SubframeHas, TwoToPositive, SMTT(30)
<1>4. Code(part) \in 0 .. TwoTo(WordBits) - 1
  BY <1>1, <1>2, <1>3, UnsignedIs DEF Code
<1>5. PICK u \in Nat, N \in Nat : u = Code(part) /\ N = TwoTo(WordBits)
  BY <1>3, <1>4
<1>6. u \div 2 \in Int
  OBVIOUS
<1> QED BY <1>3, <1>4, <1>5, <1>6 DEF Residual

Quotient(s) == SumOfProducts(s) \div TwoTo(sub.shift)

LEMMA PredictionIs ==
  ASSUME sub \in Subframes, NEW s \in Seq(Int), Len(s) >= sub.order
  PROVE  /\ Quotient(s) \in Int
         /\ \E j \in Int : calculate_prediction_64(s) = Quotient(s) + j * TwoTo(WordBits)
         /\ \E j \in Int : ShiftedLow(SumOfProducts(s)) = Quotient(s) + j * TwoTo(WordBits)
         /\ calculate_prediction_32(s) \in Int
<1>1. PICK W \in Nat \ {0}, h \in Nat, S \in Int :
        W = WordBits /\ h = sub.shift /\ S = SumOfProducts(s) /\ h \in 0 .. W - 1
  BY SubframeHas, SumIsInt, SMTT(30)
<1>2. PICK N \in Nat \ {0}, H \in Nat \ {0} : N = TwoTo(W) /\ H = TwoTo(h)
  BY TwoToPositive
<1>3. PICK Q \in Int : Q = S \div H
  BY Divides
<1>4. Quotient(s) = Q
  BY <1>1, <1>2, <1>3 DEF Quotient
<1>5. 2 * W \in Nat \ {0}
  OBVIOUS
<1>6. PICK k \in Int : Signed(S, 2 * W) = S + k * TwoTo(2 * W)
  BY <1>5, SignedIs
<1>7. PICK m \in Int : Unsigned(S, 2 * W) = S + m * TwoTo(2 * W)
  BY <1>5, UnsignedIs
<1>8. PICK j \in Int : Signed(S, 2 * W) \div H = Q + j * N
  <2>1. h \in 0 .. W - 1
    BY <1>1
  <2>2. \E n \in Int : (S + k * TwoTo(2 * W)) \div TwoTo(h) = (S \div TwoTo(h)) + n * TwoTo(W)
    BY <2>1, ShiftedMultiple
  <2> QED BY <1>2, <1>3, <1>6, <2>2
<1>9. PICK i \in Int : Unsigned(S, 2 * W) \div H = Q + i * N
  <2>1. h \in 0 .. W - 1
    BY <1>1
  <2>2. \E n \in Int : (S + m * TwoTo(2 * W)) \div TwoTo(h) = (S \div TwoTo(h)) + n * TwoTo(W)
    BY <2>1, ShiftedMultiple
  <2> QED BY <1>2, <1>3, <1>7, <2>2
<1>10. Q + j * N \in Int /\ Q + i * N \in Int
  OBVIOUS
<1>11. \E a \in Int : calculate_prediction_64(s) = Q + a * N
  <2>1. calculate_prediction_64(s) = Signed(Q + j * N, W)
    BY <1>1, <1>2, <1>8 DEF calculate_prediction_64, Int32
  <2>2. PICK b \in Int : Signed(Q + j * N, W) = (Q + j * N) + b * N
    BY <1>2, <1>10, SignedIs
  <2>3. (Q + j * N) + b * N = Q + (j + b) * N /\ j + b \in Int
    BY Multiples
  <2> QED BY <2>1, <2>2, <2>3
<1>12. \E a \in Int : ShiftedLow(SumOfProducts(s)) = Q + a * N
  <2>1. ShiftedLow(SumOfProducts(s)) = Unsigned(Q + i * N, W)
    BY <1>1, <1>2, <1>9 DEF ShiftedLow
  <2>2. PICK b \in Int : Unsigned(Q + i * N, W) = (Q + i * N) + b * N
    BY <1>2, <1>10, UnsignedIs
  <2>3. (Q + i * N) + b * N = Q + (i + b) * N /\ i + b \in Int
    BY Multiples
  <2> QED BY <2>1, <2>2, <2>3
<1>13. calculate_prediction_32(s) \in Int
  <2>1. PICK y \in Int : y = Signed(S, W)
    BY SignedIs
  <2>2. calculate_prediction_32(s) = y \div H
    BY <1>1, <1>2, <2>1 DEF calculate_prediction_32, Int32
  <2> QED BY <2>2, Divides
<1> QED BY <1>1, <1>2, <1>4, <1>11, <1>12, <1>13

LEMMA PredictionIsInt ==
  ASSUME sub \in Subframes, NEW s \in Seq(Int), Len(s) >= sub.order
  PROVE  calculate_prediction(s) \in Int
<1>1. PICK N \in Nat : N = TwoTo(WordBits)
  BY SubframeHas, TwoToPositive, SMTT(30)
<1>2. PICK Q \in Int, j \in Int : calculate_prediction_64(s) = Q + j * N
  BY <1>1, PredictionIs
<1>3. Q + j * N \in Int
  OBVIOUS
<1> QED BY <1>2, <1>3, PredictionIs DEF calculate_prediction

(* The vectors predict what the scalar loop predicts.                       *)
LEMMA SamePrediction ==
  ASSUME sub \in Subframes, sub.order \in 1 .. 12, NEW s \in Seq(Int), Len(s) >= sub.order,
         NEW c \in {SseCoefficients, NeonCoefficients}, NEW v, LanesHold(v, s, sub.order),
         NEW part \in Nat \X Nat
  PROVE  /\ Int32(Residual(part) + VectorPrediction(c, v))
              = Int32(Residual(part) + calculate_prediction(s))
         /\ Int32(Residual(part) + calculate_prediction(s)) \in Int
         /\ IsSigned(Int32(Residual(part) + calculate_prediction(s)), WordBits)
<1>1. PICK W \in Nat \ {0}, N \in Nat, R \in Int :
        W = WordBits /\ N = TwoTo(WordBits) /\ R = Residual(part)
  <2>1. WordBits \in Nat \ {0} /\ Residual(part) \in Int
    BY SubframeHas, CodeIs, Zenon
  <2>2. PICK W \in Nat \ {0} : W = WordBits
    BY <2>1, Zenon
  <2>3. TwoTo(W) \in Nat \ {0}
    BY TwoToPositive
  <2>4. TwoTo(W) \in Nat
    BY <2>3
  <2> QED BY <2>1, <2>2, <2>4, Zenon
<1>2. R + calculate_prediction(s) \in Int
  <2>1. calculate_prediction(s) \in Int
    BY PredictionIsInt
  <2> QED BY <2>1
<1>3. /\ Int32(Residual(part) + calculate_prediction(s)) \in Int
      /\ IsSigned(Int32(Residual(part) + calculate_prediction(s)), WordBits)
  BY <1>1, <1>2, SignedIs DEF Int32
<1>4. VectorSum(c, v) = SumOfProducts(s)
  BY SumOfLanes
<1>5. CASE ~ Wide
  <2>1. VectorPrediction(c, v) = calculate_prediction(s)
    BY <1>4, <1>5 DEF VectorPrediction, calculate_prediction, calculate_prediction_32
  <2> QED BY <1>3, <2>1
<1>6. CASE Wide
  <2>1. /\ VectorPrediction(c, v) = ShiftedLow(SumOfProducts(s))
        /\ calculate_prediction(s) = calculate_prediction_64(s)
    BY <1>4, <1>6 DEF VectorPrediction, calculate_prediction
  <2>2. PICK Q \in Int, i \in Int, j \in Int :
          ShiftedLow(SumOfProducts(s)) = Q + i * N /\ calculate_prediction_64(s) = Q + j * N
    <3>1. PICK Q \in Int : Q = Quotient(s)
      BY PredictionIs
    <3> QED BY <1>1, <3>1, PredictionIs
  <2>3. PICK x \in Int, y \in Int : x = R + (Q + i * N) /\ y = R + (Q + j * N)
    OBVIOUS
  <2>4. y = x + (j - i) * N /\ j - i \in Int
    <3>1. (j - i) * N = j * N - i * N /\ j * N \in Int /\ i * N \in Int
      OBVIOUS
    <3> QED BY <2>3, <3>1
  <2>5. Signed(x, W) = Signed(y, W)
    BY <1>1, <2>4, SignedSame
  <2> QED BY <1>1, <1>3, <2>1, <2>2, <2>3, <2>5 DEF Int32
<1> QED BY <1>5, <1>6

-----------------------------------------------------------------------------
(* Samples one after the other, and four at a time.                         *)
Follows(s) ==
  \A i \in sub.order + 1 .. Len(s) :
    s[i] = Int32(Residual(sub.parts[i - sub.order]) + calculate_prediction(SubSeq(s, 1, i - 1)))
Decoded(s) ==
  /\ s \in Seq(Int) /\ Len(s) \in sub.order .. sub.order + Len(sub.parts)
  /\ \A i \in 1 .. Len(s) : IsSigned(s[i], WordBits)
  /\ Follows(s)

LEMMA AppendedIs ==
  ASSUME sub \in Subframes, NEW s \in Seq(Int), Len(s) >= sub.order, NEW part \in Nat \X Nat
  PROVE  \E x \in Int : /\ x = Int32(Residual(part) + calculate_prediction(s))
                        /\ Appended(s, part) = Append(s, x) /\ IsSigned(x, WordBits)
<1>1. PICK R \in Int, p \in Int : R = Residual(part) /\ p = calculate_prediction(s)
  BY CodeIs, PredictionIsInt
<1>2. PICK y \in Int, W \in Nat \ {0} : y = R + p /\ W = WordBits
  BY SubframeHas, SMTT(30)
<1>3. Signed(y, W) \in Int /\ IsSigned(Signed(y, W), W)
  BY SignedIs
<1> QED BY <1>1, <1>2, <1>3 DEF Appended, Int32

LEMMA OneMore ==
  ASSUME sub \in Subframes, NEW s, Decoded(s), NEW n \in Nat, n = Len(s) - sub.order,
         n < Len(sub.parts)
  PROVE  LET part == sub.parts[n + 1]
         IN  /\ part \in Nat \X Nat /\ Decoded(Appended(s, part))
             /\ Len(Appended(s, part)) = Len(s) + 1
             /\ \A i \in 1 .. Len(s) : Appended(s, part)[i] = s[i]
<1>1. PICK o \in Nat, l \in Nat, m \in Nat : o = sub.order /\ l = Len(s) /\ m = Len(sub.parts)
  <2>1. sub.order \in 0 .. 32 /\ sub.parts \in Seq(Nat \X Nat)
    BY SubframeHas, SMTT(30)
  <2>2. s \in Seq(Int)
    BY DEF Decoded
  <2>3. PICK parts \in Seq(Nat \X Nat) : parts = sub.parts
    BY <2>1
  <2>4. Len(parts) \in Nat
    OBVIOUS
  <2>5. Len(s) \in Nat
    BY <2>2
  <2>6. sub.order \in Nat
    <3>1. 0 .. 32 \subseteq Nat
      OBVIOUS
    <3> QED BY <2>1, <3>1, Zenon
  <2> QED BY <2>3, <2>4, <2>5, <2>6
<1>2. s \in Seq(Int) /\ l \in o .. o + m /\ n = l - o /\ n < m
  BY <1>1 DEF Decoded
<1>3. sub.parts[n + 1] \in Nat \X Nat
  <2>1. PICK parts \in Seq(Nat \X Nat) : parts = sub.parts
    BY SubframeHas, Zenon
  <2>2. n + 1 \in 1 .. m
    BY <1>2
  <2>3. m = Len(parts)
    BY <1>1, <2>1
  <2> QED BY <2>1, <2>2, <2>3
<1>4. PICK x \in Int : /\ x = Int32(Residual(sub.parts[n + 1]) + calculate_prediction(s))
                       /\ Appended(s, sub.parts[n + 1]) = Append(s, x) /\ IsSigned(x, WordBits)
  <2>1. PICK p \in Nat \X Nat : p = sub.parts[n + 1]
    BY <1>3
  <2>2. Len(s) >= sub.order
    BY <1>1, <1>2
  <2> QED BY <1>2, <2>1, <2>2, AppendedIs
<1>5. PICK t : t = Append(s, x)
  OBVIOUS
<1>6. /\ t \in Seq(Int) /\ Len(t) = l + 1 /\ t[l + 1] = x
      /\ \A i \in 1 .. l : t[i] = s[i]
  BY <1>1, <1>2, <1>5
<1>7. \A i \in 1 .. Len(t) : IsSigned(t[i], WordBits)
  <2> SUFFICES ASSUME NEW i \in 1 .. l + 1 PROVE IsSigned(t[i], WordBits)
    BY <1>6
  <2>1. CASE i = l + 1
    BY <1>4, <1>6, <2>1
  <2>2. CASE i # l + 1
    <3>1. i \in 1 .. l
      BY <2>2
    <3> QED BY <1>1, <1>6, <3>1 DEF Decoded
  <2> QED BY <2>1, <2>2
<1>8. Follows(t)
  <2> SUFFICES ASSUME NEW i \in o + 1 .. l + 1
               PROVE  t[i] = Int32(Residual(sub.parts[i - o])
                                     + calculate_prediction(SubSeq(t, 1, i - 1)))
    BY <1>1, <1>6 DEF Follows
  <2>1. SubSeq(t, 1, i - 1) = SubSeq(s, 1, i - 1)
    <3>1. /\ i - 1 \in Nat /\ \A k \in 1 .. i - 1 : t[k] = s[k]
      BY <1>6
    <3> QED BY <1>1, <1>2, <1>6, <3>1
  <2>2. CASE i = l + 1
    <3>1. SubSeq(s, 1, l) = s
      BY <1>1, <1>2
    <3>2. i - 1 = l /\ i - o = n + 1
      BY <1>2, <2>2
    <3> QED BY <1>4, <1>6, <2>1, <2>2, <3>1, <3>2
  <2>3. CASE i # l + 1
    <3>1. i \in o + 1 .. l /\ i \in 1 .. l
      BY <2>3
    <3> QED BY <1>1, <1>6, <2>1, <3>1 DEF Decoded, Follows
  <2> QED BY <2>2, <2>3
<1>9. Len(t) \in sub.order .. sub.order + Len(sub.parts)
  BY <1>1, <1>2, <1>6
<1>10. Decoded(t)
  BY <1>6, <1>7, <1>8, <1>9 DEF Decoded
<1> QED BY <1>1, <1>3, <1>4, <1>5, <1>6, <1>10

LEMMA RolledHolds ==
  ASSUME NEW s \in Seq(Int), NEW v, NEW n \in Nat, n <= Len(s), LanesHold(v, s, n),
         NEW x \in Int
  PROVE  LanesHold(Rolled(v, x), Append(s, x), n + 1)
<1> SUFFICES ASSUME NEW g \in 0 .. 2, NEW lane \in 1 .. 4
             PROVE  /\ Rolled(v, x)[g][lane] \in Int
                    /\ Place(g, lane) <= n + 1
                         => Rolled(v, x)[g][lane] = Before(Append(s, x), Place(g, lane))
  BY DEF LanesHold
<1>1. PICK l \in Nat : l = Len(s) /\ n <= l
  OBVIOUS
<1>2. PICK t : t = Append(s, x)
  OBVIOUS
<1>3. Len(t) = l + 1 /\ t[l + 1] = x /\ \A i \in 1 .. l : t[i] = s[i]
  BY <1>1, <1>2
<1>4. Rolled(v, x)[g][lane] = IF lane < 4 THEN v[g][lane + 1] ELSE IF g = 0 THEN x ELSE v[g - 1][1]
  BY DEF Rolled, Width
<1>5. ASSUME NEW h \in 0 .. 2, NEW k \in 1 .. 4, Place(g, lane) = Place(h, k) + 1,
             Rolled(v, x)[g][lane] = v[h][k]
      PROVE  /\ Rolled(v, x)[g][lane] \in Int
             /\ Place(g, lane) <= n + 1 => Rolled(v, x)[g][lane] = Before(t, Place(g, lane))
  <2>1. v[h][k] \in Int /\ (Place(h, k) <= n => v[h][k] = Before(s, Place(h, k)))
    BY DEF LanesHold
  <2>2. PICK p \in 1 .. 12 : p = Place(h, k)
    BY DEF Place
  <2>3. p <= n => Before(t, p + 1) = Before(s, p)
    <3>1. p <= n => l + 1 - p \in 1 .. l /\ (l + 1) + 1 - (p + 1) = l + 1 - p
      BY <1>1
    <3> QED BY <1>1, <1>3, <3>1 DEF Before
  <2> QED BY <1>5, <2>1, <2>2, <2>3
<1>6. CASE lane < 4
  <2>1. lane + 1 \in 1 .. 4 /\ Place(g, lane) = Place(g, lane + 1) + 1
    BY <1>6 DEF Place
  <2> QED BY <1>2, <1>4, <1>5, <1>6, <2>1
<1>7. CASE ~ (lane < 4) /\ g # 0
  <2>1. g - 1 \in 0 .. 2 /\ 1 \in 1 .. 4 /\ Place(g, lane) = Place(g - 1, 1) + 1
    BY <1>7 DEF Place
  <2> QED BY <1>2, <1>4, <1>5, <1>7, <2>1
<1>8. CASE ~ (lane < 4) /\ g = 0
  <2>1. Place(g, lane) = 1 /\ Rolled(v, x)[g][lane] = x
    BY <1>4, <1>8 DEF Place
  <2>2. Before(t, 1) = x
    BY <1>1, <1>3 DEF Before
  <2> QED BY <1>2, <2>1, <2>2
<1> QED BY <1>6, <1>7, <1>8

LEMMA NextVectorsHold ==
  ASSUME sub \in Subframes, sub.order \in 1 .. 12, NEW s \in Seq(Int), NEW n \in Nat,
         n >= sub.order, n <= Len(s), NEW part \in Nat \X Nat,
         NEW c \in {SseCoefficients, NeonCoefficients}, NEW v, LanesHold(v, s, n)
  PROVE  LanesHold(NextVectors(c, v, part), Appended(s, part), n + 1)
<1>1. Len(s) >= sub.order /\ LanesHold(v, s, sub.order)
  <2>1. ASSUME NEW g \in 0 .. 2, NEW lane \in 1 .. 4
        PROVE  Place(g, lane) <= sub.order => Place(g, lane) <= n
    <3>1. Place(g, lane) \in Int
      BY DEF Place
    <3>2. PICK o \in 1 .. 12, p \in Int : o = sub.order /\ p = Place(g, lane)
      BY <3>1
    <3> QED BY <3>2
  <2>2. PICK o \in 1 .. 12, l \in Nat : o = sub.order /\ l = Len(s)
    OBVIOUS
  <2> QED BY <2>1, <2>2, SMTT(30) DEF LanesHold
<1>2. PICK x \in Int : x = Int32(Residual(part) + calculate_prediction(s))
  BY <1>1, SamePrediction
<1>3. x = Int32(Residual(part) + VectorPrediction(c, v))
  BY <1>1, <1>2, SamePrediction
<1>4. NextVectors(c, v, part) = Rolled(v, x) /\ Appended(s, part) = Append(s, x)
  BY <1>2, <1>3 DEF NextVectors, Appended
<1> QED BY <1>4, RolledHolds

-----------------------------------------------------------------------------
(* Four samples: so many residuals are taken, and the lanes hold so many    *)
(* samples more than the order.                                             *)
At(s, n) == Decoded(s) /\ Len(s) = sub.order + n
IsPart(k) == k \in 1 .. Len(sub.parts)
LanesAt(v, s, k) == LanesHold(v, s, sub.order + k)
Continues(t, s) == \A i \in 1 .. Len(s) : t[i] = s[i]

LEMMA OneAfter ==
  ASSUME sub \in Subframes, NEW n \in Nat, NEW k \in Nat, k = n + 1, IsPart(k),
         NEW s, At(s, n), NEW part, part = sub.parts[k]
  PROVE  part \in Nat \X Nat /\ At(Appended(s, part), k) /\ Continues(Appended(s, part), s)
<1>1. PICK o \in Nat, m \in Nat : o = sub.order /\ m = Len(sub.parts)
  BY OrderIsNat
<1>2. Decoded(s) /\ Len(s) = o + n
  BY <1>1 DEF At
<1>3. n < m
  BY <1>1 DEF IsPart
<1>4. n = Len(s) - sub.order /\ n < Len(sub.parts) /\ (o + n) + 1 = o + k
  BY <1>1, <1>2, <1>3
<1>5. LET p == sub.parts[n + 1]
      IN  /\ p \in Nat \X Nat /\ Decoded(Appended(s, p))
          /\ Len(Appended(s, p)) = Len(s) + 1
          /\ \A i \in 1 .. Len(s) : Appended(s, p)[i] = s[i]
  BY <1>2, <1>4, OneMore
<1>6. part = sub.parts[n + 1]
  OBVIOUS
<1>7. /\ part \in Nat \X Nat /\ Decoded(Appended(s, part))
      /\ Len(Appended(s, part)) = Len(s) + 1
      /\ \A i \in 1 .. Len(s) : Appended(s, part)[i] = s[i]
  BY <1>5, <1>6
<1> QED BY <1>1, <1>2, <1>4, <1>7 DEF At, Continues

LEMMA ContinuesOn ==
  ASSUME sub \in Subframes, NEW n \in Nat, NEW k \in Nat, n <= k,
         NEW s, At(s, n), NEW d, At(d, k), Continues(d, s), NEW t, Continues(t, d)
  PROVE  Continues(t, s)
<1>1. PICK o \in Nat : o = sub.order
  BY OrderIsNat
<1>2. Len(s) = o + n /\ Len(d) = o + k
  BY <1>1 DEF At
<1>3. \A i \in 1 .. o + n : i \in 1 .. o + k
  OBVIOUS
<1> QED BY <1>2, <1>3 DEF Continues

LEMMA LanesAfter ==
  ASSUME sub \in Subframes, Vectors, NEW n \in Nat, NEW s, At(s, n),
         NEW k \in Nat, NEW j \in Nat, j = k + 1, k <= n,
         NEW part \in Nat \X Nat, NEW c \in {SseCoefficients, NeonCoefficients},
         NEW v, LanesAt(v, s, k)
  PROVE  LanesAt(NextVectors(c, v, part), Appended(s, part), j)
<1>1. PICK o \in Nat : o = sub.order
  BY OrderIsNat
<1>2. s \in Seq(Int) /\ Len(s) = o + n
  BY <1>1 DEF At, Decoded
<1>3. PICK x \in Nat : x = o + k
  OBVIOUS
<1>4. x + 1 = o + j /\ x >= o /\ x <= o + n
  BY <1>3
<1>5. x >= sub.order /\ x <= Len(s)
  BY <1>1, <1>2, <1>4
<1>6. LanesHold(v, s, x)
  BY <1>1, <1>3 DEF LanesAt
<1>7. LanesHold(NextVectors(c, v, part), Appended(s, part), x + 1)
  BY <1>2, <1>5, <1>6, NextVectorsHold DEF Vectors
<1> QED BY <1>1, <1>4, <1>7 DEF LanesAt

(* Two sequences put together.                                              *)
LEMMA PutTogether ==
  ASSUME NEW s \in Seq(Int), NEW w \in Seq(Int), NEW t \in Seq(Int),
         Len(t) = Len(s) + Len(w), \A i \in 1 .. Len(s) : t[i] = s[i],
         \A i \in 1 .. Len(w) : t[Len(s) + i] = w[i]
  PROVE  s \o w = t
<1>1. PICK l \in Nat, k \in Nat : l = Len(s) /\ k = Len(w)
  OBVIOUS
<1>2. /\ s \o w \in Seq(Int) /\ Len(s \o w) = l + k
      /\ \A i \in 1 .. l + k : (s \o w)[i] = IF i <= l THEN s[i] ELSE w[i - l]
  BY <1>1, ConcatProperties
<1>3. ASSUME NEW i \in 1 .. l + k PROVE (s \o w)[i] = t[i]
  <2>1. CASE i <= l
    <3>1. i \in 1 .. l
      BY <2>1
    <3> QED BY <1>1, <1>2, <2>1, <3>1
  <2>2. CASE ~ (i <= l)
    <3>1. PICK j \in 1 .. k : j = i - l /\ l + j = i
      BY <2>2
    <3>2. t[l + j] = w[j]
      BY <1>1
    <3> QED BY <1>2, <2>2, <3>1, <3>2
  <2> QED BY <2>1, <2>2
<1>4. Len(s \o w) = Len(t) /\ \A i \in 1 .. Len(s \o w) : (s \o w)[i] = t[i]
  BY <1>1, <1>2, <1>3
<1> QED BY <1>2, <1>4, SeqEqual

(* The newest four samples are the group that is stored.                    *)
LEMMA NewestFour ==
  ASSUME sub \in Subframes, Vectors, NEW n \in Nat, NEW m \in Nat, m = n + 4,
         NEW s, At(s, n), NEW t, At(t, m), Continues(t, s),
         NEW c, NEW v, NEW part, LanesAt(NextVectors(c, v, part), t, 4)
  PROVE  s \o NextVectors(c, v, part)[0] = t
<1>1. PICK o \in Nat : o = sub.order
  BY OrderIsNat
<1>2. s \in Seq(Int) /\ Len(s) = o + n /\ t \in Seq(Int) /\ Len(t) = o + m
  BY <1>1 DEF At, Decoded
<1>3. PICK x, u : u = NextVectors(c, v, part) /\ u = Rolled(v, x)
  BY DEF NextVectors
<1>4. u[0] = [lane \in 1 .. 4 |-> u[0][lane]]
  BY <1>3 DEF Rolled, Width
<1>5. ASSUME NEW lane \in 1 .. 4
      PROVE  u[0][lane] \in Int /\ t[(o + n) + lane] = u[0][lane]
  <2>1. Place(0, lane) = 5 - lane
    BY DEF Place
  <2>2. 5 - lane <= o + 4 /\ 0 \in 0 .. 2 /\ (o + m) + 1 - (5 - lane) = (o + n) + lane
    OBVIOUS
  <2>3. u[0][lane] \in Int /\ u[0][lane] = Before(t, 5 - lane)
    BY <1>1, <1>3, <2>1, <2>2 DEF LanesAt, LanesHold
  <2>4. Before(t, 5 - lane) = t[(o + n) + lane]
    BY <1>2, <2>2 DEF Before
  <2> QED BY <2>3, <2>4
<1>6. PICK w : w = u[0]
  OBVIOUS
<1>7. w \in Seq(Int) /\ Len(w) = 4 /\ \A lane \in 1 .. 4 : t[(o + n) + lane] = w[lane]
  BY <1>4, <1>5, <1>6
<1>8. o + m = (o + n) + 4
  OBVIOUS
<1>9. Len(t) = Len(s) + Len(w) /\ \A i \in 1 .. Len(s) : t[i] = s[i]
  BY <1>2, <1>7, <1>8 DEF Continues
<1>10. \A i \in 1 .. Len(w) : t[Len(s) + i] = w[i]
  BY <1>2, <1>7
<1>11. s \o w = t
  BY <1>2, <1>7, <1>9, <1>10, PutTogether
<1> QED BY <1>3, <1>6, <1>11

LEMMA FourMore ==
  ASSUME sub \in Subframes, NEW n \in Nat, NEW m \in Nat, m = n + 4,
         \A k \in n + 1 .. m : IsPart(k), NEW s, At(s, n),
         NEW four, four = [i \in 1 .. 4 |-> sub.parts[n + i]]
  PROVE  /\ At(AppendedFour(s, four), m)
         /\ \A v : \A c \in {SseCoefficients, NeonCoefficients} :
              Vectors /\ LanesAt(v, s, 0)
              => /\ LanesAt(VectorGroup(c, v, four), AppendedFour(s, four), 4)
                 /\ s \o VectorGroup(c, v, four)[0] = AppendedFour(s, four)
<1>1. PICK n1 \in Nat, n2 \in Nat, n3 \in Nat : n1 = n + 1 /\ n2 = n1 + 1 /\ n3 = n2 + 1 /\ m = n3 + 1
  <2>1. n + 1 \in Nat /\ n + 2 \in Nat /\ n + 3 \in Nat /\ n + 2 = (n + 1) + 1 /\ n + 3 = (n + 2) + 1
        /\ m = (n + 3) + 1
    OBVIOUS
  <2> QED BY <2>1
<1>2. IsPart(n1) /\ IsPart(n2) /\ IsPart(n3) /\ IsPart(m)
  <2>1. n1 \in n + 1 .. m /\ n2 \in n + 1 .. m /\ n3 \in n + 1 .. m /\ m \in n + 1 .. m
    BY <1>1
  <2> QED BY <2>1
<1>3. /\ four[1] = sub.parts[n1] /\ four[2] = sub.parts[n2]
      /\ four[3] = sub.parts[n3] /\ four[4] = sub.parts[m]
  <2>1. n1 = n + 1 /\ n2 = n + 2 /\ n3 = n + 3
    BY <1>1
  <2>2. 1 \in 1 .. 4 /\ 2 \in 1 .. 4 /\ 3 \in 1 .. 4 /\ 4 \in 1 .. 4
    OBVIOUS
  <2> QED BY <2>1, <2>2
<1>4. PICK a, b, d, t :
        /\ a = Appended(s, four[1]) /\ b = Appended(a, four[2])
        /\ d = Appended(b, four[3]) /\ t = Appended(d, four[4])
  OBVIOUS
<1>5. t = AppendedFour(s, four)
  BY <1>4 DEF AppendedFour
<1>6. four[1] \in Nat \X Nat /\ At(a, n1) /\ Continues(a, s)
  BY <1>1, <1>2, <1>3, <1>4, OneAfter
<1>7. four[2] \in Nat \X Nat /\ At(b, n2) /\ Continues(b, a)
  BY <1>1, <1>2, <1>3, <1>4, <1>6, OneAfter
<1>8. four[3] \in Nat \X Nat /\ At(d, n3) /\ Continues(d, b)
  BY <1>1, <1>2, <1>3, <1>4, <1>7, OneAfter
<1>9. four[4] \in Nat \X Nat /\ At(t, m) /\ Continues(t, d)
  BY <1>1, <1>2, <1>3, <1>4, <1>8, OneAfter
<1>10. n <= n1 /\ n <= n2 /\ n <= n3
  BY <1>1
<1>11. Continues(t, s)
  <2>1. Continues(b, s)
    BY <1>6, <1>7, <1>10, ContinuesOn
  <2>2. Continues(d, s)
    BY <2>1, <1>7, <1>8, <1>10, ContinuesOn
  <2> QED BY <2>2, <1>8, <1>9, <1>10, ContinuesOn
<1>12. ASSUME NEW v, NEW c \in {SseCoefficients, NeonCoefficients}, Vectors, LanesAt(v, s, 0)
       PROVE  /\ LanesAt(VectorGroup(c, v, four), t, 4)
              /\ s \o VectorGroup(c, v, four)[0] = t
  <2>1. PICK v1, v2, v3, u :
          /\ v1 = NextVectors(c, v, four[1]) /\ v2 = NextVectors(c, v1, four[2])
          /\ v3 = NextVectors(c, v2, four[3]) /\ u = NextVectors(c, v3, four[4])
    OBVIOUS
  <2>2. u = VectorGroup(c, v, four)
    BY <2>1 DEF VectorGroup
  <2>3. 1 = 0 + 1 /\ 2 = 1 + 1 /\ 3 = 2 + 1 /\ 4 = 3 + 1 /\ 0 <= n /\ 1 <= n1 /\ 2 <= n2 /\ 3 <= n3
    BY <1>1
  <2>4. LanesAt(v1, a, 1)
    BY <1>4, <1>6, <1>12, <2>1, <2>3, LanesAfter
  <2>5. LanesAt(v2, b, 2)
    BY <1>4, <1>6, <1>7, <1>12, <2>1, <2>3, <2>4, LanesAfter
  <2>6. LanesAt(v3, d, 3)
    BY <1>4, <1>7, <1>8, <1>12, <2>1, <2>3, <2>5, LanesAfter
  <2>7. LanesAt(u, t, 4)
    BY <1>4, <1>8, <1>9, <1>12, <2>1, <2>3, <2>6, LanesAfter
  <2>8. s \o u[0] = t
    <3>1. LanesAt(NextVectors(c, v3, four[4]), t, 4)
      BY <2>1, <2>7
    <3>2. Vectors /\ m = n + 4
      BY <1>12
    <3>3. s \o NextVectors(c, v3, four[4])[0] = t
      BY <1>9, <1>11, <3>1, <3>2, NewestFour
    <3> QED BY <2>1, <3>3
  <2> QED BY <2>2, <2>7, <2>8
<1> QED BY <1>5, <1>9, <1>12

-----------------------------------------------------------------------------
(* What is said of a subframe stays when the subframe does.                 *)
LEMMA SamePredictions ==
  ASSUME sub' = sub
  PROVE  \A s : calculate_prediction(s)' = calculate_prediction(s)
<1>1. \A s : SumOfProducts(s)' = SumOfProducts(s)
  BY DEF SumOfProducts
<1>2. Wide' = Wide
  BY DEF Wide
<1> SUFFICES ASSUME NEW s PROVE calculate_prediction(s)' = calculate_prediction(s)
  OBVIOUS
<1>3. SumOfProducts(s)' = SumOfProducts(s)
  BY <1>1
<1>4. /\ calculate_prediction_32(s)' = calculate_prediction_32(s)
      /\ calculate_prediction_64(s)' = calculate_prediction_64(s)
  BY <1>3 DEF calculate_prediction_32, calculate_prediction_64
<1> QED BY <1>2, <1>4 DEF calculate_prediction

LEMMA SameDecoded ==
  ASSUME sub' = sub
  PROVE  \A s : Decoded(s)' = Decoded(s)
<1>1. \A s : calculate_prediction(s)' = calculate_prediction(s)
  BY SamePredictions
<1>2. \A part : Residual(part)' = Residual(part)
  BY DEF Residual, Code
<1>3. \A s : Follows(s)' = Follows(s)
  BY <1>1, <1>2 DEF Follows
<1> QED BY <1>3 DEF Decoded

LEMMA SameAt ==
  ASSUME sub' = sub
  PROVE  \A s : \A n : At(s, n)' = At(s, n)
BY SameDecoded DEF At

LEMMA SameLanes ==
  ASSUME sub' = sub
  PROVE  \A v : \A s : \A k : LanesAt(v, s, k)' = LanesAt(v, s, k)
BY DEF LanesAt

PredictInv ==
  /\ sub \in Subframes /\ Decoded(scalar) /\ sse = scalar /\ neon = scalar
  /\ Vectors /\ Taken + Width <= Len(sub.parts)
     => LanesAt(sselanes, scalar, 0) /\ LanesAt(neonlanes, scalar, 0)

LEMMA LanesFewer ==
  ASSUME sub \in Subframes, NEW v, NEW s, LanesAt(v, s, 4)
  PROVE  LanesAt(v, s, 0)
<1>1. PICK o \in Nat : o = sub.order
  BY OrderIsNat
<1>2. ASSUME NEW g \in 0 .. 2, NEW lane \in 1 .. 4
      PROVE  Place(g, lane) <= o + 0 => Place(g, lane) <= o + 4
  <2>1. Place(g, lane) \in Int
    BY DEF Place
  <2> QED BY <2>1
<1> QED BY <1>1, <1>2 DEF LanesAt, LanesHold

LEMMA TakenIs ==
  ASSUME sub \in Subframes, Decoded(scalar)
  PROVE  Taken \in Nat /\ At(scalar, Taken)
<1>1. PICK o \in Nat, m \in Nat : o = sub.order /\ m = Len(sub.parts)
  BY OrderIsNat
<1>2. PICK l \in o .. o + m : l = Len(scalar)
  BY <1>1 DEF Decoded
<1>3. Taken = l - o /\ l - o \in Nat /\ l = o + (l - o)
  BY <1>1, <1>2 DEF Taken
<1> QED BY <1>1, <1>2, <1>3 DEF At

LEMMA PredictInvInit == FlacPredictInit => PredictInv
<1> SUFFICES ASSUME FlacPredictInit PROVE PredictInv
  OBVIOUS
<1>1. sub \in Subframes /\ scalar = sub.warmup /\ sse = scalar /\ neon = scalar
  BY DEF FlacPredictInit
<1>2. PICK o \in Nat, m \in Nat : o = sub.order /\ m = Len(sub.parts)
  BY <1>1, OrderIsNat
<1>3. scalar \in Seq(Int) /\ Len(scalar) = o
  BY <1>1, <1>2, SubframeHas
<1>4. \A j \in 1 .. o : IsSigned(scalar[j], WordBits)
  <2> TAKE j \in 1 .. o
  <2>1. PICK b \in Nat, W \in Nat : b = sub.bits /\ W = WordBits /\ b \in 1 .. W
    <3>1. WordBits \in Nat \ {0} /\ sub.bits \in 1 .. WordBits
      BY <1>1, SubframeHas
    <3> QED BY <3>1
  <2>2. IsSigned(scalar[j], b)
    BY <1>1, <1>2, <2>1, SubframeHas
  <2>3. PICK c \in Nat, e \in Nat : c = b - 1 /\ e = W - b /\ c + e = W - 1
    BY <2>1
  <2>4. TwoTo(W - 1) = TwoTo(c) * TwoTo(e)
    BY <2>3, TwoToSum
  <2>5. PICK C \in Nat \ {0}, E \in Nat \ {0} : C = TwoTo(c) /\ E = TwoTo(e)
    BY TwoToPositive
  <2>6. C * E >= C
    OBVIOUS
  <2>7. PICK D \in Int : D = TwoTo(W - 1) /\ D >= C
    BY <2>4, <2>5, <2>6
  <2>8. scalar[j] \in - C .. C - 1
    BY <2>2, <2>3, <2>5 DEF IsSigned
  <2>9. scalar[j] \in - D .. D - 1
    BY <2>7, <2>8
  <2> QED BY <2>1, <2>7, <2>9 DEF IsSigned
<1>5. Decoded(scalar)
  <2>1. Follows(scalar)
    <3>1. o + 1 .. o = {}
      OBVIOUS
    <3> QED BY <1>2, <1>3, <3>1 DEF Follows
  <2>2. o \in o .. o + m
    OBVIOUS
  <2> QED BY <1>2, <1>3, <1>4, <2>1, <2>2 DEF Decoded
<1>6. ASSUME NEW g \in 0 .. 2, NEW lane \in 1 .. 4
      PROVE  /\ SseSamples(scalar)[g][lane] \in Int
             /\ Place(g, lane) <= o => SseSamples(scalar)[g][lane] = Before(scalar, Place(g, lane))
  <2>1. PICK j \in Nat \ {0} : j = Place(g, lane) /\ j = 4 * g + 4 + 1 - lane
    BY DEF Place
  <2>2. SseSamples(scalar)[g][lane] = IF j <= o THEN Before(scalar, j) ELSE 0
    BY <1>2, <2>1 DEF SseSamples, Group, Width
  <2>3. CASE j <= o
    <3>1. o + 1 - j \in 1 .. o
      BY <2>3
    <3>2. Before(scalar, j) \in Int
      BY <1>3, <3>1 DEF Before
    <3> QED BY <2>1, <2>2, <2>3, <3>2
  <2>4. CASE ~ (j <= o)
    BY <2>1, <2>2, <2>4
  <2> QED BY <2>3, <2>4
<1>7. LanesAt(sselanes, scalar, 0)
  <2>1. sselanes = SseSamples(scalar) /\ o + 0 = o
    BY <1>1 DEF FlacPredictInit
  <2> QED BY <1>2, <1>6, <2>1 DEF LanesAt, LanesHold
<1>8. LanesAt(neonlanes, scalar, 0)
  <2>1. neonlanes = NeonSamples(scalar) /\ o + 0 = o
    BY <1>1 DEF FlacPredictInit
  <2>2. ASSUME NEW g \in 0 .. 2, NEW lane \in 1 .. 4
        PROVE  /\ NeonSamples(scalar)[g][lane] \in Int
               /\ Place(g, lane) <= o
                  => NeonSamples(scalar)[g][lane] = Before(scalar, Place(g, lane))
    <3>1. PICK e \in Nat : e = Ending /\ (o < 4 * e + 4 \/ e = 3)
      <4>1. CASE o % 4 = 0
        BY <1>2, <4>1 DEF Ending, Width
      <4>2. CASE o % 4 # 0
        <5>1. o \div 4 \in Nat /\ o < 4 * (o \div 4) + 4
          OBVIOUS
        <5> QED BY <1>2, <4>2, <5>1 DEF Ending, Width
      <4> QED BY <4>1, <4>2
    <3>2. PICK h \in 0 .. 2 : h = IF g > e THEN e ELSE g
      OBVIOUS
    <3>3. NeonSamples(scalar)[g] = SseSamples(scalar)[h]
      BY <3>1, <3>2 DEF NeonSamples
    <3>4. Place(g, lane) <= o => h = g
      <4>1. ASSUME g > e PROVE 4 * g + 5 - lane > o
        <5>1. o < 4 * e + 4 /\ g >= e + 1
          BY <3>1, <4>1
        <5>2. 4 * g >= 4 * e + 4
          BY <5>1
        <5> QED BY <5>1, <5>2
      <4>2. Place(g, lane) = 4 * g + 5 - lane /\ 4 * g + 5 - lane \in Int
        BY DEF Place
      <4> QED BY <3>2, <4>1, <4>2
    <3> QED BY <1>6, <3>3, <3>4
  <2> QED BY <1>2, <2>1, <2>2 DEF LanesAt, LanesHold
<1> QED BY <1>1, <1>5, <1>7, <1>8 DEF PredictInv

LEMMA PredictInvNext == PredictInv /\ [FlacPredictNext]_predictvars => PredictInv'
<1> SUFFICES ASSUME PredictInv, [FlacPredictNext]_predictvars PROVE PredictInv'
  OBVIOUS
<1>1. sub \in Subframes /\ Decoded(scalar) /\ sse = scalar /\ neon = scalar
  BY DEF PredictInv
<1>2. PICK n \in Nat : n = Taken /\ At(scalar, n)
  BY <1>1, TakenIs
<1>3. PICK o \in Nat, p \in Nat : o = sub.order /\ p = Len(sub.parts)
  BY <1>1, OrderIsNat
<1>4. CASE DecodeFour
  <2>1. PICK m \in Nat : m = n + 4 /\ m <= p
    BY <1>2, <1>3, <1>4 DEF DecodeFour, Width
  <2>2. \A k \in n + 1 .. m : IsPart(k)
    BY <1>3, <2>1 DEF IsPart
  <2>3. PICK four : four = NextFour /\ four = [i \in 1 .. 4 |-> sub.parts[n + i]]
    BY <1>2 DEF NextFour, Width
  <2>4. PICK t : t = AppendedFour(scalar, four)
    OBVIOUS
  <2>5. scalar' = t /\ sub' = sub
    BY <1>4, <2>3, <2>4 DEF DecodeFour
  <2>6. /\ At(t, m)
        /\ \A v : \A c \in {SseCoefficients, NeonCoefficients} :
             Vectors /\ LanesAt(v, scalar, 0)
             => LanesAt(VectorGroup(c, v, four), t, 4) /\ scalar \o VectorGroup(c, v, four)[0] = t
    BY <1>1, <1>2, <2>1, <2>2, <2>3, <2>4, FourMore
  <2>7. sub' \in Subframes /\ Decoded(scalar)'
    <3>1. Decoded(t)
      BY <2>6 DEF At
    <3> QED BY <1>1, <2>5, <3>1, SameDecoded
  <2>8. CASE Vectors
    <3>1. /\ sselanes' = VectorGroup(SseCoefficients, sselanes, four)
          /\ neonlanes' = VectorGroup(NeonCoefficients, neonlanes, four)
          /\ sse' = sse \o sselanes'[0] /\ neon' = neon \o neonlanes'[0]
      BY <1>4, <2>3, <2>8 DEF DecodeFour
    <3>2. LanesAt(sselanes, scalar, 0) /\ LanesAt(neonlanes, scalar, 0)
      <4>1. Taken + Width <= Len(sub.parts)
        BY <1>4 DEF DecodeFour
      <4> QED BY <2>8, <4>1 DEF PredictInv
    <3>3. LanesAt(sselanes', t, 4) /\ scalar \o sselanes'[0] = t
      BY <2>6, <2>8, <3>1, <3>2
    <3>4. LanesAt(neonlanes', t, 4) /\ scalar \o neonlanes'[0] = t
      BY <2>6, <2>8, <3>1, <3>2
    <3>5. LanesAt(sselanes', t, 0) /\ LanesAt(neonlanes', t, 0)
      BY <1>1, <3>3, <3>4, LanesFewer
    <3>6. LanesAt(sselanes, scalar, 0)' /\ LanesAt(neonlanes, scalar, 0)'
      BY <2>5, <3>5, SameLanes
    <3>7. sse' = scalar' /\ neon' = scalar'
      BY <1>1, <2>5, <3>1, <3>3, <3>4
    <3> QED BY <2>7, <3>6, <3>7 DEF PredictInv
  <2>9. CASE ~ Vectors
    <3>1. sse' = scalar' /\ neon' = scalar'
      BY <1>1, <1>4, <2>9 DEF DecodeFour
    <3>2. ~ Vectors'
      BY <2>5, <2>9 DEF Vectors
    <3> QED BY <2>7, <3>1, <3>2 DEF PredictInv
  <2> QED BY <2>8, <2>9
<1>5. CASE DecodeLast
  <2>1. n < p /\ n + 4 > p
    BY <1>2, <1>3, <1>5 DEF DecodeLast, Width
  <2>2. PICK k \in Nat : k = n + 1 /\ IsPart(k)
    BY <1>3, <2>1 DEF IsPart
  <2>3. PICK part, t : part = NextPart /\ part = sub.parts[k] /\ t = Appended(scalar, part)
    BY <1>2, <2>2 DEF NextPart
  <2>4. scalar' = t /\ sse' = t /\ neon' = t /\ sub' = sub
    BY <1>1, <1>5, <2>3 DEF DecodeLast
  <2>5. At(t, k)
    BY <1>1, <1>2, <2>2, <2>3, OneAfter
  <2>6. Decoded(t) /\ Len(t) = o + k
    BY <1>3, <2>5 DEF At
  <2>7. sub' \in Subframes /\ Decoded(scalar)'
    BY <1>1, <2>4, <2>6, SameDecoded
  <2>8. ~ (Taken' + Width <= Len(sub'.parts))
    <3>1. Taken' = (o + k) - o
      BY <1>3, <2>4, <2>6 DEF Taken
    <3>2. ~ ((o + k) - o + 4 <= p)
      BY <2>1, <2>2
    <3> QED BY <1>3, <2>4, <3>1, <3>2 DEF Width
  <2> QED BY <2>4, <2>7, <2>8 DEF PredictInv
<1>6. CASE UNCHANGED predictvars
  <2>1. /\ sub' = sub /\ scalar' = scalar /\ sse' = sse /\ neon' = neon
        /\ sselanes' = sselanes /\ neonlanes' = neonlanes
    BY <1>6 DEF predictvars
  <2>2. Decoded(scalar)'
    BY <1>1, <2>1, SameDecoded
  <2>3. Vectors' = Vectors /\ Taken' = Taken
    BY <2>1 DEF Vectors, Taken
  <2>4. /\ LanesAt(sselanes, scalar, 0)' = LanesAt(sselanes, scalar, 0)
        /\ LanesAt(neonlanes, scalar, 0)' = LanesAt(neonlanes, scalar, 0)
    BY <2>1, SameLanes
  <2> QED BY <2>1, <2>2, <2>3, <2>4 DEF PredictInv
<1> QED BY <1>4, <1>5, <1>6 DEF FlacPredictNext

-----------------------------------------------------------------------------
(* How large a sum gets.                                                    *)
LEMMA ProductBound ==
  ASSUME NEW A \in Nat, NEW B \in Nat, NEW x \in - A .. A, NEW y \in - B .. B
  PROVE  x * y \in - (A * B) .. A * B
<1>1. x \in Int /\ y \in Int /\ x * y \in Int /\ A * B \in Nat
  OBVIOUS
<1>2. CASE x >= 0
  <2>1. x * y <= x * B /\ x * y >= x * (- B) /\ x * (- B) = - (x * B)
    BY <1>1, <1>2
  <2>2. x * B <= A * B
    BY <1>1, <1>2
  <2> QED BY <1>1, <2>1, <2>2
<1>3. CASE x < 0
  <2>1. PICK z \in 0 .. A : z = - x /\ x = - z
    BY <1>3
  <2>2. z * y <= z * B /\ z * y >= z * (- B) /\ z * (- B) = - (z * B)
    BY <1>1, <2>1
  <2>3. z * B <= A * B
    BY <2>1
  <2>4. x * y = - (z * y) /\ z * y \in Int /\ z * B \in Int
    BY <1>1, <2>1
  <2> QED BY <1>1, <2>2, <2>3, <2>4
<1> QED BY <1>1, <1>2, <1>3

LEMMA Ilog2Is ==
  ASSUME NEW x \in Nat
  PROVE  ilog2_u32(x) \in Nat /\ TwoTo(ilog2_u32(x)) > x
<1> DEFINE T == {k \in 0 .. x : TwoTo(k) > x}
<1>1. T \in SUBSET Nat /\ x \in T
  BY TwoToDoubles
<1>2. PICK k \in T : \A j \in T : k <= j
  <2> HIDE DEF T
  <2> QED BY <1>1, LeastCount
<1>3. k \in 0 .. x /\ TwoTo(k) > x /\ \A j \in 0 .. k - 1 : TwoTo(j) <= x
  <2> SUFFICES ASSUME NEW j \in 0 .. k - 1 PROVE TwoTo(j) <= x
    OBVIOUS
  <2>1. j \in 0 .. x /\ ~ (k <= j)
    OBVIOUS
  <2>2. ~ (TwoTo(j) > x) /\ TwoTo(j) \in Nat
    BY <1>2, <2>1, TwoToDoubles
  <2> QED BY <2>2
<1>4. /\ ilog2_u32(x) \in 0 .. x /\ TwoTo(ilog2_u32(x)) > x
  BY <1>3 DEF ilog2_u32
<1> QED BY <1>4

Small(s) == \A i \in 1 .. Len(s) : IsSigned(s[i], sub.bits)

LEMMA SumBound ==
  ASSUME sub \in Subframes, NEW s \in Seq(Int), Len(s) >= sub.order, Small(s),
         NEW w \in Nat, sub.bits + sub.precision + ilog2_u32(sub.order) <= w
  PROVE  w # 0 /\ IsSigned(SumOfProducts(s), w)
<1>1. PICK o \in Nat, b \in Nat, p \in Nat :
        o = sub.order /\ b = sub.bits - 1 /\ p = sub.precision - 1
        /\ sub.bits = b + 1 /\ sub.precision = p + 1
  <2>1. PICK x \in Nat \ {0}, y \in Nat \ {0} : x = sub.bits /\ y = sub.precision
    <3>1. WordBits \in Nat \ {0} /\ sub.bits \in 1 .. WordBits /\ sub.precision \in 1 .. 15
      BY SubframeHas, SMTT(30)
    <3>2. sub.bits \in Nat \ {0}
      BY <3>1
    <3>3. 1 .. 15 \subseteq Nat \ {0}
      OBVIOUS
    <3>4. sub.precision \in Nat \ {0}
      BY <3>1, <3>3, Zenon
    <3> QED BY <3>2, <3>4
  <2>2. x - 1 \in Nat /\ y - 1 \in Nat /\ x = (x - 1) + 1 /\ y = (y - 1) + 1
    OBVIOUS
  <2> QED BY <2>1, <2>2, OrderIsNat
<1>2. PICK l \in Nat : l = ilog2_u32(o) /\ TwoTo(l) > o
  BY Ilog2Is
<1>3. PICK A \in Nat \ {0}, B \in Nat \ {0}, L \in Nat \ {0} :
        A = TwoTo(p) /\ B = TwoTo(b) /\ L = TwoTo(l) /\ L > o
  BY <1>2, TwoToPositive
<1>4. PICK K \in Nat : K = A * B
  OBVIOUS
<1>5. PICK f : /\ f[0] = 0 /\ f[o] = SumOfProducts(s)
               /\ \A j \in 0 .. o : f[j] \in Int
               /\ \A j \in 1 .. o :
                    /\ sub.coefficients[j] \in Int /\ Before(s, j) \in Int
                    /\ f[j] = f[j - 1] + sub.coefficients[j] * Before(s, j)
  BY <1>1, SumRuns
<1>6. ASSUME NEW j \in 1 .. o
      PROVE  sub.coefficients[j] * Before(s, j) \in - K .. K
  <2>1. PICK c \in Int, x \in Int : c = sub.coefficients[j] /\ x = Before(s, j)
    BY <1>5
  <2>2. IsSigned(c, sub.precision)
    BY <1>1, <2>1, SubframeHas
  <2>3. (p + 1) - 1 = p /\ (b + 1) - 1 = b
    OBVIOUS
  <2>4. c \in - A .. A - 1
    BY <1>1, <1>3, <2>2, <2>3 DEF IsSigned
  <2>5. IsSigned(x, sub.bits)
    <3>1. PICK n \in Nat : n = Len(s) /\ n >= o
      BY <1>1
    <3>2. n + 1 - j \in 1 .. n
      BY <3>1
    <3> QED BY <2>1, <3>1, <3>2 DEF Before, Small
  <2>6. x \in - B .. B - 1
    BY <1>1, <1>3, <2>3, <2>5 DEF IsSigned
  <2>7. c \in - A .. A /\ x \in - B .. B
    BY <2>4, <2>6
  <2>8. c * x \in - (A * B) .. A * B
    BY <2>7, ProductBound
  <2> QED BY <1>4, <2>1, <2>8
<1>7. ASSUME NEW j \in Nat, NEW y \in Int, NEW z \in - K .. K, y \in - (j * K) .. j * K
      PROVE  y + z \in - ((j + 1) * K) .. (j + 1) * K
  <2>1. (j + 1) * K = j * K + K /\ j * K \in Int
    OBVIOUS
  <2> QED BY <1>7, <2>1
<1> DEFINE good == {j \in 0 .. o : f[j] \in - (j * K) .. j * K}
<1>8. 0 \in good
  <2>1. 0 * K = 0
    OBVIOUS
  <2> QED BY <1>5, <2>1
<1>9. ASSUME NEW j \in 1 .. o, j - 1 \in good PROVE j \in good
  <2>1. PICK k \in Nat : k = j - 1 /\ j = k + 1 /\ k \in 0 .. o
    OBVIOUS
  <2>2. f[k] \in - (k * K) .. k * K
    BY <1>9, <2>1
  <2>3. f[k] \in Int /\ f[j] = f[k] + sub.coefficients[j] * Before(s, j)
    BY <1>5, <2>1
  <2>4. f[j] \in - ((k + 1) * K) .. (k + 1) * K
    BY <1>6, <1>7, <2>2, <2>3
  <2> QED BY <2>1, <2>4
<1>10. \A j \in 0 .. o : j \in good
  <2> HIDE DEF good
  <2> QED BY <1>8, <1>9, KeptAlong
<1>11. SumOfProducts(s) \in - (o * K) .. o * K
  <2>1. o \in 0 .. o
    OBVIOUS
  <2>2. f[o] \in - (o * K) .. o * K
    BY <1>10, <2>1
  <2> QED BY <1>5, <2>2
<1> HIDE DEF good
<1>12. PICK e \in Nat : w = (l + (p + b) + e) + 1 /\ w # 0
  <2>1. (b + 1) + (p + 1) + l <= w
    BY <1>1, <1>2
  <2>2. w - (l + (p + b)) - 1 \in Nat
    BY <2>1
  <2> QED BY <2>2
<1>13. TwoTo(w - 1) >= L * K
  <2>1. TwoTo(p + b) = K
    BY <1>3, <1>4, TwoToSum
  <2>2. p + b \in Nat /\ l + (p + b) \in Nat
    OBVIOUS
  <2>3. TwoTo(l + (p + b)) = L * K
    BY <1>3, <2>1, <2>2, TwoToSum
  <2>4. PICK E \in Nat \ {0} : E = TwoTo(e)
    BY TwoToPositive
  <2>5. TwoTo(l + (p + b) + e) = (L * K) * E
    BY <2>2, <2>3, <2>4, TwoToSum
  <2>6. PICK M \in Nat : M = L * K
    OBVIOUS
  <2>7. M * E >= M
    OBVIOUS
  <2>8. w - 1 = l + (p + b) + e
    BY <1>12
  <2> QED BY <2>5, <2>6, <2>7, <2>8
<1>14. o * K <= L * K - K /\ K > 0
  <2>1. K > 0
    BY <1>4
  <2>2. o <= L - 1
    BY <1>3
  <2>3. o * K <= (L - 1) * K
    BY <2>1, <2>2
  <2>4. (L - 1) * K = L * K - K
    OBVIOUS
  <2> QED BY <2>1, <2>3, <2>4
<1>15. PICK D \in Nat, M \in Int, O \in Int : D = TwoTo(w - 1) /\ M = L * K /\ O = o * K
  <2>1. w - 1 \in Nat
    BY <1>12
  <2> QED BY <2>1, TwoToDoubles
<1>16. SumOfProducts(s) \in - D .. D - 1
  <2>1. PICK S \in Int : S = SumOfProducts(s)
    BY SumIsInt
  <2>2. S \in - O .. O /\ D >= M /\ O <= M - K /\ K > 0
    BY <1>11, <1>13, <1>14, <1>15, <2>1
  <2>3. S \in - D .. D - 1
    BY <2>2
  <2> QED BY <2>1, <2>3
<1> QED BY <1>12, <1>15, <1>16 DEF IsSigned

LEMMA NarrowSum ==
  ASSUME sub \in Subframes, NEW s \in Seq(Int), Len(s) >= sub.order, Small(s), ~ Wide
  PROVE  Int32(SumOfProducts(s)) = SumOfProducts(s)
<1>1. PICK W \in Nat \ {0}, S \in Int : W = WordBits /\ S = SumOfProducts(s)
  BY SubframeHas, SumIsInt, SMTT(30)
<1>2. PICK x \in Int : x = sub.bits + sub.precision + ilog2_u32(sub.order)
  <2>1. WordBits \in Nat \ {0} /\ sub.bits \in 1 .. WordBits /\ sub.precision \in 1 .. 15
    BY SubframeHas, SMTT(30)
  <2>2. 1 .. 15 \subseteq Int
    OBVIOUS
  <2>3. sub.bits \in Int
    BY <2>1
  <2>4. sub.precision \in Int
    BY <2>1, <2>2, Zenon
  <2>5. ilog2_u32(sub.order) \in Int
    <3>1. PICK o \in Nat : o = sub.order
      BY OrderIsNat, Zenon
    <3>2. ilog2_u32(o) \in Int
      BY Ilog2Is
    <3> QED BY <3>1, <3>2, Zenon
  <2> QED BY <2>3, <2>4, <2>5
<1>3. ~ (x > W)
  BY <1>1, <1>2 DEF Wide, use_64_bit_prediction
<1>4. sub.bits + sub.precision + ilog2_u32(sub.order) <= W
  BY <1>2, <1>3
<1>5. IsSigned(S, W)
  BY <1>1, <1>4, SumBound
<1> QED BY <1>1, <1>5, SignedFits DEF Int32

LEMMA PredictionExact ==
  ASSUME sub \in Subframes, NEW s \in Seq(Int), Len(s) >= sub.order, Small(s)
  PROVE  \E j \in Int : calculate_prediction(s) = Quotient(s) + j * TwoTo(WordBits)
<1>1. CASE Wide
  BY <1>1, PredictionIs DEF calculate_prediction
<1>2. CASE ~ Wide
  <2>1. calculate_prediction(s) = Quotient(s)
    BY <1>2, NarrowSum DEF calculate_prediction, calculate_prediction_32, Quotient
  <2>2. PICK Q \in Int, N \in Nat : Q = Quotient(s) /\ N = TwoTo(WordBits)
    BY PredictionIs, SubframeHas, TwoToPositive
  <2>3. Q = Q + 0 * N
    OBVIOUS
  <2> QED BY <2>1, <2>2, <2>3
<1> QED BY <1>1, <1>2

(* Folding and unfolding.                                                   *)
LEMMA FoldedBack ==
  ASSUME sub \in Subframes, NEW part \in Nat \X Nat, NEW r \in Int, NEW k \in Int,
         IsSigned(r, WordBits), r = Residual(part) + k * TwoTo(WordBits)
  PROVE  Folded(r) = Code(part)
<1>1. PICK W \in Nat \ {0} : W = WordBits
  BY SubframeHas, SMTT(30)
<1>2. PICK N \in Nat \ {0}, h \in Nat \ {0} : N = TwoTo(W) /\ h = TwoTo(W - 1) /\ N = 2 * h
  <2>1. PICK m \in Nat : m = W - 1 /\ W = m + 1
    OBVIOUS
  <2>2. TwoTo(m) \in Nat /\ TwoTo(m) > m /\ TwoTo(m + 1) = 2 * TwoTo(m)
    BY TwoToDoubles
  <2> QED BY <2>1, <2>2
<1>3. PICK u \in 0 .. N - 1, R \in Int : u = Code(part) /\ R = Residual(part)
  BY <1>1, <1>2, CodeIs
<1>4. R = IF u % 2 = 0 THEN u \div 2 ELSE N - 1 - (u \div 2)
  BY <1>1, <1>2, <1>3 DEF Residual
<1>5. Signed(R, W) = r
  <2>1. IsSigned(r, W) /\ r = R + k * TwoTo(W)
    BY <1>1, <1>3
  <2> QED BY <2>1, SignedOnce
<1>6. CASE u % 2 = 0
  <2>1. R = u \div 2 /\ R \in 0 .. h - 1 /\ 2 * R = u
    BY <1>2, <1>4, <1>6
  <2>2. IsSigned(R, W)
    BY <1>2, <2>1 DEF IsSigned
  <2>3. r = R
    BY <1>5, <2>2, SignedFits
  <2> QED BY <1>3, <2>1, <2>3 DEF Folded
<1>7. CASE u % 2 # 0
  <2>1. PICK y \in Int : y = -1 - (u \div 2)
    OBVIOUS
  <2>2. R = y + N /\ y \in - h .. -1 /\ -2 * y - 1 = u
    BY <1>2, <1>4, <1>7, <2>1
  <2>3. IsSigned(y, W)
    BY <1>2, <2>2 DEF IsSigned
  <2>4. PICK a \in Int : y = R + a * N
    <3>1. y = R + (-1) * N
      BY <2>2
    <3> QED BY <3>1
  <2>5. r = y
    BY <1>2, <1>5, <2>3, <2>4, SignedOnce
  <2> QED BY <1>3, <2>2, <2>5 DEF Folded
<1> QED BY <1>6, <1>7

-----------------------------------------------------------------------------
PredictionIsExact ==
  FlacPredictTypeOK /\ EveryWayIsTheSame /\ SumsDoNotOverflow /\ SamplesAreWhatWasCoded

LEMMA PredictInvMeans == PredictInv => PredictionIsExact
<1> SUFFICES ASSUME PredictInv PROVE PredictionIsExact
  OBVIOUS
<1>1. /\ sub \in Subframes /\ Decoded(scalar) /\ sse = scalar /\ neon = scalar
      /\ scalar \in Seq(Int)
  BY DEF PredictInv, Decoded
<1>2. PICK o \in Nat, m \in Nat : o = sub.order /\ m = Len(sub.parts)
  BY <1>1, OrderIsNat
<1>3. PICK l \in o .. o + m : l = Len(scalar) /\ l >= o
  BY <1>1, <1>2 DEF Decoded
<1>4. FlacPredictTypeOK /\ EveryWayIsTheSame
  BY <1>1 DEF FlacPredictTypeOK, EveryWayIsTheSame, Decoded
<1>5. SumsDoNotOverflow
  <2>1. Len(scalar) >= sub.order
    BY <1>2, <1>3
  <2> QED BY <1>1, <2>1, NarrowSum DEF SumsDoNotOverflow, Small
<1>6. SamplesAreWhatWasCoded
  <2> SUFFICES ASSUME NEW i \in o + 1 .. l, Small(scalar),
                      IsSigned(scalar[i] - Exact(i), WordBits)
               PROVE  Folded(scalar[i] - Exact(i)) = Code(sub.parts[i - o])
    BY <1>2, <1>3 DEF SamplesAreWhatWasCoded, Small
  <2>1. i \in 1 .. l /\ i - 1 \in 0 .. l /\ i - 1 >= o
    BY <1>3
  <2>2. PICK s : s = SubSeq(scalar, 1, i - 1)
    OBVIOUS
  <2>3. s \in Seq(Int) /\ Len(s) = i - 1 /\ \A k \in 1 .. i - 1 : s[k] = scalar[k]
    BY <1>1, <1>3, <2>1, <2>2
  <2>4. Len(s) >= sub.order
    BY <1>2, <2>1, <2>3
  <2>5. Small(s)
    <3>1. \A k \in 1 .. i - 1 : k \in 1 .. l
      BY <2>1
    <3> QED BY <1>3, <2>3, <3>1 DEF Small
  <2>6. PICK W \in Nat \ {0}, N \in Nat : W = WordBits /\ N = TwoTo(W)
    BY <1>1, SubframeHas, TwoToPositive
  <2>7. PICK Q \in Int, j \in Int :
          Q = Quotient(s) /\ calculate_prediction(s) = Q + j * N
    BY <1>1, <2>3, <2>4, <2>5, <2>6, PredictionExact, PredictionIs
  <2>8. Exact(i) = Q
    BY <2>2, <2>7 DEF Exact, Quotient
  <2>9. PICK part \in Nat \X Nat : part = sub.parts[i - o]
    <3>1. PICK parts \in Seq(Nat \X Nat) : parts = sub.parts
      BY <1>1, SubframeHas
    <3>2. i - o \in 1 .. m
      BY <1>3
    <3>3. m = Len(parts)
      BY <1>2, <3>1
    <3> QED BY <3>1, <3>2, <3>3, SMTT(30)
  <2>10. PICK R \in Int : R = Residual(part)
    BY <1>1, CodeIs
  <2>11. scalar[i] = Signed(R + (Q + j * N), W)
    <3>1. scalar[i] = Int32(Residual(sub.parts[i - o]) + calculate_prediction(s))
      BY <1>1, <1>2, <1>3, <2>2 DEF Decoded, Follows
    <3> QED BY <2>6, <2>7, <2>9, <2>10, <3>1 DEF Int32
  <2>12. PICK z \in Int, k \in Int : z = scalar[i] /\ z = (R + (Q + j * N)) + k * N
    <3>1. PICK x \in Int : x = R + (Q + j * N)
      OBVIOUS
    <3>2. Signed(x, W) \in Int /\ \E k \in Int : Signed(x, W) = x + k * N
      BY <2>6, SignedIs
    <3> QED BY <2>11, <3>1, <3>2
  <2>13. z - Q = R + (j + k) * N /\ j + k \in Int /\ z - Q \in Int
    <3>1. (j + k) * N = j * N + k * N /\ j * N \in Int /\ k * N \in Int
      OBVIOUS
    <3> QED BY <2>12, <3>1
  <2>14. IsSigned(z - Q, WordBits) /\ z - Q = Residual(part) + (j + k) * TwoTo(WordBits)
    BY <2>6, <2>8, <2>10, <2>12, <2>13
  <2>15. Folded(z - Q) = Code(part)
    BY <1>1, <2>13, <2>14, FoldedBack
  <2> QED BY <2>8, <2>9, <2>12, <2>15
<1> QED BY <1>4, <1>5, <1>6 DEF PredictionIsExact

(* The vectors decode what the scalar loop decodes, the narrow sum is taken *)
(* where it fits, and the samples are those the encoder predicted: for      *)
(* every order, precision, shift and residual.                              *)
THEOREM PredictionHolds == FlacPredictSpec => []PredictionIsExact
<1>1. FlacPredictInit => PredictInv
  BY PredictInvInit
<1>2. PredictInv /\ [FlacPredictNext]_predictvars => PredictInv'
  BY PredictInvNext
<1>3. PredictInv => PredictionIsExact
  BY PredictInvMeans
<1> QED BY <1>1, <1>2, <1>3, PTL DEF FlacPredictSpec

-----------------------------------------------------------------------------
(* Words that differ by whole words are alike.                              *)
Like(x, y) == x \in Int /\ y \in Int /\ \E k \in Int : x = y + k * TwoTo(StereoWordBits)

LEMMA StereoSizes ==
  /\ StereoWordBits \in Nat \ {0} /\ Half \in Nat \ {0} /\ StereoWordBits = Half + Half
  /\ TwoTo(Half) \in Nat \ {0} /\ TwoTo(StereoWordBits) \in Nat \ {0}
  /\ TwoTo(StereoWordBits) = TwoTo(Half) * TwoTo(Half)
  /\ TwoTo(Half - 1) \in Nat \ {0} /\ TwoTo(Half) = 2 * TwoTo(Half - 1)
  /\ TwoTo(StereoWordBits - 1) = TwoTo(Half - 1) * TwoTo(Half)
<1>1. PICK w \in Nat \ {0} : w = StereoWordBits /\ w % 2 = 0
  BY FlacStereoAssumption
<1>2. PICK h \in Nat \ {0} : h = w \div 2 /\ w = h + h
  BY <1>1
<1>3. Half = h
  BY <1>1, <1>2 DEF Half
<1>4. PICK g \in Nat : g = h - 1 /\ h = g + 1 /\ w - 1 = g + h
  BY <1>2
<1>5. TwoTo(g + 1) = 2 * TwoTo(g)
  BY TwoToDoubles
<1>6. TwoTo(h + h) = TwoTo(h) * TwoTo(h) /\ TwoTo(g + h) = TwoTo(g) * TwoTo(h)
  BY TwoToSum
<1>7. TwoTo(h) \in Nat \ {0} /\ TwoTo(g) \in Nat \ {0} /\ TwoTo(w) \in Nat \ {0}
  BY TwoToPositive
<1> QED BY <1>1, <1>2, <1>3, <1>4, <1>5, <1>6, <1>7

LEMMA LikeItself ==
  ASSUME NEW x \in Int
  PROVE  Like(x, x)
<1>1. x = x + 0 * TwoTo(StereoWordBits)
  BY StereoSizes
<1> QED BY <1>1 DEF Like

LEMMA LikeBoth ==
  ASSUME NEW x, NEW y, NEW a, NEW b, Like(x, y), Like(a, b)
  PROVE  Like(x + a, y + b) /\ Like(x - a, y - b)
<1>1. PICK N \in Nat : N = TwoTo(StereoWordBits)
  BY StereoSizes
<1>2. x \in Int /\ y \in Int /\ a \in Int /\ b \in Int
  BY DEF Like
<1>3. PICK j \in Int, k \in Int : x = y + j * N /\ a = b + k * N
  BY <1>1 DEF Like
<1>4. /\ x + a = (y + b) + (j + k) * N /\ j + k \in Int
      /\ x - a = (y - b) + (j - k) * N /\ j - k \in Int
  <2>1. /\ (j + k) * N = j * N + k * N /\ (j - k) * N = j * N - k * N
        /\ j * N \in Int /\ k * N \in Int
    OBVIOUS
  <2> QED BY <1>2, <1>3, <2>1
<1>5. x + a \in Int /\ y + b \in Int /\ x - a \in Int /\ y - b \in Int
  BY <1>2
<1> QED BY <1>1, <1>4, <1>5 DEF Like

LEMMA LikeTimes ==
  ASSUME NEW x, NEW y, Like(x, y), NEW m \in Int
  PROVE  Like(x * m, y * m)
<1>1. PICK N \in Nat : N = TwoTo(StereoWordBits)
  BY StereoSizes
<1>2. PICK a \in Int, b \in Int, k \in Int : a = x /\ b = y /\ a = b + k * N
  BY <1>1 DEF Like
<1>3. a * m = b * m + (k * m) * N /\ a * m \in Int /\ b * m \in Int /\ k * m \in Int
  <2>1. (b + k * N) * m = b * m + (k * N) * m /\ (k * N) * m = (k * m) * N
    OBVIOUS
  <2> QED BY <1>2, <2>1
<1> QED BY <1>1, <1>2, <1>3 DEF Like

LEMMA LikeSame ==
  ASSUME NEW x, NEW y, Like(x, y)
  PROVE  Uint32(x) = Uint32(y) /\ SignedWord(x) = SignedWord(y)
<1>1. PICK N \in Nat \ {0} : N = TwoTo(StereoWordBits)
  BY StereoSizes
<1>2. PICK a \in Int, b \in Int, k \in Int : a = x /\ b = y /\ a = b + k * N
  BY <1>1 DEF Like
<1>3. a % N = b % N
  <2>1. (b + k * N) % N = b % N
    BY ByMultiple
  <2> QED BY <1>2, <2>1
<1> QED BY <1>1, <1>2, <1>3 DEF Uint32, SignedWord, Unsigned, Signed

LEMMA LikeUint ==
  ASSUME NEW x, NEW y, Like(x, y)
  PROVE  Like(Uint32(x), y)
<1>1. PICK N \in Nat \ {0}, w \in Nat : w = StereoWordBits /\ N = TwoTo(w)
  BY StereoSizes
<1>2. PICK a \in Int, b \in Int, k \in Int : a = x /\ b = y /\ a = b + k * N
  BY <1>1 DEF Like
<1>3. PICK u \in Int, j \in Int : u = Uint32(x) /\ u = a + j * N
  <2>1. Unsigned(a, w) \in 0 .. TwoTo(w) - 1 /\ \E j \in Int : Unsigned(a, w) = a + j * TwoTo(w)
    BY UnsignedIs
  <2>2. Unsigned(a, w) \in Int
    BY <1>1, <2>1
  <2> QED BY <1>1, <1>2, <2>1, <2>2 DEF Uint32
<1>4. u = b + (k + j) * N /\ k + j \in Int
  BY <1>2, <1>3, Multiples
<1> QED BY <1>1, <1>2, <1>3, <1>4 DEF Like

LEMMA LikeShl ==
  ASSUME NEW x, NEW y, Like(x, y), NEW n \in Nat
  PROVE  Like(Shl(x, n), y * TwoTo(n))
<1>1. PICK m \in Int : m = TwoTo(n)
  BY TwoToPositive
<1>2. Like(x * m, y * m)
  BY LikeTimes
<1>3. Like(Uint32(x * m), y * m)
  BY <1>2, LikeUint
<1> QED BY <1>1, <1>3 DEF Shl

-----------------------------------------------------------------------------
(* The word whose upper half is x.                                          *)
Top(x) == Uint32(x * TwoTo(Half))

LEMMA TopHolds ==
  ASSUME NEW x \in Int, IsSigned(x, Half)
  PROVE  /\ Upper(Top(x)) = x /\ SignedUpper(Top(x)) = x
         /\ Saturated(x) = x /\ Int16(x) = x
<1>1. PICK h \in Nat \ {0}, w \in Nat \ {0} : h = Half /\ w = StereoWordBits
  BY StereoSizes
<1>2. PICK H \in Nat \ {0}, G \in Nat \ {0} :
        H = TwoTo(h) /\ G = TwoTo(h - 1) /\ H = 2 * G /\ TwoTo(w) = H * H /\ TwoTo(w - 1) = G * H
  BY <1>1, StereoSizes
<1>3. x \in - G .. G - 1
  BY <1>1, <1>2 DEF IsSigned
<1>4. Int16(x) = x
  BY <1>1, SignedFits DEF Int16
<1>5. Saturated(x) = x
  BY <1>1, <1>2, <1>3 DEF Saturated
<1>6. PICK y \in Int : y = x * H
  OBVIOUS
<1>7. Like(Top(x), y)
  BY <1>1, <1>2, <1>6, LikeItself, LikeUint DEF Top
<1>8. Upper(Top(x)) = x
  <2>1. PICK t \in Int, k \in Int : t = Top(x) /\ t = y + k * (H * H)
    BY <1>1, <1>2, <1>7 DEF Like
  <2>2. k * H \in Int /\ t = (x + k * H) * H + 0
    <3>1. (x + k * H) * H = x * H + (k * H) * H /\ (k * H) * H = k * (H * H)
      OBVIOUS
    <3> QED BY <1>6, <2>1, <3>1
  <2>3. PICK q \in Int : q = x + k * H
    BY <2>2
  <2>4. 0 \in 0 .. H - 1 /\ (q * H + 0) \div H = q
    <3>1. 0 \in 0 .. H - 1
      OBVIOUS
    <3> QED BY <3>1, OneQuotient
  <2>5. t \div H = q
    BY <2>2, <2>3, <2>4
  <2>6. Signed(q, h) = Signed(x, h)
    BY <1>2, <2>3, SignedSame
  <2> QED BY <1>1, <1>2, <1>4, <2>1, <2>5, <2>6 DEF Upper, Int16
<1>9. SignedUpper(Top(x)) = x
  <2>1. y \in - (G * H) .. G * H - 1
    <3>1. x * H <= (G - 1) * H /\ x * H >= (- G) * H
      BY <1>3
    <3>2. (G - 1) * H = G * H - H /\ (- G) * H = - (G * H) /\ G * H \in Int
      OBVIOUS
    <3> QED BY <1>6, <3>1, <3>2
  <2>2. IsSigned(y, w)
    BY <1>2, <2>1 DEF IsSigned
  <2>3. SignedWord(Top(x)) = y
    BY <1>1, <1>7, <2>2, LikeSame, SignedFits DEF SignedWord
  <2>4. y \div H = x
    <3>1. 0 \in 0 .. H - 1 /\ y = x * H + 0
      BY <1>6
    <3> QED BY <3>1, OneQuotient
  <2> QED BY <1>1, <1>2, <2>3, <2>4 DEF SignedUpper
<1> QED BY <1>4, <1>5, <1>8, <1>9

-----------------------------------------------------------------------------
(* Every way to write a pair gives the two words.                           *)
IsPair(p) == p \in Int \X Int /\ IsSigned(p[1], Half) /\ IsSigned(p[2], Half)

LEMMA PairsAre ==
  ASSUME coded \in Pairs, NEW i \in 1 .. Len(coded.pcm)
  PROVE  coded.pcm[i] \in Int \X Int /\ IsPair(coded.pcm[i])
<1>1. /\ coded.pcm \in Seq(Int \X Int)
      /\ \A j \in 1 .. Len(coded.pcm) : \A k \in 1 .. 2 :
           IsSigned(coded.pcm[j][k], StereoWordBits \div 2)
  BY FlacStereoAssumption
<1>2. coded.pcm[i] \in Int \X Int
  <2>1. PICK pcm \in Seq(Int \X Int) : pcm = coded.pcm
    BY <1>1
  <2>2. pcm[i] \in Int \X Int
    BY <2>1
  <2> QED BY <2>1, <2>2
<1>3. 1 \in 1 .. 2 /\ 2 \in 1 .. 2
  OBVIOUS
<1> QED BY <1>1, <1>2, <1>3 DEF IsPair, Half

LEMMA CodedIs ==
  ASSUME coded \in Pairs
  PROVE  /\ coded.assignment \in {"left_side", "right_side", "mid_side", "independent"}
         /\ coded.wasted0 \in Nat /\ coded.wasted1 \in Nat /\ coded.pcm \in Seq(Int \X Int)
BY FlacStereoAssumption

(* Bits wasted on a channel are zero: shifted back up it is what it was.    *)
LEMMA Restored ==
  ASSUME NEW ch \in Int, NEW n \in Nat, ch % TwoTo(n) = 0, NEW k \in Nat
  PROVE  /\ ch \div TwoTo(n) \in Int
         /\ Like(Shl(ch \div TwoTo(n), k + n), ch * TwoTo(k))
         /\ Like(Shl(ch \div TwoTo(n), n), ch)
<1>1. PICK N \in Nat \ {0}, K \in Nat \ {0} : N = TwoTo(n) /\ K = TwoTo(k)
  BY TwoToPositive
<1>2. PICK a \in Int : a = ch \div N /\ ch = a * N
  <2>1. ch \div N \in Int /\ ch = (ch \div N) * N + (ch % N)
    BY Divides
  <2>2. PICK q \in Int : q = ch \div N
    BY <2>1
  <2>3. q * N \in Int /\ ch = q * N + 0
    BY <1>1, <2>1, <2>2
  <2>4. ch = q * N
    BY <2>3
  <2> QED BY <2>2, <2>4
<1>3. Like(a, a)
  BY LikeItself
<1>4. Like(Shl(a, k + n), a * TwoTo(k + n))
  BY <1>3, LikeShl
<1>5. a * TwoTo(k + n) = ch * K
  <2>1. TwoTo(k + n) = K * N
    BY <1>1, TwoToSum
  <2>2. a * (K * N) = (a * N) * K
    OBVIOUS
  <2> QED BY <1>2, <2>1, <2>2
<1>6. Like(Shl(a, n), a * TwoTo(n))
  BY <1>3, LikeShl
<1> QED BY <1>1, <1>2, <1>4, <1>5, <1>6

LEMMA ShiftedTop ==
  ASSUME NEW x, NEW y \in Int, Like(x, y * TwoTo(Half))
  PROVE  Uint32(x) = Top(y)
BY LikeSame DEF Top

LEMMA MidIs ==
  ASSUME coded.wasted0 \in Nat, coded.wasted1 \in Nat, NEW l \in Int, NEW r \in Int,
         NEW a \in Int, NEW b \in Int, Like(Shl(a, coded.wasted0), (l + r) \div 2),
         Like(Shl(b, coded.wasted1), l - r)
  PROVE  Like(Mid(a, b), l + r) /\ Like(Side(b), l - r)
<1>1. PICK N \in Nat \ {0}, G \in Nat : N = TwoTo(StereoWordBits) /\ N = 2 * G
  <2>1. PICK H \in Nat \ {0}, F \in Nat \ {0} :
          H = TwoTo(Half) /\ TwoTo(StereoWordBits) = H * H /\ H = 2 * F
    BY StereoSizes
  <2>2. H * H = 2 * (F * H) /\ F * H \in Nat /\ H * H \in Nat \ {0}
    <3>1. H * H = (2 * F) * H /\ (2 * F) * H = 2 * (F * H)
      BY <2>1
    <3>2. H * H > 0
      OBVIOUS
    <3> QED BY <3>1, <3>2
  <2> QED BY <2>1, <2>2
<1>2. PICK s \in Int, m \in Int : s = l - r /\ m = (l + r) \div 2
  OBVIOUS
<1>3. Like(Side(b), s)
  BY <1>2 DEF Side
<1>4. Side(b) % 2 = s % 2
  <2>1. PICK x \in Int, k \in Int : x = Side(b) /\ x = s + k * N
    BY <1>1, <1>3 DEF Like
  <2>2. k * N = (k * G) * 2 /\ k * G \in Int
    BY <1>1
  <2>3. (s + (k * G) * 2) % 2 = s % 2
    BY <2>2, ByMultiple
  <2> QED BY <2>1, <2>2, <2>3
<1>5. l + r = m * 2 + (s % 2) /\ s % 2 \in Int
  BY <1>2
<1>6. Like(Shl(Shl(a, coded.wasted0), 1), m * 2)
  <2>1. TwoTo(1) = 2
    <3>1. TwoTo(0 + 1) = 2 * TwoTo(0) /\ TwoTo(0) = 1
      BY TwoToDoubles
    <3> QED BY <3>1
  <2>2. Like(Shl(Shl(a, coded.wasted0), 1), m * TwoTo(1))
    BY <1>2, LikeShl
  <2> QED BY <2>1, <2>2
<1>7. Like(Side(b) % 2, s % 2)
  BY <1>4, <1>5, LikeItself
<1>8. Like(Shl(Shl(a, coded.wasted0), 1) + (Side(b) % 2), m * 2 + (s % 2))
  BY <1>6, <1>7, LikeBoth
<1>9. Like(Mid(a, b), m * 2 + (s % 2))
  BY <1>8, LikeUint DEF Mid
<1> QED BY <1>2, <1>3, <1>5, <1>9

LEMMA WordsAre ==
  ASSUME coded \in Pairs, Fits(coded), NEW i \in 1 .. Len(coded.pcm)
  PROVE  LET in == Input(i)
             p == coded.pcm[i]
         IN  /\ Words(in[1], in[2]) = <<Top(p[1]), Top(p[2])>>
             /\ ScalarTail(in[1], in[2]) = <<Top(p[1]), Top(p[2])>>
<1>1. PICK l \in Int, r \in Int :
        /\ l = coded.pcm[i][1] /\ r = coded.pcm[i][2] /\ IsSigned(l, Half) /\ IsSigned(r, Half)
  BY PairsAre DEF IsPair
<1>2. PICK c0 \in Int, c1 \in Int :
        /\ c0 = Channels(coded.assignment, coded.pcm[i])[1]
        /\ c1 = Channels(coded.assignment, coded.pcm[i])[2]
        /\ coded.assignment = "left_side" => c0 = l /\ c1 = l - r
        /\ coded.assignment = "right_side" => c0 = l - r /\ c1 = r
        /\ coded.assignment = "mid_side" => c0 = (l + r) \div 2 /\ c1 = l - r
        /\ coded.assignment = "independent" => c0 = l /\ c1 = r
  <2>1. l - r \in Int /\ (l + r) \div 2 \in Int
    OBVIOUS
  <2> QED BY <1>1, <2>1, CodedIs DEF Channels
<1>3. PICK u \in Nat, v \in Nat : u = coded.wasted0 /\ v = coded.wasted1
  BY CodedIs
<1>4. c0 % TwoTo(u) = 0 /\ c1 % TwoTo(v) = 0
  BY <1>2, <1>3 DEF Fits
<1>5. PICK a \in Int, b \in Int :
        a = c0 \div TwoTo(u) /\ b = c1 \div TwoTo(v) /\ a = Input(i)[1] /\ b = Input(i)[2]
  <2>1. c0 \div TwoTo(u) \in Int /\ c1 \div TwoTo(v) \in Int
    BY <1>4, Restored
  <2> QED BY <1>2, <1>3, <2>1 DEF Input
<1>6. PICK h \in Nat \ {0}, H \in Nat \ {0} : h = Half /\ H = TwoTo(h)
  BY StereoSizes
<1>7. Like(Shifted0(a), c0 * H) /\ Like(Shl(a, u), c0)
  BY <1>3, <1>4, <1>5, <1>6, Restored DEF Shifted0
<1>8. Like(Shifted1(b), c1 * H) /\ Like(Shl(b, v), c1)
  BY <1>3, <1>4, <1>5, <1>6, Restored DEF Shifted1
<1>9. /\ c0 * H \in Int /\ c1 * H \in Int
      /\ Shifted0(a) = Top(c0) /\ Shifted1(b) = Top(c1)
  <2>1. Shifted0(a) = Uint32(a * TwoTo(h + u)) /\ Shifted1(b) = Uint32(b * TwoTo(h + v))
    BY <1>3, <1>6 DEF Shifted0, Shifted1, Shl
  <2>2. TwoTo(h + u) = H * TwoTo(u) /\ TwoTo(h + v) = H * TwoTo(v)
    BY <1>6, TwoToSum
  <2>3. PICK U \in Nat \ {0}, V \in Nat \ {0} : U = TwoTo(u) /\ V = TwoTo(v)
    BY TwoToPositive
  <2>4. c0 = a * U /\ c1 = b * V
    <3>1. c0 = (c0 \div U) * U + (c0 % U) /\ c1 = (c1 \div V) * V + (c1 % V)
      BY Divides
    <3>2. a * U \in Int /\ b * V \in Int
      OBVIOUS
    <3> QED BY <1>4, <1>5, <2>3, <3>1, <3>2
  <2>5. a * (H * U) = (a * U) * H /\ b * (H * V) = (b * V) * H
    OBVIOUS
  <2>6. a * TwoTo(h + u) = c0 * H /\ b * TwoTo(h + v) = c1 * H
    BY <2>2, <2>3, <2>4, <2>5, Zenon
  <2>7. c0 * H \in Int /\ c1 * H \in Int
    OBVIOUS
  <2>8. Shifted0(a) = Uint32(c0 * H) /\ Shifted1(b) = Uint32(c1 * H)
    BY <2>1, <2>6, Zenon
  <2> QED BY <1>6, <2>7, <2>8 DEF Top
<1>10. CASE coded.assignment = "left_side"
  <2>1. c0 = l /\ c1 = l - r
    BY <1>2, <1>10
  <2>2. Like(Shifted0(a) - Shifted1(b), l * H - (l - r) * H)
    BY <1>7, <1>8, <2>1, LikeBoth
  <2>3. l * H - (l - r) * H = r * H
    OBVIOUS
  <2>4. Uint32(Shifted0(a) - Shifted1(b)) = Top(r)
    BY <1>6, <2>2, <2>3, ShiftedTop
  <2>5. decode_left_side(a, b) = <<Top(l), Top(r)>>
    BY <1>9, <2>1, <2>4 DEF decode_left_side
  <2> QED BY <1>1, <1>5, <1>10, <2>5 DEF Words, ScalarTail
<1>11. CASE coded.assignment = "right_side"
  <2>1. c0 = l - r /\ c1 = r
    BY <1>2, <1>11
  <2>2. Like(Shifted1(b) + Shifted0(a), r * H + (l - r) * H)
    BY <1>7, <1>8, <2>1, LikeBoth
  <2>3. r * H + (l - r) * H = l * H
    OBVIOUS
  <2>4. Uint32(Shifted1(b) + Shifted0(a)) = Top(l)
    BY <1>6, <2>2, <2>3, ShiftedTop
  <2>5. decode_right_side(a, b) = <<Top(l), Top(r)>>
    BY <1>9, <2>1, <2>4 DEF decode_right_side
  <2> QED BY <1>1, <1>5, <1>11, <2>5 DEF Words, ScalarTail
<1>12. CASE coded.assignment = "independent"
  <2>1. c0 = l /\ c1 = r
    BY <1>2, <1>12
  <2>2. decode_independent_stereo(a, b) = <<Top(l), Top(r)>>
    BY <1>9, <2>1 DEF decode_independent_stereo
  <2> QED BY <1>1, <1>5, <1>12, <2>2 DEF Words, ScalarTail
<1>13. CASE coded.assignment = "mid_side"
  <2>1. c0 = (l + r) \div 2 /\ c1 = l - r
    BY <1>2, <1>13
  <2>2. Like(Mid(a, b), l + r) /\ Like(Side(b), l - r)
    BY <1>3, <1>7, <1>8, <2>1, MidIs
  <2>3. Like(Mid(a, b) + Side(b), 2 * l) /\ Like(Mid(a, b) - Side(b), 2 * r)
    <3>1. (l + r) + (l - r) = 2 * l /\ (l + r) - (l - r) = 2 * r
      OBVIOUS
    <3>2. /\ Like(Mid(a, b) + Side(b), (l + r) + (l - r))
          /\ Like(Mid(a, b) - Side(b), (l + r) - (l - r))
      BY <2>2, LikeBoth
    <3> QED BY <3>1, <3>2
  <2>4. PICK g \in Nat, G \in Nat \ {0} : g = h - 1 /\ G = TwoTo(g) /\ H = 2 * G
    BY <1>6, StereoSizes
  <2>5. ASSUME NEW x, NEW y \in Int, IsSigned(y, Half), Like(x, 2 * y)
        PROVE  Shl(x, Half - 1) = Top(y) /\ Shl(SignedWord(x) \div 2, Half) = Top(y)
    <3>1. Like(x * G, (2 * y) * G) /\ (2 * y) * G = y * H
      BY <2>4, <2>5, LikeTimes
    <3>2. Shl(x, Half - 1) = Top(y)
      BY <1>6, <2>4, <3>1, ShiftedTop DEF Shl
    <3>3. SignedWord(x) = 2 * y
      <4>1. PICK w \in Nat \ {0} : w = StereoWordBits /\ TwoTo(w - 1) = G * H
        BY <1>6, <2>4, StereoSizes
      <4>2. y \in - G .. G - 1
        BY <1>6, <2>4, <2>5 DEF IsSigned
      <4>3. G * H >= H
        OBVIOUS
      <4>4. PICK D \in Nat : D = G * H /\ D >= 2 * G
        BY <2>4, <4>3
      <4>5. 2 * y \in - D .. D - 1
        BY <4>2, <4>4
      <4>6. IsSigned(2 * y, w)
        BY <4>1, <4>4, <4>5 DEF IsSigned
      <4>7. SignedWord(2 * y) = 2 * y
        <5>1. PICK z \in Int : z = 2 * y
          OBVIOUS
        <5> QED BY <4>1, <4>6, <5>1, SignedFits DEF SignedWord
      <4> QED BY <2>5, <4>7, LikeSame
    <3>4. (2 * y) \div 2 = y
      OBVIOUS
    <3> QED BY <1>6, <3>2, <3>3, <3>4 DEF Shl, Top
  <2>6. decode_mid_side(a, b) = <<Top(l), Top(r)>>
    BY <1>1, <2>3, <2>5 DEF decode_mid_side
  <2>7. decode_mid_side_tail(a, b) = <<Top(l), Top(r)>>
    BY <1>1, <2>3, <2>5 DEF decode_mid_side_tail
  <2> QED BY <1>1, <1>5, <1>13, <2>6, <2>7 DEF Words, ScalarTail
<1> QED BY <1>10, <1>11, <1>12, <1>13, CodedIs

-----------------------------------------------------------------------------
(* The pairs so far, left and right in turn.                                *)
PcmUpTo(n) ==
  [k \in 1 .. 2 * n |->
     IF k % 2 = 1 THEN coded.pcm[(k + 1) \div 2][1] ELSE coded.pcm[k \div 2][2]]

StereoInv ==
  /\ coded \in Pairs /\ Fits(coded)
  /\ \E n \in Nat : /\ n <= Len(coded.pcm)
                    /\ scalarpcm = PcmUpTo(n) /\ ssepcm = PcmUpTo(n) /\ neonpcm = PcmUpTo(n)

LEMMA UpToIs ==
  ASSUME coded \in Pairs, NEW n \in Nat, n <= Len(coded.pcm)
  PROVE  PcmUpTo(n) \in Seq(Int) /\ Len(PcmUpTo(n)) = 2 * n
<1>1. PICK m \in Nat : m = Len(coded.pcm)
  <2>1. PICK pcm \in Seq(Int \X Int) : pcm = coded.pcm
    BY CodedIs
  <2>2. Len(pcm) \in Nat
    OBVIOUS
  <2> QED BY <2>1, <2>2
<1>2. ASSUME NEW k \in 1 .. 2 * n
      PROVE  (IF k % 2 = 1 THEN coded.pcm[(k + 1) \div 2][1] ELSE coded.pcm[k \div 2][2]) \in Int
  <2>1. CASE k % 2 = 1
    <3>1. PICK i \in Nat : i = (k + 1) \div 2 /\ i \in 1 .. m
      BY <1>1, <2>1
    <3>2. coded.pcm[i] \in Int \X Int
      BY <1>1, <3>1, PairsAre
    <3> QED BY <2>1, <3>1, <3>2
  <2>2. CASE k % 2 # 1
    <3>1. PICK i \in Nat : i = k \div 2 /\ i \in 1 .. m
      BY <1>1, <2>2
    <3>2. coded.pcm[i] \in Int \X Int
      BY <1>1, <3>1, PairsAre
    <3> QED BY <2>2, <3>1, <3>2
  <2> QED BY <2>1, <2>2
<1>3. PICK l \in Nat : l = 2 * n
  OBVIOUS
<1>4. PcmUpTo(n) \in [1 .. l -> Int]
  BY <1>2, <1>3 DEF PcmUpTo
<1>5. PICK s \in [1 .. l -> Int] : s = PcmUpTo(n)
  BY <1>4
<1>6. s \in Seq(Int) /\ Len(s) = l
  OBVIOUS
<1> QED BY <1>3, <1>5, <1>6

LEMMA FourAreASequence ==
  ASSUME NEW f \in [1 .. 4 -> Int]
  PROVE  f \in Seq(Int) /\ Len(f) = 4
<1>1. PICK l \in Nat : l = 4
  OBVIOUS
<1>2. f \in [1 .. l -> Int]
  BY <1>1
<1>3. f \in Seq(Int) /\ Len(f) = l
  BY <1>2
<1> QED BY <1>1, <1>3

LEMMA PacksInterleave ==
  ASSUME NEW f \in [1 .. 4 -> Int], NEW g \in [1 .. 4 -> Int],
         \A i \in 1 .. 4 : Saturated(f[i]) = f[i] /\ Saturated(g[i]) = g[i]
  PROVE  /\ Interleaved(f, g) = <<f[1], g[1], f[2], g[2], f[3], g[3], f[4], g[4]>>
         /\ mm_packs_interleaved_epi32(f, g) = Interleaved(f, g)
<1>1. Interleaved(f, g) = <<f[1], g[1], f[2], g[2], f[3], g[3], f[4], g[4]>>
  <2>1. Len(f) = 4
    OBVIOUS
  <2>2. Interleaved(f, g) = [k \in 1 .. 8 |-> IF k % 2 = 1 THEN f[(k + 1) \div 2] ELSE g[k \div 2]]
    BY <2>1 DEF Interleaved
  <2> QED BY <2>2
<1>2. PICK r : r = [i \in 1 .. 8 |-> Saturated((f \o g)[i])]
  OBVIOUS
<1>3. /\ r[1] = f[1] /\ r[2] = f[2] /\ r[3] = f[3] /\ r[4] = f[4]
      /\ r[5] = g[1] /\ r[6] = g[2] /\ r[7] = g[3] /\ r[8] = g[4]
  <2>1. f \in Seq(Int) /\ g \in Seq(Int) /\ Len(f) = 4 /\ Len(g) = 4
    BY FourAreASequence
  <2>2. \A i \in 1 .. 8 : (f \o g)[i] = IF i <= 4 THEN f[i] ELSE g[i - 4]
    <3>1. \A i \in 1 .. Len(f) + Len(g) : (f \o g)[i] = IF i <= Len(f) THEN f[i] ELSE g[i - Len(f)]
      BY <2>1, ConcatProperties
    <3>2. 4 + 4 = 8
      OBVIOUS
    <3>3. \A i \in 1 .. 4 + 4 : (f \o g)[i] = IF i <= 4 THEN f[i] ELSE g[i - 4]
      BY <2>1, <3>1, Zenon
    <3> QED BY <3>2, <3>3, Zenon
  <2>3. \A i \in 1 .. 4 : r[i] = f[i]
    <3> TAKE i \in 1 .. 4
    <3>1. i \in 1 .. 8 /\ i <= 4
      OBVIOUS
    <3>2. (f \o g)[i] = f[i]
      BY <2>2, <3>1
    <3> QED BY <1>2, <3>1, <3>2
  <2>4. \A i \in 1 .. 4 : r[i + 4] = g[i]
    <3> TAKE i \in 1 .. 4
    <3>1. PICK j \in 1 .. 8 : j = i + 4 /\ ~ (j <= 4) /\ j - 4 = i
      OBVIOUS
    <3>2. (f \o g)[j] = g[i]
      BY <2>2, <3>1
    <3> QED BY <1>2, <3>1, <3>2
  <2> QED BY <2>3, <2>4
<1>4. PICK h : h = Picked(r, <<1, 2, 5, 6, 3, 4, 7, 8>>)
  OBVIOUS
<1>5. h = <<r[1], r[2], r[5], r[6], r[3], r[4], r[7], r[8]>>
  BY <1>4 DEF Picked
<1>6. Picked(h, <<1, 3, 2, 4, 5, 7, 6, 8>>) = <<h[1], h[3], h[2], h[4], h[5], h[7], h[6], h[8]>>
  BY DEF Picked
<1>7. mm_packs_interleaved_epi32(f, g) = Picked(h, <<1, 3, 2, 4, 5, 7, 6, 8>>)
  BY <1>2, <1>4 DEF mm_packs_interleaved_epi32
<1> QED BY <1>1, <1>3, <1>5, <1>6, <1>7

LEMMA OddIs ==
  ASSUME NEW i \in Int, i % 2 = 1
  PROVE  \E j \in Int : i = 2 * j - 1
<1>1. i = 2 * ((i + 1) \div 2) - 1
  OBVIOUS
<1> QED BY <1>1

LEMMA EvenIs ==
  ASSUME NEW i \in Int, i % 2 # 1
  PROVE  \E j \in Int : i = 2 * j
<1>1. i = 2 * (i \div 2)
  OBVIOUS
<1> QED BY <1>1

(* Four pairs, or the next one, put behind those so far.                    *)
LEMMA PutBehind ==
  ASSUME coded \in Pairs, NEW n \in Nat, NEW m \in Nat, n <= m, m <= Len(coded.pcm),
         NEW w \in Seq(Int), Len(w) = 2 * (m - n),
         \A j \in 1 .. m - n : /\ w[2 * j - 1] = coded.pcm[n + j][1]
                               /\ w[2 * j] = coded.pcm[n + j][2]
  PROVE  PcmUpTo(n) \o w = PcmUpTo(m)
<1>1. PICK p \in Nat : p = Len(coded.pcm) /\ n <= p /\ m <= p
  <2>1. PICK pcm \in Seq(Int \X Int) : pcm = coded.pcm
    BY CodedIs
  <2>2. Len(pcm) \in Nat
    OBVIOUS
  <2>3. PICK p \in Nat : p = Len(coded.pcm) /\ m <= p
    BY <2>1, <2>2
  <2>4. n <= p
    BY <2>3
  <2> QED BY <2>3, <2>4
<1>2. PICK s \in Seq(Int), t \in Seq(Int) :
        s = PcmUpTo(n) /\ t = PcmUpTo(m) /\ Len(s) = 2 * n /\ Len(t) = 2 * m
  BY <1>1, UpToIs
<1>3. \A i \in 1 .. 2 * n : t[i] = s[i]
  <2> TAKE i \in 1 .. 2 * n
  <2>1. i \in 1 .. 2 * m
    OBVIOUS
  <2> QED BY <1>2, <2>1 DEF PcmUpTo
<1>4. ASSUME NEW i \in 1 .. 2 * (m - n) PROVE t[2 * n + i] = w[i]
  <2>1. PICK k \in 1 .. 2 * m : k = 2 * n + i
    OBVIOUS
  <2>2. CASE i % 2 = 1
    <3>1. PICK j \in 1 .. m - n : i = 2 * j - 1 /\ k % 2 = 1 /\ (k + 1) \div 2 = n + j
      <4>0. i \in Int
        OBVIOUS
      <4>1. PICK j \in Int : i = 2 * j - 1
        BY <4>0, <2>2, OddIs
      <4>2. i = 2 * j - 1
        BY <4>1
      <4>3. 1 <= j /\ j <= m - n
        BY <4>2
      <4>4. PICK q \in Int : q = n + j /\ k = 2 * q - 1
        BY <2>1, <4>1, <4>2
      <4>5. k % 2 = 1 /\ (k + 1) \div 2 = q
        BY <4>4
      <4> QED BY <4>1, <4>2, <4>3, <4>4, <4>5
    <3>2. t[k] = coded.pcm[n + j][1]
      BY <1>2, <3>1 DEF PcmUpTo
    <3> QED BY <2>1, <3>1, <3>2
  <2>3. CASE i % 2 # 1
    <3>1. PICK j \in 1 .. m - n : i = 2 * j /\ k % 2 # 1 /\ k \div 2 = n + j
      <4>0. i \in Int
        OBVIOUS
      <4>1. PICK j \in Int : i = 2 * j
        BY <4>0, <2>3, EvenIs
      <4>2. i = 2 * j
        BY <4>1
      <4>3. 1 <= j /\ j <= m - n
        BY <4>2
      <4>4. PICK q \in Int : q = n + j /\ k = 2 * q
        BY <2>1, <4>1, <4>2
      <4>5. k % 2 = 0 /\ k \div 2 = q
        BY <4>4
      <4> QED BY <4>1, <4>2, <4>3, <4>4, <4>5
    <3>2. t[k] = coded.pcm[n + j][2]
      BY <1>2, <3>1 DEF PcmUpTo
    <3> QED BY <2>1, <3>1, <3>2
  <2> QED BY <2>2, <2>3
<1>5. Len(t) = Len(s) + Len(w)
  BY <1>2
<1>6. PICK a \in Nat, b \in Nat : a = 2 * n /\ b = 2 * (m - n) /\ Len(s) = a /\ Len(w) = b
  BY <1>2
<1>7. (\A i \in 1 .. Len(s) : t[i] = s[i]) /\ (\A i \in 1 .. Len(w) : t[Len(s) + i] = w[i])
  BY <1>3, <1>4, <1>6
<1>8. s \o w = t
  BY <1>5, <1>7, PutTogether
<1> QED BY <1>2, <1>8

LEMMA SameUpTo ==
  ASSUME coded' = coded
  PROVE  \A n : PcmUpTo(n)' = PcmUpTo(n)
BY DEF PcmUpTo

LEMMA StereoInvInit == FlacStereoInit => StereoInv
<1> SUFFICES ASSUME FlacStereoInit PROVE StereoInv
  OBVIOUS
<1>1. coded \in Pairs /\ Fits(coded) /\ scalarpcm = <<>> /\ ssepcm = <<>> /\ neonpcm = <<>>
  BY DEF FlacStereoInit
<1>2. PICK pcm \in Seq(Int \X Int) : pcm = coded.pcm
  BY <1>1, CodedIs
<1>3. 0 \in Nat /\ 0 <= Len(pcm)
  OBVIOUS
<1>4. PICK s \in Seq(Int) : s = PcmUpTo(0) /\ Len(s) = 2 * 0
  BY <1>1, <1>2, <1>3, UpToIs
<1>5. s = <<>>
  BY <1>4
<1> QED BY <1>1, <1>2, <1>3, <1>4, <1>5 DEF StereoInv

LEMMA StereoInvNext == StereoInv /\ [FlacStereoNext]_stereovars => StereoInv'
<1> SUFFICES ASSUME StereoInv, [FlacStereoNext]_stereovars PROVE StereoInv'
  OBVIOUS
<1>1. coded \in Pairs /\ Fits(coded)
  BY DEF StereoInv
<1>2. PICK n \in Nat : /\ n <= Len(coded.pcm)
                       /\ scalarpcm = PcmUpTo(n) /\ ssepcm = PcmUpTo(n) /\ neonpcm = PcmUpTo(n)
  BY DEF StereoInv
<1>3. PICK p \in Nat : p = Len(coded.pcm)
  <2>1. PICK pcm \in Seq(Int \X Int) : pcm = coded.pcm
    BY <1>1, CodedIs
  <2>2. Len(pcm) \in Nat
    OBVIOUS
  <2> QED BY <2>1, <2>2
<1>4. Done = n
  <2>1. Len(scalarpcm) = 2 * n
    BY <1>1, <1>2, UpToIs
  <2>2. (2 * n) \div 2 = n
    OBVIOUS
  <2> QED BY <2>1, <2>2 DEF Done
<1>5. ASSUME NEW m \in Nat, m <= p, coded' = coded, scalarpcm' = PcmUpTo(m),
             ssepcm' = PcmUpTo(m), neonpcm' = PcmUpTo(m)
      PROVE  StereoInv'
  <2>1. PcmUpTo(m)' = PcmUpTo(m)
    BY <1>5, SameUpTo
  <2>2. Fits(coded)'
    BY <1>1, <1>5 DEF Fits, Channels
  <2>3. coded' \in Pairs /\ m <= Len(coded'.pcm)
    BY <1>1, <1>3, <1>5
  <2>4. \E k \in Nat : /\ k <= Len(coded'.pcm) /\ scalarpcm' = PcmUpTo(k)'
                       /\ ssepcm' = PcmUpTo(k)' /\ neonpcm' = PcmUpTo(k)'
    BY <1>5, <2>1, <2>3
  <2> QED BY <2>2, <2>3, <2>4 DEF StereoInv
<1>6. CASE FourSamples
  <2>1. PICK m \in Nat : m = n + 4 /\ m <= p
    BY <1>3, <1>4, <1>6 DEF FourSamples
  <2>2. PICK f, g : /\ f = [i \in 1 .. 4 |-> coded.pcm[n + i][1]]
                    /\ g = [i \in 1 .. 4 |-> coded.pcm[n + i][2]]
    OBVIOUS
  <2>3. ASSUME NEW i \in 1 .. 4
        PROVE  /\ Next4[i] = <<Top(f[i]), Top(g[i])>>
               /\ f[i] \in Int /\ g[i] \in Int /\ IsSigned(f[i], Half) /\ IsSigned(g[i], Half)
    <3>1. PICK j \in 1 .. p : j = n + i
      BY <2>1
    <3>2. coded.pcm[j] \in Int \X Int /\ IsPair(coded.pcm[j])
      BY <1>1, <1>3, PairsAre
    <3>3. f[i] = coded.pcm[j][1] /\ g[i] = coded.pcm[j][2]
      BY <2>2, <3>1
    <3>4. Words(Input(j)[1], Input(j)[2]) = <<Top(f[i]), Top(g[i])>>
      BY <1>1, <1>3, <3>3, WordsAre
    <3>5. Next4[i] = Words(Input(j)[1], Input(j)[2])
      BY <1>4, <3>1 DEF Next4
    <3> QED BY <3>2, <3>3, <3>4, <3>5 DEF IsPair
  <2>4. f \in [1 .. 4 -> Int] /\ g \in [1 .. 4 -> Int]
    BY <2>2, <2>3
  <2>5. ASSUME NEW i \in 1 .. 4
        PROVE  /\ Upper(Next4[i][1]) = f[i] /\ Upper(Next4[i][2]) = g[i]
               /\ SignedUpper(Next4[i][1]) = f[i] /\ SignedUpper(Next4[i][2]) = g[i]
               /\ NeonUpper(Next4[i][1]) = f[i] /\ NeonUpper(Next4[i][2]) = g[i]
               /\ Saturated(f[i]) = f[i] /\ Saturated(g[i]) = g[i]
    <3>1. Next4[i][1] = Top(f[i]) /\ Next4[i][2] = Top(g[i])
      BY <2>3
    <3> QED BY <2>3, <3>1, TopHolds DEF NeonUpper
  <2>6. /\ [i \in 1 .. 4 |-> Upper(Next4[i][1])] = f /\ [i \in 1 .. 4 |-> Upper(Next4[i][2])] = g
        /\ [i \in 1 .. 4 |-> SignedUpper(Next4[i][1])] = f
        /\ [i \in 1 .. 4 |-> SignedUpper(Next4[i][2])] = g
        /\ [i \in 1 .. 4 |-> NeonUpper(Next4[i][1])] = f
        /\ [i \in 1 .. 4 |-> NeonUpper(Next4[i][2])] = g
    BY <2>4, <2>5
  <2>7. PICK w : w = <<f[1], g[1], f[2], g[2], f[3], g[3], f[4], g[4]>>
    OBVIOUS
  <2>8. Interleaved(f, g) = w /\ mm_packs_interleaved_epi32(f, g) = w
    BY <2>4, <2>5, <2>7, PacksInterleave
  <2>9. /\ scalarpcm' = scalarpcm \o w /\ ssepcm' = ssepcm \o w /\ neonpcm' = neonpcm \o w
        /\ coded' = coded
    BY <1>6, <2>6, <2>8 DEF FourSamples
  <2>10. PcmUpTo(n) \o w = PcmUpTo(m)
    <3>1. w \in Seq(Int) /\ Len(w) = 8
      BY <2>3, <2>7
    <3>2. m - n = 4 /\ n <= m
      BY <2>1
    <3>3. \A j \in 1 .. 4 : w[2 * j - 1] = f[j] /\ w[2 * j] = g[j]
      BY <2>7
    <3>4. \A j \in 1 .. 4 : f[j] = coded.pcm[n + j][1] /\ g[j] = coded.pcm[n + j][2]
      BY <2>2
    <3>5. \A j \in 1 .. m - n : /\ w[2 * j - 1] = coded.pcm[n + j][1]
                               /\ w[2 * j] = coded.pcm[n + j][2]
      BY <3>2, <3>3, <3>4
    <3>6. Len(w) = 2 * (m - n) /\ m <= Len(coded.pcm)
      BY <1>3, <2>1, <3>1, <3>2
    <3> QED BY <1>1, <3>1, <3>2, <3>5, <3>6, PutBehind
  <2> QED BY <1>2, <1>5, <2>1, <2>9, <2>10
<1>7. CASE LastSample
  <2>1. PICK m \in 1 .. p : m = n + 1
    BY <1>3, <1>4, <1>7 DEF LastSample
  <2>2. PICK l, r : l = coded.pcm[m][1] /\ r = coded.pcm[m][2]
    OBVIOUS
  <2>3. l \in Int /\ r \in Int /\ IsSigned(l, Half) /\ IsSigned(r, Half)
    BY <1>1, <1>3, <2>2, PairsAre DEF IsPair
  <2>4. /\ Words(Input(m)[1], Input(m)[2]) = <<Top(l), Top(r)>>
        /\ ScalarTail(Input(m)[1], Input(m)[2]) = <<Top(l), Top(r)>>
    BY <1>1, <1>3, <2>2, WordsAre
  <2>5. Upper(Top(l)) = l /\ Upper(Top(r)) = r
    BY <2>3, TopHolds
  <2>6. PICK w : w = <<l, r>>
    OBVIOUS
  <2>7. /\ scalarpcm' = scalarpcm \o w /\ ssepcm' = ssepcm \o w /\ neonpcm' = neonpcm \o w
        /\ coded' = coded
    <3>1. Done + 1 = m
      BY <1>4, <2>1
    <3>2. PICK x, y : /\ x = ScalarTail(Input(m)[1], Input(m)[2])
                      /\ y = Words(Input(m)[1], Input(m)[2])
      OBVIOUS
    <3>3. /\ scalarpcm' = scalarpcm \o <<Upper(x[1]), Upper(x[2])>>
          /\ ssepcm' = ssepcm \o <<Upper(y[1]), Upper(y[2])>>
          /\ neonpcm' = neonpcm \o <<Upper(y[1]), Upper(y[2])>> /\ coded' = coded
      BY <1>7, <3>1, <3>2 DEF LastSample
    <3>4. x = <<Top(l), Top(r)>> /\ y = <<Top(l), Top(r)>>
      BY <2>4, <3>2
    <3>5. Upper(x[1]) = l /\ Upper(x[2]) = r /\ Upper(y[1]) = l /\ Upper(y[2]) = r
      BY <2>5, <3>4
    <3> QED BY <2>6, <3>3, <3>5
  <2>8. PcmUpTo(n) \o w = PcmUpTo(m)
    <3>1. w \in Seq(Int) /\ Len(w) = 2
      BY <2>3, <2>6
    <3>2. m - n = 1 /\ n <= m /\ m \in Nat
      BY <2>1
    <3>3. w[1] = coded.pcm[n + 1][1] /\ w[2] = coded.pcm[n + 1][2]
      BY <2>1, <2>2, <2>6
    <3>4. ASSUME NEW j \in 1 .. m - n
          PROVE  w[2 * j - 1] = coded.pcm[n + j][1] /\ w[2 * j] = coded.pcm[n + j][2]
      <4>1. j = 1 /\ 2 * j - 1 = 1 /\ 2 * j = 2
        BY <3>2
      <4> QED BY <3>3, <4>1
    <3>5. Len(w) = 2 * (m - n) /\ m <= Len(coded.pcm)
      BY <1>3, <2>1, <3>1, <3>2
    <3> QED BY <1>1, <3>1, <3>2, <3>4, <3>5, PutBehind
  <2>9. m \in Nat /\ m <= p
    BY <2>1
  <2> QED BY <1>2, <1>5, <2>7, <2>8, <2>9
<1>8. CASE UNCHANGED stereovars
  <2>1. /\ coded' = coded /\ scalarpcm' = scalarpcm /\ ssepcm' = ssepcm /\ neonpcm' = neonpcm
    BY <1>8 DEF stereovars
  <2> QED BY <1>2, <1>3, <1>5, <2>1
<1> QED BY <1>6, <1>7, <1>8 DEF FlacStereoNext

LEMMA StereoInvMeans == StereoInv => StereoIsLossless
<1> SUFFICES ASSUME StereoInv PROVE StereoIsLossless
  OBVIOUS
<1>1. coded \in Pairs
  BY DEF StereoInv
<1>2. PICK n \in Nat : /\ n <= Len(coded.pcm)
                       /\ scalarpcm = PcmUpTo(n) /\ ssepcm = PcmUpTo(n) /\ neonpcm = PcmUpTo(n)
  BY DEF StereoInv
<1>3. PICK pcm \in Seq(Int \X Int) : pcm = coded.pcm
  BY <1>1, CodedIs
<1>4. PICK p \in Nat : p = Len(pcm)
  OBVIOUS
<1>5. PICK all : all = Interleaved([i \in 1 .. p |-> pcm[i][1]], [i \in 1 .. p |-> pcm[i][2]])
  OBVIOUS
<1>6. all = PcmUpTo(p)
  <2>1. Len([i \in 1 .. p |-> pcm[i][1]]) = p
    OBVIOUS
  <2>2. ASSUME NEW k \in 1 .. 2 * p
        PROVE  all[k] = IF k % 2 = 1 THEN pcm[(k + 1) \div 2][1] ELSE pcm[k \div 2][2]
    <3>1. CASE k % 2 = 1
      <4>1. (k + 1) \div 2 \in 1 .. p
        BY <3>1
      <4> QED BY <1>5, <2>1, <3>1, <4>1 DEF Interleaved
    <3>2. CASE k % 2 # 1
      <4>1. k \div 2 \in 1 .. p
        BY <3>2
      <4> QED BY <1>5, <2>1, <3>2, <4>1 DEF Interleaved
    <3> QED BY <3>1, <3>2
  <2>3. all = [k \in 1 .. 2 * p |-> all[k]]
    BY <1>5, <2>1 DEF Interleaved
  <2> QED BY <1>3, <2>2, <2>3 DEF PcmUpTo
<1>7. PICK s \in Seq(Int), t \in Seq(Int) :
        s = PcmUpTo(n) /\ t = PcmUpTo(p) /\ Len(s) = 2 * n /\ Len(t) = 2 * p
  BY <1>1, <1>2, <1>3, <1>4, UpToIs
<1>8. SubSeq(t, 1, Len(s)) = s
  <2>1. n <= p
    BY <1>2, <1>3, <1>4
  <2>2. \A k \in 1 .. 2 * n : t[k] = s[k]
    <3> TAKE k \in 1 .. 2 * n
    <3>1. k \in 1 .. 2 * p
      BY <2>1
    <3> QED BY <1>7, <3>1 DEF PcmUpTo
  <2>3. PICK x \in Nat : x = 2 * n /\ x <= 2 * p
    BY <2>1
  <2>4. /\ SubSeq(t, 1, x) \in Seq(Int) /\ Len(SubSeq(t, 1, x)) = x
        /\ \A k \in 1 .. x : SubSeq(t, 1, x)[k] = t[k]
    BY <1>7, <2>3, SMTT(30)
  <2>5. SubSeq(t, 1, x) = s
    BY <1>7, <2>2, <2>3, <2>4, SeqEqual
  <2> QED BY <1>7, <2>3, <2>5
<1> QED BY <1>2, <1>3, <1>4, <1>5, <1>6, <1>7, <1>8 DEF StereoIsLossless

(* Left and right come back as they were coded, with any bits wasted, in    *)
(* the scalar loop and in both vector units, in fours and in the last few.  *)
THEOREM StereoHolds == FlacStereoSpec => []StereoIsLossless
<1>1. FlacStereoInit => StereoInv
  BY StereoInvInit
<1>2. StereoInv /\ [FlacStereoNext]_stereovars => StereoInv'
  BY StereoInvNext
<1>3. StereoInv => StereoIsLossless
  BY StereoInvMeans
<1> QED BY <1>1, <1>2, <1>3, PTL DEF FlacStereoSpec

(* Both, which is what the run over the codecs checks.                      *)
THEOREM ArithmeticHolds == FlacPredictSpec /\ FlacStereoSpec => []ArithmeticIsExact
<1>1. PredictionIsExact /\ StereoIsLossless => ArithmeticIsExact
  BY DEF PredictionIsExact, ArithmeticIsExact
<1> QED BY <1>1, PredictionHolds, StereoHolds, PTL
================================================================================
