------------------------------ MODULE BitsProofs ------------------------------
(***************************************************************************)
(* The bits of the compressed map, first under a rolling window, then in   *)
(* the accumulator, then as Huffman codes.                                 *)
(*                                                                         *)
(* First part (BuildStream): what the window guarantees for every chunk,   *)
(* every margin and every blob.                                            *)
(*                                                                         *)
(* Second part (BitReader): what a field read through the accumulator is,  *)
(* for every tape, every width of a byte and of the accumulator and every  *)
(* sequence of reads, seeks and flushes: the bits of the tape from the     *)
(* position on, and zeros where the accumulator had no room for them.      *)
(*                                                                         *)
(* Third part (HuffmanTables, HuffmanImport): which trees an import takes, *)
(* and what a window is decoded to, for every number of codes, every       *)
(* length of the longest code and of the first level, and every tree.      *)
(***************************************************************************)
EXTENDS BuildStream, BitReader, HuffmanImport, FiniteSetTheorems, TLAPS

(* A hunk is only decoded where its fields are in the window or the end of *)
(* the blob is near: what v5_build_stream_ensure() leaves behind it.       *)
Ensured == phase = "decode" => EnoughAhead \/ NearTheEnd

(* Nothing is taken ahead of the position.                                 *)
TakenBehind == taken.to <= position_bits

IInv == TypeOK /\ Ensured /\ TakenBehind /\ OnlyTheTailIsMadeUp

-----------------------------------------------------------------------------
(* A refill stays inside the blob and inside the chunk.                    *)
LEMMA FillBounds ==
  ASSUME mapbytes \in Nat, NEW off \in Nat
  PROVE  /\ Fill(off) \in Nat /\ Fill(off) <= Chunk
         /\ Fill(off) > 0 => off + Fill(off) <= mapbytes
  BY StreamAssumption DEF Fill, StreamAssumption

(* A bit position is its whole bytes and the bits of the last one.         *)
LEMMA ByteAndBit ==
  ASSUME NEW p \in Nat
  PROVE  /\ p \div 8 \in Nat
         /\ p % 8 \in 0 .. 7
         /\ p = 8 * (p \div 8) + (p % 8)
  OBVIOUS

LEMMA InitIInv == Init => IInv
  <1> SUFFICES ASSUME Init PROVE IInv
    OBVIOUS
  <1> USE StreamAssumption DEF StreamAssumption
  <1>1. mapbytes \in Nat
    BY DEF Init
  <1>2. \A start \in Nat : start \div 8 \in Nat /\ start % 8 \in Nat
    BY ByteAndBit
  <1>3. window_off \in Nat /\ at \in Nat
    <2>1. CASE AfterTheTree
      BY <2>1 DEF AfterTheTree
    <2>2. CASE AtPosition
      BY <1>2, <2>2 DEF AtPosition
    <2> QED
      BY <2>1, <2>2 DEF Init
  <1>5. /\ buf_valid \in Nat /\ buf_valid <= Chunk
        /\ buf_valid > 0 => window_off + buf_valid <= mapbytes
    BY <1>1, <1>3, FillBounds DEF Init
  <1>6. TypeOK
    BY <1>1, <1>3, <1>5 DEF Init, TypeOK, Nothing
  <1>7. Ensured
    BY DEF Init, Ensured
  <1>8. OnlyTheTailIsMadeUp
    BY <1>3, <1>5 DEF Init, OnlyTheTailIsMadeUp, Nothing, WindowEnd
  <1>9. TakenBehind
    BY <1>3 DEF Init, TakenBehind, Nothing, position_bits
  <1> QED
    BY <1>6, <1>7, <1>8, <1>9 DEF IInv

(* The refill keeps the position, so it keeps the bits taken behind it.    *)
LEMMA RefillKeepsPosition ==
  ASSUME TypeOK, Refill
  PROVE  position_bits' = position_bits
  <1>1. at \in Nat /\ window_off \in Nat
    BY DEF TypeOK
  <1>2. at = 8 * (at \div 8) + (at % 8) /\ at \div 8 \in Nat /\ at % 8 \in 0 .. 7
    BY <1>1, ByteAndBit
  <1>3. window_off' = window_off + at \div 8 /\ at' = at % 8
    BY DEF Refill, global_byte, local_byte, Skipped
  <1> QED
    BY <1>1, <1>2, <1>3 DEF position_bits

LEMMA StepIInv == IInv /\ [Next]_vars => IInv'
  <1> SUFFICES ASSUME IInv, [Next]_vars PROVE IInv'
    OBVIOUS
  <1> USE StreamAssumption DEF StreamAssumption
  <1>t. /\ TypeOK /\ Ensured /\ TakenBehind /\ OnlyTheTailIsMadeUp
        /\ mapbytes \in Nat /\ window_off \in Nat
        /\ buf_valid \in Nat /\ at \in Nat
        /\ taken \in [from : Nat, to : Nat]
        /\ position_bits \in Nat
        /\ buf_valid <= Chunk /\ (buf_valid > 0 => window_off + buf_valid <= mapbytes)
    BY DEF IInv, TypeOK, position_bits
  <1>b. at = 8 * (at \div 8) + (at % 8) /\ at \div 8 \in Nat /\ at % 8 \in 0 .. 7
    BY <1>t, ByteAndBit
  <1>s. ASSUME UNCHANGED <<mapbytes, window_off, buf_valid, at, taken>>,
               phase' \in {"ensure", "decode", "failed"},
               Ensured'
        PROVE  IInv'
    <2>1. TypeOK'
      BY <1>s, <1>t DEF TypeOK, position_bits
    <2>2. OnlyTheTailIsMadeUp'
      BY <1>s, <1>t DEF OnlyTheTailIsMadeUp, WindowEnd
    <2>3. TakenBehind'
      BY <1>s, <1>t DEF TakenBehind, position_bits
    <2> QED
      BY <2>1, <2>2, <2>3, <1>s DEF IInv
  <1>1. CASE NoRefill
    BY <1>1, <1>s DEF NoRefill, Ensured, EnoughAhead, NearTheEnd, local_byte, global_byte
  <1>2. CASE Refill
    <2>1. /\ window_off' = global_byte /\ buf_valid' = Fill(global_byte)
          /\ at' = at % 8 /\ phase' = "decode"
          /\ mapbytes' = mapbytes /\ taken' = taken
      BY <1>2 DEF Refill, Skipped
    <2>2. global_byte \in Nat /\ global_byte = window_off + at \div 8
      BY <1>t, <1>b DEF global_byte, local_byte
    <2>3. global_byte + Margin < mapbytes
      BY <1>2, <1>t, <2>2 DEF Refill, NearTheEnd
    <2>4. position_bits' = position_bits
      BY <1>2, <1>t, RefillKeepsPosition
    <2>5. /\ Fill(global_byte) \in Nat /\ Fill(global_byte) <= Chunk
          /\ Fill(global_byte) > 0 => global_byte + Fill(global_byte) <= mapbytes
      BY <1>t, <2>2, <2>3, FillBounds
    <2>6. Fill(global_byte) >= Margin
      BY <2>2, <2>3, <1>t DEF Fill
    <2>7. TypeOK'
      BY <2>1, <2>2, <2>4, <2>5, <1>b, <1>t DEF TypeOK
    <2>8. Ensured'
      <3>1. local_byte' = 0
        <4>1. \A bit \in 0 .. 7 : bit \div 8 = 0
          OBVIOUS
        <4> QED
          BY <4>1, <2>1, <1>b DEF local_byte
      <3> QED
        BY <3>1, <2>1, <2>5, <2>6 DEF Ensured, EnoughAhead
    <2>9. TakenBehind'
      BY <2>1, <2>4, <1>t DEF TakenBehind
    <2>10. OnlyTheTailIsMadeUp'
      <3>1. taken.to <= position_bits
        BY <1>t DEF TakenBehind
      <3>2. position_bits = 8 * global_byte + (at % 8)
        BY <1>t, <1>b, <2>2 DEF position_bits
      <3>3. position_bits <= 8 * (global_byte + Fill(global_byte))
        BY <3>2, <1>b, <2>2, <2>5, <2>6
      <3>4. taken.to <= WindowEnd'
        BY <3>1, <3>3, <2>1, <2>2, <2>5, <1>t DEF WindowEnd
      <3> QED
        BY <3>4, <2>1 DEF OnlyTheTailIsMadeUp
    <2> QED
      BY <2>7, <2>8, <2>9, <2>10 DEF IInv
  <1>3. CASE RefillFails
    BY <1>3, <1>s DEF RefillFails, Ensured
  <1>4. ASSUME phase = "decode", NEW n \in 0 .. MaxField, Take(n)
        PROVE  IInv'
    <2>1. /\ at' = at + n /\ phase' = "ensure"
          /\ taken' = [from |-> position_bits, to |-> position_bits + n]
          /\ mapbytes' = mapbytes /\ window_off' = window_off
          /\ buf_valid' = buf_valid
      BY <1>4 DEF Take
    <2>2. position_bits' = position_bits + n /\ n \in Nat
      BY <2>1, <1>t DEF position_bits
    <2>3. TypeOK'
      BY <2>1, <2>2, <1>t DEF TypeOK
    <2>4. Ensured'
      BY <2>1 DEF Ensured
    <2>5. TakenBehind'
      BY <2>1, <2>2, <1>t DEF TakenBehind
    <2>6. OnlyTheTailIsMadeUp'
      <3>1. WindowEnd' = WindowEnd
        BY <2>1 DEF WindowEnd
      <3>2. position_bits = 8 * global_byte + (at % 8) /\ global_byte \in Nat
        BY <1>t, <1>b DEF position_bits, global_byte, local_byte
      <3>3. CASE EnoughAhead
        <4>1. window_off + buf_valid >= global_byte + Margin
          BY <3>3, <1>t, <1>b DEF EnoughAhead, local_byte, global_byte
        <4>2. position_bits + n <= 8 * (global_byte + Margin)
          BY <3>2, <1>b, FieldsFitMargin DEF FieldsFitMargin
        <4>3. position_bits + n <= WindowEnd
          BY <4>1, <4>2, <3>2, <2>2, <1>t DEF WindowEnd
        <4> QED
          BY <4>3, <3>1, <2>1 DEF OnlyTheTailIsMadeUp
      <3>4. CASE NearTheEnd
        <4>1. position_bits + 8 * Margin >= 8 * mapbytes
          BY <3>2, <3>4, <1>b, <1>t DEF NearTheEnd
        <4> QED
          BY <4>1, <2>1 DEF OnlyTheTailIsMadeUp
      <3> QED
        BY <3>3, <3>4, <1>4, <1>t DEF Ensured
    <2> QED
      BY <2>3, <2>4, <2>5, <2>6 DEF IInv
  <1>5. CASE DecodePass1
    <2>1. PICK n \in 1 .. MaxField : Take(n)
      BY <1>5 DEF DecodePass1
    <2>2. phase = "decode" /\ n \in 0 .. MaxField
      BY <1>5 DEF DecodePass1
    <2> QED
      BY <2>1, <2>2, <1>4
  <1>6. CASE DecodePass2
    BY <1>6, <1>4 DEF DecodePass2
  <1>7. CASE Refuse
    BY <1>7, <1>s DEF Refuse, Ensured
  <1>8. CASE UNCHANGED vars
    <2>1. UNCHANGED <<mapbytes, window_off, buf_valid, at, taken>> /\ phase' = phase
      BY <1>8 DEF vars
    <2>2. phase' \in {"ensure", "decode", "failed"}
      BY <2>1, <1>t DEF TypeOK
    <2>3. Ensured'
      BY <2>1, <1>t DEF Ensured, EnoughAhead, NearTheEnd, local_byte, global_byte
    <2> QED
      BY <2>1, <2>2, <2>3, <1>s
  <1> QED
    BY <1>1, <1>2, <1>3, <1>5, <1>6, <1>7, <1>8 DEF Next, Done

LEMMA Invariance == Spec => []IInv
  BY InitIInv, StepIInv, PTL DEF Spec

-----------------------------------------------------------------------------
(* The window stays inside the blob and the chunk, and bits are made up     *)
(* only for a hunk that starts within Margin bytes of the end of the blob   *)
(* or past it: for every map, well-formed or not, and however far past its  *)
(* end it is read.                                                          *)
THEOREM MadeUpBitsAreTail == Spec => []BitsAreTheBlobs
  <1>1. IInv => BitsAreTheBlobs
    BY DEF IInv, BitsAreTheBlobs
  <1> QED
    BY Invariance, <1>1, PTL

(* A refill, wherever in a byte it happens, loses and repeats no bit.      *)
THEOREM PositionIsExact == Spec => NoBitSkippedOrRepeated
  <1> DEFINE Exact == /\ taken' # taken => taken'.from = position_bits
                      /\ taken' = taken => position_bits' = position_bits
  <1>1. IInv /\ [Next]_vars => [Exact]_vars
    <2> SUFFICES ASSUME IInv, Next PROVE Exact
      OBVIOUS
    <2>t. TypeOK /\ TakenBehind
      BY DEF IInv
    <2>1. CASE NoRefill \/ RefillFails \/ Refuse \/ Done
      BY <2>1 DEF NoRefill, RefillFails, Refuse, Done, vars, position_bits
    <2>2. CASE Refill
      BY <2>2, <2>t, RefillKeepsPosition DEF Refill
    <2>3. ASSUME NEW n \in 0 .. MaxField, Take(n) PROVE Exact
      <3>1. /\ taken' = [from |-> position_bits, to |-> position_bits + n]
            /\ at' = at + n /\ window_off' = window_off
        BY <2>3 DEF Take
      <3>2. at \in Nat /\ window_off \in Nat /\ n \in Nat /\ taken \in [from : Nat, to : Nat]
        BY <2>t, StreamAssumption DEF TypeOK, StreamAssumption
      <3>3. taken'.from = position_bits
        BY <3>1
      <3>4. taken' = taken => n = 0
        BY <3>1, <3>2, <2>t DEF TakenBehind, position_bits
      <3> QED
        BY <3>1, <3>2, <3>3, <3>4 DEF position_bits
    <2> QED
      BY <2>1, <2>2, <2>3 DEF Next, DecodePass1, DecodePass2
  <1> QED
    BY Invariance, <1>1, PTL DEF Spec, NoBitSkippedOrRepeated

-----------------------------------------------------------------------------
(* Second part: the reader. First what the proofs need of sets of numbers, *)
(* of recursive functions and of powers of two.                            *)

(* A nonempty set of naturals has a least element.                          *)
LEMMA LeastNumber ==
  ASSUME NEW T \in SUBSET Nat, T # {}
  PROVE  \E n \in T : \A m \in T : n <= m
<1> DEFINE Below(n) == 0 .. (n - 1)
           U == {Below(n) : n \in T}
<1>1. U \subseteq FiniteSubsetsOf(Nat) /\ U # {}
  <2>1. \A n \in T : IsFiniteSet(Below(n)) /\ Below(n) \subseteq Nat
    BY FS_Interval
  <2> QED BY <2>1, Zenon DEF FiniteSubsetsOf
<1>2. PICK x \in U : \A y \in U : <<y, x>> \notin StrictSubsetOrdering(Nat)
  <2> HIDE DEF U
  <2> QED BY <1>1, FS_StrictSubsetOrderingWellFounded, WFMin, Zenon
<1>3. PICK n \in T : x = Below(n)
  OBVIOUS
<1>4. ASSUME NEW m \in T, m < n PROVE FALSE
  <2>1. Below(m) \in U
    OBVIOUS
  <2>2. Below(m) \subseteq x /\ Below(m) # x
    BY <1>3, <1>4
  <2>3. <<Below(m), x>> \in StrictSubsetOrdering(Nat)
    BY <2>2, <1>3 DEF StrictSubsetOrdering
  <2> QED BY <2>1, <2>3, <1>2
<1> QED BY <1>4

(* What holds at the start and is kept by every step holds all along: the   *)
(* places where it holds are given as a set.                                *)
LEMMA AllAlong ==
  ASSUME NEW n \in Nat, NEW good, 0 \in good,
         \A k \in 1 .. n : k - 1 \in good => k \in good
  PROVE  \A k \in 0 .. n : k \in good
<1> DEFINE T == {k \in 0 .. n : k \notin good}
<1>1. ASSUME NEW k \in T, \A m \in T : k <= m PROVE FALSE
  <2>1. k \in 1 .. n
    OBVIOUS
  <2>2. k - 1 \in 0 .. n /\ k - 1 \notin T
    <3> HIDE DEF T
    <3> QED BY <1>1, <2>1
  <2> QED BY <2>1, <2>2
<1>2. T = {}
  <2>1. T \in SUBSET Nat
    OBVIOUS
  <2> HIDE DEF T
  <2> QED BY <1>1, <2>1, LeastNumber
<1> QED BY <1>2

-----------------------------------------------------------------------------
(* A recursive function over numbers exists: the least number up to which   *)
(* it does not would have a predecessor.                                    *)
StepFunctions(n, S) == [(1 .. n) \X S -> S]
Runs(n, S, c, F, f) ==
  f \in [0 .. n -> S] /\ f[0] = c /\ \A i \in 1 .. n : f[i] = F[<<i, f[i - 1]>>]

LEMMA RunExists ==
  ASSUME NEW n \in Nat, NEW S, NEW c \in S, NEW F \in StepFunctions(n, S)
  PROVE  \E f : Runs(n, S, c, F, f)
<1> USE DEF StepFunctions
<1> DEFINE Upto(k, f) == f \in [0 .. k -> S] /\ f[0] = c /\ \A i \in 1 .. k : f[i] = F[<<i, f[i - 1]>>]
           T == {k \in 0 .. n : \A f : ~ Upto(k, f)}
<1>1. ASSUME NEW k \in T, \A m \in T : k <= m PROVE FALSE
  <2>1. k \in 0 .. n /\ \A f : ~ Upto(k, f)
    OBVIOUS
  <2>2. Upto(0, [i \in 0 .. 0 |-> c])
    OBVIOUS
  <2>3. k - 1 \in 0 .. n /\ k - 1 \notin T
    <3>1. k # 0
      BY <2>1, <2>2
    <3> HIDE DEF T
    <3> QED BY <1>1, <2>1, <3>1
  <2>4. PICK f : Upto(k - 1, f)
    BY <2>3
  <2> DEFINE g == [i \in 0 .. k |-> IF i < k THEN f[i] ELSE F[<<k, f[k - 1]>>]]
  <2>5. Upto(k, g)
    <3>1. f[k - 1] \in S /\ <<k, f[k - 1]>> \in (1 .. n) \X S
      BY <2>1, <2>3, <2>4
    <3>2. g \in [0 .. k -> S] /\ g[0] = c
      BY <2>1, <2>3, <2>4, <3>1
    <3>3. ASSUME NEW i \in 1 .. k PROVE g[i] = F[<<i, g[i - 1]>>]
      <4>1. CASE i = k
        <5>1. g[k] = F[<<k, f[k - 1]>>] /\ g[k - 1] = f[k - 1]
          BY <2>1, <2>3
        <5> QED BY <4>1, <5>1
      <4>2. CASE i # k
        <5>1. i \in 1 .. k - 1 /\ g[i] = f[i] /\ g[i - 1] = f[i - 1]
          BY <4>2, <2>1, <2>3
        <5> QED BY <5>1, <2>4
      <4> QED BY <4>1, <4>2
    <3> QED BY <3>2, <3>3
  <2> QED BY <2>1, <2>5
<1>2. T = {}
  <2>1. T \subseteq Nat
    OBVIOUS
  <2> HIDE DEF T
  <2> QED BY <1>1, <2>1, LeastNumber
<1>3. \E f : Upto(n, f)
  <2>1. n \notin T
    BY <1>2
  <2> HIDE DEF Upto
  <2> QED BY <2>1
<1> QED BY <1>3 DEF Runs

LEMMA Quotients ==
  ASSUME NEW f \in Nat, NEW d \in Nat, NEW i \in 0 .. d - 1
  PROVE  (f * d + i) \div d = f /\ (f * d + i) % d = i
<1>1. d > 0 /\ f * d \in Nat
  OBVIOUS
<1>2. (f * d + i) \div d = f
  BY <1>1
<1>3. (f * d + i) % d = i
  BY <1>1
<1> QED BY <1>2, <1>3

-----------------------------------------------------------------------------
(* Powers of two.                                                           *)
LEMMA SameRun ==
  ASSUME NEW n \in Nat, NEW f, NEW g, f[0] = g[0],
         \A i \in 1 .. n : f[i - 1] = g[i - 1] => f[i] = g[i]
  PROVE  f[n] = g[n]
<1> DEFINE good == {k \in 0 .. n : f[k] = g[k]}
<1>1. 0 \in good /\ \A k \in 1 .. n : k - 1 \in good => k \in good
  OBVIOUS
<1>2. \A k \in 0 .. n : k \in good
  <2> HIDE DEF good
  <2> QED BY <1>1, AllAlong
<1> QED BY <1>2

PowerIs(n, f) == f[0] = 1 /\ \A i \in 1 .. n : f[i] = 2 * f[i - 1] /\ f[i - 1] \in Nat
PowerDefines(n, f) == f = [i \in 0 .. n |-> IF i = 0 THEN 1 ELSE 2 * f[i - 1]]

LEMMA PowerRuns ==
  ASSUME NEW n \in Nat
  PROVE  \E f : PowerIs(n, f) /\ f[n] = TwoTo(n) /\ f[n] \in Nat
<1> DEFINE step == [p \in (1 .. n) \X Nat |-> 2 * p[2]]
<1>1. step \in StepFunctions(n, Nat) /\ 1 \in Nat
  <2>1. ASSUME NEW p \in (1 .. n) \X Nat PROVE 2 * p[2] \in Nat
    OBVIOUS
  <2> QED BY <2>1 DEF StepFunctions
<1>2. \A i \in 1 .. n : \A y \in Nat : step[<<i, y>>] = 2 * y
  OBVIOUS
<1> HIDE DEF step
<1>3. PICK f : Runs(n, Nat, 1, step, f)
  BY <1>1, RunExists
<1>4. \A i \in 1 .. n : i - 1 \in 0 .. n
  OBVIOUS
<1>5. f = [i \in 0 .. n |-> f[i]] /\ f[0] = 1 /\ \A i \in 1 .. n : f[i] = 2 * f[i - 1]
  BY <1>2, <1>3, <1>4 DEF Runs
<1>6. PowerDefines(n, f)
  <2>1. ASSUME NEW i \in 0 .. n PROVE f[i] = IF i = 0 THEN 1 ELSE 2 * f[i - 1]
    <3>1. i # 0 => i \in 1 .. n
      OBVIOUS
    <3> QED BY <1>5, <3>1
  <2> QED BY <1>5, <2>1 DEF PowerDefines
<1> DEFINE g == CHOOSE f1 : PowerDefines(n, f1)
<1>7. TwoTo(n) = g[n]
  BY DEF TwoTo, PowerDefines
<1>8. PowerDefines(n, g)
  BY <1>6
<1> HIDE DEF g
<1>9. g[0] = 1
  BY <1>8 DEF PowerDefines
<1>10. ASSUME NEW i \in 1 .. n PROVE g[i] = 2 * g[i - 1]
  <2>1. i \in 0 .. n /\ i # 0
    OBVIOUS
  <2> QED BY <1>8, <2>1 DEF PowerDefines
<1>11. \A i \in 0 .. n : i \in {k \in 0 .. n : g[k] \in Nat}
  <2> DEFINE good == {k \in 0 .. n : g[k] \in Nat}
  <2>1. 0 \in good /\ \A k \in 1 .. n : k - 1 \in good => k \in good
    BY <1>9, <1>10
  <2> QED
    <3> HIDE DEF good
    <3>1. \A k \in 0 .. n : k \in good
      BY <2>1, AllAlong
    <3> QED BY <3>1 DEF good
<1> QED BY <1>7, <1>9, <1>10, <1>11, <1>4 DEF PowerIs

LEMMA Powers ==
  /\ TwoTo(0) = 1
  /\ \A n \in Nat : /\ TwoTo(n) \in Nat /\ TwoTo(n) > 0
                    /\ TwoTo(n + 1) = 2 * TwoTo(n)
<1>1. TwoTo(0) = 1
  <2>1. PICK z : z = 0
    OBVIOUS
  <2>2. PICK f : PowerIs(z, f) /\ f[z] = TwoTo(z)
    BY <2>1, PowerRuns
  <2> QED BY <2>1, <2>2 DEF PowerIs
<1>2. ASSUME NEW n \in Nat PROVE TwoTo(n) \in Nat /\ TwoTo(n + 1) = 2 * TwoTo(n)
  <2>1. PICK f : PowerIs(n, f) /\ f[n] = TwoTo(n) /\ f[n] \in Nat
    BY PowerRuns
  <2>2. PICK g : PowerIs(n + 1, g) /\ g[n + 1] = TwoTo(n + 1)
    BY PowerRuns
  <2>3. f[n] = g[n]
    <3>1. f[0] = g[0] /\ \A i \in 1 .. n : f[i - 1] = g[i - 1] => f[i] = g[i]
      BY <2>1, <2>2 DEF PowerIs
    <3> QED BY <3>1, SameRun
  <2>4. g[n + 1] = 2 * g[n]
    <3>1. n + 1 \in 1 .. n + 1 /\ (n + 1) - 1 = n
      OBVIOUS
    <3> QED BY <2>2, <3>1 DEF PowerIs
  <2> QED BY <2>1, <2>2, <2>3, <2>4
<1>3. ASSUME NEW n \in Nat PROVE TwoTo(n) > 0
  <2> DEFINE good == {k \in 0 .. n : TwoTo(k) > 0}
  <2>1. 0 \in good
    BY <1>1
  <2>2. ASSUME NEW k \in 1 .. n, k - 1 \in good PROVE k \in good
    <3>1. PICK j \in Nat : j = k - 1 /\ k = j + 1
      OBVIOUS
    <3>2. TwoTo(j) > 0 /\ TwoTo(j) \in Nat /\ TwoTo(k) = 2 * TwoTo(j)
      BY <1>2, <2>2, <3>1
    <3> QED BY <3>2
  <2>3. \A k \in 0 .. n : k \in good
    <3> HIDE DEF good
    <3> QED BY <2>1, <2>2, AllAlong
  <2>4. n \in 0 .. n
    OBVIOUS
  <2> QED BY <2>3, <2>4
<1> QED BY <1>1, <1>2, <1>3

LEMMA PowerOfSum ==
  ASSUME NEW a \in Nat, NEW b \in Nat
  PROVE  TwoTo(a + b) = TwoTo(a) * TwoTo(b)
<1> DEFINE good == {k \in 0 .. b : TwoTo(a + k) = TwoTo(a) * TwoTo(k)}
<1>1. 0 \in good
  <2>1. TwoTo(a) \in Nat /\ TwoTo(0) = 1 /\ a + 0 = a
    BY Powers
  <2> QED BY <2>1
<1>2. ASSUME NEW k \in 1 .. b, k - 1 \in good PROVE k \in good
  <2>1. PICK j \in Nat : j = k - 1 /\ k = j + 1 /\ a + k = (a + j) + 1
    OBVIOUS
  <2>2. TwoTo(k) = 2 * TwoTo(j) /\ TwoTo(a + k) = 2 * TwoTo(a + j)
    BY <2>1, Powers
  <2>3. PICK x \in Nat, y \in Nat : x = TwoTo(a) /\ y = TwoTo(j)
    BY Powers
  <2>4. TwoTo(a + j) = x * y
    BY <1>2, <2>1, <2>3
  <2>5. 2 * (x * y) = x * (2 * y)
    OBVIOUS
  <2> QED BY <2>2, <2>3, <2>4, <2>5
<1>3. \A k \in 0 .. b : k \in good
  <2> HIDE DEF good
  <2> QED BY <1>1, <1>2, AllAlong
<1> QED BY <1>3

-----------------------------------------------------------------------------
(* The string of bits that bytes are.                                       *)
Bytes(data) ==
  Length(data) \in Nat /\ data \in [0 .. Length(data) - 1 -> 0 .. TwoTo(ByteBits) - 1]

BitAt(data, p) ==
  LET byte == p \div ByteBits
  IN  IF byte \in DOMAIN data
        THEN (data[byte] \div TwoTo(ByteBits - 1 - (p % ByteBits))) % 2
        ELSE 0

FieldOf(data, p, n) ==
  LET field[i \in 0 .. n] == IF i = 0 THEN 0 ELSE 2 * field[i - 1] + BitAt(data, p + (i - 1))
  IN  field[n]

LEMMA WidthsAre ==
  /\ ByteBits \in Nat /\ ByteBits > 0
  /\ WordBits \in Nat /\ WordBits >= 2 * ByteBits
BY BitstreamAssumption

LEMMA BitIs ==
  ASSUME NEW data, Bytes(data), NEW p \in Nat
  PROVE  BitAt(data, p) \in {0, 1}
<1>1. CASE p \div ByteBits \in DOMAIN data
  <2>1. PICK x \in Nat : x = data[p \div ByteBits]
    <3>1. TwoTo(ByteBits) \in Nat
      BY Powers, WidthsAre
    <3> QED BY <1>1, <3>1 DEF Bytes
  <2>2. PICK y \in Nat : y = TwoTo(ByteBits - 1 - (p % ByteBits)) /\ y > 0
    <3>1. p % ByteBits \in 0 .. ByteBits - 1
      BY WidthsAre
    <3>2. PICK k \in Nat : k = ByteBits - 1 - (p % ByteBits)
      BY <3>1, WidthsAre
    <3> QED BY <3>2, Powers
  <2>3. x \div y \in Nat
    BY <2>2
  <2>4. (x \div y) % 2 \in {0, 1}
    BY <2>3
  <2> QED BY <1>1, <2>1, <2>2, <2>4 DEF BitAt
<1>2. CASE p \div ByteBits \notin DOMAIN data
  BY <1>2 DEF BitAt
<1> QED BY <1>1, <1>2

FieldIs(data, p, n, f) ==
  f[0] = 0 /\ \A i \in 1 .. n : f[i] = 2 * f[i - 1] + BitAt(data, p + (i - 1))
FieldDefines(data, p, n, f) ==
  f = [i \in 0 .. n |-> IF i = 0 THEN 0 ELSE 2 * f[i - 1] + BitAt(data, p + (i - 1))]

LEMMA FieldRuns ==
  ASSUME NEW data, Bytes(data), NEW p \in Nat, NEW n \in Nat
  PROVE  \E f : FieldIs(data, p, n, f) /\ f[n] = FieldOf(data, p, n)
<1>0. \A i \in 1 .. n : BitAt(data, p + (i - 1)) \in Nat
  <2>1. ASSUME NEW i \in 1 .. n PROVE BitAt(data, p + (i - 1)) \in Nat
    <3>1. p + (i - 1) \in Nat
      OBVIOUS
    <3> QED BY <3>1, BitIs
  <2> QED BY <2>1
<1> DEFINE step == [q \in (1 .. n) \X Nat |-> 2 * q[2] + BitAt(data, p + (q[1] - 1))]
<1>1. step \in StepFunctions(n, Nat) /\ 0 \in Nat
  <2>1. ASSUME NEW q \in (1 .. n) \X Nat PROVE 2 * q[2] + BitAt(data, p + (q[1] - 1)) \in Nat
    <3>1. PICK i \in 1 .. n, y \in Nat : i = q[1] /\ y = q[2]
      OBVIOUS
    <3>2. PICK b \in Nat : b = BitAt(data, p + (i - 1))
      BY <1>0
    <3>3. 2 * y + b \in Nat
      OBVIOUS
    <3> QED BY <3>1, <3>2, <3>3
  <2> QED BY <2>1 DEF StepFunctions
<1>2. \A i \in 1 .. n : \A y \in Nat : step[<<i, y>>] = 2 * y + BitAt(data, p + (i - 1))
  OBVIOUS
<1> HIDE DEF step
<1>3. PICK f : Runs(n, Nat, 0, step, f)
  BY <1>1, RunExists
<1>4. \A i \in 1 .. n : i - 1 \in 0 .. n
  OBVIOUS
<1>5. /\ f = [i \in 0 .. n |-> f[i]] /\ f[0] = 0
      /\ \A i \in 1 .. n : f[i] = 2 * f[i - 1] + BitAt(data, p + (i - 1))
  BY <1>2, <1>3, <1>4 DEF Runs
<1>6. FieldDefines(data, p, n, f)
  <2>1. ASSUME NEW i \in 0 .. n
        PROVE  f[i] = IF i = 0 THEN 0 ELSE 2 * f[i - 1] + BitAt(data, p + (i - 1))
    <3>1. i # 0 => i \in 1 .. n
      OBVIOUS
    <3> QED BY <1>5, <3>1
  <2> QED BY <1>5, <2>1 DEF FieldDefines
<1> DEFINE g == CHOOSE f1 : FieldDefines(data, p, n, f1)
<1>7. FieldOf(data, p, n) = g[n]
  BY DEF FieldOf, FieldDefines
<1>8. FieldDefines(data, p, n, g)
  BY <1>6
<1> HIDE DEF g
<1>9. g[0] = 0
  BY <1>8 DEF FieldDefines
<1>10. ASSUME NEW i \in 1 .. n PROVE g[i] = 2 * g[i - 1] + BitAt(data, p + (i - 1))
  <2>1. i \in 0 .. n /\ i # 0
    OBVIOUS
  <2> QED BY <1>8, <2>1 DEF FieldDefines
<1> QED BY <1>7, <1>9, <1>10 DEF FieldIs

(* One bit more is twice the field and the bit.                             *)
LEMMA NextBit ==
  ASSUME NEW data, Bytes(data), NEW p \in Nat, NEW n \in Nat
  PROVE  FieldOf(data, p, n + 1) = 2 * FieldOf(data, p, n) + BitAt(data, p + n)
<1>1. PICK f : FieldIs(data, p, n, f) /\ f[n] = FieldOf(data, p, n)
  BY FieldRuns
<1>2. PICK g : FieldIs(data, p, n + 1, g) /\ g[n + 1] = FieldOf(data, p, n + 1)
  BY FieldRuns
<1>3. f[n] = g[n]
  <2>1. f[0] = g[0] /\ \A i \in 1 .. n : f[i - 1] = g[i - 1] => f[i] = g[i]
    BY <1>1, <1>2 DEF FieldIs
  <2> QED BY <2>1, SameRun
<1>4. g[n + 1] = 2 * g[n] + BitAt(data, p + n)
  <2>1. n + 1 \in 1 .. n + 1 /\ (n + 1) - 1 = n
    OBVIOUS
  <2> QED BY <1>2, <2>1 DEF FieldIs
<1> QED BY <1>1, <1>2, <1>3, <1>4

LEMMA NoBits ==
  ASSUME NEW data, Bytes(data), NEW p \in Nat
  PROVE  FieldOf(data, p, 0) = 0
<1>1. PICK z : z = 0
  OBVIOUS
<1>2. PICK f : FieldIs(data, p, z, f) /\ f[z] = FieldOf(data, p, z)
  BY <1>1, FieldRuns
<1> QED BY <1>1, <1>2 DEF FieldIs

(* n bits are a number below 2^n.                                           *)
LEMMA FieldFits ==
  ASSUME NEW data, Bytes(data), NEW p \in Nat, NEW n \in Nat
  PROVE  FieldOf(data, p, n) \in Nat /\ FieldOf(data, p, n) < TwoTo(n)
<1> DEFINE good == {k \in 0 .. n : FieldOf(data, p, k) \in Nat /\ FieldOf(data, p, k) < TwoTo(k)}
<1>1. 0 \in good
  BY NoBits, Powers
<1>2. ASSUME NEW k \in 1 .. n, k - 1 \in good PROVE k \in good
  <2>1. PICK j \in Nat : j = k - 1 /\ k = j + 1
    OBVIOUS
  <2>2. PICK x \in Nat, y \in Nat : x = FieldOf(data, p, j) /\ y = TwoTo(j) /\ x < y
    BY <1>2, <2>1, Powers
  <2>3. PICK b \in {0, 1} : b = BitAt(data, p + j)
    BY BitIs
  <2>4. FieldOf(data, p, k) = 2 * x + b /\ TwoTo(k) = 2 * y
    BY <2>1, <2>2, <2>3, NextBit, Powers
  <2> QED BY <2>2, <2>4
<1>3. \A k \in 0 .. n : k \in good
  <2> HIDE DEF good
  <2> QED BY <1>1, <1>2, AllAlong
<1> QED BY <1>3

(* A field in two parts.                                                    *)
LEMMA FieldInTwo ==
  ASSUME NEW data, Bytes(data), NEW p \in Nat, NEW a \in Nat, NEW b \in Nat
  PROVE  FieldOf(data, p, a + b) = FieldOf(data, p, a) * TwoTo(b) + FieldOf(data, p + a, b)
<1> DEFINE good == {k \in 0 .. b :
                     FieldOf(data, p, a + k) = FieldOf(data, p, a) * TwoTo(k) + FieldOf(data, p + a, k)}
<1>0. p + a \in Nat
  OBVIOUS
<1>1. 0 \in good
  <2>1. FieldOf(data, p, a) \in Nat /\ TwoTo(0) = 1 /\ a + 0 = a
    <3>1. FieldOf(data, p, a) \in Nat
      BY FieldFits
    <3>2. TwoTo(0) = 1
      BY Powers
    <3> QED BY <3>1, <3>2
  <2>2. FieldOf(data, p + a, 0) = 0
    BY <1>0, NoBits
  <2>3. PICK x \in Nat : x = FieldOf(data, p, a)
    BY <2>1
  <2>4. FieldOf(data, p, a + 0) = x
    BY <2>1, <2>3
  <2>5. x = x * 1 + 0
    OBVIOUS
  <2>6. FieldOf(data, p, a + 0) = FieldOf(data, p, a) * TwoTo(0) + FieldOf(data, p + a, 0)
    BY <2>1, <2>2, <2>3, <2>4, <2>5
  <2>7. 0 \in 0 .. b
    OBVIOUS
  <2> QED BY <2>6, <2>7
<1>2. ASSUME NEW k \in 1 .. b, k - 1 \in good PROVE k \in good
  <2>1. PICK j \in Nat : j = k - 1 /\ k = j + 1 /\ a + k = (a + j) + 1 /\ a + j \in Nat
    OBVIOUS
  <2>2. PICK x \in Nat, y \in Nat, z \in Nat :
          x = FieldOf(data, p, a) /\ y = TwoTo(j) /\ z = FieldOf(data, p + a, j)
    BY <1>0, FieldFits, Powers
  <2>3. PICK c \in {0, 1} : c = BitAt(data, (p + a) + j) /\ c = BitAt(data, p + (a + j))
    <3>1. (p + a) + j \in Nat /\ (p + a) + j = p + (a + j)
      OBVIOUS
    <3> QED BY <3>1, BitIs
  <2>4. FieldOf(data, p, a + j) = x * y + z
    BY <1>2, <2>1, <2>2
  <2>5. FieldOf(data, p, a + k) = 2 * (x * y + z) + c
    <3>1. FieldOf(data, p, (a + j) + 1) = 2 * FieldOf(data, p, a + j) + BitAt(data, p + (a + j))
      BY <2>1, NextBit
    <3> QED BY <2>1, <2>3, <2>4, <3>1
  <2>6. FieldOf(data, p + a, k) = 2 * z + c /\ TwoTo(k) = 2 * y
    <3>1. FieldOf(data, p + a, j + 1) = 2 * FieldOf(data, p + a, j) + BitAt(data, (p + a) + j)
      BY <1>0, <2>1, NextBit
    <3> QED BY <2>1, <2>2, <2>3, <3>1, Powers
  <2>7. 2 * (x * y + z) + c = x * (2 * y) + (2 * z + c)
    OBVIOUS
  <2> QED BY <2>2, <2>5, <2>6, <2>7
<1>3. \A k \in 0 .. b : k \in good
  <2> HIDE DEF good
  <2> QED BY <1>1, <1>2, AllAlong
<1> QED BY <1>3

-----------------------------------------------------------------------------
(* Bytes.                                                                   *)
LEMMA HalfOf ==
  ASSUME NEW x \in Nat, NEW y \in Nat, y > 0
  PROVE  x \div y \in Nat /\ x \div (2 * y) = (x \div y) \div 2
<1>1. PICK q \in Nat, r \in Nat : q = x \div y /\ x = q * y + r /\ r < y
  <2>1. x \div y \in Nat /\ x % y \in 0 .. y - 1 /\ x = (x \div y) * y + (x % y)
    OBVIOUS
  <2> QED BY <2>1
<1>2. PICK h \in Nat, e \in {0, 1} : h = q \div 2 /\ q = 2 * h + e
  <2>1. q \div 2 \in Nat /\ q % 2 \in {0, 1} /\ q = 2 * (q \div 2) + (q % 2)
    OBVIOUS
  <2> QED BY <2>1
<1>3. PICK m \in Nat, i \in Nat : m = 2 * y /\ i = e * y + r
  OBVIOUS
<1>4. x = h * m + i
  <2>1. (2 * h + e) * y + r = h * (2 * y) + (e * y + r)
    <3>1. PICK a \in Nat, b \in Nat : a = h * y /\ b = e * y
      OBVIOUS
    <3>2. (2 * h + e) * y = 2 * a + b /\ h * (2 * y) = 2 * a
      BY <3>1
    <3> QED BY <3>1, <3>2
  <2> QED BY <1>1, <1>2, <1>3, <2>1
<1>5. i \in 0 .. m - 1
  <2>1. e * y <= y /\ e * y \in Nat
    BY <1>2
  <2> QED BY <1>1, <1>3, <2>1
<1>6. x \div m = h
  BY <1>3, <1>4, <1>5, Quotients
<1> QED BY <1>1, <1>2, <1>3, <1>6

ByteOrNone(data, q) == IF q < Length(data) THEN data[q] ELSE 0

LEMMA ByteFits ==
  ASSUME NEW data, Bytes(data), NEW q \in Nat
  PROVE  ByteOrNone(data, q) \in Nat /\ ByteOrNone(data, q) < TwoTo(ByteBits)
<1>1. PICK t \in Nat : t = TwoTo(ByteBits) /\ t > 0
  BY WidthsAre, Powers
<1>2. Length(data) \in Nat /\ data \in [0 .. Length(data) - 1 -> 0 .. t - 1]
  BY <1>1 DEF Bytes
<1>3. CASE q < Length(data)
  <2>1. q \in 0 .. Length(data) - 1
    BY <1>2, <1>3
  <2>2. data[q] \in 0 .. t - 1
    BY <1>2, <2>1
  <2> QED BY <1>1, <1>3, <2>2 DEF ByteOrNone
<1>4. CASE ~ (q < Length(data))
  BY <1>1, <1>4 DEF ByteOrNone
<1> QED BY <1>3, <1>4

LEMMA BitOfByte ==
  ASSUME NEW data, Bytes(data), NEW q \in Nat, NEW i \in 0 .. ByteBits - 1
  PROVE  BitAt(data, q * ByteBits + i) = (ByteOrNone(data, q) \div TwoTo(ByteBits - 1 - i)) % 2
<1>1. (q * ByteBits + i) \div ByteBits = q /\ (q * ByteBits + i) % ByteBits = i
  BY WidthsAre, Quotients
<1>2. Length(data) \in Nat /\ DOMAIN data = 0 .. Length(data) - 1
  BY DEF Bytes
<1>3. CASE q < Length(data)
  BY <1>1, <1>2, <1>3 DEF BitAt, ByteOrNone
<1>4. CASE ~ (q < Length(data))
  <2>1. BitAt(data, q * ByteBits + i) = 0 /\ ByteOrNone(data, q) = 0
    BY <1>1, <1>2, <1>4 DEF BitAt, ByteOrNone
  <2>2. PICK k \in Nat : k = ByteBits - 1 - i
    BY WidthsAre
  <2>3. PICK y \in Nat : y = TwoTo(ByteBits - 1 - i) /\ y > 0
    BY <2>2, Powers
  <2>4. 0 \div y = 0
    BY <2>3
  <2> QED BY <2>1, <2>3, <2>4
<1> QED BY <1>3, <1>4

(* The bits of a byte are the byte, and zeros behind the last one.          *)
LEMMA ByteIsItsBits ==
  ASSUME NEW data, Bytes(data), NEW q \in Nat
  PROVE  FieldOf(data, q * ByteBits, ByteBits) = ByteOrNone(data, q)
<1>1. PICK d \in Nat, n \in Nat, p \in Nat :
        d = ByteOrNone(data, q) /\ n = ByteBits /\ p = q * ByteBits /\ d < TwoTo(n) /\ n > 0
  BY ByteFits, WidthsAre
<1> DEFINE good == {k \in 0 .. n : FieldOf(data, p, k) = d \div TwoTo(n - k)}
<1>2. 0 \in good
  <2>1. d \div TwoTo(n) = 0
    <3>1. PICK t \in Nat : t = TwoTo(n) /\ d < t
      BY <1>1, Powers
    <3>2. d \div t = 0
      BY <3>1
    <3> QED BY <3>1, <3>2
  <2>2. FieldOf(data, p, 0) = 0
    BY NoBits
  <2>3. 0 \in 0 .. n /\ n - 0 = n
    OBVIOUS
  <2> QED BY <2>1, <2>2, <2>3
<1>3. ASSUME NEW k \in 1 .. n, k - 1 \in good PROVE k \in good
  <2>1. PICK j \in Nat, m \in Nat :
          j = k - 1 /\ k = j + 1 /\ j \in 0 .. n - 1 /\ m = n - k /\ n - j = m + 1 /\ m = n - 1 - j
    OBVIOUS
  <2>2. PICK y \in Nat : y = TwoTo(m) /\ y > 0 /\ TwoTo(n - j) = 2 * y
    BY <2>1, Powers
  <2>3. PICK u \in Nat : u = d \div y /\ d \div (2 * y) = u \div 2
    BY <2>2, HalfOf
  <2>4. FieldOf(data, p, j) = u \div 2
    BY <1>3, <2>1, <2>2, <2>3
  <2>5. BitAt(data, p + j) = u % 2
    <3>1. BitAt(data, q * ByteBits + j) = (ByteOrNone(data, q) \div TwoTo(ByteBits - 1 - j)) % 2
      BY <1>1, <2>1, BitOfByte
    <3> QED BY <1>1, <2>1, <2>2, <2>3, <3>1
  <2>6. FieldOf(data, p, k) = 2 * (u \div 2) + (u % 2)
    <3>1. FieldOf(data, p, j + 1) = 2 * FieldOf(data, p, j) + BitAt(data, p + j)
      BY <2>1, NextBit
    <3> QED BY <2>1, <2>4, <2>5, <3>1
  <2>7. 2 * (u \div 2) + (u % 2) = u
    OBVIOUS
  <2> QED BY <2>1, <2>2, <2>3, <2>6, <2>7
<1>4. \A k \in 0 .. n : k \in good
  <2> HIDE DEF good
  <2> QED BY <1>2, <1>3, AllAlong
<1>5. FieldOf(data, p, n) = d \div TwoTo(n - n)
  BY <1>4
<1>6. n - n = 0 /\ d \div 1 = d
  OBVIOUS
<1> QED BY <1>1, <1>5, <1>6, Powers

-----------------------------------------------------------------------------
(* The accumulator: b bits from p on, at its top.  When b is negative p is  *)
(* that many bits behind the last byte loaded, and nothing is there.        *)
InBuffer(data, p, b) == IF b < 0 THEN 0 ELSE FieldOf(data, p, b) * TwoTo(WordBits - b)

LEMMA Multiples ==
  ASSUME NEW a \in Nat, NEW b \in Nat, NEW c \in Nat, a < b, c > 0
  PROVE  a * c \in Nat /\ b * c \in Nat /\ a * c < b * c
OBVIOUS

LEMMA LoadedIs ==
  ASSUME NEW r, NEW data, NEW i \in Nat, NEW idx \in Nat, NEW s \in Nat,
         idx = r.doffset + i, s = WordBits - ByteBits - (r.bits + i * ByteBits), s < WordBits
  PROVE  Loaded(r, data, i) = (ByteOrNone(data, idx) * TwoTo(s)) % TwoTo(WordBits)
<1>1. PICK t \in Nat : t = TwoTo(WordBits) /\ t > 0
  BY WidthsAre, Powers
<1>2. PICK u \in Nat : u = TwoTo(s)
  BY Powers
<1>3. (0 * u) % t = 0
  BY <1>1
<1>4. CASE idx < Length(data)
  BY <1>4 DEF Loaded, ByteOrNone
<1>5. CASE ~ (idx < Length(data))
  <2>1. Loaded(r, data, i) = 0
    BY <1>5 DEF Loaded
  <2>2. ByteOrNone(data, idx) = 0
    BY <1>5 DEF ByteOrNone
  <2> QED BY <1>1, <1>2, <1>3, <2>1, <2>2
<1> QED BY <1>4, <1>5

ByteStart(q) == q * ByteBits

(* The next byte is put behind the bits that are there.                     *)
LEMMA ByteAppends ==
  ASSUME NEW data, Bytes(data), NEW idx \in Nat, NEW p \in Nat, NEW b \in Int,
         b + ByteBits > 0, b + ByteBits <= WordBits, p + b = ByteStart(idx)
  PROVE  InBuffer(data, p, b)
           + ((ByteOrNone(data, idx) * TwoTo(WordBits - ByteBits - b)) % TwoTo(WordBits))
           = InBuffer(data, p, b + ByteBits)
<1>1. PICK n \in Nat, w \in Nat : n = ByteBits /\ w = WordBits /\ n > 0
  BY WidthsAre
<1>2. PICK s \in Nat : s = w - n - b /\ s < w
  BY <1>1
<1>3. PICK x \in Nat : x = ByteOrNone(data, idx) /\ x = FieldOf(data, ByteStart(idx), n) /\ x < TwoTo(n)
  BY <1>1, ByteFits, ByteIsItsBits DEF ByteStart
<1>4. PICK u \in Nat, t \in Nat : u = TwoTo(s) /\ t = TwoTo(w) /\ u > 0 /\ t > 0
  BY Powers
<1>5. (ByteOrNone(data, idx) * TwoTo(WordBits - ByteBits - b)) % TwoTo(WordBits) = (x * u) % t
  <2>1. s = WordBits - ByteBits - b
    BY <1>1, <1>2
  <2>2. TwoTo(WordBits - ByteBits - b) = u /\ TwoTo(WordBits) = t
    BY <1>1, <1>4, <2>1
  <2> QED BY <1>3, <2>2, Zenon
<1>6. w - (b + n) = s
  BY <1>1, <1>2
<1>7. CASE b >= 0
  <2>1. b \in Nat /\ w - b \in Nat /\ w - b = n + s /\ w = (w - b) + b
    <3>1. b \in Nat /\ s \in Nat /\ s = w - n - b
      BY <1>2, <1>7
    <3> QED BY <1>1, <3>1
  <2>2. PICK z \in Nat, m \in Nat, l \in Nat :
          z = TwoTo(n) /\ m = TwoTo(w - b) /\ l = TwoTo(b) /\ l > 0
    BY <2>1, Powers
  <2>3. m = z * u /\ t = m * l
    BY <1>4, <2>1, <2>2, PowerOfSum
  <2>4. x * u \in Nat /\ x * u < t
    <3>1. x * u \in Nat /\ x * u < z * u
      BY <1>3, <1>4, <2>2, Multiples
    <3>2. m <= m * l
      BY <2>2
    <3> QED BY <2>3, <3>1, <3>2
  <2>5. (x * u) % t = x * u
    <3>1. PICK v \in Nat : v = x * u /\ v < t
      BY <2>4
    <3>2. v % t = v
      BY <1>4, <3>1
    <3> QED BY <3>1, <3>2
  <2>6. PICK f \in Nat : f = FieldOf(data, p, b)
    BY <2>1, FieldFits
  <2>7. FieldOf(data, p, b + n) = f * z + x
    <3>1. FieldOf(data, p, b + n) = FieldOf(data, p, b) * TwoTo(n) + FieldOf(data, p + b, n)
      BY <2>1, FieldInTwo
    <3> QED BY <1>1, <1>3, <2>2, <2>6, <3>1
  <2>8. InBuffer(data, p, b) = f * (z * u)
    BY <1>1, <1>7, <2>2, <2>3, <2>6 DEF InBuffer
  <2>9. InBuffer(data, p, b + n) = (f * z + x) * u
    <3>1. ~ (b + n < 0)
      BY <1>7
    <3> QED BY <1>1, <1>4, <1>6, <2>7, <3>1 DEF InBuffer
  <2>10. f * (z * u) + x * u = (f * z + x) * u
    OBVIOUS
  <2> QED
    <3>1. InBuffer(data, p, b + ByteBits) = (f * z + x) * u
      BY <1>1, <2>9
    <3> QED BY <1>5, <2>5, <2>8, <2>10, <3>1, Zenon
<1>8. CASE b < 0
  <2>1. PICK c \in Nat, k \in Nat, o \in Nat :
          c = 0 - b /\ k = b + n /\ n = c + k /\ o = ByteStart(idx) /\ p = o + c /\ w = k + s
    <3>1. ByteStart(idx) \in Nat
      BY WidthsAre DEF ByteStart
    <3> QED BY <1>1, <1>2, <1>8, <3>1
  <2>2. PICK g \in Nat, f \in Nat, m \in Nat :
          g = FieldOf(data, o, c) /\ f = FieldOf(data, p, k) /\ m = TwoTo(k) /\ f < m
    <3>1. FieldOf(data, o, c) \in Nat /\ FieldOf(data, p, k) \in Nat /\ FieldOf(data, p, k) < TwoTo(k)
      BY FieldFits
    <3>2. TwoTo(k) \in Nat
      BY Powers
    <3> QED BY <3>1, <3>2
  <2>3. x = g * m + f
    <3>1. FieldOf(data, o, c + k) = FieldOf(data, o, c) * TwoTo(k) + FieldOf(data, o + c, k)
      BY <2>1, FieldInTwo
    <3> QED BY <1>3, <2>1, <2>2, <3>1
  <2>4. t = m * u
    BY <1>4, <2>1, <2>2, PowerOfSum
  <2>5. f * u \in Nat /\ f * u < t
    BY <1>4, <2>2, <2>4, Multiples
  <2>6. x * u = g * t + f * u
    <3>1. (g * m + f) * u = g * (m * u) + f * u
      OBVIOUS
    <3> QED BY <2>3, <2>4, <3>1
  <2>7. (x * u) % t = f * u
    <3>1. PICK v \in Nat : v = f * u /\ v \in 0 .. t - 1
      BY <1>4, <2>5
    <3>2. (g * t + v) % t = v
      <4>1. t \in Nat /\ g \in Nat /\ v \in 0 .. t - 1
        BY <3>1
      <4> HIDE <1>2, <1>3, <1>4, <1>5, <1>6, <1>8
      <4> QED BY <4>1, Quotients
    <3> QED BY <2>6, <3>1, <3>2
  <2>8. InBuffer(data, p, b) = 0
    BY <1>8 DEF InBuffer
  <2>9. InBuffer(data, p, b + n) = f * u
    <3>1. ~ (b + n < 0) /\ b + n = k
      BY <2>1
    <3> QED BY <1>1, <1>4, <1>6, <2>2, <3>1 DEF InBuffer
  <2>10. InBuffer(data, p, b + ByteBits) = f * u
    BY <1>1, <2>9
  <2>11. PICK v \in Nat : v = f * u
    BY <2>5
  <2>12. InBuffer(data, p, b) + ((x * u) % t) = 0 + v
    BY <2>7, <2>8, <2>11, Zenon
  <2> QED BY <1>5, <2>10, <2>11, <2>12
<1> QED BY <1>7, <1>8

LEMMA LoadAppends ==
  ASSUME NEW r, NEW data, Bytes(data), NEW i \in Nat, NEW idx \in Nat, NEW p \in Nat, NEW b \in Int,
         idx = r.doffset + i, b = r.bits + i * ByteBits, b + ByteBits > 0,
         b + ByteBits <= WordBits, p + b = ByteStart(idx)
  PROVE  InBuffer(data, p, b) + Loaded(r, data, i) = InBuffer(data, p, b + ByteBits)
<1>1. PICK s \in Nat : s = WordBits - ByteBits - b /\ s < WordBits
  BY WidthsAre
<1>2. s = WordBits - ByteBits - (r.bits + i * ByteBits)
  BY <1>1
<1>3. Loaded(r, data, i) = (ByteOrNone(data, idx) * TwoTo(s)) % TwoTo(WordBits)
  BY <1>1, <1>2, LoadedIs
<1>4. Loaded(r, data, i)
        = (ByteOrNone(data, idx) * TwoTo(WordBits - ByteBits - b)) % TwoTo(WordBits)
  BY <1>1, <1>3, Zenon
<1>5. InBuffer(data, p, b)
         + ((ByteOrNone(data, idx) * TwoTo(WordBits - ByteBits - b)) % TwoTo(WordBits))
         = InBuffer(data, p, b + ByteBits)
  BY ByteAppends
<1> QED BY <1>4, <1>5, Zenon

(* What r has buffered are the bits of data from p on.                      *)
BitsRecord(r) == r = [buffer |-> r.buffer, bits |-> r.bits, doffset |-> r.doffset]
Holds(r, data, p) ==
  /\ BitsRecord(r) /\ r.doffset \in Nat /\ p \in Nat
  /\ r.bits \in Int /\ r.bits + ByteBits > 0 /\ r.bits <= WordBits
  /\ p + r.bits = ByteStart(r.doffset)
  /\ r.buffer = InBuffer(data, p, r.bits)

BufferDefines(r, data, n, f) ==
  f = [i \in 0 .. n |-> IF i = 0 THEN r.buffer ELSE f[i - 1] + Loaded(r, data, i - 1)]

LEMMA BufferFills ==
  ASSUME NEW r, NEW data, Bytes(data), NEW p, Holds(r, data, p),
         NEW n \in Nat, r.bits + n * ByteBits <= WordBits
  PROVE  BufferAfter(r, data, n) = InBuffer(data, p, r.bits + n * ByteBits)
<1> DEFINE f == [i \in 0 .. n |-> InBuffer(data, p, r.bits + i * ByteBits)]
<1>1. PICK m \in Nat, b \in Int, d \in Nat, w \in Nat :
        m = ByteBits /\ b = r.bits /\ d = r.doffset /\ w = WordBits /\ m > 0 /\ b + m > 0 /\ b + n * m <= w
  BY WidthsAre DEF Holds
<1>2. f[0] = r.buffer
  <2>1. b + 0 * m = b /\ 0 \in 0 .. n
    BY <1>1
  <2>2. f[0] = InBuffer(data, p, b)
    BY <1>1, <2>1
  <2> QED BY <1>1, <2>2 DEF Holds
<1>3. ASSUME NEW i \in 1 .. n PROVE f[i] = f[i - 1] + Loaded(r, data, i - 1)
  <2>1. PICK j \in Nat, c \in Int, idx \in Nat :
          j = i - 1 /\ i = j + 1 /\ c = b + j * m /\ idx = d + j
    <3>1. PICK j \in Nat : j = i - 1 /\ i = j + 1
      OBVIOUS
    <3>2. PICK x \in Int : x = j * m
      BY <1>1
    <3>3. b + x \in Int /\ d + j \in Nat
      BY <1>1
    <3> QED BY <3>1, <3>2, <3>3
  <2>2. c + m = b + i * m
    <3>1. (j + 1) * m = j * m + m
      OBVIOUS
    <3> QED BY <1>1, <2>1, <3>1
  <2>3. c + m > 0 /\ c + m <= w
    <3>1. j * m >= 0
      BY <1>1
    <3>2. i * m <= n * m
      <4>1. i <= n /\ i \in Nat
        OBVIOUS
      <4> QED BY <1>1, <4>1
    <3>3. PICK x \in Int, y \in Int, z \in Int : x = j * m /\ y = i * m /\ z = n * m
      BY <1>1
    <3> QED BY <1>1, <2>1, <2>2, <3>1, <3>2, <3>3
  <2>4. p \in Nat /\ p + c = ByteStart(idx)
    <3>1. p \in Nat /\ p + b = d * m
      BY <1>1 DEF Holds, ByteStart
    <3>2. (d + j) * m = d * m + j * m
      BY <1>1
    <3>3. PICK x \in Int, y \in Int : x = j * m /\ y = d * m
      BY <1>1
    <3>4. p + c = y + x
      BY <1>1, <2>1, <3>1, <3>3
    <3> QED BY <1>1, <2>1, <3>1, <3>2, <3>3, <3>4 DEF ByteStart
  <2>5. InBuffer(data, p, c) + Loaded(r, data, j) = InBuffer(data, p, c + m)
    <3>1. idx = r.doffset + j /\ c = r.bits + j * ByteBits /\ c + ByteBits > 0 /\ c + ByteBits <= WordBits
      BY <1>1, <2>1, <2>3
    <3>2. InBuffer(data, p, c) + Loaded(r, data, j) = InBuffer(data, p, c + ByteBits)
      BY <2>4, <3>1, LoadAppends
    <3> QED BY <1>1, <3>2
  <2>6. f[i] = InBuffer(data, p, c + m) /\ f[i - 1] = InBuffer(data, p, c)
    <3>1. i \in 0 .. n /\ i - 1 \in 0 .. n
      OBVIOUS
    <3> QED BY <1>1, <2>1, <2>2, <3>1
  <2> HIDE DEF f
  <2> QED BY <2>1, <2>5, <2>6
<1>4. BufferDefines(r, data, n, f)
  <2>1. ASSUME NEW i \in 0 .. n
        PROVE  f[i] = IF i = 0 THEN r.buffer ELSE f[i - 1] + Loaded(r, data, i - 1)
    <3>1. i # 0 => i \in 1 .. n
      OBVIOUS
    <3> HIDE DEF f
    <3> QED BY <1>2, <1>3, <3>1
  <2>2. f = [i \in 0 .. n |-> f[i]]
    OBVIOUS
  <2> HIDE DEF f
  <2> QED BY <2>1, <2>2 DEF BufferDefines
<1> DEFINE g == CHOOSE f1 : BufferDefines(r, data, n, f1)
<1>5. BufferAfter(r, data, n) = g[n]
  BY DEF BufferAfter, BufferDefines
<1>6. BufferDefines(r, data, n, g)
  <2> HIDE DEF f
  <2> QED BY <1>4
<1>7. f[n] = InBuffer(data, p, r.bits + n * ByteBits)
  OBVIOUS
<1> HIDE DEF g, f
<1>8. f[n] = g[n]
  <2>1. f[0] = r.buffer /\ g[0] = r.buffer
    BY <1>2, <1>6 DEF BufferDefines
  <2>2. ASSUME NEW i \in 1 .. n, f[i - 1] = g[i - 1] PROVE f[i] = g[i]
    <3>1. i \in 0 .. n /\ i # 0
      OBVIOUS
    <3>2. g[i] = g[i - 1] + Loaded(r, data, i - 1)
      BY <1>6, <3>1 DEF BufferDefines
    <3> QED BY <1>3, <2>2, <3>2
  <2> QED BY <2>1, <2>2, SameRun
<1> QED BY <1>5, <1>7, <1>8

(* A whole number of bytes, until less than one byte is free.               *)
LEMMA LoadsFill ==
  ASSUME NEW m \in Nat, NEW w \in Nat, NEW b \in Int, m > 0, b <= w - m
  PROVE  LET k == (w - m - b) \div m + 1
         IN  k \in Nat /\ b + k * m <= w /\ b + k * m > w - m
<1>1. PICK x \in Nat : x = w - m - b
  OBVIOUS
<1>2. PICK q \in Nat, r \in Nat : q = x \div m /\ x = q * m + r /\ r < m
  <2>1. x \div m \in Nat /\ x % m \in 0 .. m - 1 /\ x = (x \div m) * m + (x % m)
    OBVIOUS
  <2> QED BY <2>1
<1>3. (q + 1) * m = q * m + m
  OBVIOUS
<1>4. PICK y \in Nat : y = q * m
  OBVIOUS
<1>5. b + (y + m) <= w /\ b + (y + m) > w - m
  BY <1>1, <1>2, <1>4
<1> QED BY <1>1, <1>2, <1>3, <1>4, <1>5

LEMMA FilledHolds ==
  ASSUME NEW r, NEW data, Bytes(data), NEW p, Holds(r, data, p), NEW n \in 1 .. WordBits
  PROVE  /\ Holds(Filled(r, data, n), data, p)
         /\ Filled(r, data, n).bits >= 0
         /\ n <= Filled(r, data, n).bits \/ Guaranteed <= Filled(r, data, n).bits
<1>1. PICK m \in Nat, w \in Nat, b \in Int :
        m = ByteBits /\ w = WordBits /\ b = r.bits /\ m > 0 /\ w >= 2 * m /\ n > 0 /\ b <= w
  <2>1. r.bits \in Int /\ r.bits <= WordBits
    BY DEF Holds
  <2>2. PICK b \in Int : b = r.bits /\ b <= WordBits
    BY <2>1
  <2>3. PICK m \in Nat, w \in Nat : m = ByteBits /\ w = WordBits /\ m > 0 /\ w >= 2 * m
    BY WidthsAre
  <2>4. n > 0
    BY <2>3
  <2> QED BY <2>2, <2>3, <2>4
<1>2. CASE n <= r.bits \/ r.bits > WordBits - ByteBits
  <2>1. Filled(r, data, n) = r
    BY <1>2 DEF Filled
  <2>2. b >= 0
    BY <1>1, <1>2
  <2>3. n <= b \/ w - m + 1 <= b
    BY <1>1, <1>2
  <2> QED BY <1>1, <2>1, <2>2, <2>3 DEF Guaranteed
<1>3. CASE ~ (n <= r.bits \/ r.bits > WordBits - ByteBits)
  <2>1. Filled(r, data, n) = [buffer |-> BufferAfter(r, data, LoadsOf(r)),
                              bits |-> r.bits + LoadsOf(r) * ByteBits,
                              doffset |-> r.doffset + LoadsOf(r)]
    <3>1. n # 0
      BY <1>1
    <3> QED BY <1>3, <3>1 DEF Filled
  <2>2. PICK k \in Nat, c \in Int : k = LoadsOf(r) /\ c = b + k * m /\ c <= w /\ c > w - m
    <3>1. b <= w - m
      BY <1>1, <1>3
    <3>2. PICK k : k = (w - m - b) \div m + 1 /\ k \in Nat /\ b + k * m <= w /\ b + k * m > w - m
      BY <1>1, <3>1, LoadsFill
    <3>3. k = LoadsOf(r)
      BY <1>1, <3>2 DEF LoadsOf
    <3>4. PICK x \in Nat : x = k * m
      BY <1>1, <3>2
    <3>5. b + x \in Int
      BY <1>1
    <3> QED BY <3>2, <3>3, <3>4, <3>5
  <2>3. BufferAfter(r, data, k) = InBuffer(data, p, c)
    <3>1. r.bits + k * ByteBits <= WordBits /\ r.bits + k * ByteBits = c
      BY <1>1, <2>2
    <3> QED BY <3>1, BufferFills
  <2>4. PICK d \in Nat : d = r.doffset /\ p \in Nat /\ p + b = d * m
    BY <1>1 DEF Holds, ByteStart
  <2>5. p + c = (d + k) * m
    <3>1. (d + k) * m = d * m + k * m
      BY <1>1
    <3>2. PICK x \in Nat, y \in Nat : x = d * m /\ y = k * m
      BY <1>1
    <3> QED BY <1>1, <2>2, <2>4, <3>1, <3>2
  <2>6. PICK s : s = Filled(r, data, n)
    OBVIOUS
  <2>7. s = [buffer |-> InBuffer(data, p, c), bits |-> c, doffset |-> d + k]
    BY <1>1, <2>1, <2>2, <2>3, <2>4, <2>6
  <2>8. c >= 0 /\ w - m + 1 <= c /\ c + m > 0 /\ d + k \in Nat
    BY <1>1, <2>2
  <2>9. Holds(s, data, p)
    <3>1. s.buffer = InBuffer(data, p, c) /\ s.bits = c /\ s.doffset = d + k
      BY <2>7
    <3>2. BitsRecord(s)
      BY <2>7, <3>1 DEF BitsRecord
    <3>3. p + s.bits = ByteStart(s.doffset)
      BY <1>1, <2>5, <3>1 DEF ByteStart
    <3>4. s.bits \in Int /\ s.bits + ByteBits > 0 /\ s.bits <= WordBits
      BY <1>1, <2>2, <2>8, <3>1
    <3> QED BY <2>4, <2>8, <3>1, <3>2, <3>3, <3>4 DEF Holds
  <2>10. s.bits = c
    BY <2>7
  <2> QED BY <1>1, <2>6, <2>8, <2>9, <2>10 DEF Guaranteed
<1> QED BY <1>2, <1>3

-----------------------------------------------------------------------------
(* Taking n bits from the top.                                              *)
LEMMA TopIs ==
  ASSUME NEW data, Bytes(data), NEW p \in Nat, NEW b \in 0 .. WordBits, NEW n \in 0 .. WordBits
  PROVE  InBuffer(data, p, b) \div TwoTo(WordBits - n)
           = IF n <= b THEN FieldOf(data, p, n) ELSE FieldOf(data, p, b) * TwoTo(n - b)
<1>1. PICK w \in Nat : w = WordBits
  BY WidthsAre
<1>2. b \in Nat /\ n \in Nat /\ b <= w /\ n <= w /\ w - n \in Nat /\ w - b \in Nat
  BY <1>1
<1>3. PICK f \in Nat, u \in Nat, t \in Nat :
        f = FieldOf(data, p, b) /\ u = TwoTo(w - b) /\ t = TwoTo(w - n) /\ u > 0 /\ t > 0
  <2>1. FieldOf(data, p, b) \in Nat
    BY <1>2, FieldFits
  <2> QED BY <1>2, <2>1, Powers
<1>4. InBuffer(data, p, b) = f * u
  <2>1. ~ (b < 0)
    BY <1>2
  <2> QED BY <1>1, <1>3, <2>1 DEF InBuffer
<1>5. CASE n <= b
  <2>1. PICK k \in Nat : k = b - n /\ b = n + k /\ w - n = k + (w - b)
    BY <1>2, <1>5
  <2>2. PICK x \in Nat, y \in Nat, z \in Nat :
          x = FieldOf(data, p, n) /\ y = FieldOf(data, p + n, k) /\ z = TwoTo(k) /\ y < z
    <3>0. p + n \in Nat
      BY <1>2
    <3>1. FieldOf(data, p, n) \in Nat
      BY <1>2, FieldFits
    <3>2. FieldOf(data, p + n, k) \in Nat /\ FieldOf(data, p + n, k) < TwoTo(k)
      BY <3>0, FieldFits
    <3> QED BY <3>1, <3>2, Powers
  <2>3. f = x * z + y
    <3>1. FieldOf(data, p, n + k) = FieldOf(data, p, n) * TwoTo(k) + FieldOf(data, p + n, k)
      BY <1>2, FieldInTwo
    <3> QED BY <1>3, <2>1, <2>2, <3>1
  <2>4. t = z * u
    BY <1>2, <1>3, <2>1, <2>2, PowerOfSum
  <2>5. PICK v \in Nat : v = y * u /\ v \in 0 .. t - 1
    <3>1. y * u \in Nat /\ z * u \in Nat /\ y * u < z * u
      BY <1>3, <2>2, Multiples
    <3> QED BY <2>4, <3>1
  <2>6. (x * z + y) * u = x * (z * u) + y * u
    OBVIOUS
  <2>7. f * u = x * t + v
    BY <2>3, <2>4, <2>5, <2>6, Zenon
  <2>8. (x * t + v) \div t = x
    BY <2>5, Quotients
  <2> QED BY <1>1, <1>3, <1>4, <1>5, <2>2, <2>7, <2>8
<1>6. CASE ~ (n <= b)
  <2>1. PICK k \in Nat : k = n - b /\ w - b = k + (w - n)
    BY <1>2, <1>6
  <2>2. PICK z \in Nat : z = TwoTo(k)
    BY Powers
  <2>3. u = z * t
    BY <1>2, <1>3, <2>1, <2>2, PowerOfSum
  <2>4. f * (z * t) = (f * z) * t + 0
    OBVIOUS
  <2>5. f * z \in Nat /\ 0 \in 0 .. t - 1
    BY <1>3
  <2>6. ((f * z) * t + 0) \div t = f * z
    BY <2>5, Quotients
  <2>7. f * u = (f * z) * t + 0
    BY <2>3, <2>4, Zenon
  <2>8. InBuffer(data, p, b) \div TwoTo(WordBits - n) = f * z
    BY <1>1, <1>3, <1>4, <2>6, <2>7
  <2> QED BY <1>3, <1>6, <2>1, <2>2, <2>8
<1> QED BY <1>5, <1>6

LEMMA ShiftedIs ==
  ASSUME NEW data, Bytes(data), NEW p \in Nat, NEW b \in 0 .. WordBits, NEW n \in 0 .. WordBits
  PROVE  (InBuffer(data, p, b) * TwoTo(n)) % TwoTo(WordBits) = InBuffer(data, p + n, b - n)
<1>1. PICK w \in Nat : w = WordBits
  BY WidthsAre
<1>2. b \in Nat /\ n \in Nat /\ b <= w /\ n <= w /\ w - b \in Nat /\ p + n \in Nat
  BY <1>1
<1>3. PICK f \in Nat, u \in Nat, t \in Nat, s \in Nat :
        f = FieldOf(data, p, b) /\ u = TwoTo(w - b) /\ t = TwoTo(w) /\ s = TwoTo(n)
        /\ u > 0 /\ t > 0 /\ s > 0
  <2>1. FieldOf(data, p, b) \in Nat
    BY <1>2, FieldFits
  <2> QED BY <1>2, <2>1, Powers
<1>4. InBuffer(data, p, b) = f * u
  <2>1. ~ (b < 0)
    BY <1>2
  <2> QED BY <1>1, <1>3, <2>1 DEF InBuffer
<1>5. CASE n <= b
  <2>1. PICK k \in Nat : k = b - n /\ b = n + k /\ w - k = (w - b) + n /\ w = k + (w - k) /\ w - k \in Nat
    BY <1>2, <1>5
  <2>2. PICK x \in Nat, y \in Nat, z \in Nat :
          x = FieldOf(data, p, n) /\ y = FieldOf(data, p + n, k) /\ z = TwoTo(k) /\ y < z
    <3>1. FieldOf(data, p, n) \in Nat
      BY <1>2, FieldFits
    <3>2. FieldOf(data, p + n, k) \in Nat /\ FieldOf(data, p + n, k) < TwoTo(k)
      BY <1>2, FieldFits
    <3> QED BY <3>1, <3>2, Powers
  <2>3. f = x * z + y
    <3>1. FieldOf(data, p, n + k) = FieldOf(data, p, n) * TwoTo(k) + FieldOf(data, p + n, k)
      BY <1>2, FieldInTwo
    <3> QED BY <1>3, <2>1, <2>2, <3>1
  <2>4. PICK l \in Nat : l = TwoTo(w - k) /\ l = u * s /\ t = z * l /\ l > 0
    <3>1. TwoTo((w - b) + n) = TwoTo(w - b) * TwoTo(n)
      BY <1>2, PowerOfSum
    <3>2. TwoTo(k + (w - k)) = TwoTo(k) * TwoTo(w - k)
      BY <2>1, PowerOfSum
    <3>3. TwoTo(w - k) \in Nat /\ TwoTo(w - k) > 0
      BY <2>1, Powers
    <3> QED BY <1>3, <2>1, <2>2, <3>1, <3>2, <3>3
  <2>5. PICK v \in Nat : v = y * l /\ v \in 0 .. t - 1
    <3>1. y * l \in Nat /\ z * l \in Nat /\ y * l < z * l
      BY <2>2, <2>4, Multiples
    <3> QED BY <2>4, <3>1
  <2>6. ((x * z + y) * u) * s = x * (z * (u * s)) + y * (u * s)
    <3>1. ((x * z + y) * u) * s = (x * z + y) * (u * s)
      OBVIOUS
    <3>2. PICK c \in Nat : c = u * s
      OBVIOUS
    <3>3. (x * z + y) * c = x * (z * c) + y * c
      OBVIOUS
    <3> QED BY <3>1, <3>2, <3>3, Zenon
  <2>7. (f * u) * s = x * t + v
    BY <2>3, <2>4, <2>5, <2>6, Zenon
  <2>8. (x * t + v) % t = v
    BY <2>5, Quotients
  <2>9. InBuffer(data, p + n, b - n) = v
    <3>1. ~ (k < 0)
      OBVIOUS
    <3> QED BY <1>1, <2>1, <2>2, <2>4, <2>5, <3>1 DEF InBuffer
  <2> QED BY <1>1, <1>3, <1>4, <2>7, <2>8, <2>9, Zenon
<1>6. CASE ~ (n <= b)
  <2>1. PICK k \in Nat : k = n - b /\ (w - b) + n = k + w
    BY <1>2, <1>6
  <2>2. PICK z \in Nat : z = TwoTo(k)
    BY Powers
  <2>3. u * s = z * t
    <3>1. TwoTo((w - b) + n) = TwoTo(w - b) * TwoTo(n)
      BY <1>2, PowerOfSum
    <3>2. TwoTo(k + w) = TwoTo(k) * TwoTo(w)
      BY PowerOfSum
    <3> QED BY <1>3, <2>1, <2>2, <3>1, <3>2
  <2>4. (f * u) * s = f * (u * s) /\ f * (z * t) = (f * z) * t + 0
    OBVIOUS
  <2>5. f * z \in Nat /\ 0 \in 0 .. t - 1
    BY <1>3
  <2>6. ((f * z) * t + 0) % t = 0
    BY <2>5, Quotients
  <2>7. (f * u) * s = (f * z) * t + 0
    BY <2>3, <2>4, Zenon
  <2>8. b - n < 0
    BY <1>2, <1>6
  <2>9. InBuffer(data, p + n, b - n) = 0
    BY <2>8 DEF InBuffer
  <2> QED BY <1>1, <1>3, <1>4, <2>6, <2>7, <2>9, Zenon
<1> QED BY <1>5, <1>6

LEMMA RemoveHolds ==
  ASSUME NEW r, NEW data, Bytes(data), NEW p, Holds(r, data, p), r.bits >= 0,
         NEW n \in 1 .. WordBits, n <= r.bits \/ Guaranteed <= r.bits
  PROVE  /\ Holds(bitstream_remove(r, n), data, p + n)
         /\ bitstream_remove(r, n).bits = r.bits - n
<1>1. PICK m \in Nat, w \in Nat : m = ByteBits /\ w = WordBits /\ m > 0 /\ w >= 2 * m
  BY WidthsAre
<1>2. PICK b \in 0 .. WordBits, d \in Nat :
        b = r.bits /\ d = r.doffset /\ p \in Nat /\ p + b = ByteStart(d) /\ r.buffer = InBuffer(data, p, b)
  <2>1. r.bits \in Int /\ r.bits <= WordBits
    BY DEF Holds
  <2>2. r.bits \in 0 .. WordBits
    BY <1>1, <2>1
  <2> QED BY <2>2 DEF Holds
<1>3. b \in Nat /\ b <= w /\ n \in Nat /\ n <= w /\ n \in 0 .. WordBits
  BY <1>1, <1>2
<1>4. PICK s : s = bitstream_remove(r, n)
  OBVIOUS
<1>5. PICK v : v = IF n >= WordBits THEN 0 ELSE (r.buffer * TwoTo(n)) % TwoTo(WordBits)
  OBVIOUS
<1>6. s = [buffer |-> v, bits |-> b - n, doffset |-> d]
  BY <1>2, <1>4, <1>5 DEF bitstream_remove, Holds, BitsRecord
<1>7. v = InBuffer(data, p + n, b - n)
  <2>1. CASE n >= WordBits
    <3>1. b - n < 0 \/ (b - n = 0 /\ p + n \in Nat)
      BY <1>1, <1>2, <1>3, <2>1
    <3>2. CASE b - n < 0
      BY <1>5, <2>1, <3>2 DEF InBuffer
    <3>3. CASE b - n = 0 /\ p + n \in Nat
      <4>1. FieldOf(data, p + n, 0) = 0
        BY <3>3, NoBits
      <4>2. PICK t \in Nat : t = TwoTo(w - 0)
        <5>1. w - 0 \in Nat
          OBVIOUS
        <5> QED BY <5>1, Powers
      <4>3. 0 * t = 0 /\ ~ (0 < 0)
        OBVIOUS
      <4>4. InBuffer(data, p + n, 0) = 0 * t
        BY <1>1, <4>1, <4>2, <4>3 DEF InBuffer
      <4> QED BY <1>5, <2>1, <3>3, <4>3, <4>4
    <3> QED BY <3>1, <3>2, <3>3
  <2>2. CASE ~ (n >= WordBits)
    <3>1. v = (InBuffer(data, p, b) * TwoTo(n)) % TwoTo(WordBits)
      BY <1>2, <1>5, <2>2
    <3> QED BY <1>2, <1>3, <3>1, ShiftedIs
  <2> QED BY <2>1, <2>2
<1>8. s.buffer = v /\ s.bits = b - n /\ s.doffset = d /\ BitsRecord(s)
  BY <1>6 DEF BitsRecord
<1>9. (b - n) + m > 0 /\ b - n <= w /\ b - n \in Int
  <2>1. n <= b \/ w - m + 1 <= b
    BY <1>1, <1>2 DEF Guaranteed
  <2> QED BY <1>1, <1>3, <2>1
<1>10. p + n \in Nat /\ (p + n) + (b - n) = ByteStart(d)
  <2>1. (p + n) + (b - n) = p + b /\ p + n \in Nat
    BY <1>2, <1>3
  <2> QED BY <1>2, <2>1
<1>11. Holds(s, data, p + n)
  BY <1>1, <1>2, <1>7, <1>8, <1>9, <1>10 DEF Holds
<1> QED BY <1>2, <1>4, <1>8, <1>11

LEMMA ReadHolds ==
  ASSUME NEW r, NEW data, Bytes(data), NEW p, Holds(r, data, p), NEW n \in 1 .. WordBits
  PROVE  \E b \in 0 .. WordBits :
           /\ n <= b \/ Guaranteed <= b
           /\ Holds(bitstream_read(r, data, n), data, p + n)
           /\ bitstream_read(r, data, n).bits = b - n
           /\ bitstream_peek(r, data, n)
                = IF n <= b THEN FieldOf(data, p, n) ELSE FieldOf(data, p, b) * TwoTo(n - b)
<1>1. PICK f : f = Filled(r, data, n)
  OBVIOUS
<1>2. Holds(f, data, p) /\ f.bits >= 0 /\ (n <= f.bits \/ Guaranteed <= f.bits)
  BY <1>1, FilledHolds
<1>3. PICK b \in 0 .. WordBits : b = f.bits /\ f.buffer = InBuffer(data, p, b) /\ p \in Nat
  <2>1. f.bits \in Int /\ f.bits <= WordBits
    BY <1>2 DEF Holds
  <2>2. f.bits \in 0 .. WordBits
    BY <1>2, <2>1, WidthsAre
  <2> QED BY <1>2, <2>2 DEF Holds
<1>4. /\ Holds(bitstream_remove(f, n), data, p + n)
      /\ bitstream_remove(f, n).bits = b - n
  BY <1>2, <1>3, RemoveHolds
<1>5. bitstream_read(r, data, n) = bitstream_remove(f, n)
  BY <1>1 DEF bitstream_read
<1>6. bitstream_peek(r, data, n) = InBuffer(data, p, b) \div TwoTo(WordBits - n)
  <2>1. n # 0
    OBVIOUS
  <2> QED BY <1>1, <1>3, <2>1 DEF bitstream_peek
<1>7. n \in 0 .. WordBits
  OBVIOUS
<1>8. InBuffer(data, p, b) \div TwoTo(WordBits - n)
        = IF n <= b THEN FieldOf(data, p, n) ELSE FieldOf(data, p, b) * TwoTo(n - b)
  BY <1>3, <1>7, TopIs
<1> QED BY <1>2, <1>3, <1>4, <1>5, <1>6, <1>8

(* A field read has its width.                                              *)
LEMMA ReadFits ==
  ASSUME NEW data, Bytes(data), NEW p \in Nat, NEW b \in 0 .. WordBits, NEW n \in 1 .. WordBits,
         NEW v, v = IF n <= b THEN FieldOf(data, p, n) ELSE FieldOf(data, p, b) * TwoTo(n - b)
  PROVE  v \in 0 .. TwoTo(n) - 1
<1>0. b \in Nat /\ n \in Nat
  BY WidthsAre
<1>1. PICK t \in Nat : t = TwoTo(n)
  BY <1>0, Powers
<1>2. CASE n <= b
  <2>1. FieldOf(data, p, n) \in Nat /\ FieldOf(data, p, n) < t
    BY <1>0, <1>1, FieldFits
  <2> QED BY <1>1, <1>2, <2>1
<1>3. CASE ~ (n <= b)
  <2>1. PICK k \in Nat : k = n - b /\ n = b + k
    BY <1>0, <1>3
  <2>2. FieldOf(data, p, b) \in Nat /\ FieldOf(data, p, b) < TwoTo(b)
    BY <1>0, FieldFits
  <2>3. PICK x \in Nat, y \in Nat, z \in Nat :
          x = FieldOf(data, p, b) /\ y = TwoTo(b) /\ z = TwoTo(k) /\ x < y /\ z > 0
    BY <1>0, <2>2, Powers
  <2>4. t = y * z
    BY <1>0, <1>1, <2>1, <2>3, PowerOfSum
  <2>5. x * z \in Nat /\ x * z < t
    BY <2>3, <2>4, Multiples
  <2>6. v = x * z
    BY <1>3, <2>1, <2>3
  <2> QED BY <1>1, <2>5, <2>6
<1> QED BY <1>2, <1>3

Emptied(q) == [buffer |-> 0, bits |-> 0, doffset |-> q]

LEMMA EmptyHolds ==
  ASSUME NEW data, Bytes(data), NEW q \in Nat
  PROVE  Holds(Emptied(q), data, ByteStart(q))
<1>1. PICK m \in Nat, w \in Nat : m = ByteBits /\ w = WordBits /\ m > 0
  BY WidthsAre
<1>2. PICK p \in Nat : p = ByteStart(q)
  BY <1>1 DEF ByteStart
<1>3. PICK t \in Nat : t = TwoTo(w - 0)
  <2>1. w - 0 \in Nat
    OBVIOUS
  <2> QED BY <2>1, Powers
<1>4. 0 * t = 0 /\ ~ (0 < 0)
  OBVIOUS
<1>5. InBuffer(data, p, 0) = 0 * t
  <2>1. FieldOf(data, p, 0) = 0
    BY NoBits
  <2> QED BY <1>1, <1>3, <1>4, <2>1 DEF InBuffer
<1>6. PICK s : s = Emptied(q)
  OBVIOUS
<1>7. s.buffer = 0 /\ s.bits = 0 /\ s.doffset = q /\ BitsRecord(s)
  BY <1>6 DEF Emptied, BitsRecord
<1>8. 0 + m > 0 /\ 0 <= w /\ p + 0 = p
  BY <1>1
<1> QED BY <1>1, <1>2, <1>4, <1>5, <1>6, <1>7, <1>8 DEF Holds

LEMMA SeekHolds ==
  ASSUME NEW data, Bytes(data), NEW r, NEW p \in Nat
  PROVE  /\ Holds(bitstream_seek_bits(r, data, p), data, p)
         /\ bitstream_seek_bits(r, data, p).bits >= 0
<1>1. PICK m \in Nat, w \in Nat : m = ByteBits /\ w = WordBits /\ m > 0 /\ w >= 2 * m
  BY WidthsAre
<1>2. PICK q \in Nat, i \in Nat : q = p \div m /\ i = p % m /\ p = q * m + i /\ i < m
  <2>1. p \div m \in Nat /\ p % m \in 0 .. m - 1 /\ p = (p \div m) * m + (p % m)
    BY <1>1
  <2> QED BY <2>1
<1>3. PICK o \in Nat : o = ByteStart(q) /\ p = o + i
  BY <1>1, <1>2 DEF ByteStart
<1>4. Holds(Emptied(q), data, o)
  BY <1>3, EmptyHolds
<1>5. bitstream_seek_bits(r, data, p) = IF i = 0 THEN Emptied(q) ELSE bitstream_read(Emptied(q), data, i)
  BY <1>1, <1>2 DEF bitstream_seek_bits, Emptied
<1>6. CASE i = 0
  <2>1. bitstream_seek_bits(r, data, p) = Emptied(q) /\ o = p
    BY <1>3, <1>5, <1>6
  <2>2. Emptied(q).bits = 0
    BY DEF Emptied
  <2> QED BY <1>4, <2>1, <2>2
<1>7. CASE i # 0
  <2>1. i \in 1 .. WordBits
    BY <1>1, <1>2, <1>7
  <2>2. PICK b \in 0 .. WordBits :
          /\ i <= b \/ Guaranteed <= b
          /\ Holds(bitstream_read(Emptied(q), data, i), data, o + i)
          /\ bitstream_read(Emptied(q), data, i).bits = b - i
    BY <1>4, <2>1, ReadHolds
  <2>3. b - i >= 0
    <3>1. i <= b \/ w - m + 1 <= b
      BY <1>1, <2>2 DEF Guaranteed
    <3>2. b \in Nat
      BY <1>1
    <3> QED BY <1>1, <1>2, <3>1, <3>2
  <2> QED BY <1>3, <1>5, <1>7, <2>2, <2>3
<1> QED BY <1>6, <1>7

-----------------------------------------------------------------------------
(* The reader in use.  What is buffered are the bits from the position on,  *)
(* and they are owed only after a field that was wider than what an         *)
(* accumulator that is filled guarantees.                                   *)
ReaderInv ==
  /\ tape \in Tapes
  /\ Holds(bs, tape, Position)
  /\ bs.bits < 0 => asked > Guaranteed
  /\ asked \in 0 .. WordBits
  /\ results \in 0 .. (IF asked = 0 THEN Horizon ELSE TwoTo(asked) - 1)

LEMMA TapesAreBytes ==
  ASSUME NEW t \in Tapes
  PROVE  Bytes(t)
BY ReaderAssumption DEF Bytes

LEMMA PositionIs ==
  ASSUME NEW r, NEW data, NEW p, Holds(r, data, p)
  PROVE  r.doffset * ByteBits - r.bits = p
<1>1. PICK m \in Nat, d \in Nat, b \in Int :
        m = ByteBits /\ d = r.doffset /\ b = r.bits /\ p \in Nat /\ p + b = d * m
  <2>1. ByteBits \in Nat
    BY WidthsAre
  <2> QED BY <2>1 DEF Holds, ByteStart
<1>2. d * m \in Nat
  OBVIOUS
<1> QED BY <1>1, <1>2

LEMMA ReaderInvInit == BitReaderInit => ReaderInv
<1> SUFFICES ASSUME BitReaderInit PROVE ReaderInv
  OBVIOUS
<1>1. tape \in Tapes /\ bs = Emptied(0) /\ asked = 0 /\ results = 0
  BY DEF BitReaderInit, create_bitstream, Emptied
<1>2. PICK z \in Nat : z = 0
  OBVIOUS
<1>3. Holds(bs, tape, ByteStart(z))
  BY <1>1, <1>2, EmptyHolds, TapesAreBytes
<1>4. Holds(bs, tape, Position)
  BY <1>3, PositionIs DEF Position, bitstream_position_bits
<1>5. bs.bits = 0
  BY <1>1 DEF Emptied
<1>6. ~ (bs.bits < 0) /\ asked \in 0 .. WordBits
  BY <1>1, <1>5, WidthsAre
<1>7. results \in 0 .. Horizon
  BY <1>1, ReaderAssumption
<1> QED BY <1>1, <1>4, <1>6, <1>7 DEF ReaderInv

(* What a field, a seek and a flush do to the position.                     *)
LEMMA ReadFieldIs ==
  ASSUME ReaderInv, NEW n \in Widths, ReadField(n)
  PROVE  /\ ReaderInv' /\ Position' = Position + n /\ tape' = tape /\ asked' = n
         /\ \E b \in 0 .. WordBits :
              /\ n <= b \/ Guaranteed <= b
              /\ results' = IF n <= b THEN FieldOf(tape, Position, n)
                                      ELSE FieldOf(tape, Position, b) * TwoTo(n - b)
<1>1. /\ results' = bitstream_peek(bs, tape, n) /\ bs' = bitstream_read(bs, tape, n)
      /\ asked' = n /\ tape' = tape
  BY DEF ReadField
<1>2. PICK p : p = Position /\ Holds(bs, tape, p) /\ p \in Nat /\ tape \in Tapes /\ Bytes(tape)
  BY TapesAreBytes DEF ReaderInv, Holds
<1>3. n \in 1 .. WordBits
  BY ReaderAssumption
<1>4. PICK b \in 0 .. WordBits :
        /\ n <= b \/ Guaranteed <= b
        /\ Holds(bitstream_read(bs, tape, n), tape, p + n)
        /\ bitstream_read(bs, tape, n).bits = b - n
        /\ bitstream_peek(bs, tape, n)
             = IF n <= b THEN FieldOf(tape, p, n) ELSE FieldOf(tape, p, b) * TwoTo(n - b)
  <2>1. PICK r, t : r = bs /\ t = tape
    OBVIOUS
  <2>2. Holds(r, t, p) /\ Bytes(t)
    BY <1>2, <2>1
  <2>3. \E b \in 0 .. WordBits :
          /\ n <= b \/ Guaranteed <= b
          /\ Holds(bitstream_read(r, t, n), t, p + n)
          /\ bitstream_read(r, t, n).bits = b - n
          /\ bitstream_peek(r, t, n)
               = IF n <= b THEN FieldOf(t, p, n) ELSE FieldOf(t, p, b) * TwoTo(n - b)
    <3> HIDE <1>1, <1>2, <2>1
    <3> QED BY <1>3, <2>2, ReadHolds
  <2> QED BY <2>1, <2>3, Zenon
<1>5. Holds(bs', tape', p + n)
  BY <1>1, <1>4
<1>6. Position' = p + n
  BY <1>5, PositionIs DEF Position, bitstream_position_bits
<1>7. results' = IF n <= b THEN FieldOf(tape, p, n) ELSE FieldOf(tape, p, b) * TwoTo(n - b)
  BY <1>1, <1>4
<1>8. results' \in 0 .. TwoTo(n) - 1
  BY <1>2, <1>3, <1>7, ReadFits
<1>9. bs'.bits < 0 => n > Guaranteed
  <2>1. PICK g \in Int : g = Guaranteed
    BY WidthsAre DEF Guaranteed
  <2>2. b \in Nat /\ n \in Nat /\ (n <= b \/ g <= b)
    BY <1>3, <1>4, <2>1, WidthsAre
  <2>3. bs'.bits = b - n
    BY <1>1, <1>4
  <2>4. b - n < 0 => n > g
    BY <2>1, <2>2
  <2> QED BY <2>1, <2>3, <2>4
<1>10. n # 0 /\ n \in 0 .. WordBits
  BY <1>3
<1>11. ReaderInv'
  BY <1>1, <1>2, <1>5, <1>6, <1>8, <1>9, <1>10 DEF ReaderInv
<1> QED BY <1>1, <1>2, <1>4, <1>6, <1>7, <1>11

LEMMA SeekToIs ==
  ASSUME ReaderInv, NEW p \in 0 .. Horizon, SeekTo(p)
  PROVE  ReaderInv' /\ Position' = p /\ tape' = tape /\ asked' = 0 /\ results' = p
<1>1. /\ bs' = bitstream_seek_bits(bs, tape, p) /\ asked' = 0 /\ results' = p /\ tape' = tape
  BY DEF SeekTo
<1>2. tape \in Tapes /\ Bytes(tape)
  BY TapesAreBytes DEF ReaderInv
<1>3. p \in Nat
  BY ReaderAssumption
<1>4. Holds(bs', tape', p) /\ bs'.bits >= 0
  BY <1>1, <1>2, <1>3, SeekHolds
<1>5. Position' = p
  BY <1>4, PositionIs DEF Position, bitstream_position_bits
<1>6. ~ (bs'.bits < 0) /\ asked' \in 0 .. WordBits
  <2>1. bs'.bits \in Int
    BY <1>4 DEF Holds
  <2> QED BY <1>1, <1>4, <2>1, WidthsAre
<1>7. ReaderInv'
  BY <1>1, <1>2, <1>4, <1>5, <1>6 DEF ReaderInv
<1> QED BY <1>1, <1>5, <1>7

(* A flush goes on to the next whole byte, or, when bits are owed, back to  *)
(* the one the position is in.                                              *)
LEMMA FlushIs ==
  ASSUME ReaderInv, Flush
  PROVE  /\ ReaderInv' /\ tape' = tape /\ asked' = 0 /\ results' = 0
         /\ \/ Position' = ((Position + ByteBits - 1) \div ByteBits) * ByteBits
            \/ asked > Guaranteed /\ Position' = (Position \div ByteBits) * ByteBits
<1>1. bs' = Emptied(bitstream_read_offset(bs)) /\ asked' = 0 /\ results' = 0 /\ tape' = tape
  BY DEF Flush, bitstream_flush, Emptied
<1>2. tape \in Tapes /\ Bytes(tape)
  BY TapesAreBytes DEF ReaderInv
<1>3. PICK m \in Nat, w \in Nat : m = ByteBits /\ w = WordBits /\ m > 0
  BY WidthsAre
<1>4. PICK p \in Nat, d \in Nat, b \in Int :
        p = Position /\ d = bs.doffset /\ b = bs.bits /\ p + b = d * m /\ b + m > 0
  BY <1>3 DEF ReaderInv, Holds, ByteStart
<1>5. \E q \in Nat :
        /\ bitstream_read_offset(bs) = q
        /\ \/ q * m = ((p + m - 1) \div m) * m
           \/ b < 0 /\ q * m = (p \div m) * m
  <2>1. CASE b >= 0
    <3>1. PICK k \in Nat, e \in Nat : k = b \div m /\ b = k * m + e /\ e < m
      <4>1. b \in Nat
        BY <2>1
      <4>2. b \div m \in Nat /\ b % m \in 0 .. m - 1 /\ b = (b \div m) * m + (b % m)
        BY <1>3, <4>1
      <4> QED BY <4>2
    <3>2. UnreadBytes(bs) = k
      <4>1. CASE b >= m
        BY <1>3, <1>4, <3>1, <4>1 DEF UnreadBytes
      <4>2. CASE ~ (b >= m)
        <5>1. k = 0
          <6>1. b \div m = 0
            BY <1>3, <2>1, <4>2
          <6> QED BY <3>1, <6>1
        <5> QED BY <1>3, <1>4, <4>2, <5>1 DEF UnreadBytes
      <4> QED BY <4>1, <4>2
    <3>3. PICK x \in Nat, y \in Nat : x = d * m /\ y = k * m
      OBVIOUS
    <3>4. y <= x
      BY <1>4, <3>1, <3>3
    <3>5. k <= d
      <4>1. k > d => y > x
        BY <1>3, <3>3
      <4> QED BY <3>4, <4>1
    <3>6. PICK q \in Nat : q = d - k /\ q * m = x - y
      <4>1. (d - k) * m = d * m - k * m
        OBVIOUS
      <4> QED BY <3>3, <3>5, <4>1
    <3>7. PICK i \in 0 .. m - 1 : i = m - 1 - e
      BY <3>1
    <3>8. p + m - 1 = q * m + i
      BY <1>4, <3>1, <3>3, <3>6, <3>7
    <3>9. (q * m + i) \div m = q
      BY Quotients
    <3>10. bitstream_read_offset(bs) = q
      BY <1>4, <3>2, <3>6 DEF bitstream_read_offset
    <3> QED BY <3>8, <3>9, <3>10
  <2>2. CASE b < 0
    <3>1. PICK c \in 0 .. m - 1 : c = 0 - b
      BY <1>4, <2>2
    <3>2. PICK x \in Nat : x = d * m
      OBVIOUS
    <3>3. p = d * m + c
      BY <1>4, <3>1, <3>2
    <3>4. (d * m + c) \div m = d
      BY Quotients
    <3>5. bitstream_read_offset(bs) = d
      <4>1. ~ (b >= m)
        BY <2>2
      <4>2. UnreadBytes(bs) = 0
        BY <1>3, <1>4, <4>1 DEF UnreadBytes
      <4> QED BY <1>4, <4>2 DEF bitstream_read_offset
    <3> QED BY <2>2, <3>3, <3>4, <3>5
  <2> QED BY <2>1, <2>2
<1>6. PICK q \in Nat :
        /\ bitstream_read_offset(bs) = q
        /\ \/ q * m = ((p + m - 1) \div m) * m
           \/ b < 0 /\ q * m = (p \div m) * m
  BY <1>5
<1>7. Holds(bs', tape', ByteStart(q))
  BY <1>1, <1>2, <1>6, EmptyHolds
<1>8. Position' = q * m
  <2>1. Position' = ByteStart(q)
    BY <1>7, PositionIs DEF Position, bitstream_position_bits
  <2> QED BY <1>3, <2>1 DEF ByteStart
<1>9. Holds(bs', tape', Position')
  BY <1>3, <1>7, <1>8 DEF ByteStart
<1>10. ~ (bs'.bits < 0)
  <2>1. bs'.bits = 0
    BY <1>1 DEF Emptied
  <2> QED BY <2>1
<1>11. asked' \in 0 .. WordBits /\ results' \in 0 .. Horizon
  BY <1>1, WidthsAre, ReaderAssumption
<1>12. ReaderInv'
  BY <1>1, <1>2, <1>9, <1>10, <1>11 DEF ReaderInv
<1>13. b < 0 => asked > Guaranteed
  BY <1>4 DEF ReaderInv
<1> QED BY <1>1, <1>3, <1>4, <1>6, <1>8, <1>12, <1>13

LEMMA ReaderInvKeeps ==
  ASSUME ReaderInv, [BitReaderNext]_readervars
  PROVE  ReaderInv'
<1>1. ASSUME NEW n \in Widths, ReadField(n) PROVE ReaderInv'
  BY <1>1, ReadFieldIs
<1>2. ASSUME NEW p \in 0 .. Horizon, SeekTo(p) PROVE ReaderInv'
  BY <1>2, SeekToIs
<1>3. ASSUME Flush PROVE ReaderInv'
  BY <1>3, FlushIs
<1>4. ASSUME UNCHANGED readervars PROVE ReaderInv'
  <2>1. bs' = bs /\ tape' = tape /\ asked' = asked /\ results' = results
    BY <1>4 DEF readervars
  <2>2. Position' = Position
    BY <2>1 DEF Position, bitstream_position_bits
  <2> QED BY <2>1, <2>2 DEF ReaderInv
<1> QED BY <1>1, <1>2, <1>3, <1>4 DEF BitReaderNext

(* What is buffered are the bits of the string from the position on: the    *)
(* inductive invariant of the bit reader (bitstream_peek, bitstream_remove, *)
(* bitstream_flush and bitstream_seek_bits in any order).                   *)
THEOREM ReaderInvHolds == BitReaderSpec => []ReaderInv
<1>1. BitReaderInit => ReaderInv
  BY ReaderInvInit
<1>2. ReaderInv /\ [BitReaderNext]_readervars => ReaderInv'
  BY ReaderInvKeeps
<1> QED BY <1>1, <1>2, PTL DEF BitReaderSpec

(* Less than the whole accumulator is in use, and zeros are below.          *)
LEMMA BufferIsInWord ==
  ASSUME NEW data, Bytes(data), NEW p \in Nat, NEW b \in 0 .. WordBits
  PROVE  /\ InBuffer(data, p, b) \in 0 .. TwoTo(WordBits) - 1
         /\ InBuffer(data, p, b) % TwoTo(WordBits - b) = 0
<1>1. PICK w \in Nat : w = WordBits /\ b \in Nat /\ w - b \in Nat /\ w = b + (w - b)
  BY WidthsAre
<1>2. FieldOf(data, p, b) \in Nat /\ FieldOf(data, p, b) < TwoTo(b)
  BY <1>1, FieldFits
<1>3. PICK f \in Nat, x \in Nat, u \in Nat :
        f = FieldOf(data, p, b) /\ x = TwoTo(b) /\ u = TwoTo(w - b) /\ f < x /\ u > 0
  BY <1>1, <1>2, Powers
<1>4. TwoTo(w) = x * u
  <2>1. TwoTo(b + (w - b)) = TwoTo(b) * TwoTo(w - b)
    BY <1>1, PowerOfSum
  <2> QED BY <1>1, <1>3, <2>1
<1>5. f * u \in Nat /\ x * u \in Nat /\ f * u < x * u
  BY <1>3, Multiples
<1>6. (f * u + 0) % u = 0
  BY <1>3, Quotients
<1>7. f * u + 0 = f * u
  BY <1>5
<1>8. InBuffer(data, p, b) = f * u
  <2>1. ~ (b < 0)
    BY <1>1
  <2> QED BY <1>1, <1>3, <2>1 DEF InBuffer
<1>9. f * u \in 0 .. TwoTo(w) - 1
  BY <1>4, <1>5
<1> QED BY <1>1, <1>3, <1>6, <1>7, <1>8, <1>9

LEMMA InvIsTyped == ReaderInv => BitstreamTypeOK
<1> SUFFICES ASSUME ReaderInv PROVE BitstreamTypeOK
  OBVIOUS
<1>1. PICK p \in Nat, d \in Nat, b \in Int :
        /\ d = bs.doffset /\ b = bs.bits /\ bs.buffer = InBuffer(tape, p, b)
        /\ b + ByteBits > 0 /\ b <= WordBits
  BY DEF ReaderInv, Holds
<1>2. PICK m \in Nat, w \in Nat : m = ByteBits /\ w = WordBits /\ m > 0
  BY WidthsAre
<1>3. Bytes(tape) /\ tape \in Tapes
  BY TapesAreBytes DEF ReaderInv
<1>4. b \in -m + 1 .. w
  BY <1>1, <1>2
<1>5. bs.buffer \in 0 .. TwoTo(WordBits) - 1
      /\ bs.buffer % TwoTo(WordBits - (IF b < 0 THEN 0 ELSE b)) = 0
  <2>1. CASE b < 0
    <3>1. PICK t \in Nat, u \in Nat : t = TwoTo(w) /\ t > 0 /\ u = TwoTo(w - 0) /\ u > 0
      <4>1. w - 0 \in Nat
        OBVIOUS
      <4> QED BY <4>1, Powers
    <3>2. bs.buffer = 0
      BY <1>1, <2>1 DEF InBuffer
    <3>3. 0 % u = 0 /\ 0 \in 0 .. t - 1
      BY <3>1
    <3> QED BY <1>2, <2>1, <3>1, <3>2, <3>3
  <2>2. CASE ~ (b < 0)
    <3>1. b \in 0 .. WordBits
      BY <1>1, <1>2, <2>2
    <3>2. /\ InBuffer(tape, p, b) \in 0 .. TwoTo(WordBits) - 1
          /\ InBuffer(tape, p, b) % TwoTo(WordBits - b) = 0
      BY <1>3, <3>1, BufferIsInWord
    <3> QED BY <1>1, <2>2, <3>2
  <2> QED BY <2>1, <2>2
<1>6. /\ b < 0 => asked > Guaranteed
      /\ results \in 0 .. (IF asked = 0 THEN Horizon ELSE TwoTo(asked) - 1)
  BY <1>1 DEF ReaderInv
<1> QED BY <1>1, <1>2, <1>3, <1>4, <1>5, <1>6 DEF BitstreamTypeOK

LEMMA InvIsExact == ReaderInv => OverflowIsExact
<1> SUFFICES ASSUME ReaderInv PROVE OverflowIsExact
  OBVIOUS
<1>1. PICK m \in Nat, l \in Nat : m = ByteBits /\ m > 0 /\ l = Length(tape)
  BY WidthsAre, TapesAreBytes DEF ReaderInv, Bytes
<1>2. PICK p \in Nat, d \in Nat, b \in Int :
        p = Position /\ d = bs.doffset /\ b = bs.bits /\ p + b = d * m /\ b + m > 0
  BY <1>1 DEF ReaderInv, Holds, ByteStart
<1>3. PICK x \in Nat, y \in Nat : x = d * m /\ y = m * l
  OBVIOUS
<1>4. CASE b >= 0
  <2>1. PICK k \in Nat, e \in Nat : k = b \div m /\ b = k * m + e /\ e < m
    <3>1. b \in Nat
      BY <1>4
    <3>2. b \div m \in Nat /\ b % m \in 0 .. m - 1 /\ b = (b \div m) * m + (b % m)
      BY <1>1, <3>1
    <3> QED BY <3>2
  <2>2. bitstream_overflow(bs, tape) <=> d - k > l
    BY <1>1, <1>2, <1>4, <2>1 DEF bitstream_overflow
  <2>3. PICK q \in Int : q = d - k
    OBVIOUS
  <2>4. PICK z \in Int : z = q * m
    OBVIOUS
  <2>5. p = z - e
    <3>1. (d - k) * m = d * m - k * m
      OBVIOUS
    <3>2. PICK v \in Nat : v = k * m
      OBVIOUS
    <3>3. z = x - v
      BY <1>3, <2>3, <2>4, <3>1, <3>2
    <3> QED BY <1>2, <1>3, <2>1, <3>2, <3>3
  <2>6. q > l => z >= y + m
    <3>1. ASSUME q > l PROVE z >= y + m
      <4>1. PICK c \in Nat : q = (l + 1) + c
        <5>1. q - (l + 1) \in Nat /\ q = (l + 1) + (q - (l + 1))
          BY <3>1
        <5> QED BY <5>1
      <4>2. ((l + 1) + c) * m = m * l + m + c * m /\ c * m \in Nat
        OBVIOUS
      <4>3. PICK v \in Nat : v = c * m
        OBVIOUS
      <4> QED BY <1>3, <2>4, <4>1, <4>2, <4>3
    <3> QED BY <3>1
  <2>7. ~ (q > l) => z <= y
    <3>1. ASSUME ~ (q > l) PROVE z <= y
      <4>1. PICK c \in Nat : l = q + c
        <5>1. l - q \in Nat /\ l = q + (l - q)
          BY <3>1
        <5> QED BY <5>1
      <4>2. m * (q + c) = q * m + c * m /\ c * m \in Nat
        OBVIOUS
      <4>3. PICK v \in Nat : v = c * m
        OBVIOUS
      <4> QED BY <1>3, <2>4, <4>1, <4>2, <4>3
    <3> QED BY <3>1
  <2>8. /\ q > l => p - y > 0
        /\ p - y > 0 => q > l
    BY <1>3, <2>1, <2>5, <2>6, <2>7
  <2> QED BY <1>1, <1>2, <1>3, <2>2, <2>3, <2>8 DEF OverflowIsExact
<1>5. CASE b < 0
  <2>1. PICK c \in Nat : c = 0 - b /\ c < m /\ c > 0
    BY <1>2, <1>5
  <2>2. c \div m = 0
    BY <2>1
  <2>3. bitstream_overflow(bs, tape) <=> d > l
    <3>1. ~ (b >= 0) /\ -b = c
      BY <1>5, <2>1
    <3>2. -((-b) \div m) = 0
      BY <2>2, <3>1
    <3>3. d - 0 = d
      OBVIOUS
    <3> QED BY <1>1, <1>2, <3>1, <3>2, <3>3 DEF bitstream_overflow
  <2>4. d > l => x > y
    BY <1>1, <1>3
  <2>5. ~ (d > l) => x <= y
    BY <1>1, <1>3
  <2>6. p = x + c
    BY <1>2, <1>3, <2>1
  <2>7. /\ d > l => p - y > 0
        /\ p - y > 0 => d > l \/ p - y < m
    BY <2>1, <2>4, <2>5, <2>6
  <2> QED BY <1>1, <1>2, <1>3, <1>5, <2>3, <2>7 DEF OverflowIsExact
<1> QED BY <1>4, <1>5

(* For every byte width and every accumulator of at least two bytes: the    *)
(* unused part of the accumulator is zero, and bitstream_overflow holds as  *)
(* soon as a bit past the end was used.                                     *)
THEOREM TheReaderIsExact == BitReaderSpec => []BitReaderIsExact
BY ReaderInvHolds, InvIsTyped, InvIsExact, PTL DEF BitReaderIsExact

-----------------------------------------------------------------------------
(* The reader is a source of bits.                                          *)
LEMMA SourceField ==
  /\ \A n : Source!TwoTo(n) = TwoTo(n)
  /\ \A p, n : Source!Field(p, n) = FieldOf(tape, p, n)
<1>1. \A n : Source!TwoTo(n) = TwoTo(n)
  BY DEF Source!TwoTo, TwoTo
<1>2. \A p : Source!Bit(p) = BitAt(tape, p)
  BY <1>1 DEF Source!Bit, BitAt
<1> QED BY <1>1, <1>2 DEF Source!Field, FieldOf

LEMMA ReadFieldImplements ==
  ASSUME ReaderInv, NEW n \in Widths, ReadField(n)
  PROVE  Source!Read(n)
<1>1. /\ Position' = Position + n /\ tape' = tape /\ asked' = n
  BY ReadFieldIs
<1>2. PICK b \in 0 .. WordBits :
        /\ n <= b \/ Guaranteed <= b
        /\ results' = IF n <= b THEN FieldOf(tape, Position, n)
                                ELSE FieldOf(tape, Position, b) * TwoTo(n - b)
  BY ReadFieldIs
<1>3. PICK g \in Int, p \in Nat : g = Guaranteed /\ p = Position
  BY WidthsAre DEF Guaranteed, ReaderInv, Holds
<1>4. n \in Nat /\ b \in Nat /\ p \in Nat /\ (n <= b \/ g <= b)
  BY <1>2, <1>3, WidthsAre, ReaderAssumption
<1>5. PICK cut \in 0 .. n :
        /\ cut > 0 => n > g /\ cut <= n - g
        /\ results' = FieldOf(tape, p, n - cut) * TwoTo(cut)
  <2>1. CASE n <= b
    <3>1. PICK f \in Nat : f = FieldOf(tape, p, n)
      BY <1>4, FieldFits, TapesAreBytes DEF ReaderInv
    <3>2. n - 0 = n /\ f * 1 = f /\ TwoTo(0) = 1 /\ 0 \in 0 .. n /\ ~ (0 > 0)
      BY <1>4, Powers
    <3>3. results' = FieldOf(tape, p, n - 0) * TwoTo(0)
      BY <1>2, <1>3, <2>1, <3>1, <3>2
    <3> QED BY <3>2, <3>3
  <2>2. CASE ~ (n <= b)
    <3>1. PICK c \in Nat : c = n - b /\ n - c = b /\ c \in 0 .. n /\ n > g /\ c <= n - g
      BY <1>3, <1>4, <2>2
    <3>2. results' = FieldOf(tape, p, n - c) * TwoTo(c)
      BY <1>2, <1>3, <2>2, <3>1
    <3> QED BY <3>1, <3>2
  <2> QED BY <2>1, <2>2
<1>6. results' = Source!CutField(p, n, cut)
  BY <1>5, SourceField DEF Source!CutField
<1>7. cut > 0 => Source!Wide(n) /\ cut <= n - Guaranteed
  BY <1>3, <1>5 DEF Source!Wide
<1> QED BY <1>1, <1>3, <1>6, <1>7 DEF Source!Read

LEMMA StepImplements ==
  ASSUME ReaderInv, [BitReaderNext]_readervars
  PROVE  [Source!Next]_(Source!vars)
<1>1. ASSUME NEW n \in Widths, ReadField(n) PROVE Source!Next
  BY <1>1, ReadFieldImplements DEF Source!Next
<1>2. ASSUME NEW p \in 0 .. Horizon, SeekTo(p) PROVE Source!Next
  <2>1. Source!Seek(p)
    BY <1>2, SeekToIs DEF Source!Seek
  <2> QED BY <2>1 DEF Source!Next
<1>3. ASSUME Flush PROVE Source!Next
  <2>1. Source!Align
    BY <1>3, FlushIs DEF Source!Align, Source!Wide
  <2> QED BY <2>1 DEF Source!Next
<1>4. ASSUME UNCHANGED readervars PROVE UNCHANGED Source!vars
  BY <1>4 DEF readervars, Source!vars, Position, bitstream_position_bits
<1> QED BY <1>1, <1>2, <1>3, <1>4 DEF BitReaderNext

LEMMA InitImplements == BitReaderInit => Source!Init
<1> SUFFICES ASSUME BitReaderInit PROVE Source!Init
  OBVIOUS
<1>1. tape \in Tapes /\ asked = 0 /\ results = 0 /\ bs.doffset = 0 /\ bs.bits = 0
  BY DEF BitReaderInit, create_bitstream
<1>2. 0 * ByteBits - 0 = 0
  BY WidthsAre
<1>3. Position = 0
  BY <1>1, <1>2 DEF Position, bitstream_position_bits
<1> QED BY <1>1, <1>3 DEF Source!Init

(* bitstream.c implements BitSource: whatever is read, flushed and sought,  *)
(* a field has the bits at the position, with zeros behind the end.         *)
THEOREM ReaderImplementsSource == BitReaderSpec => ReadsTheBits
<1>1. ReaderInv /\ [BitReaderNext]_readervars => [Source!Next]_(Source!vars)
  BY StepImplements
<1> QED BY <1>1, InitImplements, ReaderInvHolds, PTL DEF BitReaderSpec, ReadsTheBits, Source!Spec

-----------------------------------------------------------------------------
(* Third part: Huffman codes. The share of the windows that codes have is a *)
(* sum over the symbols.                                                    *)
Tree(lens, n) == n \in Nat /\ lens \in [0 .. n - 1 -> Nat]
Fit(lens, n, m, codes) == m \in Nat /\ codes \subseteq {i \in 0 .. n - 1 : lens[i] <= m}

Weight(lens, m, codes, i) == IF i \in codes THEN TwoTo(m - lens[i]) ELSE 0

ShareIs(lens, n, m, codes, f) ==
  f[0] = 0 /\ \A k \in 1 .. n : f[k] = f[k - 1] + Weight(lens, m, codes, k - 1) /\ f[k - 1] \in Nat
ShareDefines(lens, n, m, codes, f) ==
  f = [k \in 0 .. n |-> IF k = 0 THEN 0
                        ELSE f[k - 1] + IF k - 1 \in codes THEN TwoTo(m - lens[k - 1]) ELSE 0]

LEMMA WeightIs ==
  ASSUME NEW lens, NEW n, Tree(lens, n), NEW m, NEW codes, Fit(lens, n, m, codes), NEW i \in 0 .. n - 1
  PROVE  Weight(lens, m, codes, i) \in Nat
<1>1. CASE i \in codes
  <2>1. m \in Nat /\ lens[i] \in Nat /\ lens[i] <= m
    BY <1>1 DEF Tree, Fit
  <2>2. m - lens[i] \in Nat
    BY <2>1
  <2> QED BY <1>1, <2>2, Powers DEF Weight
<1>2. CASE i \notin codes
  BY <1>2 DEF Weight
<1> QED BY <1>1, <1>2

LEMMA ShareRuns ==
  ASSUME NEW lens, NEW n, Tree(lens, n), NEW m, NEW codes, Fit(lens, n, m, codes)
  PROVE  \E f : ShareIs(lens, n, m, codes, f) /\ f[n] = Share(lens, m, codes) /\ f[n] \in Nat
<1>0. n \in Nat
  BY DEF Tree
<1> DEFINE step == [q \in (1 .. n) \X Nat |-> q[2] + Weight(lens, m, codes, q[1] - 1)]
<1>1. step \in StepFunctions(n, Nat) /\ 0 \in Nat
  <2>1. ASSUME NEW q \in (1 .. n) \X Nat PROVE q[2] + Weight(lens, m, codes, q[1] - 1) \in Nat
    <3>1. PICK i \in 1 .. n, y \in Nat : i = q[1] /\ y = q[2]
      OBVIOUS
    <3>2. i - 1 \in 0 .. n - 1
      BY <1>0
    <3>3. PICK w \in Nat : w = Weight(lens, m, codes, i - 1)
      BY <3>2, WeightIs
    <3>4. y + w \in Nat
      OBVIOUS
    <3> QED BY <3>1, <3>3, <3>4
  <2> QED BY <2>1 DEF StepFunctions
<1>2. \A i \in 1 .. n : \A y \in Nat : step[<<i, y>>] = y + Weight(lens, m, codes, i - 1)
  OBVIOUS
<1> HIDE DEF step
<1>3. PICK f : Runs(n, Nat, 0, step, f)
  BY <1>0, <1>1, RunExists
<1>4. \A i \in 1 .. n : i - 1 \in 0 .. n
  BY <1>0
<1>5. /\ f = [i \in 0 .. n |-> f[i]] /\ f[0] = 0
      /\ \A i \in 1 .. n : f[i] = f[i - 1] + Weight(lens, m, codes, i - 1)
  BY <1>2, <1>3, <1>4 DEF Runs
<1>6. ShareDefines(lens, n, m, codes, f)
  <2>1. ASSUME NEW i \in 0 .. n
        PROVE  f[i] = IF i = 0 THEN 0
                      ELSE f[i - 1] + IF i - 1 \in codes THEN TwoTo(m - lens[i - 1]) ELSE 0
    <3>1. i # 0 => i \in 1 .. n
      BY <1>0
    <3> QED BY <1>5, <3>1 DEF Weight
  <2> QED BY <1>5, <2>1 DEF ShareDefines
<1> DEFINE g == CHOOSE f1 : ShareDefines(lens, n, m, codes, f1)
<1>7. Share(lens, m, codes) = g[n]
  <2>1. Cardinality(DOMAIN lens) = n
    <3>1. DOMAIN lens = 0 .. n - 1
      BY DEF Tree
    <3>2. Cardinality(0 .. n - 1) = n
      BY <1>0, FS_Interval
    <3> QED BY <3>1, <3>2
  <2> QED BY <2>1 DEF Share, ShareDefines
<1>8. ShareDefines(lens, n, m, codes, g)
  BY <1>6
<1> HIDE DEF g
<1>9. g[0] = 0
  BY <1>8, <1>0 DEF ShareDefines
<1>10. ASSUME NEW i \in 1 .. n PROVE g[i] = g[i - 1] + Weight(lens, m, codes, i - 1)
  <2>1. i \in 0 .. n /\ i # 0
    BY <1>0
  <2> QED BY <1>8, <2>1 DEF ShareDefines, Weight
<1>11. \A i \in 0 .. n : i \in {k \in 0 .. n : g[k] \in Nat}
  <2> DEFINE good == {k \in 0 .. n : g[k] \in Nat}
  <2>1. 0 \in good
    BY <1>0, <1>9
  <2>2. ASSUME NEW k \in 1 .. n, k - 1 \in good PROVE k \in good
    <3>1. k \in 0 .. n /\ k - 1 \in 0 .. n - 1 /\ g[k - 1] \in Nat
      BY <1>0, <2>2
    <3>2. Weight(lens, m, codes, k - 1) \in Nat
      BY <3>1, WeightIs
    <3> QED BY <3>1, <3>2, <1>10
  <2> QED
    <3> HIDE DEF good
    <3>1. \A k \in 0 .. n : k \in good
      BY <1>0, <2>1, <2>2, AllAlong
    <3> QED BY <3>1 DEF good
<1>12. n \in 0 .. n
  BY <1>0
<1> QED BY <1>7, <1>9, <1>10, <1>11, <1>4, <1>12 DEF ShareIs

LEMMA ShareIsNat ==
  ASSUME NEW lens, NEW n, Tree(lens, n), NEW m, NEW codes, Fit(lens, n, m, codes)
  PROVE  Share(lens, m, codes) \in Nat
BY ShareRuns

(* Codes apart from one another: their shares add up.                       *)
LEMMA SharesAdd ==
  ASSUME NEW lens, NEW n, Tree(lens, n), NEW m, NEW a, NEW b,
         Fit(lens, n, m, a), Fit(lens, n, m, b), a \cap b = {}
  PROVE  Share(lens, m, a \cup b) = Share(lens, m, a) + Share(lens, m, b)
<1>0. n \in Nat /\ Fit(lens, n, m, a \cup b)
  BY DEF Tree, Fit
<1>1. PICK f : ShareIs(lens, n, m, a, f) /\ f[n] = Share(lens, m, a) /\ f[n] \in Nat
  BY ShareRuns
<1>2. PICK g : ShareIs(lens, n, m, b, g) /\ g[n] = Share(lens, m, b) /\ g[n] \in Nat
  BY ShareRuns
<1>3. PICK h : ShareIs(lens, n, m, a \cup b, h) /\ h[n] = Share(lens, m, a \cup b)
  BY <1>0, ShareRuns
<1> DEFINE good == {k \in 0 .. n : h[k] = f[k] + g[k]}
<1>4. 0 \in good
  BY <1>0, <1>1, <1>2, <1>3 DEF ShareIs
<1>5. ASSUME NEW k \in 1 .. n, k - 1 \in good PROVE k \in good
  <2>1. /\ f[k] = f[k - 1] + Weight(lens, m, a, k - 1) /\ f[k - 1] \in Nat
        /\ g[k] = g[k - 1] + Weight(lens, m, b, k - 1) /\ g[k - 1] \in Nat
        /\ h[k] = h[k - 1] + Weight(lens, m, a \cup b, k - 1)
    BY <1>1, <1>2, <1>3 DEF ShareIs
  <2>2. k - 1 \in 0 .. n - 1 /\ k \in 0 .. n /\ h[k - 1] = f[k - 1] + g[k - 1]
    BY <1>0, <1>5
  <2>3. Weight(lens, m, a, k - 1) \in Nat /\ Weight(lens, m, b, k - 1) \in Nat
    BY <2>2, WeightIs
  <2>4. Weight(lens, m, a \cup b, k - 1) = Weight(lens, m, a, k - 1) + Weight(lens, m, b, k - 1)
    <3>1. CASE k - 1 \in a
      <4>1. Weight(lens, m, b, k - 1) = 0 /\ Weight(lens, m, a \cup b, k - 1) = Weight(lens, m, a, k - 1)
        BY <3>1 DEF Weight
      <4> QED BY <4>1, <2>3
    <3>2. CASE k - 1 \notin a
      <4>1. Weight(lens, m, a, k - 1) = 0 /\ Weight(lens, m, a \cup b, k - 1) = Weight(lens, m, b, k - 1)
        BY <3>2 DEF Weight
      <4> QED BY <4>1, <2>3
    <3> QED BY <3>1, <3>2
  <2> QED BY <2>1, <2>2, <2>3, <2>4
<1>6. \A k \in 0 .. n : k \in good
  <2> HIDE DEF good
  <2> QED BY <1>0, <1>4, <1>5, AllAlong
<1>7. n \in 0 .. n
  BY <1>0
<1> QED BY <1>1, <1>2, <1>3, <1>6, <1>7

LEMMA SharesOfMore ==
  ASSUME NEW lens, NEW n, Tree(lens, n), NEW m, NEW a, NEW b, Fit(lens, n, m, b), a \subseteq b
  PROVE  Share(lens, m, a) <= Share(lens, m, b) /\ Share(lens, m, a) \in Nat /\ Share(lens, m, b) \in Nat
<1>1. Fit(lens, n, m, a) /\ Fit(lens, n, m, b \ a) /\ a \cap (b \ a) = {} /\ a \cup (b \ a) = b
  BY DEF Fit
<1>2. Share(lens, m, b) = Share(lens, m, a) + Share(lens, m, b \ a)
  BY <1>1, SharesAdd
<1>3. PICK x \in Nat, y \in Nat : x = Share(lens, m, a) /\ y = Share(lens, m, b \ a)
  BY <1>1, ShareIsNat
<1> QED BY <1>2, <1>3

LEMMA ShareOfNone ==
  ASSUME NEW lens, NEW n, Tree(lens, n), NEW m \in Nat, NEW none, none = {}
  PROVE  Share(lens, m, none) = 0
<1>1. Fit(lens, n, m, none)
  BY DEF Fit
<1>2. PICK f : ShareIs(lens, n, m, none, f) /\ f[n] = Share(lens, m, none)
  BY <1>1, ShareRuns
<1> DEFINE good == {k \in 0 .. n : f[k] = 0}
<1>3. 0 \in good /\ n \in Nat
  BY <1>2 DEF ShareIs, Tree
<1>4. ASSUME NEW k \in 1 .. n, k - 1 \in good PROVE k \in good
  <2>1. f[k] = f[k - 1] + Weight(lens, m, none, k - 1)
    BY <1>2 DEF ShareIs
  <2>2. Weight(lens, m, none, k - 1) = 0
    BY DEF Weight
  <2> QED BY <1>3, <1>4, <2>1, <2>2
<1>5. \A k \in 0 .. n : k \in good
  <2> HIDE DEF good
  <2> QED BY <1>3, <1>4, AllAlong
<1>6. n \in 0 .. n
  BY <1>3
<1> QED BY <1>2, <1>5, <1>6

LEMMA ShareOfOne ==
  ASSUME NEW lens, NEW n, Tree(lens, n), NEW m \in Nat, NEW i \in 0 .. n - 1, lens[i] <= m
  PROVE  Share(lens, m, {i}) = TwoTo(m - lens[i])
<1>0. n \in Nat /\ Fit(lens, n, m, {i}) /\ lens[i] \in Nat
  BY DEF Tree, Fit
<1>1. PICK f : ShareIs(lens, n, m, {i}, f) /\ f[n] = Share(lens, m, {i})
  BY <1>0, ShareRuns
<1>2. PICK w \in Nat : w = TwoTo(m - lens[i])
  <2>1. m - lens[i] \in Nat
    BY <1>0
  <2> QED BY <2>1, Powers
<1> DEFINE good == {k \in 0 .. n : f[k] = IF k <= i THEN 0 ELSE w}
<1>3. 0 \in good
  BY <1>0, <1>1 DEF ShareIs
<1>4. ASSUME NEW k \in 1 .. n, k - 1 \in good PROVE k \in good
  <2>1. f[k] = f[k - 1] + Weight(lens, m, {i}, k - 1) /\ k \in 0 .. n
    BY <1>0, <1>1 DEF ShareIs
  <2>2. Weight(lens, m, {i}, k - 1) = IF k - 1 = i THEN w ELSE 0
    BY <1>2 DEF Weight
  <2>3. f[k - 1] = IF k - 1 <= i THEN 0 ELSE w
    BY <1>4
  <2>4. CASE k - 1 = i
    BY <2>1, <2>2, <2>3, <2>4, <1>0
  <2>5. CASE k - 1 < i
    BY <2>1, <2>2, <2>3, <2>5, <1>0
  <2>6. CASE k - 1 > i
    BY <2>1, <2>2, <2>3, <2>6, <1>0
  <2> QED BY <2>4, <2>5, <2>6, <1>0
<1>5. \A k \in 0 .. n : k \in good
  <2> HIDE DEF good
  <2> QED BY <1>0, <1>3, <1>4, AllAlong
<1>6. n \in 0 .. n /\ ~ (n <= i)
  BY <1>0
<1> QED BY <1>1, <1>2, <1>5, <1>6

(* The codes of one length in front of a symbol.                            *)
Same(lens, l, k) == {j \in DOMAIN lens : j < k /\ lens[j] = l}

LEMMA ShareOfLength ==
  ASSUME NEW lens, NEW n, Tree(lens, n), NEW m \in Nat, NEW l \in Nat, l <= m, NEW k \in 0 .. n
  PROVE  /\ Cardinality(Same(lens, l, k)) \in Nat /\ IsFiniteSet(Same(lens, l, k))
         /\ Fit(lens, n, m, Same(lens, l, k))
         /\ Share(lens, m, Same(lens, l, k)) = Cardinality(Same(lens, l, k)) * TwoTo(m - l)
<1>0. n \in Nat /\ DOMAIN lens = 0 .. n - 1
  BY DEF Tree
<1>1. \A i \in 0 .. n : Fit(lens, n, m, Same(lens, l, i))
  BY <1>0 DEF Fit, Same
<1>2. PICK w \in Nat : w = TwoTo(m - l)
  <2>1. m - l \in Nat
    OBVIOUS
  <2> QED BY <2>1, Powers
<1> DEFINE Card(i) == Cardinality(Same(lens, l, i))
           Good(i) == /\ IsFiniteSet(Same(lens, l, i)) /\ Card(i) \in Nat
                      /\ Share(lens, m, Same(lens, l, i)) = Card(i) * w
           good == {i \in 0 .. n : Good(i)}
<1>3. 0 \in good
  <2>1. Same(lens, l, 0) = {}
    BY <1>0 DEF Same
  <2>2. Card(0) = 0 /\ IsFiniteSet(Same(lens, l, 0))
    BY <2>1, FS_EmptySet
  <2>3. Share(lens, m, Same(lens, l, 0)) = 0
    BY <2>1, ShareOfNone
  <2> QED BY <2>2, <2>3, <1>0
<1>4. ASSUME NEW i \in 1 .. n, i - 1 \in good PROVE i \in good
  <2>1. PICK j \in 0 .. n - 1 : j = i - 1 /\ i = j + 1
    BY <1>0
  <2>2. Good(j)
    BY <1>4, <2>1
  <2>3. CASE lens[j] = l
    <3>1. Same(lens, l, i) = Same(lens, l, j) \cup {j} /\ j \notin Same(lens, l, j)
      BY <1>0, <2>1, <2>3 DEF Same
    <3>2. Card(i) = Card(j) + 1 /\ IsFiniteSet(Same(lens, l, i))
      BY <2>2, <3>1, FS_AddElement
    <3>3. Share(lens, m, Same(lens, l, i)) = Share(lens, m, Same(lens, l, j)) + w
      <4>1. Share(lens, m, {j}) = w
        BY <1>2, <2>1, <2>3, ShareOfOne
      <4>2. Fit(lens, n, m, {j}) /\ Fit(lens, n, m, Same(lens, l, j)) /\ Same(lens, l, j) \cap {j} = {}
        BY <1>0, <1>1, <2>1, <2>3, <3>1 DEF Fit
      <4> QED BY <3>1, <4>1, <4>2, SharesAdd
    <3>4. PICK c \in Nat : c = Card(j)
      BY <2>2
    <3>5. c * w + w = (c + 1) * w /\ c + 1 \in Nat
      OBVIOUS
    <3> QED BY <2>2, <3>2, <3>3, <3>4, <3>5
  <2>4. CASE lens[j] # l
    <3>1. Same(lens, l, i) = Same(lens, l, j)
      BY <1>0, <2>1, <2>4 DEF Same
    <3> QED BY <2>2, <3>1
  <2> QED BY <2>3, <2>4
<1>5. \A i \in 0 .. n : i \in good
  <2> HIDE DEF good
  <2> QED BY <1>0, <1>3, <1>4, AllAlong
<1> QED BY <1>1, <1>2, <1>5

LEMMA HistoIs ==
  ASSUME NEW lens, NEW n, Tree(lens, n), NEW l \in Nat
  PROVE  BitHisto(lens, l) = Cardinality(Same(lens, l, n)) /\ BitHisto(lens, l) \in Nat
<1>1. n \in Nat /\ DOMAIN lens = 0 .. n - 1
  BY DEF Tree
<1>2. Same(lens, l, n) = {i \in DOMAIN lens : lens[i] = l}
  BY <1>1 DEF Same
<1>3. n \in 0 .. n /\ l <= l
  BY <1>1
<1> QED BY <1>2, <1>3, ShareOfLength DEF BitHisto

(* A share of which every part is a multiple is one.                        *)
IsMultiple(x, d) == \E q \in Nat : x = q * d

LEMMA MultiplesAdd ==
  ASSUME NEW d \in Nat, NEW x, NEW y, IsMultiple(x, d), IsMultiple(y, d)
  PROVE  IsMultiple(x + y, d)
<1>1. PICK a \in Nat, b \in Nat : x = a * d /\ y = b * d
  BY DEF IsMultiple
<1>2. a * d + b * d = (a + b) * d /\ a + b \in Nat
  OBVIOUS
<1> QED BY <1>1, <1>2 DEF IsMultiple

LEMMA ShareIsMultiple ==
  ASSUME NEW lens, NEW n, Tree(lens, n), NEW m, NEW codes, Fit(lens, n, m, codes), NEW d \in Nat,
         \A i \in codes : IsMultiple(TwoTo(m - lens[i]), d)
  PROVE  IsMultiple(Share(lens, m, codes), d)
<1>0. n \in Nat
  BY DEF Tree
<1>1. PICK f : ShareIs(lens, n, m, codes, f) /\ f[n] = Share(lens, m, codes)
  BY ShareRuns
<1>2. IsMultiple(0, d)
  <2>1. 0 = 0 * d /\ 0 \in Nat
    OBVIOUS
  <2> QED BY <2>1 DEF IsMultiple
<1> DEFINE good == {k \in 0 .. n : IsMultiple(f[k], d)}
<1>3. 0 \in good
  BY <1>0, <1>1, <1>2 DEF ShareIs
<1>4. ASSUME NEW k \in 1 .. n, k - 1 \in good PROVE k \in good
  <2>1. f[k] = f[k - 1] + Weight(lens, m, codes, k - 1) /\ k \in 0 .. n
    BY <1>0, <1>1 DEF ShareIs
  <2>2. IsMultiple(Weight(lens, m, codes, k - 1), d)
    BY <1>2 DEF Weight
  <2>3. IsMultiple(f[k - 1], d)
    BY <1>4
  <2> QED BY <2>1, <2>2, <2>3, MultiplesAdd
<1>5. \A k \in 0 .. n : k \in good
  <2> HIDE DEF good
  <2> QED BY <1>0, <1>3, <1>4, AllAlong
<1>6. n \in 0 .. n
  BY <1>0
<1> QED BY <1>1, <1>5, <1>6

-----------------------------------------------------------------------------
(* huffman_assign_canonical_codes, the loop over the lengths.               *)
CurDefines(lens, m, f) ==
  f = [l \in 1 .. m |-> IF l = m THEN 0 ELSE (f[l + 1] + BitHisto(lens, l + 1)) \div 2]

LEMMA CurStartIs ==
  ASSUME NEW lens, NEW n, Tree(lens, n), NEW m \in Nat, m > 0
  PROVE  /\ CurStart(lens, m)[m] = 0
         /\ \A l \in 1 .. m - 1 :
              CurStart(lens, m)[l] = (CurStart(lens, m)[l + 1] + BitHisto(lens, l + 1)) \div 2
         /\ \A l \in 1 .. m : CurStart(lens, m)[l] \in Nat
<1>0. \A l \in Nat : BitHisto(lens, l) \in Nat
  BY HistoIs
<1>a. ASSUME NEW y \in Nat, NEW l \in Nat PROVE (y + BitHisto(lens, l)) \div 2 \in Nat
  <2>1. PICK h \in Nat : h = BitHisto(lens, l)
    BY <1>0
  <2>2. (y + h) \div 2 \in Nat
    OBVIOUS
  <2> QED BY <2>1, <2>2
<1> DEFINE step == [q \in (1 .. m - 1) \X Nat |-> (q[2] + BitHisto(lens, m - q[1] + 1)) \div 2]
<1>1. step \in StepFunctions(m - 1, Nat) /\ 0 \in Nat /\ m - 1 \in Nat
  <2>1. ASSUME NEW q \in (1 .. m - 1) \X Nat PROVE (q[2] + BitHisto(lens, m - q[1] + 1)) \div 2 \in Nat
    <3>1. PICK i \in 1 .. m - 1, y \in Nat : i = q[1] /\ y = q[2]
      OBVIOUS
    <3>2. m - i + 1 \in Nat
      OBVIOUS
    <3> QED BY <3>1, <3>2, <1>a
  <2> QED BY <2>1 DEF StepFunctions
<1>2. \A i \in 1 .. m - 1 : \A y \in Nat : step[<<i, y>>] = (y + BitHisto(lens, m - i + 1)) \div 2
  OBVIOUS
<1> HIDE DEF step
<1>3. PICK f : Runs(m - 1, Nat, 0, step, f)
  BY <1>1, RunExists
<1>4. /\ f[0] = 0
      /\ \A i \in 1 .. m - 1 : f[i] = (f[i - 1] + BitHisto(lens, m - i + 1)) \div 2
  <2>1. \A i \in 1 .. m - 1 : i - 1 \in 0 .. m - 1
    OBVIOUS
  <2> QED BY <2>1, <1>2, <1>3 DEF Runs
<1> DEFINE c == [l \in 1 .. m |-> f[m - l]]
<1>5. CurDefines(lens, m, c)
  <2>1. ASSUME NEW l \in 1 .. m
        PROVE  c[l] = IF l = m THEN 0 ELSE (c[l + 1] + BitHisto(lens, l + 1)) \div 2
    <3>1. CASE l = m
      <4>1. m - l = 0 /\ c[l] = f[m - l]
        BY <3>1
      <4> QED BY <3>1, <4>1, <1>4
    <3>2. CASE l # m
      <4>1. m - l \in 1 .. m - 1 /\ l + 1 \in 1 .. m /\ (m - l) - 1 = m - (l + 1) /\ m - (m - l) + 1 = l + 1
        BY <3>2
      <4>2. c[l] = f[m - l] /\ c[l + 1] = f[m - (l + 1)]
        BY <4>1
      <4>3. f[m - l] = (f[m - (l + 1)] + BitHisto(lens, l + 1)) \div 2
        BY <4>1, <1>4
      <4> QED BY <3>2, <4>2, <4>3
    <3> QED BY <3>1, <3>2
  <2> QED BY <2>1 DEF CurDefines
<1> DEFINE g == CHOOSE f1 : CurDefines(lens, m, f1)
<1>6. CurStart(lens, m) = g
  BY DEF CurStart, CurDefines
<1>7. CurDefines(lens, m, g)
  BY <1>5
<1> HIDE DEF g, c
<1>8. g[m] = 0
  BY <1>7 DEF CurDefines
<1>9. ASSUME NEW l \in 1 .. m - 1 PROVE g[l] = (g[l + 1] + BitHisto(lens, l + 1)) \div 2
  <2>1. l \in 1 .. m /\ l # m
    OBVIOUS
  <2> QED BY <1>7, <2>1 DEF CurDefines
<1>10. \A l \in 1 .. m : g[l] \in Nat
  <2> DEFINE good == {k \in 0 .. m - 1 : g[m - k] \in Nat}
  <2>1. 0 \in good
    BY <1>8
  <2>2. ASSUME NEW k \in 1 .. m - 1, k - 1 \in good PROVE k \in good
    <3>1. m - k \in 1 .. m - 1 /\ (m - k) + 1 = m - (k - 1) /\ (m - k) + 1 \in Nat
      OBVIOUS
    <3>2. g[m - k] = (g[(m - k) + 1] + BitHisto(lens, (m - k) + 1)) \div 2
      BY <1>9, <3>1
    <3>3. g[(m - k) + 1] \in Nat
      BY <2>2, <3>1
    <3>4. g[m - k] \in Nat
      BY <3>1, <3>2, <3>3, <1>a
    <3> QED BY <3>4
  <2>3. \A k \in 0 .. m - 1 : k \in good
    <3> HIDE DEF good
    <3> QED BY <1>1, <2>1, <2>2, AllAlong
  <2>4. ASSUME NEW l \in 1 .. m PROVE g[l] \in Nat
    <3>1. m - l \in 0 .. m - 1 /\ m - (m - l) = l
      OBVIOUS
    <3> QED BY <3>1, <2>3
  <2> QED BY <2>4
<1> QED BY <1>6, <1>8, <1>9, <1>10

-----------------------------------------------------------------------------
(* The codes are consecutive windows, the longest codes first.              *)
NormalTree(lens, n, m) ==
  /\ Tree(lens, n) /\ m \in Nat /\ m > 0
  /\ \A i \in DOMAIN lens : lens[i] <= m

Longer(lens, l) == {i \in DOMAIN lens : lens[i] > l}
Even(lens, m, l) == (CurStart(lens, m)[l] + BitHisto(lens, l)) % 2 = 0
StartsAt(lens, m, l) == CurStart(lens, m)[l] * TwoTo(m - l) = Share(lens, m, Longer(lens, l))

LEMMA AllFit ==
  ASSUME NEW lens, NEW n, NEW m, NormalTree(lens, n, m), NEW codes, codes \subseteq DOMAIN lens
  PROVE  Fit(lens, n, m, codes) /\ Share(lens, m, codes) \in Nat
<1>1. Tree(lens, n) /\ m \in Nat /\ Fit(lens, n, m, codes)
  BY DEF NormalTree, Tree, Fit
<1> QED BY <1>1, ShareIsNat

LEMMA StartsTop ==
  ASSUME NEW lens, NEW n, NEW m, NormalTree(lens, n, m)
  PROVE  StartsAt(lens, m, m)
<1>1. Tree(lens, n) /\ m \in Nat /\ m > 0
  BY DEF NormalTree
<1>2. Longer(lens, m) = {}
  <2>1. \A i \in DOMAIN lens : lens[i] \in Nat /\ lens[i] <= m
    BY DEF NormalTree, Tree
  <2> QED BY <1>1, <2>1 DEF Longer
<1>3. Share(lens, m, Longer(lens, m)) = 0
  BY <1>1, <1>2, ShareOfNone
<1>4. CurStart(lens, m)[m] = 0
  BY <1>1, CurStartIs
<1>5. PICK w \in Nat : w = TwoTo(m - m)
  <2>1. m - m \in Nat
    BY <1>1
  <2> QED BY <2>1, Powers
<1>6. 0 * w = 0
  OBVIOUS
<1> QED BY <1>3, <1>4, <1>5, <1>6 DEF StartsAt

LEMMA ShareAndLength ==
  ASSUME NEW lens, NEW n, NEW m, NormalTree(lens, n, m), NEW l \in 1 .. m, StartsAt(lens, m, l)
  PROVE  /\ Share(lens, m, Longer(lens, l) \cup Same(lens, l, n))
              = (CurStart(lens, m)[l] + BitHisto(lens, l)) * TwoTo(m - l)
         /\ CurStart(lens, m)[l] \in Nat /\ BitHisto(lens, l) \in Nat
<1>1. Tree(lens, n) /\ m \in Nat /\ m > 0 /\ l \in Nat /\ l <= m /\ n \in Nat /\ n \in 0 .. n
  BY DEF NormalTree, Tree
<1>2. PICK c \in Nat : c = CurStart(lens, m)[l]
  BY <1>1, CurStartIs
<1>3. PICK h \in Nat : h = BitHisto(lens, l)
  BY <1>1, HistoIs
<1>4. PICK w \in Nat : w = TwoTo(m - l)
  <2>1. m - l \in Nat
    BY <1>1
  <2> QED BY <2>1, Powers
<1>5. Share(lens, m, Same(lens, l, n)) = h * w
  BY <1>1, <1>3, <1>4, HistoIs, ShareOfLength
<1>6. Longer(lens, l) \subseteq DOMAIN lens /\ Same(lens, l, n) \subseteq DOMAIN lens
  BY DEF Longer, Same
<1>7. Longer(lens, l) \cap Same(lens, l, n) = {}
  <2>1. \A i \in DOMAIN lens : lens[i] \in Nat
    BY <1>1 DEF Tree
  <2> QED BY <1>1, <2>1 DEF Longer, Same
<1>8. Share(lens, m, Longer(lens, l) \cup Same(lens, l, n)) = c * w + h * w
  <2>1. Fit(lens, n, m, Longer(lens, l)) /\ Fit(lens, n, m, Same(lens, l, n))
    BY <1>6, AllFit
  <2> QED BY <1>1, <1>2, <1>4, <1>5, <1>7, <2>1, SharesAdd DEF StartsAt
<1>9. c * w + h * w = (c + h) * w
  OBVIOUS
<1> QED BY <1>2, <1>3, <1>4, <1>8, <1>9

LEMMA StartsDown ==
  ASSUME NEW lens, NEW n, NEW m, NormalTree(lens, n, m), NEW l \in 2 .. m,
         StartsAt(lens, m, l), Even(lens, m, l)
  PROVE  StartsAt(lens, m, l - 1)
<1>1. Tree(lens, n) /\ m \in Nat /\ m > 0 /\ l \in 1 .. m /\ l - 1 \in 1 .. m - 1 /\ (l - 1) + 1 = l
  BY DEF NormalTree
<1>2. PICK c \in Nat, h \in Nat : c = CurStart(lens, m)[l] /\ h = BitHisto(lens, l)
  BY <1>1, ShareAndLength
<1>3. CurStart(lens, m)[l - 1] = (c + h) \div 2
  BY <1>1, <1>2, CurStartIs
<1>4. (c + h) % 2 = 0
  BY <1>2 DEF Even
<1>5. PICK w \in Nat : w = TwoTo(m - l) /\ TwoTo(m - (l - 1)) = 2 * w
  <2>1. m - l \in Nat /\ m - (l - 1) = (m - l) + 1
    BY <1>1
  <2> QED BY <2>1, Powers
<1>6. PICK d \in Nat : d = (c + h) \div 2 /\ 2 * d = c + h
  BY <1>4
<1>7. Longer(lens, l - 1) = Longer(lens, l) \cup Same(lens, l, n)
  <2>1. \A i \in DOMAIN lens : lens[i] \in Nat /\ i < n
    BY <1>1 DEF Tree
  <2> QED BY <1>1, <2>1 DEF Longer, Same
<1>8. Share(lens, m, Longer(lens, l - 1)) = (c + h) * w
  BY <1>1, <1>2, <1>5, <1>7, ShareAndLength
<1>9. (c + h) * w = d * (2 * w)
  <2>1. (c + h) * w = (2 * d) * w
    BY <1>6
  <2>2. (2 * d) * w = d * (2 * w)
    OBVIOUS
  <2> QED BY <2>1, <2>2
<1> QED BY <1>3, <1>5, <1>6, <1>8, <1>9 DEF StartsAt

LEMMA StartsAre ==
  ASSUME NEW lens, NEW n, NEW m, NormalTree(lens, n, m), Consistent(lens, m)
  PROVE  \A l \in 1 .. m : StartsAt(lens, m, l)
<1>1. m \in Nat /\ m > 0 /\ m - 1 \in Nat
  BY DEF NormalTree
<1> DEFINE good == {k \in 0 .. m - 1 : StartsAt(lens, m, m - k)}
<1>2. 0 \in good
  <2>1. m - 0 = m /\ 0 \in 0 .. m - 1
    BY <1>1
  <2> QED BY <2>1, StartsTop
<1>3. ASSUME NEW k \in 1 .. m - 1, k - 1 \in good PROVE k \in good
  <2>1. PICK l \in 2 .. m : l = m - (k - 1) /\ m - k = l - 1 /\ k \in 0 .. m - 1
    BY <1>1
  <2>2. StartsAt(lens, m, l)
    BY <1>3, <2>1
  <2>3. Even(lens, m, l)
    BY DEF Consistent, Even
  <2> QED BY <2>1, <2>2, <2>3, StartsDown
<1>4. \A k \in 0 .. m - 1 : k \in good
  <2> HIDE DEF good
  <2> QED BY <1>1, <1>2, <1>3, AllAlong
<1>5. ASSUME NEW l \in 1 .. m PROVE StartsAt(lens, m, l)
  <2>1. m - l \in 0 .. m - 1 /\ m - (m - l) = l
    BY <1>1
  <2> QED BY <1>4, <2>1
<1> QED BY <1>5

(* The window a code starts at.                                             *)
LEMMA CodeIsWindow ==
  ASSUME NEW lens, NEW n, NEW m, NormalTree(lens, n, m), Consistent(lens, m), NEW i \in CodesOf(lens)
  PROVE  /\ CanonicalCodes(lens, m)[i] \in Nat
         /\ FirstWindow(lens, m, i) = CanonicalCodes(lens, m)[i] * TwoTo(m - lens[i])
<1>1. Tree(lens, n) /\ m \in Nat /\ m > 0
  BY DEF NormalTree
<1>2. i \in DOMAIN lens /\ i \in 0 .. n - 1 /\ i \in 0 .. n /\ lens[i] \in 1 .. m /\ lens[i] \in Nat
  BY DEF CodesOf, NormalTree, Tree
<1>3. PICK l \in 1 .. m : l = lens[i] /\ l <= m /\ l \in Nat
  BY <1>1, <1>2
<1>4. PICK c \in Nat : c = CurStart(lens, m)[l]
  BY <1>1, CurStartIs
<1>5. PICK r \in Nat : r = Cardinality(Same(lens, l, i))
  BY <1>1, <1>2, <1>3, ShareOfLength
<1>6. PICK w \in Nat : w = TwoTo(m - l)
  <2>1. m - l \in Nat
    BY <1>1, <1>3
  <2> QED BY <2>1, Powers
<1>7. CanonicalCodes(lens, m)[i] = c + r
  BY <1>3, <1>4, <1>5 DEF CanonicalCodes, Same
<1>8. Ahead(lens, i) = Longer(lens, l) \cup Same(lens, l, i)
  <2>1. \A j \in DOMAIN lens : lens[j] \in Nat
    BY <1>1 DEF Tree
  <2> QED BY <1>3, <2>1 DEF Ahead, Longer, Same, CodesOf
<1>9. Longer(lens, l) \cap Same(lens, l, i) = {}
  <2>1. \A j \in DOMAIN lens : lens[j] \in Nat
    BY <1>1 DEF Tree
  <2> QED BY <1>3, <2>1 DEF Longer, Same
<1>10. Share(lens, m, Longer(lens, l)) = c * w
  BY <1>3, <1>4, <1>6, StartsAre DEF StartsAt
<1>11. Share(lens, m, Same(lens, l, i)) = r * w
  BY <1>1, <1>2, <1>3, <1>5, <1>6, ShareOfLength
<1>12. FirstWindow(lens, m, i) = c * w + r * w
  <2>1. Fit(lens, n, m, Longer(lens, l)) /\ Fit(lens, n, m, Same(lens, l, i))
    <3>1. Longer(lens, l) \subseteq DOMAIN lens /\ Same(lens, l, i) \subseteq DOMAIN lens
      BY DEF Longer, Same
    <3> QED BY <3>1, AllFit
  <2>2. Share(lens, m, Longer(lens, l) \cup Same(lens, l, i))
          = Share(lens, m, Longer(lens, l)) + Share(lens, m, Same(lens, l, i))
    BY <1>1, <1>9, <2>1, SharesAdd
  <2> QED BY <1>8, <1>10, <1>11, <2>2, Zenon DEF FirstWindow
<1>13. c * w + r * w = (c + r) * w /\ c + r \in Nat
  OBVIOUS
<1> QED BY <1>3, <1>6, <1>7, <1>12, <1>13

-----------------------------------------------------------------------------
(* The windows of two codes are apart, and all of them end with the share   *)
(* of all codes.                                                            *)
EndWindow(lens, m, i) == FirstWindow(lens, m, i) + TwoTo(m - lens[i])

LEMMA EndIs ==
  ASSUME NEW lens, NEW n, NEW m, NormalTree(lens, n, m), NEW i \in CodesOf(lens)
  PROVE  /\ EndWindow(lens, m, i) = Share(lens, m, Ahead(lens, i) \cup {i})
         /\ EndWindow(lens, m, i) \in Nat /\ FirstWindow(lens, m, i) \in Nat
         /\ m - lens[i] \in Nat /\ TwoTo(m - lens[i]) \in Nat /\ TwoTo(m - lens[i]) > 0
         /\ i \in 0 .. n - 1 /\ lens[i] \in 1 .. m
<1>1. Tree(lens, n) /\ m \in Nat
  BY DEF NormalTree
<1>2. i \in DOMAIN lens /\ i \in 0 .. n - 1 /\ lens[i] <= m /\ lens[i] \in Nat /\ lens[i] \in 1 .. m
  BY DEF CodesOf, NormalTree, Tree
<1>3. m - lens[i] \in Nat
  BY <1>1, <1>2
<1>4. PICK w \in Nat : w = TwoTo(m - lens[i]) /\ w > 0
  BY <1>3, Powers
<1>5. Share(lens, m, {i}) = w
  BY <1>1, <1>2, <1>4, ShareOfOne
<1>6. Ahead(lens, i) \subseteq DOMAIN lens /\ {i} \subseteq DOMAIN lens /\ Ahead(lens, i) \cap {i} = {}
  BY <1>2 DEF Ahead, CodesOf
<1>7. PICK f \in Nat : f = FirstWindow(lens, m, i)
  BY <1>6, AllFit DEF FirstWindow
<1>8. Share(lens, m, Ahead(lens, i) \cup {i}) = f + w
  <2>1. Fit(lens, n, m, Ahead(lens, i)) /\ Fit(lens, n, m, {i})
    BY <1>6, AllFit
  <2> QED BY <1>1, <1>5, <1>6, <1>7, <2>1, SharesAdd DEF FirstWindow
<1> QED BY <1>2, <1>3, <1>4, <1>7, <1>8 DEF EndWindow

LEMMA AheadEnds ==
  ASSUME NEW lens, NEW n, NEW m, NormalTree(lens, n, m), NEW i \in CodesOf(lens), NEW j \in CodesOf(lens),
         i \in Ahead(lens, j)
  PROVE  EndWindow(lens, m, i) <= FirstWindow(lens, m, j)
<1>1. Tree(lens, n)
  BY DEF NormalTree
<1>2. \A k \in DOMAIN lens : k \in Nat /\ lens[k] \in Nat
  BY <1>1 DEF Tree
<1>3. Ahead(lens, i) \cup {i} \subseteq Ahead(lens, j) /\ Ahead(lens, j) \subseteq DOMAIN lens
  BY <1>2 DEF Ahead, CodesOf
<1>4. Fit(lens, n, m, Ahead(lens, j))
  BY <1>3, AllFit
<1>5. Share(lens, m, Ahead(lens, i) \cup {i}) <= Share(lens, m, Ahead(lens, j))
  BY <1>1, <1>3, <1>4, SharesOfMore
<1>6. EndWindow(lens, m, i) = Share(lens, m, Ahead(lens, i) \cup {i})
  BY EndIs
<1> QED BY <1>5, <1>6 DEF FirstWindow

LEMMA CodesAreApart ==
  ASSUME NEW lens, NEW n, NEW m, NormalTree(lens, n, m), NEW i \in CodesOf(lens), NEW j \in CodesOf(lens),
         i # j
  PROVE  \/ EndWindow(lens, m, i) <= FirstWindow(lens, m, j)
         \/ EndWindow(lens, m, j) <= FirstWindow(lens, m, i)
<1>1. \A k \in DOMAIN lens : k \in Nat /\ lens[k] \in Nat
  BY DEF Tree, NormalTree
<1>2. i \in Ahead(lens, j) \/ j \in Ahead(lens, i)
  BY <1>1 DEF Ahead, CodesOf
<1> QED BY <1>2, AheadEnds

LEMMA EndsInAll ==
  ASSUME NEW lens, NEW n, NEW m, NormalTree(lens, n, m), NEW i \in CodesOf(lens)
  PROVE  EndWindow(lens, m, i) <= Share(lens, m, CodesOf(lens))
<1>1. Tree(lens, n)
  BY DEF NormalTree
<1>2. Ahead(lens, i) \cup {i} \subseteq CodesOf(lens) /\ CodesOf(lens) \subseteq DOMAIN lens
  BY DEF Ahead, CodesOf
<1>3. Fit(lens, n, m, CodesOf(lens))
  BY <1>2, AllFit
<1>4. Share(lens, m, Ahead(lens, i) \cup {i}) <= Share(lens, m, CodesOf(lens))
  BY <1>1, <1>2, <1>3, SharesOfMore
<1>5. EndWindow(lens, m, i) = Share(lens, m, Ahead(lens, i) \cup {i})
  BY EndIs
<1> QED BY <1>4, <1>5

(* The last code: a shortest one, and of these the last symbol.             *)
LEMMA LastCode ==
  ASSUME NEW lens, NEW n, NEW m, NormalTree(lens, n, m), CodesOf(lens) # {}
  PROVE  \E i \in CodesOf(lens) : EndWindow(lens, m, i) = Share(lens, m, CodesOf(lens))
<1>1. \A k \in DOMAIN lens : k \in Nat /\ lens[k] \in Nat /\ k \in 0 .. n - 1 /\ n - k \in Nat
  BY DEF NormalTree, Tree
<1>2. PICK l \in {lens[k] : k \in CodesOf(lens)} : \A x \in {lens[k] : k \in CodesOf(lens)} : l <= x
  <2> DEFINE T == {lens[k] : k \in CodesOf(lens)}
  <2>1. T \in SUBSET Nat /\ T # {}
    BY <1>1 DEF CodesOf
  <2> HIDE DEF T
  <2>2. \E l \in T : \A x \in T : l <= x
    BY <2>1, LeastNumber
  <2> QED BY <2>2 DEF T
<1> DEFINE S == {k \in CodesOf(lens) : lens[k] = l}
<1>3. PICK d \in {n - k : k \in S} : \A x \in {n - k : k \in S} : d <= x
  <2> DEFINE T == {n - k : k \in S}
  <2>1. T \in SUBSET Nat /\ T # {}
    BY <1>1, <1>2 DEF CodesOf
  <2> HIDE DEF T
  <2>2. \E y \in T : \A x \in T : y <= x
    BY <2>1, LeastNumber
  <2> QED BY <2>2 DEF T
<1>4. PICK i \in S : d = n - i
  BY <1>3
<1>5. n \in Nat
  BY DEF NormalTree, Tree
<1>6. \A k \in S : k <= i
  <2>1. ASSUME NEW k \in S PROVE k <= i
    <3>1. n - i <= n - k
      BY <1>3, <1>4
    <3>2. k \in Nat /\ i \in Nat
      BY <1>1, <1>4 DEF CodesOf
    <3> QED BY <3>1, <3>2, <1>5
  <2> QED BY <2>1
<1>7. ASSUME NEW k \in CodesOf(lens) PROVE k \in Ahead(lens, i) \cup {i}
  <2>1. l <= lens[k] /\ lens[i] = l
    BY <1>2, <1>4
  <2>2. k \in Nat /\ i \in Nat /\ lens[k] \in Nat /\ l \in Nat
    BY <1>1, <1>2, <1>4 DEF CodesOf
  <2>3. CASE lens[k] = l
    <3>1. k <= i
      BY <1>6, <2>3
    <3> QED BY <3>1, <2>1, <2>2, <2>3 DEF Ahead
  <2>4. CASE lens[k] # l
    <3>1. lens[k] > l
      BY <2>1, <2>2, <2>4
    <3> QED BY <3>1, <2>1 DEF Ahead
  <2> QED BY <2>3, <2>4
<1>8. Ahead(lens, i) \cup {i} = CodesOf(lens) /\ i \in CodesOf(lens)
  BY <1>4, <1>7 DEF Ahead
<1>9. EndWindow(lens, m, i) = Share(lens, m, Ahead(lens, i) \cup {i})
  BY <1>8, EndIs
<1> QED BY <1>8, <1>9

(* All codes together have a multiple of half the windows.                  *)
LEMMA AllShareIs ==
  ASSUME NEW lens, NEW n, NEW m, NormalTree(lens, n, m), StartsAt(lens, m, 1)
  PROVE  \E c \in Nat : Share(lens, m, CodesOf(lens)) = c * TwoTo(m - 1)
<1>1. Tree(lens, n) /\ m \in Nat /\ m > 0 /\ 1 \in 1 .. m
  BY DEF NormalTree
<1>2. CodesOf(lens) = Longer(lens, 1) \cup Same(lens, 1, n)
  <2>1. \A k \in DOMAIN lens : k < n /\ lens[k] \in Nat
    BY <1>1 DEF Tree
  <2> QED BY <2>1 DEF CodesOf, Longer, Same
<1>3. PICK x \in Nat, y \in Nat : x = CurStart(lens, m)[1] /\ y = BitHisto(lens, 1)
  BY <1>1, ShareAndLength
<1>4. Share(lens, m, CodesOf(lens)) = (x + y) * TwoTo(m - 1)
  BY <1>1, <1>2, <1>3, ShareAndLength
<1>5. x + y \in Nat
  OBVIOUS
<1> QED BY <1>4, <1>5

LEMMA HalfWindows ==
  ASSUME NEW m \in Nat, m > 0
  PROVE  TwoTo(m - 1) \in Nat /\ TwoTo(m - 1) > 0 /\ TwoTo(m) = 2 * TwoTo(m - 1)
<1>1. m - 1 \in Nat /\ m = (m - 1) + 1
  OBVIOUS
<1>2. PICK j \in Nat : j = m - 1 /\ m = j + 1
  BY <1>1
<1> QED BY <1>2, Powers

(* A tree that is consistent is good exactly when no code ends behind the   *)
(* last window.                                                             *)
LEMMA GoodWhenInside ==
  ASSUME NEW lens, NEW n, NEW m, NormalTree(lens, n, m), StartsAt(lens, m, 1)
  PROVE  Accepted(lens, m) <=> \A i \in CodesOf(lens) : EndWindow(lens, m, i) <= TwoTo(m)
<1>1. Tree(lens, n) /\ m \in Nat /\ m > 0
  BY DEF NormalTree
<1>2. PICK w \in Nat : w = TwoTo(m - 1) /\ w > 0 /\ TwoTo(m) = 2 * w
  BY <1>1, HalfWindows
<1>3. PICK c \in Nat : Share(lens, m, CodesOf(lens)) = c * w
  BY <1>2, AllShareIs
<1>4. \A i \in DOMAIN lens : lens[i] <= m
  BY DEF NormalTree
<1>5. ASSUME Accepted(lens, m), NEW i \in CodesOf(lens) PROVE EndWindow(lens, m, i) <= TwoTo(m)
  <2>1. 2 * (c * w) \in {0, 2 * w, 2 * (2 * w)}
    BY <1>2, <1>3, <1>5 DEF Accepted
  <2>2. c * w <= 2 * w
    BY <2>1
  <2>3. EndWindow(lens, m, i) <= c * w
    BY <1>3, EndsInAll
  <2>4. EndWindow(lens, m, i) \in Nat
    BY EndIs
  <2> QED BY <1>2, <2>2, <2>3, <2>4
<1>6. ASSUME \A i \in CodesOf(lens) : EndWindow(lens, m, i) <= TwoTo(m) PROVE Accepted(lens, m)
  <2>1. c * w <= 2 * w
    <3>1. CASE CodesOf(lens) = {}
      <4>1. c * w = 0
        BY <3>1, <1>1, <1>3, ShareOfNone
      <4> QED BY <4>1
    <3>2. CASE CodesOf(lens) # {}
      BY <3>2, <1>2, <1>3, <1>6, LastCode
    <3> QED BY <3>1, <3>2
  <2>2. c \in {0, 1, 2}
    <3>1. ASSUME c >= 3 PROVE FALSE
      <4>1. PICK d \in Nat : c = d + 3
        BY <3>1
      <4>2. (d + 3) * w = d * w + 3 * w /\ d * w \in Nat
        OBVIOUS
      <4> QED BY <4>1, <4>2, <2>1, <1>2
    <3> QED BY <3>1
  <2>3. 2 * (c * w) \in {0, 2 * w, 2 * (2 * w)}
    <3>1. CASE c = 0
      BY <3>1
    <3>2. CASE c = 1
      BY <3>2
    <3>3. CASE c = 2
      BY <3>3
    <3> QED BY <2>2, <3>1, <3>2, <3>3
  <2> QED BY <2>3, <1>2, <1>3, <1>4 DEF Accepted
<1> QED BY <1>5, <1>6

(* A good tree is consistent: at each length the windows of the longer      *)
(* codes, of its own and of the shorter ones, which are an even number of   *)
(* its own windows, make an even number.                                    *)
LEMMA GoodIsEven ==
  ASSUME NEW lens, NEW n, NEW m, NormalTree(lens, n, m), Accepted(lens, m), NEW l \in 2 .. m,
         StartsAt(lens, m, l)
  PROVE  Even(lens, m, l)
<1>1. Tree(lens, n) /\ m \in Nat /\ m > 0 /\ l \in 1 .. m
  BY DEF NormalTree
<1>2. PICK c \in Nat, h \in Nat : c = CurStart(lens, m)[l] /\ h = BitHisto(lens, l)
  BY <1>1, ShareAndLength
<1>3. PICK w \in Nat : w = TwoTo(m - l) /\ w > 0 /\ TwoTo(m - (l - 1)) = 2 * w
  <2>1. m - l \in Nat /\ m - (l - 1) = (m - l) + 1
    BY <1>1
  <2> QED BY <2>1, Powers
<1> DEFINE Shorter == {i \in DOMAIN lens : lens[i] > 0 /\ lens[i] < l}
           Up == Longer(lens, l) \cup Same(lens, l, n)
<1>4. CodesOf(lens) = Up \cup Shorter /\ Up \cap Shorter = {}
      /\ Up \subseteq DOMAIN lens /\ Shorter \subseteq DOMAIN lens
  <2>1. \A k \in DOMAIN lens : k < n /\ lens[k] \in Nat
    BY <1>1 DEF Tree
  <2> QED BY <2>1, <1>1 DEF CodesOf, Longer, Same
<1>5. Share(lens, m, Up) = (c + h) * w
  BY <1>1, <1>2, <1>3, ShareAndLength
<1>6. ASSUME NEW x \in 1 .. l - 1 PROVE IsMultiple(TwoTo(m - x), 2 * w)
  <2>1. m - x = ((l - 1) - x) + (m - (l - 1)) /\ (l - 1) - x \in Nat /\ m - (l - 1) \in Nat
    BY <1>1
  <2>2. TwoTo(m - x) = TwoTo((l - 1) - x) * (2 * w)
    BY <2>1, <1>3, PowerOfSum
  <2>3. TwoTo((l - 1) - x) \in Nat
    BY <2>1, Powers
  <2> QED BY <2>2, <2>3 DEF IsMultiple
<1>7. PICK q \in Nat : Share(lens, m, Shorter) = q * (2 * w)
  <2>1. Fit(lens, n, m, Shorter)
    BY <1>4, AllFit
  <2>2. \A i \in Shorter : IsMultiple(TwoTo(m - lens[i]), 2 * w)
    <3>1. ASSUME NEW i \in Shorter PROVE lens[i] \in 1 .. l - 1
      BY <1>1 DEF Tree
    <3> QED BY <3>1, <1>6
  <2>3. 2 * w \in Nat
    OBVIOUS
  <2>4. IsMultiple(Share(lens, m, Shorter), 2 * w)
    <3> HIDE DEF Shorter
    <3> QED BY <1>1, <2>1, <2>2, <2>3, ShareIsMultiple
  <2> QED BY <2>4 DEF IsMultiple
<1>8. PICK z \in Nat : Share(lens, m, CodesOf(lens)) = z * (2 * w)
  <2>1. PICK e \in Nat : e = TwoTo(m - 1) /\ e > 0 /\ TwoTo(m) = 2 * e
    BY <1>1, HalfWindows
  <2>2. PICK s \in Nat : s = Share(lens, m, CodesOf(lens))
    BY AllFit DEF CodesOf
  <2>3. 2 * s \in {0, 2 * e, 2 * (2 * e)}
    BY <2>1, <2>2 DEF Accepted
  <2>4. s \in {0, e, 2 * e}
    BY <2>3
  <2>5. PICK y \in Nat : e = y * (2 * w)
    <3>1. 1 \in 1 .. l - 1
      BY <1>1
    <3> QED BY <1>6, <2>1, <3>1 DEF IsMultiple
  <2>6. \E z \in Nat : s = z * (2 * w)
    <3>1. CASE s = 0
      <4>1. s = 0 * (2 * w)
        BY <3>1
      <4> QED BY <4>1
    <3>2. CASE s = e
      BY <3>2, <2>5
    <3>3. CASE s = 2 * e
      <4>1. 2 * (y * (2 * w)) = (2 * y) * (2 * w) /\ 2 * y \in Nat
        OBVIOUS
      <4> QED BY <3>3, <2>5, <4>1
    <3> QED BY <2>4, <3>1, <3>2, <3>3
  <2> QED BY <2>2, <2>6
<1>9. z * (2 * w) = (c + h) * w + q * (2 * w)
  <2>1. Fit(lens, n, m, Up) /\ Fit(lens, n, m, Shorter)
    BY <1>4, AllFit
  <2>2. Share(lens, m, Up \cup Shorter) = Share(lens, m, Up) + Share(lens, m, Shorter)
    <3> HIDE DEF Up, Shorter
    <3> QED BY <1>1, <1>4, <2>1, SharesAdd
  <2> HIDE DEF Up, Shorter
  <2> QED BY <1>4, <1>5, <1>7, <1>8, <2>2
<1>10. c + h = 2 * z - 2 * q
  <2>1. ((c + h) + 2 * q) * w = (2 * z) * w
    <3>1. ((c + h) + 2 * q) * w = (c + h) * w + (2 * q) * w
      OBVIOUS
    <3>2. (2 * q) * w = q * (2 * w) /\ (2 * z) * w = z * (2 * w)
      OBVIOUS
    <3> QED BY <3>1, <3>2, <1>9
  <2>2. \A x, y \in Nat : x * w = y * w => x = y
    <3>1. \A x, y \in Nat : x < y => x * w < y * w
      BY <1>3, Multiples
    <3> QED BY <3>1
  <2>3. (c + h) + 2 * q \in Nat /\ 2 * z \in Nat
    OBVIOUS
  <2>4. (c + h) + 2 * q = 2 * z
    BY <2>1, <2>2, <2>3
  <2> QED BY <2>4
<1>11. (c + h) % 2 = 0
  BY <1>10
<1> QED BY <1>2, <1>11 DEF Even

LEMMA GoodIsConsistent ==
  ASSUME NEW lens, NEW n, NEW m, NormalTree(lens, n, m), Accepted(lens, m)
  PROVE  Consistent(lens, m)
<1>1. m \in Nat /\ m > 0 /\ m - 1 \in Nat
  BY DEF NormalTree
<1> DEFINE good == {k \in 0 .. m - 1 : StartsAt(lens, m, m - k)}
<1>2. 0 \in good
  <2>1. m - 0 = m /\ 0 \in 0 .. m - 1
    BY <1>1
  <2> QED BY <2>1, StartsTop
<1>3. ASSUME NEW k \in 1 .. m - 1, k - 1 \in good PROVE k \in good
  <2>1. PICK l \in 2 .. m : l = m - (k - 1) /\ m - k = l - 1 /\ k \in 0 .. m - 1
    BY <1>1
  <2>2. StartsAt(lens, m, l)
    BY <1>3, <2>1
  <2> QED BY <2>1, <2>2, StartsDown, GoodIsEven
<1>4. \A k \in 0 .. m - 1 : k \in good
  <2> HIDE DEF good
  <2> QED BY <1>1, <1>2, <1>3, AllAlong
<1>5. ASSUME NEW l \in 2 .. m PROVE Even(lens, m, l)
  <2>1. m - l \in 0 .. m - 1 /\ m - (m - l) = l
    BY <1>1
  <2> QED BY <1>4, <2>1, GoodIsEven
<1> QED BY <1>5 DEF Consistent, NormalTree, Even

-----------------------------------------------------------------------------
(* huffman_build_lookup_table, the full table.                              *)
LEMMA LargestIs ==
  ASSUME NEW n \in Nat, NEW T \in SUBSET (0 .. n - 1), T # {}
  PROVE  Max(T) \in T /\ \A k \in T : k <= Max(T)
<1>1. PICK d \in {n - k : k \in T} : \A x \in {n - k : k \in T} : d <= x
  <2> DEFINE U == {n - k : k \in T}
  <2>1. \A k \in T : n - k \in Nat
    OBVIOUS
  <2>2. U \in SUBSET Nat /\ U # {}
    BY <2>1
  <2> HIDE DEF U
  <2>3. \E y \in U : \A x \in U : y <= x
    BY <2>2, LeastNumber
  <2> QED BY <2>3 DEF U
<1>2. PICK i \in T : d = n - i
  BY <1>1
<1>3. \A k \in T : i >= k
  <2>1. ASSUME NEW k \in T PROVE i >= k
    <3>1. n - i <= n - k
      BY <1>1, <1>2
    <3> QED BY <3>1
  <2> QED BY <2>1
<1>4. Max(T) \in T /\ \A k \in T : Max(T) >= k
  BY <1>3, Zenon DEF Max
<1> QED BY <1>4

LEMMA SmallestIs ==
  ASSUME NEW T \in SUBSET Nat, T # {}
  PROVE  Min(T) \in T /\ \A k \in T : Min(T) <= k
<1>1. \E i \in T : \A k \in T : i <= k
  BY LeastNumber
<1> QED BY <1>1, Zenon DEF Min

LEMMA LargestOfInterval ==
  ASSUME NEW a \in Int, NEW b \in Int, a <= b
  PROVE  Max(a .. b) = b
<1>1. b \in a .. b /\ \A y \in a .. b : b >= y
  OBVIOUS
<1>2. Max(a .. b) \in a .. b /\ \A y \in a .. b : Max(a .. b) >= y
  BY <1>1, Zenon DEF Max
<1> QED BY <1>1, <1>2

CellsFrom(a, l, width, y, w) ==
  CellsOf(a, l, width) = y .. (y + w) - 1 /\ Max(CellsOf(a, l, width)) = (y + w) - 1

LEMMA CellsAre ==
  ASSUME NEW a \in Nat, NEW l \in Nat, NEW width \in Nat,
         NEW w \in Nat, w > 0, w = TwoTo(width - l), NEW y \in Nat, y = a * w
  PROVE  CellsFrom(a, l, width, y, w)
<1>1. (a + 1) * w = y + w
  OBVIOUS
<1>2. a * TwoTo(width - l) = y /\ (a + 1) * TwoTo(width - l) = y + w
  BY <1>1
<1>3. CellsOf(a, l, width) = y .. (y + w) - 1
  BY <1>2, Zenon DEF CellsOf
<1>4. Max(y .. (y + w) - 1) = (y + w) - 1
  <2>1. PICK z \in Int : z = (y + w) - 1 /\ y <= z
    OBVIOUS
  <2>2. Max(y .. z) = z
    BY <2>1, LargestOfInterval
  <2> QED BY <2>1, <2>2, Zenon
<1> QED BY <1>3, <1>4, Zenon DEF CellsFrom

WrittenBySome(cell, written, cells, entry, background) ==
  \/ /\ \A i \in written : cell \notin cells[i]
     /\ Written(cell, written, cells, entry, background) = background
  \/ \E i \in written : /\ cell \in cells[i]
                        /\ Written(cell, written, cells, entry, background) = entry[i]

LEMMA WrittenIs ==
  ASSUME NEW n \in Nat, NEW written \in SUBSET (0 .. n - 1), NEW cell, NEW cells, NEW entry, NEW background
  PROVE  WrittenBySome(cell, written, cells, entry, background)
<1> USE DEF WrittenBySome
<1> DEFINE W == {i \in written : cell \in cells[i]}
<1>1. CASE W = {}
  BY <1>1 DEF Written
<1>2. CASE W # {}
  <2>1. W \in SUBSET (0 .. n - 1)
    OBVIOUS
  <2>2. Max(W) \in W
    <3> HIDE DEF W
    <3> QED BY <1>2, <2>1, LargestIs
  <2>3. Written(cell, written, cells, entry, background) = entry[Max(W)]
    BY <1>2 DEF Written
  <2> QED BY <2>2, <2>3
<1> QED BY <1>1, <1>2

Inside(lens, m, i, w) == FirstWindow(lens, m, i) <= w /\ w < EndWindow(lens, m, i)

LEMMA OwnersAre ==
  ASSUME NEW lens, NEW n, NEW m, NormalTree(lens, n, m), NEW w \in Nat
  PROVE  /\ Owners(lens, m, w) = {i \in CodesOf(lens) : Inside(lens, m, i, w)}
         /\ \A i, j \in Owners(lens, m, w) : i = j
<1>1. ASSUME NEW i \in CodesOf(lens)
      PROVE  w \in FirstWindow(lens, m, i) .. FirstWindow(lens, m, i) + TwoTo(m - lens[i]) - 1
             <=> Inside(lens, m, i, w)
  <2>1. PICK f \in Nat, s \in Nat : f = FirstWindow(lens, m, i) /\ s = TwoTo(m - lens[i])
    BY EndIs
  <2>2. w \in f .. f + s - 1 <=> (f <= w /\ w < f + s)
    OBVIOUS
  <2> QED BY <2>1, <2>2 DEF Inside, EndWindow
<1>2. Owners(lens, m, w) = {i \in CodesOf(lens) : Inside(lens, m, i, w)}
  BY <1>1 DEF Owners
<1>3. ASSUME NEW i \in CodesOf(lens), NEW j \in CodesOf(lens), Inside(lens, m, i, w), Inside(lens, m, j, w),
             i # j
      PROVE  FALSE
  <2>1. \/ EndWindow(lens, m, i) <= FirstWindow(lens, m, j)
        \/ EndWindow(lens, m, j) <= FirstWindow(lens, m, i)
    BY <1>3, CodesAreApart
  <2>2. /\ EndWindow(lens, m, i) \in Nat /\ FirstWindow(lens, m, i) \in Nat
        /\ EndWindow(lens, m, j) \in Nat /\ FirstWindow(lens, m, j) \in Nat
    BY EndIs
  <2> QED BY <2>1, <2>2, <1>3 DEF Inside
<1> QED BY <1>2, <1>3

FullCells(lens, m) == [i \in CodesOf(lens) |-> CellsOf(CanonicalCodes(lens, m)[i], lens[i], m)]
FullEntry(lens) == [i \in CodesOf(lens) |-> Entry(i, lens[i])]
FullStops(lens, m) == {i \in CodesOf(lens) : Max(FullCells(lens, m)[i]) >= TwoTo(m)}

LEMMA BuildFullIs ==
  ASSUME NEW lens, NEW m
  PROVE  /\ build_full(lens, m).error = IF FullStops(lens, m) = {} THEN "NONE" ELSE "INTERNAL_INCONSISTENCY"
         /\ build_full(lens, m).lookup
              = [w \in 0 .. TwoTo(m) - 1 |->
                   Written(w, Before(CodesOf(lens), FullStops(lens, m)), FullCells(lens, m), FullEntry(lens), Left)]
BY DEF build_full, FullCells, FullEntry, FullStops

LEMMA FullCellsAre ==
  ASSUME NEW lens, NEW n, NEW m, NormalTree(lens, n, m), Consistent(lens, m), NEW i \in CodesOf(lens)
  PROVE  /\ FullCells(lens, m)[i] = FirstWindow(lens, m, i) .. EndWindow(lens, m, i) - 1
         /\ Max(FullCells(lens, m)[i]) = EndWindow(lens, m, i) - 1
         /\ i \in FullStops(lens, m) <=> ~ (EndWindow(lens, m, i) <= TwoTo(m))
<1>1. m \in Nat /\ m > 0
  BY DEF NormalTree
<1>2. lens[i] \in Nat /\ lens[i] <= m /\ EndWindow(lens, m, i) \in Nat
  <2>1. lens[i] \in 1 .. m /\ EndWindow(lens, m, i) \in Nat
    BY EndIs
  <2> QED BY <1>1, <2>1
<1>3. PICK a \in Nat : a = CanonicalCodes(lens, m)[i] /\ FirstWindow(lens, m, i) = a * TwoTo(m - lens[i])
  BY CodeIsWindow
<1>4. PICK s \in Nat, x \in Nat : s = TwoTo(m - lens[i]) /\ s > 0 /\ x = a * s
  <2>1. m - lens[i] \in Nat
    BY <1>1, <1>2
  <2>2. PICK s \in Nat : s = TwoTo(m - lens[i]) /\ s > 0
    BY <2>1, Powers
  <2>3. a * s \in Nat
    OBVIOUS
  <2> QED BY <2>2, <2>3
<1>5. /\ FullCells(lens, m)[i] = x .. x + s - 1 /\ Max(FullCells(lens, m)[i]) = x + s - 1
  <2>1. PICK k \in Nat : k = lens[i]
    BY <1>2
  <2>2. s = TwoTo(m - k)
    BY <1>4, <2>1
  <2>3. CellsFrom(a, k, m, x, s)
    BY <1>1, <1>4, <2>2, CellsAre
  <2>4. FullCells(lens, m)[i] = CellsOf(a, k, m)
    BY <1>3, <2>1 DEF FullCells
  <2> QED BY <2>3, <2>4 DEF CellsFrom
<1>6. PICK t \in Nat, e \in Nat : t = TwoTo(m) /\ e = EndWindow(lens, m, i)
  BY <1>1, <1>2, Powers
<1>7. Max(FullCells(lens, m)[i]) = e - 1 /\ FullCells(lens, m)[i] = FirstWindow(lens, m, i) .. e - 1
  <2>1. FirstWindow(lens, m, i) = x
    BY <1>3, <1>4
  <2>2. e = x + s
    BY <1>4, <1>6, <2>1 DEF EndWindow
  <2> QED BY <1>5, <2>1, <2>2
<1>8. e - 1 >= t <=> ~ (e <= t)
  OBVIOUS
<1>9. i \in FullStops(lens, m) <=> Max(FullCells(lens, m)[i]) >= t
  BY <1>6 DEF FullStops
<1> QED BY <1>6, <1>7, <1>8, <1>9

(* The full table.                                                          *)
LEMMA FullTable ==
  ASSUME NEW lens, NEW n, NEW m, NormalTree(lens, n, m), Consistent(lens, m)
  PROVE  /\ build_full(lens, m).error \in {"NONE", "INTERNAL_INCONSISTENCY"}
         /\ build_full(lens, m).error = "NONE" <=> Accepted(lens, m)
         /\ DOMAIN build_full(lens, m).lookup = 0 .. TwoTo(m) - 1
         /\ \A w \in 0 .. TwoTo(m) - 1 :
              \/ build_full(lens, m).lookup[w] = Left
              \/ \E i \in CodesOf(lens) : build_full(lens, m).lookup[w] = Entry(i, lens[i])
         /\ Accepted(lens, m) =>
              \A w \in 0 .. TwoTo(m) - 1 :
                \/ Owners(lens, m, w) = {} /\ build_full(lens, m).lookup[w] = Left
                \/ \E i \in CodesOf(lens) : /\ Owners(lens, m, w) = {i}
                                            /\ build_full(lens, m).lookup[w] = Entry(i, lens[i])
<1>1. /\ n \in Nat /\ m \in Nat /\ m > 0 /\ 1 \in 1 .. m /\ CodesOf(lens) \in SUBSET (0 .. n - 1)
  BY DEF NormalTree, Tree, CodesOf
<1>2. Accepted(lens, m) <=> FullStops(lens, m) = {}
  <2>1. StartsAt(lens, m, 1)
    BY <1>1, StartsAre
  <2>2. Accepted(lens, m) <=> \A i \in CodesOf(lens) : EndWindow(lens, m, i) <= TwoTo(m)
    BY <2>1, GoodWhenInside
  <2>3. FullStops(lens, m) \subseteq CodesOf(lens)
    BY DEF FullStops
  <2> QED BY <2>2, <2>3, FullCellsAre
<1> DEFINE written == Before(CodesOf(lens), FullStops(lens, m))
           L == build_full(lens, m).lookup
<1>3. written \in SUBSET (0 .. n - 1) /\ written \subseteq CodesOf(lens)
  <2>1. written \subseteq CodesOf(lens)
    BY DEF Before
  <2> QED BY <1>1, <2>1
<1>4. /\ \A w \in 0 .. TwoTo(m) - 1 :
             L[w] = Written(w, written, FullCells(lens, m), FullEntry(lens), Left)
      /\ DOMAIN L = 0 .. TwoTo(m) - 1
  <2>1. L = [w \in 0 .. TwoTo(m) - 1 |->
               Written(w, written, FullCells(lens, m), FullEntry(lens), Left)]
    BY BuildFullIs, Zenon
  <2> HIDE DEF L, written
  <2> QED BY <2>1
<1>6. \A i \in CodesOf(lens) : FullEntry(lens)[i] = Entry(i, lens[i])
  BY DEF FullEntry
<1>7. build_full(lens, m).error = IF FullStops(lens, m) = {} THEN "NONE" ELSE "INTERNAL_INCONSISTENCY"
  BY BuildFullIs
<1>8. FullStops(lens, m) = {} => written = CodesOf(lens)
  BY DEF Before
<1> HIDE DEF written, L
<1>9. ASSUME NEW w \in 0 .. TwoTo(m) - 1
      PROVE  \/ (\A i \in written : w \notin FullCells(lens, m)[i]) /\ L[w] = Left
             \/ \E i \in written : w \in FullCells(lens, m)[i] /\ L[w] = Entry(i, lens[i])
  <2>1. WrittenBySome(w, written, FullCells(lens, m), FullEntry(lens), Left)
    BY <1>1, <1>3, WrittenIs
  <2>2. L[w] = Written(w, written, FullCells(lens, m), FullEntry(lens), Left)
    BY <1>4
  <2> QED BY <2>1, <2>2, <1>3, <1>6 DEF WrittenBySome
<1>10. ASSUME Accepted(lens, m), NEW w \in 0 .. TwoTo(m) - 1
       PROVE  \/ Owners(lens, m, w) = {} /\ L[w] = Left
              \/ \E i \in CodesOf(lens) : Owners(lens, m, w) = {i} /\ L[w] = Entry(i, lens[i])
  <2>1. written = CodesOf(lens) /\ w \in Nat
    <3>1. TwoTo(m) \in Nat
      BY <1>1, Powers
    <3> QED BY <3>1, <1>2, <1>8, <1>10
  <2>2. ASSUME NEW i \in CodesOf(lens)
        PROVE  w \in FullCells(lens, m)[i] <=> i \in Owners(lens, m, w)
    <3>1. PICK f \in Nat, e \in Nat : f = FirstWindow(lens, m, i) /\ e = EndWindow(lens, m, i)
      BY EndIs
    <3>2. w \in f .. e - 1 <=> (f <= w /\ w < e)
      BY <2>1
    <3>3. FullCells(lens, m)[i] = f .. e - 1
      BY <3>1, FullCellsAre
    <3>4. i \in Owners(lens, m, w) <=> Inside(lens, m, i, w)
      BY <2>1, OwnersAre
    <3> QED BY <3>1, <3>2, <3>3, <3>4 DEF Inside
  <2>3. Owners(lens, m, w) \subseteq CodesOf(lens) /\ \A i, j \in Owners(lens, m, w) : i = j
    BY <2>1, OwnersAre
  <2> QED BY <1>9, <2>1, <2>2, <2>3
<1> QED BY <1>2, <1>3, <1>4, <1>7, <1>9, <1>10 DEF L

-----------------------------------------------------------------------------
(* huffman_build_lookup_table of the low-RAM build: where the windows of a  *)
(* short code and those of a long one are in the two levels.                *)
Code(lens, m, i) == CanonicalCodes(lens, m)[i]
Extra(m) == m - L1Bits(m)
Rest(lens, m, i) == lens[i] - L1Bits(m)
ShortOf(lens, m) == {i \in CodesOf(lens) : lens[i] <= L1Bits(m)}
LongOf(lens, m) == CodesOf(lens) \ ShortOf(lens, m)
ShortCells(lens, m, i) == CellsOf(Code(lens, m, i), lens[i], L1Bits(m))
ShortStopsOf(lens, m) == {i \in ShortOf(lens, m) : Max(ShortCells(lens, m, i)) >= TwoTo(L1Bits(m))}
PrefixOf(lens, m, i) == Code(lens, m, i) \div TwoTo(lens[i] - L1Bits(m))
LocalCells(lens, m, i) == CellsOf(Code(lens, m, i) % TwoTo(Rest(lens, m, i)), Rest(lens, m, i), Extra(m))
Wide(lens, m, i) == PrefixOf(lens, m, i) >= TwoTo(L1Bits(m))
GoodTree(lens, n, m) == NormalTree(lens, n, m) /\ Consistent(lens, m)

LEMMA LevelsAre ==
  ASSUME NEW m \in Nat, m > 0
  PROVE  /\ L1Bits(m) \in 1 .. m /\ L1Bits(m) \in Nat /\ Extra(m) \in Nat
         /\ TwoTo(m) = TwoTo(L1Bits(m)) * TwoTo(Extra(m))
         /\ TwoTo(L1Bits(m)) \in Nat /\ TwoTo(L1Bits(m)) > 0
         /\ TwoTo(Extra(m)) \in Nat /\ TwoTo(Extra(m)) > 0
<1>1. L1Bits(m) \in 1 .. m
  BY TablesAssumption DEF L1Bits
<1>2. PICK l \in Nat : l = L1Bits(m) /\ l \in 1 .. m
  BY <1>1
<1>3. PICK x \in Nat : x = Extra(m) /\ m = l + x
  BY <1>2 DEF Extra
<1>4. TwoTo(l + x) = TwoTo(l) * TwoTo(x)
  BY PowerOfSum
<1> QED BY <1>2, <1>3, <1>4, Powers

(* Comparing numbers of cells with numbers of windows: e windows to a cell. *)
LEMMA CellAndWindow ==
  ASSUME NEW p \in Nat, NEW e \in Nat, NEW c \in 0 .. e - 1, NEW x \in Nat
  PROVE  (x * e <= p * e + c <=> x <= p) /\ (p * e + c < x * e <=> p < x)
<1>1. e > 0 /\ c >= 0 /\ c < e
  OBVIOUS
<1>2. ASSUME x <= p PROVE x * e <= p * e + c
  <2>1. PICK d \in Nat : p = x + d
    BY <1>2
  <2>2. p * e = x * e + d * e /\ d * e \in Nat /\ x * e \in Nat
    BY <2>1
  <2> QED BY <2>2, <1>1
<1>3. ASSUME p < x PROVE p * e + c < x * e
  <2>1. PICK d \in Nat : x = p + d + 1
    BY <1>3
  <2>2. x * e = p * e + d * e + e /\ d * e \in Nat /\ p * e \in Nat
    BY <2>1
  <2> QED BY <2>2, <1>1
<1>4. p * e + c \in Nat /\ x * e \in Nat
  BY <1>1
<1> QED BY <1>2, <1>3, <1>4

LEMMA ShortWindows ==
  ASSUME NEW lens, NEW n, NEW m, GoodTree(lens, n, m), NEW i \in ShortOf(lens, m)
  PROVE  /\ i \in ShortStopsOf(lens, m) <=> ~ (EndWindow(lens, m, i) <= TwoTo(m))
         /\ \A p \in Nat, c \in 0 .. TwoTo(Extra(m)) - 1 :
              Inside(lens, m, i, p * TwoTo(Extra(m)) + c) <=> p \in ShortCells(lens, m, i)
<1>1. NormalTree(lens, n, m) /\ Consistent(lens, m) /\ m \in Nat /\ m > 0 /\ i \in CodesOf(lens)
  BY DEF GoodTree, NormalTree, ShortOf
<1>2. lens[i] \in 1 .. m /\ lens[i] <= L1Bits(m)
  BY <1>1, EndIs DEF ShortOf
<1>3. PICK l \in Nat, x \in Nat, t \in Nat, e \in Nat :
        l = L1Bits(m) /\ x = Extra(m) /\ t = TwoTo(l) /\ e = TwoTo(x) /\ TwoTo(m) = t * e /\ m = l + x /\ e > 0
  <2>1. L1Bits(m) \in 1 .. m
    BY <1>1, LevelsAre
  <2>2. m = L1Bits(m) + Extra(m)
    BY <1>1, <2>1 DEF Extra
  <2> QED BY <1>1, <2>2, LevelsAre
<1>4. PICK a \in Nat : a = Code(lens, m, i) /\ FirstWindow(lens, m, i) = a * TwoTo(m - lens[i])
  BY <1>1, CodeIsWindow DEF Code
<1>k. PICK k \in Nat, j \in Nat : k = lens[i] /\ j = l - k /\ k <= l /\ m - k = j + x
  <2>1. PICK k \in Nat : k = lens[i]
    BY <1>2
  <2>2. k <= l /\ l - k \in Nat
    BY <1>2, <1>3, <2>1
  <2>3. m - k = (l - k) + x
    BY <1>3
  <2> QED BY <2>1, <2>2, <2>3
<1>5. PICK s \in Nat, y \in Nat :
        /\ s = TwoTo(j) /\ s > 0 /\ y = a * s
        /\ CellsOf(a, lens[i], l) = y .. y + s - 1 /\ Max(CellsOf(a, lens[i], l)) = y + s - 1
  <2>1. PICK s \in Nat : s = TwoTo(j) /\ s > 0
    BY Powers
  <2>2. PICK y \in Nat : y = a * s
    OBVIOUS
  <2>3. s = TwoTo(l - k)
    BY <1>k, <2>1
  <2>4. CellsFrom(a, k, l, y, s)
    BY <2>1, <2>2, <2>3, CellsAre
  <2>5. CellsFrom(a, lens[i], l, y, s)
    BY <2>4, <1>k, Zenon
  <2> QED BY <2>1, <2>2, <2>5 DEF CellsFrom
<1>6. TwoTo(m - lens[i]) = s * e
  <2>1. TwoTo(j + x) = TwoTo(j) * TwoTo(x)
    BY PowerOfSum
  <2> QED BY <2>1, <1>k, <1>3, <1>5
<1>7. FirstWindow(lens, m, i) = y * e /\ EndWindow(lens, m, i) = (y + s) * e
  <2>1. a * (s * e) = (a * s) * e
    OBVIOUS
  <2>2. (y + s) * e = y * e + s * e
    OBVIOUS
  <2>3. FirstWindow(lens, m, i) = y * e
    BY <1>4, <1>5, <1>6, <2>1
  <2> QED BY <1>6, <2>2, <2>3 DEF EndWindow
<1>8. (y + s) * e <= t * e <=> y + s <= t
  <2>1. \A u, v \in Nat : u < v => u * e < v * e
    BY <1>3, Multiples
  <2>2. y + s \in Nat /\ (y + s) * e \in Nat /\ t * e \in Nat
    OBVIOUS
  <2>3. (y + s = t => (y + s) * e = t * e)
    OBVIOUS
  <2>4. (y + s < t => (y + s) * e < t * e) /\ (t < y + s => t * e < (y + s) * e)
    BY <2>1, <2>2
  <2> QED BY <2>2, <2>3, <2>4
<1>9. i \in ShortStopsOf(lens, m) <=> y + s - 1 >= t
  BY <1>3, <1>4, <1>5 DEF ShortStopsOf, ShortCells
<1>10. ASSUME NEW p \in Nat, NEW c \in 0 .. e - 1
       PROVE  Inside(lens, m, i, p * e + c) <=> p \in ShortCells(lens, m, i)
  <2>1. (y * e <= p * e + c <=> y <= p) /\ (p * e + c < (y + s) * e <=> p < y + s)
    <3>1. y + s \in Nat
      OBVIOUS
    <3> QED BY <3>1, CellAndWindow
  <2>2. p \in y .. y + s - 1 <=> y <= p /\ p < y + s
    OBVIOUS
  <2>3. ShortCells(lens, m, i) = y .. y + s - 1
    BY <1>3, <1>4, <1>5 DEF ShortCells
  <2> QED BY <1>7, <2>1, <2>2, <2>3 DEF Inside
<1>11. y + s - 1 >= t <=> ~ (y + s <= t)
  OBVIOUS
<1>12. i \in ShortStopsOf(lens, m) <=> ~ (EndWindow(lens, m, i) <= TwoTo(m))
  BY <1>3, <1>7, <1>8, <1>9, <1>11
<1>13. e = TwoTo(Extra(m))
  BY <1>3
<1> QED BY <1>10, <1>12, <1>13

LEMMA PrefixAndLocal ==
  ASSUME NEW a \in Nat, NEW r \in Nat, r > 0
  PROVE  a \div r \in Nat /\ a % r \in 0 .. r - 1 /\ a = (a \div r) * r + (a % r)
<1>1. a % r \in 0 .. r - 1
  OBVIOUS
<1>2. a \div r \in Int /\ a = r * (a \div r) + (a % r)
  OBVIOUS
<1>3. PICK q \in Int, z \in 0 .. r - 1 : q = a \div r /\ z = a % r /\ a = r * q + z
  BY <1>1, <1>2
<1>4. q >= 0
  <2>1. ASSUME q < 0 PROVE FALSE
    <3>1. PICK d \in Nat : q = 0 - 1 - d
      BY <2>1
    <3>2. r * q = 0 - r - r * d /\ r * d \in Nat
      BY <3>1
    <3> QED BY <1>3, <3>2
  <2> QED BY <2>1
<1>5. r * q = q * r
  OBVIOUS
<1> QED BY <1>3, <1>4, <1>5

LEMMA LongWindows ==
  ASSUME NEW lens, NEW n, NEW m, GoodTree(lens, n, m), NEW i \in LongOf(lens, m)
  PROVE  /\ PrefixOf(lens, m, i) \in Nat
         /\ Wide(lens, m, i) <=> ~ (EndWindow(lens, m, i) <= TwoTo(m))
         /\ \A p \in Nat, c \in 0 .. TwoTo(Extra(m)) - 1 :
              Inside(lens, m, i, p * TwoTo(Extra(m)) + c)
                <=> PrefixOf(lens, m, i) = p /\ c \in LocalCells(lens, m, i)
         /\ \E c \in 0 .. TwoTo(Extra(m)) - 1 : c \in LocalCells(lens, m, i)
<1>1. NormalTree(lens, n, m) /\ Consistent(lens, m) /\ m \in Nat /\ m > 0 /\ i \in CodesOf(lens)
  BY DEF GoodTree, NormalTree, LongOf
<1>2. lens[i] \in 1 .. m /\ ~ (lens[i] <= L1Bits(m))
  BY <1>1, EndIs DEF LongOf, ShortOf
<1>3. PICK l \in Nat, x \in Nat, t \in Nat, e \in Nat :
        l = L1Bits(m) /\ x = Extra(m) /\ t = TwoTo(l) /\ e = TwoTo(x) /\ TwoTo(m) = t * e /\ m = l + x /\ e > 0
  <2>1. L1Bits(m) \in 1 .. m
    BY <1>1, LevelsAre
  <2>2. m = L1Bits(m) + Extra(m)
    BY <1>1, <2>1 DEF Extra
  <2> QED BY <1>1, <2>2, LevelsAre
<1>4. PICK a \in Nat : a = Code(lens, m, i) /\ FirstWindow(lens, m, i) = a * TwoTo(m - lens[i])
  BY <1>1, CodeIsWindow DEF Code
<1>5. PICK d \in Nat, u \in Nat : d = Rest(lens, m, i) /\ d = lens[i] - l /\ d > 0 /\ d <= x
                                  /\ u = m - lens[i] /\ u = x - d /\ x = d + u
  BY <1>1, <1>2, <1>3 DEF Rest
<1>6. PICK r \in Nat, q \in Nat : r = TwoTo(d) /\ r > 0 /\ q = TwoTo(u) /\ q > 0 /\ e = r * q
  <2>1. TwoTo(d + u) = TwoTo(d) * TwoTo(u)
    BY PowerOfSum
  <2> QED BY <2>1, <1>3, <1>5, Powers
<1>7. PICK p0 \in Nat, b \in 0 .. r - 1 : p0 = PrefixOf(lens, m, i) /\ b = a % r /\ a = p0 * r + b
  <2>1. PrefixOf(lens, m, i) = a \div r
    <3>1. TwoTo(lens[i] - L1Bits(m)) = r
      BY <1>3, <1>5, <1>6
    <3> QED BY <3>1, <1>4 DEF PrefixOf
  <2>2. a \div r \in Nat /\ a % r \in 0 .. r - 1 /\ a = (a \div r) * r + (a % r)
    BY <1>6, PrefixAndLocal
  <2> QED BY <2>1, <2>2
<1>8. PICK v \in Nat : v = b * q /\ v + q <= e /\ LocalCells(lens, m, i) = v .. v + q - 1
  <2>0. PICK b1 \in Nat : b1 = b /\ b1 < r
    BY <1>7
  <2>2. TwoTo(x - d) = q
    BY <1>5, <1>6
  <2>3. LocalCells(lens, m, i) = CellsOf(b1, d, x)
    <3>1. TwoTo(Rest(lens, m, i)) = r /\ Rest(lens, m, i) = d /\ Extra(m) = x
      BY <1>3, <1>5, <1>6
    <3>2. Code(lens, m, i) % r = b1
      BY <1>4, <1>7, <2>0
    <3> QED BY <3>1, <3>2 DEF LocalCells
  <2>4. PICK v \in Nat : v = b1 * q
    OBVIOUS
  <2>5. LocalCells(lens, m, i) = v .. v + q - 1
    <3>1. CellsFrom(b1, d, x, v, q)
      BY <1>6, <2>2, <2>4, CellsAre
    <3> QED BY <2>3, <3>1 DEF CellsFrom
  <2>6. v + q <= r * q
    <3>1. PICK f \in Nat : r = b1 + f + 1
      BY <2>0
    <3>2. (b1 + f + 1) * q = b1 * q + f * q + q /\ f * q \in Nat
      OBVIOUS
    <3> QED BY <3>1, <3>2, <2>4
  <2> QED BY <1>6, <2>0, <2>4, <2>5, <2>6
<1>h. v + q <= e /\ q > 0 /\ LocalCells(lens, m, i) = v .. v + q - 1
  BY <1>6, <1>8
<1>9. FirstWindow(lens, m, i) = p0 * e + v /\ EndWindow(lens, m, i) = p0 * e + v + q
  <2>0. b \in Nat
    BY <1>7
  <2>1. (p0 * r + b) * q = p0 * (r * q) + b * q
    <3>1. (p0 * r + b) * q = (p0 * r) * q + b * q
      BY <2>0
    <3>2. (p0 * r) * q = p0 * (r * q)
      OBVIOUS
    <3> QED BY <3>1, <3>2
  <2>2. a * q = p0 * e + v
    BY <1>6, <1>7, <1>8, <2>1
  <2>3. TwoTo(m - lens[i]) = q
    BY <1>5, <1>6
  <2> QED BY <1>4, <2>2, <2>3 DEF EndWindow
<1>10. Wide(lens, m, i) <=> ~ (p0 * e + v + q <= t * e)
  <2>1. Wide(lens, m, i) <=> p0 >= t
    BY <1>3, <1>7 DEF Wide
  <2>2. v + q - 1 \in 0 .. e - 1
    BY <1>h
  <2>3. PICK z \in 0 .. e - 1 : z = v + q - 1
    BY <2>2
  <2>4. t * e <= p0 * e + z <=> t <= p0
    BY CellAndWindow
  <2>5. p0 * e \in Nat /\ t * e \in Nat
    OBVIOUS
  <2>6. t * e <= p0 * e + z <=> ~ (p0 * e + v + q <= t * e)
    BY <2>3, <2>5, <1>h
  <2> QED BY <2>1, <2>4, <2>6
<1>11. ASSUME NEW p \in Nat, NEW c \in 0 .. e - 1
       PROVE  Inside(lens, m, i, p * e + c) <=> PrefixOf(lens, m, i) = p /\ c \in LocalCells(lens, m, i)
  <2>1. Inside(lens, m, i, p * e + c) <=> p0 * e + v <= p * e + c /\ p * e + c < p0 * e + v + q
    BY <1>9 DEF Inside
  <2>2. c \in LocalCells(lens, m, i) <=> v <= c /\ c < v + q
    BY <1>h
  <2>3. p0 * e \in Nat /\ p * e \in Nat
    OBVIOUS
  <2>4. CASE p = p0
    BY <2>1, <2>2, <2>3, <2>4, <1>7
  <2>5. CASE p < p0
    <3>1. p * e + c < p0 * e
      BY <2>5, CellAndWindow
    <3> QED BY <2>1, <2>3, <2>5, <3>1, <1>7
  <2>6. CASE p > p0
    <3>1. p0 + 1 \in Nat /\ p0 + 1 <= p /\ (p0 + 1) * e = p0 * e + e
      BY <2>6
    <3>2. (p0 + 1) * e <= p * e + c
      BY <3>1, CellAndWindow
    <3>3. PICK y \in Nat, z \in Nat : y = p0 * e /\ z = p * e
      OBVIOUS
    <3>4. y + e <= z + c
      BY <3>1, <3>2, <3>3
    <3>5. ~ (z + c < y + v + q)
      BY <3>4, <1>h
    <3>6. ~ Inside(lens, m, i, p * e + c)
      BY <2>1, <3>3, <3>5
    <3> QED BY <2>6, <3>6, <1>7
  <2> QED BY <2>4, <2>5, <2>6
<1>12. v \in 0 .. e - 1 /\ v \in LocalCells(lens, m, i)
  BY <1>h
<1>13. e = TwoTo(Extra(m)) /\ TwoTo(m) = t * e
  BY <1>3
<1> QED BY <1>7, <1>9, <1>10, <1>11, <1>12, <1>13

(* The subtables: a long code that is the first with its prefix opens one.  *)
SharingOf(lens, m, i) == {j \in LongOf(lens, m) : PrefixOf(lens, m, j) = PrefixOf(lens, m, i)}
Opener(lens, m, i) == Min(SharingOf(lens, m, i))
OpensOne(lens, m, i) == i = Opener(lens, m, i)
OpensBefore(lens, m, k) == {j \in LongOf(lens, m) : OpensOne(lens, m, j) /\ j < k}
SubIdOf(lens, m, i) == 0 + Cardinality(OpensBefore(lens, m, Opener(lens, m, i)))
FullAt(lens, m, i) == OpensOne(lens, m, i) /\ SubIdOf(lens, m, i) >= MaxSubtables
DeniedAt(lens, m, granted, i) == OpensOne(lens, m, i) /\ SubIdOf(lens, m, i) - 0 >= granted
LongStopsOf(lens, m, granted) ==
  {i \in LongOf(lens, m) : Wide(lens, m, i) \/ FullAt(lens, m, i) \/ DeniedAt(lens, m, granted, i)}
DoneLong(lens, m, granted) ==
  IF ShortStopsOf(lens, m) # {} THEN {} ELSE Before(LongOf(lens, m), LongStopsOf(lens, m, granted))
OpenedIn(lens, m, granted) == {i \in DoneLong(lens, m, granted) : OpensOne(lens, m, i)}
FirstLevelOf(lens, m) ==
  [p \in 0 .. TwoTo(L1Bits(m)) - 1 |->
     Written(p, Before(ShortOf(lens, m), ShortStopsOf(lens, m)),
             [i \in ShortOf(lens, m) |-> ShortCells(lens, m, i)],
             [i \in ShortOf(lens, m) |-> Entry(i, lens[i])], Placeholder)]
SubtableOf(lens, m, granted, id) ==
  [c \in 0 .. TwoTo(Extra(m)) - 1 |->
     Written(c, {i \in DoneLong(lens, m, granted) : SubIdOf(lens, m, i) = id},
             [i \in DoneLong(lens, m, granted) |-> LocalCells(lens, m, i)],
             [i \in DoneLong(lens, m, granted) |-> Entry(i, lens[i])], Placeholder)]
ErrorOf(lens, m, granted) ==
  IF ShortStopsOf(lens, m) # {} THEN "INTERNAL_INCONSISTENCY"
  ELSE IF LongStopsOf(lens, m, granted) = {} THEN "NONE"
  ELSE IF FullAt(lens, m, Min(LongStopsOf(lens, m, granted))) /\ ~ Wide(lens, m, Min(LongStopsOf(lens, m, granted)))
    THEN "TOO_MANY_CONTEXTS"
  ELSE "INTERNAL_INCONSISTENCY"
LookupOf(lens, m, granted) ==
  [p \in DOMAIN FirstLevelOf(lens, m) |->
     IF \E i \in OpenedIn(lens, m, granted) : PrefixOf(lens, m, i) = p
       THEN Entry(SubIdOf(lens, m, CHOOSE i \in OpenedIn(lens, m, granted) : PrefixOf(lens, m, i) = p), 0)
       ELSE FirstLevelOf(lens, m)[p]]
SubtablesOf(lens, m, granted) ==
  [id \in {SubIdOf(lens, m, i) : i \in OpenedIn(lens, m, granted)} |-> SubtableOf(lens, m, granted, id)]

LEMMA TwoLevelIs ==
  ASSUME NEW lens, NEW m, NEW count, NEW granted
  PROVE  build_two_level(lens, m, count, granted)
           = [error |-> ErrorOf(lens, m, granted), lookup |-> LookupOf(lens, m, granted),
              subtables |-> SubtablesOf(lens, m, granted),
              count |-> 0 + Cardinality(OpenedIn(lens, m, granted))]
BY Zenon DEF build_two_level, build_two_level_from, ErrorOf, LookupOf, SubtablesOf, SubtableOf, FirstLevelOf,
             OpenedIn, DoneLong, LongStopsOf, DeniedAt, FullAt, SubIdOf, OpensBefore, OpensOne, Opener,
             SharingOf, Wide, LocalCells, PrefixOf, ShortStopsOf, ShortCells, LongOf, ShortOf, Rest, Extra, Code

LEMMA OpenersAre ==
  ASSUME NEW lens, NEW n, NEW m, GoodTree(lens, n, m), NEW i \in LongOf(lens, m)
  PROVE  /\ Opener(lens, m, i) \in LongOf(lens, m) /\ Opener(lens, m, i) \in Nat
         /\ PrefixOf(lens, m, Opener(lens, m, i)) = PrefixOf(lens, m, i)
         /\ OpensOne(lens, m, Opener(lens, m, i))
         /\ \A j \in LongOf(lens, m) :
              PrefixOf(lens, m, j) = PrefixOf(lens, m, i) => /\ Opener(lens, m, j) = Opener(lens, m, i)
                                                             /\ SubIdOf(lens, m, j) = SubIdOf(lens, m, i)
<1>1. SharingOf(lens, m, i) \in SUBSET Nat /\ i \in SharingOf(lens, m, i)
  <2>1. LongOf(lens, m) \subseteq Nat
    BY DEF GoodTree, NormalTree, Tree, LongOf, CodesOf
  <2> QED BY <2>1 DEF SharingOf
<1>2. PICK f \in SharingOf(lens, m, i) : f = Opener(lens, m, i)
  BY <1>1, SmallestIs DEF Opener
<1>3. \A j \in LongOf(lens, m) : PrefixOf(lens, m, j) = PrefixOf(lens, m, i) =>
        SharingOf(lens, m, j) = SharingOf(lens, m, i)
  BY DEF SharingOf
<1>4. \A j \in LongOf(lens, m) : PrefixOf(lens, m, j) = PrefixOf(lens, m, i) =>
        Opener(lens, m, j) = Opener(lens, m, i)
  BY <1>3 DEF Opener
<1>5. \A j \in LongOf(lens, m) : PrefixOf(lens, m, j) = PrefixOf(lens, m, i) =>
        SubIdOf(lens, m, j) = SubIdOf(lens, m, i)
  BY <1>4 DEF SubIdOf
<1>6. f \in LongOf(lens, m) /\ PrefixOf(lens, m, f) = PrefixOf(lens, m, i) /\ f \in Nat
  BY <1>1, <1>2 DEF SharingOf
<1>7. OpensOne(lens, m, f)
  BY <1>2, <1>4, <1>6 DEF OpensOne
<1> QED BY <1>2, <1>4, <1>5, <1>6, <1>7

LEMMA OpensBeforeIs ==
  ASSUME NEW lens, NEW n, NEW m, GoodTree(lens, n, m), NEW k
  PROVE  IsFiniteSet(OpensBefore(lens, m, k)) /\ Cardinality(OpensBefore(lens, m, k)) \in Nat
<1>1. OpensBefore(lens, m, k) \in SUBSET (0 .. n - 1) /\ n \in Nat
  BY DEF GoodTree, NormalTree, Tree, LongOf, CodesOf, OpensBefore
<1>2. 0 \in Int /\ n - 1 \in Int
  BY <1>1
<1>3. IsFiniteSet(0 .. n - 1)
  BY <1>2, FS_Interval
<1>4. IsFiniteSet(OpensBefore(lens, m, k))
  BY <1>1, <1>3, FS_Subset
<1> QED BY <1>4, FS_CardinalityType

LEMMA SubIdsDiffer ==
  ASSUME NEW lens, NEW n, NEW m, GoodTree(lens, n, m), NEW i \in LongOf(lens, m), NEW j \in LongOf(lens, m),
         Opener(lens, m, i) < Opener(lens, m, j)
  PROVE  SubIdOf(lens, m, i) # SubIdOf(lens, m, j)
<1> DEFINE f == Opener(lens, m, i)
           g == Opener(lens, m, j)
           A == OpensBefore(lens, m, f)
           B == OpensBefore(lens, m, g)
<1>1. f \in LongOf(lens, m) /\ f \in Nat /\ g \in Nat /\ OpensOne(lens, m, f) /\ f < g
  BY OpenersAre
<1>2. LongOf(lens, m) \subseteq Nat
  BY DEF GoodTree, NormalTree, Tree, LongOf, CodesOf
<1> HIDE DEF f, g
<1>3. A \cup {f} \in SUBSET B /\ f \notin A
  BY <1>1, <1>2 DEF OpensBefore
<1>4. IsFiniteSet(A) /\ Cardinality(A) \in Nat /\ IsFiniteSet(B) /\ Cardinality(B) \in Nat
  BY OpensBeforeIs
<1> HIDE DEF A, B
<1>5. Cardinality(A \cup {f}) = Cardinality(A) + 1
  BY <1>3, <1>4, FS_AddElement
<1>6. Cardinality(A \cup {f}) <= Cardinality(B)
  BY <1>3, <1>4, FS_Subset
<1>7. PICK a \in Nat, b \in Nat : a = Cardinality(A) /\ b = Cardinality(B)
  BY <1>4
<1>8. 0 + a # 0 + b
  BY <1>5, <1>6, <1>7
<1>9. SubIdOf(lens, m, i) = 0 + Cardinality(A) /\ SubIdOf(lens, m, j) = 0 + Cardinality(B)
  BY Zenon DEF SubIdOf, A, B, f, g
<1> QED BY <1>7, <1>8, <1>9

LEMMA SubIdsAre ==
  ASSUME NEW lens, NEW n, NEW m, GoodTree(lens, n, m), NEW i \in LongOf(lens, m), NEW j \in LongOf(lens, m)
  PROVE  SubIdOf(lens, m, i) = SubIdOf(lens, m, j) <=> PrefixOf(lens, m, i) = PrefixOf(lens, m, j)
<1>1. /\ Opener(lens, m, i) \in Nat /\ PrefixOf(lens, m, Opener(lens, m, i)) = PrefixOf(lens, m, i)
      /\ Opener(lens, m, j) \in Nat /\ PrefixOf(lens, m, Opener(lens, m, j)) = PrefixOf(lens, m, j)
  BY OpenersAre
<1>2. PrefixOf(lens, m, i) = PrefixOf(lens, m, j) => SubIdOf(lens, m, i) = SubIdOf(lens, m, j)
  BY OpenersAre
<1>3. ASSUME SubIdOf(lens, m, i) = SubIdOf(lens, m, j) PROVE Opener(lens, m, i) = Opener(lens, m, j)
  <2>1. ~ (Opener(lens, m, i) < Opener(lens, m, j)) /\ ~ (Opener(lens, m, j) < Opener(lens, m, i))
    BY <1>3, SubIdsDiffer
  <2> QED BY <1>1, <2>1
<1> QED BY <1>1, <1>2, <1>3

(* The subtables do not run out: their prefixes are those of the first      *)
(* level.                                                                   *)
LEMMA SubtablesSuffice ==
  ASSUME NEW lens, NEW n, NEW m, GoodTree(lens, n, m), MaxSubtables >= TwoTo(L1Bits(m)), NEW granted
  PROVE  ErrorOf(lens, m, granted) # "TOO_MANY_CONTEXTS"
<1> SUFFICES ASSUME LongStopsOf(lens, m, granted) # {},
                    FullAt(lens, m, Min(LongStopsOf(lens, m, granted))),
                    ~ Wide(lens, m, Min(LongStopsOf(lens, m, granted)))
             PROVE  FALSE
  BY DEF ErrorOf
<1>1. m \in Nat /\ m > 0 /\ LongOf(lens, m) \subseteq Nat
  BY DEF GoodTree, NormalTree, Tree, LongOf, CodesOf
<1>2. PICK t \in Nat : t = TwoTo(L1Bits(m)) /\ t > 0
  BY <1>1, LevelsAre
<1>3. LongStopsOf(lens, m, granted) \in SUBSET Nat /\ LongStopsOf(lens, m, granted) \subseteq LongOf(lens, m)
  BY <1>1 DEF LongStopsOf
<1>4. PICK i \in LongStopsOf(lens, m, granted) :
        i = Min(LongStopsOf(lens, m, granted)) /\ \A k \in LongStopsOf(lens, m, granted) : i <= k
  BY <1>3, SmallestIs
<1>5. i \in LongOf(lens, m) /\ i \in Nat /\ OpensOne(lens, m, i) /\ ~ Wide(lens, m, i)
      /\ SubIdOf(lens, m, i) >= MaxSubtables /\ i = Opener(lens, m, i)
  BY <1>3, <1>4 DEF FullAt, OpensOne
<1> DEFINE D == OpensBefore(lens, m, i) \cup {i}
           f == [k \in D |-> PrefixOf(lens, m, k)]
<1>6. ASSUME NEW k \in D PROVE k \in LongOf(lens, m) /\ OpensOne(lens, m, k) /\ PrefixOf(lens, m, k) \in 0 .. t - 1
  <2>1. k \in LongOf(lens, m) /\ OpensOne(lens, m, k) /\ (k = i \/ k < i)
    BY <1>5, <1>6 DEF OpensBefore
  <2>2. ~ Wide(lens, m, k)
    <3>1. CASE k = i
      BY <3>1, <1>5
    <3>2. CASE k < i
      <4>1. k \in Nat
        BY <2>1, <1>1
      <4>2. k \notin LongStopsOf(lens, m, granted)
        BY <4>1, <3>2, <1>4, <1>5
      <4> QED BY <4>2, <2>1 DEF LongStopsOf
    <3> QED BY <2>1, <3>1, <3>2
  <2>3. PICK p \in Nat : p = PrefixOf(lens, m, k)
    BY <2>1, LongWindows
  <2>4. ~ (p >= t)
    BY <1>2, <2>2, <2>3 DEF Wide
  <2> QED BY <2>1, <2>3, <2>4
<1>7. f \in Injection(D, 0 .. t - 1)
  <2>1. ASSUME NEW j \in D, NEW k \in D, PrefixOf(lens, m, j) = PrefixOf(lens, m, k) PROVE j = k
    <3>1. Opener(lens, m, j) = Opener(lens, m, k)
      BY <1>6, <2>1, OpenersAre
    <3> QED BY <1>6, <3>1 DEF OpensOne
  <2>2. f \in [D -> 0 .. t - 1]
    BY <1>6
  <2>3. \A j, k \in D : f[j] = f[k] => j = k
    BY <2>1
  <2> HIDE DEF D, f
  <2> QED BY <2>2, <2>3, Zenon DEF Injection, IsInjective
<1>8. IsFiniteSet(0 .. t - 1) /\ Cardinality(0 .. t - 1) = t
  <2>1. 0 \in Int /\ t - 1 \in Int /\ ~ (0 > t - 1) /\ (t - 1) - 0 + 1 = t
    BY <1>2
  <2> QED BY <2>1, FS_Interval
<1>9. Cardinality(D) <= t
  <2> HIDE DEF D, f
  <2> QED BY <1>7, <1>8, FS_Injection
<1>10. IsFiniteSet(OpensBefore(lens, m, i)) /\ Cardinality(OpensBefore(lens, m, i)) \in Nat
  BY OpensBeforeIs
<1>11. i \notin OpensBefore(lens, m, i)
  BY <1>5 DEF OpensBefore
<1>12. Cardinality(D) = Cardinality(OpensBefore(lens, m, i)) + 1
  BY <1>10, <1>11, FS_AddElement
<1>13. PICK c \in Nat : c = Cardinality(OpensBefore(lens, m, i)) /\ c + 1 <= t
  BY <1>9, <1>10, <1>12
<1>14. SubIdOf(lens, m, i) = 0 + c
  BY <1>5, <1>13 DEF SubIdOf
<1> QED BY <1>2, <1>5, <1>13, <1>14, TablesAssumption

LEMMA LookupIs ==
  ASSUME NEW lens, NEW n, NEW m, GoodTree(lens, n, m), NEW granted
  PROVE  /\ DOMAIN LookupOf(lens, m, granted) = 0 .. TwoTo(L1Bits(m)) - 1
         /\ \A p \in 0 .. TwoTo(L1Bits(m)) - 1 :
              \/ \E i \in OpenedIn(lens, m, granted) :
                   PrefixOf(lens, m, i) = p /\ LookupOf(lens, m, granted)[p] = Entry(SubIdOf(lens, m, i), 0)
              \/ /\ \A i \in OpenedIn(lens, m, granted) : PrefixOf(lens, m, i) # p
                 /\ \/ /\ \A i \in Before(ShortOf(lens, m), ShortStopsOf(lens, m)) : p \notin ShortCells(lens, m, i)
                       /\ LookupOf(lens, m, granted)[p] = Placeholder
                    \/ \E i \in ShortOf(lens, m) :
                         p \in ShortCells(lens, m, i) /\ LookupOf(lens, m, granted)[p] = Entry(i, lens[i])
<1> DEFINE S == ShortOf(lens, m)
           W == Before(S, ShortStopsOf(lens, m))
           C == [i \in S |-> ShortCells(lens, m, i)]
           E == [i \in S |-> Entry(i, lens[i])]
           P == 0 .. TwoTo(L1Bits(m)) - 1
           F == FirstLevelOf(lens, m)
           L == LookupOf(lens, m, granted)
<1>1. n \in Nat /\ S \in SUBSET (0 .. n - 1) /\ W \in SUBSET (0 .. n - 1) /\ W \subseteq S
  BY DEF GoodTree, NormalTree, Tree, ShortOf, CodesOf, Before
<1>2. DOMAIN F = P /\ \A p \in P : F[p] = Written(p, W, C, E, Placeholder)
  <2> HIDE DEF W, C, E, P
  <2>1. F = [p \in P |-> Written(p, W, C, E, Placeholder)]
    BY Zenon DEF FirstLevelOf, W, C, E, P, S
  <2> HIDE DEF F
  <2> QED BY <2>1
<1>3. \A i \in S : C[i] = ShortCells(lens, m, i) /\ E[i] = Entry(i, lens[i])
  OBVIOUS
<1> HIDE DEF W, C, E, P, F, S
<1>4. ASSUME NEW p \in P
      PROVE  \/ (\A i \in W : p \notin ShortCells(lens, m, i)) /\ F[p] = Placeholder
             \/ \E i \in S : p \in ShortCells(lens, m, i) /\ F[p] = Entry(i, lens[i])
  <2>1. WrittenBySome(p, W, C, E, Placeholder)
    BY <1>1, WrittenIs
  <2> QED BY <1>1, <1>2, <1>3, <2>1 DEF WrittenBySome
<1>5. L = [p \in P |-> IF \E i \in OpenedIn(lens, m, granted) : PrefixOf(lens, m, i) = p
              THEN Entry(SubIdOf(lens, m, CHOOSE i \in OpenedIn(lens, m, granted) : PrefixOf(lens, m, i) = p), 0)
              ELSE F[p]]
  BY <1>2, Zenon DEF LookupOf, F
<1> HIDE DEF L
<1>6. ASSUME NEW p \in P
      PROVE  \/ \E i \in OpenedIn(lens, m, granted) :
                  PrefixOf(lens, m, i) = p /\ L[p] = Entry(SubIdOf(lens, m, i), 0)
             \/ (\A i \in OpenedIn(lens, m, granted) : PrefixOf(lens, m, i) # p) /\ L[p] = F[p]
  <2>1. CASE \E i \in OpenedIn(lens, m, granted) : PrefixOf(lens, m, i) = p
    <3>1. PICK i : i = CHOOSE k \in OpenedIn(lens, m, granted) : PrefixOf(lens, m, k) = p
      OBVIOUS
    <3>2. i \in OpenedIn(lens, m, granted) /\ PrefixOf(lens, m, i) = p
      BY <2>1, <3>1, Zenon
    <3>3. L[p] = Entry(SubIdOf(lens, m, i), 0)
      BY <1>5, <2>1, <3>1, Zenon
    <3> QED BY <3>2, <3>3
  <2>2. CASE ~ \E i \in OpenedIn(lens, m, granted) : PrefixOf(lens, m, i) = p
    <3>1. L[p] = F[p]
      BY <1>5, <2>2, Zenon
    <3> QED BY <2>2, <3>1
  <2> QED BY <2>1, <2>2
<1>7. DOMAIN L = P
  BY <1>5
<1>8. ASSUME NEW p \in P
      PROVE  \/ \E i \in OpenedIn(lens, m, granted) :
                  PrefixOf(lens, m, i) = p /\ L[p] = Entry(SubIdOf(lens, m, i), 0)
             \/ /\ \A i \in OpenedIn(lens, m, granted) : PrefixOf(lens, m, i) # p
                /\ \/ (\A i \in W : p \notin ShortCells(lens, m, i)) /\ L[p] = Placeholder
                   \/ \E i \in S : p \in ShortCells(lens, m, i) /\ L[p] = Entry(i, lens[i])
  BY <1>4, <1>6
<1> QED BY <1>7, <1>8 DEF L, P, S, W

LEMMA SubtableIs ==
  ASSUME NEW lens, NEW n, NEW m, GoodTree(lens, n, m), NEW granted, NEW id,
         NEW c \in 0 .. TwoTo(Extra(m)) - 1
  PROVE  LET done == DoneLong(lens, m, granted)
         IN  \/ /\ \A i \in done : SubIdOf(lens, m, i) = id => c \notin LocalCells(lens, m, i)
                /\ SubtableOf(lens, m, granted, id)[c] = Placeholder
             \/ \E i \in done : /\ SubIdOf(lens, m, i) = id /\ c \in LocalCells(lens, m, i)
                                /\ SubtableOf(lens, m, granted, id)[c] = Entry(i, lens[i])
<1> DEFINE D == DoneLong(lens, m, granted)
           W == {i \in D : SubIdOf(lens, m, i) = id}
           C == [i \in D |-> LocalCells(lens, m, i)]
           E == [i \in D |-> Entry(i, lens[i])]
<1>1. n \in Nat /\ W \in SUBSET (0 .. n - 1)
  <2>1. D \subseteq LongOf(lens, m)
    BY DEF DoneLong, Before
  <2>2. n \in Nat /\ LongOf(lens, m) \subseteq 0 .. n - 1
    BY DEF GoodTree, NormalTree, Tree, LongOf, CodesOf
  <2> QED BY <2>1, <2>2
<1>2. SubtableOf(lens, m, granted, id)[c] = Written(c, W, C, E, Placeholder)
  BY DEF SubtableOf
<1>3. \A i \in D : C[i] = LocalCells(lens, m, i) /\ E[i] = Entry(i, lens[i])
  OBVIOUS
<1>4. \A i : i \in W <=> i \in D /\ SubIdOf(lens, m, i) = id
  OBVIOUS
<1> HIDE DEF W, C, E, D
<1>5. WrittenBySome(c, W, C, E, Placeholder)
  BY <1>1, WrittenIs
<1>6. \/ (\A i \in D : SubIdOf(lens, m, i) = id => c \notin LocalCells(lens, m, i))
         /\ SubtableOf(lens, m, granted, id)[c] = Placeholder
      \/ \E i \in D : /\ SubIdOf(lens, m, i) = id /\ c \in LocalCells(lens, m, i)
                      /\ SubtableOf(lens, m, granted, id)[c] = Entry(i, lens[i])
  BY <1>2, <1>3, <1>4, <1>5 DEF WrittenBySome
<1> QED BY <1>6 DEF D

(* What the two levels answer is in the tables.                             *)
LEMMA LevelsAreTyped ==
  ASSUME NEW lens, NEW n, NEW m, GoodTree(lens, n, m), n > 0, NEW granted, NEW p \in 0 .. TwoTo(L1Bits(m)) - 1
  PROVE  LookupOf(lens, m, granted)[p]
           \in [code : 0 .. n - 1, bits : 1 .. m] \cup [code : DOMAIN SubtablesOf(lens, m, granted), bits : {0}]
<1>1. /\ n \in Nat /\ m \in Nat /\ m > 0
      /\ \A i \in ShortOf(lens, m) : i \in 0 .. n - 1 /\ lens[i] \in 1 .. m
  <2>1. NormalTree(lens, n, m) /\ \A i \in ShortOf(lens, m) : i \in CodesOf(lens)
    BY DEF GoodTree, ShortOf
  <2>2. n \in Nat /\ m \in Nat /\ m > 0
    BY <2>1 DEF NormalTree, Tree
  <2> QED BY <2>1, <2>2, EndIs
<1>2. DOMAIN SubtablesOf(lens, m, granted) = {SubIdOf(lens, m, i) : i \in OpenedIn(lens, m, granted)}
  BY DEF SubtablesOf
<1>3. 0 \in 0 .. n - 1 /\ 1 \in 1 .. m
  BY <1>1
<1>4. Placeholder \in [code : 0 .. n - 1, bits : 1 .. m]
  BY <1>3 DEF Placeholder, Entry
<1>5. \A i \in ShortOf(lens, m) : Entry(i, lens[i]) \in [code : 0 .. n - 1, bits : 1 .. m]
  BY <1>1 DEF Entry
<1>6. \A i \in OpenedIn(lens, m, granted) :
        Entry(SubIdOf(lens, m, i), 0) \in [code : DOMAIN SubtablesOf(lens, m, granted), bits : {0}]
  BY <1>2 DEF Entry
<1>7. \/ \E i \in OpenedIn(lens, m, granted) : LookupOf(lens, m, granted)[p] = Entry(SubIdOf(lens, m, i), 0)
      \/ LookupOf(lens, m, granted)[p] = Placeholder
      \/ \E i \in ShortOf(lens, m) : LookupOf(lens, m, granted)[p] = Entry(i, lens[i])
  BY LookupIs
<1> QED BY <1>4, <1>5, <1>6, <1>7

(* The low-RAM build takes good trees only.                                 *)
LEMMA LevelsAccept ==
  ASSUME NEW lens, NEW n, NEW m, GoodTree(lens, n, m), NEW granted, ErrorOf(lens, m, granted) = "NONE"
  PROVE  /\ Accepted(lens, m)
         /\ DoneLong(lens, m, granted) = LongOf(lens, m)
         /\ Before(ShortOf(lens, m), ShortStopsOf(lens, m)) = ShortOf(lens, m)
<1>1. NormalTree(lens, n, m) /\ Consistent(lens, m) /\ m \in Nat /\ m > 0 /\ 1 \in 1 .. m
  BY DEF GoodTree, NormalTree
<1>2. ShortStopsOf(lens, m) = {} /\ LongStopsOf(lens, m, granted) = {}
  BY DEF ErrorOf
<1>3. ASSUME NEW i \in CodesOf(lens) PROVE EndWindow(lens, m, i) <= TwoTo(m)
  <2>1. CASE i \in ShortOf(lens, m)
    BY <1>2, <2>1, ShortWindows
  <2>2. CASE i \notin ShortOf(lens, m)
    <3>1. i \in LongOf(lens, m)
      BY <2>2 DEF LongOf
    <3>2. ~ Wide(lens, m, i)
      BY <1>2, <3>1 DEF LongStopsOf
    <3> QED BY <3>1, <3>2, LongWindows
  <2> QED BY <2>1, <2>2
<1>4. Accepted(lens, m)
  <2>1. StartsAt(lens, m, 1)
    BY <1>1, StartsAre
  <2> QED BY <1>1, <1>3, <2>1, GoodWhenInside
<1> QED BY <1>2, <1>4 DEF DoneLong, Before

DecodeOf(lens, m, granted, p, c) ==
  IF LookupOf(lens, m, granted)[p].bits = 0
    THEN SubtablesOf(lens, m, granted)[LookupOf(lens, m, granted)[p].code][c]
    ELSE LookupOf(lens, m, granted)[p]

DecodesTo(lens, m, w, entry) ==
  \/ Owners(lens, m, w) = {} /\ entry = Placeholder
  \/ \E i \in CodesOf(lens) : Owners(lens, m, w) = {i} /\ entry = Entry(i, lens[i])

(* The two levels decode a window to the code it belongs to.                *)
LEMMA LevelsDecode ==
  ASSUME NEW lens, NEW n, NEW m, GoodTree(lens, n, m), NEW granted, ErrorOf(lens, m, granted) = "NONE",
         NEW p \in 0 .. TwoTo(L1Bits(m)) - 1, NEW c \in 0 .. TwoTo(Extra(m)) - 1
  PROVE  DecodesTo(lens, m, p * TwoTo(Extra(m)) + c, DecodeOf(lens, m, granted, p, c))
<1>1. NormalTree(lens, n, m) /\ m \in Nat /\ m > 0
  BY DEF GoodTree, NormalTree
<1>2. PICK t \in Nat, e \in Nat : t = TwoTo(L1Bits(m)) /\ e = TwoTo(Extra(m)) /\ e > 0
  BY <1>1, LevelsAre
<1>3. p \in Nat /\ c \in 0 .. e - 1 /\ p * e \in Nat /\ p * e + c \in Nat
  BY <1>2
<1> DEFINE L == LookupOf(lens, m, granted)
           w == p * e + c
<1>4. \A i \in CodesOf(lens) : i \in ShortOf(lens, m) \/ i \in LongOf(lens, m)
  BY DEF LongOf
<1>5. /\ ShortOf(lens, m) \subseteq CodesOf(lens) /\ LongOf(lens, m) \subseteq CodesOf(lens)
      /\ \A i \in ShortOf(lens, m) : i \notin LongOf(lens, m)
  BY DEF LongOf, ShortOf
<1>6. \A i \in ShortOf(lens, m) : \A x \in 0 .. e - 1 :
        Inside(lens, m, i, p * e + x) <=> p \in ShortCells(lens, m, i)
  BY <1>2, <1>3, ShortWindows
<1>7. \A i \in LongOf(lens, m) : \A x \in 0 .. e - 1 :
        Inside(lens, m, i, p * e + x) <=> PrefixOf(lens, m, i) = p /\ x \in LocalCells(lens, m, i)
  BY <1>2, <1>3, LongWindows
<1>8. /\ Owners(lens, m, w) = {i \in CodesOf(lens) : Inside(lens, m, i, w)}
      /\ \A i, j \in Owners(lens, m, w) : i = j
  BY <1>1, <1>3, OwnersAre
<1>9. DoneLong(lens, m, granted) = LongOf(lens, m)
      /\ Before(ShortOf(lens, m), ShortStopsOf(lens, m)) = ShortOf(lens, m)
  BY LevelsAccept
<1> HIDE DEF w, L
<1>10. ASSUME NEW i \in CodesOf(lens), Inside(lens, m, i, w) PROVE Owners(lens, m, w) = {i}
  BY <1>8, <1>10
<1>11. ASSUME \A i \in CodesOf(lens) : ~ Inside(lens, m, i, w) PROVE Owners(lens, m, w) = {}
  BY <1>8, <1>11
<1>12. CASE \E i \in OpenedIn(lens, m, granted) : PrefixOf(lens, m, i) = p /\ L[p] = Entry(SubIdOf(lens, m, i), 0)
  <2>1. PICK i \in OpenedIn(lens, m, granted) : PrefixOf(lens, m, i) = p /\ L[p] = Entry(SubIdOf(lens, m, i), 0)
    BY <1>12
  <2>2. i \in LongOf(lens, m)
    BY <1>9, <2>1 DEF OpenedIn
  <2> DEFINE S == SubtableOf(lens, m, granted, SubIdOf(lens, m, i))
  <2>3. DecodeOf(lens, m, granted, p, c) = S[c]
    <3>1. L[p].bits = 0 /\ L[p].code = SubIdOf(lens, m, i)
      BY <2>1 DEF Entry
    <3>2. SubtablesOf(lens, m, granted)[SubIdOf(lens, m, i)] = S
      BY <2>1 DEF SubtablesOf
    <3> HIDE DEF S
    <3> QED BY <3>1, <3>2, Zenon DEF DecodeOf, L
  <2>4. \A j \in LongOf(lens, m) : SubIdOf(lens, m, j) = SubIdOf(lens, m, i) <=> PrefixOf(lens, m, j) = p
    BY <2>1, <2>2, SubIdsAre
  <2>5. \A j \in ShortOf(lens, m) : ~ Inside(lens, m, j, w)
    <3>1. PICK x \in 0 .. e - 1 : x \in LocalCells(lens, m, i)
      BY <1>2, <2>2, LongWindows
    <3>2. Inside(lens, m, i, p * e + x)
      BY <1>7, <2>1, <2>2, <3>1
    <3>3. ASSUME NEW j \in ShortOf(lens, m), p \in ShortCells(lens, m, j) PROVE FALSE
      <4>1. Inside(lens, m, j, p * e + x)
        BY <1>6, <3>3
      <4>2. p * e + x \in Nat
        BY <1>2, <1>3
      <4>3. \A k, h \in Owners(lens, m, p * e + x) : k = h
        BY <1>1, <4>2, OwnersAre
      <4>4. i \in Owners(lens, m, p * e + x) /\ j \in Owners(lens, m, p * e + x)
        BY <1>1, <1>5, <2>2, <3>2, <4>1, <4>2, OwnersAre
      <4> QED BY <4>3, <4>4, <1>5, <2>2
    <3> QED BY <1>3, <1>6, <3>3 DEF w
  <2>6. CASE /\ \A j \in LongOf(lens, m) : SubIdOf(lens, m, j) = SubIdOf(lens, m, i) => c \notin LocalCells(lens, m, j)
             /\ S[c] = Placeholder
    <3>1. \A j \in LongOf(lens, m) : ~ Inside(lens, m, j, w)
      BY <1>3, <1>7, <2>4, <2>6 DEF w
    <3>2. Owners(lens, m, w) = {}
      BY <1>4, <1>11, <2>5, <3>1
    <3> QED BY <1>2, <2>3, <2>6, <3>2 DEF DecodesTo, w
  <2>7. CASE \E j \in LongOf(lens, m) : /\ SubIdOf(lens, m, j) = SubIdOf(lens, m, i) /\ c \in LocalCells(lens, m, j)
                                        /\ S[c] = Entry(j, lens[j])
    <3>1. PICK j \in LongOf(lens, m) : /\ SubIdOf(lens, m, j) = SubIdOf(lens, m, i) /\ c \in LocalCells(lens, m, j)
                                       /\ S[c] = Entry(j, lens[j])
      BY <2>7
    <3>2. Inside(lens, m, j, w)
      BY <1>3, <1>7, <2>4, <3>1 DEF w
    <3>3. j \in CodesOf(lens) /\ Owners(lens, m, w) = {j}
      BY <1>5, <1>10, <3>2
    <3> QED BY <1>2, <2>3, <3>1, <3>3 DEF DecodesTo, w
  <2> QED BY <1>9, <2>6, <2>7, SubtableIs
<1>13. CASE /\ \A i \in OpenedIn(lens, m, granted) : PrefixOf(lens, m, i) # p
            /\ \/ (\A i \in ShortOf(lens, m) : p \notin ShortCells(lens, m, i)) /\ L[p] = Placeholder
               \/ \E i \in ShortOf(lens, m) : p \in ShortCells(lens, m, i) /\ L[p] = Entry(i, lens[i])
  <2>1. ASSUME NEW j \in LongOf(lens, m) PROVE ~ Inside(lens, m, j, w)
    <3>1. /\ Opener(lens, m, j) \in LongOf(lens, m) /\ OpensOne(lens, m, Opener(lens, m, j))
          /\ PrefixOf(lens, m, Opener(lens, m, j)) = PrefixOf(lens, m, j)
      BY OpenersAre
    <3>2. PrefixOf(lens, m, j) # p
      BY <1>9, <1>13, <3>1 DEF OpenedIn
    <3> QED BY <1>3, <1>7, <3>2 DEF w
  <2>2. CASE (\A i \in ShortOf(lens, m) : p \notin ShortCells(lens, m, i)) /\ L[p] = Placeholder
    <3>1. \A j \in ShortOf(lens, m) : ~ Inside(lens, m, j, w)
      BY <1>3, <1>6, <2>2 DEF w
    <3>2. Owners(lens, m, w) = {}
      BY <1>4, <1>11, <2>1, <3>1
    <3>3. L[p].bits # 0
      BY <2>2 DEF Placeholder, Entry
    <3>4. DecodeOf(lens, m, granted, p, c) = Placeholder
      BY <2>2, <3>3, Zenon DEF DecodeOf, L
    <3> QED BY <1>2, <3>2, <3>4 DEF DecodesTo, w
  <2>3. CASE \E i \in ShortOf(lens, m) : p \in ShortCells(lens, m, i) /\ L[p] = Entry(i, lens[i])
    <3>1. PICK i \in ShortOf(lens, m) : p \in ShortCells(lens, m, i) /\ L[p] = Entry(i, lens[i])
      BY <2>3
    <3>2. i \in CodesOf(lens) /\ Inside(lens, m, i, w)
      BY <1>3, <1>5, <1>6, <3>1 DEF w
    <3>3. Owners(lens, m, w) = {i}
      BY <1>10, <3>2
    <3>4. lens[i] # 0
      <4>1. lens[i] \in 1 .. m
        BY <1>1, <3>2, EndIs
      <4> QED BY <4>1, <1>1
    <3>5. L[p].bits # 0
      BY <3>1, <3>4 DEF Entry
    <3>6. DecodeOf(lens, m, granted, p, c) = Entry(i, lens[i])
      BY <3>1, <3>5, Zenon DEF DecodeOf, L
    <3> QED BY <1>2, <3>2, <3>3, <3>6 DEF DecodesTo, w
  <2> QED BY <1>13, <2>2, <2>3
<1>14. \/ \E i \in OpenedIn(lens, m, granted) : PrefixOf(lens, m, i) = p /\ L[p] = Entry(SubIdOf(lens, m, i), 0)
       \/ /\ \A i \in OpenedIn(lens, m, granted) : PrefixOf(lens, m, i) # p
          /\ \/ (\A i \in ShortOf(lens, m) : p \notin ShortCells(lens, m, i)) /\ L[p] = Placeholder
             \/ \E i \in ShortOf(lens, m) : p \in ShortCells(lens, m, i) /\ L[p] = Entry(i, lens[i])
  <2>1. \/ \E i \in OpenedIn(lens, m, granted) : PrefixOf(lens, m, i) = p /\ L[p] = Entry(SubIdOf(lens, m, i), 0)
        \/ /\ \A i \in OpenedIn(lens, m, granted) : PrefixOf(lens, m, i) # p
           /\ \/ /\ \A i \in Before(ShortOf(lens, m), ShortStopsOf(lens, m)) : p \notin ShortCells(lens, m, i)
                 /\ L[p] = Placeholder
              \/ \E i \in ShortOf(lens, m) : p \in ShortCells(lens, m, i) /\ L[p] = Entry(i, lens[i])
    BY LookupIs DEF L
  <2> QED BY <1>9, <2>1
<1> QED BY <1>12, <1>13, <1>14

InCell(w, t, e, p, c) == p = w \div e /\ c = w % e /\ w = p * e + c /\ p \in 0 .. t - 1 /\ c \in 0 .. e - 1

LEMMA CellOfWindow ==
  ASSUME NEW t \in Nat, NEW e \in Nat, e > 0, NEW z \in Nat, z = t * e, NEW w \in 0 .. z - 1
  PROVE  \E p, c : InCell(w, t, e, p, c)
<1>1. w \in Nat /\ w < t * e
  OBVIOUS
<1>2. w \div e \in Nat /\ w % e \in 0 .. e - 1 /\ w = (w \div e) * e + (w % e)
  BY <1>1, PrefixAndLocal
<1>3. PICK p \in Nat, c \in 0 .. e - 1 : p = w \div e /\ c = w % e /\ w = p * e + c
  BY <1>2
<1>4. p < t
  BY <1>1, <1>3, CellAndWindow
<1>5. p \in 0 .. t - 1
  BY <1>4
<1> QED BY <1>3, <1>5 DEF InCell

(* The two-level table.                                                     *)
LEMMA TwoLevelTable ==
  ASSUME NEW lens, NEW n, NEW m, GoodTree(lens, n, m), n > 0, MaxSubtables >= TwoTo(L1Bits(m)),
         NEW count, NEW granted, NEW built, built = build_two_level(lens, m, count, granted)
  PROVE  /\ built.error \in {"NONE", "INTERNAL_INCONSISTENCY"}
         /\ DOMAIN built.lookup = 0 .. TwoTo(L1Bits(m)) - 1
         /\ \A p \in DOMAIN built.lookup :
              built.lookup[p] \in [code : 0 .. n - 1, bits : 1 .. m] \cup [code : DOMAIN built.subtables, bits : {0}]
         /\ built.error = "NONE" =>
              /\ Accepted(lens, m)
              /\ \A w \in 0 .. TwoTo(m) - 1 :
                   DecodesTo(lens, m, w, decode_two_level(built.lookup, built.subtables, m, w))
<1>1. /\ built.error = ErrorOf(lens, m, granted) /\ built.lookup = LookupOf(lens, m, granted)
      /\ built.subtables = SubtablesOf(lens, m, granted)
  BY TwoLevelIs
<1>2. built.error \in {"NONE", "INTERNAL_INCONSISTENCY"}
  <2>1. ErrorOf(lens, m, granted) \in {"NONE", "INTERNAL_INCONSISTENCY", "TOO_MANY_CONTEXTS"}
    BY DEF ErrorOf
  <2> QED BY <1>1, <2>1, SubtablesSuffice
<1>3. DOMAIN built.lookup = 0 .. TwoTo(L1Bits(m)) - 1
  BY <1>1, LookupIs
<1>4. \A p \in DOMAIN built.lookup :
        built.lookup[p] \in [code : 0 .. n - 1, bits : 1 .. m] \cup [code : DOMAIN built.subtables, bits : {0}]
  <2>1. ASSUME NEW p \in 0 .. TwoTo(L1Bits(m)) - 1
        PROVE  LookupOf(lens, m, granted)[p] \in [code : 0 .. n - 1, bits : 1 .. m]
                 \cup [code : DOMAIN SubtablesOf(lens, m, granted), bits : {0}]
    BY LevelsAreTyped
  <2> QED BY <1>1, <1>3, <2>1, Zenon
<1>5. ASSUME built.error = "NONE", NEW w \in 0 .. TwoTo(m) - 1
      PROVE  DecodesTo(lens, m, w, decode_two_level(built.lookup, built.subtables, m, w))
  <2>1. m \in Nat /\ m > 0
    BY DEF GoodTree, NormalTree
  <2>2. PICK t \in Nat, e \in Nat, z \in Nat :
          t = TwoTo(L1Bits(m)) /\ e = TwoTo(Extra(m)) /\ e > 0 /\ z = TwoTo(m) /\ z = t * e
    BY <2>1, LevelsAre
  <2>3. PICK p, c : InCell(w, t, e, p, c)
    <3>1. w \in 0 .. z - 1
      BY <1>5, <2>2
    <3>2. z = t * e /\ e > 0
      BY <2>2
    <3> QED BY <3>1, <3>2, CellOfWindow
  <2> USE DEF InCell
  <2>4. DecodesTo(lens, m, w, DecodeOf(lens, m, granted, p, c))
    BY <1>1, <1>5, <2>2, <2>3, LevelsDecode
  <2>5. decode_two_level(built.lookup, built.subtables, m, w) = DecodeOf(lens, m, granted, p, c)
    <3>1. e = TwoTo(m - L1Bits(m))
      BY <2>2 DEF Extra
    <3> QED BY <1>1, <2>3, <3>1, Zenon DEF decode_two_level, DecodeOf
  <2> QED BY <2>4, <2>5
<1>6. built.error = "NONE" => Accepted(lens, m)
  BY <1>1, LevelsAccept
<1> QED BY <1>2, <1>3, <1>4, <1>5, <1>6

-----------------------------------------------------------------------------
(* The import of a tree.                                                    *)
CodesTyped ==
  /\ lowram \in BOOLEAN /\ import \in Imports \cup {"none"}
  /\ numbits \in [Codes -> 0 .. 255 \cup {Unread}]
  /\ curcode \in 0 .. NumCodes
  /\ result \in Errors \cup {"no tree", "reading"}

TablesTyped ==
  /\ DOMAIN lookup = 0 .. TwoTo(LookupBits(lowram)) - 1
  /\ \A w \in DOMAIN lookup :
       lookup[w] \in Entries \cup {Left} \cup [code : DOMAIN subtables, bits : {0}]

\* The lengths before curcode were written by this import.
ReadSoFar ==
  /\ \A i \in Codes : i < curcode => numbits[i] \in 0 .. 255
  /\ advanced /\ last \in 0 .. 255

SmallTreeSoFar ==
  /\ small \in [lengths : Seq(0 .. Stop), start : Nat, stopped : BOOLEAN]
  /\ Len(small.lengths) <= SmallCodes

\* A tree is in use between two imports, when all of it was read.
ResultIs ==
  /\ import # "none" => result = "reading"
  /\ TreeInUse => import = "none" /\ curcode = NumCodes

(* The invariant of the import: the types, what of the tree was read, and   *)
(* what the tables of a tree in use mean.                                   *)
ImportInv ==
  /\ CodesTyped /\ TablesTyped /\ ReadSoFar /\ SmallTreeSoFar /\ ResultIs
  /\ RefusesExactlyBadTrees /\ WindowsDecodeToTheirCode

LEMMA ImportTypes ==
  /\ NumCodes \in Nat /\ NumCodes > 0 /\ MaxBits \in Nat /\ MaxBits > 0 /\ MaxBits <= 24
  /\ SmallBits \in Nat /\ SmallBits > 0 /\ SmallBits <= 24 /\ SmallCodes \in Nat /\ SmallCodes > 0 /\ SmallCodes <= 256
BY ImportAssumption

LEMMA TypesAre == HuffmanTypeOK <=> CodesTyped /\ TablesTyped
BY DEF HuffmanTypeOK, CodesTyped, TablesTyped

\* All read: the tree of the tables.
LEMMA TreeIsRead ==
  ASSUME CodesTyped, ReadSoFar, curcode >= NumCodes
  PROVE  Tree(numbits, NumCodes) /\ DOMAIN numbits = Codes /\ \A i \in Codes : numbits[i] \in 0 .. 255
<1>1. curcode = NumCodes /\ NumCodes \in Nat
  <2>1. curcode \in 0 .. NumCodes
    BY Zenon DEF CodesTyped
  <2>2. NumCodes \in Nat
    BY ImportTypes
  <2> QED BY <2>1, <2>2
<1>2. numbits = [i \in Codes |-> numbits[i]] /\ DOMAIN numbits = Codes
  BY DEF CodesTyped
<1>3. \A i \in Codes : i < NumCodes
  BY <1>1 DEF Codes
<1>4. \A i \in Codes : numbits[i] \in 0 .. 255
  BY <1>1, <1>3 DEF ReadSoFar
<1>5. numbits \in [Codes -> Nat]
  <2>1. \A i \in Codes : numbits[i] \in Nat
    BY <1>4
  <2> QED BY <1>2, <2>1
<1> QED BY <1>1, <1>2, <1>4, <1>5 DEF Tree, Codes

LEMMA TreeIsGood ==
  ASSUME CodesTyped, ReadSoFar, curcode >= NumCodes, Consistent(numbits, MaxBits)
  PROVE  GoodTree(numbits, NumCodes, MaxBits)
BY TreeIsRead, ImportTypes DEF GoodTree, NormalTree, Consistent

LEMMA BadTreeIsRefused ==
  ASSUME CodesTyped, ReadSoFar, curcode >= NumCodes, ~ Consistent(numbits, MaxBits)
  PROVE  ~ Accepted(numbits, MaxBits)
<1> SUFFICES ASSUME Accepted(numbits, MaxBits) PROVE FALSE
  OBVIOUS
<1>1. NormalTree(numbits, NumCodes, MaxBits)
  BY TreeIsRead, ImportTypes DEF NormalTree, Accepted
<1> QED BY <1>1, GoodIsConsistent

(* A run is at least two codes.                                             *)
LEMMA PowersGrow ==
  ASSUME NEW n \in Nat
  PROVE  TwoTo(n) > n
<1> DEFINE good == {k \in 0 .. n : TwoTo(k) > k}
<1>1. 0 \in good
  BY Powers
<1>2. ASSUME NEW k \in 1 .. n, k - 1 \in good PROVE k \in good
  <2>1. PICK j \in Nat : j = k - 1 /\ k = j + 1
    BY <1>2
  <2>2. TwoTo(k) = 2 * TwoTo(j) /\ TwoTo(j) \in Nat /\ TwoTo(j) > j
    BY <1>2, <2>1, Powers
  <2> QED BY <2>1, <2>2
<1>3. \A k \in 0 .. n : k \in good
  <2> HIDE DEF good
  <2> QED BY <1>1, <1>2, AllAlong
<1>4. n \in 0 .. n
  OBVIOUS
<1> QED BY <1>3, <1>4

LEMMA RunsAreLong ==
  /\ TwoTo(RleFullBits) \in Nat
  /\ \A n \in RunLengths : n \in Nat /\ n >= 2
<1>0. Stop \in Nat /\ NumCodes \in Nat /\ NumCodes - (Stop + 2) \in Nat /\ NumCodes - (Stop + 2) > 0
  BY ImportAssumption DEF Stop
<1>1. PICK x \in Nat : x = NumCodes - (Stop + 2) /\ x > 0 /\ x <= NumCodes
  BY <1>0
<1> DEFINE T == {n \in Nat : x < TwoTo(n)}
<1>2. T \in SUBSET Nat /\ x \in T
  <2>1. x < TwoTo(x)
    BY PowersGrow, Powers
  <2> QED BY <2>1
<1>3. PICK n \in T : \A k \in T : n <= k
  <2> HIDE DEF T
  <2> QED BY <1>2, LeastNumber
<1>4. n \in Nat /\ n <= x /\ x < TwoTo(n)
  BY <1>2, <1>3
<1>5. n # 0
  BY <1>1, <1>4, Powers
<1>6. n - 1 \in Nat /\ n - 1 \notin T
  BY <1>3, <1>4, <1>5
<1>7. TwoTo(n - 1) <= x
  BY <1>6, Powers
<1>8. n \in 1 .. NumCodes
  BY <1>0, <1>1, <1>4, <1>5
<1>9. TwoTo(n - 1) <= NumCodes - (Stop + 2) /\ NumCodes - (Stop + 2) < TwoTo(n)
  BY <1>1, <1>4, <1>7
<1>10. RleFullBits \in 1 .. NumCodes
  BY <1>8, <1>9, Zenon DEF RleFullBits
<1>11. RleFullBits \in Nat
  BY <1>0, <1>10
<1>12. PICK z \in Nat : z = TwoTo(RleFullBits)
  BY <1>11, Powers
<1>13. \A k \in (2 .. Stop + 1) \cup (Stop + 2 .. Stop + 1 + z) : k \in Nat /\ k >= 2
  BY <1>0
<1> QED BY <1>12, <1>13 DEF RunLengths

(* What a step of the import has to show.                                   *)
LEMMA TablesStay ==
  ASSUME TablesTyped, UNCHANGED <<lowram, lookup, subtables>>
  PROVE  TablesTyped'
BY DEF TablesTyped, LookupBits

LEMMA NoTreeInUse ==
  ASSUME result' \in {"reading", "INVALID_DATA", "INTERNAL_INCONSISTENCY"},
         result' = "INTERNAL_INCONSISTENCY" /\ curcode' = NumCodes /\ ~ lowram' => ~ Accepted(numbits', MaxBits)
  PROVE  RefusesExactlyBadTrees' /\ WindowsDecodeToTheirCode' /\ ~ TreeInUse'
<1>1. ~ TreeInUse'
  BY DEF TreeInUse
<1>2. result' # "TOO_MANY_CONTEXTS"
  OBVIOUS
<1> QED BY <1>1, <1>2, Zenon DEF RefusesExactlyBadTrees, WindowsDecodeToTheirCode

LEMMA NothingRead ==
  /\ NoTree \in [Codes -> 0 .. 255 \cup {Unread}] /\ 0 \in 0 .. NumCodes
  /\ \A i \in Codes : ~ (i < 0)
  /\ NoSmallTree \in [lengths : Seq(0 .. Stop), start : Nat, stopped : BOOLEAN]
  /\ Len(NoSmallTree.lengths) <= SmallCodes
<1>1. NumCodes \in Nat /\ SmallCodes \in Nat
  BY ImportTypes
<1>2. PICK e : e = <<>>
  OBVIOUS
<1>3. e \in Seq(0 .. Stop) /\ Len(e) = 0
  BY <1>2
<1>4. NoSmallTree \in [lengths : Seq(0 .. Stop), start : Nat, stopped : BOOLEAN] /\ NoSmallTree.lengths = e
  BY <1>2, <1>3 DEF NoSmallTree
<1>5. NoTree \in [Codes -> 0 .. 255 \cup {Unread}]
  BY DEF NoTree
<1> QED BY <1>1, <1>3, <1>4, <1>5 DEF Codes

LEMMA ImportBegins ==
  ASSUME ImportInit
  PROVE  ImportInv
<1>1. CodesTyped
  BY NothingRead, Zenon DEF ImportInit, CodesTyped
<1>2. TablesTyped
  <2>1. DOMAIN lookup = 0 .. TwoTo(LookupBits(lowram)) - 1 /\ \A w \in DOMAIN lookup : lookup[w] = Left
    BY DEF ImportInit
  <2>2. \A w \in DOMAIN lookup :
          lookup[w] \in Entries \cup {Left} \cup [code : DOMAIN subtables, bits : {0}]
    BY <2>1
  <2> QED BY <2>1, <2>2, Zenon DEF TablesTyped
<1>3. ReadSoFar
  <2>1. curcode = 0 /\ advanced = TRUE /\ last = 0
    BY DEF ImportInit
  <2>2. \A i \in Codes : ~ (i < 0)
    BY NothingRead
  <2> QED BY <2>1, <2>2 DEF ReadSoFar
<1>4. SmallTreeSoFar
  BY NothingRead DEF ImportInit, SmallTreeSoFar
<1>5. result = "no tree" /\ import = "none"
  BY DEF ImportInit
<1>6. ~ TreeInUse
  BY <1>5 DEF TreeInUse
<1>7. ResultIs
  BY <1>5, <1>6 DEF ResultIs
<1>8. RefusesExactlyBadTrees /\ WindowsDecodeToTheirCode
  BY <1>5, <1>6 DEF RefusesExactlyBadTrees, WindowsDecodeToTheirCode
<1> QED BY <1>1, <1>2, <1>3, <1>4, <1>7, <1>8 DEF ImportInv

LEMMA StartKeeps ==
  ASSUME ImportInv, NEW kind \in Imports, Start(kind)
  PROVE  ImportInv'
<1>1. /\ import' = kind /\ numbits' = NoTree /\ curcode' = 0 /\ last' = 0 /\ advanced' = TRUE
      /\ small' = NoSmallTree /\ result' = "reading" /\ lookup' = [w \in DOMAIN lookup |-> Left]
      /\ lowram' = lowram
  BY DEF Start
<1>2. CodesTyped'
  <2>1. lowram \in BOOLEAN
    BY Zenon DEF ImportInv, CodesTyped
  <2> QED BY <1>1, <2>1, NothingRead, Zenon DEF CodesTyped
<1>3. TablesTyped'
  <2>1. DOMAIN lookup = 0 .. TwoTo(LookupBits(lowram)) - 1
    BY DEF ImportInv, TablesTyped
  <2>2. DOMAIN lookup' = 0 .. TwoTo(LookupBits(lowram)) - 1 /\ \A w \in DOMAIN lookup' : lookup'[w] = Left
    BY <1>1, <2>1
  <2> QED BY <1>1, <2>2 DEF TablesTyped, LookupBits
<1>4. ReadSoFar'
  BY <1>1, NothingRead DEF ReadSoFar
<1>5. SmallTreeSoFar'
  BY <1>1, NothingRead DEF SmallTreeSoFar
<1>6. RefusesExactlyBadTrees' /\ WindowsDecodeToTheirCode' /\ ~ TreeInUse'
  BY <1>1, NoTreeInUse
<1>7. ResultIs'
  BY <1>1, <1>6 DEF ResultIs
<1> QED BY <1>2, <1>3, <1>4, <1>5, <1>6, <1>7 DEF ImportInv

LEMMA WriteKeeps ==
  ASSUME ImportInv, import # "none", NEW length \in 0 .. 255, NEW n \in Nat, n > 0, curcode + n <= NumCodes,
         Write(length, n), last' \in 0 .. 255
  PROVE  ImportInv'
<1>1. /\ numbits' = [i \in Codes |-> IF curcode <= i /\ i < curcode + n THEN length ELSE numbits[i]]
      /\ curcode' = curcode + n /\ advanced' = (n > 0)
      /\ UNCHANGED <<lowram, import, small, result, lookup, subtables>>
  BY DEF Write, tables
<1>2. CodesTyped /\ TablesTyped /\ ReadSoFar /\ SmallTreeSoFar /\ ResultIs
  BY DEF ImportInv
<1>3. /\ lowram \in BOOLEAN /\ import \in Imports \cup {"none"} /\ curcode \in 0 .. NumCodes
      /\ \A i \in Codes : numbits[i] \in 0 .. 255 \cup {Unread}
      /\ result \in Errors \cup {"no tree", "reading"}
  BY <1>2 DEF CodesTyped
<1>0. curcode \in Nat /\ NumCodes \in Nat
  <2>1. NumCodes \in Nat
    BY ImportTypes
  <2>2. curcode \in 0 .. NumCodes
    BY <1>3, Zenon
  <2> QED BY <2>1, <2>2
<1>4. CodesTyped'
  <2>1. curcode + n \in 0 .. NumCodes
    BY <1>0
  <2>2. numbits' \in [Codes -> 0 .. 255 \cup {Unread}]
    BY <1>1, <1>3
  <2> QED BY <1>1, <1>3, <2>1, <2>2, Zenon DEF CodesTyped
<1>5. TablesTyped'
  BY <1>1, <1>2, TablesStay
<1>6. ReadSoFar'
  <2>1. ASSUME NEW i \in Codes, i < curcode' PROVE numbits'[i] \in 0 .. 255
    <3>1. numbits'[i] = IF curcode <= i /\ i < curcode + n THEN length ELSE numbits[i]
      BY <1>1
    <3>2. CASE curcode <= i
      BY <1>1, <2>1, <3>1, <3>2
    <3>3. CASE ~ (curcode <= i)
      <4>1. i \in Nat /\ curcode \in Nat
        BY <1>0 DEF Codes
      <4>2. i < curcode
        BY <4>1, <3>3
      <4> QED BY <1>2, <3>1, <3>3, <4>2 DEF ReadSoFar
    <3> QED BY <3>2, <3>3
  <2> QED BY <1>1, <2>1 DEF ReadSoFar
<1>7. SmallTreeSoFar'
  BY <1>1, <1>2 DEF SmallTreeSoFar
<1>8. result' = "reading" /\ import' = import
  BY <1>1, <1>2 DEF ResultIs
<1>9. RefusesExactlyBadTrees' /\ WindowsDecodeToTheirCode' /\ ~ TreeInUse'
  BY <1>8, NoTreeInUse
<1>10. ResultIs'
  BY <1>8, <1>9 DEF ResultIs
<1> QED BY <1>4, <1>5, <1>6, <1>7, <1>9, <1>10 DEF ImportInv

LEMMA FailKeeps ==
  ASSUME ImportInv, NEW error \in {"INVALID_DATA", "INTERNAL_INCONSISTENCY"},
         error = "INTERNAL_INCONSISTENCY" => curcode # NumCodes, Fail(error)
  PROVE  ImportInv'
<1>1. /\ import' = "none" /\ result' = error /\ small' = NoSmallTree
      /\ UNCHANGED <<lowram, numbits, curcode, last, advanced, lookup, subtables>>
  BY DEF Fail, tables
<1>2. CodesTyped /\ TablesTyped /\ ReadSoFar
  BY DEF ImportInv
<1>3. CodesTyped'
  <2>1. error \in Errors
    BY DEF Errors
  <2> QED BY <1>1, <1>2, <2>1, Zenon DEF CodesTyped
<1>4. TablesTyped'
  BY <1>1, <1>2, TablesStay
<1>5. ReadSoFar'
  BY <1>1, <1>2 DEF ReadSoFar
<1>6. SmallTreeSoFar'
  BY <1>1, NothingRead DEF SmallTreeSoFar
<1>7. RefusesExactlyBadTrees' /\ WindowsDecodeToTheirCode' /\ ~ TreeInUse'
  BY <1>1, NoTreeInUse
<1>8. ResultIs'
  BY <1>1, <1>7 DEF ResultIs
<1> QED BY <1>3, <1>4, <1>5, <1>6, <1>7, <1>8 DEF ImportInv

LEMMA SmallStepKeeps ==
  ASSUME ImportInv, NEW tree \in [lengths : Seq(0 .. Stop), start : Nat, stopped : BOOLEAN],
         Len(tree.lengths) <= SmallCodes, SmallStep(tree)
  PROVE  ImportInv'
<1>1. /\ small' = tree
      /\ UNCHANGED <<lowram, import, numbits, curcode, last, advanced, result, lookup, subtables>>
  BY DEF SmallStep, tables
<1>2. CodesTyped /\ TablesTyped /\ ReadSoFar /\ ResultIs /\ RefusesExactlyBadTrees /\ WindowsDecodeToTheirCode
  BY DEF ImportInv
<1>3. CodesTyped'
  BY <1>1, <1>2, Zenon DEF CodesTyped
<1>4. TablesTyped'
  BY <1>1, <1>2, TablesStay
<1>5. ReadSoFar'
  BY <1>1, <1>2 DEF ReadSoFar
<1>6. SmallTreeSoFar'
  BY <1>1 DEF SmallTreeSoFar
<1>7. ResultIs' /\ RefusesExactlyBadTrees'
  BY <1>1, <1>2 DEF ResultIs, RefusesExactlyBadTrees, TreeInUse
<1>8. WindowsDecodeToTheirCode'
  BY <1>1, <1>2 DEF WindowsDecodeToTheirCode, TreeInUse, Decoded
<1> QED BY <1>3, <1>4, <1>5, <1>6, <1>7, <1>8 DEF ImportInv

(* The rounds of the loops over the codes.                                  *)
LEMMA RoundsAre ==
  ASSUME ImportInv
  PROVE  /\ curcode \in Nat /\ NumCodes \in Nat /\ last \in 0 .. 255 /\ RleFields \subseteq 0 .. 31
         /\ small \in [lengths : Seq(0 .. Stop), start : Nat, stopped : BOOLEAN]
         /\ Len(small.lengths) <= SmallCodes /\ SmallCodes \in Nat /\ Stop \in Nat /\ Stop > 0
<1>1. curcode \in 0 .. NumCodes
  BY Zenon DEF ImportInv, CodesTyped
<1>2. NumCodes \in Nat /\ SmallCodes \in Nat /\ SmallBits \in Nat
  BY ImportTypes
<1>3. Stop \in Nat /\ Stop > 0
  BY <1>2 DEF Stop
<1>4. RleFields \subseteq 0 .. 31
  BY ImportAssumption
<1>5. last \in 0 .. 255
  BY DEF ImportInv, ReadSoFar
<1>6. small \in [lengths : Seq(0 .. Stop), start : Nat, stopped : BOOLEAN] /\ Len(small.lengths) <= SmallCodes
  BY DEF ImportInv, SmallTreeSoFar
<1>7. curcode \in Nat
  BY <1>1, <1>2
<1> QED BY <1>2, <1>3, <1>4, <1>5, <1>6, <1>7

LEMMA RawLengthKeeps ==
  ASSUME ImportInv, RawLength
  PROVE  ImportInv'
<1>1. PICK length \in RleFields : Write(length, 1)
  BY DEF RawLength
<1>2. import = "rle" /\ curcode < NumCodes /\ last' = last
  BY DEF RawLength, ReadingRle
<1>3. curcode + 1 <= NumCodes /\ length \in 0 .. 255 /\ last' \in 0 .. 255 /\ import # "none"
  BY <1>2, RoundsAre
<1>4. 1 \in Nat /\ 1 > 0
  OBVIOUS
<1> QED BY <1>1, <1>3, <1>4, WriteKeeps

LEMMA EscapedOneKeeps ==
  ASSUME ImportInv, EscapedOne
  PROVE  ImportInv'
<1>1. import = "rle" /\ curcode < NumCodes /\ last' = last /\ Write(1, 1)
  BY DEF EscapedOne, ReadingRle
<1>2. curcode + 1 <= NumCodes /\ last' \in 0 .. 255 /\ import # "none"
  BY <1>1, RoundsAre
<1>3. 1 \in Nat /\ 1 > 0 /\ 1 \in 0 .. 255
  OBVIOUS
<1> QED BY <1>1, <1>2, <1>3, WriteKeeps

LEMMA RepeatedLengthKeeps ==
  ASSUME ImportInv, RepeatedLength
  PROVE  ImportInv'
<1>1. import = "rle" /\ curcode < NumCodes
  BY DEF RepeatedLength, ReadingRle
<1>2. PICK length \in RleFields, field \in RleFields :
        IF field + 3 + curcode > NumCodes THEN Fail("INVALID_DATA") ELSE Write(length, field + 3) /\ last' = last
  BY DEF RepeatedLength
<1>3. curcode \in Nat /\ NumCodes \in Nat /\ last \in 0 .. 255 /\ length \in 0 .. 31 /\ field \in 0 .. 31
  BY RoundsAre
<1>4. CASE field + 3 + curcode > NumCodes
  BY <1>2, <1>4, FailKeeps
<1>5. CASE ~ (field + 3 + curcode > NumCodes)
  <2>1. Write(length, field + 3) /\ last' = last
    BY <1>2, <1>5
  <2>2. PICK k \in Nat : k = field + 3 /\ k > 0
    BY <1>3
  <2>3. curcode + k <= NumCodes
    BY <1>3, <1>5, <2>2
  <2>4. length \in 0 .. 255 /\ last' \in 0 .. 255 /\ import # "none"
    BY <1>1, <1>3, <2>1
  <2>5. Write(length, k)
    BY <2>1, <2>2
  <2> QED BY <2>2, <2>3, <2>4, <2>5, WriteKeeps
<1> QED BY <1>4, <1>5

LEMMA SmallHeadKeeps ==
  ASSUME ImportInv, SmallHead
  PROVE  ImportInv'
<1>1. PICK head \in SmallFields, start \in SmallFields :
        SmallStep([lengths |-> <<head>>, start |-> start + 1, stopped |-> FALSE])
  BY DEF SmallHead
<1>2. Stop \in Nat /\ SmallCodes \in Nat /\ SmallCodes > 0
  BY RoundsAre, ImportTypes
<1>3. PICK tree : tree = [lengths |-> <<head>>, start |-> start + 1, stopped |-> FALSE]
  OBVIOUS
<1>4. start + 1 \in Nat /\ head \in 0 .. Stop
  BY <1>2 DEF SmallFields
<1>5. <<head>> \in Seq(0 .. Stop) /\ Len(<<head>>) = 1
  BY <1>4
<1>6. tree \in [lengths : Seq(0 .. Stop), start : Nat, stopped : BOOLEAN] /\ tree.lengths = <<head>>
  BY <1>3, <1>4, <1>5
<1>7. Len(tree.lengths) <= SmallCodes
  BY <1>2, <1>5, <1>6
<1>8. SmallStep(tree)
  BY <1>1, <1>3
<1> QED BY <1>6, <1>7, <1>8, SmallStepKeeps

SmallMore(length, stopped, tree) ==
  tree = [small EXCEPT !.lengths = Append(@, length), !.stopped = stopped]

LEMMA SmallMoreKeeps ==
  ASSUME ImportInv, Len(small.lengths) < SmallCodes, NEW length \in 0 .. Stop, NEW stopped \in BOOLEAN,
         NEW tree, SmallMore(length, stopped, tree), SmallStep(tree)
  PROVE  ImportInv'
<1>1. /\ small \in [lengths : Seq(0 .. Stop), start : Nat, stopped : BOOLEAN]
      /\ SmallCodes \in Nat
  BY RoundsAre
<1>2. PICK q \in Seq(0 .. Stop) : q = small.lengths
  BY <1>1
<1>3. Append(q, length) \in Seq(0 .. Stop) /\ Len(Append(q, length)) = Len(q) + 1 /\ Len(q) \in Nat
  OBVIOUS
<1>4. tree \in [lengths : Seq(0 .. Stop), start : Nat, stopped : BOOLEAN] /\ tree.lengths = Append(q, length)
  BY <1>1, <1>2, <1>3 DEF SmallMore
<1>5. Len(tree.lengths) <= SmallCodes
  BY <1>1, <1>2, <1>3, <1>4
<1> QED BY <1>4, <1>5, SmallStepKeeps

LEMMA SmallLengthKeeps ==
  ASSUME ImportInv, SmallLength
  PROVE  ImportInv'
<1>1. Len(small.lengths) < SmallCodes
  BY DEF SmallLength, ReadingSmall
<1>2. Stop \in Nat /\ small = [lengths |-> small.lengths, start |-> small.start, stopped |-> small.stopped]
      /\ small.stopped \in BOOLEAN
  BY RoundsAre
<1>3. CASE Len(small.lengths) < small.start \/ small.stopped
  <2>1. PICK tree : tree = [small EXCEPT !.lengths = Append(@, 0)]
    OBVIOUS
  <2>2. SmallStep(tree)
    BY <1>3, <2>1, Zenon DEF SmallLength
  <2>3. SmallMore(0, small.stopped, tree)
    BY <1>2, <2>1 DEF SmallMore
  <2>4. 0 \in 0 .. Stop
    BY <1>2
  <2> QED BY <1>1, <1>2, <2>2, <2>3, <2>4, SmallMoreKeeps
<1>4. CASE ~ (Len(small.lengths) < small.start \/ small.stopped)
  <2>1. PICK count \in SmallFields :
          SmallStep([small EXCEPT !.lengths = Append(@, IF count = Stop THEN 0 ELSE count),
                                  !.stopped = count = Stop])
    BY <1>4, Zenon DEF SmallLength
  <2>2. PICK length, stopped : length = (IF count = Stop THEN 0 ELSE count) /\ stopped = (count = Stop)
    OBVIOUS
  <2>3. length \in 0 .. Stop /\ stopped \in BOOLEAN
    BY <1>2, <2>2 DEF SmallFields
  <2>4. PICK tree : tree = [small EXCEPT !.lengths = Append(@, length), !.stopped = stopped]
    OBVIOUS
  <2>5. SmallStep(tree)
    BY <2>1, <2>2, <2>4, Zenon
  <2>6. SmallMore(length, stopped, tree)
    BY <2>4 DEF SmallMore
  <2> QED BY <1>1, <2>3, <2>5, <2>6, SmallMoreKeeps
<1> QED BY <1>3, <1>4

LEMMA SmallRefusedKeeps ==
  ASSUME ImportInv, SmallRefused
  PROVE  ImportInv'
<1>1. curcode = 0 /\ Fail("INTERNAL_INCONSISTENCY")
  BY DEF SmallRefused
<1>2. curcode # NumCodes
  BY <1>1, ImportTypes
<1> QED BY <1>1, <1>2, FailKeeps

(* What the small tree decodes to is a length, or one of its codes.         *)
LEMMA SmallValuesAre ==
  ASSUME ImportInv, SmallRead, SmallIsGood
  PROVE  SmallValues \subseteq 0 .. 255
<1>1. /\ SmallCodes \in Nat /\ SmallCodes > 0 /\ SmallCodes <= 256 /\ SmallBits \in Nat /\ SmallBits > 0
      /\ MaxBits \in Nat /\ MaxBits <= 24
  BY ImportTypes
<1>2. \A i \in 0 .. SmallCodes - 1 : small.lengths[i + 1] \in Nat
  <2>1. small.lengths \in Seq(0 .. Stop) /\ Len(small.lengths) = SmallCodes /\ Stop \in Nat
    BY RoundsAre DEF SmallRead
  <2>2. \A i \in 0 .. SmallCodes - 1 : i + 1 \in 1 .. SmallCodes
    BY <1>1
  <2>3. \A k \in 1 .. SmallCodes : small.lengths[k] \in 0 .. Stop
    BY <2>1
  <2> QED BY <2>1, <2>2, <2>3
<1>3. SmallNumbits \in [0 .. SmallCodes - 1 -> Nat] /\ DOMAIN SmallNumbits = 0 .. SmallCodes - 1
  BY <1>2 DEF SmallNumbits
<1>4. NormalTree(SmallNumbits, SmallCodes, SmallBits) /\ Consistent(SmallNumbits, SmallBits)
  BY <1>1, <1>3 DEF SmallIsGood, NormalTree, Tree, Consistent
<1>5. PICK L : L = SmallTree.lookup
  OBVIOUS
<1>6. \A w \in DOMAIN L : L[w] = Left \/ \E i \in CodesOf(SmallNumbits) : L[w] = Entry(i, SmallNumbits[i])
  <2>1. L = build_full(SmallNumbits, SmallBits).lookup
    BY <1>5 DEF SmallTree
  <2>2. /\ DOMAIN build_full(SmallNumbits, SmallBits).lookup = 0 .. TwoTo(SmallBits) - 1
        /\ \A w \in 0 .. TwoTo(SmallBits) - 1 :
             \/ build_full(SmallNumbits, SmallBits).lookup[w] = Left
             \/ \E i \in CodesOf(SmallNumbits) :
                  build_full(SmallNumbits, SmallBits).lookup[w] = Entry(i, SmallNumbits[i])
    BY <1>4, FullTable
  <2> QED BY <2>1, <2>2
<1>7. CodesOf(SmallNumbits) \subseteq 0 .. 255
  <2>1. CodesOf(SmallNumbits) \subseteq 0 .. SmallCodes - 1
    BY <1>3, Zenon DEF CodesOf
  <2>2. 0 .. SmallCodes - 1 \subseteq 0 .. 255
    BY <1>1
  <2> QED BY <2>1, <2>2
<1>8. \A w \in DOMAIN L : L[w] # Left => L[w].code \in 0 .. 255
  BY <1>6, <1>7 DEF Entry
<1>9. 0 .. MaxBits + 2 \subseteq 0 .. 255 /\ Placeholder.code \in 0 .. 255
  BY <1>1 DEF Placeholder, Entry
<1> DEFINE V(w) == IF L[w] # Left THEN {L[w].code} ELSE IF lowram THEN {Placeholder.code} ELSE 0 .. MaxBits + 2
<1>10. \A w \in DOMAIN L : V(w) \subseteq 0 .. 255
  BY <1>8, <1>9
<1>11. SmallValues = UNION {V(w) : w \in DOMAIN L}
  BY <1>5, Zenon DEF SmallValues
<1> HIDE DEF V
<1> QED BY <1>10, <1>11

LEMMA CodedLengthKeeps ==
  ASSUME ImportInv, CodedLength
  PROVE  ImportInv'
<1>1. PICK value \in SmallValues \ {0} : Write(value - 1, 1) /\ last' = value - 1
  BY DEF CodedLength
<1>2. SmallRead /\ SmallIsGood /\ curcode < NumCodes /\ import = "huffman"
  BY DEF CodedLength, ReadingCodes, SmallRead
<1>3. value - 1 \in 0 .. 255
  BY <1>2, SmallValuesAre
<1>4. PICK length \in 0 .. 255 : length = value - 1
  BY <1>3
<1>5. curcode + 1 <= NumCodes /\ import # "none"
  BY <1>2, RoundsAre
<1>6. 1 \in Nat /\ 1 > 0 /\ last' \in 0 .. 255 /\ Write(length, 1)
  BY <1>1, <1>4
<1> QED BY <1>5, <1>6, WriteKeeps

LEMMA CodedRunKeeps ==
  ASSUME ImportInv, CodedRun
  PROVE  ImportInv'
<1>1. PICK k \in RunLengths : Write(last, IF k < NumCodes - curcode THEN k ELSE NumCodes - curcode)
  BY DEF CodedRun
<1>2. import = "huffman" /\ curcode < NumCodes /\ last' = last
  BY DEF CodedRun, ReadingCodes, SmallRead
<1>3. curcode \in Nat /\ NumCodes \in Nat /\ last \in 0 .. 255 /\ k \in Nat /\ k >= 2
  BY RoundsAre, RunsAreLong
<1>4. PICK r \in Nat : r = (IF k < NumCodes - curcode THEN k ELSE NumCodes - curcode)
                       /\ r > 0 /\ curcode + r <= NumCodes
  <2>1. PICK left \in Nat : left = NumCodes - curcode /\ left > 0
    BY <1>2, <1>3
  <2>2. CASE k < left
    BY <1>3, <2>1, <2>2
  <2>3. CASE ~ (k < left)
    BY <1>3, <2>1, <2>3
  <2> QED BY <2>2, <2>3
<1>5. Write(last, r) /\ import # "none" /\ last' \in 0 .. 255
  BY <1>1, <1>2, <1>3, <1>4
<1> QED BY <1>3, <1>4, <1>5, WriteKeeps

(* The end of an import: the tables of the tree.                            *)
LEMMA FinishKeeps ==
  ASSUME ImportInv, AllRead, NEW error, Finish(error), error \in Errors
  PROVE  /\ curcode = NumCodes /\ CodesTyped' /\ ReadSoFar' /\ SmallTreeSoFar' /\ ResultIs'
         /\ result' = error /\ numbits' = numbits /\ lowram' = lowram /\ lowram \in BOOLEAN /\ curcode' = curcode
<1>1. /\ import' = "none" /\ small' = NoSmallTree /\ last' = 0 /\ result' = error
      /\ UNCHANGED <<lowram, numbits, curcode, advanced>>
  BY DEF Finish
<1>2. CodesTyped /\ ReadSoFar
  BY DEF ImportInv
<1>3. curcode = NumCodes
  <2>1. curcode \in 0 .. NumCodes
    BY <1>2, Zenon DEF CodesTyped
  <2>2. curcode >= NumCodes /\ NumCodes \in Nat
    BY ImportTypes DEF AllRead
  <2> QED BY <2>1, <2>2
<1>4. CodesTyped'
  BY <1>1, <1>2, Zenon DEF CodesTyped
<1>5. ReadSoFar'
  BY <1>1, <1>2 DEF ReadSoFar
<1>6. SmallTreeSoFar'
  BY <1>1, NothingRead DEF SmallTreeSoFar
<1>7. ResultIs'
  BY <1>1, <1>3 DEF ResultIs
<1>8. lowram \in BOOLEAN
  BY <1>2, Zenon DEF CodesTyped
<1> QED BY <1>1, <1>3, <1>4, <1>5, <1>6, <1>7, <1>8

LEMMA WholeTree ==
  ASSUME ImportInv, AllRead
  PROVE  CodesTyped /\ ReadSoFar /\ curcode >= NumCodes
BY DEF ImportInv, AllRead

LEMMA TreeRefusedKeeps ==
  ASSUME ImportInv, TreeRefused
  PROVE  ImportInv'
<1>1. /\ AllRead /\ ~ Consistent(numbits, MaxBits) /\ Finish("INTERNAL_INCONSISTENCY")
      /\ lookup' = lookup /\ subtables' = subtables
  BY DEF TreeRefused, tables
<1>2. "INTERNAL_INCONSISTENCY" \in Errors
  BY DEF Errors
<1>3. /\ CodesTyped' /\ ReadSoFar' /\ SmallTreeSoFar' /\ ResultIs'
      /\ result' = "INTERNAL_INCONSISTENCY" /\ numbits' = numbits /\ lowram' = lowram
  BY <1>1, <1>2, FinishKeeps
<1>4. TablesTyped'
  BY <1>1, <1>3, TablesStay DEF ImportInv
<1>5. ~ Accepted(numbits', MaxBits)
  BY <1>1, <1>3, WholeTree, BadTreeIsRefused
<1>6. RefusesExactlyBadTrees' /\ WindowsDecodeToTheirCode'
  BY <1>3, <1>5, NoTreeInUse
<1> QED BY <1>3, <1>4, <1>6 DEF ImportInv

LEMMA NoMemoryToBuildKeeps ==
  ASSUME ImportInv, NoMemoryToBuild
  PROVE  ImportInv'
<1>1. AllRead /\ lowram /\ Finish("INTERNAL_INCONSISTENCY") /\ lookup' = lookup /\ subtables' = subtables
  BY DEF NoMemoryToBuild, tables
<1>2. "INTERNAL_INCONSISTENCY" \in Errors
  BY DEF Errors
<1>3. /\ CodesTyped' /\ ReadSoFar' /\ SmallTreeSoFar' /\ ResultIs'
      /\ result' = "INTERNAL_INCONSISTENCY" /\ lowram' = lowram
  BY <1>1, <1>2, FinishKeeps
<1>4. TablesTyped'
  BY <1>1, <1>3, TablesStay DEF ImportInv
<1>5. lowram'
  BY <1>1, <1>3
<1>6. RefusesExactlyBadTrees' /\ WindowsDecodeToTheirCode'
  BY <1>3, <1>5, NoTreeInUse
<1> QED BY <1>3, <1>4, <1>6 DEF ImportInv

\* What a build answers, and what the import makes of it.
LEMMA OutcomesAre ==
  ASSUME NEW built \in {"NONE", "INTERNAL_INCONSISTENCY"}, NEW error \in Outcomes(built)
  PROVE  /\ error \in Errors
         /\ error \in {"NONE", "INPUT_BUFFER_TOO_SMALL"} => built = "NONE"
         /\ ~ error \in {"NONE", "INPUT_BUFFER_TOO_SMALL"} =>
              error = "INTERNAL_INCONSISTENCY" /\ built = "INTERNAL_INCONSISTENCY"
<1>1. CASE built = "NONE"
  BY <1>1 DEF Outcomes, Errors
<1>2. CASE built = "INTERNAL_INCONSISTENCY"
  BY <1>2 DEF Outcomes, Errors
<1> QED BY <1>1, <1>2

(* A tree comes into use: it is good, and its windows decode.               *)
DecodedAs(window) ==
  \/ Owners(numbits, MaxBits, window) = {} /\ Decoded(window) = IF lowram THEN Placeholder ELSE Left
  \/ \E i \in CodesOf(numbits) : /\ Owners(numbits, MaxBits, window) = {i}
                                 /\ Decoded(window) = Entry(i, numbits[i])

LEMMA TreeComesIntoUse ==
  ASSUME result' \in {"NONE", "INPUT_BUFFER_TOO_SMALL"}, Accepted(numbits', MaxBits),
         \A window \in 0 .. TwoTo(MaxBits) - 1 : DecodedAs(window)'
  PROVE  RefusesExactlyBadTrees' /\ WindowsDecodeToTheirCode'
<1>1. RefusesExactlyBadTrees'
  BY DEF RefusesExactlyBadTrees
<1>2. ASSUME NEW window \in 0 .. TwoTo(MaxBits) - 1
      PROVE  IF Owners(numbits', MaxBits, window) # {}
               THEN Owners(numbits', MaxBits, window) = {Decoded(window)'.code}
                    /\ Decoded(window)'.bits = numbits'[Decoded(window)'.code]
               ELSE Decoded(window)' = IF lowram' THEN Placeholder ELSE Left
  <2>1. \/ Owners(numbits', MaxBits, window) = {} /\ Decoded(window)' = IF lowram' THEN Placeholder ELSE Left
        \/ \E i \in CodesOf(numbits') : /\ Owners(numbits', MaxBits, window) = {i}
                                        /\ Decoded(window)' = Entry(i, numbits'[i])
    BY Zenon DEF DecodedAs
  <2>2. CASE Owners(numbits', MaxBits, window) = {} /\ Decoded(window)' = IF lowram' THEN Placeholder ELSE Left
    BY <2>2
  <2>3. CASE \E i \in CodesOf(numbits') : /\ Owners(numbits', MaxBits, window) = {i}
                                          /\ Decoded(window)' = Entry(i, numbits'[i])
    <3>1. PICK i : Owners(numbits', MaxBits, window) = {i} /\ Decoded(window)' = Entry(i, numbits'[i])
      BY <2>3
    <3>2. Decoded(window)'.code = i /\ Decoded(window)'.bits = numbits'[i]
      BY <3>1 DEF Entry
    <3> QED BY <3>1, <3>2
  <2> QED BY <2>1, <2>2, <2>3
<1>3. WindowsDecodeToTheirCode'
  BY <1>2, Zenon DEF WindowsDecodeToTheirCode
<1> QED BY <1>1, <1>3

LEMMA BuildFullKeeps ==
  ASSUME ImportInv, BuildFull
  PROVE  ImportInv'
<1> DEFINE built == build_full(numbits, MaxBits)
<1>1. /\ AllRead /\ Consistent(numbits, MaxBits) /\ ~ lowram /\ lookup' = built.lookup
      /\ subtables' = subtables /\ \E error \in Outcomes(built.error) : Finish(error)
  BY DEF BuildFull
<1>2. PICK error \in Outcomes(built.error) : Finish(error)
  BY <1>1
<1>3. NormalTree(numbits, NumCodes, MaxBits)
  BY <1>1, WholeTree, TreeIsGood DEF GoodTree
<1>4. /\ built.error \in {"NONE", "INTERNAL_INCONSISTENCY"} /\ (built.error = "NONE" <=> Accepted(numbits, MaxBits))
      /\ DOMAIN built.lookup = 0 .. TwoTo(MaxBits) - 1
      /\ \A w \in 0 .. TwoTo(MaxBits) - 1 :
           built.lookup[w] = Left \/ \E i \in CodesOf(numbits) : built.lookup[w] = Entry(i, numbits[i])
      /\ Accepted(numbits, MaxBits) =>
           \A w \in 0 .. TwoTo(MaxBits) - 1 :
             \/ Owners(numbits, MaxBits, w) = {} /\ built.lookup[w] = Left
             \/ \E i \in CodesOf(numbits) : /\ Owners(numbits, MaxBits, w) = {i}
                                            /\ built.lookup[w] = Entry(i, numbits[i])
  BY <1>1, <1>3, FullTable
<1> HIDE DEF built
<1>5. /\ error \in Errors /\ (error \in {"NONE", "INPUT_BUFFER_TOO_SMALL"} => built.error = "NONE")
      /\ ~ error \in {"NONE", "INPUT_BUFFER_TOO_SMALL"} =>
           error = "INTERNAL_INCONSISTENCY" /\ built.error = "INTERNAL_INCONSISTENCY"
  BY <1>2, <1>4, OutcomesAre
<1>6. /\ CodesTyped' /\ ReadSoFar' /\ SmallTreeSoFar' /\ ResultIs'
      /\ result' = error /\ numbits' = numbits /\ lowram' = lowram /\ lowram = FALSE
  BY <1>1, <1>2, <1>5, FinishKeeps
<1>7. TablesTyped'
  <2>1. \A i \in CodesOf(numbits) : Entry(i, numbits[i]) \in Entries
    <3>1. \A i \in CodesOf(numbits) : i \in Codes /\ numbits[i] \in 1 .. MaxBits
      BY <1>3, EndIs DEF Codes
    <3> QED BY <3>1 DEF Entry, Entries
  <2>2. \A w \in DOMAIN lookup' :
          lookup'[w] \in Entries \cup {Left} \cup [code : DOMAIN subtables', bits : {0}]
    BY <1>1, <1>4, <2>1
  <2>3. LookupBits(lowram') = MaxBits
    BY <1>6 DEF LookupBits
  <2> QED BY <1>1, <1>4, <2>2, <2>3 DEF TablesTyped
<1>8. CASE error \in {"NONE", "INPUT_BUFFER_TOO_SMALL"}
  <2>1. Accepted(numbits', MaxBits)
    BY <1>4, <1>5, <1>6, <1>8
  <2>2. ASSUME NEW window \in 0 .. TwoTo(MaxBits) - 1 PROVE DecodedAs(window)'
    <3>1. Decoded(window)' = built.lookup[window]
      BY <1>1, <1>6 DEF Decoded, decode_full
    <3>2. \/ Owners(numbits, MaxBits, window) = {} /\ built.lookup[window] = Left
          \/ \E i \in CodesOf(numbits) : /\ Owners(numbits, MaxBits, window) = {i}
                                         /\ built.lookup[window] = Entry(i, numbits[i])
      BY <1>4, <1>5, <1>8
    <3> QED BY <1>6, <3>1, <3>2 DEF DecodedAs
  <2>3. RefusesExactlyBadTrees' /\ WindowsDecodeToTheirCode'
    BY <1>6, <1>8, <2>1, <2>2, TreeComesIntoUse
  <2> QED BY <1>6, <1>7, <2>3 DEF ImportInv
<1>9. CASE ~ error \in {"NONE", "INPUT_BUFFER_TOO_SMALL"}
  <2>1. result' = "INTERNAL_INCONSISTENCY" /\ ~ Accepted(numbits', MaxBits)
    BY <1>4, <1>5, <1>6, <1>9
  <2>2. RefusesExactlyBadTrees' /\ WindowsDecodeToTheirCode'
    BY <2>1, NoTreeInUse
  <2> QED BY <1>6, <1>7, <2>2 DEF ImportInv
<1> QED BY <1>8, <1>9

LEMMA BuildTwoLevelKeeps ==
  ASSUME ImportInv, BuildTwoLevel
  PROVE  ImportInv'
<1>1. AllRead /\ Consistent(numbits, MaxBits) /\ lowram
  BY DEF BuildTwoLevel
<1>2. PICK granted, built :
        /\ built = build_two_level(numbits, MaxBits, subtable_count, granted)
        /\ lookup' = built.lookup /\ subtables' = built.subtables
        /\ \E error \in Outcomes(built.error) : Finish(error)
  BY Zenon DEF BuildTwoLevel
<1>3. PICK error \in Outcomes(built.error) : Finish(error)
  BY <1>2
<1>4. GoodTree(numbits, NumCodes, MaxBits) /\ NumCodes > 0 /\ MaxSubtables >= TwoTo(L1Bits(MaxBits))
  BY <1>1, WholeTree, TreeIsGood, ImportTypes, ImportAssumption
<1>5. /\ built.error \in {"NONE", "INTERNAL_INCONSISTENCY"}
      /\ DOMAIN built.lookup = 0 .. TwoTo(L1Bits(MaxBits)) - 1
      /\ \A p \in DOMAIN built.lookup :
           built.lookup[p] \in [code : 0 .. NumCodes - 1, bits : 1 .. MaxBits]
                                 \cup [code : DOMAIN built.subtables, bits : {0}]
      /\ built.error = "NONE" =>
           /\ Accepted(numbits, MaxBits)
           /\ \A w \in 0 .. TwoTo(MaxBits) - 1 :
                DecodesTo(numbits, MaxBits, w, decode_two_level(built.lookup, built.subtables, MaxBits, w))
  BY <1>2, <1>4, TwoLevelTable
<1>6. /\ error \in Errors /\ (error \in {"NONE", "INPUT_BUFFER_TOO_SMALL"} => built.error = "NONE")
      /\ ~ error \in {"NONE", "INPUT_BUFFER_TOO_SMALL"} =>
           error = "INTERNAL_INCONSISTENCY" /\ built.error = "INTERNAL_INCONSISTENCY"
  BY <1>3, <1>5, OutcomesAre
<1>7. /\ CodesTyped' /\ ReadSoFar' /\ SmallTreeSoFar' /\ ResultIs'
      /\ result' = error /\ numbits' = numbits /\ lowram' = lowram /\ lowram = TRUE
  BY <1>1, <1>3, <1>6, FinishKeeps
<1>8. TablesTyped'
  <2>1. LookupBits(lowram') = L1Bits(MaxBits)
    BY <1>7 DEF LookupBits
  <2>2. \A w \in DOMAIN lookup' :
          lookup'[w] \in Entries \cup {Left} \cup [code : DOMAIN subtables', bits : {0}]
    BY <1>2, <1>5 DEF Entries, Codes
  <2> QED BY <1>2, <1>5, <2>1, <2>2 DEF TablesTyped
<1>9. CASE error \in {"NONE", "INPUT_BUFFER_TOO_SMALL"}
  <2>1. Accepted(numbits', MaxBits)
    BY <1>5, <1>6, <1>7, <1>9
  <2>2. ASSUME NEW window \in 0 .. TwoTo(MaxBits) - 1 PROVE DecodedAs(window)'
    <3>1. Decoded(window)' = decode_two_level(built.lookup, built.subtables, MaxBits, window)
      BY <1>2, <1>7, Zenon DEF Decoded
    <3>2. DecodesTo(numbits, MaxBits, window, decode_two_level(built.lookup, built.subtables, MaxBits, window))
      BY <1>5, <1>6, <1>9
    <3>3. DecodesTo(numbits, MaxBits, window, Decoded(window)')
      BY <3>1, <3>2, Zenon
    <3> QED BY <1>7, <3>3 DEF DecodedAs, DecodesTo
  <2>3. RefusesExactlyBadTrees' /\ WindowsDecodeToTheirCode'
    BY <1>7, <1>9, <2>1, <2>2, TreeComesIntoUse
  <2> QED BY <1>7, <1>8, <2>3 DEF ImportInv
<1>10. CASE ~ error \in {"NONE", "INPUT_BUFFER_TOO_SMALL"}
  <2>1. result' = "INTERNAL_INCONSISTENCY" /\ lowram'
    BY <1>6, <1>7, <1>10
  <2>2. RefusesExactlyBadTrees' /\ WindowsDecodeToTheirCode'
    BY <2>1, NoTreeInUse
  <2> QED BY <1>7, <1>8, <2>2 DEF ImportInv
<1> QED BY <1>9, <1>10

LEMMA ImportRests ==
  ASSUME ImportInv, UNCHANGED importvars
  PROVE  ImportInv'
<1>1. UNCHANGED <<lowram, import, numbits, curcode, last, small, advanced, result, lookup, subtables>>
  BY DEF importvars
<1>2. CodesTyped' /\ ReadSoFar' /\ SmallTreeSoFar' /\ ResultIs'
  BY <1>1, Zenon DEF ImportInv, CodesTyped, ReadSoFar, SmallTreeSoFar, ResultIs, TreeInUse
<1>3. TablesTyped'
  BY <1>1, TablesStay DEF ImportInv
<1>4. RefusesExactlyBadTrees'
  BY <1>1 DEF ImportInv, RefusesExactlyBadTrees, TreeInUse
<1>5. WindowsDecodeToTheirCode'
  BY <1>1 DEF ImportInv, WindowsDecodeToTheirCode, TreeInUse, Decoded
<1> QED BY <1>2, <1>3, <1>4, <1>5 DEF ImportInv

LEMMA ImportStepKeeps ==
  ASSUME ImportInv, [ImportNext]_importvars
  PROVE  ImportInv'
<1>1. CASE \E kind \in Imports : Start(kind)
  BY <1>1, StartKeeps
<1>2. CASE RawLength
  BY <1>2, RawLengthKeeps
<1>3. CASE EscapedOne
  BY <1>3, EscapedOneKeeps
<1>4. CASE RepeatedLength
  BY <1>4, RepeatedLengthKeeps
<1>5. CASE SmallHead
  BY <1>5, SmallHeadKeeps
<1>6. CASE SmallLength
  BY <1>6, SmallLengthKeeps
<1>7. CASE SmallRefused
  BY <1>7, SmallRefusedKeeps
<1>8. CASE CodedLength
  BY <1>8, CodedLengthKeeps
<1>9. CASE CodedRun
  BY <1>9, CodedRunKeeps
<1>10. CASE TreeRefused
  BY <1>10, TreeRefusedKeeps
<1>11. CASE BuildFull
  BY <1>11, BuildFullKeeps
<1>12. CASE BuildTwoLevel
  BY <1>12, BuildTwoLevelKeeps
<1>13. CASE NoMemoryToBuild
  BY <1>13, NoMemoryToBuildKeeps
<1>14. CASE UNCHANGED importvars
  BY <1>14, ImportRests
<1> QED BY <1>1, <1>2, <1>3, <1>4, <1>5, <1>6, <1>7, <1>8, <1>9, <1>10, <1>11, <1>12, <1>13, <1>14 DEF ImportNext

(* The invariant of the import holds in every reachable state, whatever the *)
(* lengths of the fields and codes and whatever the stream holds.           *)
THEOREM ImportInvHolds == ImportSpec => []ImportInv
<1>1. ImportInit => ImportInv
  BY ImportBegins
<1>2. ImportInv /\ [ImportNext]_importvars => ImportInv'
  BY ImportStepKeeps
<1> QED BY <1>1, <1>2, PTL DEF ImportSpec

(* An import writes every node of its decoder and no other, ends, and       *)
(* accepts exactly the trees whose codes give every window, or the lower    *)
(* half of them, or none, to one code; the subtables of the low-RAM build   *)
(* never run out (huffman_import_tree_rle, huffman_import_tree_huffman,     *)
(* huffman_assign_canonical_codes, huffman_build_lookup_table).             *)
THEOREM TreesAreWhole == ImportSpec => []TreesAreReadWhole
<1>1. ImportInv => TreesAreReadWhole
  <2> SUFFICES ASSUME ImportInv PROVE TreesAreReadWhole
    OBVIOUS
  <2>1. CodesTyped /\ TablesTyped /\ ReadSoFar /\ ResultIs /\ RefusesExactlyBadTrees
    BY DEF ImportInv
  <2>2. EachRoundAdvances
    BY <2>1 DEF ReadSoFar, EachRoundAdvances
  <2>3. ASSUME AllRead \/ TreeInUse, NEW i \in Codes PROVE numbits[i] # Unread
    <3>1. curcode >= NumCodes
      BY <2>1, <2>3, ImportTypes DEF AllRead, ResultIs
    <3>2. numbits[i] \in 0 .. 255
      BY <2>1, <3>1, TreeIsRead
    <3> QED BY <3>2 DEF Unread
  <2>4. WholeTreeRead
    BY <2>3 DEF WholeTreeRead
  <2> QED BY <2>1, <2>2, <2>4, TypesAre DEF TreesAreReadWhole
<1> QED BY <1>1, ImportInvHolds, PTL

(* Every window decodes to the one code it belongs to, out of the full      *)
(* table and out of the two levels of the low-RAM build, for every tree     *)
(* either accepts (huffman_build_lookup_table, huffman_decode_one).         *)
THEOREM EveryWindowDecodes == ImportSpec => []WindowsDecodeToTheirCode
<1>1. ImportInv => WindowsDecodeToTheirCode
  BY DEF ImportInv
<1> QED BY <1>1, ImportInvHolds, PTL
===============================================================================
