------------------------------- MODULE CodecProofs -------------------------------
(****************************************************************************)
(* Theorems about CdHunk, Ecc and AvHuff.                                   *)
(*                                                                          *)
(* The first part is about the parity of a sector.  ecc_p_generate_swar     *)
(* takes four rows at a time, a row to a lane of a word; that no bit of a   *)
(* lane comes into the next one makes every lane the recursion over the     *)
(* bytes of its row.  The rows of the second kind read the parity of those  *)
(* of the first, so what is kept while the rows are written is where the    *)
(* parity already is and that nothing before it changed.  At the end the    *)
(* parity at every row is what ecc_verify computes from that row.           *)
(*                                                                          *)
(* The second part is about the buffers.  The inductive invariant says      *)
(* where the sectors are that were decoded, up to which frame; that the     *)
(* subcode waits in the scratch; and that every frame put together is       *)
(* whole and, where its parity had been left out, verifies.  Spreading in   *)
(* place keeps it because frame f is written behind all of the packed       *)
(* sectors before f.                                                        *)
(*                                                                          *)
(* Then CRC and parity as checks.  A step of the shift register is linear,  *)
(* so the register after four bytes is the sum of what each of them does to *)
(* an empty one, which is what the tables hold.  Parity is linear as well:  *)
(* a row of the first kind counts the byte that changed once and nothing    *)
(* else that changed, or the byte is itself the parity of a row.            *)
(****************************************************************************)
EXTENDS CdHunk, AvHuff, FiniteSetTheorems, TLAPS

(* A nonempty set of naturals has a least element.                          *)
LEMMA LeastNumber ==
  ASSUME NEW T \in SUBSET Nat, T # {}
  PROVE  \E n \in T : \A m \in T : n <= m
<1> DEFINE Below(n) == 0 .. (n - 1)
           U == {Below(n) : n \in T}
<1>1. U \subseteq FiniteSubsetsOf(Nat) /\ U # {}
  <2>1. \A n \in T : IsFiniteSet(Below(n)) /\ Below(n) \subseteq Nat
    BY FS_Interval
  <2> QED BY <2>1, Zenon DEF FiniteSubsetsOf
<1>2. PICK x \in U : \A y \in U : <<y, x>> \notin StrictSubsetOrdering(Nat)
  <2> HIDE DEF U
  <2> QED BY <1>1, FS_StrictSubsetOrderingWellFounded, WFMin, Zenon
<1>3. PICK n \in T : x = Below(n)
  OBVIOUS
<1>4. ASSUME NEW m \in T, m < n PROVE FALSE
  <2>1. Below(m) \in U
    OBVIOUS
  <2>2. Below(m) \subseteq x /\ Below(m) # x
    BY <1>3, <1>4
  <2>3. <<Below(m), x>> \in StrictSubsetOrdering(Nat)
    BY <2>2, <1>3 DEF StrictSubsetOrdering
  <2> QED BY <2>1, <2>3, <1>2
<1> QED BY <1>4

(* What holds at the start and is kept by every step holds all along: the   *)
(* places where it holds are given as a set.                                *)
LEMMA AllAlong ==
  ASSUME NEW n \in Nat, NEW good, 0 \in good,
         \A k \in 1 .. n : k - 1 \in good => k \in good
  PROVE  \A k \in 0 .. n : k \in good
<1> DEFINE T == {k \in 0 .. n : k \notin good}
<1>1. ASSUME NEW k \in T, \A m \in T : k <= m PROVE FALSE
  <2>1. k \in 1 .. n
    OBVIOUS
  <2>2. k - 1 \in 0 .. n /\ k - 1 \notin T
    <3> HIDE DEF T
    <3> QED BY <1>1, <2>1
  <2> QED BY <2>1, <2>2
<1>2. T = {}
  <2>1. T \in SUBSET Nat
    OBVIOUS
  <2> HIDE DEF T
  <2> QED BY <1>1, <2>1, LeastNumber
<1> QED BY <1>2

-----------------------------------------------------------------------------
(* A recursive function over numbers exists: the least number up to which   *)
(* it does not would have a predecessor.                                    *)
StepFunctions(n, S) == [(1 .. n) \X S -> S]
Runs(n, S, c, F, f) ==
  f \in [0 .. n -> S] /\ f[0] = c /\ \A i \in 1 .. n : f[i] = F[<<i, f[i - 1]>>]

LEMMA RunExists ==
  ASSUME NEW n \in Nat, NEW S, NEW c \in S, NEW F \in StepFunctions(n, S)
  PROVE  \E f : Runs(n, S, c, F, f)
<1> USE DEF StepFunctions
<1> DEFINE Upto(k, f) == f \in [0 .. k -> S] /\ f[0] = c /\ \A i \in 1 .. k : f[i] = F[<<i, f[i - 1]>>]
           T == {k \in 0 .. n : \A f : ~ Upto(k, f)}
<1>1. ASSUME NEW k \in T, \A m \in T : k <= m PROVE FALSE
  <2>1. k \in 0 .. n /\ \A f : ~ Upto(k, f)
    OBVIOUS
  <2>2. Upto(0, [i \in 0 .. 0 |-> c])
    OBVIOUS
  <2>3. k - 1 \in 0 .. n /\ k - 1 \notin T
    <3>1. k # 0
      BY <2>1, <2>2
    <3> HIDE DEF T
    <3> QED BY <1>1, <2>1, <3>1
  <2>4. PICK f : Upto(k - 1, f)
    BY <2>3
  <2> DEFINE g == [i \in 0 .. k |-> IF i < k THEN f[i] ELSE F[<<k, f[k - 1]>>]]
  <2>5. Upto(k, g)
    <3>1. f[k - 1] \in S /\ <<k, f[k - 1]>> \in (1 .. n) \X S
      BY <2>1, <2>3, <2>4
    <3>2. g \in [0 .. k -> S] /\ g[0] = c
      BY <2>1, <2>3, <2>4, <3>1
    <3>3. ASSUME NEW i \in 1 .. k PROVE g[i] = F[<<i, g[i - 1]>>]
      <4>1. CASE i = k
        <5>1. g[k] = F[<<k, f[k - 1]>>] /\ g[k - 1] = f[k - 1]
          BY <2>1, <2>3
        <5> QED BY <4>1, <5>1
      <4>2. CASE i # k
        <5>1. i \in 1 .. k - 1 /\ g[i] = f[i] /\ g[i - 1] = f[i - 1]
          BY <4>2, <2>1, <2>3
        <5> QED BY <5>1, <2>4
      <4> QED BY <4>1, <4>2
    <3> QED BY <3>2, <3>3
  <2> QED BY <2>1, <2>5
<1>2. T = {}
  <2>1. T \subseteq Nat
    OBVIOUS
  <2> HIDE DEF T
  <2> QED BY <1>1, <2>1, LeastNumber
<1>3. \E f : Upto(n, f)
  <2>1. n \notin T
    BY <1>2
  <2> HIDE DEF Upto
  <2> QED BY <2>1
<1> QED BY <1>3 DEF Runs

-----------------------------------------------------------------------------
(* Bits.                                                                    *)
LEMMA XorHas ==
  ASSUME NEW a, NEW b, NEW x
  PROVE  x \in Xor(a, b) <=> ~ (x \in a <=> x \in b)
BY DEF Xor

LEMMA XorInside ==
  ASSUME NEW X, NEW a \in SUBSET X, NEW b \in SUBSET X
  PROVE  Xor(a, b) \in SUBSET X
BY DEF Xor

(* Twice a byte: its bits one place further up, and 0x1d for a carry.       *)
LEMMA TwiceHas ==
  ASSUME NEW a \in Byte
  PROVE  /\ ecc_xtime(a) \in Byte
         /\ 0 \in ecc_xtime(a) <=> 7 \in a
         /\ 1 \in ecc_xtime(a) <=> 0 \in a
         /\ 2 \in ecc_xtime(a) <=> ~ (1 \in a <=> 7 \in a)
         /\ 3 \in ecc_xtime(a) <=> ~ (2 \in a <=> 7 \in a)
         /\ 4 \in ecc_xtime(a) <=> ~ (3 \in a <=> 7 \in a)
         /\ 5 \in ecc_xtime(a) <=> 4 \in a
         /\ 6 \in ecc_xtime(a) <=> 5 \in a
         /\ 7 \in ecc_xtime(a) <=> 6 \in a
<1>1. \A x \in 0 .. 7 : x \in Shifted(a, 1) <=> x - 1 \in a
  BY DEF Shifted, Byte
<1>2. \A x \in 0 .. 7 : x \in ecc_xtime(a) <=>
        ~ (x \in Shifted(a, 1) <=> 7 \in a /\ x \in {0, 2, 3, 4})
  BY DEF ecc_xtime, Xor
<1>3. ecc_xtime(a) \in Byte
  BY DEF ecc_xtime, Xor, Byte
<1>4. -1 \notin a
  BY DEF Byte
<1>5. \A x \in 0 .. 7 : x \in ecc_xtime(a) <=> ~ (x - 1 \in a <=> 7 \in a /\ x \in {0, 2, 3, 4})
  BY <1>1, <1>2
<1>6. /\ 0 - 1 = -1 /\ 1 - 1 = 0 /\ 2 - 1 = 1 /\ 3 - 1 = 2 /\ 4 - 1 = 3 /\ 5 - 1 = 4 /\ 6 - 1 = 5 /\ 7 - 1 = 6
      /\ {0, 1, 2, 3, 4, 5, 6, 7} \subseteq 0 .. 7
  OBVIOUS
<1> HIDE DEF Byte
<1> QED BY <1>3, <1>4, <1>5, <1>6

(* Bytes are the same when their bits are.                                  *)
LEMMA SameBits ==
  ASSUME NEW a \in Byte, NEW b \in Byte,
         0 \in a <=> 0 \in b, 1 \in a <=> 1 \in b, 2 \in a <=> 2 \in b, 3 \in a <=> 3 \in b,
         4 \in a <=> 4 \in b, 5 \in a <=> 5 \in b, 6 \in a <=> 6 \in b, 7 \in a <=> 7 \in b
  PROVE  a = b
<1>1. \A x \in 0 .. 7 : x \in a <=> x \in b
  OBVIOUS
<1> QED BY <1>1 DEF Byte

(* Every byte is the sum of some byte and its double: what ecchigh is a     *)
(* table of.                                                                *)
LEMMA DoubleAndItself ==
  ASSUME NEW x \in Byte
  PROVE  \E y \in Byte : Xor(ecc_xtime(y), y) = x
<1> DEFINE s0 == 0 \in x
           s1 == ~ (s0 <=> 1 \in x)
           s2 == ~ (s1 <=> 2 \in x)
           s3 == ~ (s2 <=> 3 \in x)
           s4 == ~ (s3 <=> 4 \in x)
           s5 == ~ (s4 <=> 5 \in x)
           s6 == ~ (s5 <=> 6 \in x)
           s7 == ~ (s6 <=> 7 \in x)
           y == {k \in 0 .. 7 : \/ (k = 0 /\ ~ (s0 <=> s7))
                               \/ (k = 1 /\ ~ (s1 <=> s7))
                               \/ (k = 2 /\ s2)
                               \/ (k = 3 /\ ~ (s3 <=> s7))
                               \/ (k = 4 /\ s4)
                               \/ (k = 5 /\ s5)
                               \/ (k = 6 /\ s6)
                               \/ (k = 7 /\ s7)}
<1>1. /\ y \in Byte
      /\ 0 \in y <=> ~ (s0 <=> s7)
      /\ 1 \in y <=> ~ (s1 <=> s7)
      /\ 2 \in y <=> s2
      /\ 3 \in y <=> ~ (s3 <=> s7)
      /\ 4 \in y <=> s4
      /\ 5 \in y <=> s5
      /\ 6 \in y <=> s6
      /\ 7 \in y <=> s7
  <2> HIDE DEF s0, s1, s2, s3, s4, s5, s6, s7
  <2> QED BY DEF Byte
<1> HIDE DEF y
<1>2. PICK z : z = ecc_xtime(y)
  OBVIOUS
<1>3. /\ z \in Byte
      /\ 0 \in z <=> 7 \in y
      /\ 1 \in z <=> 0 \in y
      /\ 2 \in z <=> ~ (1 \in y <=> 7 \in y)
      /\ 3 \in z <=> ~ (2 \in y <=> 7 \in y)
      /\ 4 \in z <=> ~ (3 \in y <=> 7 \in y)
      /\ 5 \in z <=> 4 \in y
      /\ 6 \in z <=> 5 \in y
      /\ 7 \in z <=> 6 \in y
  BY <1>1, <1>2, TwiceHas, Zenon
<1>4. PICK w : w = Xor(z, y)
  OBVIOUS
<1>5. w \in Byte /\ \A k : k \in w <=> ~ (k \in z <=> k \in y)
  BY <1>1, <1>3, <1>4, XorHas, XorInside DEF Byte
<1>6. /\ 0 \in w <=> 0 \in x
      /\ 1 \in w <=> 1 \in x
      /\ 2 \in w <=> 2 \in x
      /\ 3 \in w <=> 3 \in x
      /\ 4 \in w <=> 4 \in x
      /\ 5 \in w <=> 5 \in x
      /\ 6 \in w <=> 6 \in x
      /\ 7 \in w <=> 7 \in x
  BY <1>1, <1>3, <1>5
<1>7. w = x
  BY <1>5, <1>6, SameBits
<1> QED BY <1>1, <1>2, <1>4, <1>7

LEMMA TablesAreBytes ==
  /\ \A x \in Byte : ecclow[x] = ecc_xtime(x) /\ ecclow[x] \in Byte
  /\ \A x \in Byte : ecchigh[x] \in Byte
<1>1. \A x \in Byte : ecclow[x] = ecc_xtime(x)
  BY DEF ecclow
<1>2. \A x \in Byte : ecclow[x] \in Byte
  BY <1>1, TwiceHas
<1>3. ASSUME NEW x \in Byte PROVE ecchigh[x] \in Byte
  <2>1. ecchigh[x] = CHOOSE y \in Byte : Xor(ecclow[y], y) = x
    BY DEF ecchigh
  <2>2. \E y \in Byte : Xor(ecclow[y], y) = x
    BY <1>1, DoubleAndItself
  <2> QED BY <2>1, <2>2
<1> QED BY <1>1, <1>2, <1>3

-----------------------------------------------------------------------------
(* Words of four bytes.                                                     *)
Words == SUBSET (0 .. 31)

LEMMA LaneHas ==
  ASSUME NEW w \in Words, NEW k \in 0 .. 3
  PROVE  Lane(w, k) \in Byte /\ \A x \in 0 .. 7 : x \in Lane(w, k) <=> x + 8 * k \in w
<1>1. \A b \in w : b \in Int
  BY DEF Words
<1>2. \A x \in 0 .. 7 : x \in Shifted(w, -(8 * k)) <=> x + 8 * k \in w
  BY <1>1 DEF Shifted
<1>3. Lane(w, k) = Shifted(w, -(8 * k)) \cap (0 .. 7)
  BY DEF Lane
<1> QED BY <1>2, <1>3 DEF Byte

(* A word is told by its lanes.                                             *)
LEMMA LaneIs ==
  ASSUME NEW w \in Words, NEW k \in 0 .. 3, NEW b \in Byte,
         \A x \in 0 .. 7 : x + 8 * k \in w <=> x \in b
  PROVE  Lane(w, k) = b
<1>1. \A x \in 0 .. 7 : x \in Lane(w, k) <=> x \in b
  BY LaneHas
<1>2. Lane(w, k) \in Byte
  BY LaneHas
<1> QED BY <1>1, <1>2 DEF Byte

LEMMA LanesOfXor ==
  ASSUME NEW v \in Words, NEW w \in Words, NEW k \in 0 .. 3
  PROVE  Xor(v, w) \in Words /\ Lane(Xor(v, w), k) = Xor(Lane(v, k), Lane(w, k))
<1>1. Xor(v, w) \in Words
  BY DEF Xor, Words
<1>2. Lane(v, k) \in Byte /\ Lane(w, k) \in Byte
  BY LaneHas
<1>3. Xor(Lane(v, k), Lane(w, k)) \in Byte
  BY <1>2, XorInside DEF Byte
<1>4. ASSUME NEW x \in 0 .. 7
      PROVE  x + 8 * k \in Xor(v, w) <=> x \in Xor(Lane(v, k), Lane(w, k))
  <2>1. x + 8 * k \in Xor(v, w) <=> ~ (x + 8 * k \in v <=> x + 8 * k \in w)
    BY XorHas
  <2>2. x \in Xor(Lane(v, k), Lane(w, k)) <=> ~ (x \in Lane(v, k) <=> x \in Lane(w, k))
    BY XorHas
  <2>3. (x \in Lane(v, k) <=> x + 8 * k \in v) /\ (x \in Lane(w, k) <=> x + 8 * k \in w)
    BY LaneHas
  <2> QED BY <2>1, <2>2, <2>3
<1> QED BY <1>1, <1>3, <1>4, LaneIs

LEMMA LanesOfWord ==
  ASSUME NEW bytes \in [0 .. 3 -> Byte]
  PROVE  Word(bytes) \in Words /\ \A k \in 0 .. 3 : Lane(Word(bytes), k) = bytes[k]
<1>1. \A y : y \in Word(bytes) <=> \E j \in 0 .. 3 : \E b \in bytes[j] : y = b + 8 * j
  BY DEF Word, Shifted
<1>2. \A j \in 0 .. 3 : bytes[j] \in Byte /\ \A b \in bytes[j] : b \in 0 .. 7
  BY DEF Byte
<1>3. Word(bytes) \in Words
  <2>1. \A y \in Word(bytes) : y \in 0 .. 31
    BY <1>1, <1>2
  <2> QED BY <2>1 DEF Words
<1>4. ASSUME NEW k \in 0 .. 3, NEW x \in 0 .. 7
      PROVE  x + 8 * k \in Word(bytes) <=> x \in bytes[k]
  <2>1. ASSUME NEW j \in 0 .. 3, NEW b \in 0 .. 7, x + 8 * k = b + 8 * j PROVE j = k /\ b = x
    BY <2>1
  <2>2. ASSUME x + 8 * k \in Word(bytes) PROVE x \in bytes[k]
    <3>1. PICK j \in 0 .. 3 : \E b \in bytes[j] : x + 8 * k = b + 8 * j
      BY <1>1, <2>2
    <3>2. PICK b \in bytes[j] : x + 8 * k = b + 8 * j
      BY <3>1
    <3>3. b \in 0 .. 7
      BY <1>2
    <3>4. j = k /\ b = x
      BY <2>1, <3>2, <3>3
    <3> QED BY <3>4
  <2> QED BY <1>1, <2>2
<1> HIDE DEF Words
<1> QED
  <2> SUFFICES ASSUME NEW k \in 0 .. 3 PROVE Lane(Word(bytes), k) = bytes[k]
    BY <1>3
  <2>1. bytes[k] \in Byte
    BY <1>2
  <2>2. \A x \in 0 .. 7 : x + 8 * k \in Word(bytes) <=> x \in bytes[k]
    BY <1>4
  <2> QED BY <1>3, <2>1, <2>2, LaneIs

(* No bit of a lane comes into the next one.                                *)
LEMMA LanesOfTwice ==
  ASSUME NEW t \in Words, NEW k \in 0 .. 3
  PROVE  ecc_xtime4(t) \in Words /\ Lane(ecc_xtime4(t), k) = ecc_xtime(Lane(t, k))
<1> DEFINE up == Shifted(t, 1) \cap {b \in 0 .. 31 : b % 8 # 0}
           carried == UNION {Shifted({0, 2, 3, 4}, b - 7) : b \in t \cap {7, 15, 23, 31}}
<1>1. ecc_xtime4(t) = Xor(up, carried)
  BY DEF ecc_xtime4
<1>2. \A y : y \in carried <=> \E b \in t \cap {7, 15, 23, 31} : \E z \in {0, 2, 3, 4} : y = z + (b - 7)
  BY DEF Shifted
<1>3. up \in Words /\ carried \in Words
  <2>1. ASSUME NEW b \in {7, 15, 23, 31}, NEW z \in {0, 2, 3, 4} PROVE z + (b - 7) \in 0 .. 31
    OBVIOUS
  <2>2. \A y \in carried : y \in 0 .. 31
    <3> HIDE DEF carried
    <3> QED BY <1>2, <2>1
  <2>3. \A y \in up : y \in 0 .. 31
    OBVIOUS
  <2> HIDE DEF up, carried
  <2> QED BY <2>2, <2>3 DEF Words
<1>4. \A y \in 0 .. 31 : y \in up <=> y - 1 \in t /\ y % 8 # 0
  <2>1. \A b \in t : b \in 0 .. 31
    BY DEF Words
  <2> QED BY <2>1 DEF Shifted
<1> HIDE DEF up, carried
<1>5. PICK a : a = Lane(t, k)
  OBVIOUS
<1>6. a \in Byte /\ \A x \in 0 .. 7 : x \in a <=> x + 8 * k \in t
  BY <1>5, LaneHas
<1>7. ASSUME NEW x \in 0 .. 7 PROVE x + 8 * k \in carried <=> 7 \in a /\ x \in {0, 2, 3, 4}
  <2>1. 7 \in a <=> 7 + 8 * k \in t
    BY <1>6
  <2>2. ASSUME NEW b \in t \cap {7, 15, 23, 31}, NEW z \in {0, 2, 3, 4}, x + 8 * k = z + (b - 7)
        PROVE  b = 7 + 8 * k /\ z = x
    <3>1. b \in {7, 15, 23, 31} /\ k \in {0, 1, 2, 3}
      OBVIOUS
    <3>2. CASE b = 7
      BY <2>2, <3>1, <3>2
    <3>3. CASE b = 15
      BY <2>2, <3>1, <3>3
    <3>4. CASE b = 23
      BY <2>2, <3>1, <3>4
    <3>5. CASE b = 31
      BY <2>2, <3>1, <3>5
    <3> QED BY <3>1, <3>2, <3>3, <3>4, <3>5
  <2>3. ASSUME 7 + 8 * k \in t, x \in {0, 2, 3, 4} PROVE x + 8 * k \in carried
    <3>1. 7 + 8 * k \in t \cap {7, 15, 23, 31} /\ x + 8 * k = x + ((7 + 8 * k) - 7)
      BY <2>3
    <3> QED BY <1>2, <2>3, <3>1
  <2>4. ASSUME x + 8 * k \in carried PROVE 7 + 8 * k \in t /\ x \in {0, 2, 3, 4}
    <3>1. PICK b \in t \cap {7, 15, 23, 31} : \E z \in {0, 2, 3, 4} : x + 8 * k = z + (b - 7)
      BY <1>2, <2>4
    <3>2. PICK z \in {0, 2, 3, 4} : x + 8 * k = z + (b - 7)
      BY <3>1
    <3>3. b = 7 + 8 * k /\ z = x
      BY <2>2, <3>2
    <3> QED BY <3>3
  <2> QED BY <2>1, <2>3, <2>4
<1>8. ASSUME NEW x \in 0 .. 7 PROVE x + 8 * k \in up <=> x # 0 /\ x - 1 \in a
  <2>1. x + 8 * k \in 0 .. 31 /\ ((x + 8 * k) % 8 # 0 <=> x # 0)
    OBVIOUS
  <2>2. x # 0 => x - 1 \in 0 .. 7 /\ (x - 1) + 8 * k = (x + 8 * k) - 1
    OBVIOUS
  <2>3. x # 0 => (x - 1 \in a <=> (x + 8 * k) - 1 \in t)
    BY <1>6, <2>2
  <2> QED BY <1>4, <2>1, <2>3
<1>9. PICK d : d = ecc_xtime(a)
  OBVIOUS
<1>10. d \in Byte
  BY <1>6, <1>9, TwiceHas
<1>11. \A x \in 0 .. 7 : x \in d <=> ~ ((x # 0 /\ x - 1 \in a) <=> (7 \in a /\ x \in {0, 2, 3, 4}))
  <2>1. \A x \in 0 .. 7 : x \in Shifted(a, 1) \cap (0 .. 7) <=> x # 0 /\ x - 1 \in a
    <3>1. \A b \in a : b \in 0 .. 7
      BY <1>6 DEF Byte
    <3> QED BY <3>1 DEF Shifted
  <2>2. \A x \in 0 .. 7 : x \in (IF 7 \in a THEN {0, 2, 3, 4} ELSE {}) <=> 7 \in a /\ x \in {0, 2, 3, 4}
    OBVIOUS
  <2> QED BY <1>9, <2>1, <2>2, XorHas DEF ecc_xtime
<1>12. ecc_xtime4(t) \in Words
  BY <1>1, <1>3 DEF Xor, Words
<1>13. ASSUME NEW x \in 0 .. 7 PROVE x + 8 * k \in ecc_xtime4(t) <=> x \in d
  <2>1. x + 8 * k \in ecc_xtime4(t) <=> ~ (x + 8 * k \in up <=> x + 8 * k \in carried)
    BY <1>1, XorHas
  <2> QED BY <1>7, <1>8, <1>11, <2>1
<1>14. Lane(ecc_xtime4(t), k) = d
  BY <1>10, <1>12, <1>13, LaneIs
<1> QED BY <1>5, <1>9, <1>12, <1>14

-----------------------------------------------------------------------------
(* The sums of the first terms.                                             *)
Sums(terms, n, f) == f[0] = {} /\ \A c \in 1 .. n : f[c] = Xor(f[c - 1], terms[c])

Terms(n, U) == [1 .. n -> SUBSET U]

LEMMA XorOfIsASum ==
  ASSUME NEW U, NEW n \in Nat, NEW terms \in Terms(n, U)
  PROVE  \E f : /\ Sums(terms, n, f) /\ \A c \in 0 .. n : f[c] \in SUBSET U
                /\ XorOf(terms) = f[n]
<1>0. terms \in [1 .. n -> SUBSET U]
  BY DEF Terms
<1> DEFINE X == SUBSET U
           step == [p \in (1 .. n) \X X |-> Xor(p[2], terms[p[1]])]
           IsIt(f) == f = [c \in 0 .. n |-> IF c = 0 THEN {} ELSE Xor(f[c - 1], terms[c])]
<1>1. {} \in X /\ step \in StepFunctions(n, X)
  <2>1. ASSUME NEW p \in (1 .. n) \X X PROVE Xor(p[2], terms[p[1]]) \in X
    <3>1. p[2] \in X /\ terms[p[1]] \in X
      BY <1>0
    <3> QED BY <3>1, XorInside
  <2> QED BY <2>1 DEF StepFunctions
<1>2. \A c \in 1 .. n : \A x \in X : step[<<c, x>>] = Xor(x, terms[c])
  OBVIOUS
<1> HIDE DEF X, step
<1>3. PICK f : Runs(n, X, {}, step, f)
  BY <1>1, RunExists
<1>4. \A c \in 1 .. n : c - 1 \in 0 .. n
  OBVIOUS
<1>5. f = [i \in 0 .. n |-> f[i]] /\ f[0] = {} /\ \A c \in 1 .. n : f[c] = Xor(f[c - 1], terms[c])
  BY <1>2, <1>3, <1>4 DEF Runs
<1>6. IsIt(f)
  <2>1. ASSUME NEW c \in 0 .. n PROVE f[c] = IF c = 0 THEN {} ELSE Xor(f[c - 1], terms[c])
    <3>1. c # 0 => c \in 1 .. n
      OBVIOUS
    <3> QED BY <1>5, <3>1
  <2> QED BY <1>5, <2>1
<1>7. Len(terms) = n
  BY <1>0
<1> DEFINE g == CHOOSE f1 : IsIt(f1)
<1>8. XorOf(terms) = g[n]
  BY <1>7 DEF XorOf
<1>9. IsIt(g)
  <2> HIDE DEF IsIt
  <2> QED BY <1>6
<1> HIDE DEF g
<1>10. Sums(terms, n, g)
  <2>1. g[0] = {}
    BY <1>9
  <2>2. ASSUME NEW c \in 1 .. n PROVE g[c] = Xor(g[c - 1], terms[c])
    <3>1. c \in 0 .. n /\ c # 0
      OBVIOUS
    <3> QED BY <1>9, <3>1
  <2> QED BY <2>1, <2>2 DEF Sums
<1>11. \A c \in 0 .. n : g[c] \in SUBSET U
  <2> DEFINE good == {c \in 0 .. n : g[c] \in SUBSET U}
  <2>1. 0 \in good
    BY <1>10 DEF Sums
  <2>2. ASSUME NEW c \in 1 .. n, c - 1 \in good PROVE c \in good
    <3>1. g[c] = Xor(g[c - 1], terms[c]) /\ g[c - 1] \in SUBSET U
      BY <1>10, <2>2 DEF Sums
    <3>2. terms[c] \in SUBSET U
      BY <1>0
    <3> QED BY <3>1, <3>2, XorInside
  <2>3. \A c \in 0 .. n : c \in good
    <3> HIDE DEF good
    <3> QED BY <2>1, <2>2, AllAlong
  <2> QED BY <2>3
<1> QED BY <1>8, <1>10, <1>11

LEMMA TwiceIsAWord ==
  \A t \in Words : ecc_xtime4(t) \in Words
<1>1. 0 \in 0 .. 3
  OBVIOUS
<1> QED BY <1>1, LanesOfTwice

-----------------------------------------------------------------------------
(* The doubled sums of a row: of its bytes, and of its words.               *)
Doubles(terms, n, f) == f[0] = {} /\ \A c \in 1 .. n : f[c] = ecclow[Xor(f[c - 1], terms[c])]
DoublesDefine(terms, n, f) ==
  f = [c \in 0 .. n |-> IF c = 0 THEN {} ELSE ecclow[Xor(f[c - 1], terms[c])]]

LEMMA DoublesExist ==
  ASSUME NEW n \in Nat, NEW terms \in [1 .. n -> Byte]
  PROVE  \E f : /\ Doubles(terms, n, f) /\ \A c \in 0 .. n : f[c] \in Byte
                /\ (CHOOSE g : DoublesDefine(terms, n, g)) = f
<1> DEFINE step == [p \in (1 .. n) \X Byte |-> ecclow[Xor(p[2], terms[p[1]])]]
           IsIt(f) == f = [c \in 0 .. n |-> IF c = 0 THEN {} ELSE ecclow[Xor(f[c - 1], terms[c])]]
<1>1. {} \in Byte /\ step \in StepFunctions(n, Byte)
  <2>1. ASSUME NEW p \in (1 .. n) \X Byte PROVE ecclow[Xor(p[2], terms[p[1]])] \in Byte
    <3>1. p[2] \in Byte /\ terms[p[1]] \in Byte
      OBVIOUS
    <3>2. Xor(p[2], terms[p[1]]) \in Byte
      BY <3>1 DEF Xor, Byte
    <3> QED BY <3>2, TablesAreBytes
  <2>2. {} \in Byte
    BY DEF Byte
  <2> QED BY <2>1, <2>2 DEF StepFunctions
<1>2. \A c \in 1 .. n : \A x \in Byte : step[<<c, x>>] = ecclow[Xor(x, terms[c])]
  OBVIOUS
<1> HIDE DEF step
<1>3. PICK f : Runs(n, Byte, {}, step, f)
  BY <1>1, RunExists
<1>4. \A c \in 1 .. n : c - 1 \in 0 .. n
  OBVIOUS
<1>5. f = [i \in 0 .. n |-> f[i]] /\ f[0] = {} /\ \A c \in 1 .. n : f[c] = ecclow[Xor(f[c - 1], terms[c])]
  BY <1>2, <1>3, <1>4 DEF Runs
<1>6. IsIt(f)
  <2>1. ASSUME NEW c \in 0 .. n PROVE f[c] = IF c = 0 THEN {} ELSE ecclow[Xor(f[c - 1], terms[c])]
    <3>1. c # 0 => c \in 1 .. n
      OBVIOUS
    <3> QED BY <1>5, <3>1
  <2> QED BY <1>5, <2>1
<1> DEFINE g == CHOOSE f1 : DoublesDefine(terms, n, f1)
<1>7. DoublesDefine(terms, n, f)
  BY <1>6 DEF DoublesDefine
<1>8. DoublesDefine(terms, n, g)
  BY <1>7
<1> HIDE DEF g
<1>9. g[0] = {} /\ \A c \in 1 .. n : g[c] = ecclow[Xor(g[c - 1], terms[c])]
  <2>1. g[0] = {}
    BY <1>8 DEF DoublesDefine
  <2>2. ASSUME NEW c \in 1 .. n PROVE g[c] = ecclow[Xor(g[c - 1], terms[c])]
    <3>1. c \in 0 .. n /\ c # 0
      OBVIOUS
    <3> QED BY <1>8, <3>1 DEF DoublesDefine
  <2> QED BY <2>1, <2>2
<1>10. \A c \in 0 .. n : g[c] \in Byte
  <2> DEFINE good == {c \in 0 .. n : g[c] \in Byte}
  <2>1. 0 \in good
    <3>1. g[0] \in Byte
      BY <1>9 DEF Byte
    <3> QED BY <3>1
  <2>2. ASSUME NEW c \in 1 .. n, c - 1 \in good PROVE c \in good
    <3>1. g[c] = ecclow[Xor(g[c - 1], terms[c])] /\ g[c - 1] \in Byte
      BY <1>9, <2>2
    <3>2. Xor(g[c - 1], terms[c]) \in Byte
      BY <3>1 DEF Xor, Byte
    <3>3. g[c] \in Byte
      BY <3>1, <3>2, TablesAreBytes
    <3> QED BY <3>3
  <2>3. \A c \in 0 .. n : c \in good
    <3> HIDE DEF good
    <3> QED BY <2>1, <2>2, AllAlong
  <2> QED BY <2>3
<1>11. Doubles(terms, n, g)
  BY <1>9 DEF Doubles
<1> QED BY <1>10, <1>11 DEF g

WordDoubles(terms, n, f) == f[0] = {} /\ \A c \in 1 .. n : f[c] = ecc_xtime4(Xor(f[c - 1], terms[c]))
WordDoublesDefine(terms, n, f) ==
  f = [c \in 0 .. n |-> IF c = 0 THEN {} ELSE ecc_xtime4(Xor(f[c - 1], terms[c]))]

LEMMA WordDoublesExist ==
  ASSUME NEW n \in Nat, NEW terms \in [1 .. n -> Words]
  PROVE  \E f : /\ WordDoubles(terms, n, f) /\ \A c \in 0 .. n : f[c] \in Words
                /\ (CHOOSE g : WordDoublesDefine(terms, n, g)) = f
<1> DEFINE step == [p \in (1 .. n) \X Words |-> ecc_xtime4(Xor(p[2], terms[p[1]]))]
           IsIt(f) == f = [c \in 0 .. n |-> IF c = 0 THEN {} ELSE ecc_xtime4(Xor(f[c - 1], terms[c]))]
<1>1. {} \in Words /\ step \in StepFunctions(n, Words)
  <2>1. ASSUME NEW p \in (1 .. n) \X Words PROVE ecc_xtime4(Xor(p[2], terms[p[1]])) \in Words
    <3>1. p[2] \in Words /\ terms[p[1]] \in Words
      OBVIOUS
    <3>2. Xor(p[2], terms[p[1]]) \in Words
      BY <3>1 DEF Xor, Words
    <3> QED BY <3>2, TwiceIsAWord
  <2>2. {} \in Words
    BY DEF Words
  <2> QED BY <2>1, <2>2 DEF StepFunctions
<1>2. \A c \in 1 .. n : \A x \in Words : step[<<c, x>>] = ecc_xtime4(Xor(x, terms[c]))
  OBVIOUS
<1> HIDE DEF step
<1>3. PICK f : Runs(n, Words, {}, step, f)
  BY <1>1, RunExists
<1>4. \A c \in 1 .. n : c - 1 \in 0 .. n
  OBVIOUS
<1>5. f = [i \in 0 .. n |-> f[i]] /\ f[0] = {} /\ \A c \in 1 .. n : f[c] = ecc_xtime4(Xor(f[c - 1], terms[c]))
  BY <1>2, <1>3, <1>4 DEF Runs
<1>6. IsIt(f)
  <2>1. ASSUME NEW c \in 0 .. n PROVE f[c] = IF c = 0 THEN {} ELSE ecc_xtime4(Xor(f[c - 1], terms[c]))
    <3>1. c # 0 => c \in 1 .. n
      OBVIOUS
    <3> QED BY <1>5, <3>1
  <2> QED BY <1>5, <2>1
<1> DEFINE g == CHOOSE f1 : WordDoublesDefine(terms, n, f1)
<1>7. WordDoublesDefine(terms, n, f)
  BY <1>6 DEF WordDoublesDefine
<1>8. WordDoublesDefine(terms, n, g)
  BY <1>7
<1> HIDE DEF g
<1>9. g[0] = {} /\ \A c \in 1 .. n : g[c] = ecc_xtime4(Xor(g[c - 1], terms[c]))
  <2>1. g[0] = {}
    BY <1>8 DEF WordDoublesDefine
  <2>2. ASSUME NEW c \in 1 .. n PROVE g[c] = ecc_xtime4(Xor(g[c - 1], terms[c]))
    <3>1. c \in 0 .. n /\ c # 0
      OBVIOUS
    <3> QED BY <1>8, <3>1 DEF WordDoublesDefine
  <2> QED BY <2>1, <2>2
<1>10. \A c \in 0 .. n : g[c] \in Words
  <2> DEFINE good == {c \in 0 .. n : g[c] \in Words}
  <2>1. 0 \in good
    <3>1. g[0] \in Words
      BY <1>9 DEF Words
    <3> QED BY <3>1
  <2>2. ASSUME NEW c \in 1 .. n, c - 1 \in good PROVE c \in good
    <3>1. g[c] = ecc_xtime4(Xor(g[c - 1], terms[c])) /\ g[c - 1] \in Words
      BY <1>9, <2>2
    <3>2. Xor(g[c - 1], terms[c]) \in Words
      BY <3>1 DEF Xor, Words
    <3>3. g[c] \in Words
      BY <3>1, <3>2, TwiceIsAWord
    <3> QED BY <3>3
  <2>3. \A c \in 0 .. n : c \in good
    <3> HIDE DEF good
    <3> QED BY <2>1, <2>2, AllAlong
  <2> QED BY <2>3
<1>11. WordDoubles(terms, n, g)
  BY <1>9 DEF WordDoubles
<1> QED BY <1>10, <1>11 DEF g

-----------------------------------------------------------------------------
(* The parity of a row, from the bytes of the row.                          *)
BytesOf(sector, row) ==
  [c \in 1 .. Len(row) |-> IF sector[MODE_OFFSET] = Bits(2) /\ row[c] < 4
                           THEN {} ELSE sector[SYNC_NUM_BYTES + row[c]]]
FirstParity(low, sum) == ecchigh[Xor(ecclow[low], sum)]
ParityOf(low, sum) == <<FirstParity(low, sum), Xor(sum, FirstParity(low, sum))>>
ParityFrom(bytes, n) == ParityOf((CHOOSE g : DoublesDefine(bytes, n, g))[n], XorOf(bytes))

LEMMA ParityIsOfBytes ==
  ASSUME NEW sector, NEW row
  PROVE  ecc_compute_bytes(sector, row) = ParityFrom(BytesOf(sector, row), Len(row))
BY DEF ecc_compute_bytes, ParityFrom, ParityOf, FirstParity, BytesOf, DoublesDefine

LEMMA ParityOfIsBytes ==
  ASSUME NEW low \in Byte, NEW sum \in Byte
  PROVE  /\ FirstParity(low, sum) \in Byte /\ ParityOf(low, sum)[1] \in Byte /\ ParityOf(low, sum)[2] \in Byte
<1>1. ecclow[low] \in Byte
  BY TablesAreBytes
<1>2. Xor(ecclow[low], sum) \in Byte
  BY <1>1 DEF Xor, Byte
<1>3. FirstParity(low, sum) \in Byte
  BY <1>2, TablesAreBytes DEF FirstParity
<1>4. Xor(sum, FirstParity(low, sum)) \in Byte
  BY <1>3 DEF Xor, Byte
<1> QED BY <1>3, <1>4 DEF ParityOf

LEMMA ParityComesFromARow ==
  ASSUME NEW n \in Nat, NEW bytes \in [1 .. n -> Byte]
  PROVE  \E low, sum : /\ Doubles(bytes, n, low) /\ Sums(bytes, n, sum)
                       /\ \A c \in 0 .. n : low[c] \in Byte /\ sum[c] \in Byte
                       /\ ParityFrom(bytes, n) = ParityOf(low[n], sum[n])
<1>1. PICK low : /\ Doubles(bytes, n, low) /\ \A c \in 0 .. n : low[c] \in Byte
                 /\ (CHOOSE g : DoublesDefine(bytes, n, g)) = low
  BY DoublesExist
<1>2. PICK sum : /\ Sums(bytes, n, sum) /\ \A c \in 0 .. n : sum[c] \in Byte
                 /\ XorOf(bytes) = sum[n]
  <2>1. PICK U : U = 0 .. 7
    OBVIOUS
  <2>2. Byte = SUBSET U
    BY <2>1 DEF Byte
  <2>3. bytes \in Terms(n, U)
    BY <2>2 DEF Terms
  <2>4. PICK f : /\ Sums(bytes, n, f) /\ \A c \in 0 .. n : f[c] \in SUBSET U
                 /\ XorOf(bytes) = f[n]
    BY <2>3, XorOfIsASum
  <2>5. \A c \in 0 .. n : f[c] \in Byte
    BY <2>2, <2>4
  <2> QED BY <2>4, <2>5
<1> QED BY <1>1, <1>2 DEF ParityFrom

LEMMA ParityIsBytes ==
  ASSUME NEW sector, NEW row, Len(row) \in Nat, BytesOf(sector, row) \in [1 .. Len(row) -> Byte]
  PROVE  /\ ecc_compute_bytes(sector, row)[1] \in Byte /\ ecc_compute_bytes(sector, row)[2] \in Byte
         /\ ecc_compute_bytes(sector, row)
              = <<ecc_compute_bytes(sector, row)[1], ecc_compute_bytes(sector, row)[2]>>
<1>1. PICK n, bytes : n = Len(row) /\ bytes = BytesOf(sector, row)
  OBVIOUS
<1>2. n \in Nat /\ bytes \in [1 .. n -> Byte] /\ n \in 0 .. n
  BY <1>1
<1>3. PICK low, sum : /\ \A c \in 0 .. n : low[c] \in Byte /\ sum[c] \in Byte
                      /\ ParityFrom(bytes, n) = ParityOf(low[n], sum[n])
  BY <1>2, ParityComesFromARow
<1>4. ecc_compute_bytes(sector, row) = ParityOf(low[n], sum[n])
  BY <1>1, <1>3, ParityIsOfBytes
<1> QED BY <1>2, <1>3, <1>4, ParityOfIsBytes DEF ParityOf

-----------------------------------------------------------------------------
(* The parity of four rows, from the words of the group.                    *)
GroupWords(sector, row) ==
  [c \in 1 .. ECC_P_COMP |->
     IF sector[MODE_OFFSET] = Bits(2) /\ row = 0 /\ c = 1 THEN {}
     ELSE Word([k \in 0 .. 3 |-> sector[SYNC_NUM_BYTES + row + k + ECC_P_NUM_BYTES * (c - 1)]])]
FirstWord(low, sum) == Word([k \in 0 .. 3 |-> ecchigh[Xor(ecc_xtime(Lane(low, k)), Lane(sum, k))]])
WithWords(sector, at, v1, v2) ==
  [i \in DOMAIN sector \cup (at .. at + 3)
              \cup (at + ECC_P_NUM_BYTES .. at + ECC_P_NUM_BYTES + 3) |->
        IF i \in at .. at + 3 THEN Lane(v1, i - at)
        ELSE IF i \in at + ECC_P_NUM_BYTES .. at + ECC_P_NUM_BYTES + 3
             THEN Lane(v2, i - ECC_P_NUM_BYTES - at)
             ELSE sector[i]]
GroupFrom(sector, row, low, sum) ==
  WithWords(sector, ECC_P_OFFSET + row, FirstWord(low, sum), Xor(sum, FirstWord(low, sum)))

LEMMA GroupIsOfWords ==
  ASSUME NEW sector, NEW row
  PROVE  SwarGroup(sector, row)
           = GroupFrom(sector, row, (CHOOSE g : WordDoublesDefine(GroupWords(sector, row), ECC_P_COMP, g))[ECC_P_COMP],
                       XorOf(GroupWords(sector, row)))
BY DEF SwarGroup, GroupFrom, WithWords, FirstWord, GroupWords, WordDoublesDefine

(* The recursion of the words is, lane by lane, that of the bytes.          *)
SideBySide(n, k, words, bytes, wl, ws, bl, bs) ==
  /\ \A c \in 1 .. n : words[c] \in Words /\ bytes[c] \in Byte /\ Lane(words[c], k) = bytes[c]
  /\ WordDoubles(words, n, wl) /\ Sums(words, n, ws) /\ Doubles(bytes, n, bl) /\ Sums(bytes, n, bs)
  /\ \A c \in 0 .. n : wl[c] \in Words /\ ws[c] \in Words
  /\ \A c \in 0 .. n : bl[c] \in Byte /\ bs[c] \in Byte

LanesAre(n, k, wl, ws, bl, bs) == Lane(wl[n], k) = bl[n] /\ Lane(ws[n], k) = bs[n]

LEMMA LanesOfRow ==
  ASSUME NEW n \in Nat, NEW words, NEW bytes, NEW k \in 0 .. 3,
         NEW wl, NEW ws, NEW bl, NEW bs, SideBySide(n, k, words, bytes, wl, ws, bl, bs)
  PROVE  LanesAre(n, k, wl, ws, bl, bs)
<1> USE DEF SideBySide
<1> DEFINE good == {c \in 0 .. n : Lane(wl[c], k) = bl[c] /\ Lane(ws[c], k) = bs[c]}
<1>1. 0 \in good
  <2>1. wl[0] = {} /\ ws[0] = {} /\ bl[0] = {} /\ bs[0] = {}
    BY DEF WordDoubles, Sums, Doubles
  <2>2. Lane({}, k) = {}
    BY DEF Lane, Shifted
  <2> QED BY <2>1, <2>2
<1>2. ASSUME NEW c \in 1 .. n, c - 1 \in good PROVE c \in good
  <2>1. c - 1 \in 0 .. n /\ c \in 0 .. n
    OBVIOUS
  <2>2. PICK w, b, l1, s1, l2, s2 :
          /\ w = words[c] /\ b = bytes[c] /\ l1 = wl[c - 1] /\ s1 = ws[c - 1]
          /\ l2 = bl[c - 1] /\ s2 = bs[c - 1]
    OBVIOUS
  <2>3. /\ w \in Words /\ b \in Byte /\ l1 \in Words /\ s1 \in Words /\ l2 \in Byte /\ s2 \in Byte
        /\ Lane(w, k) = b /\ Lane(l1, k) = l2 /\ Lane(s1, k) = s2
    BY <1>2, <2>1, <2>2
  <2>4. /\ wl[c] = ecc_xtime4(Xor(l1, w)) /\ ws[c] = Xor(s1, w)
        /\ bl[c] = ecclow[Xor(l2, b)] /\ bs[c] = Xor(s2, b)
    BY <2>2 DEF WordDoubles, Sums, Doubles
  <2>5. Lane(Xor(s1, w), k) = Xor(s2, b)
    BY <2>3, LanesOfXor
  <2>6. Xor(l1, w) \in Words /\ Lane(Xor(l1, w), k) = Xor(l2, b)
    BY <2>3, LanesOfXor
  <2>7. Lane(ecc_xtime4(Xor(l1, w)), k) = ecc_xtime(Xor(l2, b))
    BY <2>6, LanesOfTwice
  <2>8. Xor(l2, b) \in Byte
    BY <2>3 DEF Xor, Byte
  <2>9. ecclow[Xor(l2, b)] = ecc_xtime(Xor(l2, b))
    BY <2>8, TablesAreBytes
  <2> QED BY <2>1, <2>4, <2>5, <2>7, <2>9
<1>3. \A c \in 0 .. n : c \in good
  <2> HIDE DEF good
  <2> QED BY <1>1, <1>2, AllAlong
<1>4. n \in 0 .. n
  OBVIOUS
<1> QED BY <1>3, <1>4 DEF LanesAre

(* The two parities of each of the four rows are in the lanes of the words. *)
LEMMA LanesOfParity ==
  ASSUME NEW low \in Words, NEW sum \in Words, NEW k \in 0 .. 3
  PROVE  /\ FirstWord(low, sum) \in Words
         /\ Lane(FirstWord(low, sum), k) = ParityOf(Lane(low, k), Lane(sum, k))[1]
         /\ Lane(Xor(sum, FirstWord(low, sum)), k) = ParityOf(Lane(low, k), Lane(sum, k))[2]
<1> DEFINE bytes == [j \in 0 .. 3 |-> ecchigh[Xor(ecc_xtime(Lane(low, j)), Lane(sum, j))]]
<1>1. ASSUME NEW j \in 0 .. 3
      PROVE  /\ ecchigh[Xor(ecc_xtime(Lane(low, j)), Lane(sum, j))] = FirstParity(Lane(low, j), Lane(sum, j))
             /\ ecchigh[Xor(ecc_xtime(Lane(low, j)), Lane(sum, j))] \in Byte
  <2>1. Lane(low, j) \in Byte /\ Lane(sum, j) \in Byte
    BY LaneHas
  <2>2. ecclow[Lane(low, j)] = ecc_xtime(Lane(low, j))
    BY <2>1, TablesAreBytes
  <2>3. FirstParity(Lane(low, j), Lane(sum, j)) \in Byte
    BY <2>1, ParityOfIsBytes
  <2> QED BY <2>2, <2>3 DEF FirstParity
<1>2. bytes \in [0 .. 3 -> Byte] /\ bytes[k] = FirstParity(Lane(low, k), Lane(sum, k))
  BY <1>1
<1>3. FirstWord(low, sum) = Word(bytes)
  BY DEF FirstWord
<1> HIDE DEF bytes
<1>4. Word(bytes) \in Words /\ Lane(Word(bytes), k) = bytes[k]
  BY <1>2, LanesOfWord
<1>5. Lane(Xor(sum, Word(bytes)), k) = Xor(Lane(sum, k), bytes[k])
  BY <1>4, LanesOfXor
<1> QED BY <1>2, <1>3, <1>4, <1>5 DEF ParityOf

-----------------------------------------------------------------------------
(* The geometry.                                                            *)
LEMMA MoreIsMore ==
  ASSUME NEW a \in Nat, NEW b \in Nat, NEW c \in Nat, a < b
  PROVE  a * c \in Nat /\ b * c \in Nat /\ a * c + c <= b * c /\ c * a = a * c /\ c * b = b * c
OBVIOUS

LEMMA SizesAre ==
  /\ SYNC_NUM_BYTES \in Nat /\ ECC_P_NUM_BYTES \in Nat /\ ECC_P_COMP \in Nat
  /\ SYNC_NUM_BYTES > 1 /\ ECC_P_COMP > 0 /\ ECC_P_NUM_BYTES > 4
  /\ ECC_P_NUM_BYTES * ECC_P_COMP \in Nat /\ ECC_P_NUM_BYTES <= ECC_P_NUM_BYTES * ECC_P_COMP
  /\ ECC_P_OFFSET = SYNC_NUM_BYTES + ECC_P_NUM_BYTES * ECC_P_COMP /\ ECC_P_OFFSET \in Nat
  /\ MODE_OFFSET \in Nat /\ MODE_OFFSET < ECC_P_OFFSET
  /\ ECC_Q_OFFSET = ECC_P_OFFSET + 2 * ECC_P_NUM_BYTES /\ ECC_Q_OFFSET \in Nat
  /\ ECC_Q_NUM_BYTES = 2 * (ECC_P_COMP + 2) /\ ECC_Q_NUM_BYTES \in Nat
  /\ CD_MAX_SECTOR_DATA = ECC_Q_OFFSET + 2 * ECC_Q_NUM_BYTES /\ CD_MAX_SECTOR_DATA \in Nat
  /\ ECC_Q_COMP \in Nat /\ ECC_Q_COMP = ECC_P_NUM_BYTES \div 2
<1>1. /\ SYNC_NUM_BYTES \in Nat /\ ECC_P_NUM_BYTES \in Nat /\ ECC_P_COMP \in Nat
      /\ SYNC_NUM_BYTES > 1 /\ ECC_P_COMP > 0 /\ ECC_P_NUM_BYTES > 4
  BY EccAssumption
<1>2. ECC_P_NUM_BYTES * ECC_P_COMP \in Nat /\ ECC_P_NUM_BYTES <= ECC_P_NUM_BYTES * ECC_P_COMP
  <2>1. 0 * ECC_P_NUM_BYTES + ECC_P_NUM_BYTES <= ECC_P_COMP * ECC_P_NUM_BYTES
    BY <1>1, MoreIsMore
  <2>2. ECC_P_NUM_BYTES * ECC_P_COMP = ECC_P_COMP * ECC_P_NUM_BYTES /\ ECC_P_NUM_BYTES * ECC_P_COMP \in Nat
    BY <1>1
  <2>3. 0 * ECC_P_NUM_BYTES = 0
    BY <1>1
  <2> QED BY <1>1, <2>1, <2>2, <2>3
<1>3. PICK m : m = ECC_P_NUM_BYTES * ECC_P_COMP
  OBVIOUS
<1>4. m \in Nat /\ ECC_P_NUM_BYTES <= m /\ ECC_P_OFFSET = SYNC_NUM_BYTES + m
  BY <1>2, <1>3 DEF ECC_P_OFFSET
<1>5. ECC_P_NUM_BYTES \div 2 \in Nat
  BY <1>1
<1> QED BY <1>1, <1>2, <1>3, <1>4, <1>5
           DEF MODE_OFFSET, ECC_Q_OFFSET, ECC_Q_NUM_BYTES, ECC_Q_COMP, CD_MAX_SECTOR_DATA

RawSectors == [0 .. CD_MAX_SECTOR_DATA - 1 -> Byte]

LEMMA RowsOfP ==
  ASSUME NEW r \in 0 .. ECC_P_NUM_BYTES - 1
  PROVE  /\ Len(poffsets[r]) = ECC_P_COMP
         /\ \A c \in 1 .. ECC_P_COMP : /\ poffsets[r][c] = r + ECC_P_NUM_BYTES * (c - 1)
                                       /\ poffsets[r][c] \in 0 .. ECC_P_NUM_BYTES * ECC_P_COMP - 1
                                       /\ (poffsets[r][c] < 4 <=> c = 1 /\ r < 4)
<1> USE SizesAre
<1>1. poffsets[r] = [c \in 1 .. ECC_P_COMP |-> r + ECC_P_NUM_BYTES * (c - 1)]
  BY DEF poffsets
<1>2. Len(poffsets[r]) = ECC_P_COMP
  BY <1>1
<1>3. ASSUME NEW c \in 1 .. ECC_P_COMP
      PROVE  /\ poffsets[r][c] = r + ECC_P_NUM_BYTES * (c - 1)
             /\ poffsets[r][c] \in 0 .. ECC_P_NUM_BYTES * ECC_P_COMP - 1
             /\ (poffsets[r][c] < 4 <=> c = 1 /\ r < 4)
  <2>1. poffsets[r][c] = r + ECC_P_NUM_BYTES * (c - 1)
    BY <1>1
  <2>2. c - 1 \in Nat /\ c - 1 < ECC_P_COMP /\ (c # 1 => 0 < c - 1)
    OBVIOUS
  <2>3. PICK m, p : m = ECC_P_NUM_BYTES * (c - 1) /\ p = ECC_P_NUM_BYTES * ECC_P_COMP
    OBVIOUS
  <2>4. m \in Nat /\ p \in Nat /\ m + ECC_P_NUM_BYTES <= p
    BY <2>2, <2>3, MoreIsMore
  <2>5. c # 1 => ECC_P_NUM_BYTES <= m
    <3>1. c # 1 => 0 * ECC_P_NUM_BYTES + ECC_P_NUM_BYTES <= m
      BY <2>2, <2>3, MoreIsMore
    <3>2. 0 * ECC_P_NUM_BYTES = 0
      OBVIOUS
    <3> QED BY <2>4, <3>1, <3>2
  <2>6. c = 1 => m = 0
    BY <2>3
  <2>7. r + m \in 0 .. p - 1 /\ (r + m < 4 <=> c = 1 /\ r < 4)
    BY <2>4, <2>5, <2>6
  <2> QED BY <2>1, <2>3, <2>7
<1> QED BY <1>2, <1>3

LEMMA RowsOfQ ==
  ASSUME NEW r \in 0 .. ECC_Q_NUM_BYTES - 1
  PROVE  /\ Len(qoffsets[r]) = ECC_Q_COMP
         /\ \A c \in 1 .. ECC_Q_COMP :
              qoffsets[r][c] \in Nat /\ SYNC_NUM_BYTES + qoffsets[r][c] < ECC_Q_OFFSET
<1> USE SizesAre
<1> DEFINE m == ECC_P_NUM_BYTES * (ECC_P_COMP + 2)
           At(c) == ECC_P_NUM_BYTES * (r \div 2) + (r % 2) + (ECC_P_NUM_BYTES + 2) * (c - 1)
<1>1. qoffsets[r] = [c \in 1 .. ECC_Q_COMP |-> At(c) % m]
  BY DEF qoffsets
<1>2. m = ECC_P_NUM_BYTES * ECC_P_COMP + 2 * ECC_P_NUM_BYTES
  BY EccAssumption
<1>3. m \in Nat /\ m > 0 /\ SYNC_NUM_BYTES + m = ECC_Q_OFFSET
  <2> HIDE DEF m
  <2>1. PICK p : p = ECC_P_NUM_BYTES * ECC_P_COMP
    OBVIOUS
  <2> QED BY <1>2, <2>1
<1>4. ASSUME NEW c \in 1 .. ECC_Q_COMP PROVE At(c) \in Int
  <2>1. r \div 2 \in Int /\ r % 2 \in Int /\ c - 1 \in Int
    OBVIOUS
  <2>2. ECC_P_NUM_BYTES * (r \div 2) \in Int /\ (ECC_P_NUM_BYTES + 2) * (c - 1) \in Int
    BY <2>1
  <2> QED BY <2>1, <2>2
<1> HIDE DEF m, At
<1>5. Len(qoffsets[r]) = ECC_Q_COMP
  BY <1>1
<1>6. ASSUME NEW c \in 1 .. ECC_Q_COMP
      PROVE  qoffsets[r][c] \in Nat /\ SYNC_NUM_BYTES + qoffsets[r][c] < ECC_Q_OFFSET
  <2>1. qoffsets[r][c] = At(c) % m
    BY <1>1
  <2>2. At(c) % m \in 0 .. m - 1
    BY <1>3, <1>4
  <2> QED BY <1>3, <2>1, <2>2
<1> QED BY <1>5, <1>6

(* The rows of a sector are bytes of it, and the parity of a row depends on *)
(* them only, and on the mode.                                              *)
LEMMA BytesOfRow ==
  ASSUME NEW sector \in RawSectors, NEW row, NEW n \in Nat, Len(row) = n,
         \A c \in 1 .. n : SYNC_NUM_BYTES + row[c] \in 0 .. CD_MAX_SECTOR_DATA - 1
  PROVE  /\ BytesOf(sector, row) \in [1 .. n -> Byte]
         /\ ecc_compute_bytes(sector, row) = <<ecc_compute_bytes(sector, row)[1], ecc_compute_bytes(sector, row)[2]>>
         /\ ecc_compute_bytes(sector, row)[1] \in Byte /\ ecc_compute_bytes(sector, row)[2] \in Byte
<1>1. ASSUME NEW c \in 1 .. n
      PROVE  (IF sector[MODE_OFFSET] = Bits(2) /\ row[c] < 4 THEN {} ELSE sector[SYNC_NUM_BYTES + row[c]]) \in Byte
  <2>1. sector[SYNC_NUM_BYTES + row[c]] \in Byte
    BY DEF RawSectors
  <2>2. {} \in Byte
    BY DEF Byte
  <2> HIDE DEF Byte
  <2> QED BY <2>1, <2>2
<1>2. BytesOf(sector, row) \in [1 .. n -> Byte]
  BY <1>1 DEF BytesOf
<1> QED BY <1>2, ParityIsBytes

LEMMA SameRow ==
  ASSUME NEW s, NEW t, NEW row, s[MODE_OFFSET] = t[MODE_OFFSET],
         \A c \in 1 .. Len(row) : s[SYNC_NUM_BYTES + row[c]] = t[SYNC_NUM_BYTES + row[c]]
  PROVE  ecc_compute_bytes(s, row) = ecc_compute_bytes(t, row)
<1>1. BytesOf(s, row) = BytesOf(t, row)
  BY DEF BytesOf
<1> QED BY <1>1, ParityIsOfBytes

-----------------------------------------------------------------------------
(* Four rows at a time: the words of a group are, lane by lane, the bytes   *)
(* of its rows, and what is written the parities of each.                   *)
LEMMA GroupRows ==
  ASSUME NEW g \in 1 .. ECC_P_NUM_BYTES \div 4
  PROVE  /\ 4 * (g - 1) \in Nat /\ 4 * (g - 1) + 3 < ECC_P_NUM_BYTES /\ 4 * (g - 1) + 4 = 4 * g
         /\ \A k \in 0 .. 3 : /\ 4 * (g - 1) + k \in 0 .. ECC_P_NUM_BYTES - 1
                              /\ (4 * (g - 1) + k < 4 <=> 4 * (g - 1) = 0)
BY SizesAre

LEMMA WordsOfGroup ==
  ASSUME NEW sector \in RawSectors, NEW row \in Nat, NEW c \in 1 .. ECC_P_COMP,
         \A k \in 0 .. 3 : row + k \in 0 .. ECC_P_NUM_BYTES - 1 /\ (row + k < 4 <=> row = 0)
  PROVE  /\ GroupWords(sector, row)[c] \in Words
         /\ \A k \in 0 .. 3 : Lane(GroupWords(sector, row)[c], k) = BytesOf(sector, poffsets[row + k])[c]
<1> USE SizesAre
<1> DEFINE bytes == [k \in 0 .. 3 |-> sector[SYNC_NUM_BYTES + row + k + ECC_P_NUM_BYTES * (c - 1)]]
           none == sector[MODE_OFFSET] = Bits(2) /\ row = 0 /\ c = 1
<1>1. ASSUME NEW k \in 0 .. 3
      PROVE  /\ sector[SYNC_NUM_BYTES + row + k + ECC_P_NUM_BYTES * (c - 1)] \in Byte
             /\ BytesOf(sector, poffsets[row + k])[c]
                  = IF none THEN {} ELSE sector[SYNC_NUM_BYTES + row + k + ECC_P_NUM_BYTES * (c - 1)]
  <2>1. /\ Len(poffsets[row + k]) = ECC_P_COMP
        /\ poffsets[row + k][c] = row + k + ECC_P_NUM_BYTES * (c - 1)
        /\ poffsets[row + k][c] \in 0 .. ECC_P_NUM_BYTES * ECC_P_COMP - 1
        /\ (poffsets[row + k][c] < 4 <=> c = 1 /\ row = 0)
    BY RowsOfP
  <2>2. PICK m, p, q : m = ECC_P_NUM_BYTES * (c - 1) /\ p = ECC_P_NUM_BYTES * ECC_P_COMP /\ q = poffsets[row + k][c]
    OBVIOUS
  <2>3. q \in Nat /\ m = q - row - k /\ q < p /\ p \in Nat
    <3>1. m \in Int
      BY <2>2
    <3> QED BY <2>1, <2>2, <3>1
  <2>4. SYNC_NUM_BYTES + row + k + m = SYNC_NUM_BYTES + q /\ SYNC_NUM_BYTES + q \in 0 .. CD_MAX_SECTOR_DATA - 1
    <3>1. SYNC_NUM_BYTES + p <= CD_MAX_SECTOR_DATA /\ CD_MAX_SECTOR_DATA \in Nat
      BY <2>2
    <3>2. SYNC_NUM_BYTES + q \in 0 .. CD_MAX_SECTOR_DATA - 1
      BY <2>3, <3>1
    <3>3. SYNC_NUM_BYTES + row + k + m = SYNC_NUM_BYTES + q
      BY <2>3
    <3> QED BY <3>2, <3>3
  <2>5. sector[SYNC_NUM_BYTES + q] \in Byte
    BY <2>4 DEF RawSectors
  <2>6. BytesOf(sector, poffsets[row + k])[c]
          = IF sector[MODE_OFFSET] = Bits(2) /\ q < 4 THEN {} ELSE sector[SYNC_NUM_BYTES + q]
    BY <2>1, <2>2 DEF BytesOf
  <2> QED BY <2>1, <2>2, <2>4, <2>5, <2>6
<1>2. bytes \in [0 .. 3 -> Byte] /\ \A k \in 0 .. 3 : bytes[k] = sector[SYNC_NUM_BYTES + row + k + ECC_P_NUM_BYTES * (c - 1)]
  BY <1>1
<1>3. GroupWords(sector, row)[c] = IF none THEN {} ELSE Word(bytes)
  BY DEF GroupWords
<1> HIDE DEF bytes, none
<1>4. Word(bytes) \in Words /\ \A k \in 0 .. 3 : Lane(Word(bytes), k) = bytes[k]
  BY <1>2, LanesOfWord
<1>5. {} \in Words /\ \A k \in 0 .. 3 : Lane({}, k) = {}
  BY DEF Words, Lane, Shifted
<1>6. CASE none
  BY <1>1, <1>3, <1>5, <1>6
<1>7. CASE ~ none
  BY <1>1, <1>2, <1>3, <1>4, <1>7
<1> QED BY <1>6, <1>7

LEMMA GroupIsParity ==
  ASSUME NEW sector \in RawSectors, NEW row \in Nat,
         \A k \in 0 .. 3 : row + k \in 0 .. ECC_P_NUM_BYTES - 1 /\ (row + k < 4 <=> row = 0)
  PROVE  \E v1, v2 : /\ SwarGroup(sector, row) = WithWords(sector, ECC_P_OFFSET + row, v1, v2)
                     /\ \A k \in 0 .. 3 : /\ Lane(v1, k) = ecc_compute_bytes(sector, poffsets[row + k])[1]
                                          /\ Lane(v2, k) = ecc_compute_bytes(sector, poffsets[row + k])[2]
<1>1. PICK n, words : n = ECC_P_COMP /\ words = GroupWords(sector, row)
  OBVIOUS
<1>2. n \in Nat /\ n \in 0 .. n
  BY <1>1, SizesAre
<1>3. /\ \A c \in 1 .. n : words[c] \in Words
      /\ \A c \in 1 .. n : \A k \in 0 .. 3 : Lane(words[c], k) = BytesOf(sector, poffsets[row + k])[c]
  BY <1>1, WordsOfGroup
<1>4. words \in [1 .. n -> Words]
  <2>1. words = [c \in 1 .. n |-> words[c]]
    BY <1>1 DEF GroupWords
  <2> QED BY <1>3, <2>1
<1>5. PICK wl : /\ WordDoubles(words, n, wl) /\ \A c \in 0 .. n : wl[c] \in Words
                /\ (CHOOSE g : WordDoublesDefine(words, n, g)) = wl
  BY <1>2, <1>4, WordDoublesExist
<1>6. PICK ws : /\ Sums(words, n, ws) /\ \A c \in 0 .. n : ws[c] \in Words
                /\ XorOf(words) = ws[n]
  <2>1. PICK U : U = 0 .. 31
    OBVIOUS
  <2>2. Words = SUBSET U
    BY <2>1 DEF Words
  <2>3. words \in Terms(n, U)
    BY <1>4, <2>2 DEF Terms
  <2>4. PICK f : /\ Sums(words, n, f) /\ \A c \in 0 .. n : f[c] \in SUBSET U
                 /\ XorOf(words) = f[n]
    BY <1>2, <2>3, XorOfIsASum
  <2>5. \A c \in 0 .. n : f[c] \in Words
    BY <2>2, <2>4
  <2> QED BY <2>4, <2>5
<1> DEFINE v1 == FirstWord(wl[n], ws[n])
           v2 == Xor(ws[n], v1)
<1>7. SwarGroup(sector, row) = WithWords(sector, ECC_P_OFFSET + row, v1, v2)
  BY <1>1, <1>5, <1>6, GroupIsOfWords DEF GroupFrom
<1>8. ASSUME NEW k \in 0 .. 3
      PROVE  /\ Lane(v1, k) = ecc_compute_bytes(sector, poffsets[row + k])[1]
             /\ Lane(v2, k) = ecc_compute_bytes(sector, poffsets[row + k])[2]
  <2>1. PICK bytes : bytes = BytesOf(sector, poffsets[row + k])
    OBVIOUS
  <2>2. Len(poffsets[row + k]) = n
    BY <1>1, RowsOfP
  <2>3. \A c \in 1 .. n : bytes[c] \in Byte /\ words[c] \in Words /\ Lane(words[c], k) = bytes[c]
    BY <1>3, <2>1, LaneHas
  <2>4. bytes \in [1 .. n -> Byte]
    <3>1. bytes = [c \in 1 .. n |-> bytes[c]]
      BY <2>1, <2>2 DEF BytesOf
    <3> QED BY <2>3, <3>1
  <2>5. PICK bl, bs : /\ Doubles(bytes, n, bl) /\ Sums(bytes, n, bs)
                      /\ \A c \in 0 .. n : bl[c] \in Byte /\ bs[c] \in Byte
                      /\ ParityFrom(bytes, n) = ParityOf(bl[n], bs[n])
    BY <1>2, <2>4, ParityComesFromARow
  <2>6. ecc_compute_bytes(sector, poffsets[row + k]) = ParityOf(bl[n], bs[n])
    BY <2>1, <2>2, <2>5, ParityIsOfBytes
  <2>7. Lane(wl[n], k) = bl[n] /\ Lane(ws[n], k) = bs[n]
    <3>1. /\ WordDoubles(words, n, wl) /\ Sums(words, n, ws) /\ Doubles(bytes, n, bl) /\ Sums(bytes, n, bs)
          /\ \A c \in 0 .. n : wl[c] \in Words /\ ws[c] \in Words
          /\ \A c \in 0 .. n : bl[c] \in Byte /\ bs[c] \in Byte
      BY <1>5, <1>6, <2>5
    <3>2. SideBySide(n, k, words, bytes, wl, ws, bl, bs)
      BY <2>3, <3>1 DEF SideBySide
    <3>3. n \in Nat /\ k \in 0 .. 3
      BY <1>2
    <3> HIDE DEF v1, v2
    <3>4. LanesAre(n, k, wl, ws, bl, bs)
      BY <3>2, <3>3, LanesOfRow
    <3> QED BY <3>4 DEF LanesAre
  <2>8. wl[n] \in Words /\ ws[n] \in Words
    BY <1>2, <1>5, <1>6
  <2> QED BY <2>6, <2>7, <2>8, LanesOfParity
<1> HIDE DEF v1, v2
<1> QED BY <1>7, <1>8

-----------------------------------------------------------------------------
(* A sector of which the parity of the first m rows of the first kind has   *)
(* been written, and nothing before the parity touched.                     *)
ParityAtRow(t, s, r) ==
  /\ t[ECC_P_OFFSET + r] = ecc_compute_bytes(s, poffsets[r])[1]
  /\ t[ECC_P_OFFSET + ECC_P_NUM_BYTES + r] = ecc_compute_bytes(s, poffsets[r])[2]
HasRowsOfP(s, t, m) ==
  /\ t \in RawSectors
  /\ \A i \in 0 .. ECC_P_OFFSET - 1 : t[i] = s[i]
  /\ \A r \in 0 .. m - 1 : ParityAtRow(t, s, r)

LEMMA RowsOfPAreBefore ==
  ASSUME NEW s, NEW t, \A i \in 0 .. ECC_P_OFFSET - 1 : t[i] = s[i],
         NEW r \in 0 .. ECC_P_NUM_BYTES - 1
  PROVE  ecc_compute_bytes(t, poffsets[r]) = ecc_compute_bytes(s, poffsets[r])
<1>1. MODE_OFFSET \in 0 .. ECC_P_OFFSET - 1
  BY SizesAre
<1>2. ASSUME NEW c \in 1 .. Len(poffsets[r])
      PROVE  SYNC_NUM_BYTES + poffsets[r][c] \in 0 .. ECC_P_OFFSET - 1
  <2>1. PICK p : p = ECC_P_NUM_BYTES * ECC_P_COMP
    OBVIOUS
  <2>2. poffsets[r][c] \in 0 .. p - 1
    BY <2>1, RowsOfP
  <2>3. ECC_P_OFFSET = SYNC_NUM_BYTES + p /\ p \in Nat /\ SYNC_NUM_BYTES \in Nat
    BY <2>1, SizesAre
  <2> QED BY <2>2, <2>3
<1> QED BY <1>1, <1>2, SameRow

LEMMA BytesOfRowOfP ==
  ASSUME NEW s \in RawSectors, NEW r \in 0 .. ECC_P_NUM_BYTES - 1
  PROVE  /\ ecc_compute_bytes(s, poffsets[r])[1] \in Byte /\ ecc_compute_bytes(s, poffsets[r])[2] \in Byte
         /\ ecc_compute_bytes(s, poffsets[r])
              = <<ecc_compute_bytes(s, poffsets[r])[1], ecc_compute_bytes(s, poffsets[r])[2]>>
<1>1. ASSUME NEW c \in 1 .. ECC_P_COMP
      PROVE  SYNC_NUM_BYTES + poffsets[r][c] \in 0 .. CD_MAX_SECTOR_DATA - 1
  <2>1. PICK p : p = ECC_P_NUM_BYTES * ECC_P_COMP
    OBVIOUS
  <2>2. poffsets[r][c] \in 0 .. p - 1
    BY <2>1, RowsOfP
  <2>3. SYNC_NUM_BYTES + p <= CD_MAX_SECTOR_DATA /\ CD_MAX_SECTOR_DATA \in Nat /\ p \in Nat /\ SYNC_NUM_BYTES \in Nat
    BY <2>1, SizesAre
  <2> QED BY <2>2, <2>3
<1>2. Len(poffsets[r]) = ECC_P_COMP /\ ECC_P_COMP \in Nat
  BY RowsOfP, SizesAre
<1>3. PICK row, n : row = poffsets[r] /\ n = ECC_P_COMP
  OBVIOUS
<1>4. n \in Nat /\ Len(row) = n /\ \A c \in 1 .. n : SYNC_NUM_BYTES + row[c] \in 0 .. CD_MAX_SECTOR_DATA - 1
  BY <1>1, <1>2, <1>3
<1>5. /\ ecc_compute_bytes(s, row) = <<ecc_compute_bytes(s, row)[1], ecc_compute_bytes(s, row)[2]>>
      /\ ecc_compute_bytes(s, row)[1] \in Byte /\ ecc_compute_bytes(s, row)[2] \in Byte
  BY <1>4, BytesOfRow
<1> QED BY <1>3, <1>5, Zenon

LEMMA BytesOfRowOfQ ==
  ASSUME NEW s \in RawSectors, NEW r \in 0 .. ECC_Q_NUM_BYTES - 1
  PROVE  /\ ecc_compute_bytes(s, qoffsets[r])[1] \in Byte /\ ecc_compute_bytes(s, qoffsets[r])[2] \in Byte
         /\ ecc_compute_bytes(s, qoffsets[r])
              = <<ecc_compute_bytes(s, qoffsets[r])[1], ecc_compute_bytes(s, qoffsets[r])[2]>>
<1>1. ASSUME NEW c \in 1 .. ECC_Q_COMP
      PROVE  SYNC_NUM_BYTES + qoffsets[r][c] \in 0 .. CD_MAX_SECTOR_DATA - 1
  <2>1. qoffsets[r][c] \in Nat /\ SYNC_NUM_BYTES + qoffsets[r][c] < ECC_Q_OFFSET
    BY RowsOfQ
  <2>2. PICK x, q, size : x = qoffsets[r][c] /\ q = ECC_Q_OFFSET /\ size = CD_MAX_SECTOR_DATA
    OBVIOUS
  <2>3. size = q + 2 * ECC_Q_NUM_BYTES /\ q \in Nat /\ ECC_Q_NUM_BYTES \in Nat /\ size \in Nat /\ SYNC_NUM_BYTES \in Nat
    BY <2>2, SizesAre
  <2>4. x \in Nat /\ SYNC_NUM_BYTES + x < q
    BY <2>1, <2>2
  <2>5. SYNC_NUM_BYTES + x \in 0 .. size - 1
    BY <2>3, <2>4
  <2> QED BY <2>2, <2>5
<1>2. Len(qoffsets[r]) = ECC_Q_COMP /\ ECC_Q_COMP \in Nat
  BY RowsOfQ, SizesAre
<1>3. PICK row, n : row = qoffsets[r] /\ n = ECC_Q_COMP
  OBVIOUS
<1>4. n \in Nat /\ Len(row) = n /\ \A c \in 1 .. n : SYNC_NUM_BYTES + row[c] \in 0 .. CD_MAX_SECTOR_DATA - 1
  BY <1>1, <1>2, <1>3
<1>5. /\ ecc_compute_bytes(s, row) = <<ecc_compute_bytes(s, row)[1], ecc_compute_bytes(s, row)[2]>>
      /\ ecc_compute_bytes(s, row)[1] \in Byte /\ ecc_compute_bytes(s, row)[2] \in Byte
  BY <1>4, BytesOfRow
<1> QED BY <1>3, <1>5, Zenon

(* The places of the parities of the two kinds of rows.                     *)
LEMMA PlacesAre ==
  /\ \A r \in 0 .. ECC_P_NUM_BYTES - 1 :
       /\ ECC_P_OFFSET + r \in 0 .. CD_MAX_SECTOR_DATA - 1
       /\ ECC_P_OFFSET + ECC_P_NUM_BYTES + r \in 0 .. CD_MAX_SECTOR_DATA - 1
       /\ ECC_P_OFFSET + r < ECC_Q_OFFSET /\ ECC_P_OFFSET + ECC_P_NUM_BYTES + r < ECC_Q_OFFSET
  /\ \A r \in 0 .. ECC_Q_NUM_BYTES - 1 :
       /\ ECC_Q_OFFSET + r \in 0 .. CD_MAX_SECTOR_DATA - 1
       /\ ECC_Q_OFFSET + ECC_Q_NUM_BYTES + r \in 0 .. CD_MAX_SECTOR_DATA - 1
<1>1. PICK p : p = ECC_P_NUM_BYTES * ECC_P_COMP
  OBVIOUS
<1>2. /\ ECC_P_OFFSET \in Nat /\ ECC_P_NUM_BYTES \in Nat /\ ECC_Q_OFFSET = ECC_P_OFFSET + 2 * ECC_P_NUM_BYTES
      /\ ECC_Q_NUM_BYTES \in Nat /\ CD_MAX_SECTOR_DATA = ECC_Q_OFFSET + 2 * ECC_Q_NUM_BYTES
  BY SizesAre
<1> QED BY <1>2

(* Writing a group.                                                         *)
LEMMA GroupIsWritten ==
  ASSUME NEW t \in RawSectors, NEW g \in 1 .. ECC_P_NUM_BYTES \div 4, NEW row, row = 4 * (g - 1),
         NEW at, at = ECC_P_OFFSET + row, NEW n, n = ECC_P_NUM_BYTES, NEW u, u = SwarGroup(t, row)
  PROVE  /\ u \in RawSectors
         /\ \A k \in 0 .. 3 : /\ u[at + k] = ecc_compute_bytes(t, poffsets[row + k])[1]
                              /\ u[at + n + k] = ecc_compute_bytes(t, poffsets[row + k])[2]
         /\ \A i \in 0 .. CD_MAX_SECTOR_DATA - 1 : i \notin at .. at + 3 /\ i \notin at + n .. at + n + 3 => u[i] = t[i]
<1>1. /\ row \in Nat /\ row + 3 < ECC_P_NUM_BYTES
      /\ \A k \in 0 .. 3 : row + k \in 0 .. ECC_P_NUM_BYTES - 1 /\ (row + k < 4 <=> row = 0)
  BY GroupRows
<1>2. PICK v1, v2 :
        /\ SwarGroup(t, row) = WithWords(t, ECC_P_OFFSET + row, v1, v2)
        /\ \A k \in 0 .. 3 : /\ Lane(v1, k) = ecc_compute_bytes(t, poffsets[row + k])[1]
                             /\ Lane(v2, k) = ecc_compute_bytes(t, poffsets[row + k])[2]
  BY <1>1, GroupIsParity
<1>3. PICK size : size = CD_MAX_SECTOR_DATA
  OBVIOUS
<1>4. /\ at \in Nat /\ n \in Nat /\ size \in Nat /\ row + 3 < n /\ n > 4
      /\ ECC_P_OFFSET \in Nat /\ ECC_P_OFFSET + n + n <= size /\ at = ECC_P_OFFSET + row
  BY <1>1, <1>3, SizesAre
<1>5. DOMAIN t = 0 .. size - 1
  BY <1>3 DEF RawSectors
<1>6. u = [i \in 0 .. size - 1 |->
              IF i \in at .. at + 3 THEN Lane(v1, i - at)
              ELSE IF i \in at + n .. at + n + 3 THEN Lane(v2, i - n - at) ELSE t[i]]
  <2>1. (0 .. size - 1) \cup (at .. at + 3) \cup (at + n .. at + n + 3) = 0 .. size - 1
    BY <1>1, <1>4
  <2>2. u = [i \in DOMAIN t \cup (at .. at + 3) \cup (at + n .. at + n + 3) |->
              IF i \in at .. at + 3 THEN Lane(v1, i - at)
              ELSE IF i \in at + n .. at + n + 3 THEN Lane(v2, i - n - at) ELSE t[i]]
    BY <1>2 DEF WithWords
  <2> QED BY <1>5, <2>1, <2>2
<1>7. ASSUME NEW k \in 0 .. 3
      PROVE  /\ u[at + k] = ecc_compute_bytes(t, poffsets[row + k])[1]
             /\ u[at + n + k] = ecc_compute_bytes(t, poffsets[row + k])[2]
  <2>1. /\ at + k \in 0 .. size - 1 /\ at + k \in at .. at + 3 /\ (at + k) - at = k
        /\ at + n + k \in 0 .. size - 1 /\ at + n + k \notin at .. at + 3
        /\ at + n + k \in at + n .. at + n + 3 /\ (at + n + k) - n - at = k
    BY <1>1, <1>4
  <2>2. u[at + k] = Lane(v1, k) /\ u[at + n + k] = Lane(v2, k)
    BY <1>6, <2>1
  <2> QED BY <1>2, <2>2
<1>8. ASSUME NEW i \in 0 .. size - 1, i \notin at .. at + 3, i \notin at + n .. at + n + 3
      PROVE  u[i] = t[i]
  BY <1>6, <1>8
<1>9. u \in RawSectors
  <2>1. ASSUME NEW i \in 0 .. size - 1 PROVE u[i] \in Byte
    <3>1. t[i] \in Byte
      BY <1>3 DEF RawSectors
    <3>2. CASE i \in at .. at + 3
      <4>1. PICK k \in 0 .. 3 : i = at + k
        <5>1. i - at \in 0 .. 3 /\ i = at + (i - at)
          BY <3>2, <1>4
        <5> QED BY <5>1
      <4> QED BY <4>1, <1>1, <1>7, BytesOfRowOfP
    <3>3. CASE i \in at + n .. at + n + 3
      <4>1. PICK k \in 0 .. 3 : i = at + n + k
        <5>1. i - n - at \in 0 .. 3 /\ i = at + n + (i - n - at)
          BY <3>3, <1>4
        <5> QED BY <5>1
      <4> QED BY <4>1, <1>1, <1>7, BytesOfRowOfP
    <3> QED BY <3>1, <3>2, <3>3, <1>8
  <2>2. u = [i \in 0 .. size - 1 |-> u[i]]
    BY <1>6
  <2> QED BY <1>3, <2>1, <2>2 DEF RawSectors
<1> QED BY <1>3, <1>7, <1>8, <1>9

LEMMA GroupWrites ==
  ASSUME NEW s \in RawSectors, NEW t, NEW g \in 1 .. ECC_P_NUM_BYTES \div 4,
         HasRowsOfP(s, t, 4 * (g - 1))
  PROVE  HasRowsOfP(s, SwarGroup(t, 4 * (g - 1)), 4 * g)
<1>1. PICK row, m, at, n, u, size :
        /\ row = 4 * (g - 1) /\ m = 4 * g /\ at = ECC_P_OFFSET + row /\ n = ECC_P_NUM_BYTES
        /\ u = SwarGroup(t, row) /\ size = CD_MAX_SECTOR_DATA
  OBVIOUS
<1>2. /\ row \in Nat /\ row + 3 < ECC_P_NUM_BYTES /\ m = row + 4
      /\ \A k \in 0 .. 3 : row + k \in 0 .. ECC_P_NUM_BYTES - 1
  BY <1>1, GroupRows
<1>3. t \in RawSectors /\ (\A i \in 0 .. ECC_P_OFFSET - 1 : t[i] = s[i])
      /\ \A r \in 0 .. row - 1 : ParityAtRow(t, s, r)
  BY <1>1 DEF HasRowsOfP
<1>4. /\ at \in Nat /\ n \in Nat /\ size \in Nat /\ row + 3 < n /\ n > 4
      /\ ECC_P_OFFSET \in Nat /\ ECC_P_OFFSET + n + n <= size /\ at = ECC_P_OFFSET + row
  BY <1>1, <1>2, SizesAre
<1>5. /\ u \in RawSectors
      /\ \A k \in 0 .. 3 : /\ u[at + k] = ecc_compute_bytes(t, poffsets[row + k])[1]
                           /\ u[at + n + k] = ecc_compute_bytes(t, poffsets[row + k])[2]
      /\ \A i \in 0 .. size - 1 : i \notin at .. at + 3 /\ i \notin at + n .. at + n + 3 => u[i] = t[i]
  BY <1>1, <1>3, GroupIsWritten
<1>6. \A i \in 0 .. ECC_P_OFFSET - 1 : u[i] = s[i]
  <2>1. ASSUME NEW i \in 0 .. ECC_P_OFFSET - 1 PROVE u[i] = t[i]
    <3>1. i \in 0 .. size - 1 /\ i \notin at .. at + 3 /\ i \notin at + n .. at + n + 3
      BY <1>2, <1>4
    <3> QED BY <1>5, <3>1
  <2> QED BY <1>3, <2>1
<1>7. ASSUME NEW r \in 0 .. m - 1 PROVE ParityAtRow(u, s, r)
  <2>1. CASE r < row
    <3>1. /\ r \in 0 .. row - 1 /\ ECC_P_OFFSET + r \in 0 .. size - 1 /\ ECC_P_OFFSET + n + r \in 0 .. size - 1
          /\ ECC_P_OFFSET + r \notin at .. at + 3 /\ ECC_P_OFFSET + r \notin at + n .. at + n + 3
          /\ ECC_P_OFFSET + n + r \notin at .. at + 3 /\ ECC_P_OFFSET + n + r \notin at + n .. at + n + 3
      BY <1>2, <1>4, <2>1
    <3>2. u[ECC_P_OFFSET + r] = t[ECC_P_OFFSET + r] /\ u[ECC_P_OFFSET + n + r] = t[ECC_P_OFFSET + n + r]
      BY <1>5, <3>1
    <3> QED BY <1>1, <1>3, <3>1, <3>2 DEF ParityAtRow
  <2>2. CASE r >= row
    <3>1. PICK k \in 0 .. 3 : r = row + k
      <4>1. r - row \in 0 .. 3 /\ r = row + (r - row)
        BY <1>2, <2>2
      <4> QED BY <4>1
    <3>2. ECC_P_OFFSET + r = at + k /\ ECC_P_OFFSET + n + r = at + n + k
      BY <1>2, <1>4, <3>1
    <3>3. ecc_compute_bytes(t, poffsets[r]) = ecc_compute_bytes(s, poffsets[r])
      BY <1>2, <1>3, <3>1, RowsOfPAreBefore
    <3> QED BY <1>1, <1>5, <3>1, <3>2, <3>3 DEF ParityAtRow
  <2> QED BY <1>2, <2>1, <2>2
<1> QED BY <1>1, <1>5, <1>6, <1>7 DEF HasRowsOfP

(* Writing the parity of one row.                                           *)
LEMMA RowWrites ==
  ASSUME NEW t \in RawSectors, NEW row, NEW offset \in Nat, NEW n \in Nat, NEW at \in 0 .. n - 1,
         offset + n + n <= CD_MAX_SECTOR_DATA,
         ecc_compute_bytes(t, row)[1] \in Byte, ecc_compute_bytes(t, row)[2] \in Byte
  PROVE  /\ ScalarRow(t, row, offset, n, at) \in RawSectors
         /\ ScalarRow(t, row, offset, n, at)[offset + at] = ecc_compute_bytes(t, row)[1]
         /\ ScalarRow(t, row, offset, n, at)[offset + n + at] = ecc_compute_bytes(t, row)[2]
         /\ \A i \in 0 .. CD_MAX_SECTOR_DATA - 1 :
              i # offset + at /\ i # offset + n + at => ScalarRow(t, row, offset, n, at)[i] = t[i]
<1>1. PICK u, v, size : u = ScalarRow(t, row, offset, n, at) /\ v = ecc_compute_bytes(t, row) /\ size = CD_MAX_SECTOR_DATA
  OBVIOUS
<1>2. size \in Nat /\ offset + n + n <= size /\ DOMAIN t = 0 .. size - 1
  BY <1>1, SizesAre DEF RawSectors
<1>3. offset + at \in 0 .. size - 1 /\ offset + n + at \in 0 .. size - 1 /\ offset + at # offset + n + at
  BY <1>2
<1>4. (0 .. size - 1) \cup {offset + at, offset + n + at} = 0 .. size - 1
  BY <1>3
<1>5. u = [i \in DOMAIN t \cup {offset + at, offset + n + at} |->
             IF i = offset + at THEN v[1] ELSE IF i = offset + n + at THEN v[2] ELSE t[i]]
  BY <1>1 DEF ScalarRow
<1>6. u = [i \in 0 .. size - 1 |->
             IF i = offset + at THEN v[1] ELSE IF i = offset + n + at THEN v[2] ELSE t[i]]
  BY <1>2, <1>4, <1>5
<1>7. u[offset + at] = v[1] /\ u[offset + n + at] = v[2]
  BY <1>3, <1>6
<1>8. \A i \in 0 .. size - 1 : i # offset + at /\ i # offset + n + at => u[i] = t[i]
  BY <1>6
<1>9. u \in RawSectors
  <2>1. \A i \in 0 .. size - 1 : t[i] \in Byte
    BY <1>1 DEF RawSectors
  <2>2. \A i \in 0 .. size - 1 : u[i] \in Byte
    BY <1>1, <1>7, <1>8, <2>1
  <2>3. u = [i \in 0 .. size - 1 |-> u[i]]
    BY <1>6
  <2> QED BY <1>1, <2>2, <2>3 DEF RawSectors
<1> QED BY <1>1, <1>7, <1>8, <1>9

LEMMA RowOfPWrites ==
  ASSUME NEW s \in RawSectors, NEW t, NEW r \in 0 .. ECC_P_NUM_BYTES - 1, HasRowsOfP(s, t, r)
  PROVE  HasRowsOfP(s, ScalarRow(t, poffsets[r], ECC_P_OFFSET, ECC_P_NUM_BYTES, r), r + 1)
<1>1. PICK u : u = ScalarRow(t, poffsets[r], ECC_P_OFFSET, ECC_P_NUM_BYTES, r)
  OBVIOUS
<1>2. t \in RawSectors /\ (\A i \in 0 .. ECC_P_OFFSET - 1 : t[i] = s[i])
      /\ \A q \in 0 .. r - 1 : ParityAtRow(t, s, q)
  BY DEF HasRowsOfP
<1>3. PICK off, n, size : off = ECC_P_OFFSET /\ n = ECC_P_NUM_BYTES /\ size = CD_MAX_SECTOR_DATA
  OBVIOUS
<1>4. off \in Nat /\ n \in Nat /\ size \in Nat /\ off + n + n <= size /\ r \in 0 .. n - 1
  BY <1>3, SizesAre
<1>5. ecc_compute_bytes(t, poffsets[r])[1] \in Byte /\ ecc_compute_bytes(t, poffsets[r])[2] \in Byte
  BY <1>2, BytesOfRowOfP
<1>6. /\ u \in RawSectors
      /\ u[off + r] = ecc_compute_bytes(t, poffsets[r])[1] /\ u[off + n + r] = ecc_compute_bytes(t, poffsets[r])[2]
      /\ \A i \in 0 .. size - 1 : i # off + r /\ i # off + n + r => u[i] = t[i]
  BY <1>1, <1>2, <1>3, <1>4, <1>5, RowWrites
<1>7. ecc_compute_bytes(t, poffsets[r]) = ecc_compute_bytes(s, poffsets[r])
  BY <1>2, RowsOfPAreBefore
<1>8. \A i \in 0 .. off - 1 : u[i] = s[i]
  <2>1. ASSUME NEW i \in 0 .. off - 1 PROVE u[i] = t[i]
    <3>1. i \in 0 .. size - 1 /\ i # off + r /\ i # off + n + r
      BY <1>4
    <3> QED BY <1>6, <3>1
  <2> QED BY <1>2, <1>3, <2>1
<1>9. ASSUME NEW q \in 0 .. r PROVE ParityAtRow(u, s, q)
  <2>1. CASE q = r
    BY <1>3, <1>6, <1>7, <2>1 DEF ParityAtRow
  <2>2. CASE q # r
    <3>1. /\ q \in 0 .. r - 1 /\ off + q \in 0 .. size - 1 /\ off + n + q \in 0 .. size - 1
          /\ off + q # off + r /\ off + q # off + n + r /\ off + n + q # off + r /\ off + n + q # off + n + r
      BY <1>4, <2>2
    <3>2. u[off + q] = t[off + q] /\ u[off + n + q] = t[off + n + q]
      BY <1>6, <3>1
    <3> QED BY <1>2, <1>3, <3>1, <3>2 DEF ParityAtRow
  <2> QED BY <2>1, <2>2
<1>10. (r + 1) - 1 = r
  OBVIOUS
<1> QED BY <1>1, <1>3, <1>6, <1>8, <1>9, <1>10 DEF HasRowsOfP

(* The second kind of rows reads the first parity, and writes behind it.    *)
HasRowsOfQ(s, t, m) ==
  /\ t \in RawSectors
  /\ \A i \in 0 .. ECC_Q_OFFSET - 1 : t[i] = s[i]
  /\ \A r \in 0 .. m - 1 : /\ t[ECC_Q_OFFSET + r] = ecc_compute_bytes(s, qoffsets[r])[1]
                           /\ t[ECC_Q_OFFSET + ECC_Q_NUM_BYTES + r] = ecc_compute_bytes(s, qoffsets[r])[2]

LEMMA RowsOfQAreBefore ==
  ASSUME NEW s, NEW t, \A i \in 0 .. ECC_Q_OFFSET - 1 : t[i] = s[i],
         NEW r \in 0 .. ECC_Q_NUM_BYTES - 1
  PROVE  ecc_compute_bytes(t, qoffsets[r]) = ecc_compute_bytes(s, qoffsets[r])
<1>1. MODE_OFFSET \in 0 .. ECC_Q_OFFSET - 1
  BY SizesAre
<1>2. ASSUME NEW c \in 1 .. Len(qoffsets[r])
      PROVE  SYNC_NUM_BYTES + qoffsets[r][c] \in 0 .. ECC_Q_OFFSET - 1
  <2>1. PICK x, q : x = qoffsets[r][c] /\ q = ECC_Q_OFFSET
    OBVIOUS
  <2>2. x \in Nat /\ SYNC_NUM_BYTES + x < q
    BY <2>1, RowsOfQ
  <2>3. q \in Nat /\ SYNC_NUM_BYTES \in Nat
    BY <2>1, SizesAre
  <2>4. SYNC_NUM_BYTES + x \in 0 .. q - 1
    BY <2>2, <2>3
  <2> QED BY <2>1, <2>4
<1> QED BY <1>1, <1>2, SameRow

LEMMA RowOfQWrites ==
  ASSUME NEW s \in RawSectors, NEW t, NEW r \in 0 .. ECC_Q_NUM_BYTES - 1, HasRowsOfQ(s, t, r)
  PROVE  HasRowsOfQ(s, ScalarRow(t, qoffsets[r], ECC_Q_OFFSET, ECC_Q_NUM_BYTES, r), r + 1)
<1>1. PICK u : u = ScalarRow(t, qoffsets[r], ECC_Q_OFFSET, ECC_Q_NUM_BYTES, r)
  OBVIOUS
<1>2. t \in RawSectors /\ (\A i \in 0 .. ECC_Q_OFFSET - 1 : t[i] = s[i])
      /\ \A q \in 0 .. r - 1 : /\ t[ECC_Q_OFFSET + q] = ecc_compute_bytes(s, qoffsets[q])[1]
                               /\ t[ECC_Q_OFFSET + ECC_Q_NUM_BYTES + q] = ecc_compute_bytes(s, qoffsets[q])[2]
  BY DEF HasRowsOfQ
<1>3. PICK off, n, size : off = ECC_Q_OFFSET /\ n = ECC_Q_NUM_BYTES /\ size = CD_MAX_SECTOR_DATA
  OBVIOUS
<1>4. off \in Nat /\ n \in Nat /\ size \in Nat /\ off + n + n <= size /\ r \in 0 .. n - 1
  BY <1>3, SizesAre
<1>5. ecc_compute_bytes(t, qoffsets[r])[1] \in Byte /\ ecc_compute_bytes(t, qoffsets[r])[2] \in Byte
  BY <1>2, BytesOfRowOfQ
<1>6. /\ u \in RawSectors
      /\ u[off + r] = ecc_compute_bytes(t, qoffsets[r])[1] /\ u[off + n + r] = ecc_compute_bytes(t, qoffsets[r])[2]
      /\ \A i \in 0 .. size - 1 : i # off + r /\ i # off + n + r => u[i] = t[i]
  BY <1>1, <1>2, <1>3, <1>4, <1>5, RowWrites
<1>7. ecc_compute_bytes(t, qoffsets[r]) = ecc_compute_bytes(s, qoffsets[r])
  BY <1>2, RowsOfQAreBefore
<1>8. \A i \in 0 .. off - 1 : u[i] = s[i]
  <2>1. ASSUME NEW i \in 0 .. off - 1 PROVE u[i] = t[i]
    <3>1. i \in 0 .. size - 1 /\ i # off + r /\ i # off + n + r
      BY <1>4
    <3> QED BY <1>6, <3>1
  <2> QED BY <1>2, <1>3, <2>1
<1>9. ASSUME NEW q \in 0 .. r
      PROVE  /\ u[off + q] = ecc_compute_bytes(s, qoffsets[q])[1]
             /\ u[off + n + q] = ecc_compute_bytes(s, qoffsets[q])[2]
  <2>1. CASE q = r
    BY <1>3, <1>6, <1>7, <2>1
  <2>2. CASE q # r
    <3>1. /\ q \in 0 .. r - 1 /\ off + q \in 0 .. size - 1 /\ off + n + q \in 0 .. size - 1
          /\ off + q # off + r /\ off + q # off + n + r /\ off + n + q # off + r /\ off + n + q # off + n + r
      BY <1>4, <2>2
    <3>2. u[off + q] = t[off + q] /\ u[off + n + q] = t[off + n + q]
      BY <1>6, <3>1
    <3> QED BY <1>2, <1>3, <3>1, <3>2
  <2> QED BY <2>1, <2>2
<1>10. (r + 1) - 1 = r
  OBVIOUS
<1> QED BY <1>1, <1>3, <1>6, <1>8, <1>9, <1>10 DEF HasRowsOfQ

-----------------------------------------------------------------------------
(* All the rows, as the code writes them.                                   *)
GroupsDefine(t, f) ==
  f = [g \in 0 .. ECC_P_NUM_BYTES \div 4 |-> IF g = 0 THEN t ELSE SwarGroup(f[g - 1], 4 * (g - 1))]
OthersDefine(t, f) ==
  f = [r \in 0 .. ECC_P_NUM_BYTES % 4 |->
         IF r = 0 THEN t
         ELSE ScalarRow(f[r - 1], poffsets[4 * (ECC_P_NUM_BYTES \div 4) + r - 1], ECC_P_OFFSET, ECC_P_NUM_BYTES,
                        4 * (ECC_P_NUM_BYTES \div 4) + r - 1)]
RowsOfQDefine(t, f) ==
  f = [r \in 0 .. ECC_Q_NUM_BYTES |->
         IF r = 0 THEN t
         ELSE ScalarRow(f[r - 1], qoffsets[r - 1], ECC_Q_OFFSET, ECC_Q_NUM_BYTES, r - 1)]

LEMMA GroupsGenerate ==
  ASSUME NEW s \in RawSectors, NEW t, HasRowsOfP(s, t, 0)
  PROVE  HasRowsOfP(s, (CHOOSE f : GroupsDefine(t, f))[ECC_P_NUM_BYTES \div 4], 4 * (ECC_P_NUM_BYTES \div 4))
<1> DEFINE step == [p \in (1 .. ECC_P_NUM_BYTES \div 4) \X RawSectors |-> SwarGroup(p[2], 4 * (p[1] - 1))]
           IsIt(f) == GroupsDefine(t, f)
<1>0. ECC_P_NUM_BYTES \div 4 \in Nat /\ t \in RawSectors
  BY SizesAre DEF HasRowsOfP
<1>1. step \in StepFunctions(ECC_P_NUM_BYTES \div 4, RawSectors)
  <2>1. ASSUME NEW p \in (1 .. ECC_P_NUM_BYTES \div 4) \X RawSectors PROVE SwarGroup(p[2], 4 * (p[1] - 1)) \in RawSectors
    <3>1. PICK i, x : i = p[1] /\ x = p[2]
      OBVIOUS
    <3>2. i \in 1 .. ECC_P_NUM_BYTES \div 4 /\ x \in RawSectors
      BY <3>1
    <3> QED BY <3>1, <3>2, GroupIsWritten
  <2> QED BY <2>1 DEF StepFunctions
<1>2. \A i \in 1 .. ECC_P_NUM_BYTES \div 4 : \A x \in RawSectors : step[<<i, x>>] = SwarGroup(x, 4 * (i - 1))
  OBVIOUS
<1> HIDE DEF step
<1>3. PICK f : Runs(ECC_P_NUM_BYTES \div 4, RawSectors, t, step, f)
  BY <1>0, <1>1, RunExists
<1>4. \A i \in 1 .. ECC_P_NUM_BYTES \div 4 : i - 1 \in 0 .. ECC_P_NUM_BYTES \div 4
  BY <1>0
<1>5. f = [i \in 0 .. ECC_P_NUM_BYTES \div 4 |-> f[i]] /\ f[0] = t /\ \A i \in 1 .. ECC_P_NUM_BYTES \div 4 : f[i] = SwarGroup(f[i - 1], 4 * (i - 1))
  <2>1. f = [i \in 0 .. ECC_P_NUM_BYTES \div 4 |-> f[i]] /\ f[0] = t
    BY <1>3 DEF Runs
  <2>2. ASSUME NEW i \in 1 .. ECC_P_NUM_BYTES \div 4 PROVE f[i] = SwarGroup(f[i - 1], 4 * (i - 1))
    <3>1. f[i - 1] \in RawSectors /\ f[i] = step[<<i, f[i - 1]>>]
      BY <1>3, <1>4 DEF Runs
    <3> QED BY <1>2, <3>1
  <2> QED BY <2>1, <2>2
<1>6. IsIt(f)
  <2>1. ASSUME NEW i \in 0 .. ECC_P_NUM_BYTES \div 4 PROVE f[i] = IF i = 0 THEN t ELSE SwarGroup(f[i - 1], 4 * (i - 1))
    <3>1. i # 0 => i \in 1 .. ECC_P_NUM_BYTES \div 4
      BY <1>0
    <3> QED BY <1>5, <3>1
  <2> QED BY <1>5, <2>1 DEF GroupsDefine
<1> DEFINE g == CHOOSE f1 : GroupsDefine(t, f1)
<1>7. GroupsDefine(t, g)
  <2> HIDE DEF IsIt
  <2> QED BY <1>6 DEF IsIt
<1> HIDE DEF g
<1>8. g[0] = t /\ \A i \in 1 .. ECC_P_NUM_BYTES \div 4 : g[i] = SwarGroup(g[i - 1], 4 * (i - 1))
  <2>1. g[0] = t
    BY <1>0, <1>7 DEF GroupsDefine
  <2>2. ASSUME NEW i \in 1 .. ECC_P_NUM_BYTES \div 4 PROVE g[i] = SwarGroup(g[i - 1], 4 * (i - 1))
    <3>1. i \in 0 .. ECC_P_NUM_BYTES \div 4 /\ i # 0
      BY <1>0
    <3> QED BY <1>7, <3>1 DEF GroupsDefine
  <2> QED BY <2>1, <2>2
<1>9. \A i \in 0 .. ECC_P_NUM_BYTES \div 4 : HasRowsOfP(s, g[i], 4 * i)
  <2> DEFINE good == {i \in 0 .. ECC_P_NUM_BYTES \div 4 : HasRowsOfP(s, g[i], 4 * i)}
  <2>1. 0 \in good
    <3>1. 4 * 0 = 0 /\ 0 \in 0 .. ECC_P_NUM_BYTES \div 4
      BY <1>0
    <3> QED BY <1>8, <3>1
  <2>2. ASSUME NEW i \in 1 .. ECC_P_NUM_BYTES \div 4, i - 1 \in good PROVE i \in good
    <3>1. PICK x : x = g[i - 1] /\ HasRowsOfP(s, x, 4 * (i - 1))
      BY <2>2
    <3>2. g[i] = SwarGroup(x, 4 * (i - 1))
      BY <1>8, <3>1
    <3>3. HasRowsOfP(s, SwarGroup(x, 4 * (i - 1)), 4 * i)
      BY <3>1, GroupWrites
    <3>4. i \in 0 .. ECC_P_NUM_BYTES \div 4
      BY <1>0
    <3> QED BY <3>2, <3>3, <3>4
  <2>3. \A i \in 0 .. ECC_P_NUM_BYTES \div 4 : i \in good
    <3> HIDE DEF good
    <3> QED BY <1>0, <2>1, <2>2, AllAlong
  <2> QED BY <2>3
<1>10. ECC_P_NUM_BYTES \div 4 \in 0 .. ECC_P_NUM_BYTES \div 4
  BY <1>0
<1> QED BY <1>9, <1>10 DEF g

LEMMA OthersGenerate ==
  ASSUME NEW s \in RawSectors, NEW t, HasRowsOfP(s, t, 4 * (ECC_P_NUM_BYTES \div 4))
  PROVE  HasRowsOfP(s, (CHOOSE f : OthersDefine(t, f))[ECC_P_NUM_BYTES % 4], ECC_P_NUM_BYTES)
<1> DEFINE step == [p \in (1 .. ECC_P_NUM_BYTES % 4) \X RawSectors |-> ScalarRow(p[2], poffsets[4 * (ECC_P_NUM_BYTES \div 4) + p[1] - 1], ECC_P_OFFSET, ECC_P_NUM_BYTES, 4 * (ECC_P_NUM_BYTES \div 4) + p[1] - 1)]
           IsIt(f) == OthersDefine(t, f)
<1>0. ECC_P_NUM_BYTES % 4 \in Nat /\ t \in RawSectors
  BY SizesAre DEF HasRowsOfP
<1>1. step \in StepFunctions(ECC_P_NUM_BYTES % 4, RawSectors)
  <2>1. ASSUME NEW p \in (1 .. ECC_P_NUM_BYTES % 4) \X RawSectors PROVE ScalarRow(p[2], poffsets[4 * (ECC_P_NUM_BYTES \div 4) + p[1] - 1], ECC_P_OFFSET, ECC_P_NUM_BYTES, 4 * (ECC_P_NUM_BYTES \div 4) + p[1] - 1) \in RawSectors
    <3>1. PICK i, x : i = p[1] /\ x = p[2]
      OBVIOUS
    <3>2. i \in 1 .. ECC_P_NUM_BYTES % 4 /\ x \in RawSectors
      BY <3>1
    <3>3. PICK r : r = 4 * (ECC_P_NUM_BYTES \div 4) + i - 1
      OBVIOUS
    <3>4. r \in 0 .. ECC_P_NUM_BYTES - 1 /\ ECC_P_OFFSET \in Nat /\ ECC_P_NUM_BYTES \in Nat
          /\ ECC_P_OFFSET + ECC_P_NUM_BYTES + ECC_P_NUM_BYTES <= CD_MAX_SECTOR_DATA
      BY <3>2, <3>3, SizesAre
    <3>5. ecc_compute_bytes(x, poffsets[r])[1] \in Byte /\ ecc_compute_bytes(x, poffsets[r])[2] \in Byte
      BY <3>2, <3>4, BytesOfRowOfP
    <3>6. ScalarRow(x, poffsets[r], ECC_P_OFFSET, ECC_P_NUM_BYTES, r) \in RawSectors
      BY <3>2, <3>4, <3>5, RowWrites
    <3> QED BY <3>1, <3>3, <3>6
  <2> QED BY <2>1 DEF StepFunctions
<1>2. \A i \in 1 .. ECC_P_NUM_BYTES % 4 : \A x \in RawSectors : step[<<i, x>>] = ScalarRow(x, poffsets[4 * (ECC_P_NUM_BYTES \div 4) + i - 1], ECC_P_OFFSET, ECC_P_NUM_BYTES, 4 * (ECC_P_NUM_BYTES \div 4) + i - 1)
  OBVIOUS
<1> HIDE DEF step
<1>3. PICK f : Runs(ECC_P_NUM_BYTES % 4, RawSectors, t, step, f)
  BY <1>0, <1>1, RunExists
<1>4. \A i \in 1 .. ECC_P_NUM_BYTES % 4 : i - 1 \in 0 .. ECC_P_NUM_BYTES % 4
  BY <1>0
<1>5. f = [i \in 0 .. ECC_P_NUM_BYTES % 4 |-> f[i]] /\ f[0] = t /\ \A i \in 1 .. ECC_P_NUM_BYTES % 4 : f[i] = ScalarRow(f[i - 1], poffsets[4 * (ECC_P_NUM_BYTES \div 4) + i - 1], ECC_P_OFFSET, ECC_P_NUM_BYTES, 4 * (ECC_P_NUM_BYTES \div 4) + i - 1)
  <2>1. f = [i \in 0 .. ECC_P_NUM_BYTES % 4 |-> f[i]] /\ f[0] = t
    BY <1>3 DEF Runs
  <2>2. ASSUME NEW i \in 1 .. ECC_P_NUM_BYTES % 4 PROVE f[i] = ScalarRow(f[i - 1], poffsets[4 * (ECC_P_NUM_BYTES \div 4) + i - 1], ECC_P_OFFSET, ECC_P_NUM_BYTES, 4 * (ECC_P_NUM_BYTES \div 4) + i - 1)
    <3>1. f[i - 1] \in RawSectors /\ f[i] = step[<<i, f[i - 1]>>]
      BY <1>3, <1>4 DEF Runs
    <3> QED BY <1>2, <3>1
  <2> QED BY <2>1, <2>2
<1>6. IsIt(f)
  <2>1. ASSUME NEW i \in 0 .. ECC_P_NUM_BYTES % 4 PROVE f[i] = IF i = 0 THEN t ELSE ScalarRow(f[i - 1], poffsets[4 * (ECC_P_NUM_BYTES \div 4) + i - 1], ECC_P_OFFSET, ECC_P_NUM_BYTES, 4 * (ECC_P_NUM_BYTES \div 4) + i - 1)
    <3>1. i # 0 => i \in 1 .. ECC_P_NUM_BYTES % 4
      BY <1>0
    <3> QED BY <1>5, <3>1
  <2> QED BY <1>5, <2>1 DEF OthersDefine
<1> DEFINE g == CHOOSE f1 : OthersDefine(t, f1)
<1>7. OthersDefine(t, g)
  <2> HIDE DEF IsIt
  <2> QED BY <1>6 DEF IsIt
<1> HIDE DEF g
<1>8. g[0] = t /\ \A i \in 1 .. ECC_P_NUM_BYTES % 4 : g[i] = ScalarRow(g[i - 1], poffsets[4 * (ECC_P_NUM_BYTES \div 4) + i - 1], ECC_P_OFFSET, ECC_P_NUM_BYTES, 4 * (ECC_P_NUM_BYTES \div 4) + i - 1)
  <2>1. g[0] = t
    BY <1>0, <1>7 DEF OthersDefine
  <2>2. ASSUME NEW i \in 1 .. ECC_P_NUM_BYTES % 4 PROVE g[i] = ScalarRow(g[i - 1], poffsets[4 * (ECC_P_NUM_BYTES \div 4) + i - 1], ECC_P_OFFSET, ECC_P_NUM_BYTES, 4 * (ECC_P_NUM_BYTES \div 4) + i - 1)
    <3>1. i \in 0 .. ECC_P_NUM_BYTES % 4 /\ i # 0
      BY <1>0
    <3> QED BY <1>7, <3>1 DEF OthersDefine
  <2> QED BY <2>1, <2>2
<1>9. \A i \in 0 .. ECC_P_NUM_BYTES % 4 : HasRowsOfP(s, g[i], 4 * (ECC_P_NUM_BYTES \div 4) + i)
  <2> DEFINE good == {i \in 0 .. ECC_P_NUM_BYTES % 4 : HasRowsOfP(s, g[i], 4 * (ECC_P_NUM_BYTES \div 4) + i)}
  <2>1. 0 \in good
    <3>1. 4 * (ECC_P_NUM_BYTES \div 4) + 0 = 4 * (ECC_P_NUM_BYTES \div 4) /\ 0 \in 0 .. ECC_P_NUM_BYTES % 4
      BY <1>0, SizesAre
    <3> QED BY <1>8, <3>1
  <2>2. ASSUME NEW i \in 1 .. ECC_P_NUM_BYTES % 4, i - 1 \in good PROVE i \in good
    <3>1. PICK x, r : x = g[i - 1] /\ r = 4 * (ECC_P_NUM_BYTES \div 4) + i - 1
      OBVIOUS
    <3>2. r = 4 * (ECC_P_NUM_BYTES \div 4) + (i - 1) /\ r + 1 = 4 * (ECC_P_NUM_BYTES \div 4) + i /\ r \in 0 .. ECC_P_NUM_BYTES - 1
      BY <3>1, SizesAre
    <3>3. HasRowsOfP(s, x, r)
      BY <2>2, <3>1, <3>2
    <3>4. g[i] = ScalarRow(x, poffsets[r], ECC_P_OFFSET, ECC_P_NUM_BYTES, r)
      BY <1>8, <3>1
    <3>5. HasRowsOfP(s, g[i], r + 1)
      BY <3>2, <3>3, <3>4, RowOfPWrites
    <3>6. i \in 0 .. ECC_P_NUM_BYTES % 4
      BY <1>0
    <3> QED BY <3>2, <3>5, <3>6
  <2>3. \A i \in 0 .. ECC_P_NUM_BYTES % 4 : i \in good
    <3> HIDE DEF good
    <3> QED BY <1>0, <2>1, <2>2, AllAlong
  <2> QED BY <2>3
<1>10. ECC_P_NUM_BYTES % 4 \in 0 .. ECC_P_NUM_BYTES % 4
  BY <1>0
<1>11. 4 * (ECC_P_NUM_BYTES \div 4) + (ECC_P_NUM_BYTES % 4) = ECC_P_NUM_BYTES
  BY SizesAre
<1> QED BY <1>9, <1>10, <1>11 DEF g

LEMMA RowsOfQGenerate ==
  ASSUME NEW s \in RawSectors, NEW t, HasRowsOfQ(s, t, 0)
  PROVE  HasRowsOfQ(s, (CHOOSE f : RowsOfQDefine(t, f))[ECC_Q_NUM_BYTES], ECC_Q_NUM_BYTES)
<1> DEFINE step == [p \in (1 .. ECC_Q_NUM_BYTES) \X RawSectors |-> ScalarRow(p[2], qoffsets[p[1] - 1], ECC_Q_OFFSET, ECC_Q_NUM_BYTES, p[1] - 1)]
           IsIt(f) == RowsOfQDefine(t, f)
<1>0. ECC_Q_NUM_BYTES \in Nat /\ t \in RawSectors
  BY SizesAre DEF HasRowsOfQ
<1>1. step \in StepFunctions(ECC_Q_NUM_BYTES, RawSectors)
  <2>1. ASSUME NEW p \in (1 .. ECC_Q_NUM_BYTES) \X RawSectors PROVE ScalarRow(p[2], qoffsets[p[1] - 1], ECC_Q_OFFSET, ECC_Q_NUM_BYTES, p[1] - 1) \in RawSectors
    <3>1. PICK i, x : i = p[1] /\ x = p[2]
      OBVIOUS
    <3>2. i \in 1 .. ECC_Q_NUM_BYTES /\ x \in RawSectors
      BY <3>1
    <3>3. PICK r : r = i - 1
      OBVIOUS
    <3>4. r \in 0 .. ECC_Q_NUM_BYTES - 1 /\ ECC_Q_OFFSET \in Nat /\ ECC_Q_NUM_BYTES \in Nat
          /\ ECC_Q_OFFSET + ECC_Q_NUM_BYTES + ECC_Q_NUM_BYTES <= CD_MAX_SECTOR_DATA
      BY <3>2, <3>3, SizesAre
    <3>5. ecc_compute_bytes(x, qoffsets[r])[1] \in Byte /\ ecc_compute_bytes(x, qoffsets[r])[2] \in Byte
      BY <3>2, <3>4, BytesOfRowOfQ
    <3>6. ScalarRow(x, qoffsets[r], ECC_Q_OFFSET, ECC_Q_NUM_BYTES, r) \in RawSectors
      BY <3>2, <3>4, <3>5, RowWrites
    <3> QED BY <3>1, <3>3, <3>6
  <2> QED BY <2>1 DEF StepFunctions
<1>2. \A i \in 1 .. ECC_Q_NUM_BYTES : \A x \in RawSectors : step[<<i, x>>] = ScalarRow(x, qoffsets[i - 1], ECC_Q_OFFSET, ECC_Q_NUM_BYTES, i - 1)
  OBVIOUS
<1> HIDE DEF step
<1>3. PICK f : Runs(ECC_Q_NUM_BYTES, RawSectors, t, step, f)
  BY <1>0, <1>1, RunExists
<1>4. \A i \in 1 .. ECC_Q_NUM_BYTES : i - 1 \in 0 .. ECC_Q_NUM_BYTES
  BY <1>0
<1>5. f = [i \in 0 .. ECC_Q_NUM_BYTES |-> f[i]] /\ f[0] = t /\ \A i \in 1 .. ECC_Q_NUM_BYTES : f[i] = ScalarRow(f[i - 1], qoffsets[i - 1], ECC_Q_OFFSET, ECC_Q_NUM_BYTES, i - 1)
  <2>1. f = [i \in 0 .. ECC_Q_NUM_BYTES |-> f[i]] /\ f[0] = t
    BY <1>3 DEF Runs
  <2>2. ASSUME NEW i \in 1 .. ECC_Q_NUM_BYTES PROVE f[i] = ScalarRow(f[i - 1], qoffsets[i - 1], ECC_Q_OFFSET, ECC_Q_NUM_BYTES, i - 1)
    <3>1. f[i - 1] \in RawSectors /\ f[i] = step[<<i, f[i - 1]>>]
      BY <1>3, <1>4 DEF Runs
    <3> QED BY <1>2, <3>1
  <2> QED BY <2>1, <2>2
<1>6. IsIt(f)
  <2>1. ASSUME NEW i \in 0 .. ECC_Q_NUM_BYTES PROVE f[i] = IF i = 0 THEN t ELSE ScalarRow(f[i - 1], qoffsets[i - 1], ECC_Q_OFFSET, ECC_Q_NUM_BYTES, i - 1)
    <3>1. i # 0 => i \in 1 .. ECC_Q_NUM_BYTES
      BY <1>0
    <3> QED BY <1>5, <3>1
  <2> QED BY <1>5, <2>1 DEF RowsOfQDefine
<1> DEFINE g == CHOOSE f1 : RowsOfQDefine(t, f1)
<1>7. RowsOfQDefine(t, g)
  <2> HIDE DEF IsIt
  <2> QED BY <1>6 DEF IsIt
<1> HIDE DEF g
<1>8. g[0] = t /\ \A i \in 1 .. ECC_Q_NUM_BYTES : g[i] = ScalarRow(g[i - 1], qoffsets[i - 1], ECC_Q_OFFSET, ECC_Q_NUM_BYTES, i - 1)
  <2>1. g[0] = t
    BY <1>0, <1>7 DEF RowsOfQDefine
  <2>2. ASSUME NEW i \in 1 .. ECC_Q_NUM_BYTES PROVE g[i] = ScalarRow(g[i - 1], qoffsets[i - 1], ECC_Q_OFFSET, ECC_Q_NUM_BYTES, i - 1)
    <3>1. i \in 0 .. ECC_Q_NUM_BYTES /\ i # 0
      BY <1>0
    <3> QED BY <1>7, <3>1 DEF RowsOfQDefine
  <2> QED BY <2>1, <2>2
<1>9. \A i \in 0 .. ECC_Q_NUM_BYTES : HasRowsOfQ(s, g[i], i)
  <2> DEFINE good == {i \in 0 .. ECC_Q_NUM_BYTES : HasRowsOfQ(s, g[i], i)}
  <2>1. 0 \in good
    <3>1. 0 \in 0 .. ECC_Q_NUM_BYTES
      BY <1>0, SizesAre
    <3> QED BY <1>8, <3>1
  <2>2. ASSUME NEW i \in 1 .. ECC_Q_NUM_BYTES, i - 1 \in good PROVE i \in good
    <3>1. PICK x, r : x = g[i - 1] /\ r = i - 1
      OBVIOUS
    <3>2. r + 1 = i /\ r \in 0 .. ECC_Q_NUM_BYTES - 1
      BY <3>1, SizesAre
    <3>3. HasRowsOfQ(s, x, r)
      BY <2>2, <3>1, <3>2
    <3>4. g[i] = ScalarRow(x, qoffsets[r], ECC_Q_OFFSET, ECC_Q_NUM_BYTES, r)
      BY <1>8, <3>1
    <3>5. HasRowsOfQ(s, g[i], r + 1)
      BY <3>2, <3>3, <3>4, RowOfQWrites
    <3>6. i \in 0 .. ECC_Q_NUM_BYTES
      BY <1>0
    <3> QED BY <3>2, <3>5, <3>6
  <2>3. \A i \in 0 .. ECC_Q_NUM_BYTES : i \in good
    <3> HIDE DEF good
    <3> QED BY <1>0, <2>1, <2>2, AllAlong
  <2> QED BY <2>3
<1>10. ECC_Q_NUM_BYTES \in 0 .. ECC_Q_NUM_BYTES
  BY <1>0
<1> QED BY <1>9, <1>10 DEF g

-----------------------------------------------------------------------------
(* A generated sector has the parity ecc_verify looks for, and has kept     *)
(* everything before the parity.                                            *)
LEMMA GeneratedVerifies ==
  ASSUME NEW s \in RawSectors
  PROVE  /\ ecc_generate(s) \in RawSectors
         /\ \A i \in 0 .. ECC_P_OFFSET - 1 : ecc_generate(s)[i] = s[i]
         /\ ecc_verify(ecc_generate(s))
<1>1. PICK a : a = (CHOOSE f : GroupsDefine(s, f))[ECC_P_NUM_BYTES \div 4]
  OBVIOUS
<1>2. PICK b : b = (CHOOSE f : OthersDefine(a, f))[ECC_P_NUM_BYTES % 4]
  OBVIOUS
<1>3. PICK c : c = (CHOOSE f : RowsOfQDefine(b, f))[ECC_Q_NUM_BYTES]
  OBVIOUS
<1>4. b = ecc_p_generate_swar(s)
  BY <1>1, <1>2 DEF ecc_p_generate_swar, GroupsDefine, OthersDefine
<1>5. c = ecc_generate(s)
  BY <1>3, <1>4 DEF ecc_generate, RowsOfQDefine
<1>6. HasRowsOfP(s, s, 0)
  <2>1. \A r \in 0 .. 0 - 1 : FALSE
    OBVIOUS
  <2> QED BY <2>1 DEF HasRowsOfP
<1>7. HasRowsOfP(s, a, 4 * (ECC_P_NUM_BYTES \div 4))
  BY <1>1, <1>6, GroupsGenerate
<1>8. HasRowsOfP(s, b, ECC_P_NUM_BYTES)
  BY <1>2, <1>7, OthersGenerate
<1>9. b \in RawSectors
  BY <1>8 DEF HasRowsOfP
<1>10. HasRowsOfQ(b, b, 0)
  <2>1. \A r \in 0 .. 0 - 1 : FALSE
    OBVIOUS
  <2> QED BY <1>9, <2>1 DEF HasRowsOfQ
<1>11. HasRowsOfQ(b, c, ECC_Q_NUM_BYTES)
  BY <1>3, <1>9, <1>10, RowsOfQGenerate
<1>12. /\ c \in RawSectors /\ \A i \in 0 .. ECC_Q_OFFSET - 1 : c[i] = b[i]
  BY <1>11 DEF HasRowsOfQ
<1>13. \A i \in 0 .. ECC_P_OFFSET - 1 : i \in 0 .. ECC_Q_OFFSET - 1
  BY SizesAre
<1>14. \A i \in 0 .. ECC_P_OFFSET - 1 : c[i] = b[i] /\ c[i] = s[i]
  BY <1>8, <1>12, <1>13 DEF HasRowsOfP
<1>15. ASSUME NEW r \in 0 .. ECC_P_NUM_BYTES - 1
       PROVE  ParityAt(c, ECC_P_OFFSET, ECC_P_NUM_BYTES, r) = ecc_compute_bytes(c, poffsets[r])
  <2>1. ecc_compute_bytes(c, poffsets[r]) = ecc_compute_bytes(s, poffsets[r])
    BY <1>14, RowsOfPAreBefore
  <2>2. /\ b[ECC_P_OFFSET + r] = ecc_compute_bytes(s, poffsets[r])[1]
        /\ b[ECC_P_OFFSET + ECC_P_NUM_BYTES + r] = ecc_compute_bytes(s, poffsets[r])[2]
    BY <1>8 DEF HasRowsOfP, ParityAtRow
  <2>3. PICK off, n, q : off = ECC_P_OFFSET /\ n = ECC_P_NUM_BYTES /\ q = ECC_Q_OFFSET
    OBVIOUS
  <2>4. off + r \in 0 .. q - 1 /\ off + n + r \in 0 .. q - 1
    BY <2>3, SizesAre
  <2>5. c[off + r] = b[off + r] /\ c[off + n + r] = b[off + n + r]
    BY <1>12, <2>3, <2>4
  <2>6. ecc_compute_bytes(s, poffsets[r]) = <<c[off + r], c[off + n + r]>>
    BY <2>2, <2>3, <2>5, BytesOfRowOfP
  <2> QED BY <2>1, <2>3, <2>6 DEF ParityAt
<1>16. ASSUME NEW r \in 0 .. ECC_Q_NUM_BYTES - 1
       PROVE  ParityAt(c, ECC_Q_OFFSET, ECC_Q_NUM_BYTES, r) = ecc_compute_bytes(c, qoffsets[r])
  <2>1. ecc_compute_bytes(c, qoffsets[r]) = ecc_compute_bytes(b, qoffsets[r])
    BY <1>12, RowsOfQAreBefore
  <2>2. /\ c[ECC_Q_OFFSET + r] = ecc_compute_bytes(b, qoffsets[r])[1]
        /\ c[ECC_Q_OFFSET + ECC_Q_NUM_BYTES + r] = ecc_compute_bytes(b, qoffsets[r])[2]
    BY <1>11 DEF HasRowsOfQ
  <2>3. ecc_compute_bytes(b, qoffsets[r])
          = <<c[ECC_Q_OFFSET + r], c[ECC_Q_OFFSET + ECC_Q_NUM_BYTES + r]>>
    BY <1>9, <2>2, BytesOfRowOfQ
  <2> QED BY <2>1, <2>3 DEF ParityAt
<1>17. DOMAIN poffsets = 0 .. ECC_P_NUM_BYTES - 1 /\ DOMAIN qoffsets = 0 .. ECC_Q_NUM_BYTES - 1
  BY DEF poffsets, qoffsets
<1>18. ecc_verify(c)
  BY <1>15, <1>16, <1>17 DEF ecc_verify
<1> QED BY <1>5, <1>12, <1>14, <1>18

-----------------------------------------------------------------------------
(* Buffers.                                                                 *)
LEMMA Quotients ==
  ASSUME NEW f \in Nat, NEW d \in Nat, NEW i \in 0 .. d - 1
  PROVE  (f * d + i) \div d = f /\ (f * d + i) % d = i
<1>1. d > 0 /\ f * d \in Nat
  OBVIOUS
<1>2. (f * d + i) \div d = f
  BY <1>1
<1>3. (f * d + i) % d = i
  BY <1>1
<1> QED BY <1>2, <1>3

Buffer(buf, size) == DOMAIN buf = 0 .. size - 1

Fits(to, size, at, first, n) ==
  /\ size \in Nat /\ at \in Nat /\ n \in Nat /\ first \in Nat
  /\ Buffer(to, size) /\ at + n <= size
IsCopied(u, to, size, at, from, first, n) ==
  /\ Buffer(u, size)
  /\ \A i \in 0 .. n - 1 : u[at + i] = from[first + i]
  /\ \A i \in 0 .. size - 1 : i < at \/ i >= at + n => u[i] = to[i]

LEMMA SpanIsCopied ==
  ASSUME NEW to, NEW from, NEW size, NEW at, NEW first, NEW n, Fits(to, size, at, first, n)
  PROVE  IsCopied(CopiedSpan(to, at, from, first, n), to, size, at, from, first, n)
<1> USE DEF Fits
<1>1. PICK u : u = CopiedSpan(to, at, from, first, n)
  OBVIOUS
<1>2. (0 .. size - 1) \cup (at .. at + n - 1) = 0 .. size - 1
  OBVIOUS
<1>3. u = [i \in 0 .. size - 1 |-> IF i \in at .. at + n - 1 THEN from[first + i - at] ELSE to[i]]
  BY <1>1, <1>2 DEF CopiedSpan, Buffer
<1>4. ASSUME NEW i \in 0 .. n - 1 PROVE u[at + i] = from[first + i]
  <2>1. at + i \in 0 .. size - 1 /\ at + i \in at .. at + n - 1 /\ first + (at + i) - at = first + i
    OBVIOUS
  <2> QED BY <1>3, <2>1
<1>5. ASSUME NEW i \in 0 .. size - 1, i < at \/ i >= at + n PROVE u[i] = to[i]
  <2>1. i \notin at .. at + n - 1
    BY <1>5
  <2> QED BY <1>3, <2>1
<1>6. Buffer(u, size)
  BY <1>3 DEF Buffer
<1> QED BY <1>1, <1>4, <1>5, <1>6 DEF IsCopied

LEMMA Layout ==
  ASSUME NEW n \in Nat, NEW d \in Nat, NEW f \in 0 .. n - 1
  PROVE  f * d \in Nat /\ n * d \in Nat /\ f * d + d <= n * d
<1>1. f \in Nat /\ f < n
  OBVIOUS
<1> QED BY <1>1, MoreIsMore

LEMMA FrameSizesAre ==
  /\ CD_MAX_SECTOR_DATA \in Nat /\ CD_MAX_SECTOR_DATA > 0
  /\ CD_MAX_SUBCODE_DATA \in Nat /\ CD_MAX_SUBCODE_DATA > 0
  /\ CD_FRAME_SIZE = CD_MAX_SECTOR_DATA + CD_MAX_SUBCODE_DATA /\ CD_FRAME_SIZE \in Nat
  /\ \A f \in Nat : f * CD_FRAME_SIZE = f * CD_MAX_SECTOR_DATA + f * CD_MAX_SUBCODE_DATA
<1>1. PICK d, b : d = CD_MAX_SECTOR_DATA /\ b = CD_MAX_SUBCODE_DATA
  OBVIOUS
<1>2. d \in Nat /\ d > 0 /\ b \in Nat /\ b > 0
  BY <1>1, SizesAre, CdHunkAssumption
<1>3. CD_FRAME_SIZE = d + b
  BY <1>1 DEF CD_FRAME_SIZE
<1>4. \A f \in Nat : f * (d + b) = f * d + f * b
  BY <1>2
<1> QED BY <1>1, <1>2, <1>3, <1>4

-----------------------------------------------------------------------------
(* What the invariant says of buffers, as a relation of the buffer, the     *)
(* hunk and its number.                                                     *)
SectorByteOf(h, k, f, i) ==
  IF i = MODE_OFFSET THEN Bits(h.mode) ELSE Bits((101 * k + 53 * f + 7 * i + 3) % 256)
SubcodeByteOf(k, f, i) == Bits((29 * k + 31 * f + 5 * i + 200) % 256)

SectorsOf(buf, n, missing, h, k) ==
  \A f \in 0 .. n - 1 : f \notin missing =>
    \A i \in 0 .. CD_MAX_SECTOR_DATA - 1 : buf[f * CD_MAX_SECTOR_DATA + i] = SectorByteOf(h, k, f, i)
SubcodeOf(buf, at, n, k) ==
  \A f \in 0 .. n - 1 : \A i \in 0 .. CD_MAX_SUBCODE_DATA - 1 :
    buf[at + f * CD_MAX_SUBCODE_DATA + i] = SubcodeByteOf(k, f, i)

WholeIn(buf, f, h, k) ==
  \A o \in 0 .. CD_MAX_SECTOR_DATA - 1 :
    LET byte == buf[f * CD_FRAME_SIZE + o]
    IN IF f \notin h.flagged THEN byte = SectorByteOf(h, k, f, o)
       ELSE IF o < SYNC_NUM_BYTES THEN byte = s_cd_sync_header(o)
       ELSE o >= ECC_P_OFFSET \/ byte = SectorByteOf(h, k, f, o)
SubcodeThere(buf, f, k) ==
  \A o \in 0 .. CD_MAX_SUBCODE_DATA - 1 :
    buf[f * CD_FRAME_SIZE + CD_MAX_SECTOR_DATA + o] = SubcodeByteOf(k, f, o)
SectorThere(buf, f, h, k) ==
  \A o \in 0 .. CD_MAX_SECTOR_DATA - 1 : buf[f * CD_FRAME_SIZE + o] = SectorByteOf(h, k, f, o)
SectorAt(buf, f) == [i \in 0 .. CD_MAX_SECTOR_DATA - 1 |-> buf[f * CD_FRAME_SIZE + i]]
Assembled(buf, f, missing, h, k) ==
  /\ SubcodeThere(buf, f, k) /\ (f \in missing \/ WholeIn(buf, f, h, k))
  /\ f \in h.flagged => SectorAt(buf, f) \in RawSectors /\ ecc_verify(SectorAt(buf, f))

ToRestore(buf, f) ==
  [i \in 0 .. CD_MAX_SECTOR_DATA - 1 |->
     IF i < SYNC_NUM_BYTES THEN s_cd_sync_header(i) ELSE buf[f * CD_FRAME_SIZE + i]]
RestoredIn(buf, f, h) ==
  IF f \in h.flagged
  THEN CopiedSpan(buf, f * CD_FRAME_SIZE, ecc_generate(ToRestore(buf, f)), 0, CD_MAX_SECTOR_DATA)
  ELSE buf

LEMMA BytesAreBytes ==
  ASSUME NEW h, NEW k, NEW f, NEW i
  PROVE  SectorByteOf(h, k, f, i) \in Byte /\ s_cd_sync_header(i) \in Byte
<1>1. \A x : Bits(x) \in Byte
  BY DEF Bits, Byte
<1>2. s_cd_sync_header(i) \in Byte
  BY DEF s_cd_sync_header, Byte
<1>3. SectorByteOf(h, k, f, i) \in Byte
  <2> HIDE DEF Byte
  <2> QED BY <1>1, Zenon DEF SectorByteOf
<1> QED BY <1>2, <1>3

(* Frame f of res is assembled, and otherwise res is buf.                   *)
IsAssembled(res, buf, n, f, missing, h, k) ==
  /\ Buffer(res, n * CD_FRAME_SIZE)
  /\ Assembled(res, f, missing, h, k)
  /\ \A i \in 0 .. n * CD_FRAME_SIZE - 1 :
       i < f * CD_FRAME_SIZE \/ i >= f * CD_FRAME_SIZE + CD_FRAME_SIZE => res[i] = buf[i]
\* The sector of frame f is in place.
HasSector(buf, n, f, missing, h, k) ==
  /\ Buffer(buf, n * CD_FRAME_SIZE)
  /\ f \notin missing \/ f \notin h.flagged
  /\ f \notin missing => SectorThere(buf, f, h, k)

(* Putting back what was left out: the frame is whole and verifies, and     *)
(* nothing else is touched.                                                 *)
LEMMA FrameIsRestored ==
  ASSUME NEW buf, NEW n \in Nat, NEW f \in 0 .. n - 1, NEW missing, NEW h, NEW k,
         HasSector(buf, n, f, missing, h, k), SubcodeThere(buf, f, k)
  PROVE  IsAssembled(RestoredIn(buf, f, h), buf, n, f, missing, h, k)
<1> USE DEF HasSector, IsAssembled
<1>1. PICK d, b, size, at : /\ d = CD_MAX_SECTOR_DATA /\ b = CD_MAX_SUBCODE_DATA
                            /\ size = n * CD_FRAME_SIZE /\ at = f * CD_FRAME_SIZE
  OBVIOUS
<1>2. d \in Nat /\ d > 0 /\ b \in Nat /\ b > 0 /\ CD_FRAME_SIZE = d + b
  BY <1>1, FrameSizesAre
<1>3. at \in Nat /\ size \in Nat /\ at + d + b <= size
  <2>1. at \in Nat /\ size \in Nat /\ at + CD_FRAME_SIZE <= size
    BY <1>1, Layout, FrameSizesAre
  <2> QED BY <1>2, <2>1
<1>4. CASE f \notin h.flagged
  <2>1. RestoredIn(buf, f, h) = buf
    BY <1>4 DEF RestoredIn
  <2>2. f \in missing \/ WholeIn(buf, f, h, k)
    BY <1>4 DEF WholeIn, SectorThere
  <2> QED BY <1>4, <2>1, <2>2 DEF Assembled
<1>5. CASE f \in h.flagged
  <2>1. PICK s : s = ToRestore(buf, f)
    OBVIOUS
  <2>2. /\ \A i \in 0 .. d - 1 : s[i] = IF i < SYNC_NUM_BYTES THEN s_cd_sync_header(i) ELSE SectorByteOf(h, k, f, i)
        /\ s = [i \in 0 .. d - 1 |-> s[i]]
    <3>1. SectorThere(buf, f, h, k)
      BY <1>5
    <3> QED BY <1>1, <2>1, <3>1 DEF ToRestore, SectorThere
  <2>3. s \in RawSectors
    <3>1. \A i \in 0 .. d - 1 : s[i] \in Byte
      BY <2>2, BytesAreBytes
    <3> QED BY <1>1, <2>2, <3>1 DEF RawSectors
  <2>4. PICK g : g = ecc_generate(s)
    OBVIOUS
  <2>5. g \in RawSectors /\ (\A i \in 0 .. ECC_P_OFFSET - 1 : g[i] = s[i]) /\ ecc_verify(g)
    BY <2>3, <2>4, GeneratedVerifies
  <2>6. PICK r : r = RestoredIn(buf, f, h)
    OBVIOUS
  <2>7. r = CopiedSpan(buf, at, g, 0, d)
    BY <1>1, <1>5, <2>1, <2>4, <2>6 DEF RestoredIn
  <2>8. /\ Buffer(r, size) /\ \A i \in 0 .. d - 1 : r[at + i] = g[0 + i]
        /\ \A i \in 0 .. size - 1 : i < at \/ i >= at + d => r[i] = buf[i]
    <3>1. at + d <= size /\ 0 \in Nat /\ Buffer(buf, size)
      BY <1>1, <1>2, <1>3
    <3>2. Fits(buf, size, at, 0, d)
      BY <1>2, <1>3, <3>1 DEF Fits
    <3>3. IsCopied(r, buf, size, at, g, 0, d)
      BY <2>7, <3>2, SpanIsCopied
    <3> QED BY <3>3 DEF IsCopied
  <2>9. \A i \in 0 .. d - 1 : r[at + i] = g[i]
    BY <2>8
  <2>10. SectorAt(r, f) = g
    <3>1. g = [i \in 0 .. d - 1 |-> g[i]]
      BY <1>1, <2>5 DEF RawSectors
    <3>2. SectorAt(r, f) = [i \in 0 .. d - 1 |-> r[at + i]]
      BY <1>1 DEF SectorAt
    <3>3. [i \in 0 .. d - 1 |-> r[at + i]] = [i \in 0 .. d - 1 |-> g[i]]
      BY <2>9
    <3> QED BY <3>1, <3>2, <3>3
  <2>11. SubcodeThere(r, f, k)
    <3>1. ASSUME NEW o \in 0 .. b - 1 PROVE r[at + d + o] = buf[at + d + o]
      <4>1. at + d + o \in 0 .. size - 1 /\ at + d + o >= at + d
        BY <1>2, <1>3
      <4> QED BY <2>8, <4>1
    <3> QED BY <1>1, <3>1 DEF SubcodeThere
  <2>12. WholeIn(r, f, h, k)
    <3>1. ASSUME NEW o \in 0 .. d - 1, o < ECC_P_OFFSET
          PROVE  r[at + o] = IF o < SYNC_NUM_BYTES THEN s_cd_sync_header(o) ELSE SectorByteOf(h, k, f, o)
      <4>1. o \in 0 .. ECC_P_OFFSET - 1
        BY <3>1, SizesAre
      <4> QED BY <2>2, <2>5, <2>9, <4>1
    <3>2. SYNC_NUM_BYTES <= ECC_P_OFFSET /\ ECC_P_OFFSET \in Nat /\ SYNC_NUM_BYTES \in Nat
      <4>1. PICK p : p = ECC_P_NUM_BYTES * ECC_P_COMP
        OBVIOUS
      <4> QED BY <4>1, SizesAre
    <3>3. ASSUME NEW o \in 0 .. d - 1
          PROVE  IF o < SYNC_NUM_BYTES THEN r[at + o] = s_cd_sync_header(o)
                 ELSE o >= ECC_P_OFFSET \/ r[at + o] = SectorByteOf(h, k, f, o)
      <4>1. CASE o < SYNC_NUM_BYTES
        <5>1. o < ECC_P_OFFSET
          BY <3>2, <4>1
        <5> QED BY <3>1, <4>1, <5>1
      <4>2. CASE ~ (o < SYNC_NUM_BYTES)
        <5>1. o >= ECC_P_OFFSET \/ o < ECC_P_OFFSET
          BY <3>2
        <5> QED BY <3>1, <4>2, <5>1
      <4> QED BY <4>1, <4>2
    <3> QED BY <1>1, <1>5, <3>3 DEF WholeIn
  <2>13. Assembled(r, f, missing, h, k)
    BY <2>5, <2>10, <2>11, <2>12 DEF Assembled
  <2>14. \A i \in 0 .. size - 1 : i < at \/ i >= at + CD_FRAME_SIZE => r[i] = buf[i]
    <3>1. ASSUME NEW i \in 0 .. size - 1, i < at \/ i >= at + CD_FRAME_SIZE PROVE i < at \/ i >= at + d
      BY <1>2, <1>3, <3>1
    <3> QED BY <2>8, <3>1
  <2> QED BY <1>1, <2>6, <2>8, <2>13, <2>14
<1> QED BY <1>4, <1>5

(* What is assembled stays when another frame is written.                   *)
LEMMA FramesAreApart ==
  ASSUME NEW buf, NEW res, NEW n \in Nat, NEW f \in 0 .. n - 1, NEW e \in 0 .. n - 1, e # f,
         NEW missing, NEW h, NEW k, Assembled(buf, e, missing, h, k),
         \A i \in 0 .. n * CD_FRAME_SIZE - 1 :
           i < f * CD_FRAME_SIZE \/ i >= f * CD_FRAME_SIZE + CD_FRAME_SIZE => res[i] = buf[i]
  PROVE  Assembled(res, e, missing, h, k)
<1>1. PICK d, b, size, at, to, s : /\ d = CD_MAX_SECTOR_DATA /\ b = CD_MAX_SUBCODE_DATA /\ s = CD_FRAME_SIZE
                                   /\ size = n * CD_FRAME_SIZE /\ at = e * CD_FRAME_SIZE /\ to = f * CD_FRAME_SIZE
  OBVIOUS
<1>2. d \in Nat /\ d > 0 /\ b \in Nat /\ b > 0 /\ s = d + b
  BY <1>1, FrameSizesAre
<1>3. /\ at \in Nat /\ size \in Nat /\ at + s <= size /\ to \in Nat
      /\ at + s <= to \/ to + s <= at
  <2>1. at \in Nat /\ size \in Nat /\ at + CD_FRAME_SIZE <= size /\ to \in Nat
    BY <1>1, Layout, FrameSizesAre
  <2>2. CASE e < f
    <3>1. e \in Nat /\ f \in Nat /\ s \in Nat
      BY <1>2
    <3>2. at + s <= to
      BY <1>1, <2>2, <3>1, MoreIsMore
    <3> QED BY <1>1, <2>1, <3>2
  <2>3. CASE f < e
    <3>1. e \in Nat /\ f \in Nat /\ s \in Nat
      BY <1>2
    <3>2. to + s <= at
      BY <1>1, <2>3, <3>1, MoreIsMore
    <3> QED BY <1>1, <2>1, <3>2
  <2>4. e < f \/ f < e
    OBVIOUS
  <2> QED BY <2>2, <2>3, <2>4
<1>4. ASSUME NEW o \in 0 .. s - 1 PROVE res[at + o] = buf[at + o]
  <2>1. at + o \in 0 .. size - 1 /\ (at + o < to \/ at + o >= to + s)
    BY <1>2, <1>3
  <2> QED BY <1>1, <2>1
<1>5. \A o \in 0 .. d - 1 : res[at + o] = buf[at + o]
  <2>1. \A o \in 0 .. d - 1 : o \in 0 .. s - 1
    BY <1>2
  <2> QED BY <1>4, <2>1
<1>6. \A o \in 0 .. b - 1 : res[at + d + o] = buf[at + d + o]
  <2>1. ASSUME NEW o \in 0 .. b - 1 PROVE d + o \in 0 .. s - 1 /\ at + (d + o) = at + d + o
    BY <1>2, <1>3
  <2> QED BY <1>4, <2>1
<1>7. SectorAt(res, e) = SectorAt(buf, e)
  BY <1>1, <1>5 DEF SectorAt
<1>8. SubcodeThere(res, e, k)
  BY <1>1, <1>6 DEF SubcodeThere, Assembled
<1>9. e \in missing \/ WholeIn(res, e, h, k)
  BY <1>1, <1>5 DEF WholeIn, Assembled
<1> QED BY <1>7, <1>8, <1>9 DEF Assembled

-----------------------------------------------------------------------------
(* A frame of which the sector is in place gets its subcode, and what was   *)
(* left out.                                                                *)
WithSubcode(buf, s, subAt, f) ==
  CopiedSpan(buf, f * CD_FRAME_SIZE + CD_MAX_SECTOR_DATA, s, subAt + f * CD_MAX_SUBCODE_DATA, CD_MAX_SUBCODE_DATA)

LEMMA FrameIsAssembled ==
  ASSUME NEW buf, NEW s, NEW subAt \in Nat, NEW n \in Nat, NEW f \in 0 .. n - 1, NEW missing, NEW h, NEW k,
         HasSector(buf, n, f, missing, h, k), SubcodeOf(s, subAt, n, k)
  PROVE  IsAssembled(RestoredIn(WithSubcode(buf, s, subAt, f), f, h), buf, n, f, missing, h, k)
<1>1. PICK d, b, size, at, from, w :
        /\ d = CD_MAX_SECTOR_DATA /\ b = CD_MAX_SUBCODE_DATA
        /\ size = n * CD_FRAME_SIZE /\ at = f * CD_FRAME_SIZE
        /\ from = subAt + f * CD_MAX_SUBCODE_DATA /\ w = WithSubcode(buf, s, subAt, f)
  OBVIOUS
<1>2. d \in Nat /\ d > 0 /\ b \in Nat /\ b > 0 /\ CD_FRAME_SIZE = d + b
  BY <1>1, FrameSizesAre
<1>3. at \in Nat /\ size \in Nat /\ at + d + b <= size
  <2>1. at \in Nat /\ size \in Nat /\ at + CD_FRAME_SIZE <= size
    BY <1>1, Layout, FrameSizesAre
  <2> QED BY <1>2, <2>1
<1>4. from \in Nat
  <2>1. f * CD_MAX_SUBCODE_DATA \in Nat
    BY Layout, FrameSizesAre
  <2> QED BY <1>1, <2>1
<1>5. /\ Buffer(w, size) /\ \A i \in 0 .. b - 1 : w[at + d + i] = s[from + i]
      /\ \A i \in 0 .. size - 1 : i < at + d \/ i >= at + d + b => w[i] = buf[i]
  <2>1. PICK p : p = at + d
    OBVIOUS
  <2>2. p \in Nat /\ p + b <= size /\ Buffer(buf, size)
    BY <1>1, <1>2, <1>3, <2>1 DEF HasSector
  <2>3. w = CopiedSpan(buf, p, s, from, b)
    BY <1>1, <2>1 DEF WithSubcode
  <2>4. Fits(buf, size, p, from, b)
    BY <1>2, <1>3, <1>4, <2>2 DEF Fits
  <2>5. IsCopied(w, buf, size, p, s, from, b)
    BY <2>3, <2>4, SpanIsCopied
  <2> QED BY <2>1, <2>5 DEF IsCopied
<1>6. SubcodeThere(w, f, k)
  <2>1. \A i \in 0 .. b - 1 : s[from + i] = SubcodeByteOf(k, f, i)
    BY <1>1 DEF SubcodeOf
  <2> QED BY <1>1, <1>5, <2>1 DEF SubcodeThere
<1>7. f \notin missing => SectorThere(w, f, h, k)
  <2>1. ASSUME NEW i \in 0 .. d - 1 PROVE w[at + i] = buf[at + i]
    <3>1. at + i \in 0 .. size - 1 /\ at + i < at + d
      BY <1>2, <1>3
    <3> QED BY <1>5, <3>1
  <2> QED BY <1>1, <2>1 DEF SectorThere, HasSector
<1>8. IsAssembled(RestoredIn(w, f, h), w, n, f, missing, h, k)
  <2>1. HasSector(w, n, f, missing, h, k)
    BY <1>1, <1>5, <1>7 DEF HasSector
  <2> QED BY <1>6, <2>1, FrameIsRestored
<1>9. ASSUME NEW i \in 0 .. size - 1, i < at \/ i >= at + CD_FRAME_SIZE
      PROVE  RestoredIn(w, f, h)[i] = buf[i]
  <2>1. i < at + d \/ i >= at + d + b
    BY <1>2, <1>3, <1>9
  <2>2. RestoredIn(w, f, h)[i] = w[i]
    BY <1>1, <1>8, <1>9 DEF IsAssembled
  <2> QED BY <1>5, <2>1, <2>2
<1> QED BY <1>1, <1>8, <1>9 DEF IsAssembled

(* From the scratch.                                                        *)
LEMMA CopyAssembles ==
  ASSUME NEW buf, NEW s, NEW subAt \in Nat, NEW n \in Nat, NEW f \in 0 .. n - 1, NEW missing, NEW h, NEW k,
         NEW sector, NEW res,
         sector = CopiedSpan(buf, f * CD_FRAME_SIZE, s, f * CD_MAX_SECTOR_DATA, CD_MAX_SECTOR_DATA),
         res = RestoredIn(WithSubcode(sector, s, subAt, f), f, h),
         Buffer(buf, n * CD_FRAME_SIZE), f \notin missing \/ f \notin h.flagged,
         SectorsOf(s, n, missing, h, k), SubcodeOf(s, subAt, n, k)
  PROVE  IsAssembled(res, buf, n, f, missing, h, k)
<1>1. PICK d, b, size, at, from :
        /\ d = CD_MAX_SECTOR_DATA /\ b = CD_MAX_SUBCODE_DATA
        /\ size = n * CD_FRAME_SIZE /\ at = f * CD_FRAME_SIZE /\ from = f * CD_MAX_SECTOR_DATA
  OBVIOUS
<1>2. d \in Nat /\ d > 0 /\ b \in Nat /\ b > 0 /\ CD_FRAME_SIZE = d + b
  BY <1>1, FrameSizesAre
<1>3. at \in Nat /\ size \in Nat /\ at + d <= size /\ from \in Nat
  <2>1. at \in Nat /\ size \in Nat /\ at + CD_FRAME_SIZE <= size /\ from \in Nat
    BY <1>1, Layout, FrameSizesAre
  <2> QED BY <1>2, <2>1
<1>4. /\ Buffer(sector, size) /\ \A i \in 0 .. d - 1 : sector[at + i] = s[from + i]
      /\ \A i \in 0 .. size - 1 : i < at \/ i >= at + d => sector[i] = buf[i]
  <2>1. Buffer(buf, size) /\ sector = CopiedSpan(buf, at, s, from, d)
    BY <1>1
  <2>2. Fits(buf, size, at, from, d)
    BY <1>2, <1>3, <2>1 DEF Fits
  <2>3. IsCopied(sector, buf, size, at, s, from, d)
    BY <2>1, <2>2, SpanIsCopied
  <2> QED BY <2>3 DEF IsCopied
<1>5. f \notin missing => SectorThere(sector, f, h, k)
  <2>1. f \notin missing => \A i \in 0 .. d - 1 : s[from + i] = SectorByteOf(h, k, f, i)
    BY <1>1 DEF SectorsOf
  <2> QED BY <1>1, <1>4, <2>1 DEF SectorThere
<1>6. IsAssembled(res, sector, n, f, missing, h, k)
  <2>1. HasSector(sector, n, f, missing, h, k)
    BY <1>1, <1>4, <1>5 DEF HasSector
  <2> QED BY <2>1, FrameIsAssembled
<1>7. ASSUME NEW i \in 0 .. size - 1, i < at \/ i >= at + CD_FRAME_SIZE PROVE res[i] = buf[i]
  <2>1. i < at \/ i >= at + d
    BY <1>2, <1>3, <1>7
  <2>2. res[i] = sector[i]
    BY <1>1, <1>6, <1>7 DEF IsAssembled
  <2> QED BY <1>4, <2>1, <2>2
<1> QED BY <1>1, <1>6, <1>7 DEF IsAssembled

(* In place, by way of the end of the scratch.                              *)
LEMMA MoveAssembles ==
  ASSUME NEW buf, NEW s, NEW n \in Nat, NEW f \in 0 .. n - 1, NEW missing, NEW h, NEW k,
         NEW bounced, NEW sector, NEW res,
         bounced = IF f = 0 THEN s
                   ELSE CopiedSpan(s, n * CD_MAX_SUBCODE_DATA, buf, f * CD_MAX_SECTOR_DATA, CD_MAX_SECTOR_DATA),
         sector = IF f = 0 THEN buf
                  ELSE CopiedSpan(buf, f * CD_FRAME_SIZE, bounced, n * CD_MAX_SUBCODE_DATA, CD_MAX_SECTOR_DATA),
         res = RestoredIn(WithSubcode(sector, s, 0, f), f, h),
         Buffer(buf, n * CD_FRAME_SIZE), Buffer(s, n * CD_MAX_SUBCODE_DATA + CD_MAX_SECTOR_DATA),
         f \notin missing \/ f \notin h.flagged,
         SectorsOf(buf, f + 1, missing, h, k), SubcodeOf(s, 0, n, k)
  PROVE  /\ IsAssembled(res, buf, n, f, missing, h, k)
         /\ Buffer(bounced, n * CD_MAX_SUBCODE_DATA + CD_MAX_SECTOR_DATA)
         /\ SubcodeOf(bounced, 0, n, k) /\ SectorsOf(res, f, missing, h, k)
<1>1. PICK d, b, size, at, from, bounce :
        /\ d = CD_MAX_SECTOR_DATA /\ b = CD_MAX_SUBCODE_DATA
        /\ size = n * CD_FRAME_SIZE /\ at = f * CD_FRAME_SIZE /\ from = f * CD_MAX_SECTOR_DATA
        /\ bounce = n * CD_MAX_SUBCODE_DATA
  OBVIOUS
<1>2. d \in Nat /\ d > 0 /\ b \in Nat /\ b > 0 /\ CD_FRAME_SIZE = d + b
  BY <1>1, FrameSizesAre
<1>3. /\ at \in Nat /\ size \in Nat /\ at + d <= size /\ from \in Nat /\ bounce \in Nat
      /\ from <= at /\ (f = 0 => from = 0 /\ at = 0)
  <2>1. at \in Nat /\ size \in Nat /\ at + CD_FRAME_SIZE <= size /\ from \in Nat /\ bounce \in Nat
    BY <1>1, Layout, FrameSizesAre
  <2>2. PICK q : q = f * CD_MAX_SUBCODE_DATA
    OBVIOUS
  <2>3. q \in Nat /\ at = from + q
    BY <1>1, <2>2, Layout, FrameSizesAre
  <2>4. f = 0 => from = 0 /\ at = 0
    BY <1>1, <1>2
  <2> QED BY <1>2, <2>1, <2>3, <2>4
<1>4. /\ Buffer(bounced, bounce + d)
      /\ f # 0 => \A i \in 0 .. d - 1 : bounced[bounce + i] = buf[from + i]
      /\ \A i \in 0 .. bounce - 1 : bounced[i] = s[i]
  <2>1. Buffer(s, bounce + d)
    BY <1>1
  <2>2. CASE f = 0
    BY <2>1, <2>2
  <2>3. CASE f # 0
    <3>1. bounced = CopiedSpan(s, bounce, buf, from, d)
      BY <1>1, <2>3
    <3>2. Fits(s, bounce + d, bounce, from, d)
      BY <1>2, <1>3, <2>1 DEF Fits
    <3>3. IsCopied(bounced, s, bounce + d, bounce, buf, from, d)
      BY <3>1, <3>2, SpanIsCopied
    <3>4. \A i \in 0 .. bounce - 1 : i \in 0 .. (bounce + d) - 1 /\ i < bounce
      BY <1>2, <1>3
    <3>5. /\ Buffer(bounced, bounce + d) /\ \A i \in 0 .. d - 1 : bounced[bounce + i] = buf[from + i]
          /\ \A i \in 0 .. (bounce + d) - 1 : i < bounce \/ i >= bounce + d => bounced[i] = s[i]
      BY <3>3 DEF IsCopied
    <3>6. \A i \in 0 .. bounce - 1 : bounced[i] = s[i]
      BY <3>4, <3>5
    <3> QED BY <2>3, <3>5, <3>6
  <2> QED BY <2>2, <2>3
<1>5. /\ Buffer(sector, size) /\ \A i \in 0 .. d - 1 : sector[at + i] = buf[from + i]
      /\ \A i \in 0 .. size - 1 : i < at \/ i >= at + d => sector[i] = buf[i]
  <2>1. Buffer(buf, size)
    BY <1>1
  <2>2. CASE f = 0
    BY <1>3, <2>1, <2>2
  <2>3. CASE f # 0
    <3>1. sector = CopiedSpan(buf, at, bounced, bounce, d)
      BY <1>1, <2>3
    <3>2. Fits(buf, size, at, bounce, d)
      BY <1>2, <1>3, <2>1 DEF Fits
    <3>3. IsCopied(sector, buf, size, at, bounced, bounce, d)
      BY <3>1, <3>2, SpanIsCopied
    <3>4. /\ Buffer(sector, size) /\ \A i \in 0 .. d - 1 : sector[at + i] = bounced[bounce + i]
          /\ \A i \in 0 .. size - 1 : i < at \/ i >= at + d => sector[i] = buf[i]
      BY <3>3 DEF IsCopied
    <3>5. \A i \in 0 .. d - 1 : sector[at + i] = buf[from + i]
      BY <1>4, <2>3, <3>4
    <3> QED BY <3>4, <3>5
  <2> QED BY <2>2, <2>3
<1>6. f \notin missing => SectorThere(sector, f, h, k)
  <2>1. f \notin missing => \A i \in 0 .. d - 1 : buf[from + i] = SectorByteOf(h, k, f, i)
    <3>1. f \in 0 .. (f + 1) - 1
      OBVIOUS
    <3> QED BY <1>1, <3>1 DEF SectorsOf
  <2> QED BY <1>1, <1>5, <2>1 DEF SectorThere
<1>7. IsAssembled(res, sector, n, f, missing, h, k)
  <2>1. HasSector(sector, n, f, missing, h, k) /\ 0 \in Nat
    BY <1>1, <1>5, <1>6 DEF HasSector
  <2> QED BY <2>1, FrameIsAssembled
<1>8. ASSUME NEW i \in 0 .. size - 1, i < at \/ i >= at + CD_FRAME_SIZE PROVE res[i] = buf[i]
  <2>1. i < at \/ i >= at + d
    BY <1>2, <1>3, <1>8
  <2>2. res[i] = sector[i]
    BY <1>1, <1>7, <1>8 DEF IsAssembled
  <2> QED BY <1>5, <2>1, <2>2
<1>9. SubcodeOf(bounced, 0, n, k)
  <2>1. ASSUME NEW e \in 0 .. n - 1, NEW i \in 0 .. b - 1
        PROVE  bounced[0 + e * b + i] = s[0 + e * b + i]
    <3>1. e * b \in Nat /\ e * b + b <= bounce
      BY <1>1, <1>2, Layout
    <3>2. 0 + e * b + i \in 0 .. bounce - 1
      <4>1. PICK m : m = e * b
        OBVIOUS
      <4> QED BY <1>2, <1>3, <3>1, <4>1
    <3> QED BY <1>4, <3>2
  <2> QED BY <1>1, <2>1 DEF SubcodeOf
<1>10. SectorsOf(res, f, missing, h, k)
  <2>1. ASSUME NEW e \in 0 .. f - 1, NEW i \in 0 .. d - 1
        PROVE  res[e * d + i] = buf[e * d + i]
    <3>1. e \in Nat /\ f \in Nat /\ e < f
      OBVIOUS
    <3>2. e * d \in Nat /\ e * d + d <= from
      BY <1>1, <1>2, <3>1, MoreIsMore
    <3>3. e * d + i \in 0 .. size - 1 /\ e * d + i < at
      <4>1. PICK m : m = e * d
        OBVIOUS
      <4> QED BY <1>2, <1>3, <3>2, <4>1
    <3> QED BY <1>8, <3>3
  <2>2. \A e \in 0 .. f - 1 : e \in 0 .. (f + 1) - 1
    OBVIOUS
  <2> QED BY <1>1, <2>1, <2>2 DEF SectorsOf
<1>11. IsAssembled(res, buf, n, f, missing, h, k)
  BY <1>1, <1>7, <1>8 DEF IsAssembled
<1> QED BY <1>1, <1>4, <1>9, <1>10, <1>11

-----------------------------------------------------------------------------
(* The inductive invariant.                                                 *)
SectorBuffer == IF inplace THEN dest ELSE scratch

SamplesInv ==
  cdphase = "samples" => /\ cdhunk.codec = "cdfl" /\ framenum \in 0 .. frames
                         /\ SectorsOf(SectorBuffer, framenum, partial, cdhunk, serial)
SubcodeInv ==
  cdphase = "subcode" => SectorsOf(SectorBuffer, frames, partial, cdhunk, serial)
FramesInv ==
  cdphase = "frames" =>
    /\ SubcodeOf(scratch, SubcodeAt, frames, serial)
    /\ inplace => framenum \in -1 .. frames - 1 /\ SectorsOf(dest, framenum + 1, partial, cdhunk, serial)
    /\ ~ inplace => framenum \in 0 .. frames /\ SectorsOf(scratch, frames, partial, cdhunk, serial)
    /\ \A f \in FramesAssembled : Assembled(dest, f, partial, cdhunk, serial)
DoneInv == CdDone => \A f \in 0 .. frames - 1 : Assembled(dest, f, partial, cdhunk, serial)
CdInv ==
  /\ CdHunkTypeOK /\ SourcesStayInside
  /\ cdhunk.codec = "cd" => partial = {}
  /\ SamplesInv /\ SubcodeInv /\ FramesInv /\ DoneInv

LEMMA HunksAre ==
  /\ \A h \in CdHunks : /\ h.codec \in {"cd", "cdfl"} /\ h.complen \in Nat /\ h.base \in Nat
                        /\ h.flagged \in SUBSET (0 .. frames - 1) \/ frames \notin FrameCounts
                        /\ h.codec = "cdfl" => h.flagged = {}
  /\ \E h \in CdHunks : h.codec = "cdfl"
<1>1. \A n \in FrameCounts : Flags(n) \subseteq SUBSET (0 .. n - 1)
  BY CdHunkAssumption
<1>2. Complens \subseteq Nat /\ Bases \subseteq Nat /\ Complens # {}
  BY CdHunkAssumption
<1>3. ASSUME NEW h \in CdHunks
      PROVE  /\ h.codec \in {"cd", "cdfl"} /\ h.complen \in Nat /\ h.base \in Nat
             /\ h.flagged \in SUBSET (0 .. frames - 1) \/ frames \notin FrameCounts
             /\ h.codec = "cdfl" => h.flagged = {}
  <2>1. CASE h \in [codec : {"cd"}, complen : Complens, base : Bases, flagged : Flags(frames), mode : {1, 2}]
    <3>1. h.codec = "cd" /\ h.complen \in Complens /\ h.base \in Bases /\ h.flagged \in Flags(frames)
      BY <2>1
    <3>2. frames \in FrameCounts => h.flagged \in SUBSET (0 .. frames - 1)
      BY <1>1, <3>1
    <3>3. h.complen \in Nat /\ h.base \in Nat
      BY <1>2, <3>1
    <3> QED BY <3>1, <3>2, <3>3
  <2>2. CASE h \in [codec : {"cdfl"}, complen : Complens, base : {0}, flagged : {{}}, mode : {1}]
    <3>1. h.codec = "cdfl" /\ h.complen \in Complens /\ h.base = 0 /\ h.flagged = {}
      BY <2>2
    <3>2. h.flagged \in SUBSET (0 .. frames - 1)
      BY <3>1
    <3>3. h.complen \in Nat /\ h.base \in Nat
      <4>1. h.complen \in Complens
        BY <2>2
      <4>2. h.base = 0
        BY <2>2
      <4>3. h.complen \in Nat
        BY <1>2, <4>1
      <4> QED BY <4>2, <4>3
    <3>4. h.codec \in {"cd", "cdfl"}
      BY <3>1
    <3>5. h.flagged = {}
      BY <3>1
    <3> QED BY <3>2, <3>3, <3>4, <3>5
  <2> QED BY <2>1, <2>2 DEF CdHunks
<1>4. \E h \in CdHunks : h.codec = "cdfl"
  <2>1. PICK c \in Complens : TRUE
    BY <1>2
  <2>2. [codec |-> "cdfl", complen |-> c, base |-> 0, flagged |-> {}, mode |-> 1] \in CdHunks
    BY DEF CdHunks
  <2> QED BY <2>2
<1> QED BY <1>3, <1>4

LEMMA SizesOfBuffers ==
  ASSUME frames \in FrameCounts
  PROVE  /\ frames \in Nat /\ frames > 0
         /\ destlen = frames * CD_FRAME_SIZE /\ destlen \in Nat /\ ScratchSize \in Nat
         /\ frames * CD_MAX_SECTOR_DATA \in Nat /\ frames * CD_MAX_SUBCODE_DATA \in Nat
         /\ frames * CD_MAX_SECTOR_DATA <= destlen
         /\ inplace => ScratchSize = frames * CD_MAX_SUBCODE_DATA + CD_MAX_SECTOR_DATA
         /\ ~ inplace => ScratchSize = destlen
         /\ SubcodeAt \in Nat /\ SubcodeAt + frames * CD_MAX_SUBCODE_DATA <= ScratchSize
<1>1. frames \in 1 .. 8
  BY CdHunkAssumption
<1>2. PICK s, b, t : s = frames * CD_MAX_SECTOR_DATA /\ b = frames * CD_MAX_SUBCODE_DATA /\ t = frames * CD_FRAME_SIZE
  OBVIOUS
<1>3. s \in Nat /\ b \in Nat /\ t = s + b
  <2>1. frames \in Nat
    BY <1>1
  <2>2. s \in Nat /\ b \in Nat
    BY <1>2, <2>1, FrameSizesAre
  <2>3. t = s + b
    BY <1>2, <2>1, FrameSizesAre
  <2> QED BY <2>2, <2>3
<1>4. destlen = t
  BY <1>2 DEF destlen
<1>5. ScratchSize = IF inplace THEN b + CD_MAX_SECTOR_DATA ELSE t
  BY <1>2, <1>4 DEF ScratchSize
<1>6. SubcodeAt = IF inplace THEN 0 ELSE s
  BY <1>2 DEF SubcodeAt
<1>7. ScratchSize \in Nat /\ SubcodeAt \in Nat /\ SubcodeAt + b <= ScratchSize
  <2>1. CD_MAX_SECTOR_DATA \in Nat
    BY FrameSizesAre
  <2>2. CASE inplace
    BY <1>3, <1>5, <1>6, <2>1, <2>2
  <2>3. CASE ~ inplace
    BY <1>3, <1>5, <1>6, <2>1, <2>3
  <2> QED BY <2>2, <2>3
<1> QED BY <1>1, <1>2, <1>3, <1>4, <1>5, <1>7

LEMMA CdInvInit == CdHunkInit => CdInv
<1> SUFFICES ASSUME CdHunkInit PROVE CdInv
  OBVIOUS
<1>1. /\ inplace \in BOOLEAN /\ frames \in FrameCounts
      /\ cdhunk = CHOOSE h \in CdHunks : h.codec = "cdfl"
      /\ serial = 0 /\ cdphase = "idle" /\ framenum = 0
      /\ dest = [i \in 0 .. destlen - 1 |-> CdJunk]
      /\ scratch = [i \in 0 .. ScratchSize - 1 |-> CdJunk]
      /\ partial = {} /\ sources = <<>> /\ cdresult = "none"
  BY DEF CdHunkInit
<1>2. cdhunk \in CdHunks
  BY <1>1, HunksAre
<1>3. DOMAIN dest = 0 .. destlen - 1 /\ DOMAIN scratch = 0 .. ScratchSize - 1
  BY <1>1
<1>4. serial \in 0 .. HunkLimit /\ framenum \in -1 .. frames
  BY <1>1, CdHunkAssumption, SizesOfBuffers
<1>5. CdHunkTypeOK
  BY <1>1, <1>2, <1>3, <1>4 DEF CdHunkTypeOK
<1>6. SourcesStayInside
  BY <1>1 DEF SourcesStayInside
<1>7. SamplesInv /\ SubcodeInv /\ FramesInv /\ DoneInv
  BY <1>1 DEF SamplesInv, SubcodeInv, FramesInv, DoneInv, CdDone
<1> QED BY <1>1, <1>5, <1>6, <1>7 DEF CdInv

-----------------------------------------------------------------------------
(* What a step keeps as long as the file is the same.                       *)
LEMMA SameFile ==
  ASSUME inplace' = inplace, frames' = frames
  PROVE  /\ destlen' = destlen /\ ScratchSize' = ScratchSize
         /\ CdHunks' = CdHunks /\ SubcodeAt' = SubcodeAt
BY DEF destlen, ScratchSize, CdHunks, SubcodeAt

Phases == {"idle", "sectors", "samples", "subcode", "frames"}
Answers == {"none", "NONE", "DECOMPRESSION_ERROR", "OUT_OF_MEMORY", "INVALID_PARAMETER"}

LEMMA TypeStep ==
  ASSUME CdHunkTypeOK, inplace' = inplace, frames' = frames,
         cdhunk' \in CdHunks, serial' \in 0 .. HunkLimit, cdphase' \in Phases,
         framenum' \in -1 .. frames, Buffer(dest', destlen), Buffer(scratch', ScratchSize),
         partial' \subseteq 0 .. frames - 1, cdresult' \in Answers
  PROVE  CdHunkTypeOK'
BY SameFile DEF CdHunkTypeOK, Buffer, Phases, Answers

LEMMA TypeFacts ==
  ASSUME CdHunkTypeOK
  PROVE  /\ inplace \in BOOLEAN /\ frames \in FrameCounts /\ frames \in Nat /\ frames > 0
         /\ cdhunk \in CdHunks /\ serial \in 0 .. HunkLimit /\ cdphase \in Phases
         /\ framenum \in -1 .. frames /\ Buffer(dest, destlen) /\ Buffer(scratch, ScratchSize)
         /\ partial \subseteq 0 .. frames - 1 /\ cdresult \in Answers
         /\ cdhunk.flagged \in SUBSET (0 .. frames - 1) /\ cdhunk.complen \in Nat
         /\ cdhunk.codec \in {"cd", "cdfl"} /\ (cdhunk.codec = "cdfl" => cdhunk.flagged = {})
<1>1. /\ inplace \in BOOLEAN /\ frames \in FrameCounts
      /\ cdhunk \in CdHunks /\ serial \in 0 .. HunkLimit /\ cdphase \in Phases
      /\ framenum \in -1 .. frames /\ Buffer(dest, destlen) /\ Buffer(scratch, ScratchSize)
      /\ partial \subseteq 0 .. frames - 1 /\ cdresult \in Answers
  BY DEF CdHunkTypeOK, Buffer, Phases, Answers
<1>2. frames \in Nat /\ frames > 0
  BY <1>1, SizesOfBuffers
<1> QED BY <1>1, <1>2, HunksAre

(* A hunk that has just begun, or one that was refused: nothing is claimed  *)
(* of its bytes yet.                                                        *)
LEMMA BeginKeeps ==
  ASSUME CdInv, CdHunkTypeOK', SourcesStayInside', partial' = {},
         cdphase' \in {"idle", "sectors"} \/ (cdphase' = "samples" /\ framenum' = 0 /\ cdhunk'.codec = "cdfl"),
         cdresult' # "NONE"
  PROVE  CdInv'
<1>1. frames' \in Nat /\ frames' > 0
  <2>1. CdHunkTypeOK' => frames' \in FrameCounts
    BY DEF CdHunkTypeOK
  <2>2. FrameCounts \subseteq 1 .. 8
    BY CdHunkAssumption
  <2>3. PICK n : n = frames'
    OBVIOUS
  <2>4. n \in 1 .. 8
    BY <2>1, <2>2, <2>3
  <2>5. n \in Nat /\ n > 0
    BY <2>4
  <2> QED BY <2>3, <2>5
<1>2. SamplesInv'
  <2>1. \A f \in 0 .. 0 - 1 : FALSE
    OBVIOUS
  <2>2. 0 \in 0 .. frames'
    BY <1>1
  <2> QED BY <2>1, <2>2 DEF SamplesInv, SectorsOf
<1>3. SubcodeInv' /\ FramesInv' /\ DoneInv'
  BY DEF SubcodeInv, FramesInv, DoneInv, CdDone
<1> QED BY <1>2, <1>3 DEF CdInv

LEMMA HeaderIs ==
  ASSUME frames \in Nat
  PROVE  header_bytes \in Nat
<1>1. (frames + 7) \div 8 \in Nat
  OBVIOUS
<1>2. complen_bytes \in Nat
  BY DEF complen_bytes
<1> QED BY <1>1, <1>2 DEF header_bytes, ecc_bytes

LEMMA StartCdKeeps ==
  ASSUME CdInv, StartCd
  PROVE  CdInv'
<1>1. PICK h \in CdHunks :
        /\ h.codec = "cd" /\ ~ TooShort(h)
        /\ cdphase = "idle" /\ serial < HunkLimit /\ serial' = serial + 1
        /\ cdhunk' = h /\ partial' = {} /\ cdresult' = "none"
        /\ sources' = << <<header_bytes, h.base>>,
                         <<header_bytes + h.base, h.complen - h.base - header_bytes>> >>
        /\ cdphase' = "sectors"
        /\ UNCHANGED <<inplace, frames, framenum, dest, scratch>>
  BY DEF StartCd, NextHunk
<1>2. CdHunkTypeOK
  BY DEF CdInv
<1>3. CdHunkTypeOK'
  <2>1. serial' \in 0 .. HunkLimit
    BY <1>1, <1>2, TypeFacts, CdHunkAssumption
  <2>2. cdphase' \in Phases /\ cdresult' \in Answers /\ partial' \subseteq 0 .. frames - 1
    BY <1>1 DEF Phases, Answers
  <2> QED BY <1>1, <1>2, <2>1, <2>2, TypeFacts, TypeStep
<1>4. SourcesStayInside'
  <2>1. PICK x, b, c : x = header_bytes /\ b = h.base /\ c = h.complen
    OBVIOUS
  <2>2. x \in Nat /\ b \in Nat /\ c \in Nat
    BY <1>2, <2>1, HeaderIs, TypeFacts, HunksAre
  <2>3. ~ (c < x + b)
    BY <1>1, <2>1 DEF TooShort
  <2>4. c - b - x >= 0 /\ x >= 0 /\ b >= 0 /\ x + b >= 0 /\ (x + b) + (c - b - x) = c
    BY <2>2, <2>3
  <2>5. sources'[1] = <<x, b>> /\ sources'[2] = <<x + b, c - b - x>> /\ cdhunk'.complen = c
    BY <1>1, <2>1
  <2> HIDE DEF CdHunks
  <2>6. /\ sources'[1][1] = x /\ sources'[1][2] = b /\ sources'[2][1] = x + b /\ sources'[2][2] = c - b - x
    BY <2>5
  <2>7. \A k \in 1 .. 2 : k = 1 \/ k = 2
    OBVIOUS
  <2> QED BY <2>4, <2>5, <2>6, <2>7 DEF SourcesStayInside
<1> QED BY <1>1, <1>3, <1>4, BeginKeeps

LEMMA RefuseCdKeeps ==
  ASSUME CdInv, RefuseCd
  PROVE  CdInv'
<1>1. /\ cdphase = "idle" /\ serial < HunkLimit
      /\ serial' = serial + 1 /\ cdhunk' \in CdHunks /\ partial' = {} /\ sources' = <<>>
      /\ cdresult' = "DECOMPRESSION_ERROR" /\ cdphase' = "idle"
      /\ UNCHANGED <<inplace, frames, framenum, dest, scratch>>
  BY DEF RefuseCd, Answer
<1>2. CdHunkTypeOK
  BY DEF CdInv
<1>3. CdHunkTypeOK'
  <2>1. serial' \in 0 .. HunkLimit
    BY <1>1, <1>2, TypeFacts, CdHunkAssumption
  <2>2. cdphase' \in Phases /\ cdresult' \in Answers /\ partial' \subseteq 0 .. frames - 1
    BY <1>1 DEF Phases, Answers
  <2> QED BY <1>1, <1>2, <2>1, <2>2, TypeFacts, TypeStep
<1>4. SourcesStayInside'
  BY <1>1 DEF SourcesStayInside
<1> QED BY <1>1, <1>3, <1>4, BeginKeeps

LEMMA FlacResetKeeps ==
  ASSUME CdInv, FlacReset
  PROVE  CdInv'
<1>1. /\ cdphase = "idle" /\ serial < HunkLimit
      /\ serial' = serial + 1 /\ cdhunk' \in CdHunks /\ cdhunk'.codec = "cdfl"
      /\ partial' = {} /\ sources' = <<>> /\ cdresult' = "none"
      /\ cdphase' = "samples" /\ framenum' = 0
      /\ UNCHANGED <<inplace, frames, dest, scratch>>
  BY DEF FlacReset, NextHunk
<1>2. CdHunkTypeOK
  BY DEF CdInv
<1>3. CdHunkTypeOK'
  <2>1. serial' \in 0 .. HunkLimit /\ framenum' \in -1 .. frames
    BY <1>1, <1>2, TypeFacts, CdHunkAssumption
  <2>2. cdphase' \in Phases /\ cdresult' \in Answers /\ partial' \subseteq 0 .. frames - 1
    BY <1>1 DEF Phases, Answers
  <2> QED BY <1>1, <1>2, <2>1, <2>2, TypeFacts, TypeStep
<1>4. SourcesStayInside'
  BY <1>1 DEF SourcesStayInside
<1> QED BY <1>1, <1>3, <1>4, BeginKeeps

LEMMA FlacRefusedKeeps ==
  ASSUME CdInv, FlacRefused
  PROVE  CdInv'
<1>1. /\ cdphase = "idle" /\ serial < HunkLimit
      /\ serial' = serial + 1 /\ cdhunk' \in CdHunks
      /\ partial' = {} /\ sources' = <<>> /\ cdphase' = "idle"
      /\ cdresult' \in {"OUT_OF_MEMORY", "DECOMPRESSION_ERROR", "INVALID_PARAMETER"}
      /\ UNCHANGED <<inplace, frames, framenum, dest, scratch>>
  BY DEF FlacRefused, Answer
<1>2. CdHunkTypeOK
  BY DEF CdInv
<1>3. CdHunkTypeOK'
  <2>1. serial' \in 0 .. HunkLimit
    BY <1>1, <1>2, TypeFacts, CdHunkAssumption
  <2>2. cdphase' \in Phases /\ cdresult' \in Answers /\ partial' \subseteq 0 .. frames - 1
    BY <1>1 DEF Phases, Answers
  <2> QED BY <1>1, <1>2, <2>1, <2>2, TypeFacts, TypeStep
<1>4. SourcesStayInside'
  BY <1>1 DEF SourcesStayInside
<1> QED BY <1>1, <1>3, <1>4, BeginKeeps

(* A hunk that is given up.                                                 *)
LEMMA GivenUp ==
  ASSUME CdInv, UNCHANGED <<inplace, frames, cdhunk, serial, framenum, partial, sources>>,
         cdphase' = "idle", cdresult' \in Answers, cdresult' # "NONE",
         Buffer(dest', destlen), Buffer(scratch', ScratchSize)
  PROVE  CdInv'
<1>1. CdHunkTypeOK /\ SourcesStayInside
  BY DEF CdInv
<1>2. CdHunkTypeOK'
  <2>1. cdphase' \in Phases
    BY DEF Phases
  <2> QED BY <1>1, <2>1, TypeFacts, TypeStep
<1>3. SourcesStayInside'
  BY <1>1 DEF SourcesStayInside
<1>4. cdhunk'.codec = "cd" => partial' = {}
  BY DEF CdInv
<1>5. SamplesInv' /\ SubcodeInv' /\ FramesInv' /\ DoneInv'
  BY DEF SamplesInv, SubcodeInv, FramesInv, DoneInv, CdDone
<1> QED BY <1>2, <1>3, <1>4, <1>5 DEF CdInv

-----------------------------------------------------------------------------
(* Decoding into the buffers.                                               *)
WritesSectors(u) ==
  IF inplace THEN dest' = u /\ scratch' = scratch ELSE scratch' = u /\ dest' = dest

LEMMA SectorsWritten ==
  ASSUME CdHunkTypeOK, inplace' = inplace, NEW u, Buffer(u, destlen), WritesSectors(u)
  PROVE  Buffer(dest', destlen) /\ Buffer(scratch', ScratchSize) /\ SectorBuffer' = u
<1>1. Buffer(dest, destlen) /\ Buffer(scratch, ScratchSize) /\ (~ inplace => ScratchSize = destlen)
  BY TypeFacts, SizesOfBuffers
<1>2. CASE inplace
  BY <1>1, <1>2 DEF WritesSectors, SectorBuffer
<1>3. CASE ~ inplace
  BY <1>1, <1>3 DEF WritesSectors, SectorBuffer
<1> QED BY <1>2, <1>3

LEMMA SectorBufferIs ==
  ASSUME CdHunkTypeOK
  PROVE  /\ Buffer(SectorBuffer, destlen)
         /\ \A at \in Nat : \A n \in Nat :
              at + n <= frames * CD_MAX_SECTOR_DATA => Fits(SectorBuffer, destlen, at, 0, n)
<1>1. Buffer(SectorBuffer, destlen)
  BY TypeFacts, SizesOfBuffers DEF SectorBuffer
<1>2. PICK s, m : s = destlen /\ m = frames * CD_MAX_SECTOR_DATA
  OBVIOUS
<1>3. s \in Nat /\ m \in Nat /\ m <= s
  BY <1>2, TypeFacts, SizesOfBuffers
<1>4. ASSUME NEW at \in Nat, NEW n \in Nat, at + n <= m PROVE at + n <= s /\ 0 \in Nat
  BY <1>3, <1>4
<1> QED BY <1>1, <1>2, <1>3, <1>4 DEF Fits

LEMMA PackedIs ==
  ASSUME frames \in Nat, NEW f \in 0 .. frames - 1
  PROVE  /\ \A i \in 0 .. CD_MAX_SECTOR_DATA - 1 :
              Packed[f * CD_MAX_SECTOR_DATA + i] = SectorByteOf(cdhunk, serial, f, i)
         /\ \A i \in 0 .. CD_MAX_SUBCODE_DATA - 1 :
              PackedSubcode[f * CD_MAX_SUBCODE_DATA + i] = SubcodeByteOf(serial, f, i)
<1>1. CD_MAX_SECTOR_DATA \in Nat /\ CD_MAX_SUBCODE_DATA \in Nat
  BY FrameSizesAre
<1>2. ASSUME NEW d \in Nat, NEW i \in 0 .. d - 1
      PROVE  f * d + i \in 0 .. frames * d - 1 /\ (f * d + i) \div d = f /\ (f * d + i) % d = i
  <2>1. f * d \in Nat /\ frames * d \in Nat /\ f * d + d <= frames * d
    BY Layout
  <2>2. f \in Nat
    OBVIOUS
  <2>3. (f * d + i) \div d = f /\ (f * d + i) % d = i
    BY <2>2, Quotients
  <2>4. PICK x, y : x = f * d /\ y = frames * d
    OBVIOUS
  <2>5. x + i \in 0 .. y - 1
    BY <2>1, <2>4
  <2> QED BY <2>3, <2>4, <2>5
<1>3. ASSUME NEW i \in 0 .. CD_MAX_SECTOR_DATA - 1
      PROVE  Packed[f * CD_MAX_SECTOR_DATA + i] = SectorByteOf(cdhunk, serial, f, i)
  <2>1. PICK d : d = CD_MAX_SECTOR_DATA
    OBVIOUS
  <2>2. PICK x : x = f * d + i
    OBVIOUS
  <2>3. x \in 0 .. frames * d - 1 /\ x \div d = f /\ x % d = i
    BY <1>1, <1>2, <2>1, <2>2
  <2>4. Packed[x] = SectorByte(x \div d, x % d)
    BY <2>1, <2>3 DEF Packed
  <2>5. Packed[x] = SectorByte(f, i)
    BY <2>3, <2>4
  <2> QED BY <2>1, <2>2, <2>5 DEF SectorByte, SectorByteOf
<1>4. ASSUME NEW i \in 0 .. CD_MAX_SUBCODE_DATA - 1
      PROVE  PackedSubcode[f * CD_MAX_SUBCODE_DATA + i] = SubcodeByteOf(serial, f, i)
  <2>1. PICK d : d = CD_MAX_SUBCODE_DATA
    OBVIOUS
  <2>2. PICK x : x = f * d + i
    OBVIOUS
  <2>3. x \in 0 .. frames * d - 1 /\ x \div d = f /\ x % d = i
    BY <1>1, <1>2, <2>1, <2>2
  <2>4. PackedSubcode[x] = SubcodeByte(x \div d, x % d)
    BY <2>1, <2>3 DEF PackedSubcode
  <2>5. PackedSubcode[x] = SubcodeByte(f, i)
    BY <2>3, <2>4
  <2> QED BY <2>1, <2>2, <2>5 DEF SubcodeByte, SubcodeByteOf
<1> QED BY <1>3, <1>4

LEMMA DecodeSectorsKeeps ==
  ASSUME CdInv, DecodeSectors
  PROVE  CdInv'
<1>1. /\ cdphase = "sectors" /\ cdhunk.codec = "cd" /\ cdphase' = "subcode"
      /\ UNCHANGED <<inplace, frames, cdhunk, serial, framenum, partial, sources, cdresult>>
  BY DEF DecodeSectors
<1>2. CdHunkTypeOK /\ SourcesStayInside /\ partial = {}
  BY <1>1 DEF CdInv
<1>3. frames \in Nat /\ frames * CD_MAX_SECTOR_DATA \in Nat
  BY <1>2, TypeFacts, SizesOfBuffers
<1>4. PICK m, u : m = frames * CD_MAX_SECTOR_DATA /\ u = CopiedSpan(SectorBuffer, 0, Packed, 0, m)
  OBVIOUS
<1>5. WritesSectors(u)
  BY <1>4 DEF DecodeSectors, Sectors, WritesSectors, SectorBuffer
<1>6. IsCopied(u, SectorBuffer, destlen, 0, Packed, 0, m)
  <2>1. 0 \in Nat /\ 0 + m <= m /\ m \in Nat
    BY <1>3, <1>4
  <2>2. Fits(SectorBuffer, destlen, 0, 0, m)
    BY <1>2, <1>4, <2>1, SectorBufferIs
  <2> QED BY <1>4, <2>2, SpanIsCopied
<1>7. Buffer(u, destlen)
  BY <1>6 DEF IsCopied
<1>8. Buffer(dest', destlen) /\ Buffer(scratch', ScratchSize) /\ SectorBuffer' = u
  BY <1>1, <1>2, <1>5, <1>7, SectorsWritten
<1>9. SectorsOf(u, frames, partial, cdhunk, serial)
  <2>1. PICK d : d = CD_MAX_SECTOR_DATA
    OBVIOUS
  <2>2. ASSUME NEW f \in 0 .. frames - 1, NEW i \in 0 .. d - 1
        PROVE  u[f * d + i] = SectorByteOf(cdhunk, serial, f, i)
    <3>1. PICK x : x = f * d
      OBVIOUS
    <3>2. x \in Nat /\ x + d <= m /\ d \in Nat
      BY <1>3, <1>4, <2>1, <3>1, FrameSizesAre, Layout
    <3>3. x + i \in 0 .. m - 1 /\ 0 + (x + i) = x + i
      BY <3>2, <1>3, <1>4
    <3>4. u[x + i] = Packed[x + i]
      BY <1>6, <3>3 DEF IsCopied
    <3> QED BY <1>3, <2>1, <3>1, <3>4, PackedIs
  <2> QED BY <2>1, <2>2 DEF SectorsOf
<1>10. CdHunkTypeOK'
  <2>1. cdphase' \in Phases
    BY <1>1 DEF Phases
  <2> QED BY <1>1, <1>2, <1>8, <2>1, TypeFacts, TypeStep
<1>11. SourcesStayInside'
  BY <1>1, <1>2 DEF SourcesStayInside
<1>12. SubcodeInv'
  BY <1>1, <1>8, <1>9 DEF SubcodeInv
<1>13. SamplesInv' /\ FramesInv' /\ DoneInv'
  BY <1>1 DEF SamplesInv, FramesInv, DoneInv, CdDone
<1> QED BY <1>1, <1>2, <1>10, <1>11, <1>12, <1>13 DEF CdInv

LEMMA SectorsAreBadKeeps ==
  ASSUME CdInv, SectorsAreBad
  PROVE  CdInv'
<1>1. /\ cdphase' = "idle" /\ cdresult' = "DECOMPRESSION_ERROR"
      /\ UNCHANGED <<inplace, frames, cdhunk, serial, framenum, partial, sources>>
  BY DEF SectorsAreBad, Answer
<1>2. CdHunkTypeOK
  BY DEF CdInv
<1>3. PICK m, from, u : /\ m = frames * CD_MAX_SECTOR_DATA /\ from = [i \in DOMAIN Packed |-> CdJunk]
                        /\ u = CopiedSpan(SectorBuffer, 0, from, 0, m)
  OBVIOUS
<1>4. WritesSectors(u)
  BY <1>3 DEF SectorsAreBad, Sectors, WritesSectors, SectorBuffer
<1>5. Buffer(u, destlen)
  <2>1. m \in Nat
    BY <1>2, <1>3, TypeFacts, SizesOfBuffers
  <2>2. 0 \in Nat /\ 0 + m <= m
    BY <2>1
  <2>3. Fits(SectorBuffer, destlen, 0, 0, m)
    BY <1>2, <1>3, <2>1, <2>2, SectorBufferIs
  <2>4. IsCopied(u, SectorBuffer, destlen, 0, from, 0, m)
    BY <1>3, <2>3, SpanIsCopied
  <2> QED BY <2>4 DEF IsCopied
<1>6. Buffer(dest', destlen) /\ Buffer(scratch', ScratchSize)
  BY <1>1, <1>2, <1>4, <1>5, SectorsWritten
<1>7. cdresult' \in Answers /\ cdresult' # "NONE"
  BY <1>1 DEF Answers
<1> QED BY <1>1, <1>6, <1>7, GivenUp

-----------------------------------------------------------------------------
LEMMA DecodeSubcodeKeeps ==
  ASSUME CdInv, DecodeSubcode
  PROVE  CdInv'
<1>1. PICK m, at : m = frames * CD_MAX_SUBCODE_DATA /\ at = SubcodeAt
  OBVIOUS
<1>2. /\ cdphase = "subcode" /\ cdphase' = "frames" /\ framenum' = IF inplace THEN frames - 1 ELSE 0
      /\ scratch' = CopiedSpan(scratch, at, PackedSubcode, 0, m)
      /\ UNCHANGED <<inplace, frames, cdhunk, serial, dest, partial, sources, cdresult>>
  BY <1>1 DEF DecodeSubcode
<1>3. CdHunkTypeOK /\ SourcesStayInside /\ (cdhunk.codec = "cd" => partial = {})
  BY DEF CdInv
<1>4. SectorsOf(SectorBuffer, frames, partial, cdhunk, serial)
  BY <1>2 DEF CdInv, SubcodeInv
<1>5. /\ frames \in Nat /\ frames > 0 /\ m \in Nat /\ at \in Nat /\ at + m <= ScratchSize
      /\ ScratchSize \in Nat /\ Buffer(scratch, ScratchSize) /\ Buffer(dest, destlen)
  BY <1>1, <1>3, TypeFacts, SizesOfBuffers
<1>6. IsCopied(scratch', scratch, ScratchSize, at, PackedSubcode, 0, m)
  <2>1. 0 \in Nat
    OBVIOUS
  <2>2. Fits(scratch, ScratchSize, at, 0, m)
    BY <1>5, <2>1 DEF Fits
  <2> QED BY <1>2, <2>2, SpanIsCopied
<1>7. Buffer(scratch', ScratchSize)
  BY <1>6 DEF IsCopied
<1>8. CdHunkTypeOK'
  <2>1. cdphase' \in Phases
    BY <1>2 DEF Phases
  <2>2. framenum' \in -1 .. frames
    BY <1>2, <1>5
  <2> QED BY <1>2, <1>3, <1>5, <1>7, <2>1, <2>2, TypeFacts, TypeStep
<1>9. SourcesStayInside'
  BY <1>2, <1>3 DEF SourcesStayInside
<1>10. SubcodeOf(scratch', at, frames, serial)
  <2>1. PICK d : d = CD_MAX_SUBCODE_DATA
    OBVIOUS
  <2>2. ASSUME NEW f \in 0 .. frames - 1, NEW i \in 0 .. d - 1
        PROVE  scratch'[at + f * d + i] = SubcodeByteOf(serial, f, i)
    <3>1. PICK x : x = f * d
      OBVIOUS
    <3>2. x \in Nat /\ x + d <= m /\ d \in Nat
      BY <1>1, <1>5, <2>1, <3>1, FrameSizesAre, Layout
    <3>3. x + i \in 0 .. m - 1 /\ 0 + (x + i) = x + i /\ at + (x + i) = at + x + i
      BY <1>5, <3>2
    <3>4. scratch'[at + x + i] = PackedSubcode[x + i]
      BY <1>6, <3>3 DEF IsCopied
    <3> QED BY <1>5, <2>1, <3>1, <3>4, PackedIs
  <2> QED BY <2>1, <2>2 DEF SubcodeOf
<1>11. ASSUME ~ inplace PROVE SectorsOf(scratch', frames, partial, cdhunk, serial)
  <2>1. PICK d, t : d = CD_MAX_SECTOR_DATA /\ t = frames * CD_MAX_SECTOR_DATA
    OBVIOUS
  <2>2. at = t
    BY <1>1, <1>11, <2>1 DEF SubcodeAt
  <2>3. ASSUME NEW f \in 0 .. frames - 1, NEW i \in 0 .. d - 1
        PROVE  scratch'[f * d + i] = scratch[f * d + i]
    <3>1. PICK x : x = f * d
      OBVIOUS
    <3>2. x \in Nat /\ x + d <= t /\ d \in Nat
      BY <1>5, <2>1, <3>1, FrameSizesAre, Layout
    <3>3. x + i \in 0 .. ScratchSize - 1 /\ x + i < at
      <4>1. PICK s : s = ScratchSize
        OBVIOUS
      <4>2. x + i \in 0 .. s - 1 /\ x + i < at
        BY <1>5, <2>2, <3>2, <4>1
      <4> QED BY <4>1, <4>2
    <3> QED BY <1>6, <3>1, <3>3 DEF IsCopied
  <2>4. SectorsOf(scratch, frames, partial, cdhunk, serial)
    BY <1>4, <1>11 DEF SectorBuffer
  <2> QED BY <2>1, <2>3, <2>4 DEF SectorsOf
<1>12. ASSUME inplace PROVE framenum' = frames - 1 /\ framenum' + 1 = frames /\ SectorsOf(dest, frames, partial, cdhunk, serial)
  <2>1. framenum' = frames - 1 /\ framenum' + 1 = frames
    BY <1>2, <1>5, <1>12
  <2> QED BY <1>4, <1>12, <2>1 DEF SectorBuffer
<1>13. ~ inplace => framenum' = 0
  BY <1>2
<1>14. FramesAssembled' = {}
  <2>1. CASE inplace
    BY <1>2, <1>5, <1>12, <2>1 DEF FramesAssembled
  <2>2. CASE ~ inplace
    BY <1>2, <1>13, <2>2 DEF FramesAssembled
  <2> QED BY <2>1, <2>2
<1>15. SubcodeAt' = at
  BY <1>1, <1>2, SameFile
<1>16. FramesInv'
  <2>1. inplace' => framenum' \in -1 .. frames' - 1 /\ SectorsOf(dest', framenum' + 1, partial', cdhunk', serial')
    BY <1>2, <1>5, <1>12
  <2>2. ~ inplace' => framenum' \in 0 .. frames' /\ SectorsOf(scratch', frames', partial', cdhunk', serial')
    <3>1. ~ inplace => framenum' \in 0 .. frames
      BY <1>5, <1>13
    <3> QED BY <1>2, <1>11, <3>1
  <2>3. SubcodeOf(scratch', SubcodeAt', frames', serial')
    BY <1>2, <1>10, <1>15
  <2> QED BY <1>14, <2>1, <2>2, <2>3 DEF FramesInv
<1>17. SamplesInv' /\ SubcodeInv' /\ DoneInv'
  BY <1>2 DEF SamplesInv, SubcodeInv, DoneInv, CdDone
<1>18. cdhunk'.codec = "cd" => partial' = {}
  BY <1>2, <1>3
<1> QED BY <1>8, <1>9, <1>16, <1>17, <1>18 DEF CdInv

LEMMA SubcodeIsBadKeeps ==
  ASSUME CdInv, SubcodeIsBad
  PROVE  CdInv'
<1>1. PICK m, at, from :
        /\ m = frames * CD_MAX_SUBCODE_DATA /\ at = SubcodeAt
        /\ from = [i \in DOMAIN PackedSubcode |-> CdJunk]
  OBVIOUS
<1>2. /\ cdphase' = "idle" /\ cdresult' = "DECOMPRESSION_ERROR"
      /\ scratch' = CopiedSpan(scratch, at, from, 0, m)
      /\ UNCHANGED <<inplace, frames, cdhunk, serial, framenum, dest, partial, sources>>
  BY <1>1 DEF SubcodeIsBad, Answer
<1>3. CdHunkTypeOK
  BY DEF CdInv
<1>4. /\ m \in Nat /\ at \in Nat /\ at + m <= ScratchSize
      /\ ScratchSize \in Nat /\ Buffer(scratch, ScratchSize) /\ Buffer(dest, destlen)
  BY <1>1, <1>3, TypeFacts, SizesOfBuffers
<1>5. Buffer(scratch', ScratchSize)
  <2>1. 0 \in Nat
    OBVIOUS
  <2>2. Fits(scratch, ScratchSize, at, 0, m)
    BY <1>4, <2>1 DEF Fits
  <2>3. IsCopied(scratch', scratch, ScratchSize, at, from, 0, m)
    BY <1>2, <2>2, SpanIsCopied
  <2> QED BY <2>3 DEF IsCopied
<1>6. Buffer(dest', destlen)
  BY <1>2, <1>4
<1>7. cdresult' \in Answers /\ cdresult' # "NONE"
  BY <1>2 DEF Answers
<1> QED BY <1>2, <1>5, <1>6, <1>7, GivenUp

-----------------------------------------------------------------------------
(* FLAC.                                                                    *)
LEMMA FlacSectorIsBadKeeps ==
  ASSUME CdInv, FlacSectorIsBad
  PROVE  CdInv'
<1>1. /\ cdphase' = "idle" /\ cdresult' \in {"OUT_OF_MEMORY", "DECOMPRESSION_ERROR"}
      /\ UNCHANGED <<inplace, frames, cdhunk, serial, framenum, dest, scratch, partial, sources>>
  BY DEF FlacSectorIsBad, Answer
<1>2. CdHunkTypeOK
  BY DEF CdInv
<1>3. Buffer(dest', destlen) /\ Buffer(scratch', ScratchSize)
  BY <1>1, <1>2, TypeFacts
<1>4. cdresult' \in Answers /\ cdresult' # "NONE"
  BY <1>1 DEF Answers
<1> QED BY <1>1, <1>3, <1>4, GivenUp

LEMMA FlacSectorKeeps ==
  ASSUME CdInv, FlacSector
  PROVE  CdInv'
<1>1. PICK missing \in {0, 4} :
        /\ cdphase = "samples" /\ framenum < frames /\ framenum' = framenum + 1
        /\ WritesSectors(CopiedSpan(SectorBuffer, framenum * CD_MAX_SECTOR_DATA, SamplesOf(missing), 0,
                                    CD_MAX_SECTOR_DATA))
        /\ partial' = IF missing = 0 THEN partial ELSE partial \cup {framenum}
        /\ UNCHANGED <<inplace, frames, cdhunk, serial, cdphase, sources, cdresult>>
  BY DEF FlacSector, WritesSectors, SectorBuffer
<1>2. CdHunkTypeOK /\ SourcesStayInside
  BY DEF CdInv
<1>3. /\ cdhunk.codec = "cdfl" /\ framenum \in 0 .. frames
      /\ SectorsOf(SectorBuffer, framenum, partial, cdhunk, serial)
  BY <1>1 DEF CdInv, SamplesInv
<1>4. PICK d, at, from, u, g :
        /\ d = CD_MAX_SECTOR_DATA /\ at = framenum * CD_MAX_SECTOR_DATA /\ from = SamplesOf(missing)
        /\ u = CopiedSpan(SectorBuffer, at, from, 0, d) /\ g = framenum
  OBVIOUS
<1>5. frames \in Nat /\ g \in 0 .. frames - 1 /\ d \in Nat /\ d > 0 /\ partial \subseteq 0 .. frames - 1
  BY <1>1, <1>2, <1>3, <1>4, TypeFacts, FrameSizesAre
<1>6. at \in Nat /\ at + d <= frames * d /\ destlen \in Nat /\ frames * d <= destlen
  <2>1. at \in Nat /\ at + d <= frames * d
    BY <1>4, <1>5, Layout
  <2> QED BY <1>2, <1>4, <2>1, TypeFacts, SizesOfBuffers
<1>7. IsCopied(u, SectorBuffer, destlen, at, from, 0, d)
  <2>1. Fits(SectorBuffer, destlen, at, 0, d)
    BY <1>2, <1>4, <1>5, <1>6, SectorBufferIs
  <2> QED BY <1>4, <2>1, SpanIsCopied
<1>8. Buffer(dest', destlen) /\ Buffer(scratch', ScratchSize) /\ SectorBuffer' = u
  <2>1. Buffer(u, destlen)
    BY <1>7 DEF IsCopied
  <2>2. WritesSectors(u)
    BY <1>1, <1>4
  <2> QED BY <1>1, <1>2, <2>1, <2>2, SectorsWritten
<1>9. SectorsOf(u, g + 1, partial', cdhunk, serial)
  <2>1. ASSUME NEW f \in 0 .. g - 1, f \notin partial', NEW i \in 0 .. d - 1
        PROVE  u[f * d + i] = SectorByteOf(cdhunk, serial, f, i)
    <3>1. f \notin partial
      BY <1>1, <2>1
    <3>2. PICK x, s : x = f * d /\ s = destlen
      OBVIOUS
    <3>3. x \in Nat /\ x + d <= at
      BY <1>4, <1>5, <3>2, Layout
    <3>4. x + i \in 0 .. s - 1 /\ x + i < at
      <4>1. PICK z : z = frames * d
        OBVIOUS
      <4> QED BY <1>5, <1>6, <3>2, <3>3, <4>1
    <3>5. u[x + i] = SectorBuffer[x + i]
      BY <1>7, <3>2, <3>4 DEF IsCopied
    <3> QED BY <1>3, <1>4, <3>1, <3>2, <3>5 DEF SectorsOf
  <2>2. ASSUME g \notin partial', NEW i \in 0 .. d - 1
        PROVE  u[g * d + i] = SectorByteOf(cdhunk, serial, g, i)
    <3>1. missing = 0
      BY <1>1, <1>4, <2>2
    <3>2. u[at + i] = from[0 + i] /\ 0 + i = i
      BY <1>7 DEF IsCopied
    <3>3. from[i] = SectorByte(g, i)
      <4>1. ~ (i >= d - missing)
        BY <1>5, <3>1
      <4> QED BY <1>4, <4>1 DEF SamplesOf
    <3> QED BY <1>4, <3>2, <3>3 DEF SectorByte, SectorByteOf
  <2>3. \A f \in 0 .. (g + 1) - 1 : f \in 0 .. g - 1 \/ f = g
    BY <1>5
  <2> QED BY <1>4, <2>1, <2>2, <2>3 DEF SectorsOf
<1>10. CdHunkTypeOK'
  <2>1. cdphase' \in Phases /\ framenum' \in -1 .. frames
    <3>1. framenum' = g + 1
      BY <1>1, <1>4
    <3>2. framenum' \in -1 .. frames
      BY <1>5, <3>1
    <3> QED BY <1>1, <1>2, <3>2, TypeFacts
  <2>2. partial' \subseteq 0 .. frames - 1
    BY <1>1, <1>4, <1>5
  <2> QED BY <1>1, <1>2, <1>8, <2>1, <2>2, TypeFacts, TypeStep
<1>11. SourcesStayInside'
  BY <1>1, <1>2 DEF SourcesStayInside
<1>12. SamplesInv'
  <2>1. framenum' = g + 1 /\ framenum' \in 0 .. frames
    BY <1>1, <1>4, <1>5
  <2> QED BY <1>1, <1>3, <1>8, <1>9, <2>1 DEF SamplesInv
<1>13. SubcodeInv' /\ FramesInv' /\ DoneInv'
  BY <1>1 DEF SubcodeInv, FramesInv, DoneInv, CdDone
<1>14. cdhunk'.codec # "cd"
  BY <1>1, <1>3
<1> QED BY <1>10, <1>11, <1>12, <1>13, <1>14 DEF CdInv

LEMMA FlacFinishKeeps ==
  ASSUME CdInv, FlacFinish
  PROVE  CdInv'
<1>1. PICK offset \in 0 .. cdhunk.complen :
        /\ cdphase = "samples" /\ framenum = frames
        /\ sources' = << <<0, offset>>, <<offset, cdhunk.complen - offset>> >>
        /\ cdphase' = "subcode"
        /\ UNCHANGED <<inplace, frames, cdhunk, serial, framenum, dest, scratch, partial, cdresult>>
  BY DEF FlacFinish
<1>2. CdHunkTypeOK
  BY DEF CdInv
<1>3. /\ cdhunk.codec = "cdfl" /\ SectorsOf(SectorBuffer, frames, partial, cdhunk, serial)
  BY <1>1 DEF CdInv, SamplesInv
<1>4. CdHunkTypeOK'
  <2>1. cdphase' \in Phases
    BY <1>1 DEF Phases
  <2> QED BY <1>1, <1>2, <2>1, TypeFacts, TypeStep
<1>5. SourcesStayInside'
  <2>1. PICK c : c = cdhunk.complen
    OBVIOUS
  <2>2. c \in Nat
    BY <1>2, <2>1, TypeFacts
  <2>3. c - offset >= 0 /\ offset >= 0 /\ 0 + offset = offset /\ offset + (c - offset) = c
    BY <1>1, <2>1, <2>2
  <2>4. sources'[1] = <<0, offset>> /\ sources'[2] = <<offset, c - offset>> /\ cdhunk'.complen = c
    BY <1>1, <2>1
  <2>5. /\ sources'[1][1] = 0 /\ sources'[1][2] = offset /\ sources'[2][1] = offset /\ sources'[2][2] = c - offset
    BY <2>4
  <2>6. \A k \in 1 .. 2 : k = 1 \/ k = 2
    OBVIOUS
  <2> QED BY <2>3, <2>4, <2>5, <2>6 DEF SourcesStayInside
<1>6. SubcodeInv'
  <2>1. SectorBuffer' = SectorBuffer
    BY <1>1 DEF SectorBuffer
  <2> QED BY <1>1, <1>3, <2>1 DEF SubcodeInv
<1>7. SamplesInv' /\ FramesInv' /\ DoneInv'
  BY <1>1 DEF SamplesInv, FramesInv, DoneInv, CdDone
<1>8. cdhunk'.codec # "cd"
  BY <1>1, <1>3
<1> QED BY <1>4, <1>5, <1>6, <1>7, <1>8 DEF CdInv

-----------------------------------------------------------------------------
(* Putting the frames together.                                             *)
LEMMA RestoredInIs ==
  ASSUME NEW buf, NEW f
  PROVE  Restored(buf, f) = RestoredIn(buf, f, cdhunk)
BY DEF Restored, RestoredIn, ToRestore

(* A frame more is assembled.                                               *)
LEMMA OneFrameMore ==
  ASSUME CdHunkTypeOK, NEW f \in 0 .. frames - 1, NEW done, NEW res,
         done \subseteq 0 .. frames - 1, f \notin done,
         \A e \in done : Assembled(dest, e, partial, cdhunk, serial),
         IsAssembled(res, dest, frames, f, partial, cdhunk, serial)
  PROVE  /\ Buffer(res, destlen)
         /\ \A e \in done \cup {f} : Assembled(res, e, partial, cdhunk, serial)
<1>1. frames \in Nat /\ destlen = frames * CD_FRAME_SIZE
  BY TypeFacts, SizesOfBuffers
<1>2. /\ Buffer(res, frames * CD_FRAME_SIZE) /\ Assembled(res, f, partial, cdhunk, serial)
      /\ \A i \in 0 .. frames * CD_FRAME_SIZE - 1 :
           i < f * CD_FRAME_SIZE \/ i >= f * CD_FRAME_SIZE + CD_FRAME_SIZE => res[i] = dest[i]
  BY DEF IsAssembled
<1>3. ASSUME NEW e \in done PROVE Assembled(res, e, partial, cdhunk, serial)
  <2>1. e \in 0 .. frames - 1 /\ e # f /\ Assembled(dest, e, partial, cdhunk, serial)
    OBVIOUS
  <2> QED BY <1>1, <1>2, <2>1, FramesAreApart
<1> QED BY <1>1, <1>2, <1>3

(* FLAC leaves no parity out, and the cd codecs are never short.            *)
LEMMA ShortFramesAreWhole ==
  ASSUME CdInv, NEW f
  PROVE  f \notin partial \/ f \notin cdhunk.flagged
<1>1. CdHunkTypeOK /\ (cdhunk.codec = "cd" => partial = {})
  BY DEF CdInv
<1>2. cdhunk.codec \in {"cd", "cdfl"} /\ (cdhunk.codec = "cdfl" => cdhunk.flagged = {})
  BY <1>1, TypeFacts
<1> QED BY <1>1, <1>2

LEMMA CopyFrameKeeps ==
  ASSUME CdInv, CopyFrame
  PROVE  CdInv'
<1>1. /\ cdphase = "frames" /\ ~ inplace /\ framenum < frames /\ framenum' = framenum + 1
      /\ UNCHANGED <<inplace, frames, cdhunk, serial, cdphase, scratch, partial, sources, cdresult>>
  BY DEF CopyFrame
<1>2. CdHunkTypeOK /\ SourcesStayInside /\ (cdhunk.codec = "cd" => partial = {})
  BY DEF CdInv
<1>3. /\ SubcodeOf(scratch, SubcodeAt, frames, serial) /\ framenum \in 0 .. frames
      /\ SectorsOf(scratch, frames, partial, cdhunk, serial)
      /\ \A f \in 0 .. framenum - 1 : Assembled(dest, f, partial, cdhunk, serial)
  BY <1>1 DEF CdInv, FramesInv, FramesAssembled
<1>4. PICK f, sector : /\ f = framenum
                       /\ sector = CopiedSpan(dest, f * CD_FRAME_SIZE, scratch, f * CD_MAX_SECTOR_DATA,
                                              CD_MAX_SECTOR_DATA)
  OBVIOUS
<1>5. /\ frames \in Nat /\ f \in 0 .. frames - 1 /\ SubcodeAt \in Nat /\ destlen = frames * CD_FRAME_SIZE
      /\ Buffer(dest, destlen) /\ Buffer(scratch, ScratchSize)
  BY <1>1, <1>2, <1>3, <1>4, TypeFacts, SizesOfBuffers
<1>6. dest' = RestoredIn(WithSubcode(sector, scratch, SubcodeAt, f), f, cdhunk)
  BY <1>4, RestoredInIs DEF CopyFrame, WithSubcode
<1>7. IsAssembled(dest', dest, frames, f, partial, cdhunk, serial)
  <2>1. Buffer(dest, frames * CD_FRAME_SIZE) /\ (f \notin partial \/ f \notin cdhunk.flagged)
    BY <1>5, ShortFramesAreWhole
  <2> QED BY <1>3, <1>4, <1>5, <1>6, <2>1, CopyAssembles
<1>8. Buffer(dest', destlen) /\ \A e \in (0 .. f - 1) \cup {f} : Assembled(dest', e, partial, cdhunk, serial)
  <2>1. PICK done : done = 0 .. f - 1
    OBVIOUS
  <2>2. done \subseteq 0 .. frames - 1 /\ f \notin done
    BY <1>5, <2>1
  <2>3. \A e \in done : Assembled(dest, e, partial, cdhunk, serial)
    BY <1>3, <1>4, <2>1
  <2>4. Buffer(dest', destlen) /\ \A e \in done \cup {f} : Assembled(dest', e, partial, cdhunk, serial)
    BY <1>2, <1>5, <1>7, <2>2, <2>3, OneFrameMore
  <2> QED BY <2>1, <2>4
<1>9. framenum' = f + 1 /\ framenum' \in 0 .. frames /\ framenum' \in -1 .. frames
  BY <1>1, <1>4, <1>5
<1>10. CdHunkTypeOK'
  BY <1>1, <1>2, <1>5, <1>8, <1>9, TypeFacts, TypeStep
<1>11. SourcesStayInside'
  BY <1>1, <1>2 DEF SourcesStayInside
<1>12. FramesInv'
  <2>1. SubcodeAt' = SubcodeAt
    BY <1>1, SameFile
  <2>2. FramesAssembled' = 0 .. (f + 1) - 1
    BY <1>1, <1>9 DEF FramesAssembled
  <2>3. 0 .. (f + 1) - 1 = (0 .. f - 1) \cup {f}
    BY <1>5
  <2> QED BY <1>1, <1>3, <1>8, <1>9, <2>1, <2>2, <2>3 DEF FramesInv
<1>13. SamplesInv' /\ SubcodeInv' /\ DoneInv'
  BY <1>1 DEF SamplesInv, SubcodeInv, DoneInv, CdDone
<1>14. cdhunk'.codec = "cd" => partial' = {}
  BY <1>1, <1>2
<1> QED BY <1>10, <1>11, <1>12, <1>13, <1>14 DEF CdInv

LEMMA MoveFrameKeeps ==
  ASSUME CdInv, MoveFrame
  PROVE  CdInv'
<1>1. /\ cdphase = "frames" /\ inplace /\ framenum >= 0 /\ framenum' = framenum - 1
      /\ UNCHANGED <<inplace, frames, cdhunk, serial, cdphase, partial, sources, cdresult>>
  BY DEF MoveFrame
<1>2. CdHunkTypeOK /\ SourcesStayInside /\ (cdhunk.codec = "cd" => partial = {})
  BY DEF CdInv
<1>3. /\ SubcodeOf(scratch, SubcodeAt, frames, serial) /\ framenum \in -1 .. frames - 1
      /\ SectorsOf(dest, framenum + 1, partial, cdhunk, serial)
      /\ \A f \in framenum + 1 .. frames - 1 : Assembled(dest, f, partial, cdhunk, serial)
  BY <1>1 DEF CdInv, FramesInv, FramesAssembled
<1>4. PICK f, bounced, sector :
        /\ f = framenum
        /\ bounced = IF f = 0 THEN scratch
                     ELSE CopiedSpan(scratch, frames * CD_MAX_SUBCODE_DATA, dest, f * CD_MAX_SECTOR_DATA,
                                     CD_MAX_SECTOR_DATA)
        /\ sector = IF f = 0 THEN dest
                    ELSE CopiedSpan(dest, f * CD_FRAME_SIZE, bounced, frames * CD_MAX_SUBCODE_DATA,
                                    CD_MAX_SECTOR_DATA)
  OBVIOUS
<1>5. /\ frames \in Nat /\ f \in 0 .. frames - 1 /\ SubcodeAt = 0 /\ destlen = frames * CD_FRAME_SIZE
      /\ ScratchSize = frames * CD_MAX_SUBCODE_DATA + CD_MAX_SECTOR_DATA
      /\ Buffer(dest, destlen) /\ Buffer(scratch, ScratchSize)
  <2>1. SubcodeAt = 0
    BY <1>1 DEF SubcodeAt
  <2> QED BY <1>1, <1>2, <1>3, <1>4, <2>1, TypeFacts, SizesOfBuffers
<1>6. scratch' = bounced
  BY <1>4 DEF MoveFrame, Bounce
<1>7. dest' = RestoredIn(WithSubcode(sector, scratch, 0, f), f, cdhunk)
  <2>1. dest' = Spread(dest, bounced, f)
    BY <1>4 DEF MoveFrame, Bounce
  <2>2. Spread(dest, bounced, f)
          = Restored(CopiedSpan(sector, f * CD_FRAME_SIZE + CD_MAX_SECTOR_DATA, scratch, f * CD_MAX_SUBCODE_DATA,
                                CD_MAX_SUBCODE_DATA), f)
    BY <1>4 DEF Spread, Bounce
  <2>3. 0 + f * CD_MAX_SUBCODE_DATA = f * CD_MAX_SUBCODE_DATA
    <3>1. PICK x : x = f * CD_MAX_SUBCODE_DATA
      OBVIOUS
    <3>2. x \in Nat
      BY <1>5, <3>1, FrameSizesAre, Layout
    <3>3. 0 + x = x
      BY <3>2
    <3> QED BY <3>1, <3>3
  <2> QED BY <2>1, <2>2, <2>3, RestoredInIs DEF WithSubcode
<1>8. /\ IsAssembled(dest', dest, frames, f, partial, cdhunk, serial)
      /\ Buffer(bounced, ScratchSize) /\ SubcodeOf(bounced, 0, frames, serial)
      /\ SectorsOf(dest', f, partial, cdhunk, serial)
  <2>1. /\ Buffer(dest, frames * CD_FRAME_SIZE) /\ (f \notin partial \/ f \notin cdhunk.flagged)
        /\ Buffer(scratch, frames * CD_MAX_SUBCODE_DATA + CD_MAX_SECTOR_DATA)
        /\ SectorsOf(dest, f + 1, partial, cdhunk, serial) /\ SubcodeOf(scratch, 0, frames, serial)
    BY <1>3, <1>4, <1>5, ShortFramesAreWhole
  <2> QED BY <1>4, <1>5, <1>7, <2>1, MoveAssembles
<1>9. Buffer(dest', destlen) /\ \A e \in (f + 1 .. frames - 1) \cup {f} : Assembled(dest', e, partial, cdhunk, serial)
  <2>1. PICK done : done = f + 1 .. frames - 1
    OBVIOUS
  <2>2. done \subseteq 0 .. frames - 1 /\ f \notin done
    BY <1>5, <2>1
  <2>3. \A e \in done : Assembled(dest, e, partial, cdhunk, serial)
    BY <1>3, <1>4, <2>1
  <2>4. Buffer(dest', destlen) /\ \A e \in done \cup {f} : Assembled(dest', e, partial, cdhunk, serial)
    BY <1>2, <1>5, <1>8, <2>2, <2>3, OneFrameMore
  <2> QED BY <2>1, <2>4
<1>10. framenum' = f - 1 /\ framenum' + 1 = f /\ framenum' \in -1 .. frames - 1 /\ framenum' \in -1 .. frames
  BY <1>1, <1>4, <1>5
<1>11. CdHunkTypeOK'
  BY <1>1, <1>2, <1>6, <1>8, <1>9, <1>10, TypeFacts, TypeStep
<1>12. SourcesStayInside'
  BY <1>1, <1>2 DEF SourcesStayInside
<1>13. FramesInv'
  <2>1. SubcodeAt' = 0
    BY <1>1, <1>5, SameFile
  <2>2. FramesAssembled' = f .. frames - 1
    BY <1>1, <1>10 DEF FramesAssembled
  <2>3. f .. frames - 1 = (f + 1 .. frames - 1) \cup {f}
    BY <1>5
  <2> QED BY <1>1, <1>6, <1>8, <1>9, <1>10, <2>1, <2>2, <2>3 DEF FramesInv
<1>14. SamplesInv' /\ SubcodeInv' /\ DoneInv'
  BY <1>1 DEF SamplesInv, SubcodeInv, DoneInv, CdDone
<1>15. cdhunk'.codec = "cd" => partial' = {}
  BY <1>1, <1>2
<1> QED BY <1>11, <1>12, <1>13, <1>14, <1>15 DEF CdInv

LEMMA VerifyHunkKeeps ==
  ASSUME CdInv, VerifyHunk
  PROVE  CdInv'
<1>1. /\ cdphase = "frames" /\ framenum = IF inplace THEN -1 ELSE frames
      /\ cdresult' \in {"NONE", "DECOMPRESSION_ERROR"} /\ cdphase' = "idle"
      /\ UNCHANGED <<inplace, frames, cdhunk, serial, framenum, dest, scratch, partial, sources>>
  BY DEF VerifyHunk, Answer
<1>2. CdHunkTypeOK /\ SourcesStayInside /\ (cdhunk.codec = "cd" => partial = {})
  BY DEF CdInv
<1>3. \A f \in 0 .. frames - 1 : Assembled(dest, f, partial, cdhunk, serial)
  <2>1. \A f \in FramesAssembled : Assembled(dest, f, partial, cdhunk, serial)
    BY <1>1 DEF CdInv, FramesInv
  <2>2. FramesAssembled = 0 .. frames - 1
    BY <1>1 DEF FramesAssembled
  <2> QED BY <2>1, <2>2
<1>4. CdHunkTypeOK'
  <2>1. cdphase' \in Phases /\ cdresult' \in Answers
    BY <1>1 DEF Phases, Answers
  <2> QED BY <1>1, <1>2, <2>1, TypeFacts, TypeStep
<1>5. SourcesStayInside'
  BY <1>1, <1>2 DEF SourcesStayInside
<1>6. DoneInv'
  BY <1>1, <1>3 DEF DoneInv
<1>7. SamplesInv' /\ SubcodeInv' /\ FramesInv'
  BY <1>1 DEF SamplesInv, SubcodeInv, FramesInv
<1>8. cdhunk'.codec = "cd" => partial' = {}
  BY <1>1, <1>2
<1> QED BY <1>4, <1>5, <1>6, <1>7, <1>8 DEF CdInv

LEMMA CdStutters ==
  ASSUME CdInv, UNCHANGED cdvars
  PROVE  CdInv'
<1>1. UNCHANGED <<inplace, frames, cdhunk, serial, cdphase, framenum, dest, scratch, partial, sources, cdresult>>
  BY DEF cdvars
<1>2. CdHunkTypeOK'
  <2>1. CdHunkTypeOK
    BY DEF CdInv
  <2> QED BY <1>1, <2>1, TypeFacts, TypeStep
<1>3. SectorBuffer' = SectorBuffer /\ SubcodeAt' = SubcodeAt /\ FramesAssembled' = FramesAssembled
  BY <1>1 DEF SectorBuffer, SubcodeAt, FramesAssembled
<1>4. SourcesStayInside' /\ (cdhunk'.codec = "cd" => partial' = {})
  BY <1>1 DEF CdInv, SourcesStayInside
<1>5. SamplesInv' /\ SubcodeInv'
  BY <1>1, <1>3 DEF CdInv, SamplesInv, SubcodeInv
<1>6. FramesInv'
  BY <1>1, <1>3 DEF CdInv, FramesInv
<1>7. DoneInv'
  BY <1>1 DEF CdInv, DoneInv, CdDone
<1> QED BY <1>2, <1>4, <1>5, <1>6, <1>7 DEF CdInv

-----------------------------------------------------------------------------
(* The invariant holds of every behaviour, whatever the sizes of sectors,   *)
(* subcode and hunks, however many frames a hunk has, and in either build.  *)
THEOREM CdInvHolds == CdHunkSpec => []CdInv
<1>1. CdInv /\ [CdHunkNext]_cdvars => CdInv'
  <2> SUFFICES ASSUME CdInv, [CdHunkNext]_cdvars PROVE CdInv'
    OBVIOUS
  <2>1. CASE RefuseCd
    BY <2>1, RefuseCdKeeps
  <2>2. CASE StartCd
    BY <2>2, StartCdKeeps
  <2>3. CASE DecodeSectors
    BY <2>3, DecodeSectorsKeeps
  <2>4. CASE SectorsAreBad
    BY <2>4, SectorsAreBadKeeps
  <2>5. CASE FlacRefused
    BY <2>5, FlacRefusedKeeps
  <2>6. CASE FlacReset
    BY <2>6, FlacResetKeeps
  <2>7. CASE FlacSector
    BY <2>7, FlacSectorKeeps
  <2>8. CASE FlacSectorIsBad
    BY <2>8, FlacSectorIsBadKeeps
  <2>9. CASE FlacFinish
    BY <2>9, FlacFinishKeeps
  <2>10. CASE DecodeSubcode
    BY <2>10, DecodeSubcodeKeeps
  <2>11. CASE SubcodeIsBad
    BY <2>11, SubcodeIsBadKeeps
  <2>12. CASE CopyFrame
    BY <2>12, CopyFrameKeeps
  <2>13. CASE MoveFrame
    BY <2>13, MoveFrameKeeps
  <2>14. CASE VerifyHunk
    BY <2>14, VerifyHunkKeeps
  <2>15. CASE UNCHANGED cdvars
    BY <2>15, CdStutters
  <2> QED BY <2>1, <2>2, <2>3, <2>4, <2>5, <2>6, <2>7, <2>8, <2>9, <2>10, <2>11, <2>12,
             <2>13, <2>14, <2>15 DEF CdHunkNext
<1> QED BY <1>1, CdInvInit, PTL DEF CdHunkSpec

(* What the invariant says of the buffers is what the runs check.           *)
LEMMA InvRebuilds == CdInv => HunkIsRebuilt
<1> SUFFICES ASSUME CdInv PROVE HunkIsRebuilt
  OBVIOUS
<1>1. CdHunkTypeOK /\ SourcesStayInside
  BY DEF CdInv
<1>2. \A f, i : /\ SectorByte(f, i) = SectorByteOf(cdhunk, serial, f, i)
                /\ SubcodeByte(f, i) = SubcodeByteOf(serial, f, i)
  BY DEF SectorByte, SectorByteOf, SubcodeByte, SubcodeByteOf
<1>3. UnmovedSectorsStay
  <2> SUFFICES ASSUME cdphase = "frames", inplace, NEW f \in 0 .. framenum, f \notin partial,
                      NEW i \in 0 .. CD_MAX_SECTOR_DATA - 1
               PROVE  dest[f * CD_MAX_SECTOR_DATA + i] = SectorByte(f, i)
    BY DEF UnmovedSectorsStay
  <2>1. SectorsOf(dest, framenum + 1, partial, cdhunk, serial) /\ framenum \in -1 .. frames - 1
    BY DEF CdInv, FramesInv
  <2>2. f \in 0 .. (framenum + 1) - 1
    <3>1. frames \in Nat
      BY <1>1, TypeFacts
    <3> QED BY <2>1, <3>1
  <2> QED BY <1>2, <2>1, <2>2 DEF SectorsOf
<1>4. FramesArePutTogether
  <2> SUFFICES ASSUME cdphase = "frames", NEW f \in FramesAssembled
               PROVE  SubcodeIsThere(f) /\ (f \in partial \/ FrameIsWhole(f))
    BY DEF FramesArePutTogether
  <2>1. SubcodeThere(dest, f, serial) /\ (f \in partial \/ WholeIn(dest, f, cdhunk, serial))
    BY DEF CdInv, FramesInv, Assembled
  <2>2. SubcodeIsThere(f)
    BY <1>2, <2>1 DEF SubcodeIsThere, SubcodeThere
  <2>3. WholeIn(dest, f, cdhunk, serial) => FrameIsWhole(f)
    BY <1>2, Zenon DEF FrameIsWhole, WholeIn
  <2> QED BY <2>1, <2>2, <2>3
<1> QED BY <1>1, <1>3, <1>4 DEF HunkIsRebuilt

(* cd_codec_decompress and cdfl_codec_decompress tell their decoders to     *)
(* read inside the compressed bytes, spread in place without landing on a   *)
(* sector that still has to be moved, and bring every byte to its place.    *)
THEOREM HunksAreRebuilt == CdHunkSpec => []HunkIsRebuilt
BY CdInvHolds, InvRebuilds, PTL

(* ecc_verify accepts every sector whose parity was left out of the file    *)
(* and put back by ecc_generate: four rows of a sector to a word of parity  *)
(* is the parity of each row.                                               *)
THEOREM RestoredSectorsVerify == CdHunkSpec => []RestoredParityVerifies
<1>1. ASSUME CdInv PROVE RestoredParityVerifies
  <2>1. cdhunk.flagged \in SUBSET (0 .. frames - 1)
    BY <1>1, TypeFacts DEF CdInv
  <2> QED BY <1>1, <2>1 DEF CdInv, DoneInv, Assembled, RestoredParityVerifies, SectorOf, SectorAt
<1> QED BY <1>1, CdInvHolds, PTL

-----------------------------------------------------------------------------
(* The checksum of a hunk.  A register of 16 bits: one step of it is        *)
(* linear, and moves up what does not reach the highest bit.                *)
Crcs == SUBSET (0 .. 15)

LEMMA RegisterHas ==
  ASSUME NEW c \in Crcs
  PROVE  /\ Register(c) \in Crcs
         /\ \A x \in 0 .. 15 : x \in Register(c) <=>
              ~ ((x # 0 /\ x - 1 \in c) <=> (15 \in c /\ x \in {0, 5, 12}))
<1>1. \A x \in 0 .. 15 : x \in Shifted(c, 1) \cap (0 .. 15) <=> x # 0 /\ x - 1 \in c
  <2>1. \A b \in c : b \in 0 .. 15
    BY DEF Crcs
  <2> QED BY <2>1 DEF Shifted
<1>2. \A x \in 0 .. 15 : x \in (IF 15 \in c THEN {0, 5, 12} ELSE {}) <=> 15 \in c /\ x \in {0, 5, 12}
  OBVIOUS
<1>3. Register(c) \in Crcs
  BY DEF Register, Xor, Crcs
<1> QED BY <1>1, <1>2, <1>3, XorHas DEF Register

LEMMA SameCrc ==
  ASSUME NEW a \in Crcs, NEW b \in Crcs, \A x \in 0 .. 15 : x \in a <=> x \in b
  PROVE  a = b
BY DEF Crcs

LEMMA CrcXor ==
  ASSUME NEW a \in Crcs, NEW b \in Crcs
  PROVE  Xor(a, b) \in Crcs
BY DEF Crcs, Xor

LEMMA RegisterOfXor ==
  ASSUME NEW a \in Crcs, NEW b \in Crcs
  PROVE  Register(Xor(a, b)) = Xor(Register(a), Register(b))
<1>1. PICK c : c = Xor(a, b)
  OBVIOUS
<1>2. c \in Crcs /\ \A x : x \in c <=> ~ (x \in a <=> x \in b)
  BY <1>1, CrcXor, XorHas
<1>3. PICK ra, rb, rc : ra = Register(a) /\ rb = Register(b) /\ rc = Register(c)
  OBVIOUS
<1>4. /\ ra \in Crcs /\ rb \in Crcs /\ rc \in Crcs
      /\ \A x \in 0 .. 15 :
           /\ x \in ra <=> ~ ((x # 0 /\ x - 1 \in a) <=> (15 \in a /\ x \in {0, 5, 12}))
           /\ x \in rb <=> ~ ((x # 0 /\ x - 1 \in b) <=> (15 \in b /\ x \in {0, 5, 12}))
           /\ x \in rc <=> ~ ((x # 0 /\ x - 1 \in c) <=> (15 \in c /\ x \in {0, 5, 12}))
  BY <1>2, <1>3, RegisterHas
<1>5. ASSUME NEW x \in 0 .. 15 PROVE x \in rc <=> ~ (x \in ra <=> x \in rb)
  BY <1>2, <1>4
<1>6. Xor(ra, rb) \in Crcs /\ \A x : x \in Xor(ra, rb) <=> ~ (x \in ra <=> x \in rb)
  BY <1>4, CrcXor, XorHas
<1>7. rc = Xor(ra, rb)
  BY <1>4, <1>5, <1>6, SameCrc
<1> QED BY <1>1, <1>3, <1>7

LEMMA RegisterMovesUp ==
  ASSUME NEW a \in SUBSET (0 .. 7), NEW k \in 0 .. 7
  PROVE  /\ Shifted(a, k) \in Crcs /\ Shifted(a, k + 1) \in Crcs
         /\ Register(Shifted(a, k)) = Shifted(a, k + 1)
<1>1. PICK s, t : s = Shifted(a, k) /\ t = Shifted(a, k + 1)
  OBVIOUS
<1>2. \A x \in Int : /\ x \in s <=> x - k \in a
                     /\ x \in t <=> x - (k + 1) \in a
  BY <1>1 DEF Shifted
<1>3. s \in Crcs /\ t \in Crcs /\ 15 \notin s
  <2>1. \A b \in a : b \in 0 .. 7
    OBVIOUS
  <2>2. \A x \in s : x \in 0 .. 14
    BY <1>1, <2>1 DEF Shifted
  <2>3. \A x \in t : x \in 0 .. 15
    BY <1>1, <2>1 DEF Shifted
  <2> QED BY <2>2, <2>3 DEF Crcs
<1>4. \A x \in 0 .. 15 : x \in Register(s) <=> x # 0 /\ x - 1 \in s
  BY <1>3, RegisterHas
<1>5. ASSUME NEW x \in 0 .. 15 PROVE x \in Register(s) <=> x \in t
  <2>1. x - 1 \in s <=> x - 1 - k \in a
    BY <1>2
  <2>2. x \in t <=> x - (k + 1) \in a
    BY <1>2
  <2>3. x - 1 - k = x - (k + 1)
    OBVIOUS
  <2>4. x = 0 => x - (k + 1) \notin a
    OBVIOUS
  <2> QED BY <1>4, <2>1, <2>2, <2>3, <2>4
<1>6. Register(s) = t
  BY <1>3, <1>5, RegisterHas, SameCrc
<1> QED BY <1>1, <1>3, <1>6

-----------------------------------------------------------------------------
(* A byte is eight steps.                                                   *)
Twice(c) == Register(Register(c))
Eight(c) == Twice(Twice(Twice(Twice(c))))

LEMMA TwiceOfXor ==
  ASSUME NEW a \in Crcs, NEW b \in Crcs
  PROVE  Twice(a) \in Crcs /\ Twice(Xor(a, b)) = Xor(Twice(a), Twice(b))
<1>1. PICK ra, rb : ra = Register(a) /\ rb = Register(b)
  OBVIOUS
<1>2. ra \in Crcs /\ rb \in Crcs /\ Register(ra) \in Crcs
  BY <1>1, RegisterHas
<1>3. Register(Xor(a, b)) = Xor(ra, rb)
  BY <1>1, RegisterOfXor
<1>4. Register(Xor(ra, rb)) = Xor(Register(ra), Register(rb))
  BY <1>2, RegisterOfXor
<1> QED BY <1>1, <1>2, <1>3, <1>4 DEF Twice

LEMMA EightOfXor ==
  ASSUME NEW a \in Crcs, NEW b \in Crcs
  PROVE  Eight(a) \in Crcs /\ Eight(Xor(a, b)) = Xor(Eight(a), Eight(b))
<1>1. PICK a1, b1 : a1 = Twice(a) /\ b1 = Twice(b)
  OBVIOUS
<1>2. a1 \in Crcs /\ b1 \in Crcs /\ Twice(Xor(a, b)) = Xor(a1, b1)
  BY <1>1, TwiceOfXor
<1>3. PICK a2, b2 : a2 = Twice(a1) /\ b2 = Twice(b1)
  OBVIOUS
<1>4. a2 \in Crcs /\ b2 \in Crcs /\ Twice(Xor(a1, b1)) = Xor(a2, b2)
  BY <1>2, <1>3, TwiceOfXor
<1>5. PICK a3, b3 : a3 = Twice(a2) /\ b3 = Twice(b2)
  OBVIOUS
<1>6. a3 \in Crcs /\ b3 \in Crcs /\ Twice(Xor(a2, b2)) = Xor(a3, b3)
  BY <1>4, <1>5, TwiceOfXor
<1>7. Twice(a3) \in Crcs /\ Twice(Xor(a3, b3)) = Xor(Twice(a3), Twice(b3))
  BY <1>6, TwiceOfXor
<1>8. Eight(a) = Twice(a3) /\ Eight(b) = Twice(b3)
  BY <1>1, <1>3, <1>5 DEF Eight
<1>9. Eight(Xor(a, b)) = Twice(Xor(a3, b3))
  BY <1>2, <1>4, <1>6 DEF Eight
<1> QED BY <1>7, <1>8, <1>9

(* The low byte of a register has moved to the high byte after eight steps. *)
Up(b) == Shifted(b, 8)

LEMMA EightMovesUp ==
  ASSUME NEW a \in Byte
  PROVE  a \in Crcs /\ Up(a) \in Crcs /\ Eight(a) = Up(a)
<1>1. a \in SUBSET (0 .. 7)
  BY DEF Byte
<1>2. Shifted(a, 0) = a
  <2>1. \A b \in a : b + 0 = b
    BY <1>1
  <2> QED BY <2>1 DEF Shifted
<1>3. a \in Crcs
  BY <1>1 DEF Crcs
<1> DEFINE s(k) == Shifted(a, k)
<1>4. \A k \in 0 .. 7 : Register(s(k)) = s(k + 1) /\ s(k + 1) \in Crcs
  BY <1>1, RegisterMovesUp
<1>5. /\ Register(s(0)) = s(1) /\ Register(s(1)) = s(2) /\ Register(s(2)) = s(3) /\ Register(s(3)) = s(4)
      /\ Register(s(4)) = s(5) /\ Register(s(5)) = s(6) /\ Register(s(6)) = s(7) /\ Register(s(7)) = s(8)
      /\ s(8) \in Crcs
  <2>1. /\ 0 + 1 = 1 /\ 1 + 1 = 2 /\ 2 + 1 = 3 /\ 3 + 1 = 4 /\ 4 + 1 = 5 /\ 5 + 1 = 6 /\ 6 + 1 = 7 /\ 7 + 1 = 8
        /\ {0, 1, 2, 3, 4, 5, 6, 7} \subseteq 0 .. 7
    OBVIOUS
  <2> HIDE DEF s
  <2> QED BY <1>4, <2>1
<1>6. s(0) = a /\ s(8) = Up(a)
  BY <1>2 DEF Up
<1> HIDE DEF s
<1>7. Eight(s(0)) = s(8)
  BY <1>5 DEF Eight, Twice
<1> QED BY <1>3, <1>5, <1>6, <1>7

-----------------------------------------------------------------------------
(* The shift register over bytes, a byte at a time.                         *)
Stepped(c, b) == Eight(Xor(c, Up(b)))

LEMMA SteppedIsCrc ==
  ASSUME NEW c \in Crcs, NEW b \in Byte
  PROVE  Xor(c, Up(b)) \in Crcs /\ Stepped(c, b) \in Crcs
<1>1. Up(b) \in Crcs
  BY EightMovesUp
<1>2. Xor(c, Up(b)) \in Crcs
  BY <1>1, CrcXor
<1> QED BY <1>2, EightOfXor DEF Stepped

ByteRun(crc, bytes, n, f) ==
  /\ f[0] = crc /\ \A i \in 0 .. n : f[i] \in Crcs
  /\ \A i \in 1 .. n : f[i] = Stepped(f[i - 1], bytes[i])

LEMMA ByteRunIsOne ==
  ASSUME NEW n \in Nat, NEW crc, NEW bytes, NEW f, NEW g,
         ByteRun(crc, bytes, n, f), ByteRun(crc, bytes, n, g)
  PROVE  \A i \in 0 .. n : f[i] = g[i]
<1> DEFINE good == {i \in 0 .. n : f[i] = g[i]}
<1>1. 0 \in good
  BY DEF ByteRun
<1>2. ASSUME NEW i \in 1 .. n, i - 1 \in good PROVE i \in good
  <2>1. f[i] = Stepped(f[i - 1], bytes[i]) /\ g[i] = Stepped(g[i - 1], bytes[i])
    BY DEF ByteRun
  <2> QED BY <1>2, <2>1
<1>3. \A i \in 0 .. n : i \in good
  <2> HIDE DEF good
  <2> QED BY <1>1, <1>2, AllAlong
<1> QED BY <1>3

(* The register bit by bit.                                                 *)
BitSteps(bytes, k, c) ==
  IF k % 8 = 1 THEN Register(Xor(c, Shifted(bytes[(k + 7) \div 8], 8))) ELSE Register(c)
CrcDefines(crc, bytes, m, f) ==
  f = [k \in 0 .. m |-> IF k = 0 THEN crc ELSE BitSteps(bytes, k, f[k - 1])]

LEMMA BitStepIsCrc ==
  ASSUME NEW n \in Nat, NEW bytes \in [1 .. n -> Byte], NEW k \in 1 .. 8 * n, NEW c \in Crcs
  PROVE  BitSteps(bytes, k, c) \in Crcs
<1>1. (k + 7) \div 8 \in 1 .. n
  OBVIOUS
<1>2. bytes[(k + 7) \div 8] \in Byte
  BY <1>1
<1>3. Shifted(bytes[(k + 7) \div 8], 8) \in Crcs
  BY <1>2, EightMovesUp DEF Up
<1>4. Xor(c, Shifted(bytes[(k + 7) \div 8], 8)) \in Crcs
  BY <1>3, CrcXor
<1> QED BY <1>4, RegisterHas DEF BitSteps

LEMMA CrcIsARun ==
  ASSUME NEW n \in Nat, NEW bytes \in [1 .. n -> Byte], NEW crc \in Crcs
  PROVE  \E f : ByteRun(crc, bytes, n, f) /\ Crc16(crc, bytes) = f[n]
<1> DEFINE m == 8 * n
           F == [p \in (1 .. m) \X Crcs |-> BitSteps(bytes, p[1], p[2])]
<1>1. m \in Nat /\ Len(bytes) = n
  OBVIOUS
<1>2. F \in StepFunctions(m, Crcs)
  <2>1. ASSUME NEW p \in (1 .. m) \X Crcs PROVE BitSteps(bytes, p[1], p[2]) \in Crcs
    <3>1. p[1] \in 1 .. 8 * n /\ p[2] \in Crcs
      OBVIOUS
    <3> QED BY <3>1, BitStepIsCrc
  <2> QED BY <2>1 DEF StepFunctions
<1>3. \A k \in 1 .. m : \A c \in Crcs : F[<<k, c>>] = BitSteps(bytes, k, c)
  OBVIOUS
<1> HIDE DEF F
<1>4. PICK h : Runs(m, Crcs, crc, F, h)
  BY <1>1, <1>2, RunExists
<1>5. CrcDefines(crc, bytes, m, h)
  <2>1. h = [k \in 0 .. m |-> h[k]] /\ h[0] = crc
    BY <1>4 DEF Runs
  <2>2. ASSUME NEW k \in 0 .. m PROVE h[k] = IF k = 0 THEN crc ELSE BitSteps(bytes, k, h[k - 1])
    <3>1. CASE k = 0
      BY <2>1, <3>1
    <3>2. CASE k # 0
      <4>1. k \in 1 .. m /\ k - 1 \in 0 .. m
        BY <1>1, <3>2
      <4>2. h[k] = F[<<k, h[k - 1]>>] /\ h[k - 1] \in Crcs
        BY <1>4, <4>1 DEF Runs
      <4> QED BY <1>3, <3>2, <4>1, <4>2
    <3> QED BY <3>1, <3>2
  <2> HIDE DEF m
  <2>3. [k \in 0 .. m |-> h[k]] = [k \in 0 .. m |-> IF k = 0 THEN crc ELSE BitSteps(bytes, k, h[k - 1])]
    BY <2>2
  <2> QED BY <2>1, <2>3 DEF CrcDefines
<1>6. PICK g : g = CHOOSE f : CrcDefines(crc, bytes, m, f)
  OBVIOUS
<1>7. CrcDefines(crc, bytes, m, g)
  BY <1>5, <1>6, Zenon
<1>8. Crc16(crc, bytes) = g[m]
  BY <1>1, <1>6 DEF Crc16, CrcDefines, BitSteps
<1>9. /\ g[0] = crc
      /\ \A k \in 1 .. m : g[k] = BitSteps(bytes, k, g[k - 1])
  <2>1. g[0] = crc
    BY <1>1, <1>7 DEF CrcDefines
  <2>2. ASSUME NEW k \in 1 .. m PROVE g[k] = BitSteps(bytes, k, g[k - 1])
    <3>1. k \in 0 .. m /\ k # 0
      OBVIOUS
    <3> HIDE DEF m
    <3> QED BY <1>7, <3>1 DEF CrcDefines
  <2> QED BY <2>1, <2>2
<1> DEFINE f == [i \in 0 .. n |-> g[8 * i]]
<1>10. ASSUME NEW i \in 1 .. n, f[i - 1] \in Crcs PROVE f[i] = Stepped(f[i - 1], bytes[i]) /\ f[i] \in Crcs
  <2>1. PICK a : a = 8 * (i - 1)
    OBVIOUS
  <2>2. a \in 0 .. m /\ a + 8 = 8 * i /\ \A j \in 1 .. 8 : a + j \in 1 .. m
    BY <2>1
  <2>3. f[i - 1] = g[a] /\ f[i] = g[a + 8]
    BY <2>1, <2>2
  <2>4. \A j \in 2 .. 8 : (a + j) % 8 # 1
    BY <2>1
  <2>5. (a + 1) % 8 = 1 /\ (a + 1 + 7) \div 8 = i
    BY <2>1
  <2>6. /\ a + 1 - 1 = a /\ a + 2 - 1 = a + 1 /\ a + 3 - 1 = a + 2 /\ a + 4 - 1 = a + 3 /\ a + 5 - 1 = a + 4
        /\ a + 6 - 1 = a + 5 /\ a + 7 - 1 = a + 6 /\ a + 8 - 1 = a + 7
        /\ {2, 3, 4, 5, 6, 7, 8} \subseteq 2 .. 8 /\ {1, 2, 3, 4, 5, 6, 7, 8} \subseteq 1 .. 8
    BY <2>2
  <2> HIDE DEF m, f
  <2>7. g[a + 1] = Register(Xor(g[a], Up(bytes[i])))
    <3>1. g[a + 1] = BitSteps(bytes, a + 1, g[a])
      BY <1>9, <2>2, <2>6
    <3> QED BY <2>5, <3>1 DEF BitSteps, Up
  <2>8. /\ g[a + 2] = Register(g[a + 1]) /\ g[a + 3] = Register(g[a + 2]) /\ g[a + 4] = Register(g[a + 3])
        /\ g[a + 5] = Register(g[a + 4]) /\ g[a + 6] = Register(g[a + 5]) /\ g[a + 7] = Register(g[a + 6])
        /\ g[a + 8] = Register(g[a + 7])
    <3>1. ASSUME NEW j \in 2 .. 8 PROVE g[a + j] = Register(g[a + j - 1])
      <4>1. j \in 1 .. 8
        OBVIOUS
      <4>2. PICK k : k = a + j
        OBVIOUS
      <4>3. k \in 1 .. m /\ k % 8 # 1
        BY <2>2, <2>4, <4>1, <4>2
      <4>4. g[k] = BitSteps(bytes, k, g[k - 1])
        BY <1>9, <4>3
      <4>5. BitSteps(bytes, k, g[k - 1]) = Register(g[k - 1])
        BY <4>3 DEF BitSteps
      <4>6. k - 1 = a + j - 1
        BY <2>1, <4>2
      <4> QED BY <4>2, <4>4, <4>5, <4>6, Zenon
    <3> QED BY <2>6, <3>1
  <2>9. g[a + 8] = Eight(Xor(g[a], Up(bytes[i])))
    BY <2>7, <2>8 DEF Eight, Twice
  <2>10. bytes[i] \in Byte
    OBVIOUS
  <2> QED BY <1>10, <2>3, <2>9, <2>10, SteppedIsCrc DEF Stepped
<1>11. f[0] = crc /\ f[n] = g[m]
  BY <1>1, <1>9
<1>12. \A i \in 0 .. n : f[i] \in Crcs
  <2> DEFINE good == {i \in 0 .. n : f[i] \in Crcs}
  <2> HIDE DEF f
  <2>1. 0 \in good
    BY <1>11
  <2>2. ASSUME NEW i \in 1 .. n, i - 1 \in good PROVE i \in good
    BY <1>10, <2>2
  <2>3. \A i \in 0 .. n : i \in good
    <3> HIDE DEF good
    <3> QED BY <2>1, <2>2, AllAlong
  <2> QED BY <2>3
<1> HIDE DEF f
<1>13. ByteRun(crc, bytes, n, f)
  <2>1. ASSUME NEW i \in 1 .. n PROVE f[i] = Stepped(f[i - 1], bytes[i])
    <3>1. f[i - 1] \in Crcs
      <4>1. i - 1 \in 0 .. n
        OBVIOUS
      <4> QED BY <1>12, <4>1
    <3> QED BY <1>10, <3>1
  <2> QED BY <1>11, <1>12, <2>1 DEF ByteRun
<1> QED BY <1>8, <1>11, <1>13

(* ... and all of it: the register after the bytes is where any such run    *)
(* ends.                                                                    *)
LEMMA CrcIsTheEnd ==
  ASSUME NEW n \in Nat, NEW bytes \in [1 .. n -> Byte], NEW crc \in Crcs, NEW f,
         ByteRun(crc, bytes, n, f)
  PROVE  Crc16(crc, bytes) = f[n] /\ Crc16(crc, bytes) \in Crcs
<1>1. PICK g : ByteRun(crc, bytes, n, g) /\ Crc16(crc, bytes) = g[n]
  BY CrcIsARun
<1>2. n \in 0 .. n
  OBVIOUS
<1>3. \A i \in 0 .. n : f[i] = g[i]
  BY <1>1, ByteRunIsOne
<1>4. f[n] \in Crcs
  BY <1>2 DEF ByteRun
<1> QED BY <1>1, <1>2, <1>3, <1>4

(* The register over the first bytes, then from there over the rest.        *)
LEMMA CrcInParts ==
  ASSUME NEW n \in Nat, NEW bytes \in [1 .. n -> Byte], NEW crc \in Crcs, NEW k \in 0 .. n
  PROVE  /\ SubSeq(bytes, 1, k) \in [1 .. k -> Byte] /\ SubSeq(bytes, k + 1, n) \in [1 .. n - k -> Byte]
         /\ Crc16(crc, SubSeq(bytes, 1, k)) \in Crcs
         /\ Crc16(Crc16(crc, SubSeq(bytes, 1, k)), SubSeq(bytes, k + 1, n)) = Crc16(crc, bytes)
<1>1. PICK f : ByteRun(crc, bytes, n, f)
  BY CrcIsARun
<1>2. Crc16(crc, bytes) = f[n]
  BY <1>1, CrcIsTheEnd
<1>3. PICK a, b : a = SubSeq(bytes, 1, k) /\ b = SubSeq(bytes, k + 1, n)
  OBVIOUS
<1>4. k \in Nat /\ n - k \in Nat
  OBVIOUS
<1>5. a \in [1 .. k -> Byte] /\ \A i \in 1 .. k : a[i] = bytes[i]
  <2>1. a = [i \in 1 .. k |-> bytes[i]]
    BY <1>3
  <2>2. \A i \in 1 .. k : i \in 1 .. n
    OBVIOUS
  <2> QED BY <2>1, <2>2
<1>6. b \in [1 .. n - k -> Byte] /\ \A i \in 1 .. n - k : b[i] = bytes[k + i]
  <2>1. b = [i \in 1 .. n - k |-> bytes[k + i]]
    <3>1. b = [i \in 1 .. 1 + n - (k + 1) |-> bytes[i + (k + 1) - 1]]
      BY <1>3
    <3>2. 1 + n - (k + 1) = n - k
      OBVIOUS
    <3>3. \A i \in 1 .. n - k : i + (k + 1) - 1 = k + i
      OBVIOUS
    <3> QED BY <3>1, <3>2, <3>3
  <2>2. \A i \in 1 .. n - k : k + i \in 1 .. n
    OBVIOUS
  <2> QED BY <2>1, <2>2
<1>7. ByteRun(crc, a, k, f)
  <2>1. \A i \in 0 .. k : i \in 0 .. n
    OBVIOUS
  <2>2. ASSUME NEW i \in 1 .. k PROVE f[i] = Stepped(f[i - 1], a[i])
    <3>1. i \in 1 .. n
      OBVIOUS
    <3> QED BY <1>1, <1>5, <3>1 DEF ByteRun
  <2> QED BY <1>1, <2>1, <2>2 DEF ByteRun
<1>8. Crc16(crc, a) = f[k] /\ f[k] \in Crcs
  BY <1>4, <1>5, <1>7, CrcIsTheEnd
<1> DEFINE g == [i \in 0 .. n - k |-> f[k + i]]
<1>9. g[0] = f[k] /\ g[n - k] = f[n]
  BY <1>4
<1>10. ByteRun(f[k], b, n - k, g)
  <2>1. ASSUME NEW i \in 0 .. n - k PROVE g[i] \in Crcs
    <3>1. k + i \in 0 .. n
      OBVIOUS
    <3> QED BY <1>1, <3>1 DEF ByteRun
  <2>2. ASSUME NEW i \in 1 .. n - k PROVE g[i] = Stepped(g[i - 1], b[i])
    <3>1. PICK j : j = k + i
      OBVIOUS
    <3>2. j \in 1 .. n /\ j - 1 = k + (i - 1) /\ i - 1 \in 0 .. n - k /\ i \in 0 .. n - k
      BY <3>1
    <3>3. g[i] = f[j] /\ g[i - 1] = f[j - 1] /\ b[i] = bytes[j]
      BY <1>6, <3>1, <3>2
    <3>4. f[j] = Stepped(f[j - 1], bytes[j])
      BY <1>1, <3>2 DEF ByteRun
    <3> QED BY <3>3, <3>4
  <2> HIDE DEF g
  <2> QED BY <1>9, <2>1, <2>2 DEF ByteRun
<1> HIDE DEF g
<1>11. Crc16(f[k], b) = g[n - k]
  BY <1>4, <1>6, <1>8, <1>10, CrcIsTheEnd
<1> QED BY <1>2, <1>3, <1>5, <1>6, <1>8, <1>9, <1>11

-----------------------------------------------------------------------------
(* The tables: a byte, and one, two and three more bytes of zeros.          *)
LEMMA XorOfFour ==
  ASSUME NEW a, NEW b, NEW c, NEW d
  PROVE  /\ Xor(a, b) = Xor(b, a) /\ Xor(Xor(a, b), c) = Xor(a, Xor(b, c))
         /\ Xor(a, {}) = a /\ Xor({}, a) = a
BY DEF Xor

LEMMA ByteXor ==
  ASSUME NEW a \in Byte, NEW b \in Byte
  PROVE  Xor(a, b) \in Byte
BY DEF Byte, Xor

LEMMA UpHas ==
  ASSUME NEW s, s \subseteq Int
  PROVE  Up(s) \subseteq Int /\ \A x \in Int : x \in Up(s) <=> x - 8 \in s
<1>1. Up(s) = {b + 8 : b \in s}
  BY DEF Up, Shifted
<1>2. Up(s) \subseteq Int
  BY <1>1
<1>3. ASSUME NEW x \in Int PROVE x \in Up(s) <=> x - 8 \in s
  <2>1. ASSUME x \in Up(s) PROVE x - 8 \in s
    <3>1. PICK b \in s : x = b + 8
      BY <1>1, <2>1
    <3>2. b \in Int /\ x - 8 = b
      BY <3>1
    <3> QED BY <3>2
  <2>2. ASSUME x - 8 \in s PROVE x \in Up(s)
    <3>1. x = (x - 8) + 8
      OBVIOUS
    <3> QED BY <1>1, <2>2, <3>1, Zenon
  <2> QED BY <2>1, <2>2
<1> QED BY <1>2, <1>3

LEMMA UpOfXor ==
  ASSUME NEW a \in Byte, NEW b \in Byte
  PROVE  Up(Xor(a, b)) = Xor(Up(a), Up(b))
<1>1. a \subseteq Int /\ b \subseteq Int
  BY DEF Byte
<1>2. \A s : s \subseteq Int => (Up(s) \subseteq Int /\ \A x \in Int : x \in Up(s) <=> x - 8 \in s)
  BY UpHas
<1>4. PICK c : c = Xor(a, b)
  OBVIOUS
<1>5. c \subseteq Int /\ \A x : x \in c <=> ~ (x \in a <=> x \in b)
  BY <1>1, <1>4, XorHas DEF Xor
<1>6. PICK ua, ub, uc : ua = Up(a) /\ ub = Up(b) /\ uc = Up(c)
  OBVIOUS
<1>7. /\ ua \subseteq Int /\ ub \subseteq Int /\ uc \subseteq Int
      /\ \A x \in Int : (x \in ua <=> x - 8 \in a) /\ (x \in ub <=> x - 8 \in b) /\ (x \in uc <=> x - 8 \in c)
  BY <1>1, <1>2, <1>5, <1>6
<1>8. uc = Xor(ua, ub)
  <2>1. \A x \in Int : x \in uc <=> ~ (x \in ua <=> x \in ub)
    BY <1>5, <1>7
  <2>2. \A x : x \in Xor(ua, ub) <=> ~ (x \in ua <=> x \in ub)
    BY XorHas
  <2>3. Xor(ua, ub) \subseteq Int
    BY <1>7 DEF Xor
  <2> QED BY <1>7, <2>1, <2>2, <2>3
<1> QED BY <1>4, <1>6, <1>8

(* The register is its high byte and its low byte.                          *)
LEMMA HighAndLow ==
  ASSUME NEW c \in Crcs
  PROVE  High(c) \in Byte /\ Low(c) \in Byte /\ c = Xor(Up(High(c)), Low(c))
<1>1. PICK h, l : h = High(c) /\ l = Low(c)
  OBVIOUS
<1>2. \A x \in Int : (x \in h <=> x + 8 \in c /\ x \in 0 .. 7) /\ (x \in l <=> x \in c /\ x \in 0 .. 7)
  <2>1. \A x \in Int : x \in Shifted(c, -8) <=> x + 8 \in c
    <3>1. \A b \in c : b \in 0 .. 15
      BY DEF Crcs
    <3> QED BY <3>1 DEF Shifted
  <2> QED BY <1>1, <2>1 DEF High, Low
<1>3. h \in Byte /\ l \in Byte
  BY <1>1 DEF High, Low, Byte
<1>4. PICK u : u = Up(h)
  OBVIOUS
<1>5. u \in Crcs /\ l \in Crcs /\ \A x \in Int : x \in u <=> x - 8 \in h
  <2>1. h \subseteq Int
    BY <1>3 DEF Byte
  <2> QED BY <1>3, <1>4, <2>1, EightMovesUp, UpHas
<1>6. PICK s : s = Xor(u, l)
  OBVIOUS
<1>7. s \in Crcs /\ \A x : x \in s <=> ~ (x \in u <=> x \in l)
  BY <1>5, <1>6, CrcXor, XorHas
<1>8. ASSUME NEW x \in 0 .. 15 PROVE x \in s <=> x \in c
  <2>1. x - 8 \in Int /\ (x - 8) + 8 = x
    OBVIOUS
  <2>2. x - 8 \in h <=> x \in c /\ x - 8 \in 0 .. 7
    BY <1>2, <2>1
  <2>3. x - 8 \in 0 .. 7 <=> x \notin 0 .. 7
    OBVIOUS
  <2> QED BY <1>2, <1>5, <1>7, <2>2, <2>3
<1>9. s = c
  BY <1>7, <1>8, SameCrc
<1> QED BY <1>1, <1>3, <1>4, <1>6, <1>9

LEMMA TableIs ==
  ASSUME NEW b \in Byte
  PROVE  s_table[b] = Eight(Up(b)) /\ s_table[b] \in Crcs
<1>1. PICK w : w = <<b>>
  OBVIOUS
<1>2. w \in [1 .. 1 -> Byte] /\ w[1] = b
  BY <1>1
<1>3. {} \in Crcs
  BY DEF Crcs
<1>4. PICK f : ByteRun({}, w, 1, f) /\ Crc16({}, w) = f[1]
  BY <1>2, <1>3, CrcIsARun
<1>5. f[1] = Stepped(f[0], w[1]) /\ f[0] = {} /\ f[1] \in Crcs
  <2>1. 1 \in 1 .. 1 /\ 1 \in 0 .. 1 /\ 1 - 1 = 0
    OBVIOUS
  <2> QED BY <1>4, <2>1 DEF ByteRun
<1>6. Stepped({}, b) = Eight(Up(b))
  BY XorOfFour DEF Stepped
<1>7. s_table[b] = Crc16({}, w)
  BY <1>1 DEF s_table
<1> QED BY <1>2, <1>4, <1>5, <1>6, <1>7

LEMMA AdvancedIs ==
  ASSUME NEW c \in Crcs, NEW b \in Byte
  PROVE  Advanced(c, b) = Stepped(c, b)
<1>1. PICK h, l : h = High(c) /\ l = Low(c)
  OBVIOUS
<1>2. h \in Byte /\ l \in Byte /\ c = Xor(Up(h), l)
  BY <1>1, HighAndLow
<1>3. PICK x : x = Xor(h, b)
  OBVIOUS
<1>4. x \in Byte /\ Up(x) = Xor(Up(h), Up(b))
  BY <1>2, <1>3, ByteXor, UpOfXor
<1>5. /\ Up(x) \in Crcs /\ l \in Crcs /\ Eight(l) = Up(l)
  BY <1>2, <1>4, EightMovesUp
<1>6. Xor(c, Up(b)) = Xor(l, Up(x))
  <2>1. PICK uh, ub : uh = Up(h) /\ ub = Up(b)
    OBVIOUS
  <2>2. Xor(Xor(uh, l), ub) = Xor(l, Xor(uh, ub))
    BY DEF Xor
  <2> QED BY <1>2, <1>4, <2>1, <2>2
<1>7. Eight(Xor(l, Up(x))) = Xor(Up(l), Eight(Up(x)))
  BY <1>5, EightOfXor
<1>8. s_table[x] = Eight(Up(x))
  BY <1>4, TableIs
<1>9. Advanced(c, b) = Xor(Up(l), s_table[x])
  BY <1>1, <1>3 DEF Advanced, Up
<1> QED BY <1>6, <1>7, <1>8, <1>9 DEF Stepped

LEMMA TablesAre ==
  ASSUME NEW b \in Byte
  PROVE  /\ s_table[b] = Eight(Up(b)) /\ s_table1[b] = Eight(Eight(Up(b)))
         /\ s_table2[b] = Eight(Eight(Eight(Up(b)))) /\ s_table3[b] = Eight(Eight(Eight(Eight(Up(b)))))
         /\ Up(b) \in Crcs /\ Eight(Up(b)) \in Crcs /\ Eight(Eight(Up(b))) \in Crcs
         /\ Eight(Eight(Eight(Up(b)))) \in Crcs /\ Eight(Eight(Eight(Eight(Up(b))))) \in Crcs
<1>1. Up(b) \in Crcs
  BY EightMovesUp
<1>2. PICK e1, e2, e3, e4 : e1 = Eight(Up(b)) /\ e2 = Eight(e1) /\ e3 = Eight(e2) /\ e4 = Eight(e3)
  OBVIOUS
<1>3. e1 \in Crcs /\ e2 \in Crcs /\ e3 \in Crcs /\ e4 \in Crcs
  <2>1. \A c \in Crcs : Eight(c) \in Crcs
    BY EightOfXor
  <2> QED BY <1>1, <1>2, <2>1
<1>4. {} \in Byte
  BY DEF Byte
<1>5. \A c \in Crcs : Advanced(c, {}) = Eight(c)
  <2>1. Up({}) = {}
    BY DEF Up, Shifted
  <2>2. \A c \in Crcs : Advanced(c, {}) = Stepped(c, {})
    BY <1>4, AdvancedIs
  <2>3. \A c : Xor(c, {}) = c
    BY XorOfFour
  <2> QED BY <2>1, <2>2, <2>3 DEF Stepped
<1>6. s_table[b] = e1
  BY <1>2, TableIs
<1>7. s_table1[b] = e2
  <2>1. s_table1[b] = Advanced(s_table[b], {})
    BY DEF s_table1
  <2> QED BY <1>2, <1>3, <1>5, <1>6, <2>1
<1>8. s_table2[b] = e3
  <2>1. s_table2[b] = Advanced(s_table1[b], {})
    BY DEF s_table2
  <2> QED BY <1>2, <1>3, <1>5, <1>7, <2>1
<1>9. s_table3[b] = e4
  <2>1. s_table3[b] = Advanced(s_table2[b], {})
    BY DEF s_table3
  <2> QED BY <1>2, <1>3, <1>5, <1>8, <2>1
<1> QED BY <1>1, <1>2, <1>3, <1>6, <1>7, <1>8, <1>9

(* Four bytes at once through the four tables are four bytes.               *)
LEMMA FourBytes ==
  ASSUME NEW c \in Crcs, NEW s \in [1 .. 4 -> Byte]
  PROVE  FoldedByte(c, s) = Stepped(Stepped(Stepped(Stepped(c, s[1]), s[2]), s[3]), s[4])
<1>1. PICK h, l, b1, b2, b3, b4 :
        h = High(c) /\ l = Low(c) /\ b1 = s[1] /\ b2 = s[2] /\ b3 = s[3] /\ b4 = s[4]
  OBVIOUS
<1>2. h \in Byte /\ l \in Byte /\ c = Xor(Up(h), l)
  BY <1>1, HighAndLow
<1>3. b1 \in Byte /\ b2 \in Byte /\ b3 \in Byte /\ b4 \in Byte
  BY <1>1
<1>4. PICK x, y : x = Xor(h, b1) /\ y = Xor(l, b2)
  OBVIOUS
<1>5. x \in Byte /\ y \in Byte /\ Up(x) = Xor(Up(h), Up(b1)) /\ Up(y) = Xor(Up(l), Up(b2))
  BY <1>2, <1>3, <1>4, ByteXor, UpOfXor
<1>6. PICK x0, x1, x2, x3, x4 :
        x0 = Up(x) /\ x1 = Eight(x0) /\ x2 = Eight(x1) /\ x3 = Eight(x2) /\ x4 = Eight(x3)
  OBVIOUS
<1>7. PICK y0, y1, y2, y3 : y0 = Up(y) /\ y1 = Eight(y0) /\ y2 = Eight(y1) /\ y3 = Eight(y2)
  OBVIOUS
<1>8. PICK z0, z1, z2 : z0 = Up(b3) /\ z1 = Eight(z0) /\ z2 = Eight(z1)
  OBVIOUS
<1>9. PICK v0, v1 : v0 = Up(b4) /\ v1 = Eight(v0)
  OBVIOUS
<1>10. /\ x0 \in Crcs /\ x1 \in Crcs /\ x2 \in Crcs /\ x3 \in Crcs /\ s_table3[x] = x4
       /\ y0 \in Crcs /\ y1 \in Crcs /\ y2 \in Crcs /\ s_table2[y] = y3
       /\ z0 \in Crcs /\ z1 \in Crcs /\ s_table1[b3] = z2 /\ v0 \in Crcs /\ s_table[b4] = v1
  BY <1>3, <1>5, <1>6, <1>7, <1>8, <1>9, TablesAre
<1>11. Stepped(c, b1) = Xor(x1, Up(l))
  <2>1. PICK uh, ub : uh = Up(h) /\ ub = Up(b1)
    OBVIOUS
  <2>2. Xor(Xor(uh, l), ub) = Xor(Xor(uh, ub), l)
    BY DEF Xor
  <2>3. Xor(c, Up(b1)) = Xor(x0, l)
    BY <1>2, <1>5, <1>6, <2>1, <2>2
  <2>4. l \in Crcs /\ Eight(l) = Up(l)
    BY <1>2, EightMovesUp
  <2>5. Eight(Xor(x0, l)) = Xor(x1, Up(l))
    BY <1>6, <1>10, <2>4, EightOfXor
  <2> QED BY <2>3, <2>5 DEF Stepped
<1>12. Stepped(Stepped(c, b1), b2) = Xor(x2, y1)
  <2>1. Xor(Xor(x1, Up(l)), Up(b2)) = Xor(x1, y0)
    BY <1>5, <1>7, XorOfFour
  <2>2. Eight(Xor(x1, y0)) = Xor(x2, y1)
    BY <1>6, <1>7, <1>10, EightOfXor
  <2> QED BY <1>11, <2>1, <2>2 DEF Stepped
<1>13. Stepped(Stepped(Stepped(c, b1), b2), b3) = Xor(Xor(x3, y2), z1)
  <2>1. Xor(x2, y1) \in Crcs /\ Eight(Xor(x2, y1)) = Xor(x3, y2)
    BY <1>6, <1>7, <1>10, CrcXor, EightOfXor
  <2>2. Eight(Xor(Xor(x2, y1), z0)) = Xor(Xor(x3, y2), z1)
    BY <1>8, <1>10, <2>1, EightOfXor
  <2> QED BY <1>8, <1>12, <2>2 DEF Stepped
<1>14. Stepped(Stepped(Stepped(Stepped(c, b1), b2), b3), b4) = Xor(Xor(Xor(x4, y3), z2), v1)
  <2>1. Xor(x3, y2) \in Crcs /\ Eight(Xor(x3, y2)) = Xor(x4, y3)
    BY <1>6, <1>7, <1>10, CrcXor, EightOfXor
  <2>2. PICK w : w = Xor(Xor(x3, y2), z1)
    OBVIOUS
  <2>3. w \in Crcs /\ Eight(w) = Xor(Xor(x4, y3), z2)
    BY <1>8, <1>10, <2>1, <2>2, CrcXor, EightOfXor
  <2>4. Eight(Xor(w, v0)) = Xor(Eight(w), v1)
    BY <1>9, <1>10, <2>3, EightOfXor
  <2> QED BY <1>9, <1>13, <2>2, <2>3, <2>4 DEF Stepped
<1>15. FoldedByte(c, s) = Xor(Xor(x4, y3), Xor(z2, v1))
  <2>1. Len(s) = 4
    OBVIOUS
  <2>2. FoldedByte(c, s) = Xor(Xor(s_table3[x], s_table2[y]), Xor(s_table1[b3], s_table[b4]))
    BY <1>1, <1>4, <2>1 DEF FoldedByte
  <2> QED BY <1>10, <2>2
<1>16. Xor(Xor(x4, y3), Xor(z2, v1)) = Xor(Xor(Xor(x4, y3), z2), v1)
  BY XorOfFour
<1> QED BY <1>1, <1>14, <1>15, <1>16

LEMMA OneByte ==
  ASSUME NEW c \in Crcs, NEW b \in Byte
  PROVE  FoldedByte(c, <<b>>) = Stepped(c, b)
<1>1. Len(<<b>>) = 1 /\ <<b>>[1] = b
  OBVIOUS
<1> QED BY <1>1, AdvancedIs DEF FoldedByte

-----------------------------------------------------------------------------
(* The pieces the code takes: whole fours, then what is left byte by byte.  *)
Pieces(bytes) == Fours(bytes) \o Ones(bytes)
FoldDefines(crc, pieces, g) ==
  g = [i \in 0 .. Len(pieces) |-> IF i = 0 THEN crc ELSE FoldedByte(g[i - 1], pieces[i])]

CutInFours(pieces, bytes, n, q, r) ==
  /\ q \in Nat /\ r \in Nat /\ n = 4 * q + r /\ Len(pieces) = q + r
  /\ \A i \in 1 .. q : /\ pieces[i] \in [1 .. 4 -> Byte]
                       /\ \A j \in 1 .. 4 : pieces[i][j] = bytes[4 * (i - 1) + j]
  /\ \A j \in 1 .. r : pieces[q + j] = <<bytes[4 * q + j]>>

LEMMA TwoPartsJoined ==
  ASSUME NEW S, NEW s \in Seq(S), NEW t \in Seq(S)
  PROVE  /\ Len(s \o t) = Len(s) + Len(t) /\ \A i \in 1 .. Len(s) : (s \o t)[i] = s[i]
         /\ \A j \in 1 .. Len(t) : (s \o t)[Len(s) + j] = t[j]
OBVIOUS

LEMMA PiecesAre ==
  ASSUME NEW n \in Nat, NEW bytes \in [1 .. n -> Byte]
  PROVE  CutInFours(Pieces(bytes), bytes, n, n \div 4, n % 4)
<1>0. PICK q, r : q = n \div 4 /\ r = n % 4
  OBVIOUS
<1>1. q \in Nat /\ r \in Nat /\ n = 4 * q + r /\ Len(bytes) = n
  BY <1>0
<1>2. PICK a, b : a = Fours(bytes) /\ b = Ones(bytes)
  OBVIOUS
<1>3. a = [i \in 1 .. q |-> SubSeq(bytes, 4 * i - 3, 4 * i)]
  BY <1>0, <1>1, <1>2 DEF Fours
<1>4. b = [i \in 1 .. r |-> <<bytes[4 * q + i]>>]
  BY <1>0, <1>1, <1>2 DEF Ones
<1>5. Len(a) = q /\ Len(b) = r
  BY <1>1, <1>3, <1>4
<1>6. /\ Len(a \o b) = q + r /\ \A i \in 1 .. q : (a \o b)[i] = a[i]
      /\ \A j \in 1 .. r : (a \o b)[q + j] = b[j]
  <2>1. PICK S : S = {a[i] : i \in 1 .. q} \cup {b[i] : i \in 1 .. r}
    OBVIOUS
  <2>2. a \in Seq(S) /\ b \in Seq(S)
    <3>1. a \in [1 .. q -> S]
      BY <1>3, <2>1
    <3>2. b \in [1 .. r -> S]
      BY <1>4, <2>1
    <3> QED BY <1>1, <3>1, <3>2
  <2>3. /\ Len(a \o b) = Len(a) + Len(b) /\ \A i \in 1 .. Len(a) : (a \o b)[i] = a[i]
        /\ \A j \in 1 .. Len(b) : (a \o b)[Len(a) + j] = b[j]
    BY <2>2, TwoPartsJoined
  <2> QED BY <1>5, <2>3, Zenon
<1>7. ASSUME NEW i \in 1 .. q
      PROVE  a[i] \in [1 .. 4 -> Byte] /\ \A j \in 1 .. 4 : a[i][j] = bytes[4 * (i - 1) + j]
  <2>1. PICK m, k, s : m = 4 * i - 3 /\ k = 4 * i /\ s = SubSeq(bytes, m, k)
    OBVIOUS
  <2>2. m \in Int /\ k \in Int /\ 1 + k - m = 4
    BY <1>1, <2>1
  <2>3. s = [j \in 1 .. 1 + k - m |-> bytes[j + m - 1]]
    BY <2>1
  <2>4. \A j \in 1 .. 4 : j + m - 1 = 4 * (i - 1) + j /\ 4 * (i - 1) + j \in 1 .. n
    BY <1>1, <2>1
  <2>5. s = [j \in 1 .. 4 |-> bytes[4 * (i - 1) + j]]
    BY <2>2, <2>3, <2>4
  <2>6. a[i] = s
    BY <1>3, <2>1
  <2>7. s \in [1 .. 4 -> Byte] /\ \A j \in 1 .. 4 : s[j] = bytes[4 * (i - 1) + j]
    BY <2>4, <2>5
  <2> QED BY <2>6, <2>7
<1>8. \A j \in 1 .. r : b[j] = <<bytes[4 * q + j]>>
  BY <1>4
<1>9. Pieces(bytes) = a \o b
  BY <1>2 DEF Pieces
<1>10. CutInFours(a \o b, bytes, n, q, r)
  BY <1>1, <1>6, <1>7, <1>8, Zenon DEF CutInFours
<1> QED BY <1>0, <1>9, <1>10

(* After each piece the code's register is the shift register after the     *)
(* bytes of the pieces so far.                                              *)
Place(q, i) == IF i <= q THEN 4 * i ELSE 3 * q + i

LEMMA PieceIsItsBytes ==
  ASSUME NEW n \in Nat, NEW bytes \in [1 .. n -> Byte], NEW crc \in Crcs, NEW f,
         ByteRun(crc, bytes, n, f), NEW q, NEW r, q = n \div 4, r = n % 4, NEW i \in 1 .. q + r
  PROVE  f[Place(q, i)] = FoldedByte(f[Place(q, i - 1)], Pieces(bytes)[i])
<1>0. CutInFours(Pieces(bytes), bytes, n, q, r)
  BY PiecesAre
<1>1. /\ q \in Nat /\ r \in Nat /\ n = 4 * q + r
      /\ \A k \in 1 .. q : /\ Pieces(bytes)[k] \in [1 .. 4 -> Byte]
                           /\ \A j \in 1 .. 4 : Pieces(bytes)[k][j] = bytes[4 * (k - 1) + j]
      /\ \A j \in 1 .. r : Pieces(bytes)[q + j] = <<bytes[4 * q + j]>>
  BY <1>0, Zenon DEF CutInFours
<1>a. q \in Nat /\ r \in Nat /\ n = 4 * q + r
  BY <1>1
<1>2. /\ \A k \in 0 .. n : f[k] \in Crcs
      /\ \A k \in 1 .. n : f[k] = Stepped(f[k - 1], bytes[k])
  BY DEF ByteRun
<1>3. PICK s : s = Pieces(bytes)[i]
  OBVIOUS
<1>4. CASE i <= q
  <2>1. PICK p : p = 4 * (i - 1)
    OBVIOUS
  <2>2. i \in 1 .. q /\ p \in 0 .. n /\ p + 4 \in 0 .. n
    BY <1>a, <1>4, <2>1
  <2>3. Place(q, i) = p + 4 /\ Place(q, i - 1) = p
    <3>1. i - 1 <= q /\ 4 * i = p + 4
      BY <1>1, <1>4, <2>1
    <3> QED BY <1>4, <2>1, <3>1 DEF Place
  <2>4. s \in [1 .. 4 -> Byte] /\ s[1] = bytes[p + 1] /\ s[2] = bytes[p + 2] /\ s[3] = bytes[p + 3] /\ s[4] = bytes[p + 4]
    <3>1. {1, 2, 3, 4} \subseteq 1 .. 4
      OBVIOUS
    <3> QED BY <1>1, <1>3, <2>1, <2>2, <3>1
  <2>5. /\ p + 1 \in 1 .. n /\ p + 2 \in 1 .. n /\ p + 3 \in 1 .. n /\ p + 4 \in 1 .. n
        /\ p + 1 - 1 = p /\ p + 2 - 1 = p + 1 /\ p + 3 - 1 = p + 2 /\ p + 4 - 1 = p + 3
    BY <2>2
  <2>6. /\ f[p + 1] = Stepped(f[p], s[1]) /\ f[p + 2] = Stepped(f[p + 1], s[2])
        /\ f[p + 3] = Stepped(f[p + 2], s[3]) /\ f[p + 4] = Stepped(f[p + 3], s[4])
    <3>1. PICK p1, p2, p3, p4 : p1 = p + 1 /\ p2 = p + 2 /\ p3 = p + 3 /\ p4 = p + 4
      OBVIOUS
    <3>2. /\ p1 \in 1 .. n /\ p2 \in 1 .. n /\ p3 \in 1 .. n /\ p4 \in 1 .. n
          /\ p1 - 1 = p /\ p2 - 1 = p1 /\ p3 - 1 = p2 /\ p4 - 1 = p3
      BY <2>2, <3>1
    <3>3. /\ f[p1] = Stepped(f[p1 - 1], bytes[p1]) /\ f[p2] = Stepped(f[p2 - 1], bytes[p2])
          /\ f[p3] = Stepped(f[p3 - 1], bytes[p3]) /\ f[p4] = Stepped(f[p4 - 1], bytes[p4])
      BY <1>2, <3>2
    <3>4. s[1] = bytes[p1] /\ s[2] = bytes[p2] /\ s[3] = bytes[p3] /\ s[4] = bytes[p4]
      BY <2>4, <3>1
    <3>5. /\ f[p1] = Stepped(f[p], s[1]) /\ f[p2] = Stepped(f[p1], s[2])
          /\ f[p3] = Stepped(f[p2], s[3]) /\ f[p4] = Stepped(f[p3], s[4])
      BY <3>2, <3>3, <3>4
    <3> QED BY <3>1, <3>5
  <2>7. FoldedByte(f[p], s) = f[p + 4]
    <3>1. f[p] \in Crcs
      BY <1>2, <2>2
    <3>2. FoldedByte(f[p], s) = Stepped(Stepped(Stepped(Stepped(f[p], s[1]), s[2]), s[3]), s[4])
      BY <2>4, <3>1, FourBytes
    <3> QED BY <2>6, <3>2
  <2> QED BY <1>3, <2>3, <2>7
<1>5. CASE ~ (i <= q)
  <2>1. PICK j, k : j = i - q /\ k = 4 * q + j
    OBVIOUS
  <2>2. j \in 1 .. r /\ i = q + j /\ k \in 1 .. n /\ k - 1 \in 0 .. n
    BY <1>1, <1>5, <2>1
  <2>3. Place(q, i) = k /\ Place(q, i - 1) = k - 1
    BY <1>1, <1>5, <2>1 DEF Place
  <2>4. s = <<bytes[k]>>
    BY <1>1, <1>3, <2>1, <2>2
  <2>5. bytes[k] \in Byte /\ f[k - 1] \in Crcs
    BY <1>2, <2>2
  <2>6. FoldedByte(f[k - 1], s) = Stepped(f[k - 1], bytes[k])
    BY <2>4, <2>5, OneByte
  <2> QED BY <1>2, <1>3, <2>2, <2>3, <2>6
<1> QED BY <1>4, <1>5

(* crc16_update: four bytes at a time through the tables is the shift       *)
(* register, for every register to begin with and every sequence of bytes.  *)
THEOREM TablesAreTheRegister ==
  ASSUME NEW n \in Nat, NEW bytes \in [1 .. n -> Byte], NEW crc \in Crcs
  PROVE  crc16_update(crc, bytes) = Crc16(crc, bytes)
<1>1. PICK f : ByteRun(crc, bytes, n, f)
  BY CrcIsARun
<1>2. PICK q, r : q = n \div 4 /\ r = n % 4
  OBVIOUS
<1>3. PICK pieces : pieces = Pieces(bytes)
  OBVIOUS
<1>4. q \in Nat /\ r \in Nat /\ n = 4 * q + r /\ Len(pieces) = q + r
  BY <1>2, <1>3, PiecesAre DEF CutInFours
<1>5. \A i \in 1 .. q + r : f[Place(q, i)] = FoldedByte(f[Place(q, i - 1)], pieces[i])
  BY <1>1, <1>2, <1>3, PieceIsItsBytes
<1>6. Place(q, 0) = 0 /\ f[0] = crc /\ Place(q, q + r) = n
  BY <1>1, <1>4 DEF Place, ByteRun
<1> DEFINE h == [i \in 0 .. q + r |-> f[Place(q, i)]]
<1>7. FoldDefines(crc, pieces, h)
  <2>1. ASSUME NEW i \in 0 .. q + r
        PROVE  f[Place(q, i)] = IF i = 0 THEN crc ELSE FoldedByte(h[i - 1], pieces[i])
    <3>1. CASE i = 0
      BY <1>6, <3>1
    <3>2. CASE i # 0
      <4>1. i \in 1 .. q + r /\ i - 1 \in 0 .. q + r
        BY <1>4, <3>2
      <4>2. h[i - 1] = f[Place(q, i - 1)]
        BY <4>1
      <4> QED BY <1>5, <3>2, <4>1, <4>2
    <3> QED BY <3>1, <3>2
  <2>2. h = [i \in 0 .. q + r |-> IF i = 0 THEN crc ELSE FoldedByte(h[i - 1], pieces[i])]
    BY <2>1
  <2> HIDE DEF h
  <2> QED BY <1>4, <2>2 DEF FoldDefines
<1> HIDE DEF h
<1>8. PICK g : g = CHOOSE k : FoldDefines(crc, pieces, k)
  OBVIOUS
<1>9. FoldDefines(crc, pieces, g)
  BY <1>7, <1>8, Zenon
<1>10. crc16_update(crc, bytes) = g[q + r]
  BY <1>3, <1>4, <1>8 DEF crc16_update, FoldDefines, Pieces
<1>11. \A i \in 0 .. q + r : g[i] = f[Place(q, i)]
  <2> DEFINE good == {i \in 0 .. q + r : g[i] = f[Place(q, i)]}
  <2>1. 0 \in good
    BY <1>4, <1>6, <1>9 DEF FoldDefines
  <2>2. ASSUME NEW i \in 1 .. q + r, i - 1 \in good PROVE i \in good
    <3>1. i \in 0 .. q + r /\ i # 0
      BY <1>4
    <3>2. g[i] = FoldedByte(g[i - 1], pieces[i])
      BY <1>4, <1>9, <3>1 DEF FoldDefines
    <3> QED BY <1>5, <2>2, <3>1, <3>2
  <2>3. \A i \in 0 .. q + r : i \in good
    <3>1. q + r \in Nat
      BY <1>4
    <3> HIDE DEF good
    <3> QED BY <2>1, <2>2, <3>1, AllAlong
  <2> QED BY <2>3
<1>12. g[q + r] = f[n]
  <2>1. q + r \in 0 .. q + r
    BY <1>4
  <2> QED BY <1>6, <1>11, <2>1
<1> QED BY <1>1, <1>10, <1>12, CrcIsTheEnd

-----------------------------------------------------------------------------
(* What the parity sees.  The two parities of a row xor to the sum of its   *)
(* bytes.                                                                   *)
LEMMA ParitySums ==
  ASSUME NEW sector, NEW row, Len(row) \in Nat, BytesOf(sector, row) \in [1 .. Len(row) -> Byte]
  PROVE  Xor(ecc_compute_bytes(sector, row)[1], ecc_compute_bytes(sector, row)[2]) = XorOf(BytesOf(sector, row))
<1>1. PICK v : v = FirstParity((CHOOSE g : DoublesDefine(BytesOf(sector, row), Len(row), g))[Len(row)],
                               XorOf(BytesOf(sector, row)))
  OBVIOUS
<1>2. PICK sum : sum = XorOf(BytesOf(sector, row))
  OBVIOUS
<1>3. ecc_compute_bytes(sector, row) = <<v, Xor(sum, v)>>
  BY <1>1, <1>2, ParityIsOfBytes DEF ParityFrom, ParityOf
<1>4. Xor(v, Xor(sum, v)) = sum
  BY DEF Xor
<1> QED BY <1>2, <1>3, <1>4

(* Two lists of bytes that differ in one place have different sums.         *)
LEMMA SumSeesOne ==
  ASSUME NEW n \in Nat, NEW a \in [1 .. n -> Byte], NEW b \in [1 .. n -> Byte], NEW p \in 1 .. n,
         a[p] # b[p], \A c \in 1 .. n : c # p => a[c] = b[c]
  PROVE  XorOf(a) # XorOf(b)
<1>1. PICK U : U = 0 .. 7
  OBVIOUS
<1>2. Byte = SUBSET U
  BY <1>1 DEF Byte
<1>3. a \in Terms(n, U) /\ b \in Terms(n, U)
  BY <1>2 DEF Terms
<1>4. PICK f : Sums(a, n, f) /\ XorOf(a) = f[n]
  BY <1>3, XorOfIsASum
<1>5. PICK g : Sums(b, n, g) /\ XorOf(b) = g[n]
  BY <1>3, XorOfIsASum
<1> DEFINE good == {c \in 0 .. n : (c < p /\ f[c] = g[c]) \/ (c >= p /\ f[c] # g[c])}
<1>6. 0 \in good
  <2>1. f[0] = g[0] /\ 0 < p /\ 0 \in 0 .. n
    BY <1>4, <1>5 DEF Sums
  <2> QED BY <2>1
<1>7. ASSUME NEW c \in 1 .. n, c - 1 \in good PROVE c \in good
  <2>1. f[c] = Xor(f[c - 1], a[c]) /\ g[c] = Xor(g[c - 1], b[c])
    BY <1>4, <1>5 DEF Sums
  <2>2. \A x, y, z : Xor(x, z) = Xor(y, z) => x = y
    BY DEF Xor
  <2>3. \A x, y, z : Xor(z, x) = Xor(z, y) => x = y
    BY DEF Xor
  <2>4. CASE c < p
    <3>1. f[c - 1] = g[c - 1] /\ a[c] = b[c]
      BY <1>7, <2>4
    <3> QED BY <2>1, <2>4, <3>1
  <2>5. CASE c = p
    <3>1. f[c - 1] = g[c - 1]
      BY <1>7, <2>5
    <3> QED BY <2>1, <2>3, <2>5, <3>1
  <2>6. CASE c > p
    <3>1. f[c - 1] # g[c - 1] /\ a[c] = b[c]
      BY <1>7, <2>6
    <3> QED BY <2>1, <2>2, <2>6, <3>1
  <2> QED BY <2>4, <2>5, <2>6
<1>8. \A c \in 0 .. n : c \in good
  <2> HIDE DEF good
  <2> QED BY <1>6, <1>7, AllAlong
<1>9. n \in good
  <2> HIDE DEF good
  <2> QED BY <1>8
<1> QED BY <1>4, <1>5, <1>9

(* The P row a byte of the data is in, and its one place there.             *)
LEMMA RowOfByte ==
  ASSUME NEW j \in 0 .. ECC_P_NUM_BYTES * ECC_P_COMP - 1
  PROVE  \E r \in 0 .. ECC_P_NUM_BYTES - 1 : \E p \in 1 .. ECC_P_COMP :
           /\ poffsets[r][p] = j
           /\ \A c \in 1 .. ECC_P_COMP : c # p => poffsets[r][c] # j
<1>1. PICK n, k : n = ECC_P_NUM_BYTES /\ k = ECC_P_COMP
  OBVIOUS
<1>2. n \in Nat /\ n > 0 /\ k \in Nat /\ n * k \in Nat /\ j \in 0 .. n * k - 1
  BY <1>1, SizesAre
<1>3. PICK r, m : r = j % n /\ m = j \div n
  OBVIOUS
<1>4. r \in 0 .. n - 1 /\ m \in Nat /\ j = n * m + r
  BY <1>2, <1>3
<1>5. m < k
  <2>1. SUFFICES ASSUME m >= k PROVE FALSE
    BY <1>2, <1>4
  <2>2. n * k <= n * m
    <3>1. m = k \/ k < m
      BY <1>2, <1>4, <2>1
    <3>2. k < m => k * n + n <= m * n
      BY <1>2, <1>4, MoreIsMore
    <3>3. k * n = n * k /\ m * n = n * m /\ k * n \in Nat /\ m * n \in Nat
      BY <1>2, <1>4
    <3> QED BY <1>2, <3>1, <3>2, <3>3
  <2>3. n * m \in Nat
    BY <1>2, <1>4
  <2> QED BY <1>2, <1>4, <2>2, <2>3
<1>6. m + 1 \in 1 .. k
  BY <1>2, <1>4, <1>5
<1>7. \A c \in 1 .. k : poffsets[r][c] = r + n * (c - 1)
  BY <1>1, <1>4, RowsOfP
<1>8. poffsets[r][m + 1] = j
  <2>1. (m + 1) - 1 = m /\ r + n * m = j
    <3>1. PICK x : x = n * m
      OBVIOUS
    <3>2. x \in Nat
      BY <1>2, <1>4, <3>1
    <3> QED BY <1>4, <3>1, <3>2
  <2> QED BY <1>6, <1>7, <2>1
<1>9. ASSUME NEW c \in 1 .. k, c # m + 1 PROVE poffsets[r][c] # j
  <2>1. PICK e : e = c - 1
    OBVIOUS
  <2>2. e \in Nat /\ e # m
    BY <1>4, <1>9, <2>1
  <2>3. n * e # n * m
    <3>1. e < m => e * n + n <= m * n
      BY <1>2, <1>4, <2>2, MoreIsMore
    <3>2. m < e => m * n + n <= e * n
      BY <1>2, <1>4, <2>2, MoreIsMore
    <3>3. e < m \/ m < e
      BY <1>4, <2>2
    <3>4. e * n = n * e /\ m * n = n * m /\ e * n \in Nat /\ m * n \in Nat
      BY <1>2, <1>4, <2>2
    <3> QED BY <1>2, <3>1, <3>2, <3>3, <3>4
  <2>4. r + n * e # j
    <3>1. PICK x, y : x = n * e /\ y = n * m
      OBVIOUS
    <3>2. x \in Nat /\ y \in Nat
      BY <1>2, <1>4, <2>2, <3>1
    <3> QED BY <1>4, <2>3, <3>1, <3>2
  <2> QED BY <1>7, <2>1, <2>4
<1> QED BY <1>1, <1>4, <1>6, <1>8, <1>9

(* What a byte adds to the sum of its row: nothing, when it is one of the   *)
(* header of a sector of mode 2.                                            *)
Counted(s, j) == IF s[MODE_OFFSET] = Bits(2) /\ j < 4 THEN {} ELSE s[SYNC_NUM_BYTES + j]

LEMMA CountedBytes ==
  ASSUME NEW s \in RawSectors, NEW r \in 0 .. ECC_P_NUM_BYTES - 1
  PROVE  /\ Len(poffsets[r]) = ECC_P_COMP /\ BytesOf(s, poffsets[r]) \in [1 .. ECC_P_COMP -> Byte]
         /\ \A c \in 1 .. ECC_P_COMP : BytesOf(s, poffsets[r])[c] = Counted(s, poffsets[r][c])
<1>1. PICK row, n : row = poffsets[r] /\ n = ECC_P_COMP
  OBVIOUS
<1>2. Len(row) = n /\ n \in Nat
  BY <1>1, RowsOfP, SizesAre
<1>3. \A c \in 1 .. n : SYNC_NUM_BYTES + row[c] \in 0 .. CD_MAX_SECTOR_DATA - 1
  <2> TAKE c \in 1 .. n
  <2>1. PICK p : p = ECC_P_NUM_BYTES * ECC_P_COMP
    OBVIOUS
  <2>2. row[c] \in 0 .. p - 1
    BY <1>1, <2>1, RowsOfP
  <2>3. SYNC_NUM_BYTES + p <= CD_MAX_SECTOR_DATA /\ CD_MAX_SECTOR_DATA \in Nat /\ p \in Nat /\ SYNC_NUM_BYTES \in Nat
    BY <2>1, SizesAre
  <2> QED BY <2>2, <2>3
<1>4. BytesOf(s, row) \in [1 .. n -> Byte]
  BY <1>2, <1>3, BytesOfRow
<1>5. BytesOf(s, row) = [c \in 1 .. n |-> Counted(s, row[c])]
  BY <1>2 DEF BytesOf, Counted
<1> QED BY <1>1, <1>2, <1>4, <1>5

(* A sector that verifies no longer does when a byte of its data adds       *)
(* something else to its row and every other byte adds what it did.         *)
LEMMA DataChangeIsSeen ==
  ASSUME NEW s \in RawSectors, NEW t \in RawSectors, ecc_verify(s),
         NEW j \in 0 .. ECC_P_NUM_BYTES * ECC_P_COMP - 1,
         Counted(t, j) # Counted(s, j),
         \A r \in 0 .. ECC_P_NUM_BYTES - 1 : \A c \in 1 .. ECC_P_COMP :
           poffsets[r][c] # j /\ (\E p \in 1 .. ECC_P_COMP : poffsets[r][p] = j)
             => Counted(t, poffsets[r][c]) = Counted(s, poffsets[r][c]),
         \A r \in 0 .. ECC_P_NUM_BYTES - 1 :
           ParityAt(t, ECC_P_OFFSET, ECC_P_NUM_BYTES, r) = ParityAt(s, ECC_P_OFFSET, ECC_P_NUM_BYTES, r)
  PROVE  ~ ecc_verify(t)
<1>1. PICK r \in 0 .. ECC_P_NUM_BYTES - 1, p \in 1 .. ECC_P_COMP :
        poffsets[r][p] = j /\ \A c \in 1 .. ECC_P_COMP : c # p => poffsets[r][c] # j
  BY RowOfByte
<1>2. PICK row, n : row = poffsets[r] /\ n = ECC_P_COMP
  OBVIOUS
<1>3. n \in Nat /\ Len(row) = n
  BY <1>2, RowsOfP, SizesAre
<1>4. PICK a, b : a = BytesOf(s, row) /\ b = BytesOf(t, row)
  OBVIOUS
<1>5. /\ a \in [1 .. n -> Byte] /\ b \in [1 .. n -> Byte]
      /\ \A c \in 1 .. n : a[c] = Counted(s, row[c]) /\ b[c] = Counted(t, row[c])
  BY <1>2, <1>4, CountedBytes
<1>6. a[p] # b[p] /\ \A c \in 1 .. n : c # p => a[c] = b[c]
  BY <1>1, <1>2, <1>5
<1>7. XorOf(a) # XorOf(b)
  BY <1>1, <1>2, <1>3, <1>5, <1>6, SumSeesOne
<1>8. ecc_compute_bytes(s, row) # ecc_compute_bytes(t, row)
  <2>1. Xor(ecc_compute_bytes(s, row)[1], ecc_compute_bytes(s, row)[2]) = XorOf(a)
    BY <1>3, <1>4, <1>5, ParitySums
  <2>2. Xor(ecc_compute_bytes(t, row)[1], ecc_compute_bytes(t, row)[2]) = XorOf(b)
    BY <1>3, <1>4, <1>5, ParitySums
  <2> QED BY <1>7, <2>1, <2>2
<1>9. DOMAIN poffsets = 0 .. ECC_P_NUM_BYTES - 1
  BY DEF poffsets
<1>10. ASSUME ecc_verify(t) PROVE FALSE
  <2>1. ParityAt(s, ECC_P_OFFSET, ECC_P_NUM_BYTES, r) = ecc_compute_bytes(s, row)
    BY <1>2, <1>9 DEF ecc_verify
  <2>2. ParityAt(t, ECC_P_OFFSET, ECC_P_NUM_BYTES, r) = ecc_compute_bytes(t, row)
    BY <1>2, <1>9, <1>10 DEF ecc_verify
  <2> QED BY <1>8, <2>1, <2>2
<1> QED BY <1>10

(* ... nor when a byte of a parity is changed, because the bytes it is the  *)
(* parity of come before it.                                                *)
LEMMA ParityChangeIsSeen ==
  ASSUME NEW s, NEW t, NEW i \in ECC_P_OFFSET .. CD_MAX_SECTOR_DATA - 1, ecc_verify(s), t[i] # s[i],
         \A k \in 0 .. CD_MAX_SECTOR_DATA - 1 : k # i => t[k] = s[k]
  PROVE  ~ ecc_verify(t)
<1>1. PICK off, n, q, m, d : /\ off = ECC_P_OFFSET /\ n = ECC_P_NUM_BYTES /\ q = ECC_Q_OFFSET
                             /\ m = ECC_Q_NUM_BYTES /\ d = CD_MAX_SECTOR_DATA
  OBVIOUS
<1>2. off \in Nat /\ n \in Nat /\ q = off + 2 * n /\ m \in Nat /\ d = q + 2 * m /\ q \in Nat /\ d \in Nat
  BY <1>1, SizesAre
<1>3. DOMAIN poffsets = 0 .. n - 1 /\ DOMAIN qoffsets = 0 .. m - 1
  BY <1>1 DEF poffsets, qoffsets
<1>4. CASE i < q
  <2>1. PICK r \in 0 .. n - 1 : i = off + r \/ i = off + n + r
    <3>1. CASE i < off + n
      <4>1. i - off \in 0 .. n - 1 /\ i = off + (i - off)
        BY <1>1, <1>2, <3>1
      <4> QED BY <4>1
    <3>2. CASE ~ (i < off + n)
      <4>1. i - off - n \in 0 .. n - 1 /\ i = off + n + (i - off - n)
        BY <1>1, <1>2, <1>4, <3>2
      <4> QED BY <4>1
    <3> QED BY <3>1, <3>2
  <2>2. \A k \in 0 .. off - 1 : t[k] = s[k]
    <3>1. \A k \in 0 .. off - 1 : k \in 0 .. d - 1 /\ k # i
      BY <1>1, <1>2
    <3> QED BY <1>1, <3>1
  <2>3. ecc_compute_bytes(t, poffsets[r]) = ecc_compute_bytes(s, poffsets[r])
    BY <1>1, <2>2, RowsOfPAreBefore
  <2>4. ParityAt(s, off, n, r) = <<s[off + r], s[off + n + r]>> /\ ParityAt(t, off, n, r) = <<t[off + r], t[off + n + r]>>
    BY DEF ParityAt
  <2>5. ParityAt(t, off, n, r) # ParityAt(s, off, n, r)
    BY <2>1, <2>4
  <2>6. ParityAt(s, off, n, r) = ecc_compute_bytes(s, poffsets[r])
    BY <1>1, <1>3 DEF ecc_verify
  <2>7. ecc_verify(t) => ParityAt(t, off, n, r) = ecc_compute_bytes(t, poffsets[r])
    BY <1>1, <1>3 DEF ecc_verify
  <2> QED BY <2>3, <2>5, <2>6, <2>7
<1>5. CASE ~ (i < q)
  <2>1. PICK r \in 0 .. m - 1 : i = q + r \/ i = q + m + r
    <3>1. CASE i < q + m
      <4>1. i - q \in 0 .. m - 1 /\ i = q + (i - q)
        BY <1>1, <1>2, <1>5, <3>1
      <4> QED BY <4>1
    <3>2. CASE ~ (i < q + m)
      <4>1. i - q - m \in 0 .. m - 1 /\ i = q + m + (i - q - m)
        BY <1>1, <1>2, <3>2
      <4> QED BY <4>1
    <3> QED BY <3>1, <3>2
  <2>2. \A k \in 0 .. q - 1 : t[k] = s[k]
    <3>1. \A k \in 0 .. q - 1 : k \in 0 .. d - 1 /\ k # i
      BY <1>1, <1>2, <1>5
    <3> QED BY <1>1, <3>1
  <2>3. ecc_compute_bytes(t, qoffsets[r]) = ecc_compute_bytes(s, qoffsets[r])
    BY <1>1, <2>2, RowsOfQAreBefore
  <2>4. ParityAt(s, q, m, r) = <<s[q + r], s[q + m + r]>> /\ ParityAt(t, q, m, r) = <<t[q + r], t[q + m + r]>>
    BY DEF ParityAt
  <2>5. ParityAt(t, q, m, r) # ParityAt(s, q, m, r)
    BY <2>1, <2>4
  <2>6. ParityAt(s, q, m, r) = ecc_compute_bytes(s, qoffsets[r])
    BY <1>1, <1>3 DEF ecc_verify
  <2>7. ecc_verify(t) => ParityAt(t, q, m, r) = ecc_compute_bytes(t, qoffsets[r])
    BY <1>1, <1>3 DEF ecc_verify
  <2> QED BY <2>3, <2>5, <2>6, <2>7
<1> QED BY <1>4, <1>5

(* ecc_verify sees any change of a single byte of a sector behind its sync  *)
(* header, but for the header of a sector of mode 2, which it does not      *)
(* count, and a change of the mode that is not counted either.              *)
CountedMode(v) == IF v = Bits(2) THEN {} ELSE v

THEOREM ChangedSectorIsRefused ==
  ASSUME NEW s \in RawSectors, ecc_verify(s), NEW i \in SYNC_NUM_BYTES .. CD_MAX_SECTOR_DATA - 1,
         NEW v \in Byte, v # s[i], ~ (s[MODE_OFFSET] = Bits(2) /\ i < MODE_OFFSET),
         i = MODE_OFFSET => CountedMode(v) # CountedMode(s[i])
  PROVE  ~ ecc_verify([s EXCEPT ![i] = v])
<1>1. PICK t : t = [s EXCEPT ![i] = v]
  OBVIOUS
<1>2. i \in 0 .. CD_MAX_SECTOR_DATA - 1
  BY SizesAre
<1>3. t \in RawSectors /\ t[i] = v /\ \A k \in 0 .. CD_MAX_SECTOR_DATA - 1 : k # i => t[k] = s[k]
  BY <1>1, <1>2 DEF RawSectors
<1>4. CASE i >= ECC_P_OFFSET
  <2>1. i \in ECC_P_OFFSET .. CD_MAX_SECTOR_DATA - 1
    BY <1>2, <1>4, SizesAre
  <2> QED BY <1>1, <1>3, <2>1, ParityChangeIsSeen
<1>5. CASE ~ (i >= ECC_P_OFFSET)
  <2>1. PICK p, d, y, o, n : /\ p = ECC_P_NUM_BYTES * ECC_P_COMP /\ d = CD_MAX_SECTOR_DATA /\ y = SYNC_NUM_BYTES
                             /\ o = ECC_P_OFFSET /\ n = ECC_P_NUM_BYTES
    OBVIOUS
  <2>2. /\ p \in Nat /\ d \in Nat /\ y \in Nat /\ o = y + p /\ o \in Nat /\ n \in Nat /\ o + 2 * n <= d
        /\ MODE_OFFSET = y + 3 /\ n > 4 /\ n <= p
    BY <2>1, SizesAre DEF MODE_OFFSET
  <2>3. PICK j : j = i - y
    OBVIOUS
  <2>4. j \in 0 .. p - 1 /\ i = y + j /\ i \in y .. o - 1
    BY <1>2, <1>5, <2>1, <2>2, <2>3
  <2>5. MODE_OFFSET \in 0 .. d - 1
    BY <2>2
  <2>6. Counted(t, j) # Counted(s, j)
    <3>1. t[y + j] = v /\ s[y + j] = s[i]
      BY <1>3, <2>4
    <3>2. CASE i = MODE_OFFSET
      <4>1. j = 3 /\ j < 4
        BY <2>2, <2>4, <3>2
      <4>2. t[MODE_OFFSET] = v
        BY <1>3, <3>2
      <4>3. Counted(t, j) = CountedMode(v) /\ Counted(s, j) = CountedMode(s[i])
        BY <2>1, <3>1, <3>2, <4>1, <4>2 DEF Counted, CountedMode
      <4> QED BY <3>2, <4>3
    <3>3. CASE i # MODE_OFFSET
      <4>1. t[MODE_OFFSET] = s[MODE_OFFSET]
        BY <1>3, <2>1, <2>5, <3>3
      <4>2. ~ (s[MODE_OFFSET] = Bits(2) /\ j < 4)
        <5>1. j < 4 => i < MODE_OFFSET
          BY <2>2, <2>4, <3>3
        <5> QED BY <5>1
      <4>3. Counted(t, j) = v /\ Counted(s, j) = s[i]
        BY <2>1, <3>1, <4>1, <4>2 DEF Counted
      <4> QED BY <4>3
    <3> QED BY <3>2, <3>3
  <2>7. ASSUME NEW r \in 0 .. ECC_P_NUM_BYTES - 1, NEW c \in 1 .. ECC_P_COMP,
               poffsets[r][c] # j, \E e \in 1 .. ECC_P_COMP : poffsets[r][e] = j
        PROVE  Counted(t, poffsets[r][c]) = Counted(s, poffsets[r][c])
    <3>1. PICK k : k = poffsets[r][c]
      OBVIOUS
    <3>2. k \in 0 .. p - 1 /\ (k < 4 <=> c = 1 /\ r < 4)
      BY <2>1, <3>1, RowsOfP
    <3>3. y + k \in 0 .. d - 1 /\ y + k # i
      BY <2>2, <2>4, <2>7, <3>1, <3>2
    <3>4. t[y + k] = s[y + k]
      BY <1>3, <2>1, <3>3
    <3>5. CASE i = MODE_OFFSET
      <4>1. PICK e \in 1 .. ECC_P_COMP : poffsets[r][e] = j
        BY <2>7
      <4>2. j < 4
        BY <2>2, <2>4, <3>5
      <4>3. e = 1 /\ r < 4
        <5>1. poffsets[r][e] < 4 <=> e = 1 /\ r < 4
          BY RowsOfP
        <5> QED BY <4>1, <4>2, <5>1
      <4>4. ~ (k < 4)
        BY <2>7, <3>1, <3>2, <4>1, <4>3
      <4> QED BY <2>1, <3>1, <3>4, <4>4 DEF Counted
    <3>6. CASE i # MODE_OFFSET
      <4>1. t[MODE_OFFSET] = s[MODE_OFFSET]
        BY <1>3, <2>1, <2>5, <3>6
      <4> QED BY <2>1, <3>1, <3>4, <4>1 DEF Counted
    <3> QED BY <3>5, <3>6
  <2>8. ASSUME NEW r \in 0 .. ECC_P_NUM_BYTES - 1
        PROVE  ParityAt(t, ECC_P_OFFSET, ECC_P_NUM_BYTES, r) = ParityAt(s, ECC_P_OFFSET, ECC_P_NUM_BYTES, r)
    <3>1. o + r \in 0 .. d - 1 /\ o + n + r \in 0 .. d - 1 /\ o + r # i /\ o + n + r # i
      BY <2>1, <2>2, <2>4
    <3>2. t[o + r] = s[o + r] /\ t[o + n + r] = s[o + n + r]
      BY <1>3, <2>1, <3>1
    <3> QED BY <2>1, <3>2 DEF ParityAt
  <2>9. j \in 0 .. ECC_P_NUM_BYTES * ECC_P_COMP - 1
    BY <2>1, <2>4
  <2>10. ~ ecc_verify(t)
    BY <1>3, <2>6, <2>7, <2>8, <2>9, DataChangeIsSeen
  <2> QED BY <1>1, <2>10
<1> QED BY <1>4, <1>5

-----------------------------------------------------------------------------
(* The modes as bytes.                                                      *)
LEMMA ModesAre ==
  Bits(1) = {0} /\ Bits(2) = {1}
<1>1. /\ Weights[1] = 1 /\ Weights[2] = 2 /\ Weights[3] = 4 /\ Weights[4] = 8
      /\ Weights[5] = 16 /\ Weights[6] = 32 /\ Weights[7] = 64 /\ Weights[8] = 128
  BY DEF Weights
<1>2. \A k \in 0 .. 7 : Weights[k + 1] = IF k = 0 THEN 1 ELSE IF k = 1 THEN 2 ELSE IF k = 2 THEN 4 ELSE IF k = 3 THEN 8
                        ELSE IF k = 4 THEN 16 ELSE IF k = 5 THEN 32 ELSE IF k = 6 THEN 64 ELSE 128
  <2>1. \A k \in 0 .. 7 : k = 0 \/ k = 1 \/ k = 2 \/ k = 3 \/ k = 4 \/ k = 5 \/ k = 6 \/ k = 7
    OBVIOUS
  <2>2. 0 + 1 = 1 /\ 1 + 1 = 2 /\ 2 + 1 = 3 /\ 3 + 1 = 4 /\ 4 + 1 = 5 /\ 5 + 1 = 6 /\ 6 + 1 = 7 /\ 7 + 1 = 8
    OBVIOUS
  <2> QED BY <1>1, <2>1, <2>2
<1>3. ASSUME NEW k \in 0 .. 7
      PROVE  ((1 \div Weights[k + 1]) % 2 = 1 <=> k = 0) /\ ((2 \div Weights[k + 1]) % 2 = 1 <=> k = 1)
  <2>1. PICK w : w = Weights[k + 1]
    OBVIOUS
  <2>2. /\ k = 0 => w = 1
        /\ k = 1 => w = 2
        /\ k > 1 => w \in 4 .. 128
    BY <1>2, <2>1
  <2>3. CASE k = 0
    <3>1. w = 1 /\ (1 \div 1) % 2 = 1 /\ (2 \div 1) % 2 = 0
      BY <2>2, <2>3
    <3> QED BY <2>1, <2>3, <3>1
  <2>4. CASE k = 1
    <3>1. w = 2 /\ (1 \div 2) % 2 = 0 /\ (2 \div 2) % 2 = 1
      BY <2>2, <2>4
    <3> QED BY <2>1, <2>4, <3>1
  <2>5. CASE k > 1
    <3>1. w \in 4 .. 128
      BY <2>2, <2>5
    <3>2. 1 \div w = 0 /\ 2 \div w = 0 /\ 0 % 2 = 0
      BY <3>1
    <3> QED BY <2>1, <2>5, <3>2
  <2> QED BY <2>3, <2>4, <2>5
<1>4. Bits(1) = {k \in 0 .. 7 : k = 0}
  BY <1>3 DEF Bits
<1>5. Bits(2) = {k \in 0 .. 7 : k = 1}
  BY <1>3 DEF Bits
<1> QED BY <1>4, <1>5

(* A restored sector, seen in the invariant.                                *)
LEMMA FlaggedSector ==
  ASSUME CdInv, CdDone, NEW f \in cdhunk.flagged
  PROVE  /\ f \in 0 .. frames - 1 /\ SectorOf(f) \in RawSectors /\ ecc_verify(SectorOf(f))
         /\ cdhunk.mode \in {1, 2} /\ SectorOf(f)[MODE_OFFSET] = Bits(cdhunk.mode)
<1>1. CdHunkTypeOK /\ f \in 0 .. frames - 1
  BY TypeFacts DEF CdInv
<1>2. Assembled(dest, f, partial, cdhunk, serial)
  BY <1>1 DEF CdInv, DoneInv
<1>3. SectorOf(f) = SectorAt(dest, f)
  BY DEF SectorOf, SectorAt
<1>4. SectorOf(f) \in RawSectors /\ ecc_verify(SectorOf(f))
  BY <1>2, <1>3 DEF Assembled
<1>5. cdhunk.mode \in {1, 2}
  <2>1. cdhunk \in CdHunks
    BY <1>1, TypeFacts
  <2>2. \A h \in CdHunks : h.mode \in {1, 2}
    BY DEF CdHunks
  <2> QED BY <2>1, <2>2
<1>6. SectorOf(f)[MODE_OFFSET] = Bits(cdhunk.mode)
  <2>1. MODE_OFFSET \in 0 .. CD_MAX_SECTOR_DATA - 1 /\ ~ (MODE_OFFSET < SYNC_NUM_BYTES) /\ ~ (MODE_OFFSET >= ECC_P_OFFSET)
    BY SizesAre DEF MODE_OFFSET
  <2>2. f \notin partial
    BY ShortFramesAreWhole
  <2>3. WholeIn(dest, f, cdhunk, serial)
    BY <1>2, <2>2 DEF Assembled
  <2>4. dest[f * CD_FRAME_SIZE + MODE_OFFSET] = SectorByteOf(cdhunk, serial, f, MODE_OFFSET)
    BY <2>1, <2>3 DEF WholeIn
  <2>5. SectorByteOf(cdhunk, serial, f, MODE_OFFSET) = Bits(cdhunk.mode)
    BY DEF SectorByteOf
  <2>6. SectorOf(f)[MODE_OFFSET] = dest[f * CD_FRAME_SIZE + MODE_OFFSET]
    BY <2>1 DEF SectorOf
  <2> QED BY <2>4, <2>5, <2>6
<1> QED BY <1>1, <1>4, <1>5, <1>6

LEMMA InvSeesChanges == CdInv => ChangesAreSeen
<1> SUFFICES ASSUME CdInv, CdDone, cdhunk.flagged = {frames - 1},
                    NEW i \in SYNC_NUM_BYTES .. CD_MAX_SECTOR_DATA - 1, NEW d \in Changes,
                    ~ (cdhunk.mode = 2 /\ i < MODE_OFFSET)
             PROVE  ~ ecc_verify([SectorOf(frames - 1) EXCEPT ![i] = Xor(@, d)])
  BY DEF ChangesAreSeen
<1>1. PICK s, v : s = SectorOf(frames - 1) /\ v = Xor(s[i], d)
  OBVIOUS
<1>2. /\ s \in RawSectors /\ ecc_verify(s)
      /\ cdhunk.mode \in {1, 2} /\ s[MODE_OFFSET] = Bits(cdhunk.mode)
  <2>1. frames - 1 \in cdhunk.flagged
    OBVIOUS
  <2> QED BY <1>1, <2>1, FlaggedSector
<1>3. i \in 0 .. CD_MAX_SECTOR_DATA - 1
  BY SizesAre
<1>4. s[i] \in Byte
  BY <1>2, <1>3 DEF RawSectors
<1>5. d \in {{0}, {7}, {0, 1}}
  BY DEF Changes
<1>6. v \in Byte /\ v # s[i]
  <2>1. d \in Byte /\ d # {}
    BY <1>5 DEF Byte
  <2>2. v \in Byte
    BY <1>1, <1>4, <2>1, ByteXor
  <2>3. \A x : Xor(x, d) = x => d = {}
    BY DEF Xor
  <2> QED BY <1>1, <2>1, <2>2, <2>3
<1>7. ~ (s[MODE_OFFSET] = Bits(2) /\ i < MODE_OFFSET)
  BY <1>2, ModesAre
<1>8. ASSUME i = MODE_OFFSET PROVE CountedMode(v) # CountedMode(s[i])
  <2>1. s[i] = {0} \/ s[i] = {1}
    BY <1>2, <1>8, ModesAre
  <2>2. CASE s[i] = {0}
    <3>1. CountedMode(s[i]) = {0}
      BY <2>2, ModesAre DEF CountedMode
    <3>2. v # {0}
      BY <1>6, <2>2
    <3>3. CountedMode(v) = {} \/ CountedMode(v) = v
      BY DEF CountedMode
    <3> QED BY <3>1, <3>2, <3>3
  <2>3. CASE s[i] = {1}
    <3>1. CountedMode(s[i]) = {}
      BY <2>3, ModesAre DEF CountedMode
    <3>2. v # {1} /\ v # {}
      <4>1. 0 \in v \/ 7 \in v
        BY <1>1, <1>5, <2>3, XorHas
      <4> QED BY <4>1
    <3>3. CountedMode(v) = v
      BY <3>2, ModesAre DEF CountedMode
    <3> QED BY <3>1, <3>2, <3>3
  <2> QED BY <2>1, <2>2, <2>3
<1>9. ~ ecc_verify([s EXCEPT ![i] = v])
  BY <1>2, <1>6, <1>7, <1>8, ChangedSectorIsRefused
<1>10. [SectorOf(frames - 1) EXCEPT ![i] = Xor(@, d)] = [s EXCEPT ![i] = v]
  BY <1>1
<1> QED BY <1>9, <1>10

LEMMA InvSums == CdInv => CrcIsTheRegisters
<1> SUFFICES ASSUME CdInv, CdDone, cdhunk.codec = "cd",
                    NEW n \in 0 .. 5, NEW s, s = SubSeq(AsSequence(dest), 1, 5), NEW first,
                    first = crc16_update(0 .. 15, SubSeq(s, 1, n))
             PROVE  /\ first = Crc16(0 .. 15, SubSeq(s, 1, n))
                    /\ crc16_update(first, SubSeq(s, n + 1, 5)) = Crc16(0 .. 15, s)
  BY DEF CrcIsTheRegisters
<1>1. CdHunkTypeOK /\ partial = {}
  BY DEF CdInv
<1>2. frames \in Nat /\ frames > 0 /\ destlen = frames * CD_FRAME_SIZE /\ destlen \in Nat
  BY <1>1, TypeFacts, SizesOfBuffers
<1>3. PICK d, b : d = CD_MAX_SECTOR_DATA /\ b = CD_FRAME_SIZE
  OBVIOUS
<1>4. d \in Nat /\ b \in Nat /\ d <= b /\ d >= 5 /\ b <= destlen /\ destlen \in Nat
  <2>1. d \in Nat /\ b \in Nat /\ d <= b
    BY <1>3, FrameSizesAre
  <2>2. d >= 5
    BY <1>3, SizesAre
  <2>3. 0 * b + b <= frames * b
    BY <1>2, <2>1, MoreIsMore
  <2>4. 0 * b + b = b
    BY <2>1
  <2> QED BY <1>2, <1>3, <2>1, <2>2, <2>3, <2>4
<1>5. Assembled(dest, 0, partial, cdhunk, serial)
  <2>1. 0 \in 0 .. frames - 1
    BY <1>2
  <2> QED BY <2>1 DEF CdInv, DoneInv
<1>6. ASSUME NEW i \in 0 .. d - 1 PROVE dest[i] \in Byte
  <2>1. 0 * CD_FRAME_SIZE + i = i
    BY <1>3, <1>4
  <2>2. CASE 0 \in cdhunk.flagged
    <3>1. SectorAt(dest, 0) \in RawSectors
      BY <1>5, <2>2 DEF Assembled
    <3>2. SectorAt(dest, 0)[i] \in Byte
      BY <1>3, <3>1 DEF RawSectors
    <3>3. SectorAt(dest, 0)[i] = dest[0 * CD_FRAME_SIZE + i]
      BY <1>3 DEF SectorAt
    <3> QED BY <2>1, <3>2, <3>3
  <2>3. CASE 0 \notin cdhunk.flagged
    <3>1. WholeIn(dest, 0, cdhunk, serial)
      BY <1>1, <1>5 DEF Assembled
    <3>2. dest[0 * CD_FRAME_SIZE + i] = SectorByteOf(cdhunk, serial, 0, i)
      BY <1>3, <2>3, <3>1 DEF WholeIn
    <3> QED BY <2>1, <3>2, BytesAreBytes
  <2> QED BY <2>2, <2>3
<1>7. s \in [1 .. 5 -> Byte]
  <2>1. PICK a : a = AsSequence(dest)
    OBVIOUS
  <2>2. a = [i \in 1 .. destlen |-> dest[i - 1]]
    BY <2>1 DEF AsSequence
  <2>3. s = [i \in 1 .. 5 |-> a[i]]
    BY <2>1
  <2>4. ASSUME NEW i \in 1 .. 5 PROVE a[i] \in Byte
    <3>1. i \in 1 .. destlen /\ i - 1 \in 0 .. d - 1
      BY <1>4
    <3> QED BY <1>6, <2>2, <3>1
  <2> QED BY <2>3, <2>4
<1>8. PICK crc : crc = 0 .. 15
  OBVIOUS
<1>9. crc \in Crcs
  BY <1>8 DEF Crcs
<1>10. PICK a, r : a = SubSeq(s, 1, n) /\ r = SubSeq(s, n + 1, 5)
  OBVIOUS
<1>11. /\ a \in [1 .. n -> Byte] /\ r \in [1 .. 5 - n -> Byte] /\ Crc16(crc, a) \in Crcs
       /\ Crc16(Crc16(crc, a), r) = Crc16(crc, s)
  BY <1>7, <1>9, <1>10, CrcInParts
<1>12. first = Crc16(crc, a)
  <2>1. n \in Nat
    OBVIOUS
  <2>2. crc16_update(crc, a) = Crc16(crc, a)
    BY <1>9, <1>11, <2>1, TablesAreTheRegister
  <2> QED BY <1>8, <1>10, <2>2
<1>13. crc16_update(first, r) = Crc16(first, r)
  <2>1. 5 - n \in Nat /\ first \in Crcs
    BY <1>11, <1>12
  <2> QED BY <1>11, <2>1, TablesAreTheRegister
<1> QED BY <1>8, <1>10, <1>11, <1>12, <1>13

(* What ecc_generate puts back verifies, ecc_verify sees every change the   *)
(* run makes, and the CRC of the tables, in one part or in two, is that of  *)
(* the shift register: at every geometry of a sector, in every hunk.        *)
THEOREM ParityAndCrcHold == CdHunkSpec => []ParityAndCrcAreExact
<1>1. CdInv => ChangesAreSeen /\ CrcIsTheRegisters
  BY InvSeesChanges, InvSums
<1>2. CdHunkSpec => [](ChangesAreSeen /\ CrcIsTheRegisters)
  BY <1>1, CdInvHolds, PTL
<1>3. RestoredParityVerifies /\ (ChangesAreSeen /\ CrcIsTheRegisters) => ParityAndCrcAreExact
  BY DEF ParityAndCrcAreExact
<1> QED BY <1>2, <1>3, RestoredSectorsVerify, PTL

(****************************************************************************)
(* The third part is about AvHuff.  The invariant names, for every phase of *)
(* a hunk, the bytes that were written, which are all those before a place  *)
(* but the last pixel of the rows of an odd width, and where the next part  *)
(* of the compressed hunk starts.  Of a delta-RLE stream it says that the   *)
(* codes taken stand for the bytes made and for the repeats that are left.  *)
(****************************************************************************)
Firsts(n) == 0 .. n - 1
ByteOf == 0 .. ByteValues - 1
Decoder == [prev : ByteOf, rlecount : Nat]

Skipped(h, n) ==
  IF h.width % 2 = 0 THEN {}
  ELSE {VideoStart(h) + row * 2 * h.width + 2 * h.width - k : row \in 0 .. n - 1, k \in 1 .. 2}

SizesUpto(h, n) == Sum([i \in 1 .. n |-> h.sizes[i]])
PartAt(h, trees, n) == HeaderEnd(h) + h.metasize + trees + SizesUpto(h, n)

DeltasUpto(codes, k) ==
  [j \in 1 .. Len(codes) |-> IF codes[j] < ByteValues /\ StartOf(codes, j) <= k THEN codes[j] ELSE 0]

(* codes stand for the bytes bytes, which go on from prev, and for the        *)
(* repeats that the decoder c has left.                                     *)
StreamIs(c, codes, bytes, prev) ==
  /\ bytes = Expansion(codes, prev, Len(bytes))
  /\ \A j \in 1 .. Len(codes) : StartOf(codes, j) <= Len(bytes)
  /\ StartOf(codes, Len(codes) + 1) = Len(bytes) + 1 + c.rlecount
  /\ c.prev = IF bytes = <<>> THEN prev ELSE bytes[Len(bytes)]

NothingTaken == taken = Nothing /\ made = Nothing /\ sample = <<>> /\ before = Zeros

AudioStreams ==
  /\ \A p \in {"ahi", "alo"} :
       StreamIs(context[p], taken[p], made[p], 0) /\ Len(made[p]) = sampnum
  /\ sample = DeltaSums(made["ahi"], made["alo"], sampnum)

TreesInv ==
  avphase = "trees" =>
    /\ chnum = 0 /\ sampnum = 0 /\ dy = 0 /\ dx = 0 /\ NothingTaken
    /\ avhunk.channels > 0 /\ avhunk.treesize \notin {0, FlacAudio}
    /\ srcoffs = PartAt(avhunk, 0, 0)
    /\ written = Firsts(AudioStart(avhunk, 0))

AudioInv ==
  avphase = "audio" =>
    /\ chnum \in 0 .. avhunk.channels /\ sampnum \in 0 .. avhunk.samples
    /\ (chnum = avhunk.channels \/ avhunk.treesize \in {0, FlacAudio}) => sampnum = 0
    /\ dy = 0 /\ dx = 0
    /\ srcoffs = PartAt(avhunk, TreeBytes(avhunk), chnum)
    /\ written = Firsts(AudioStart(avhunk, chnum) + 2 * sampnum)
    /\ IF sampnum = 0 THEN NothingTaken ELSE AudioStreams

VideoInv ==
  avphase = "video" =>
    /\ dy = 0 /\ dx = 0 /\ NothingTaken
    /\ srcoffs < avhunk.complen /\ srcoffs \in Nat
    /\ written = Firsts(VideoStart(avhunk))

RowsInv ==
  avphase = "rows" =>
    /\ dy \in 0 .. avhunk.height /\ dx \in 0 .. avhunk.width \div 2
    /\ dy = avhunk.height => dx = 0
    /\ before \in [Planes -> ByteOf] /\ (dy = 0 => before = Zeros)
    /\ \A p \in {"y", "cb", "cr"} : StreamIs(context[p], taken[p], made[p], before[p])
    /\ written = Firsts(RowAt + 4 * dx) \ Skipped(avhunk, dy)

EndInv == avphase = "end" => written = Firsts(12 + Payload(avhunk)) \ LeftOver(avhunk)

IdleInv ==
  IF avphase = "idle" THEN NothingTaken /\ HunkIsWritten
  ELSE answer = "none" /\ Verdict(avhunk) = "NONE"

CountInv ==
  /\ read \in Nat /\ read <= avhunk.complen
  /\ written \subseteq Firsts(avhunk.destlen) /\ writes = Cardinality(written)

AvPhases == {"idle", "trees", "audio", "video", "rows", "end"}
AvErrors == {"INVALID_DATA", "DECOMPRESSION_ERROR", "OUT_OF_MEMORY"}

AvTypeInv ==
  /\ avhunk \in AvHunks
  /\ avphase \in AvPhases
  /\ context \in [Planes -> Decoder]
  /\ taken \in [Planes -> Seq(Symbols)] /\ made \in [Planes -> Seq(ByteOf)]
  /\ answer \in AvErrors \cup {"none", "NONE"}

AvInv == AvTypeInv /\ TreesInv /\ AudioInv /\ VideoInv /\ RowsInv /\ EndInv /\ IdleInv /\ CountInv

-----------------------------------------------------------------------------
(* Sums.                                                                    *)
SumIs(s, f) == f[0] = 0 /\ \A i \in 1 .. Len(s) : f[i] = f[i - 1] + s[i]
SumDefines(s, f) == f = [i \in 0 .. Len(s) |-> IF i = 0 THEN 0 ELSE f[i - 1] + s[i]]
Counts(n) == [1 .. n -> Nat]

LEMMA SumRuns ==
  ASSUME NEW n \in Nat, NEW s \in Counts(n)
  PROVE  \E f : /\ SumIs(s, f) /\ f[n] = Sum(s) /\ \A i \in 0 .. n : f[i] \in Nat
<1>0. s \in [1 .. n -> Nat] /\ Len(s) = n
  BY DEF Counts
<1> DEFINE step == [p \in (1 .. n) \X Nat |-> p[2] + s[p[1]]]
<1>1. 0 \in Nat /\ step \in StepFunctions(n, Nat)
  <2>1. ASSUME NEW p \in (1 .. n) \X Nat PROVE p[2] + s[p[1]] \in Nat
    BY <1>0
  <2> QED BY <2>1 DEF StepFunctions
<1>2. \A i \in 1 .. n : \A x \in Nat : step[<<i, x>>] = x + s[i]
  OBVIOUS
<1> HIDE DEF step
<1>3. PICK f : Runs(n, Nat, 0, step, f)
  BY <1>1, RunExists
<1>4. \A i \in 1 .. n : i - 1 \in 0 .. n
  OBVIOUS
<1>5. f = [i \in 0 .. n |-> f[i]] /\ f[0] = 0 /\ \A i \in 1 .. n : f[i] = f[i - 1] + s[i]
  BY <1>2, <1>3, <1>4 DEF Runs
<1>6. SumDefines(s, f)
  <2>1. ASSUME NEW i \in 0 .. n PROVE f[i] = IF i = 0 THEN 0 ELSE f[i - 1] + s[i]
    <3>1. i # 0 => i \in 1 .. n
      OBVIOUS
    <3> QED BY <1>5, <3>1
  <2> QED BY <1>0, <1>5, <2>1 DEF SumDefines
<1> DEFINE g == CHOOSE f1 : SumDefines(s, f1)
<1>7. Sum(s) = g[n]
  BY <1>0 DEF Sum, SumDefines
<1>8. SumDefines(s, g)
  BY <1>6
<1> HIDE DEF g
<1>9. SumIs(s, g)
  <2>1. g[0] = 0
    BY <1>0, <1>8 DEF SumDefines
  <2>2. ASSUME NEW i \in 1 .. n PROVE g[i] = g[i - 1] + s[i]
    <3>1. i \in 0 .. n /\ i # 0
      OBVIOUS
    <3> QED BY <1>0, <1>8, <3>1 DEF SumDefines
  <2> QED BY <1>0, <2>1, <2>2 DEF SumIs
<1>10. \A i \in 0 .. n : g[i] \in Nat
  <2> DEFINE good == {i \in 0 .. n : g[i] \in Nat}
  <2>1. 0 \in good
    BY <1>9 DEF SumIs
  <2>2. ASSUME NEW i \in 1 .. n, i - 1 \in good PROVE i \in good
    <3>1. g[i] = g[i - 1] + s[i] /\ g[i - 1] \in Nat /\ s[i] \in Nat
      BY <1>0, <1>9, <2>2 DEF SumIs
    <3> QED BY <3>1
  <2>3. \A i \in 0 .. n : i \in good
    <3> HIDE DEF good
    <3> QED BY <2>1, <2>2, AllAlong
  <2> QED BY <2>3
<1> QED BY <1>7, <1>9, <1>10

LEMMA SumIsNat ==
  ASSUME NEW n \in Nat, NEW s \in Counts(n)
  PROVE  Sum(s) \in Nat
BY SumRuns

LEMMA SumOfNone ==
  ASSUME NEW s \in Counts(0)
  PROVE  Sum(s) = 0
BY SumRuns DEF SumIs

(* One term more.                                                           *)
LEMMA SumOfOneMore ==
  ASSUME NEW n \in Nat, NEW s \in Counts(n), NEW t \in Counts(n + 1),
         \A i \in 1 .. n : t[i] = s[i]
  PROVE  Sum(t) = Sum(s) + t[n + 1]
<1>1. PICK f : SumIs(s, f) /\ f[n] = Sum(s) /\ \A i \in 0 .. n : f[i] \in Nat
  BY SumRuns
<1>2. PICK g : SumIs(t, g) /\ g[n + 1] = Sum(t) /\ \A i \in 0 .. n + 1 : g[i] \in Nat
  BY SumRuns
<1>3. Len(s) = n /\ Len(t) = n + 1
  BY DEF Counts
<1> DEFINE good == {i \in 0 .. n : f[i] = g[i]}
<1>4. 0 \in good
  BY <1>1, <1>2 DEF SumIs
<1>5. ASSUME NEW i \in 1 .. n, i - 1 \in good PROVE i \in good
  <2>1. f[i] = f[i - 1] + s[i] /\ i \in 1 .. n + 1
    BY <1>1, <1>3 DEF SumIs
  <2>2. g[i] = g[i - 1] + t[i]
    BY <1>2, <1>3, <2>1 DEF SumIs
  <2> QED BY <2>1, <2>2, <1>5
<1>6. \A i \in 0 .. n : i \in good
  <2> HIDE DEF good
  <2> QED BY <1>4, <1>5, AllAlong
<1>7. f[n] = g[n]
  BY <1>6
<1>8. g[n + 1] = g[n] + t[n + 1]
  <2>1. n + 1 \in 1 .. n + 1 /\ (n + 1) - 1 = n
    OBVIOUS
  <2> QED BY <1>2, <1>3, <2>1 DEF SumIs
<1> QED BY <1>1, <1>2, <1>7, <1>8

-----------------------------------------------------------------------------
(* Run lengths.                                                             *)
ShlIs(x, n, f) == f[0] = x /\ \A i \in 1 .. n : f[i] = 2 * f[i - 1]
ShlDefines(x, n, f) == f = [i \in 0 .. n |-> IF i = 0 THEN x ELSE 2 * f[i - 1]]

LEMMA ShlRuns ==
  ASSUME NEW n \in Nat, NEW x \in Nat
  PROVE  \E f : ShlIs(x, n, f) /\ f[n] = shl(x, n)
<1> DEFINE step == [p \in (1 .. n) \X Nat |-> 2 * p[2]]
<1>1. step \in StepFunctions(n, Nat)
  <2>1. ASSUME NEW p \in (1 .. n) \X Nat PROVE 2 * p[2] \in Nat
    OBVIOUS
  <2> QED BY <2>1 DEF StepFunctions
<1>2. \A i \in 1 .. n : \A y \in Nat : step[<<i, y>>] = 2 * y
  OBVIOUS
<1> HIDE DEF step
<1>3. PICK f : Runs(n, Nat, x, step, f)
  BY <1>1, RunExists
<1>4. \A i \in 1 .. n : i - 1 \in 0 .. n
  OBVIOUS
<1>5. f = [i \in 0 .. n |-> f[i]] /\ f[0] = x /\ \A i \in 1 .. n : f[i] = 2 * f[i - 1]
  BY <1>2, <1>3, <1>4 DEF Runs
<1>6. ShlDefines(x, n, f)
  <2>1. ASSUME NEW i \in 0 .. n PROVE f[i] = IF i = 0 THEN x ELSE 2 * f[i - 1]
    <3>1. i # 0 => i \in 1 .. n
      OBVIOUS
    <3> QED BY <1>5, <3>1
  <2> QED BY <1>5, <2>1 DEF ShlDefines
<1> DEFINE g == CHOOSE f1 : ShlDefines(x, n, f1)
<1>7. shl(x, n) = g[n]
  BY DEF shl, ShlDefines
<1>8. ShlDefines(x, n, g)
  BY <1>6
<1> HIDE DEF g
<1>9. g[0] = x
  BY <1>8 DEF ShlDefines
<1>10. ASSUME NEW i \in 1 .. n PROVE g[i] = 2 * g[i - 1]
  <2>1. i \in 0 .. n /\ i # 0
    OBVIOUS
  <2> QED BY <1>8, <2>1 DEF ShlDefines
<1> QED BY <1>7, <1>9, <1>10 DEF ShlIs

RunIs(k, f) ==
  \A i \in 0 .. k : f[i] = IF i <= FirstRun THEN FirstRun + i ELSE 2 * f[i - 1]
RunDefines(k, f) == f = [i \in 0 .. k |-> IF i <= FirstRun THEN FirstRun + i ELSE 2 * f[i - 1]]

LEMMA RunRuns ==
  ASSUME NEW k \in Nat
  PROVE  \E f : RunIs(k, f) /\ f[k] = DocumentedRun(k) /\ \A i \in 0 .. k : f[i] \in Nat /\ f[i] > 0
<1>0. FirstRun \in Nat /\ FirstRun > 0
  BY AvHuffAssumption
<1> DEFINE step == [p \in (1 .. k) \X Nat |-> IF p[1] <= FirstRun THEN FirstRun + p[1] ELSE 2 * p[2]]
<1>1. step \in StepFunctions(k, Nat)
  <2>1. ASSUME NEW p \in (1 .. k) \X Nat
        PROVE  (IF p[1] <= FirstRun THEN FirstRun + p[1] ELSE 2 * p[2]) \in Nat
    BY <1>0
  <2> QED BY <2>1 DEF StepFunctions
<1>2. \A i \in 1 .. k : \A y \in Nat :
        step[<<i, y>>] = IF i <= FirstRun THEN FirstRun + i ELSE 2 * y
  OBVIOUS
<1> HIDE DEF step
<1>3. PICK f : Runs(k, Nat, FirstRun, step, f)
  BY <1>0, <1>1, RunExists
<1>4. \A i \in 1 .. k : i - 1 \in 0 .. k
  OBVIOUS
<1>5. /\ f = [i \in 0 .. k |-> f[i]] /\ f[0] = FirstRun
      /\ \A i \in 1 .. k : f[i] = IF i <= FirstRun THEN FirstRun + i ELSE 2 * f[i - 1]
  BY <1>2, <1>3, <1>4 DEF Runs
<1>6. RunDefines(k, f)
  <2>1. ASSUME NEW i \in 0 .. k
        PROVE  f[i] = IF i <= FirstRun THEN FirstRun + i ELSE 2 * f[i - 1]
    <3>1. CASE i = 0
      BY <1>0, <1>5, <3>1
    <3>2. CASE i # 0
      <4>1. i \in 1 .. k
        BY <3>2
      <4> QED BY <1>5, <4>1
    <3> QED BY <3>1, <3>2
  <2> QED BY <1>5, <2>1 DEF RunDefines
<1> DEFINE g == CHOOSE f1 : RunDefines(k, f1)
<1>7. DocumentedRun(k) = g[k]
  BY DEF DocumentedRun, RunDefines
<1>8. RunDefines(k, g)
  BY <1>6
<1> HIDE DEF g
<1>9. RunIs(k, g)
  BY <1>8 DEF RunDefines, RunIs
<1>10. \A i \in 0 .. k : g[i] \in Nat /\ g[i] > 0
  <2> DEFINE good == {i \in 0 .. k : g[i] \in Nat /\ g[i] > 0}
  <2>1. 0 \in good
    BY <1>0, <1>9 DEF RunIs
  <2>2. ASSUME NEW i \in 1 .. k, i - 1 \in good PROVE i \in good
    <3>1. g[i - 1] \in Nat /\ g[i - 1] > 0 /\ i \in 0 .. k
      BY <2>2
    <3>2. g[i] = IF i <= FirstRun THEN FirstRun + i ELSE 2 * g[i - 1]
      BY <1>9, <3>1 DEF RunIs
    <3> QED BY <1>0, <3>1, <3>2
  <2>3. \A i \in 0 .. k : i \in good
    <3> HIDE DEF good
    <3> QED BY <2>1, <2>2, AllAlong
  <2> QED BY <2>3
<1> QED BY <1>7, <1>9, <1>10

(* code_to_rlecount shifts where the format doubles.                        *)
LEMMA RunsAreDocumented ==
  ASSUME NEW code \in Nat, code >= ByteValues
  PROVE  /\ code_to_rlecount(code) = DocumentedRun(code - ByteValues)
         /\ code_to_rlecount(code) \in Nat /\ code_to_rlecount(code) > 0
<1>0. ByteValues \in Nat /\ FirstRun \in Nat /\ FirstRun > 0
  BY AvHuffAssumption
<1>1. PICK k \in Nat : k = code - ByteValues
  BY <1>0
<1>2. PICK g : RunIs(k, g) /\ g[k] = DocumentedRun(k) /\ \A i \in 0 .. k : g[i] \in Nat /\ g[i] > 0
  BY RunRuns
<1>3. CASE k < FirstRun
  <2>1. code_to_rlecount(code) = FirstRun + k
    BY <1>1, <1>3 DEF code_to_rlecount
  <2>2. g[k] = FirstRun + k
    BY <1>0, <1>2, <1>3 DEF RunIs
  <2> QED BY <1>0, <1>1, <1>2, <2>1, <2>2
<1>4. CASE ~ (k < FirstRun)
  <2>1. PICK n \in Nat : n = k - FirstRun
    BY <1>0, <1>4
  <2>2. code_to_rlecount(code) = shl(2 * FirstRun, n)
    BY <1>1, <1>4, <2>1 DEF code_to_rlecount
  <2>3. 2 * FirstRun \in Nat
    BY <1>0
  <2>4. PICK f : ShlIs(2 * FirstRun, n, f) /\ f[n] = shl(2 * FirstRun, n)
    BY <2>3, ShlRuns
  <2> DEFINE good == {i \in 0 .. n : f[i] = g[FirstRun + i]}
  <2>5. 0 \in good
    <3>1. FirstRun \in 0 .. k /\ FirstRun + 0 = FirstRun
      BY <1>0, <1>4
    <3>2. g[FirstRun] = FirstRun + FirstRun
      BY <1>0, <1>2, <3>1 DEF RunIs
    <3>3. f[0] = 2 * FirstRun
      BY <2>4 DEF ShlIs
    <3> QED BY <1>0, <3>1, <3>2, <3>3
  <2>6. ASSUME NEW i \in 1 .. n, i - 1 \in good PROVE i \in good
    <3>1. PICK j : j = FirstRun + i
      OBVIOUS
    <3>2. j \in 0 .. k /\ ~ (j <= FirstRun) /\ j - 1 = FirstRun + (i - 1)
      BY <1>0, <2>1, <3>1
    <3>3. g[j] = 2 * g[j - 1]
      BY <1>2, <3>2 DEF RunIs
    <3>4. f[i] = 2 * f[i - 1]
      BY <2>4 DEF ShlIs
    <3>5. f[i - 1] = g[FirstRun + (i - 1)]
      BY <2>6
    <3> QED BY <3>1, <3>2, <3>3, <3>4, <3>5
  <2>7. \A i \in 0 .. n : i \in good
    <3> HIDE DEF good
    <3> QED BY <2>5, <2>6, AllAlong
  <2>8. f[n] = g[FirstRun + n]
    BY <2>7
  <2>9. FirstRun + n = k
    BY <1>0, <2>1
  <2> QED BY <1>1, <1>2, <2>2, <2>4, <2>8, <2>9
<1> QED BY <1>3, <1>4

-----------------------------------------------------------------------------
(* What codes stand for.                                                    *)
LEMMA RemainderOfSum ==
  ASSUME NEW a \in Nat, NEW b \in Nat, NEW m \in Nat, m > 0
  PROVE  ((a % m) + b) % m = (a + b) % m
<1>1. PICK q \in Nat, r \in 0 .. m - 1 : r = a % m /\ a = q * m + r
  <2>1. a \div m \in Nat /\ a % m \in 0 .. m - 1 /\ a = (a \div m) * m + (a % m)
    OBVIOUS
  <2> QED BY <2>1
<1>2. PICK t \in Nat, s \in 0 .. m - 1 : s = (r + b) % m /\ r + b = t * m + s
  <2> DEFINE x == r + b
  <2>1. x \in Nat
    OBVIOUS
  <2>2. x \div m \in Nat /\ x % m \in 0 .. m - 1 /\ x = (x \div m) * m + (x % m)
    BY <2>1
  <2> QED BY <2>2
<1>3. q + t \in Nat /\ a + b = (q + t) * m + s
  BY <1>1, <1>2
<1>4. ((q + t) * m + s) % m = s
  BY <1>3, Quotients
<1> QED BY <1>1, <1>2, <1>3, <1>4

LEMMA SpanIsNat ==
  ASSUME NEW code \in Nat
  PROVE  SpanOf(code) \in Nat /\ SpanOf(code) > 0
<1>1. ByteValues \in Nat
  BY AvHuffAssumption
<1> QED BY <1>1, RunsAreDocumented DEF SpanOf

Spans(codes, n) == [i \in 1 .. n |-> SpanOf(codes[i])]

LEMMA SpansAreCounts ==
  ASSUME NEW codes \in Seq(Nat), NEW n \in 0 .. Len(codes)
  PROVE  Spans(codes, n) \in Counts(n)
<1>1. ASSUME NEW i \in 1 .. n PROVE SpanOf(codes[i]) \in Nat
  <2>1. codes[i] \in Nat
    OBVIOUS
  <2> QED BY <2>1, SpanIsNat
<1> QED BY <1>1 DEF Counts, Spans

LEMMA StartIs ==
  ASSUME NEW codes \in Seq(Nat), NEW n \in 0 .. Len(codes)
  PROVE  StartOf(codes, n + 1) = 1 + Sum(Spans(codes, n)) /\ StartOf(codes, n + 1) \in Nat
<1>1. (n + 1) - 1 = n
  OBVIOUS
<1>2. StartOf(codes, n + 1) = 1 + Sum([i \in 1 .. (n + 1) - 1 |-> SpanOf(codes[i])])
  BY DEF StartOf
<1>3. StartOf(codes, n + 1) = 1 + Sum(Spans(codes, n))
  BY <1>1, <1>2 DEF Spans
<1>4. Sum(Spans(codes, n)) \in Nat
  BY SpansAreCounts, SumIsNat
<1> QED BY <1>3, <1>4

LEMMA FirstStart ==
  ASSUME NEW codes \in Seq(Nat)
  PROVE  StartOf(codes, 1) = 1
<1>1. Sum(Spans(codes, 0)) = 0
  BY SpansAreCounts, SumOfNone
<1>2. StartOf(codes, 0 + 1) = 1 + Sum(Spans(codes, 0))
  BY StartIs
<1> QED BY <1>1, <1>2

LEMMA StartsOfAppend ==
  ASSUME NEW codes \in Seq(Nat), NEW code \in Nat
  PROVE  /\ \A j \in 1 .. Len(codes) + 1 : /\ StartOf(codes, j) \in Nat
                                           /\ StartOf(Append(codes, code), j) = StartOf(codes, j)
         /\ StartOf(Append(codes, code), Len(codes) + 2) = StartOf(codes, Len(codes) + 1) + SpanOf(code)
<1> DEFINE n == Len(codes)
           more == Append(codes, code)
<1>1. n \in Nat /\ more \in Seq(Nat) /\ Len(more) = n + 1 /\ more[n + 1] = code
  OBVIOUS
<1>2. \A i \in 1 .. n : more[i] = codes[i]
  OBVIOUS
<1> HIDE DEF n, more
<1>3. n = Len(codes)
  BY DEF n
<1>4. ASSUME NEW j \in 1 .. n + 1
      PROVE  StartOf(codes, j) \in Nat /\ StartOf(more, j) = StartOf(codes, j)
  <2>1. PICK k \in 0 .. n : k + 1 = j
    <3>1. j - 1 \in 0 .. n /\ (j - 1) + 1 = j
      BY <1>1
    <3> QED BY <3>1
  <2>2. Spans(more, k) = Spans(codes, k)
    BY <1>1, <1>2 DEF Spans
  <2>3. k \in 0 .. Len(codes) /\ k \in 0 .. Len(more)
    BY <1>1, <1>3
  <2>4. StartOf(codes, k + 1) = 1 + Sum(Spans(codes, k)) /\ StartOf(codes, k + 1) \in Nat
    BY <2>3, StartIs
  <2>5. StartOf(more, k + 1) = 1 + Sum(Spans(more, k))
    BY <1>1, <2>3, StartIs
  <2> QED BY <2>1, <2>2, <2>4, <2>5
<1>5. StartOf(more, n + 2) = StartOf(codes, n + 1) + SpanOf(code)
  <2>1. n \in 0 .. Len(codes) /\ n + 1 \in 0 .. Len(more) /\ (n + 1) + 1 = n + 2
    BY <1>1, <1>3
  <2>2. StartOf(codes, n + 1) = 1 + Sum(Spans(codes, n))
    BY <2>1, StartIs
  <2>3. StartOf(more, n + 2) = 1 + Sum(Spans(more, n + 1))
    BY <1>1, <2>1, StartIs
  <2>4. Spans(codes, n) \in Counts(n) /\ Spans(more, n + 1) \in Counts(n + 1)
    BY <1>1, <2>1, SpansAreCounts
  <2>5. \A i \in 1 .. n : Spans(more, n + 1)[i] = Spans(codes, n)[i]
    BY <1>1, <1>2 DEF Spans
  <2>6. Spans(more, n + 1)[n + 1] = SpanOf(code)
    BY <1>1 DEF Spans
  <2>7. Sum(Spans(more, n + 1)) = Sum(Spans(codes, n)) + SpanOf(code)
    BY <1>1, <2>4, <2>5, <2>6, SumOfOneMore
  <2>8. Sum(Spans(codes, n)) \in Nat /\ SpanOf(code) \in Nat
    BY <1>1, <2>4, SumIsNat, SpanIsNat
  <2> QED BY <2>2, <2>3, <2>7, <2>8
<1> QED BY <1>3, <1>4, <1>5 DEF more

LEMMA DeltasAreCounts ==
  ASSUME NEW codes \in Seq(Nat), NEW k \in Nat
  PROVE  DeltasUpto(codes, k) \in Counts(Len(codes))
<1>1. ASSUME NEW j \in 1 .. Len(codes)
      PROVE  (IF codes[j] < ByteValues /\ StartOf(codes, j) <= k THEN codes[j] ELSE 0) \in Nat
  <2>1. codes[j] \in Nat
    OBVIOUS
  <2> QED BY <2>1
<1> QED BY <1>1 DEF Counts, DeltasUpto

(* One code more changes the bytes from where it starts.                    *)
LEMMA DeltasOfAppend ==
  ASSUME NEW codes \in Seq(Nat), NEW code \in Nat, NEW k \in Nat
  PROVE  Sum(DeltasUpto(Append(codes, code), k)) =
           Sum(DeltasUpto(codes, k))
           + (IF code < ByteValues /\ StartOf(codes, Len(codes) + 1) <= k THEN code ELSE 0)
<1> DEFINE n == Len(codes)
           more == Append(codes, code)
           s == DeltasUpto(codes, k)
           t == DeltasUpto(more, k)
<1>1. n \in Nat /\ more \in Seq(Nat) /\ Len(more) = n + 1 /\ more[n + 1] = code
  OBVIOUS
<1>2. \A i \in 1 .. n : more[i] = codes[i]
  OBVIOUS
<1>3. \A j \in 1 .. n + 1 : StartOf(more, j) = StartOf(codes, j)
  BY StartsOfAppend
<1> HIDE DEF n, more
<1>4. n = Len(codes)
  BY DEF n
<1>5. s \in Counts(n) /\ t \in Counts(n + 1)
  <2>1. DeltasUpto(more, k) \in Counts(Len(more))
    BY <1>1, DeltasAreCounts
  <2>2. DeltasUpto(codes, k) \in Counts(Len(codes))
    BY DeltasAreCounts
  <2> QED BY <1>1, <1>4, <2>1, <2>2
<1>6. ASSUME NEW i \in 1 .. n PROVE t[i] = s[i]
  <2>1. i \in 1 .. n + 1 /\ i \in 1 .. Len(codes) /\ i \in 1 .. Len(more)
    BY <1>1, <1>4
  <2>2. more[i] = codes[i] /\ StartOf(more, i) = StartOf(codes, i)
    BY <1>2, <1>3, <2>1
  <2> QED BY <2>1, <2>2 DEF DeltasUpto
<1>7. t[n + 1] = IF code < ByteValues /\ StartOf(codes, n + 1) <= k THEN code ELSE 0
  <2>1. n + 1 \in 1 .. Len(more) /\ n + 1 \in 1 .. n + 1
    BY <1>1
  <2> QED BY <1>1, <1>3, <2>1 DEF DeltasUpto
<1> HIDE DEF s, t
<1>8. Sum(t) = Sum(s) + t[n + 1]
  BY <1>1, <1>5, <1>6, SumOfOneMore
<1> QED BY <1>4, <1>7, <1>8 DEF s, t, more

LEMMA DeltasAreAll ==
  ASSUME NEW codes \in Seq(Nat), NEW k \in Nat,
         \A j \in 1 .. Len(codes) : StartOf(codes, j) \in Nat /\ StartOf(codes, j) <= k
  PROVE  DeltasUpto(codes, k + 1) = DeltasUpto(codes, k)
<1>1. \A j \in 1 .. Len(codes) : StartOf(codes, j) <= k /\ StartOf(codes, j) <= k + 1
  OBVIOUS
<1> QED BY <1>1 DEF DeltasUpto

ByteAt(codes, prev, k) == (prev + Sum(DeltasUpto(codes, k))) % ByteValues

LEMMA ExpansionIs ==
  ASSUME NEW codes, NEW prev, NEW n
  PROVE  Expansion(codes, prev, n) = [k \in 1 .. n |-> ByteAt(codes, prev, k)]
BY DEF Expansion, ByteAt, DeltasUpto

LEMMA CodesAreNat ==
  ASSUME NEW codes \in Seq(Symbols)
  PROVE  codes \in Seq(Nat) /\ Len(codes) \in Nat
<1>1. Symbols \subseteq Nat
  BY AvHuffAssumption
<1>2. Len(codes) \in Nat /\ codes \in [1 .. Len(codes) -> Symbols]
  OBVIOUS
<1>3. codes \in [1 .. Len(codes) -> Nat]
  BY <1>1, <1>2
<1> QED BY <1>2, <1>3

(* The byte a decoder holds is what its codes come to.                      *)
LEMMA PrevIsSum ==
  ASSUME NEW c, NEW codes \in Seq(Nat), NEW bytes \in Seq(ByteOf), NEW prev \in ByteOf,
         StreamIs(c, codes, bytes, prev)
  PROVE  c.prev = ByteAt(codes, prev, Len(bytes))
<1>0. ByteValues \in Nat /\ ByteValues > 0
  BY AvHuffAssumption
<1>1. CASE bytes = <<>>
  <2>1. Len(bytes) = 0 /\ c.prev = prev
    BY <1>1 DEF StreamIs
  <2>2. Len(codes) = 0
    <3>1. Len(codes) # 0 => StartOf(codes, 1) <= 0
      <4>1. Len(codes) # 0 => 1 \in 1 .. Len(codes)
        OBVIOUS
      <4> QED BY <2>1, <4>1 DEF StreamIs
    <3> QED BY <3>1, FirstStart
  <2>3. Sum(DeltasUpto(codes, 0)) = 0
    <3>1. DeltasUpto(codes, 0) \in Counts(Len(codes))
      <4>1. 0 \in Nat
        OBVIOUS
      <4> QED BY <4>1, DeltasAreCounts
    <3> QED BY <2>2, <3>1, SumOfNone
  <2>4. (prev + 0) % ByteValues = prev
    <3>1. prev \in Nat /\ prev \in 0 .. ByteValues - 1 /\ prev + 0 = prev
      BY <1>0 DEF ByteOf
    <3>2. (0 * ByteValues + prev) % ByteValues = prev
      <4>1. 0 \in Nat
        OBVIOUS
      <4> QED BY <1>0, <3>1, <4>1, Quotients
    <3>3. 0 * ByteValues + prev = prev
      BY <1>0, <3>1
    <3> QED BY <3>1, <3>2, <3>3
  <2>5. ByteAt(codes, prev, 0) = (prev + 0) % ByteValues
    BY <2>3 DEF ByteAt
  <2> QED BY <2>1, <2>4, <2>5
<1>2. CASE bytes # <<>>
  <2>1. c.prev = bytes[Len(bytes)]
    BY <1>2 DEF StreamIs
  <2>2. PICK n \in Nat : n = Len(bytes) /\ n \in 1 .. n
    BY <1>2
  <2>3. bytes = [k \in 1 .. n |-> ByteAt(codes, prev, k)]
    BY <2>2, ExpansionIs DEF StreamIs
  <2>4. bytes[n] = ByteAt(codes, prev, n)
    BY <2>2, <2>3
  <2> QED BY <2>1, <2>2, <2>4
<1> QED BY <1>1, <1>2

LEMMA DecoderIs ==
  ASSUME NEW c \in Decoder
  PROVE  /\ c.prev \in ByteOf /\ c.prev \in Nat /\ c.rlecount \in Nat
         /\ \A p \in ByteOf : [c EXCEPT !.prev = p] \in Decoder /\ [c EXCEPT !.prev = p].prev = p
                              /\ [c EXCEPT !.prev = p].rlecount = c.rlecount
         /\ \A r \in Nat : [c EXCEPT !.rlecount = r] \in Decoder /\ [c EXCEPT !.rlecount = r].prev = c.prev
                           /\ [c EXCEPT !.rlecount = r].rlecount = r
<1>1. c.prev \in ByteOf /\ c.rlecount \in Nat
  BY DEF Decoder
<1>2. ByteOf \subseteq Nat
  BY AvHuffAssumption DEF ByteOf
<1>3. ASSUME NEW p \in ByteOf
      PROVE  /\ [c EXCEPT !.prev = p] \in Decoder /\ [c EXCEPT !.prev = p].prev = p
             /\ [c EXCEPT !.prev = p].rlecount = c.rlecount
  BY DEF Decoder
<1>4. ASSUME NEW r \in Nat
      PROVE  /\ [c EXCEPT !.rlecount = r] \in Decoder /\ [c EXCEPT !.rlecount = r].prev = c.prev
             /\ [c EXCEPT !.rlecount = r].rlecount = r
  BY DEF Decoder
<1> QED BY <1>1, <1>2, <1>3, <1>4

(* A stream goes on soundly when the byte made is the one its codes say and *)
(* the codes, with the repeats left, reach just behind it.                  *)
LEMMA StreamGoesOn ==
  ASSUME NEW c \in Decoder, NEW d \in Decoder, NEW codes \in Seq(Nat), NEW more \in Seq(Nat),
         NEW bytes \in Seq(ByteOf), NEW prev \in ByteOf,
         StreamIs(c, codes, bytes, prev),
         \A k \in 1 .. Len(bytes) : Sum(DeltasUpto(more, k)) = Sum(DeltasUpto(codes, k)),
         d.prev = ByteAt(more, prev, Len(bytes) + 1),
         \A j \in 1 .. Len(more) : StartOf(more, j) <= Len(bytes) + 1,
         StartOf(more, Len(more) + 1) = (Len(bytes) + 1) + 1 + d.rlecount
  PROVE  StreamIs(d, more, Append(bytes, d.prev), prev)
<1> DEFINE n == Len(bytes)
           longer == Append(bytes, d.prev)
<1>1. n \in Nat /\ d.prev \in ByteOf
  BY DecoderIs
<1>2. Len(longer) = n + 1 /\ longer # <<>> /\ longer[n + 1] = d.prev /\ longer \in Seq(ByteOf)
  BY <1>1
<1>3. bytes = [k \in 1 .. n |-> ByteAt(codes, prev, k)]
  BY ExpansionIs DEF StreamIs
<1>4. longer = [k \in 1 .. n + 1 |-> ByteAt(more, prev, k)]
  <2>1. ASSUME NEW k \in 1 .. n + 1 PROVE longer[k] = ByteAt(more, prev, k)
    <3>1. CASE k = n + 1
      BY <1>2, <3>1
    <3>2. CASE k # n + 1
      <4>1. k \in 1 .. n
        BY <1>1, <3>2
      <4>2. longer[k] = bytes[k]
        BY <4>1
      <4>3. bytes[k] = ByteAt(codes, prev, k)
        <5> HIDE DEF n
        <5> QED BY <1>3, <4>1
      <4> QED BY <4>1, <4>2, <4>3 DEF ByteAt
    <3> QED BY <3>1, <3>2
  <2>2. longer = [k \in 1 .. n + 1 |-> longer[k]]
    BY <1>1, <1>2
  <2> HIDE DEF longer, n
  <2> QED BY <2>1, <2>2
<1>5. longer = Expansion(more, prev, Len(longer))
  BY <1>2, <1>4, ExpansionIs
<1> HIDE DEF longer
<1> QED BY <1>2, <1>5 DEF StreamIs, longer

LEMMA DecodeOneIsSound ==
  ASSUME NEW c \in Decoder, NEW codes \in Seq(Symbols), NEW bytes \in Seq(ByteOf),
         NEW prev \in ByteOf, StreamIs(c, codes, bytes, prev), NEW code \in NextCodes(c),
         NEW d, d = deltarle_decode_one(c, code)
  PROVE  /\ d \in Decoder
         /\ StreamIs(d, IF c.rlecount # 0 THEN codes ELSE Append(codes, code), Append(bytes, d.prev), prev)
<1> DEFINE n == Len(bytes)
           m == Len(codes)
<1>0. /\ ByteValues \in Nat /\ ByteValues > 0 /\ n \in Nat
      /\ c.prev \in ByteOf /\ c.prev \in Nat /\ c.rlecount \in Nat
  BY AvHuffAssumption, DecoderIs
<1>1. codes \in Seq(Nat) /\ m \in Nat
  BY CodesAreNat
<1>2. \A j \in 1 .. m + 1 : StartOf(codes, j) \in Nat
  BY <1>1, StartsOfAppend
<1>3. \A j \in 1 .. m : StartOf(codes, j) <= n
  BY DEF StreamIs
<1>4. StartOf(codes, m + 1) = n + 1 + c.rlecount
  BY DEF StreamIs
<1>5. c.prev = ByteAt(codes, prev, n)
  BY <1>1, PrevIsSum
<1>6. Sum(DeltasUpto(codes, n + 1)) = Sum(DeltasUpto(codes, n))
  <2>1. \A j \in 1 .. Len(codes) : StartOf(codes, j) \in Nat /\ StartOf(codes, j) <= n
    <3>1. \A j \in 1 .. m : j \in 1 .. m + 1
      BY <1>1
    <3> QED BY <1>2, <1>3, <3>1
  <2> QED BY <1>0, <1>1, <2>1, DeltasAreAll
<1>7. \A j \in 1 .. m : StartOf(codes, j) <= n + 1
  <2>1. ASSUME NEW j \in 1 .. m PROVE StartOf(codes, j) <= n + 1
    <3>1. j \in 1 .. m + 1
      BY <1>1
    <3>2. StartOf(codes, j) \in Nat /\ StartOf(codes, j) <= n
      BY <1>2, <1>3, <3>1
    <3> QED BY <1>0, <3>2
  <2> QED BY <2>1
<1>8. CASE c.rlecount # 0
  <2>1. PICK r \in Nat : r = c.rlecount - 1 /\ c.rlecount = r + 1
    BY <1>0, <1>8
  <2>2. d = [c EXCEPT !.rlecount = r]
    <3>1. d = [c EXCEPT !.rlecount = c.rlecount - 1]
      BY <1>8 DEF deltarle_decode_one
    <3> QED BY <2>1, <3>1
  <2>3. d \in Decoder /\ d.prev = c.prev /\ d.rlecount = r
    BY <2>2, DecoderIs
  <2>4. d.prev = ByteAt(codes, prev, n + 1)
    BY <1>5, <1>6, <2>3 DEF ByteAt
  <2>5. StartOf(codes, m + 1) = (n + 1) + 1 + d.rlecount
    <3>1. n + 1 + (r + 1) = (n + 1) + 1 + r
      BY <1>0
    <3> HIDE DEF n, m
    <3> QED BY <1>4, <2>1, <2>3, <3>1
  <2>6. StreamIs(d, codes, Append(bytes, d.prev), prev)
    <3> HIDE DEF n, m
    <3>1. n = Len(bytes) /\ m = Len(codes)
      BY DEF n, m
    <3> QED BY <1>1, <1>7, <2>3, <2>4, <2>5, <3>1, StreamGoesOn
  <2> QED BY <1>8, <2>3, <2>6
<1>9. CASE c.rlecount = 0
  <2> DEFINE more == Append(codes, code)
  <2>1. code \in Symbols /\ code \in Nat
    BY <1>9, AvHuffAssumption DEF NextCodes
  <2>2. more \in Seq(Nat) /\ Len(more) = m + 1
    BY <1>1, <2>1
  <2>3. /\ \A j \in 1 .. m + 1 : StartOf(more, j) = StartOf(codes, j)
        /\ StartOf(more, m + 2) = StartOf(codes, m + 1) + SpanOf(code)
    BY <1>1, <2>1, StartsOfAppend
  <2>4. StartOf(codes, m + 1) = n + 1
    BY <1>0, <1>4, <1>9
  <2>5. \A k \in 1 .. n : Sum(DeltasUpto(more, k)) = Sum(DeltasUpto(codes, k))
    <3>1. ASSUME NEW k \in 1 .. n PROVE Sum(DeltasUpto(more, k)) = Sum(DeltasUpto(codes, k))
      <4>1. k \in Nat /\ ~ (n + 1 <= k)
        BY <1>0
      <4>2. Sum(DeltasUpto(more, k)) = Sum(DeltasUpto(codes, k)) + 0
        BY <1>1, <2>1, <2>4, <4>1, DeltasOfAppend
      <4>3. Sum(DeltasUpto(codes, k)) \in Nat
        BY <1>1, <4>1, DeltasAreCounts, SumIsNat
      <4> QED BY <4>2, <4>3
    <3> QED BY <3>1
  <2>6. Sum(DeltasUpto(more, n + 1)) = Sum(DeltasUpto(codes, n)) + (IF code < ByteValues THEN code ELSE 0)
    <3>1. n + 1 <= n + 1 /\ n + 1 \in Nat
      BY <1>0
    <3>2. Sum(DeltasUpto(more, n + 1))
            = Sum(DeltasUpto(codes, n + 1)) + (IF code < ByteValues /\ n + 1 <= n + 1 THEN code ELSE 0)
      BY <1>1, <2>1, <2>4, <3>1, DeltasOfAppend
    <3> QED BY <1>6, <3>1, <3>2
  <2>7. PICK s \in Nat : s = Sum(DeltasUpto(codes, n))
    BY <1>0, <1>1, DeltasAreCounts, SumIsNat
  <2>8. prev \in Nat
    BY <1>0 DEF ByteOf
  <2>9. \A j \in 1 .. Len(more) : StartOf(more, j) <= n + 1
    <3>1. ASSUME NEW j \in 1 .. m + 1 PROVE StartOf(more, j) <= n + 1
      <4>1. CASE j = m + 1
        BY <1>0, <2>3, <2>4, <4>1
      <4>2. CASE j # m + 1
        <5>1. j \in 1 .. m
          BY <1>1, <4>2
        <5> QED BY <1>7, <2>3, <5>1
      <4> QED BY <4>1, <4>2
    <3> QED BY <2>2, <3>1
  <2>10. Len(more) + 1 = m + 2
    BY <1>1, <2>2
  <2>11. SpanOf(code) \in Nat /\ SpanOf(code) > 0
    BY <2>1, SpanIsNat
  <2>12. /\ d \in Decoder /\ d.prev = ByteAt(more, prev, n + 1)
         /\ StartOf(more, m + 2) = (n + 1) + 1 + d.rlecount
    <3>1. CASE code < ByteValues
      <4>1. PICK q : q = (c.prev + code) % ByteValues
        OBVIOUS
      <4>2. d = [c EXCEPT !.prev = q]
        <5>1. d = [c EXCEPT !.prev = (c.prev + code) % ByteValues]
          BY <1>9, <3>1 DEF deltarle_decode_one
        <5> QED BY <4>1, <5>1
      <4>3. q \in ByteOf
        <5>1. c.prev + code \in Nat
          BY <1>0, <2>1
        <5>2. (c.prev + code) % ByteValues \in 0 .. ByteValues - 1
          BY <1>0, <5>1
        <5> QED BY <4>1, <5>2 DEF ByteOf
      <4>4. d \in Decoder /\ d.prev = q /\ d.rlecount = 0
        BY <1>9, <4>2, <4>3, DecoderIs
      <4>5. q = ByteAt(more, prev, n + 1)
        <5>1. c.prev = (prev + s) % ByteValues
          BY <1>5, <2>7 DEF ByteAt
        <5>2. (((prev + s) % ByteValues) + code) % ByteValues = ((prev + s) + code) % ByteValues
          <6>1. prev + s \in Nat
            BY <2>7, <2>8
          <6> QED BY <1>0, <2>1, <6>1, RemainderOfSum
        <5>3. (prev + s) + code = prev + (s + code)
          BY <2>1, <2>7, <2>8
        <5>4. ByteAt(more, prev, n + 1) = (prev + (s + code)) % ByteValues
          BY <2>6, <2>7, <3>1 DEF ByteAt
        <5> QED BY <4>1, <5>1, <5>2, <5>3, <5>4
      <4>6. SpanOf(code) = 1
        BY <3>1 DEF SpanOf
      <4> QED BY <1>0, <2>3, <2>4, <4>4, <4>5, <4>6
    <3>2. CASE ~ (code < ByteValues)
      <4>1. SpanOf(code) = code_to_rlecount(code)
        <5>1. code >= ByteValues
          BY <1>0, <2>1, <3>2
        <5> QED BY <2>1, <3>2, <5>1, RunsAreDocumented DEF SpanOf
      <4>2. PICK r \in Nat : r = SpanOf(code) - 1 /\ SpanOf(code) = r + 1
        BY <2>11
      <4>3. d = [c EXCEPT !.rlecount = r]
        <5>1. d = [c EXCEPT !.rlecount = code_to_rlecount(code) - 1]
          BY <1>9, <3>2 DEF deltarle_decode_one
        <5> QED BY <4>1, <4>2, <5>1
      <4>4. d \in Decoder /\ d.prev = c.prev /\ d.rlecount = r
        BY <4>3, DecoderIs
      <4>5. d.prev = ByteAt(more, prev, n + 1)
        <5>1. Sum(DeltasUpto(more, n + 1)) = Sum(DeltasUpto(codes, n))
          BY <2>6, <2>7, <3>2
        <5> QED BY <1>5, <4>4, <5>1 DEF ByteAt
      <4>6. StartOf(more, m + 2) = (n + 1) + 1 + d.rlecount
        <5>1. (n + 1) + (r + 1) = (n + 1) + 1 + r
          BY <1>0
        <5> HIDE DEF n, m, more
        <5> QED BY <2>3, <2>4, <4>2, <4>4, <5>1
      <4> QED BY <4>4, <4>5, <4>6
    <3> QED BY <3>1, <3>2
  <2>13. StreamIs(d, more, Append(bytes, d.prev), prev)
    <3> HIDE DEF n, m, more
    <3>1. n = Len(bytes)
      BY DEF n
    <3> QED BY <1>1, <2>2, <2>5, <2>9, <2>10, <2>12, <3>1, StreamGoesOn
  <2> QED BY <1>9, <2>12, <2>13
<1> QED BY <1>0, <1>8, <1>9

-----------------------------------------------------------------------------
(* The decoders that share a stream.                                        *)
StreamStates ==
  [context : [Planes -> Decoder], taken : [Planes -> Seq(Symbols)], out : [Planes -> Seq(ByteOf)]]

HasStream(s, p, prev) == StreamIs(s.context[p], s.taken[p], s.out[p], prev)

SameStream(s, t, p) ==
  s.context[p] = t.context[p] /\ s.taken[p] = t.taken[p] /\ s.out[p] = t.out[p]

LEMMA StreamStatesAre ==
  ASSUME NEW s \in StreamStates
  PROVE  /\ s.context \in [Planes -> Decoder] /\ s.taken \in [Planes -> Seq(Symbols)]
         /\ s.out \in [Planes -> Seq(ByteOf)]
         /\ \A p \in Planes : /\ s.context[p] \in Decoder /\ s.taken[p] \in Seq(Symbols)
                              /\ s.out[p] \in Seq(ByteOf)
<1>1. /\ s.context \in [Planes -> Decoder] /\ s.taken \in [Planes -> Seq(Symbols)]
      /\ s.out \in [Planes -> Seq(ByteOf)]
  BY DEF StreamStates
<1> QED BY <1>1

LEMMA DecoderGoesOn ==
  ASSUME NEW c \in Decoder, NEW code \in NextCodes(c)
  PROVE  deltarle_decode_one(c, code) \in Decoder
<1>0. ByteValues \in Nat /\ ByteValues > 0 /\ Symbols \subseteq Nat
  BY AvHuffAssumption
<1>1. CASE c.rlecount # 0
  <2>1. PICK r \in Nat : r = c.rlecount - 1
    BY <1>1, DecoderIs
  <2>2. deltarle_decode_one(c, code) = [c EXCEPT !.rlecount = c.rlecount - 1]
    BY <1>1 DEF deltarle_decode_one
  <2> QED BY <2>1, <2>2, DecoderIs
<1>2. CASE c.rlecount = 0
  <2>1. code \in Nat
    BY <1>0, <1>2 DEF NextCodes
  <2>2. CASE code < ByteValues
    <3>1. deltarle_decode_one(c, code) = [c EXCEPT !.prev = (c.prev + code) % ByteValues]
      BY <1>2, <2>2 DEF deltarle_decode_one
    <3>2. c.prev + code \in Nat
      BY <2>1, DecoderIs
    <3>3. (c.prev + code) % ByteValues \in ByteOf
      BY <1>0, <3>2 DEF ByteOf
    <3> QED BY <3>1, <3>3, DecoderIs
  <2>3. CASE ~ (code < ByteValues)
    <3>1. deltarle_decode_one(c, code) = [c EXCEPT !.rlecount = code_to_rlecount(code) - 1]
      BY <1>2, <2>3 DEF deltarle_decode_one
    <3>2. code_to_rlecount(code) \in Nat /\ code_to_rlecount(code) > 0
      <4>1. code >= ByteValues
        BY <1>0, <2>1, <2>3
      <4> QED BY <2>1, <4>1, RunsAreDocumented
    <3>3. code_to_rlecount(code) - 1 \in Nat
      BY <3>2
    <3> QED BY <3>1, <3>3, DecoderIs
  <2> QED BY <2>2, <2>3
<1> QED BY <1>1, <1>2, DecoderIs

LEMMA DecodeIs ==
  ASSUME NEW s \in StreamStates, NEW p \in Planes, NEW code \in NextCodes(s.context[p]),
         NEW t, t = Decode(s, p, code)
  PROVE  /\ t \in StreamStates
         /\ t.context[p] = deltarle_decode_one(s.context[p], code)
         /\ t.taken[p] = IF s.context[p].rlecount # 0 THEN s.taken[p] ELSE Append(s.taken[p], code)
         /\ t.out[p] = Append(s.out[p], t.context[p].prev)
         /\ \A q \in Planes \ {p} : SameStream(t, s, q)
<1>1. PICK c : c = s.context[p]
  OBVIOUS
<1>2. PICK d : d = deltarle_decode_one(c, code)
  OBVIOUS
<1>3. c \in Decoder /\ d \in Decoder /\ d.prev \in ByteOf
  BY <1>1, <1>2, DecoderGoesOn, StreamStatesAre, DecoderIs
<1>4. PICK codes : codes = IF c.rlecount # 0 THEN s.taken[p] ELSE Append(s.taken[p], code)
  OBVIOUS
<1>5. codes \in Seq(Symbols)
  <2>1. s.taken[p] \in Seq(Symbols)
    BY StreamStatesAre
  <2>2. c.rlecount = 0 => code \in Symbols
    BY <1>1 DEF NextCodes
  <2> QED BY <1>4, <2>1, <2>2
<1>6. PICK bytes : bytes = Append(s.out[p], d.prev)
  OBVIOUS
<1>7. bytes \in Seq(ByteOf)
  <2>1. s.out[p] \in Seq(ByteOf)
    BY StreamStatesAre
  <2> QED BY <1>3, <1>6, <2>1
<1>8. t = [s EXCEPT !.context[p] = d, !.taken[p] = codes, !.out[p] = bytes]
  BY <1>1, <1>2, <1>4, <1>6 DEF Decode
<1>9. t = [context |-> [s.context EXCEPT ![p] = d], taken |-> [s.taken EXCEPT ![p] = codes],
           out |-> [s.out EXCEPT ![p] = bytes]]
  BY <1>8 DEF StreamStates
<1>10. /\ t.context = [s.context EXCEPT ![p] = d] /\ t.taken = [s.taken EXCEPT ![p] = codes]
       /\ t.out = [s.out EXCEPT ![p] = bytes]
  BY <1>9
<1>11. /\ t.context \in [Planes -> Decoder] /\ t.taken \in [Planes -> Seq(Symbols)]
       /\ t.out \in [Planes -> Seq(ByteOf)]
  BY <1>3, <1>5, <1>7, <1>10, StreamStatesAre
<1>12. t \in StreamStates
  <2>1. t = [context |-> t.context, taken |-> t.taken, out |-> t.out]
    BY <1>9, <1>10, Zenon
  <2> QED BY <1>11, <2>1 DEF StreamStates
<1>13. t.context[p] = d /\ t.taken[p] = codes /\ t.out[p] = bytes
  BY <1>10, StreamStatesAre
<1>14. \A q \in Planes \ {p} : SameStream(t, s, q)
  BY <1>10, StreamStatesAre DEF SameStream
<1> QED BY <1>1, <1>2, <1>4, <1>6, <1>12, <1>13, <1>14

LEMMA DecodeKeeps ==
  ASSUME NEW s \in StreamStates, NEW p \in Planes, NEW code \in NextCodes(s.context[p]),
         NEW prev \in ByteOf, HasStream(s, p, prev)
  PROVE  HasStream(Decode(s, p, code), p, prev)
<1>1. PICK t : t = Decode(s, p, code)
  OBVIOUS
<1>2. PICK d : d = deltarle_decode_one(s.context[p], code)
  OBVIOUS
<1>3. /\ t.context[p] = d /\ t.out[p] = Append(s.out[p], d.prev)
      /\ t.taken[p] = IF s.context[p].rlecount # 0 THEN s.taken[p] ELSE Append(s.taken[p], code)
  BY <1>1, <1>2, DecodeIs
<1>4. StreamIs(d, IF s.context[p].rlecount # 0 THEN s.taken[p] ELSE Append(s.taken[p], code),
               Append(s.out[p], d.prev), prev)
  <2>1. s.context[p] \in Decoder /\ s.taken[p] \in Seq(Symbols) /\ s.out[p] \in Seq(ByteOf)
    BY StreamStatesAre
  <2>2. StreamIs(s.context[p], s.taken[p], s.out[p], prev)
    BY DEF HasStream
  <2> QED BY <1>2, <2>1, <2>2, DecodeOneIsSound
<1> QED BY <1>1, <1>3, <1>4 DEF HasStream

LEMMA SameStreamKeeps ==
  ASSUME NEW s, NEW t, NEW p, NEW prev, SameStream(t, s, p), HasStream(s, p, prev)
  PROVE  HasStream(t, p, prev)
BY DEF SameStream, HasStream

(* A decoder that was reset, with nothing taken and nothing made.           *)
LEMMA FreshStream ==
  ASSUME NEW c, NEW prev, c.prev = prev, c.rlecount = 0
  PROVE  StreamIs(c, <<>>, <<>>, prev)
<1>1. Expansion(<<>>, prev, 0) = <<>>
  BY ExpansionIs
<1>2. <<>> \in Seq(Nat) /\ Len(<<>>) = 0
  OBVIOUS
<1>3. StartOf(<<>>, 1) = 1
  BY <1>2, FirstStart
<1>4. StartOf(<<>>, Len(<<>>) + 1) = Len(<<>>) + 1 + c.rlecount
  BY <1>2, <1>3
<1>5. \A j \in 1 .. Len(<<>>) : StartOf(<<>>, j) <= Len(<<>>)
  BY <1>2
<1> QED BY <1>1, <1>2, <1>4, <1>5 DEF StreamIs

(* Wherever a row or a channel stands, its codes are just enough.           *)
LEMMA StreamIsJustEnough ==
  ASSUME NEW c \in Decoder, NEW codes, NEW bytes \in Seq(ByteOf), NEW prev,
         StreamIs(c, codes, bytes, prev)
  PROVE  bytes = Expansion(codes, prev, Len(bytes)) /\ JustEnough(codes, Len(bytes))
<1>1. Len(bytes) \in Nat /\ c.rlecount \in Nat
  BY DecoderIs
<1>2. StartOf(codes, Len(codes) + 1) = Len(bytes) + 1 + c.rlecount
  BY DEF StreamIs
<1>3. Len(bytes) + 1 + c.rlecount > Len(bytes)
  BY <1>1
<1> QED BY <1>2, <1>3 DEF StreamIs, JustEnough

-----------------------------------------------------------------------------
(* Samples.                                                                 *)
SamplesAre(hi, lo, n, f) ==
  /\ f[0] = 0 /\ \A k \in 1 .. n : f[k] = Plus(f[k - 1], Delta(hi[k], lo[k]))
SamplesDefine(hi, lo, n, f) ==
  f = [k \in 0 .. n |-> IF k = 0 THEN 0 ELSE Plus(f[k - 1], Delta(hi[k], lo[k]))]

LEMMA PlusIsNat ==
  ASSUME NEW value \in Nat, NEW hi \in ByteOf, NEW lo \in ByteOf
  PROVE  Plus(value, Delta(hi, lo)) \in Nat
<1>1. ByteValues \in Nat /\ ByteValues > 0
  BY AvHuffAssumption
<1>2. hi \in Nat /\ lo \in Nat
  BY <1>1 DEF ByteOf
<1>3. PICK m \in Nat : m = ByteValues * ByteValues /\ m > 0
  BY <1>1
<1>4. PICK x \in Nat : x = value + Delta(hi, lo)
  <2>1. hi * ByteValues \in Nat
    BY <1>1, <1>2
  <2>2. value + (hi * ByteValues + lo) \in Nat
    BY <1>2, <2>1
  <2> QED BY <2>2 DEF Delta
<1>5. x % m \in Nat
  BY <1>3
<1> QED BY <1>3, <1>4, <1>5 DEF Plus

LEMMA SamplesRun ==
  ASSUME NEW hi \in Seq(ByteOf), NEW lo \in Seq(ByteOf), NEW n \in Nat, Len(hi) = n, Len(lo) = n
  PROVE  \E f : /\ SamplesAre(hi, lo, n, f) /\ DeltaSums(hi, lo, n) = [k \in 1 .. n |-> f[k]]
                /\ \A k \in 0 .. n : f[k] \in Nat
<1>0. \A k \in 1 .. n : hi[k] \in ByteOf /\ lo[k] \in ByteOf
  OBVIOUS
<1> DEFINE step == [p \in (1 .. n) \X Nat |-> Plus(p[2], Delta(hi[p[1]], lo[p[1]]))]
<1>1. 0 \in Nat /\ step \in StepFunctions(n, Nat)
  <2>1. ASSUME NEW p \in (1 .. n) \X Nat PROVE Plus(p[2], Delta(hi[p[1]], lo[p[1]])) \in Nat
    <3>1. p[1] \in 1 .. n /\ p[2] \in Nat
      OBVIOUS
    <3> QED BY <1>0, <3>1, PlusIsNat
  <2> QED BY <2>1 DEF StepFunctions
<1>2. \A k \in 1 .. n : \A x \in Nat : step[<<k, x>>] = Plus(x, Delta(hi[k], lo[k]))
  OBVIOUS
<1> HIDE DEF step
<1>3. PICK f : Runs(n, Nat, 0, step, f)
  BY <1>1, RunExists
<1>4. \A i \in 1 .. n : i - 1 \in 0 .. n
  OBVIOUS
<1>5. /\ f = [i \in 0 .. n |-> f[i]] /\ f[0] = 0
      /\ \A k \in 1 .. n : f[k] = Plus(f[k - 1], Delta(hi[k], lo[k]))
  BY <1>2, <1>3, <1>4 DEF Runs
<1>6. SamplesDefine(hi, lo, n, f)
  <2>1. ASSUME NEW k \in 0 .. n
        PROVE  f[k] = IF k = 0 THEN 0 ELSE Plus(f[k - 1], Delta(hi[k], lo[k]))
    <3>1. k # 0 => k \in 1 .. n
      OBVIOUS
    <3> QED BY <1>5, <3>1
  <2> QED BY <1>5, <2>1 DEF SamplesDefine
<1> DEFINE g == CHOOSE f1 : SamplesDefine(hi, lo, n, f1)
<1>7. DeltaSums(hi, lo, n) = [k \in 1 .. n |-> g[k]]
  BY DEF DeltaSums, SamplesDefine
<1>8. SamplesDefine(hi, lo, n, g)
  BY <1>6
<1> HIDE DEF g
<1>9. SamplesAre(hi, lo, n, g)
  <2>1. g[0] = 0
    BY <1>8 DEF SamplesDefine
  <2>2. ASSUME NEW i \in 1 .. n PROVE g[i] = Plus(g[i - 1], Delta(hi[i], lo[i]))
    <3>1. i \in 0 .. n /\ i # 0
      OBVIOUS
    <3> QED BY <1>8, <3>1 DEF SamplesDefine
  <2> QED BY <2>1, <2>2 DEF SamplesAre
<1>10. \A k \in 0 .. n : g[k] \in Nat
  <2> DEFINE good == {k \in 0 .. n : g[k] \in Nat}
  <2>1. 0 \in good
    BY <1>9 DEF SamplesAre
  <2>2. ASSUME NEW i \in 1 .. n, i - 1 \in good PROVE i \in good
    <3>1. g[i] = Plus(g[i - 1], Delta(hi[i], lo[i])) /\ g[i - 1] \in Nat
      BY <1>9, <2>2 DEF SamplesAre
    <3>2. hi[i] \in ByteOf /\ lo[i] \in ByteOf
      BY <1>0
    <3>3. g[i] \in Nat
      BY <3>1, <3>2, PlusIsNat
    <3> QED BY <3>3
  <2>3. \A i \in 0 .. n : i \in good
    <3> HIDE DEF good
    <3> QED BY <2>1, <2>2, AllAlong
  <2> QED BY <2>3
<1> QED BY <1>7, <1>9, <1>10

LEMMA NoSamples == DeltaSums(<<>>, <<>>, 0) = <<>>
<1>1. PICK e, z : e = <<>> /\ z = 0
  OBVIOUS
<1>2. e \in Seq(ByteOf) /\ Len(e) = z /\ z \in Nat
  BY <1>1
<1>3. PICK f : DeltaSums(e, e, z) = [k \in 1 .. z |-> f[k]]
  BY <1>2, SamplesRun
<1> QED BY <1>1, <1>3

(* One sample more.                                                         *)
LastSample(all, n) == IF n = 0 THEN 0 ELSE Last(all)

LEMMA SamplesOfOneMore ==
  ASSUME NEW n \in Nat, NEW hi \in Seq(ByteOf), NEW lo \in Seq(ByteOf), Len(hi) = n, Len(lo) = n,
         NEW h \in ByteOf, NEW l \in ByteOf,
         NEW v, v = LastSample(DeltaSums(hi, lo, n), n)
  PROVE  DeltaSums(Append(hi, h), Append(lo, l), n + 1)
           = Append(DeltaSums(hi, lo, n), Plus(v, Delta(h, l)))
<1>1. PICK f : /\ SamplesAre(hi, lo, n, f) /\ DeltaSums(hi, lo, n) = [k \in 1 .. n |-> f[k]]
               /\ \A k \in 0 .. n : f[k] \in Nat
  BY SamplesRun
<1> DEFINE hi2 == Append(hi, h)
           lo2 == Append(lo, l)
<1>2. /\ hi2 \in Seq(ByteOf) /\ lo2 \in Seq(ByteOf) /\ Len(hi2) = n + 1 /\ Len(lo2) = n + 1
      /\ hi2[n + 1] = h /\ lo2[n + 1] = l /\ n + 1 \in Nat
      /\ \A k \in 1 .. n : hi2[k] = hi[k] /\ lo2[k] = lo[k]
  OBVIOUS
<1> HIDE DEF hi2, lo2
<1>3. PICK g : /\ SamplesAre(hi2, lo2, n + 1, g)
               /\ DeltaSums(hi2, lo2, n + 1) = [k \in 1 .. n + 1 |-> g[k]]
               /\ \A k \in 0 .. n + 1 : g[k] \in Nat
  BY <1>2, SamplesRun
<1> DEFINE good == {k \in 0 .. n : f[k] = g[k]}
<1>4. 0 \in good
  BY <1>1, <1>3 DEF SamplesAre
<1>5. ASSUME NEW i \in 1 .. n, i - 1 \in good PROVE i \in good
  <2>1. i \in 1 .. n + 1 /\ f[i - 1] = g[i - 1]
    BY <1>5
  <2>2. f[i] = Plus(f[i - 1], Delta(hi[i], lo[i])) /\ g[i] = Plus(g[i - 1], Delta(hi2[i], lo2[i]))
    BY <1>1, <1>3, <2>1 DEF SamplesAre
  <2>3. f[i] = g[i]
    BY <1>2, <2>1, <2>2
  <2> QED BY <2>3
<1>6. \A i \in 0 .. n : i \in good
  <2> HIDE DEF good
  <2> QED BY <1>4, <1>5, AllAlong
<1>7. v = f[n]
  <2>1. CASE n = 0
    BY <1>1, <2>1 DEF SamplesAre, LastSample
  <2>2. CASE n # 0
    <3>1. Len(DeltaSums(hi, lo, n)) = n /\ n \in 1 .. n
      BY <1>1, <2>2
    <3> QED BY <1>1, <2>2, <3>1 DEF Last, LastSample
  <2> QED BY <2>1, <2>2
<1>8. g[n + 1] = Plus(f[n], Delta(h, l))
  <2>1. n + 1 \in 1 .. n + 1 /\ (n + 1) - 1 = n /\ n \in 0 .. n
    OBVIOUS
  <2>2. g[n + 1] = Plus(g[n], Delta(hi2[n + 1], lo2[n + 1]))
    BY <1>3, <2>1 DEF SamplesAre
  <2>3. f[n] = g[n]
    BY <1>6, <2>1
  <2> QED BY <1>2, <2>2, <2>3
<1>9. PICK x \in Nat : x = g[n + 1]
  <2>1. n + 1 \in 0 .. n + 1
    OBVIOUS
  <2> QED BY <1>3, <2>1
<1>10. [k \in 1 .. n + 1 |-> g[k]] = Append([k \in 1 .. n |-> f[k]], x)
  <2>1. \A k \in 1 .. n : g[k] = f[k]
    BY <1>6
  <2>2. [k \in 1 .. n |-> f[k]] \in Seq(Nat)
    BY <1>1
  <2> QED BY <1>9, <2>1, <2>2
<1> QED BY <1>1, <1>3, <1>7, <1>8, <1>9, <1>10 DEF hi2, lo2

-----------------------------------------------------------------------------
(* The layout of a hunk.                                                    *)
LEMMA AvHunksAre ==
  ASSUME NEW h \in AvHunks
  PROVE  /\ h.metasize \in Nat /\ h.channels \in Nat /\ h.samples \in Nat /\ h.width \in Nat
         /\ h.height \in Nat /\ h.complen \in Nat /\ h.destlen \in Nat /\ h.treesize \in Nat
         /\ h.sizes \in Counts(h.channels)
<1>1. /\ {h.metasize, h.channels, h.samples, h.width, h.height, h.complen, h.destlen} \subseteq Nat
      /\ h.treesize \in Nat /\ h.sizes \in Seq(Nat) /\ Len(h.sizes) = h.channels
  BY AvHuffAssumption
<1>2. h.sizes \in Counts(h.channels)
  <2>1. PICK s, n : s = h.sizes /\ n = h.channels
    OBVIOUS
  <2>2. s \in Seq(Nat) /\ Len(s) = n
    BY <1>1, <2>1
  <2>3. s \in [1 .. n -> Nat]
    BY <2>2
  <2> QED BY <2>1, <2>3 DEF Counts
<1> QED BY <1>1, <1>2

LEMMA AudioLayout ==
  ASSUME NEW h \in AvHunks, NEW ch \in 0 .. h.channels
  PROVE  /\ AudioStart(h, ch) \in Nat /\ VideoStart(h) \in Nat
         /\ AudioStart(h, ch) <= VideoStart(h) /\ AudioStart(h, 0) = 12 + h.metasize
         /\ ch < h.channels => /\ AudioStart(h, ch + 1) = AudioStart(h, ch) + 2 * h.samples
                               /\ AudioStart(h, ch) + 2 * h.samples <= VideoStart(h)
<1>1. PICK m, n, s : m = h.metasize /\ n = h.channels /\ s = 2 * h.samples
  OBVIOUS
<1>2. m \in Nat /\ n \in Nat /\ s \in Nat /\ ch \in Nat /\ ch <= n
  BY <1>1, AvHunksAre
<1>3. \A k : AudioStart(h, k) = 12 + m + (s * k)
  BY <1>1 DEF AudioStart
<1>4. VideoStart(h) = 12 + m + (s * n)
  BY <1>1, <1>3 DEF VideoStart
<1>5. s * ch \in Nat /\ s * n \in Nat /\ s * ch <= s * n /\ s * 0 = 0
  BY <1>2
<1>6. s * (ch + 1) = s * ch + s
  BY <1>2
<1>7. ch < n => s * ch + s <= s * n
  BY <1>2, MoreIsMore
<1>8. PICK x, y : x = s * ch /\ y = s * n
  OBVIOUS
<1>9. x \in Nat /\ y \in Nat /\ x <= y /\ (ch < n => x + s <= y)
  BY <1>5, <1>7, <1>8
<1>10. AudioStart(h, ch) = 12 + m + x /\ AudioStart(h, ch + 1) = 12 + m + (x + s)
  BY <1>3, <1>6, <1>8
<1>11. VideoStart(h) = 12 + m + y
  BY <1>4, <1>8
<1>12. AudioStart(h, 0) = 12 + m
  <2>1. 12 + m + 0 = 12 + m
    BY <1>2
  <2> QED BY <1>3, <1>5, <2>1
<1>13. 12 + m + (x + s) = (12 + m + x) + s
  BY <1>2, <1>9
<1> HIDE DEF AudioStart, VideoStart
<1>14. AudioStart(h, ch) \in Nat /\ VideoStart(h) \in Nat /\ AudioStart(h, ch) <= VideoStart(h)
  BY <1>2, <1>9, <1>10, <1>11
<1>15. ch < n => /\ AudioStart(h, ch + 1) = AudioStart(h, ch) + s
                 /\ AudioStart(h, ch) + s <= VideoStart(h)
  BY <1>2, <1>9, <1>10, <1>11, <1>13
<1> QED BY <1>1, <1>12, <1>14, <1>15

RowStart(h, row) == VideoStart(h) + row * 2 * h.width

LEMMA RowLayout ==
  ASSUME NEW h \in AvHunks, NEW row \in 0 .. h.height
  PROVE  /\ RowStart(h, row) \in Nat /\ RowStart(h, 0) = VideoStart(h)
         /\ RowStart(h, h.height) = 12 + Payload(h) /\ VideoStart(h) <= 12 + Payload(h)
         /\ RowStart(h, row) <= 12 + Payload(h) /\ 12 + Payload(h) \in Nat
         /\ row < h.height => /\ RowStart(h, row + 1) = RowStart(h, row) + 2 * h.width
                              /\ RowStart(h, row) + 2 * h.width <= 12 + Payload(h)
<1>1. PICK m, n, s, w, e, v :
        /\ m = h.metasize /\ n = h.channels /\ s = h.samples /\ w = h.width /\ e = h.height
        /\ v = VideoStart(h)
  OBVIOUS
<1>2. m \in Nat /\ n \in Nat /\ s \in Nat /\ w \in Nat /\ e \in Nat /\ row \in Nat /\ row <= e
  BY <1>1, AvHunksAre
<1>3. v \in Nat
  <2>1. 0 \in 0 .. h.channels
    BY AvHunksAre
  <2> QED BY <1>1, <2>1, AudioLayout
<1>4. \A k : RowStart(h, k) = v + (k * 2 * w)
  BY <1>1 DEF RowStart
<1>5. v = 12 + m + (2 * s * n)
  BY <1>1 DEF VideoStart, AudioStart
<1>6. Payload(h) = m + (2 * n * s) + (2 * w * e)
  BY <1>1 DEF Payload
<1>7. PICK a \in Nat, b \in Nat, c \in Nat : a = 2 * s * n /\ b = row * 2 * w /\ c = e * 2 * w
  BY <1>2
<1>8. 2 * n * s = a /\ 2 * w * e = c
  BY <1>2, <1>7
<1>9. PICK z \in Nat : z = 2 * w
  BY <1>2
<1>10. row * 2 * w = row * z /\ e * 2 * w = e * z /\ (row + 1) * 2 * w = row * z + z /\ 0 * 2 * w = 0
  BY <1>2, <1>9
<1>11. b <= c /\ (row < e => b + z <= c) /\ (row + 1) * 2 * w = b + z
  BY <1>2, <1>7, <1>9, <1>10, MoreIsMore
<1>12. 12 + Payload(h) = v + c
  <2>1. 12 + (m + a + c) = (12 + m + a) + c
    BY <1>2, <1>7
  <2> QED BY <1>5, <1>6, <1>7, <1>8, <2>1
<1>13. /\ RowStart(h, row) = v + b /\ RowStart(h, e) = v + c /\ RowStart(h, row + 1) = v + (b + z)
       /\ RowStart(h, 0) = v + 0
  BY <1>4, <1>7, <1>10, <1>11
<1>14. PICK p, q, r : p = 12 + Payload(h) /\ q = RowStart(h, row) /\ r = RowStart(h, row + 1)
  OBVIOUS
<1>15. /\ p \in Nat /\ q \in Nat /\ v <= p /\ q <= p
       /\ (row < e => r = q + z /\ q + z <= p)
  BY <1>2, <1>3, <1>7, <1>9, <1>11, <1>12, <1>13, <1>14
<1>16. v + 0 = v
  BY <1>3
<1> QED BY <1>1, <1>9, <1>12, <1>13, <1>14, <1>15, <1>16

LEMMA VerdictIs ==
  ASSUME NEW h \in AvHunks, Verdict(h) = "NONE"
  PROVE  TotalSize(h) < h.complen /\ 12 + Payload(h) <= h.destlen
<1>1. ~ (TotalSize(h) >= h.complen) /\ ~ (12 + Payload(h) > h.destlen)
  BY DEF Verdict
<1>2. PICK a, b, c, d : a = TotalSize(h) /\ b = h.complen /\ c = 12 + Payload(h) /\ d = h.destlen
  OBVIOUS
<1>3. b \in Nat /\ d \in Nat
  BY <1>2, AvHunksAre
<1>4. c \in Nat
  <2>1. 0 \in 0 .. h.height
    BY AvHunksAre
  <2> QED BY <1>2, <2>1, RowLayout
<1>5. a \in Nat
  <2>1. /\ HeaderEnd(h) \in Nat /\ h.metasize \in Nat /\ TreeBytes(h) \in Nat /\ Sum(h.sizes) \in Nat
    BY AvHunksAre, SumIsNat DEF HeaderEnd, TreeBytes
  <2>2. HeaderEnd(h) + h.metasize + TreeBytes(h) + Sum(h.sizes) \in Nat
    BY <2>1
  <2> QED BY <1>2, <2>2 DEF TotalSize
<1>6. ~ (a >= b) /\ ~ (c > d)
  BY <1>1, <1>2
<1>7. a < b /\ c <= d
  BY <1>3, <1>4, <1>5, <1>6
<1> QED BY <1>2, <1>7

SizesOf(h, n) == [i \in 1 .. n |-> h.sizes[i]]

LEMMA SizesOneMore ==
  ASSUME NEW h \in AvHunks
  PROVE  /\ SizesUpto(h, 0) = 0 /\ SizesUpto(h, h.channels) = Sum(h.sizes)
         /\ \A n \in 0 .. h.channels : SizesUpto(h, n) \in Nat
         /\ \A n \in 0 .. h.channels : n < h.channels =>
              h.sizes[n + 1] \in Nat /\ SizesUpto(h, n + 1) = SizesUpto(h, n) + h.sizes[n + 1]
<1>1. h.channels \in Nat /\ h.sizes \in [1 .. h.channels -> Nat]
  BY AvHunksAre DEF Counts
<1>2. \A n : SizesUpto(h, n) = Sum(SizesOf(h, n))
  BY DEF SizesUpto, SizesOf
<1>3. ASSUME NEW n \in 0 .. h.channels PROVE SizesOf(h, n) \in Counts(n)
  BY <1>1 DEF SizesOf, Counts
<1>4. SizesOf(h, h.channels) = h.sizes
  BY <1>1 DEF SizesOf
<1>5. ASSUME NEW n \in 0 .. h.channels, n < h.channels
      PROVE  h.sizes[n + 1] \in Nat /\ SizesUpto(h, n + 1) = SizesUpto(h, n) + h.sizes[n + 1]
  <2>1. n \in Nat /\ n + 1 \in 0 .. h.channels /\ n + 1 \in 1 .. h.channels /\ n + 1 \in 1 .. n + 1
    BY <1>1, <1>5
  <2>2. SizesOf(h, n) \in Counts(n) /\ SizesOf(h, n + 1) \in Counts(n + 1)
    BY <1>3, <2>1
  <2>3. \A i \in 1 .. n : SizesOf(h, n + 1)[i] = SizesOf(h, n)[i]
    BY DEF SizesOf
  <2>4. SizesOf(h, n + 1)[n + 1] = h.sizes[n + 1]
    BY <2>1 DEF SizesOf
  <2>5. Sum(SizesOf(h, n + 1)) = Sum(SizesOf(h, n)) + SizesOf(h, n + 1)[n + 1]
    BY <2>1, <2>2, <2>3, SumOfOneMore
  <2> QED BY <1>1, <1>2, <2>1, <2>4, <2>5
<1>6. SizesUpto(h, 0) = 0
  <2>1. 0 \in 0 .. h.channels
    BY <1>1
  <2> QED BY <1>2, <1>3, <2>1, SumOfNone
<1>7. ASSUME NEW n \in 0 .. h.channels PROVE SizesUpto(h, n) \in Nat
  <2>1. n \in Nat
    BY <1>1
  <2> QED BY <1>2, <1>3, <2>1, SumIsNat
<1> QED BY <1>2, <1>4, <1>5, <1>6, <1>7

LEMMA SizesGrow ==
  ASSUME NEW h \in AvHunks, NEW n \in 0 .. h.channels
  PROVE  SizesUpto(h, n) <= Sum(h.sizes)
<1> DEFINE m == h.channels
           good == {d \in 0 .. m : \A k \in 0 .. d : SizesUpto(h, k) <= SizesUpto(h, d)}
<1>1. m \in Nat
  BY AvHunksAre
<1>2. 0 \in good
  <2>1. SizesUpto(h, 0) <= SizesUpto(h, 0)
    BY SizesOneMore
  <2>2. \A k \in 0 .. 0 : k = 0
    OBVIOUS
  <2> QED BY <1>1, <2>1, <2>2
<1>3. ASSUME NEW d \in 1 .. m, d - 1 \in good PROVE d \in good
  <2>1. PICK e \in 0 .. m : e = d - 1 /\ d = e + 1 /\ e < m
    BY <1>1
  <2>2. h.sizes[d] \in Nat /\ SizesUpto(h, d) = SizesUpto(h, e) + h.sizes[d] /\ SizesUpto(h, e) \in Nat
    BY <2>1, SizesOneMore
  <2>3. ASSUME NEW k \in 0 .. d PROVE SizesUpto(h, k) <= SizesUpto(h, d)
    <3>1. k \in 0 .. m /\ (k = d \/ k \in 0 .. e)
      BY <1>1, <2>1
    <3>2. SizesUpto(h, k) \in Nat
      BY <3>1, SizesOneMore
    <3>3. k \in 0 .. e => SizesUpto(h, k) <= SizesUpto(h, e)
      BY <1>3, <2>1
    <3>4. PICK x, y, z, u : x = SizesUpto(h, k) /\ y = SizesUpto(h, d) /\ z = SizesUpto(h, e) /\ u = h.sizes[d]
      OBVIOUS
    <3>5. x \in Nat /\ z \in Nat /\ u \in Nat /\ y = z + u /\ (k = d => x = y) /\ (k \in 0 .. e => x <= z)
      BY <2>2, <3>2, <3>3, <3>4
    <3>6. x <= y
      BY <3>1, <3>5
    <3> QED BY <3>4, <3>6
  <2> QED BY <1>1, <2>3
<1>4. m \in good
  <2>1. \A d \in 0 .. m : d \in good
    <3> HIDE DEF good, m
    <3> QED BY <1>1, <1>2, <1>3, AllAlong
  <2>2. m \in 0 .. m
    BY <1>1
  <2> QED BY <2>1, <2>2
<1> QED BY <1>4, SizesOneMore

(* The parts of a hunk end before the hunk does.                            *)
LEMMA PartIsInside ==
  ASSUME NEW h \in AvHunks, Verdict(h) = "NONE", NEW trees \in {0, TreeBytes(h)},
         NEW n \in 0 .. h.channels
  PROVE  /\ PartAt(h, trees, n) \in Nat /\ PartAt(h, trees, n) < h.complen
         /\ n < h.channels =>
              /\ h.sizes[n + 1] \in Nat
              /\ PartAt(h, trees, n + 1) = PartAt(h, trees, n) + h.sizes[n + 1]
              /\ PartAt(h, trees, n) + h.sizes[n + 1] < h.complen
<1>1. PICK a, m, t, b, s, c :
        /\ a = HeaderEnd(h) /\ m = h.metasize /\ t = TreeBytes(h) /\ b = SizesUpto(h, n)
        /\ s = Sum(h.sizes) /\ c = h.complen
  OBVIOUS
<1>2. a \in Nat /\ m \in Nat /\ t \in Nat /\ s \in Nat /\ c \in Nat
  BY <1>1, AvHunksAre, SumIsNat DEF HeaderEnd, TreeBytes
<1>3. trees \in Nat /\ trees <= t
  BY <1>1, <1>2
<1>4. b \in Nat /\ b <= s
  BY <1>1, SizesOneMore, SizesGrow
<1>5. a + m + t + s < c
  BY <1>1, VerdictIs DEF TotalSize
<1>6. PartAt(h, trees, n) = a + m + trees + b
  BY <1>1 DEF PartAt
<1>7. a + m + trees + b \in Nat /\ a + m + trees + b < c
  BY <1>2, <1>3, <1>4, <1>5
<1>8. ASSUME n < h.channels
      PROVE  /\ h.sizes[n + 1] \in Nat
             /\ PartAt(h, trees, n + 1) = PartAt(h, trees, n) + h.sizes[n + 1]
             /\ PartAt(h, trees, n) + h.sizes[n + 1] < c
  <2>1. PICK u : u = h.sizes[n + 1]
    OBVIOUS
  <2>2. u \in Nat /\ SizesUpto(h, n + 1) = b + u
    BY <1>1, <1>8, <2>1, SizesOneMore
  <2>3. n + 1 \in 0 .. h.channels
    BY <1>8, AvHunksAre
  <2>4. SizesUpto(h, n + 1) <= s
    BY <1>1, <2>3, SizesGrow
  <2>5. b + u <= s
    BY <2>2, <2>4
  <2>6. PartAt(h, trees, n + 1) = a + m + trees + (b + u)
    BY <1>1, <2>2 DEF PartAt
  <2>7. a + m + trees + (b + u) = (a + m + trees + b) + u /\ (a + m + trees + b) + u < c
    BY <1>2, <1>3, <1>4, <1>5, <2>2, <2>5
  <2> QED BY <1>6, <2>1, <2>2, <2>6, <2>7
<1> QED BY <1>1, <1>6, <1>7, <1>8

-----------------------------------------------------------------------------
(* What is written and what is read.                                        *)
LEMMA SpanIsWritten ==
  ASSUME NEW a \in Nat, NEW b \in Nat, NEW size \in Nat, a <= b, b <= size,
         written \subseteq Firsts(a), writes = Cardinality(written),
         NEW bytes, bytes \subseteq a .. b - 1, Wrote(bytes)
  PROVE  /\ written' = written \cup bytes /\ written' \subseteq Firsts(size)
         /\ writes' = Cardinality(written')
<1>1. IsFiniteSet(written)
  <2>1. IsFiniteSet(0 .. a - 1)
    BY FS_Interval
  <2> QED BY <2>1, FS_Subset DEF Firsts
<1>2. IsFiniteSet(bytes)
  <2>1. IsFiniteSet(a .. b - 1)
    BY FS_Interval
  <2> QED BY <2>1, FS_Subset
<1>3. written \cap bytes = {}
  BY DEF Firsts
<1>4. Cardinality(written) \in Nat /\ Cardinality(bytes) \in Nat /\ Cardinality({}) = 0
  BY <1>1, <1>2, FS_CardinalityType, FS_EmptySet
<1>5. Cardinality(written \cup bytes) = Cardinality(written) + Cardinality(bytes) - Cardinality({})
  BY <1>1, <1>2, <1>3, FS_Union
<1>6. written' = written \cup bytes /\ writes' = writes + Cardinality(bytes)
  BY DEF Wrote
<1>7. writes' = Cardinality(written')
  BY <1>4, <1>5, <1>6
<1>8. written \cup bytes \subseteq Firsts(size)
  BY DEF Firsts
<1> QED BY <1>6, <1>7, <1>8

LEMMA FirstsGrow ==
  ASSUME NEW a \in Nat, NEW b \in Nat, a <= b
  PROVE  Firsts(a) \subseteq Firsts(b) /\ Firsts(a) \cup a .. b - 1 = Firsts(b)
BY DEF Firsts

LEMMA PartIsRead ==
  ASSUME NEW size \in Nat, read \in Nat, read <= size, NEW end \in Nat, end <= size, ReadTo(end)
  PROVE  read' \in Nat /\ read' <= size
BY DEF ReadTo

LEMMA AvFacts ==
  ASSUME AvInv
  PROVE  /\ avhunk \in AvHunks /\ avphase \in AvPhases /\ context \in [Planes -> Decoder]
         /\ taken \in [Planes -> Seq(Symbols)] /\ made \in [Planes -> Seq(ByteOf)]
         /\ read \in Nat /\ read <= avhunk.complen
         /\ written \subseteq Firsts(avhunk.destlen) /\ writes = Cardinality(written)
         /\ avphase # "idle" => answer = "none" /\ Verdict(avhunk) = "NONE"
BY DEF AvInv, AvTypeInv, CountInv, IdleInv

LEMMA NothingIs ==
  /\ Nothing \in [Planes -> Seq(Symbols)] /\ Nothing \in [Planes -> Seq(ByteOf)]
  /\ Zeros \in [Planes -> ByteOf]
<1>1. 0 \in ByteOf
  BY AvHuffAssumption DEF ByteOf
<1> QED BY <1>1 DEF Nothing, Zeros

(* A hunk that is given up.                                                 *)
LEMMA GiveUp ==
  ASSUME avhunk' \in AvHunks, context' \in [Planes -> Decoder], CountInv',
         NEW error \in AvErrors, AvAnswer(error)
  PROVE  AvInv'
<1>1. /\ avphase' = "idle" /\ answer' = error
      /\ taken' = Nothing /\ made' = Nothing /\ sample' = <<>> /\ before' = Zeros
  BY DEF AvAnswer
<1>2. AvTypeInv'
  BY <1>1, NothingIs DEF AvTypeInv, AvPhases
<1>3. TreesInv' /\ AudioInv' /\ VideoInv' /\ RowsInv' /\ EndInv'
  BY <1>1 DEF TreesInv, AudioInv, VideoInv, RowsInv, EndInv
<1>4. IdleInv'
  <2>1. NothingTaken'
    BY <1>1 DEF NothingTaken
  <2>2. HunkIsWritten'
    BY <1>1 DEF HunkIsWritten, AvErrors
  <2> QED BY <1>1, <2>1, <2>2 DEF IdleInv
<1> QED BY <1>2, <1>3, <1>4 DEF AvInv

LEMMA RefuseHunkKeeps ==
  ASSUME AvInv, RefuseHunk
  PROVE  AvInv'
<1>1. PICK h \in AvHunks : Verdict(h) # "NONE" /\ avhunk' = h /\ AvAnswer(Verdict(h))
  BY DEF RefuseHunk
<1>2. written' = {} /\ writes' = 0 /\ read' = 0 /\ context' = context
  BY DEF RefuseHunk
<1>3. Verdict(h) \in AvErrors
  BY <1>1 DEF Verdict, AvErrors
<1>4. CountInv'
  <2>1. avhunk'.complen \in Nat
    BY <1>1, AvHunksAre
  <2>2. read' \in Nat /\ read' <= avhunk'.complen
    BY <1>2, <2>1
  <2>3. written' \subseteq Firsts(avhunk'.destlen) /\ writes' = Cardinality(written')
    BY <1>2, FS_EmptySet
  <2> QED BY <2>2, <2>3 DEF CountInv
<1> QED BY <1>1, <1>2, <1>3, <1>4, AvFacts, GiveUp

LEMMA CountStays ==
  ASSUME CountInv, UNCHANGED avmemory, avhunk' = avhunk
  PROVE  CountInv'
BY DEF CountInv, avmemory

LEMMA CountIsRead ==
  ASSUME AvInv, NEW end \in Nat, end <= avhunk.complen, ReadTo(end),
         UNCHANGED <<written, writes>>, avhunk' = avhunk
  PROVE  CountInv'
<1>1. read' \in Nat /\ read' <= avhunk.complen
  BY AvFacts, AvHunksAre, PartIsRead
<1> QED BY <1>1, AvFacts DEF CountInv

LEMMA StopHunkKeeps ==
  ASSUME AvInv, CountInv', NEW error \in AvErrors, StopHunk(error)
  PROVE  AvInv'
<1>1. avhunk' = avhunk /\ context' = context /\ AvAnswer(error)
  BY DEF StopHunk
<1> QED BY <1>1, AvFacts, GiveUp

LEMMA StopHunkStays ==
  ASSUME NEW error, StopHunk(error)
  PROVE  avhunk' = avhunk
BY DEF StopHunk

-----------------------------------------------------------------------------
(* The header, and the trees of the audio.                                  *)
LEMMA StartHunkKeeps ==
  ASSUME AvInv, StartHunk
  PROVE  AvInv'
<1>1. PICK h \in AvHunks :
        /\ Verdict(h) = "NONE" /\ avhunk' = h
        /\ written' = 0 .. 12 + h.metasize - 1 /\ writes' = 12 + h.metasize
        /\ read' = HeaderEnd(h) + h.metasize /\ srcoffs' = HeaderEnd(h) + h.metasize
        /\ avphase' = IF h.channels = 0 THEN "video"
                      ELSE IF h.treesize \in {0, FlacAudio} THEN "audio" ELSE "trees"
  BY DEF StartHunk
<1>2. /\ chnum' = 0 /\ sampnum' = 0 /\ dy' = 0 /\ dx' = 0 /\ answer' = "none" /\ taken' = Nothing
      /\ made' = Nothing /\ sample' = <<>> /\ before' = Zeros /\ context' = context
  BY DEF StartHunk
<1>3. NothingTaken'
  BY <1>2 DEF NothingTaken
<1>4. h.channels \in Nat /\ 0 \in 0 .. h.channels /\ h.metasize \in Nat
  BY AvHunksAre
<1>5. /\ AudioStart(h, 0) = 12 + h.metasize /\ AudioStart(h, 0) \in Nat
      /\ VideoStart(h) \in Nat /\ AudioStart(h, 0) <= VideoStart(h)
  BY <1>4, AudioLayout
<1>6. written' = Firsts(AudioStart(h, 0))
  <2>1. 0 .. 12 + h.metasize - 1 = 0 .. (12 + h.metasize) - 1
    BY <1>4
  <2> QED BY <1>1, <1>5, <2>1 DEF Firsts
<1>7. writes' = Cardinality(written')
  <2>1. PICK n \in Nat : n = 12 + h.metasize
    BY <1>4
  <2>2. Cardinality(0 .. n - 1) = n
    BY FS_Interval
  <2> QED BY <1>1, <1>5, <1>6, <2>1, <2>2 DEF Firsts
<1>8. HeaderEnd(h) + h.metasize = PartAt(h, 0, 0)
  <2>1. SizesUpto(h, 0) = 0
    BY SizesOneMore
  <2>2. PICK n : n = HeaderEnd(h) + h.metasize
    OBVIOUS
  <2>3. n \in Nat
    BY <1>4, <2>2 DEF HeaderEnd
  <2>4. PartAt(h, 0, 0) = n + 0 + 0
    BY <2>1, <2>2 DEF PartAt
  <2> QED BY <2>2, <2>3, <2>4
<1>9. PartAt(h, 0, 0) \in Nat /\ PartAt(h, 0, 0) < h.complen
  BY <1>1, <1>4, PartIsInside
<1>10. CountInv'
  <2>1. h.complen \in Nat /\ h.destlen \in Nat
    BY AvHunksAre
  <2>2. read' \in Nat /\ read' <= h.complen
    BY <1>1, <1>8, <1>9, <2>1
  <2>3. AudioStart(h, 0) <= h.destlen
    <3>1. 0 \in 0 .. h.height
      BY AvHunksAre
    <3>2. VideoStart(h) <= 12 + Payload(h) /\ 12 + Payload(h) \in Nat /\ 12 + Payload(h) <= h.destlen
      BY <1>1, <3>1, RowLayout, VerdictIs
    <3> QED BY <1>5, <2>1, <3>2
  <2>4. written' \subseteq Firsts(h.destlen)
    BY <1>5, <1>6, <2>1, <2>3, FirstsGrow
  <2> QED BY <1>1, <1>7, <2>2, <2>4 DEF CountInv
<1>11. AvTypeInv'
  <2>1. avphase' \in AvPhases
    BY <1>1 DEF AvPhases
  <2> QED BY <1>1, <1>2, <2>1, NothingIs, AvFacts DEF AvTypeInv
<1>12. IdleInv'
  <2>1. avphase' # "idle"
    BY <1>1
  <2> QED BY <1>1, <1>2, <2>1 DEF IdleInv
<1>13. RowsInv' /\ EndInv'
  <2>1. avphase' \notin {"rows", "end"}
    BY <1>1
  <2> QED BY <2>1 DEF RowsInv, EndInv
<1>14. TreesInv'
  <2>1. avphase' = "trees" => h.channels > 0 /\ h.treesize \notin {0, FlacAudio}
    BY <1>1, <1>4
  <2> QED BY <1>1, <1>2, <1>3, <1>6, <1>8, <2>1 DEF TreesInv
<1>15. AudioInv'
  <2> SUFFICES ASSUME avphase' = "audio" PROVE AudioInv'
    BY DEF AudioInv
  <2>1. h.treesize \in {0, FlacAudio}
    BY <1>1
  <2>2. TreeBytes(h) = 0
    BY <2>1 DEF TreeBytes
  <2>3. srcoffs' = PartAt(h, TreeBytes(h), 0)
    BY <1>1, <1>8, <2>2
  <2>4. written' = Firsts(AudioStart(h, 0) + 2 * 0)
    <3>1. AudioStart(h, 0) + 2 * 0 = AudioStart(h, 0)
      BY <1>5
    <3> QED BY <1>6, <3>1
  <2>5. 0 \in 0 .. h.samples
    BY AvHunksAre
  <2> QED BY <1>1, <1>2, <1>3, <1>4, <2>3, <2>4, <2>5 DEF AudioInv
<1>16. VideoInv'
  <2> SUFFICES ASSUME avphase' = "video" PROVE VideoInv'
    BY DEF VideoInv
  <2>1. h.channels = 0
    BY <1>1
  <2>2. VideoStart(h) = AudioStart(h, 0)
    BY <2>1 DEF VideoStart
  <2> QED BY <1>1, <1>2, <1>3, <1>6, <1>8, <1>9, <2>2 DEF VideoInv
<1> QED BY <1>10, <1>11, <1>12, <1>13, <1>14, <1>15, <1>16 DEF AvInv

LEMMA TreesEndInside ==
  ASSUME AvInv, avphase = "trees"
  PROVE  /\ srcoffs + avhunk.treesize = PartAt(avhunk, TreeBytes(avhunk), 0)
         /\ srcoffs + avhunk.treesize \in Nat /\ srcoffs + avhunk.treesize < avhunk.complen
         /\ srcoffs \in Nat /\ srcoffs <= avhunk.complen
<1>1. avhunk \in AvHunks /\ Verdict(avhunk) = "NONE"
  BY AvFacts
<1>2. avhunk.treesize \notin {0, FlacAudio} /\ srcoffs = PartAt(avhunk, 0, 0)
  BY DEF AvInv, TreesInv
<1>3. PICK h \in AvHunks : h = avhunk
  BY <1>1
<1>4. TreeBytes(h) = h.treesize /\ h.treesize \in Nat /\ h.complen \in Nat
  BY <1>2, <1>3, AvHunksAre DEF TreeBytes
<1>5. 0 \in 0 .. h.channels
  BY AvHunksAre
<1>6. PICK a : a = HeaderEnd(h) + h.metasize
  OBVIOUS
<1>7. a \in Nat
  BY <1>6, AvHunksAre DEF HeaderEnd
<1>8. PartAt(h, 0, 0) = a + 0 + 0 /\ PartAt(h, TreeBytes(h), 0) = a + h.treesize + 0
  BY <1>4, <1>6, SizesOneMore DEF PartAt
<1>9. PartAt(h, TreeBytes(h), 0) \in Nat /\ PartAt(h, TreeBytes(h), 0) < h.complen
  BY <1>1, <1>3, <1>5, PartIsInside
<1>10. PICK t, c : t = h.treesize /\ c = h.complen
  OBVIOUS
<1>11. srcoffs = a + 0 + 0 /\ a + t + 0 < c
  BY <1>2, <1>3, <1>4, <1>8, <1>9, <1>10
<1>12. srcoffs = a /\ a + t = a + t + 0 /\ a + t \in Nat /\ a + t < c /\ a <= c
  BY <1>4, <1>7, <1>10, <1>11
<1> QED BY <1>3, <1>7, <1>8, <1>10, <1>12

LEMMA ImportAudioTreesKeeps ==
  ASSUME AvInv, ImportAudioTrees
  PROVE  AvInv'
<1>1. /\ avphase = "trees" /\ avphase' = "audio" /\ srcoffs' = srcoffs + avhunk.treesize
      /\ ReadTo(srcoffs + avhunk.treesize)
      /\ UNCHANGED <<avhunk, chnum, sampnum, dy, dx, context, taken, made, sample, before, written,
                     writes, answer>>
  BY DEF ImportAudioTrees, place, streams
<1>2. /\ chnum = 0 /\ sampnum = 0 /\ dy = 0 /\ dx = 0 /\ NothingTaken
      /\ avhunk.channels > 0 /\ avhunk.treesize \notin {0, FlacAudio}
      /\ written = Firsts(AudioStart(avhunk, 0))
  BY <1>1 DEF AvInv, TreesInv
<1>3. avhunk \in AvHunks /\ Verdict(avhunk) = "NONE" /\ answer = "none"
  BY <1>1, AvFacts
<1>4. AvTypeInv' /\ IdleInv'
  BY <1>1, <1>3 DEF AvInv, AvTypeInv, AvPhases, IdleInv
<1>5. CountInv'
  <2>1. PICK end \in Nat : end = srcoffs + avhunk.treesize /\ end < avhunk.complen
    BY <1>1, TreesEndInside
  <2>2. end <= avhunk.complen
    BY <1>3, <2>1, AvHunksAre
  <2> QED BY <1>1, <2>1, <2>2, CountIsRead
<1>6. TreesInv' /\ VideoInv' /\ RowsInv' /\ EndInv'
  BY <1>1 DEF TreesInv, VideoInv, RowsInv, EndInv
<1>7. AudioInv'
  <2>1. NothingTaken'
    BY <1>1, <1>2 DEF NothingTaken
  <2>2. avhunk.channels \in Nat /\ avhunk.samples \in Nat
    BY <1>3, AvHunksAre
  <2>3. AudioStart(avhunk, 0) \in Nat
    <3>1. 0 \in 0 .. avhunk.channels
      BY <2>2
    <3> QED BY <1>3, <3>1, AudioLayout
  <2>4. AudioStart(avhunk, 0) + 2 * 0 = AudioStart(avhunk, 0)
    BY <2>3
  <2>5. srcoffs' = PartAt(avhunk, TreeBytes(avhunk), 0)
    BY <1>1, TreesEndInside
  <2>6. 0 \in 0 .. avhunk.channels /\ 0 \in 0 .. avhunk.samples
    BY <2>2
  <2> QED BY <1>1, <1>2, <2>1, <2>4, <2>5, <2>6 DEF AudioInv
<1> QED BY <1>4, <1>5, <1>6, <1>7 DEF AvInv

LEMMA AudioTreesAreBadKeeps ==
  ASSUME AvInv, AudioTreesAreBad
  PROVE  AvInv'
<1>1. /\ avphase = "trees" /\ StopHunk("INVALID_DATA")
      /\ ReadTo(srcoffs + avhunk.treesize) /\ UNCHANGED <<written, writes>>
  BY DEF AudioTreesAreBad
<1>2. PICK end \in Nat : end = srcoffs + avhunk.treesize /\ end < avhunk.complen
  BY <1>1, TreesEndInside
<1>3. end <= avhunk.complen
  BY <1>2, AvFacts, AvHunksAre
<1>4. CountInv'
  BY <1>1, <1>2, <1>3, StopHunkStays, CountIsRead
<1> QED BY <1>1, <1>4, StopHunkKeeps DEF AvErrors

-----------------------------------------------------------------------------
(* The channels.                                                            *)
LEMMA ChannelFacts ==
  ASSUME AvInv, InChannel
  PROVE  /\ avhunk \in AvHunks /\ avhunk.channels \in Nat /\ avhunk.samples \in Nat
         /\ chnum \in 0 .. avhunk.channels /\ chnum + 1 \in 0 .. avhunk.channels
         /\ sampnum \in 0 .. avhunk.samples
         /\ written = Firsts(AudioStart(avhunk, chnum) + 2 * sampnum)
         /\ (avhunk.treesize \in {0, FlacAudio} => sampnum = 0) /\ (sampnum = 0 => NothingTaken)
         /\ dy = 0 /\ dx = 0
         /\ AudioStart(avhunk, chnum) \in Nat
         /\ AudioStart(avhunk, chnum + 1) = AudioStart(avhunk, chnum) + 2 * avhunk.samples
         /\ AudioStart(avhunk, chnum) + 2 * avhunk.samples <= avhunk.destlen
         /\ avhunk.destlen \in Nat /\ avhunk.complen \in Nat
<1>1. /\ avphase = "audio" /\ chnum < avhunk.channels
  BY DEF InChannel
<1>2. avhunk \in AvHunks /\ Verdict(avhunk) = "NONE"
  BY <1>1, AvFacts
<1>3. /\ chnum \in 0 .. avhunk.channels /\ sampnum \in 0 .. avhunk.samples
      /\ (avhunk.treesize \in {0, FlacAudio} => sampnum = 0)
      /\ dy = 0 /\ dx = 0
      /\ written = Firsts(AudioStart(avhunk, chnum) + 2 * sampnum)
      /\ sampnum = 0 => NothingTaken
  BY <1>1 DEF AvInv, AudioInv
<1>4. /\ avhunk.channels \in Nat /\ avhunk.samples \in Nat /\ avhunk.destlen \in Nat
      /\ avhunk.complen \in Nat
  BY <1>2, AvHunksAre
<1>5. chnum + 1 \in 0 .. avhunk.channels
  BY <1>1, <1>3, <1>4
<1>6. /\ AudioStart(avhunk, chnum) \in Nat /\ VideoStart(avhunk) \in Nat
      /\ AudioStart(avhunk, chnum + 1) = AudioStart(avhunk, chnum) + 2 * avhunk.samples
      /\ AudioStart(avhunk, chnum) + 2 * avhunk.samples <= VideoStart(avhunk)
  BY <1>1, <1>2, <1>3, AudioLayout
<1>7. VideoStart(avhunk) <= avhunk.destlen
  <2>1. 0 \in 0 .. avhunk.height
    BY <1>2, AvHunksAre
  <2>2. VideoStart(avhunk) <= 12 + Payload(avhunk) /\ 12 + Payload(avhunk) \in Nat
    BY <1>2, <2>1, RowLayout
  <2>3. 12 + Payload(avhunk) <= avhunk.destlen
    BY <1>2, VerdictIs
  <2> QED BY <1>4, <1>6, <2>2, <2>3
<1>8. AudioStart(avhunk, chnum) + 2 * avhunk.samples <= avhunk.destlen
  BY <1>4, <1>6, <1>7
<1> QED BY <1>2, <1>3, <1>4, <1>5, <1>6, <1>8

LEMMA ChannelIsInside ==
  ASSUME AvInv, InChannel
  PROVE  /\ srcoffs \in Nat /\ ChannelSize \in Nat
         /\ srcoffs + ChannelSize \in Nat /\ srcoffs + ChannelSize < avhunk.complen
         /\ srcoffs + ChannelSize = PartAt(avhunk, TreeBytes(avhunk), chnum + 1)
<1>1. avphase = "audio" /\ chnum < avhunk.channels
  BY DEF InChannel
<1>2. avhunk \in AvHunks /\ Verdict(avhunk) = "NONE" /\ chnum \in 0 .. avhunk.channels
  BY <1>1, AvFacts, ChannelFacts
<1>3. srcoffs = PartAt(avhunk, TreeBytes(avhunk), chnum)
  BY <1>1 DEF AvInv, AudioInv
<1>4. PICK t : t = TreeBytes(avhunk) /\ t \in {0, TreeBytes(avhunk)}
  OBVIOUS
<1>5. /\ PartAt(avhunk, t, chnum) \in Nat /\ avhunk.sizes[chnum + 1] \in Nat
      /\ PartAt(avhunk, t, chnum + 1) = PartAt(avhunk, t, chnum) + avhunk.sizes[chnum + 1]
      /\ PartAt(avhunk, t, chnum) + avhunk.sizes[chnum + 1] < avhunk.complen
  BY <1>1, <1>2, <1>4, PartIsInside
<1>6. srcoffs + ChannelSize \in Nat
  BY <1>3, <1>4, <1>5 DEF ChannelSize
<1> QED BY <1>3, <1>4, <1>5, <1>6 DEF ChannelSize

LEMMA ChannelBytesAre ==
  ASSUME AvInv, InChannel
  PROVE  ChannelBytes = AudioStart(avhunk, chnum) .. (AudioStart(avhunk, chnum) + 2 * avhunk.samples) - 1
<1>1. PICK a, s : a = AudioStart(avhunk, chnum) /\ s = avhunk.samples
  OBVIOUS
<1>2. a \in Nat /\ s \in Nat
  BY <1>1, ChannelFacts
<1>3. a + 2 * s - 1 = (a + 2 * s) - 1
  BY <1>2
<1> QED BY <1>1, <1>3 DEF ChannelBytes

(* The next channel begins with nothing taken.                              *)
LEMMA NextChannelKeeps ==
  ASSUME AvInv, InChannel, NextChannel, NothingTaken', context' \in [Planes -> Decoder],
         written' = Firsts(AudioStart(avhunk, chnum + 1)), CountInv'
  PROVE  AvInv'
<1>1. /\ avphase = "audio" /\ chnum < avhunk.channels /\ chnum' = chnum + 1 /\ sampnum' = 0
      /\ srcoffs' = srcoffs + ChannelSize /\ UNCHANGED <<avhunk, dy, dx, avphase, answer>>
  BY DEF InChannel, NextChannel
<1>2. AvTypeInv'
  <2>1. taken' = Nothing /\ made' = Nothing
    BY DEF NothingTaken
  <2> QED BY <1>1, <2>1, NothingIs DEF AvInv, AvTypeInv
<1>3. IdleInv'
  BY <1>1 DEF AvInv, IdleInv
<1>4. TreesInv' /\ VideoInv' /\ RowsInv' /\ EndInv'
  BY <1>1 DEF TreesInv, VideoInv, RowsInv, EndInv
<1>5. AudioInv'
  <2>1. /\ chnum + 1 \in 0 .. avhunk.channels /\ 0 \in 0 .. avhunk.samples /\ dy = 0 /\ dx = 0
        /\ avhunk \in AvHunks
    BY ChannelFacts
  <2>2. AudioStart(avhunk, chnum + 1) + 2 * 0 = AudioStart(avhunk, chnum + 1)
    BY <2>1, AudioLayout
  <2>3. srcoffs' = PartAt(avhunk, TreeBytes(avhunk), chnum + 1)
    BY <1>1, ChannelIsInside
  <2> QED BY <1>1, <2>1, <2>2, <2>3 DEF AudioInv
<1> QED BY <1>2, <1>3, <1>4, <1>5 DEF AvInv

LEMMA ChannelIsWritten ==
  ASSUME AvInv, InChannel, sampnum = 0, Wrote(ChannelBytes), avhunk' = avhunk,
         NEW end \in Nat, end <= srcoffs + ChannelSize, ReadTo(end)
  PROVE  written' = Firsts(AudioStart(avhunk, chnum + 1)) /\ CountInv'
<1>1. PICK a, b, d : a = AudioStart(avhunk, chnum) /\ b = AudioStart(avhunk, chnum + 1) /\ d = avhunk.destlen
  OBVIOUS
<1>2. PICK s : s = avhunk.samples
  OBVIOUS
<1>3. /\ a \in Nat /\ s \in Nat /\ d \in Nat /\ b = a + 2 * s /\ a + 2 * s <= d
      /\ written = Firsts(a + 2 * 0)
  BY <1>1, <1>2, ChannelFacts
<1>4. b \in Nat /\ a <= b /\ b <= d /\ a + 2 * 0 = a
  BY <1>3
<1>5. ChannelBytes = a .. b - 1
  BY <1>1, <1>2, <1>3, ChannelBytesAre
<1>6. written = Firsts(a) /\ writes = Cardinality(written)
  BY <1>3, <1>4, AvFacts
<1>7. /\ written' = written \cup ChannelBytes /\ written' \subseteq Firsts(d)
      /\ writes' = Cardinality(written')
  BY <1>3, <1>4, <1>5, <1>6, SpanIsWritten
<1>8. written' = Firsts(b)
  BY <1>3, <1>4, <1>5, <1>6, <1>7, FirstsGrow
<1>9. read' \in Nat /\ read' <= avhunk.complen
  <2>1. PICK x : x = srcoffs + ChannelSize
    OBVIOUS
  <2>2. x \in Nat /\ x < avhunk.complen /\ avhunk.complen \in Nat /\ end <= x
    BY <2>1, ChannelIsInside, ChannelFacts
  <2>3. end <= avhunk.complen
    BY <2>2
  <2> QED BY <2>2, <2>3, AvFacts, PartIsRead
<1> QED BY <1>1, <1>7, <1>8, <1>9 DEF CountInv

LEMMA FlacChannelKeeps ==
  ASSUME AvInv, FlacChannel
  PROVE  AvInv'
<1>1. /\ InChannel /\ avhunk.treesize = FlacAudio /\ Wrote(ChannelBytes)
      /\ ReadTo(srcoffs + ChannelSize) /\ NextChannel
      /\ UNCHANGED <<context, taken, made, sample, before>>
  BY DEF FlacChannel, streams
<1>2. sampnum = 0 /\ NothingTaken
  BY <1>1, ChannelFacts
<1>3. avhunk' = avhunk
  BY <1>1 DEF NextChannel
<1>4. PICK end \in Nat : end = srcoffs + ChannelSize /\ end <= srcoffs + ChannelSize
  BY <1>1, ChannelIsInside
<1>5. written' = Firsts(AudioStart(avhunk, chnum + 1)) /\ CountInv'
  BY <1>1, <1>2, <1>3, <1>4, ChannelIsWritten
<1>6. NothingTaken' /\ context' \in [Planes -> Decoder]
  BY <1>1, <1>2, AvFacts DEF NothingTaken
<1> QED BY <1>1, <1>5, <1>6, NextChannelKeeps

LEMMA RawChannelKeeps ==
  ASSUME AvInv, RawChannel
  PROVE  AvInv'
<1>1. /\ InChannel /\ avhunk.treesize = 0 /\ ~ RawTooShort /\ Wrote(ChannelBytes)
      /\ ReadTo(srcoffs + 2 * avhunk.samples) /\ NextChannel
      /\ UNCHANGED <<context, taken, made, sample, before>>
  BY DEF RawChannel, streams
<1>2. sampnum = 0 /\ NothingTaken
  BY <1>1, ChannelFacts
<1>3. avhunk' = avhunk
  BY <1>1 DEF NextChannel
<1>4. PICK end \in Nat : end = srcoffs + 2 * avhunk.samples /\ end <= srcoffs + ChannelSize
  <2>1. PICK o, c, s : o = srcoffs /\ c = ChannelSize /\ s = avhunk.samples
    OBVIOUS
  <2>2. o \in Nat /\ c \in Nat /\ s \in Nat /\ ~ (c < 2 * s)
    BY <1>1, <2>1, ChannelIsInside, ChannelFacts DEF RawTooShort
  <2>3. o + 2 * s \in Nat /\ o + 2 * s <= o + c
    BY <2>2
  <2> QED BY <2>1, <2>3
<1>5. written' = Firsts(AudioStart(avhunk, chnum + 1)) /\ CountInv'
  BY <1>1, <1>2, <1>3, <1>4, ChannelIsWritten
<1>6. NothingTaken' /\ context' \in [Planes -> Decoder]
  BY <1>1, <1>2, AvFacts DEF NothingTaken
<1> QED BY <1>1, <1>5, <1>6, NextChannelKeeps

LEMMA EndCodedChannelKeeps ==
  ASSUME AvInv, EndCodedChannel
  PROVE  AvInv'
<1>1. /\ InChannel /\ sampnum = avhunk.samples /\ NextChannel
      /\ taken' = Nothing /\ made' = Nothing /\ sample' = <<>> /\ before' = Zeros
      /\ UNCHANGED <<context, written, writes, read>>
  BY DEF EndCodedChannel, Coded, avmemory
<1>2. written' = Firsts(AudioStart(avhunk, chnum + 1))
  BY <1>1, ChannelFacts
<1>3. avhunk' = avhunk
  BY <1>1 DEF NextChannel
<1>4. CountInv'
  BY <1>1, <1>3 DEF AvInv, CountInv
<1>5. NothingTaken' /\ context' \in [Planes -> Decoder]
  BY <1>1, AvFacts DEF NothingTaken
<1> QED BY <1>1, <1>2, <1>4, <1>5, NextChannelKeeps

LEMMA FlacChannelIsBadKeeps ==
  ASSUME AvInv, FlacChannelIsBad
  PROVE  AvInv'
<1>1. /\ InChannel /\ avhunk.treesize = FlacAudio /\ ReadTo(srcoffs + ChannelSize)
      /\ StopHunk("DECOMPRESSION_ERROR")
  BY DEF FlacChannelIsBad
<1>2. PICK n \in 0 .. Cardinality(ChannelBytes) :
        Wrote(AudioStart(avhunk, chnum) .. AudioStart(avhunk, chnum) + n - 1)
  BY DEF FlacChannelIsBad
<1>3. PICK a, s, d : a = AudioStart(avhunk, chnum) /\ s = avhunk.samples /\ d = avhunk.destlen
  OBVIOUS
<1>4. /\ a \in Nat /\ s \in Nat /\ d \in Nat /\ a + 2 * s <= d /\ sampnum = 0
      /\ written = Firsts(a + 2 * sampnum)
  BY <1>1, <1>3, ChannelFacts
<1>5. written = Firsts(a) /\ writes = Cardinality(written)
  <2>1. a + 2 * 0 = a
    BY <1>4
  <2> QED BY <1>4, <2>1, AvFacts
<1>6. PICK b \in Nat : b = a + 2 * s
  BY <1>4
<1>7. ChannelBytes = a .. b - 1
  BY <1>1, <1>3, <1>6, ChannelBytesAre
<1>8. Cardinality(ChannelBytes) = 2 * s
  <2>1. Cardinality(a .. b - 1) = IF a > b - 1 THEN 0 ELSE ((b - 1) - a) + 1
    BY <1>4, FS_Interval
  <2> QED BY <1>4, <1>6, <1>7, <2>1
<1>9. n \in Nat /\ n <= 2 * s
  BY <1>4, <1>8
<1>10. a .. a + n - 1 \subseteq a .. b - 1 /\ a <= b /\ b <= d
  BY <1>4, <1>6, <1>9
<1>11. Wrote(a .. a + n - 1)
  BY <1>2, <1>3
<1>12. written' \subseteq Firsts(d) /\ writes' = Cardinality(written')
  <2>1. written \subseteq Firsts(a)
    BY <1>5
  <2>2. PICK bytes : bytes = a .. a + n - 1
    OBVIOUS
  <2>3. Wrote(bytes) /\ bytes \subseteq a .. b - 1
    BY <1>10, <1>11, <2>2
  <2> QED BY <1>4, <1>5, <1>10, <2>1, <2>3, SpanIsWritten
<1>13. read' \in Nat /\ read' <= avhunk.complen
  <2>1. PICK x \in Nat : x = srcoffs + ChannelSize /\ x < avhunk.complen
    BY <1>1, ChannelIsInside
  <2>2. x <= avhunk.complen /\ avhunk.complen \in Nat
    BY <1>1, <2>1, ChannelFacts
  <2> QED BY <1>1, <2>1, <2>2, AvFacts, PartIsRead
<1>14. avhunk' = avhunk
  BY <1>1, StopHunkStays
<1>15. CountInv'
  BY <1>3, <1>12, <1>13, <1>14 DEF CountInv
<1> QED BY <1>1, <1>15, StopHunkKeeps DEF AvErrors

LEMMA RawChannelIsShortKeeps ==
  ASSUME AvInv, RawChannelIsShort
  PROVE  AvInv'
<1>1. StopHunk("INVALID_DATA") /\ UNCHANGED avmemory
  BY DEF RawChannelIsShort
<1>2. CountInv'
  BY <1>1, StopHunkStays, CountStays DEF AvInv
<1> QED BY <1>1, <1>2, StopHunkKeeps DEF AvErrors

LEMMA CodedChannelOverflowsKeeps ==
  ASSUME AvInv, CodedChannelOverflows
  PROVE  AvInv'
<1>1. StopHunk("INVALID_DATA") /\ UNCHANGED avmemory
  BY DEF CodedChannelOverflows
<1>2. CountInv'
  BY <1>1, StopHunkStays, CountStays DEF AvInv
<1> QED BY <1>1, <1>2, StopHunkKeeps DEF AvErrors

LEMMA VideoEndsElsewhereKeeps ==
  ASSUME AvInv, VideoEndsElsewhere
  PROVE  AvInv'
<1>1. StopHunk("INVALID_DATA") /\ UNCHANGED avmemory
  BY DEF VideoEndsElsewhere
<1>2. CountInv'
  BY <1>1, StopHunkStays, CountStays DEF AvInv
<1> QED BY <1>1, <1>2, StopHunkKeeps DEF AvErrors

LEMMA NoMemoryKeeps ==
  ASSUME AvInv, NoMemory
  PROVE  AvInv'
<1>1. StopHunk("OUT_OF_MEMORY") /\ UNCHANGED <<written, writes>>
  BY DEF NoMemory
<1>2. avhunk \in AvHunks /\ avhunk.complen \in Nat
  BY AvFacts, AvHunksAre
<1>3. \E end \in Nat : end <= avhunk.complen /\ ReadTo(end)
  <2>1. CASE avphase = "trees" /\ ReadTo(srcoffs)
    BY <2>1, TreesEndInside
  <2>2. CASE Coded /\ sampnum = 0 /\ ReadTo(srcoffs)
    <3>1. InChannel
      BY <2>2 DEF Coded
    <3>2. PICK o, c, x : o = srcoffs /\ c = ChannelSize /\ x = avhunk.complen
      OBVIOUS
    <3>3. o \in Nat /\ c \in Nat /\ o + c < x /\ x \in Nat
      BY <1>2, <3>1, <3>2, ChannelIsInside
    <3>4. o <= x
      BY <3>3
    <3> QED BY <2>2, <3>2, <3>3, <3>4
  <2>3. CASE avphase = "video" /\ HasVideo /\ avhunk.lossless /\ ReadTo(srcoffs + 1)
    <3>1. srcoffs \in Nat /\ srcoffs < avhunk.complen
      BY <2>3 DEF AvInv, VideoInv
    <3>2. srcoffs + 1 \in Nat /\ srcoffs + 1 <= avhunk.complen
      BY <1>2, <3>1
    <3> QED BY <2>3, <3>2
  <2> QED BY <2>1, <2>2, <2>3 DEF NoMemory
<1>4. CountInv'
  BY <1>1, <1>3, StopHunkStays, CountIsRead
<1> QED BY <1>1, <1>4, StopHunkKeeps DEF AvErrors

LEMMA AudioDoneKeeps ==
  ASSUME AvInv, AudioDone
  PROVE  AvInv'
<1>1. /\ avphase = "audio" /\ chnum = avhunk.channels /\ avphase' = "video"
      /\ UNCHANGED <<avhunk, chnum, sampnum, dy, dx, srcoffs, context, taken, made, sample, before,
                     written, writes, read, answer>>
  BY DEF AudioDone, place, streams, avmemory
<1>2. /\ sampnum = 0 /\ dy = 0 /\ dx = 0 /\ NothingTaken
      /\ srcoffs = PartAt(avhunk, TreeBytes(avhunk), avhunk.channels)
      /\ written = Firsts(AudioStart(avhunk, avhunk.channels) + 2 * sampnum)
  BY <1>1 DEF AvInv, AudioInv
<1>3. avhunk \in AvHunks /\ Verdict(avhunk) = "NONE" /\ answer = "none"
  BY <1>1, AvFacts
<1>4. AvTypeInv' /\ IdleInv' /\ CountInv'
  BY <1>1, <1>3 DEF AvInv, AvTypeInv, AvPhases, IdleInv, CountInv
<1>5. TreesInv' /\ AudioInv' /\ RowsInv' /\ EndInv'
  BY <1>1 DEF TreesInv, AudioInv, RowsInv, EndInv
<1>6. VideoInv'
  <2>1. NothingTaken'
    BY <1>1, <1>2 DEF NothingTaken
  <2>2. avhunk.channels \in 0 .. avhunk.channels
    BY <1>3, AvHunksAre
  <2>3. PICK t : t = TreeBytes(avhunk) /\ t \in {0, TreeBytes(avhunk)}
    OBVIOUS
  <2>4. PartAt(avhunk, t, avhunk.channels) \in Nat /\ PartAt(avhunk, t, avhunk.channels) < avhunk.complen
    BY <1>3, <2>2, <2>3, PartIsInside
  <2>5. written = Firsts(VideoStart(avhunk))
    <3>1. VideoStart(avhunk) \in Nat
      BY <1>3, <2>2, AudioLayout
    <3>2. VideoStart(avhunk) + 2 * 0 = VideoStart(avhunk)
      BY <3>1
    <3>3. VideoStart(avhunk) = AudioStart(avhunk, avhunk.channels)
      BY DEF VideoStart
    <3> QED BY <1>2, <3>2, <3>3
  <2> QED BY <1>1, <1>2, <2>1, <2>3, <2>4, <2>5 DEF VideoInv
<1> QED BY <1>4, <1>5, <1>6 DEF AvInv

-----------------------------------------------------------------------------
(* The samples of a channel.                                                *)
LEMMA AvStreamsAre ==
  ASSUME AvInv
  PROVE  /\ AvStreams \in StreamStates /\ AvStreams.context = context
         /\ AvStreams.taken = taken /\ AvStreams.out = made
BY AvFacts DEF AvStreams, StreamStates

LEMMA FreshIs == Fresh \in Decoder /\ Fresh.prev = 0 /\ Fresh.rlecount = 0
<1>1. 0 \in ByteOf /\ 0 \in Nat
  BY AvHuffAssumption DEF ByteOf
<1> QED BY <1>1 DEF Fresh, Decoder

LEMMA ChannelStart ==
  ASSUME AvInv, sampnum = 0, InChannel
  PROVE  LET s == StartCodedChannel(AvStreams)
         IN  /\ s \in StreamStates
             /\ \A p \in {"ahi", "alo"} : HasStream(s, p, 0) /\ s.out[p] = <<>>
             /\ sample = <<>>
<1>1. PICK s : s = StartCodedChannel(AvStreams)
  OBVIOUS
<1>2. taken = Nothing /\ made = Nothing /\ sample = <<>>
  BY ChannelFacts DEF NothingTaken
<1>3. "ahi" \in Planes /\ "alo" \in Planes
  BY DEF Planes
<1>4. PICK c : c = [[context EXCEPT !["ahi"] = Fresh] EXCEPT !["alo"] = Fresh]
  OBVIOUS
<1>5. c \in [Planes -> Decoder] /\ c["ahi"] = Fresh /\ c["alo"] = Fresh
  BY <1>3, <1>4, FreshIs, AvFacts
<1>6. s = [context |-> c, taken |-> taken, out |-> made]
  BY <1>1, <1>4 DEF StartCodedChannel, AvStreams, deltarle_reset
<1>7. s.context = c /\ s.taken = taken /\ s.out = made
  BY <1>6
<1>8. s \in StreamStates
  BY <1>5, <1>6, AvFacts DEF StreamStates
<1>9. ASSUME NEW p \in {"ahi", "alo"} PROVE HasStream(s, p, 0) /\ s.out[p] = <<>>
  <2>1. p \in Planes /\ s.context[p] = Fresh
    BY <1>3, <1>5, <1>7
  <2>2. s.taken[p] = <<>> /\ s.out[p] = <<>>
    BY <1>2, <1>7, <2>1 DEF Nothing
  <2>3. StreamIs(s.context[p], <<>>, <<>>, 0)
    BY <2>1, FreshIs, FreshStream
  <2> QED BY <2>2, <2>3 DEF HasStream
<1> QED BY <1>1, <1>2, <1>8, <1>9

LEMMA ChannelGoesOn ==
  ASSUME AvInv, InChannel, NEW s, s = IF sampnum = 0 THEN StartCodedChannel(AvStreams) ELSE AvStreams
  PROVE  /\ s \in StreamStates
         /\ \A p \in {"ahi", "alo"} : HasStream(s, p, 0) /\ Len(s.out[p]) = sampnum
         /\ sample = DeltaSums(s.out["ahi"], s.out["alo"], sampnum)
<1>1. CASE sampnum = 0
  <2>1. s = StartCodedChannel(AvStreams)
    BY <1>1
  <2>2. /\ s \in StreamStates /\ sample = <<>>
        /\ \A p \in {"ahi", "alo"} : HasStream(s, p, 0) /\ s.out[p] = <<>>
    BY <1>1, <2>1, ChannelStart
  <2>3. Len(<<>>) = 0 /\ <<>> \in Seq(ByteOf) /\ 0 \in Nat
    OBVIOUS
  <2> QED BY <1>1, <2>2, <2>3, NoSamples
<1>2. CASE sampnum # 0
  <2>1. s = AvStreams
    BY <1>2
  <2>2. AudioStreams
    BY <1>2 DEF AvInv, AudioInv, InChannel
  <2>3. s \in StreamStates /\ s.context = context /\ s.taken = taken /\ s.out = made
    BY <2>1, AvStreamsAre
  <2> QED BY <2>2, <2>3 DEF AudioStreams, HasStream
<1> QED BY <1>1, <1>2

LEMMA SampleGoesOn ==
  ASSUME NEW n \in Nat, NEW s \in StreamStates,
         \A p \in {"ahi", "alo"} : HasStream(s, p, 0) /\ Len(s.out[p]) = n,
         NEW all, all = DeltaSums(s.out["ahi"], s.out["alo"], n),
         NEW hi \in NextCodes(s.context["ahi"]), NEW lo \in NextCodes(s.context["alo"]),
         NEW t, t = Decode(Decode(s, "ahi", hi), "alo", lo)
  PROVE  /\ t \in StreamStates
         /\ \A p \in {"ahi", "alo"} : HasStream(t, p, 0) /\ Len(t.out[p]) = n + 1
         /\ Append(all, Plus(IF n = 0 THEN 0 ELSE Last(all),
                             Delta(t.context["ahi"].prev, t.context["alo"].prev)))
              = DeltaSums(t.out["ahi"], t.out["alo"], n + 1)
<1>0. "ahi" \in Planes /\ "alo" \in Planes /\ "ahi" # "alo" /\ 0 \in ByteOf
  BY AvHuffAssumption DEF Planes, ByteOf
<1>1. PICK u : u = Decode(s, "ahi", hi)
  OBVIOUS
<1>2. /\ u \in StreamStates /\ u.out["ahi"] = Append(s.out["ahi"], u.context["ahi"].prev)
      /\ SameStream(u, s, "alo")
  BY <1>0, <1>1, DecodeIs
<1>3. HasStream(u, "ahi", 0)
  BY <1>0, <1>1, DecodeKeeps
<1>4. HasStream(u, "alo", 0)
  BY <1>2, SameStreamKeeps
<1>5. u.context["alo"] = s.context["alo"] /\ u.out["alo"] = s.out["alo"]
  BY <1>2 DEF SameStream
<1>6. lo \in NextCodes(u.context["alo"]) /\ t = Decode(u, "alo", lo)
  BY <1>1, <1>5
<1>7. /\ t \in StreamStates /\ t.out["alo"] = Append(u.out["alo"], t.context["alo"].prev)
      /\ SameStream(t, u, "ahi")
  BY <1>0, <1>2, <1>6, DecodeIs
<1>8. HasStream(t, "alo", 0)
  BY <1>0, <1>2, <1>4, <1>6, DecodeKeeps
<1>9. HasStream(t, "ahi", 0)
  BY <1>3, <1>7, SameStreamKeeps
<1>10. t.context["ahi"] = u.context["ahi"] /\ t.out["ahi"] = u.out["ahi"]
  BY <1>7 DEF SameStream
<1>11. PICK a, b, x, y : /\ a = s.out["ahi"] /\ b = s.out["alo"]
                         /\ x = t.context["ahi"].prev /\ y = t.context["alo"].prev
  OBVIOUS
<1>12. t.out["ahi"] = Append(a, x) /\ t.out["alo"] = Append(b, y)
  BY <1>2, <1>5, <1>7, <1>10, <1>11
<1>13. a \in Seq(ByteOf) /\ b \in Seq(ByteOf) /\ Len(a) = n /\ Len(b) = n
  BY <1>0, <1>11, StreamStatesAre
<1>14. x \in ByteOf /\ y \in ByteOf
  <2>1. t.context["ahi"] \in Decoder /\ t.context["alo"] \in Decoder
    BY <1>0, <1>7, StreamStatesAre
  <2> QED BY <1>11, <2>1, DecoderIs
<1>15. Len(t.out["ahi"]) = n + 1 /\ Len(t.out["alo"]) = n + 1
  BY <1>12, <1>13, <1>14
<1>16. PICK v : v = LastSample(DeltaSums(a, b, n), n)
  OBVIOUS
<1>17. DeltaSums(Append(a, x), Append(b, y), n + 1) = Append(DeltaSums(a, b, n), Plus(v, Delta(x, y)))
  BY <1>13, <1>14, <1>16, SamplesOfOneMore
<1>18. all = DeltaSums(a, b, n) /\ v = IF n = 0 THEN 0 ELSE Last(all)
  BY <1>11, <1>16 DEF LastSample
<1> QED BY <1>7, <1>8, <1>9, <1>11, <1>12, <1>15, <1>16, <1>17, <1>18

LEMMA CodedSampleKeeps ==
  ASSUME AvInv, CodedSample
  PROVE  AvInv'
<1>1. /\ Coded /\ InChannel /\ avphase = "audio" /\ sampnum < avhunk.samples
      /\ Wrote({AudioStart(avhunk, chnum) + 2 * sampnum, AudioStart(avhunk, chnum) + 2 * sampnum + 1})
      /\ ReadTo(srcoffs + ChannelSize) /\ sampnum' = sampnum + 1
      /\ UNCHANGED <<avhunk, avphase, chnum, dy, dx, srcoffs, before, answer>>
  BY DEF CodedSample, Coded, InChannel
<1>2. PICK s : s = IF sampnum = 0 THEN StartCodedChannel(AvStreams) ELSE AvStreams
  OBVIOUS
<1>3. PICK hi, lo, t :
        /\ hi \in NextCodes(s.context["ahi"]) /\ lo \in NextCodes(s.context["alo"])
        /\ t = Decode(Decode(s, "ahi", hi), "alo", lo)
        /\ SetStreams(t)
        /\ sample' = Append(sample, Plus(IF sampnum = 0 THEN 0 ELSE Last(sample),
                                         Delta(t.context["ahi"].prev, t.context["alo"].prev)))
  BY <1>2 DEF CodedSample
<1>4. /\ avhunk \in AvHunks /\ chnum \in 0 .. avhunk.channels /\ sampnum \in 0 .. avhunk.samples
      /\ avhunk.samples \in Nat /\ sampnum \in Nat /\ dy = 0 /\ dx = 0
  <2>1. avhunk \in AvHunks /\ chnum \in 0 .. avhunk.channels /\ sampnum \in 0 .. avhunk.samples
        /\ avhunk.samples \in Nat /\ dy = 0 /\ dx = 0
    BY <1>1, ChannelFacts
  <2> QED BY <2>1
<1>5. /\ s \in StreamStates
      /\ \A p \in {"ahi", "alo"} : HasStream(s, p, 0) /\ Len(s.out[p]) = sampnum
      /\ sample = DeltaSums(s.out["ahi"], s.out["alo"], sampnum)
  BY <1>1, <1>2, ChannelGoesOn
<1>6. /\ t \in StreamStates
      /\ \A p \in {"ahi", "alo"} : HasStream(t, p, 0) /\ Len(t.out[p]) = sampnum + 1
      /\ sample' = DeltaSums(t.out["ahi"], t.out["alo"], sampnum + 1)
  BY <1>3, <1>4, <1>5, SampleGoesOn
<1>7. context' = t.context /\ taken' = t.taken /\ made' = t.out
  BY <1>3 DEF SetStreams
<1>8. AvTypeInv'
  BY <1>1, <1>6, <1>7, StreamStatesAre DEF AvInv, AvTypeInv
<1>9. IdleInv'
  BY <1>1 DEF AvInv, IdleInv
<1>10. TreesInv' /\ VideoInv' /\ RowsInv' /\ EndInv'
  BY <1>1 DEF TreesInv, VideoInv, RowsInv, EndInv
<1>11. PICK a, d, m : a = AudioStart(avhunk, chnum) + 2 * sampnum /\ d = avhunk.destlen /\ m = avhunk.samples
  OBVIOUS
<1>12. a \in Nat /\ a + 2 <= d /\ d \in Nat /\ AudioStart(avhunk, chnum) + 2 * (sampnum + 1) = a + 2
  <2>1. PICK x : x = AudioStart(avhunk, chnum)
    OBVIOUS
  <2>2. x \in Nat /\ d \in Nat /\ x + 2 * m <= d /\ m \in Nat /\ sampnum \in Nat /\ sampnum < m
    BY <1>1, <1>4, <1>11, <2>1, ChannelFacts
  <2>3. a = x + 2 * sampnum
    BY <1>11, <2>1
  <2> QED BY <2>1, <2>2, <2>3
<1>13. written = Firsts(a) /\ writes = Cardinality(written)
  BY <1>1, <1>11, AvFacts, ChannelFacts
<1>14. /\ written' = Firsts(a + 2) /\ written' \subseteq Firsts(d) /\ writes' = Cardinality(written')
  <2>1. PICK bytes : bytes = {a, a + 1}
    OBVIOUS
  <2>2. PICK b \in Nat : b = a + 2 /\ a <= b /\ b <= d
    BY <1>12
  <2>3. bytes = a .. b - 1
    BY <1>12, <2>1, <2>2
  <2>4. Wrote(bytes) /\ written \subseteq Firsts(a) /\ bytes \subseteq a .. b - 1
    BY <1>1, <1>11, <1>13, <2>1, <2>3
  <2>5. /\ written' = written \cup bytes /\ written' \subseteq Firsts(d)
        /\ writes' = Cardinality(written')
    BY <1>12, <1>13, <2>2, <2>4, SpanIsWritten
  <2>6. written' = Firsts(b)
    BY <1>12, <1>13, <2>2, <2>3, <2>5, FirstsGrow
  <2> QED BY <2>2, <2>5, <2>6
<1>15. CountInv'
  <2>1. PICK x \in Nat : x = srcoffs + ChannelSize /\ x < avhunk.complen
    BY <1>1, ChannelIsInside
  <2>2. x <= avhunk.complen /\ avhunk.complen \in Nat
    BY <1>1, <2>1, ChannelFacts
  <2>3. read' \in Nat /\ read' <= avhunk.complen
    BY <1>1, <2>1, <2>2, AvFacts, PartIsRead
  <2> QED BY <1>1, <1>11, <1>14, <2>3 DEF CountInv
<1>16. AudioInv'
  <2>1. /\ (chnum = avhunk.channels \/ avhunk.treesize \in {0, FlacAudio}) => sampnum' = 0
        /\ srcoffs = PartAt(avhunk, TreeBytes(avhunk), chnum)
    <3>1. chnum # avhunk.channels
      BY <1>1, AvFacts, AvHunksAre DEF InChannel
    <3>2. avhunk.treesize \notin {0, FlacAudio}
      BY <1>1 DEF Coded
    <3>3. srcoffs = PartAt(avhunk, TreeBytes(avhunk), chnum)
      BY <1>1 DEF AvInv, AudioInv
    <3> QED BY <3>1, <3>2, <3>3
  <2>2. sampnum + 1 \in 0 .. avhunk.samples /\ sampnum + 1 # 0
    BY <1>1, <1>4
  <2>3. AudioStreams'
    <3>1. \A p \in {"ahi", "alo"} :
            StreamIs(context'[p], taken'[p], made'[p], 0) /\ Len(made'[p]) = sampnum'
      BY <1>1, <1>6, <1>7 DEF HasStream
    <3>2. sample' = DeltaSums(made'["ahi"], made'["alo"], sampnum')
      BY <1>1, <1>6, <1>7
    <3> QED BY <3>1, <3>2 DEF AudioStreams
  <2>4. written' = Firsts(AudioStart(avhunk, chnum) + 2 * (sampnum + 1))
    BY <1>12, <1>14
  <2> QED BY <1>1, <1>4, <2>1, <2>2, <2>3, <2>4 DEF AudioInv
<1> QED BY <1>8, <1>9, <1>10, <1>15, <1>16 DEF AvInv

-----------------------------------------------------------------------------
(* The rows.                                                                *)
LEMMA NoVideoKeeps ==
  ASSUME AvInv, NoVideo
  PROVE  AvInv'
<1>1. /\ avphase = "video" /\ ~ HasVideo /\ avphase' = "end"
      /\ UNCHANGED <<avhunk, chnum, sampnum, dy, dx, srcoffs, context, taken, made, sample, before,
                     written, writes, read, answer>>
  BY DEF NoVideo, place, streams, avmemory
<1>2. avhunk \in AvHunks /\ Verdict(avhunk) = "NONE" /\ answer = "none"
  BY <1>1, AvFacts
<1>3. AvTypeInv' /\ IdleInv' /\ CountInv'
  BY <1>1, <1>2 DEF AvInv, AvTypeInv, AvPhases, IdleInv, CountInv
<1>4. TreesInv' /\ AudioInv' /\ VideoInv' /\ RowsInv'
  BY <1>1 DEF TreesInv, AudioInv, VideoInv, RowsInv
<1>5. EndInv'
  <2>1. written = Firsts(VideoStart(avhunk))
    BY <1>1 DEF AvInv, VideoInv
  <2>2. PICK w, e, v : w = avhunk.width /\ e = avhunk.height /\ v = VideoStart(avhunk)
    OBVIOUS
  <2>3. w \in Nat /\ e \in Nat /\ (w = 0 \/ e = 0)
    BY <1>1, <1>2, <2>2, AvHunksAre DEF HasVideo
  <2>4. v \in Nat /\ 12 + Payload(avhunk) = v + (e * 2 * w)
    <3>1. 0 \in 0 .. avhunk.channels /\ 0 \in 0 .. avhunk.height
      BY <1>2, AvHunksAre
    <3>2. RowStart(avhunk, avhunk.height) = 12 + Payload(avhunk)
      BY <1>2, <3>1, RowLayout
    <3> QED BY <1>2, <2>2, <3>1, <3>2, AudioLayout DEF RowStart
  <2>5. e * 2 * w = 0
    BY <2>3
  <2>6. 12 + Payload(avhunk) = v
    BY <2>4, <2>5
  <2>7. LeftOver(avhunk) = {}
    <3>1. CASE w = 0
      <4>1. w % 2 = 0
        BY <3>1
      <4> QED BY <2>2, <4>1 DEF LeftOver
    <3>2. CASE e = 0
      <4>1. 0 .. e - 1 = {}
        BY <3>2
      <4> QED BY <2>2, <4>1 DEF LeftOver
    <3> QED BY <2>3, <3>1, <3>2
  <2> QED BY <1>1, <2>1, <2>2, <2>6, <2>7 DEF EndInv
<1> QED BY <1>3, <1>4, <1>5 DEF AvInv

LEMMA VideoIsBadKeeps ==
  ASSUME AvInv, VideoIsBad
  PROVE  AvInv'
<1>1. PICK error, end :
        /\ error \in AvErrors
        /\ StopHunk(error) /\ ReadTo(end) /\ avphase = "video" /\ UNCHANGED <<written, writes>>
        /\ end \in {srcoffs + 1, avhunk.complen}
  BY DEF VideoIsBad, AvErrors
<1>2. srcoffs \in Nat /\ srcoffs < avhunk.complen
  BY <1>1 DEF AvInv, VideoInv
<1>3. avhunk.complen \in Nat
  BY AvFacts, AvHunksAre
<1>4. end \in Nat /\ end <= avhunk.complen
  BY <1>1, <1>2, <1>3
<1>5. CountInv'
  BY <1>1, <1>4, StopHunkStays, CountIsRead
<1> QED BY <1>1, <1>5, StopHunkKeeps

LEMMA ImportVideoTreesKeeps ==
  ASSUME AvInv, ImportVideoTrees
  PROVE  AvInv'
<1>1. /\ avphase = "video" /\ avphase' = "rows" /\ context' = VideoContexts(context)
      /\ ReadTo(avhunk.complen)
      /\ UNCHANGED <<avhunk, chnum, sampnum, dy, dx, srcoffs, taken, made, sample, before, written,
                     writes, answer>>
  BY DEF ImportVideoTrees, place
<1>2. avhunk \in AvHunks /\ Verdict(avhunk) = "NONE" /\ answer = "none" /\ avhunk.complen \in Nat
  BY <1>1, AvFacts, AvHunksAre
<1>3. dy = 0 /\ dx = 0 /\ NothingTaken /\ written = Firsts(VideoStart(avhunk))
  BY <1>1 DEF AvInv, VideoInv
<1>4. /\ context' \in [Planes -> Decoder]
      /\ \A p \in {"y", "cb", "cr"} : p \in Planes /\ context'[p] = Fresh
  <2>1. \A p \in Planes : context[p] \in Decoder
    BY AvFacts
  <2>2. \A p \in {"y", "cb", "cr"} : p \in Planes
    BY DEF Planes
  <2> QED BY <1>1, <2>1, <2>2, FreshIs DEF VideoContexts, deltarle_reset
<1>5. AvTypeInv' /\ IdleInv'
  BY <1>1, <1>2, <1>4 DEF AvInv, AvTypeInv, AvPhases, IdleInv
<1>6. CountInv'
  <2>1. avhunk.complen <= avhunk.complen
    BY <1>2
  <2> QED BY <1>1, <1>2, <2>1, CountIsRead
<1>7. TreesInv' /\ AudioInv' /\ VideoInv' /\ EndInv'
  BY <1>1 DEF TreesInv, AudioInv, VideoInv, EndInv
<1>8. RowsInv'
  <2>1. avhunk.height \in Nat /\ avhunk.width \in Nat /\ 0 \in 0 .. avhunk.height
    BY <1>2, AvHunksAre
  <2>2. 0 \in 0 .. avhunk.width \div 2
    <3>1. PICK w \in Nat : w = avhunk.width
      BY <2>1
    <3>2. w \div 2 \in Nat
      OBVIOUS
    <3> QED BY <3>1, <3>2
  <2>3. taken' = Nothing /\ made' = Nothing /\ before' = Zeros
    BY <1>1, <1>3 DEF NothingTaken
  <2>4. ASSUME NEW p \in {"y", "cb", "cr"} PROVE StreamIs(context'[p], taken'[p], made'[p], before'[p])
    <3>1. p \in Planes /\ context'[p] = Fresh
      BY <1>4
    <3>2. taken'[p] = <<>> /\ made'[p] = <<>> /\ before'[p] = 0
      BY <2>3, <3>1 DEF Nothing, Zeros
    <3>3. StreamIs(Fresh, <<>>, <<>>, 0)
      BY FreshIs, FreshStream
    <3> QED BY <3>1, <3>2, <3>3
  <2>5. RowAt' = VideoStart(avhunk) /\ RowAt' + 4 * 0 = VideoStart(avhunk)
    <3>1. RowStart(avhunk, 0) = VideoStart(avhunk) /\ RowStart(avhunk, 0) \in Nat
      BY <1>2, <2>1, RowLayout
    <3>2. RowAt' = RowStart(avhunk, 0)
      BY <1>1, <1>3 DEF RowAt, RowStart
    <3>3. RowStart(avhunk, 0) + 4 * 0 = RowStart(avhunk, 0)
      BY <3>1
    <3> QED BY <3>1, <3>2, <3>3
  <2>6. Skipped(avhunk, 0) = {}
    <3>1. 0 .. 0 - 1 = {}
      OBVIOUS
    <3> QED BY <3>1 DEF Skipped
  <2>7. dy' = 0 /\ dx' = 0 /\ written' = Firsts(RowAt' + 4 * dx') \ Skipped(avhunk', dy')
    BY <1>1, <1>3, <2>5, <2>6
  <2> QED BY <1>1, <2>1, <2>2, <2>3, <2>4, <2>7, NothingIs DEF RowsInv
<1> QED BY <1>5, <1>6, <1>7, <1>8 DEF AvInv

RowPlanes == {"y", "cb", "cr"}

LEMMA RowFacts ==
  ASSUME AvInv, avphase = "rows"
  PROVE  /\ avhunk \in AvHunks /\ avhunk.width \in Nat /\ avhunk.height \in Nat /\ avhunk.destlen \in Nat
         /\ dy \in 0 .. avhunk.height /\ dx \in 0 .. avhunk.width \div 2
         /\ (dy = avhunk.height => dx = 0)
         /\ before \in [Planes -> ByteOf] /\ (dy = 0 => before = Zeros)
         /\ written = Firsts(RowAt + 4 * dx) \ Skipped(avhunk, dy)
         /\ RowAt = RowStart(avhunk, dy) /\ 12 + Payload(avhunk) <= avhunk.destlen
         /\ \A p \in RowPlanes :
              /\ p \in Planes /\ before[p] \in ByteOf
              /\ StreamIs(context[p], taken[p], made[p], before[p])
<1>1. avhunk \in AvHunks /\ Verdict(avhunk) = "NONE"
  BY AvFacts
<1>2. RowsInv
  BY DEF AvInv
<1>3. /\ dy \in 0 .. avhunk.height /\ dx \in 0 .. avhunk.width \div 2 /\ (dy = avhunk.height => dx = 0)
      /\ before \in [Planes -> ByteOf] /\ (dy = 0 => before = Zeros)
      /\ written = Firsts(RowAt + 4 * dx) \ Skipped(avhunk, dy)
  BY <1>2 DEF RowsInv
<1>4. RowAt = RowStart(avhunk, dy)
  BY DEF RowAt, RowStart
<1>5. ASSUME NEW p \in RowPlanes
      PROVE  p \in Planes /\ before[p] \in ByteOf /\ StreamIs(context[p], taken[p], made[p], before[p])
  <2>1. p \in Planes
    BY DEF Planes, RowPlanes
  <2> QED BY <1>2, <1>3, <2>1 DEF RowsInv, RowPlanes
<1> QED BY <1>1, <1>3, <1>4, <1>5, AvHunksAre, VerdictIs

(* Y, Cb, Y and Cr, one after the other from the same stream.               *)
LEMMA PairGoesOn ==
  ASSUME NEW s \in StreamStates, NEW prev, \A p \in RowPlanes : prev[p] \in ByteOf /\ HasStream(s, p, prev[p]),
         NEW y0 \in NextCodes(s.context["y"]), NEW cb \in NextCodes(s.context["cb"]),
         NEW cr \in NextCodes(s.context["cr"]),
         NEW t, t = Decode(Decode(s, "y", y0), "cb", cb), NEW y1 \in NextCodes(t.context["y"]),
         NEW v, v = Decode(Decode(t, "y", y1), "cr", cr)
  PROVE  v \in StreamStates /\ \A p \in RowPlanes : HasStream(v, p, prev[p])
<1>0. /\ "y" \in Planes /\ "cb" \in Planes /\ "cr" \in Planes
      /\ "y" \in RowPlanes /\ "cb" \in RowPlanes /\ "cr" \in RowPlanes
  BY DEF Planes, RowPlanes
<1>1. PICK r : r = Decode(s, "y", y0)
  OBVIOUS
<1>2. r \in StreamStates /\ SameStream(r, s, "cb") /\ SameStream(r, s, "cr")
  BY <1>0, <1>1, DecodeIs
<1>3. HasStream(r, "y", prev["y"])
  BY <1>0, <1>1, DecodeKeeps
<1>4. HasStream(r, "cb", prev["cb"]) /\ HasStream(r, "cr", prev["cr"])
  BY <1>0, <1>2, SameStreamKeeps
<1>5. cb \in NextCodes(r.context["cb"]) /\ t = Decode(r, "cb", cb)
  BY <1>1, <1>2 DEF SameStream
<1>6. t \in StreamStates /\ SameStream(t, r, "y") /\ SameStream(t, r, "cr")
  BY <1>0, <1>2, <1>5, DecodeIs
<1>7. HasStream(t, "cb", prev["cb"])
  BY <1>0, <1>2, <1>4, <1>5, DecodeKeeps
<1>8. HasStream(t, "y", prev["y"]) /\ HasStream(t, "cr", prev["cr"])
  BY <1>3, <1>4, <1>6, SameStreamKeeps
<1>9. PICK u : u = Decode(t, "y", y1)
  OBVIOUS
<1>10. u \in StreamStates /\ SameStream(u, t, "cb") /\ SameStream(u, t, "cr")
  BY <1>0, <1>6, <1>9, DecodeIs
<1>11. HasStream(u, "y", prev["y"])
  BY <1>0, <1>6, <1>8, <1>9, DecodeKeeps
<1>12. HasStream(u, "cb", prev["cb"]) /\ HasStream(u, "cr", prev["cr"])
  BY <1>7, <1>8, <1>10, SameStreamKeeps
<1>13. cr \in NextCodes(u.context["cr"]) /\ v = Decode(u, "cr", cr)
  BY <1>2, <1>6, <1>9, <1>10 DEF SameStream
<1>14. v \in StreamStates /\ SameStream(v, u, "y") /\ SameStream(v, u, "cb")
  BY <1>0, <1>10, <1>13, DecodeIs
<1>15. HasStream(v, "cr", prev["cr"])
  BY <1>0, <1>10, <1>12, <1>13, DecodeKeeps
<1>16. HasStream(v, "y", prev["y"]) /\ HasStream(v, "cb", prev["cb"])
  BY <1>11, <1>12, <1>14, SameStreamKeeps
<1> QED BY <1>14, <1>15, <1>16 DEF RowPlanes

(* The left over pixels are those of the rows before.                       *)
LEMMA SkippedAreBefore ==
  ASSUME NEW h \in AvHunks, NEW n \in 0 .. h.height
  PROVE  \A i \in Skipped(h, n) : i \in Int /\ i < RowStart(h, n)
<1> SUFFICES ASSUME NEW i \in Skipped(h, n) PROVE i \in Int /\ i < RowStart(h, n)
  OBVIOUS
<1>1. PICK row \in 0 .. n - 1, k \in 1 .. 2 : i = VideoStart(h) + row * 2 * h.width + 2 * h.width - k
  BY DEF Skipped
<1>2. PICK v, w : v = VideoStart(h) /\ w = h.width
  OBVIOUS
<1>3. v \in Nat /\ w \in Nat /\ n \in Nat
  <2>1. 0 \in 0 .. h.channels
    BY AvHunksAre
  <2> QED BY <1>2, <2>1, AvHunksAre, AudioLayout
<1>4. RowStart(h, n) = v + (n * 2 * w)
  BY <1>2 DEF RowStart
<1>5. i = v + (row * 2 * w) + ((2 * w) - k)
  BY <1>1, <1>2
<1>6. PICK z \in Nat : z = 2 * w
  BY <1>3
<1>7. row \in Nat /\ row < n /\ row * 2 * w = row * z /\ n * 2 * w = n * z
  BY <1>3, <1>6
<1>8. row * z \in Nat /\ n * z \in Nat /\ row * z + z <= n * z
  BY <1>3, <1>7, MoreIsMore
<1>9. PICK x, y : x = row * z /\ y = n * z
  OBVIOUS
<1>10. i = v + x + (z - k) /\ RowStart(h, n) = v + y /\ x \in Nat /\ y \in Nat /\ x + z <= y
  BY <1>4, <1>5, <1>6, <1>7, <1>8, <1>9
<1> QED BY <1>3, <1>6, <1>10

LEMMA PixelPairKeeps ==
  ASSUME AvInv, PixelPair
  PROVE  AvInv'
<1>1. /\ avphase = "rows" /\ dy < avhunk.height /\ dx < avhunk.width \div 2 /\ dx' = dx + 1
      /\ Wrote(RowAt + 4 * dx .. RowAt + 4 * dx + 3)
      /\ UNCHANGED <<avhunk, avphase, chnum, sampnum, dy, srcoffs, sample, before, read, answer>>
  BY DEF PixelPair, InRow
<1>2. PICK y0 \in NextCodes(context["y"]), cb \in NextCodes(context["cb"]), cr \in NextCodes(context["cr"]) :
        LET s == Decode(Decode(AvStreams, "y", y0), "cb", cb)
        IN  \E y1 \in NextCodes(s.context["y"]) : SetStreams(Decode(Decode(s, "y", y1), "cr", cr))
  BY DEF PixelPair
<1>3. PICK t : t = Decode(Decode(AvStreams, "y", y0), "cb", cb)
  OBVIOUS
<1>4. PICK y1, v : y1 \in NextCodes(t.context["y"]) /\ v = Decode(Decode(t, "y", y1), "cr", cr) /\ SetStreams(v)
  BY <1>2, <1>3
<1>5. /\ avhunk \in AvHunks /\ dy \in 0 .. avhunk.height /\ dx \in 0 .. avhunk.width \div 2
      /\ avhunk.width \in Nat /\ avhunk.height \in Nat
      /\ \A p \in RowPlanes : /\ before[p] \in ByteOf
                              /\ StreamIs(context[p], taken[p], made[p], before[p])
  BY <1>1, RowFacts
<1>6. v \in StreamStates /\ \A p \in RowPlanes : HasStream(v, p, before[p])
  <2>1. \A p \in RowPlanes : before[p] \in ByteOf /\ HasStream(AvStreams, p, before[p])
    BY <1>5, AvStreamsAre DEF HasStream
  <2>2. /\ y0 \in NextCodes(AvStreams.context["y"]) /\ cb \in NextCodes(AvStreams.context["cb"])
        /\ cr \in NextCodes(AvStreams.context["cr"]) /\ AvStreams \in StreamStates
    BY AvStreamsAre
  <2> QED BY <1>3, <1>4, <2>1, <2>2, PairGoesOn
<1>7. context' = v.context /\ taken' = v.taken /\ made' = v.out
  BY <1>4 DEF SetStreams
<1>8. AvTypeInv'
  BY <1>1, <1>6, <1>7, StreamStatesAre DEF AvInv, AvTypeInv
<1>9. IdleInv'
  BY <1>1 DEF AvInv, IdleInv
<1>10. TreesInv' /\ AudioInv' /\ VideoInv' /\ EndInv'
  BY <1>1 DEF TreesInv, AudioInv, VideoInv, EndInv
<1>11. PICK r, w, x, p, d : /\ r = RowStart(avhunk, dy) /\ w = avhunk.width /\ x = dx
                            /\ p = 12 + Payload(avhunk) /\ d = avhunk.destlen
  OBVIOUS
<1>12. r \in Nat /\ p \in Nat /\ d \in Nat /\ r + 2 * w <= p /\ p <= d /\ r = RowAt
  BY <1>1, <1>5, <1>11, RowFacts, RowLayout
<1>13. x \in Nat /\ x + 1 \in 0 .. w \div 2 /\ 4 * (x + 1) <= 2 * w
  <2>1. w \in Nat /\ x \in 0 .. w \div 2 /\ x < w \div 2
    BY <1>1, <1>5, <1>11
  <2>2. PICK q \in Nat : q = w \div 2 /\ 2 * q <= w
    <3>1. w \div 2 \in Nat /\ w % 2 \in 0 .. 1 /\ w = 2 * (w \div 2) + (w % 2)
      BY <2>1
    <3> QED BY <2>1, <3>1
  <2> QED BY <2>1, <2>2
<1>14. PICK a \in Nat : a = r + 4 * x /\ a = RowAt + 4 * dx
  BY <1>11, <1>12, <1>13
<1>15. PICK b \in Nat : b = r + 4 * (x + 1) /\ b = a + 4 /\ a <= b /\ b <= d
  <2>1. w \in Nat
    BY <1>5, <1>11
  <2> QED BY <1>12, <1>13, <1>14, <2>1
<1>16. written = Firsts(a) \ Skipped(avhunk, dy) /\ writes = Cardinality(written)
  BY <1>1, <1>14, RowFacts, AvFacts
<1>17. PICK bytes : bytes = a .. a + 3 /\ bytes = a .. b - 1 /\ Wrote(bytes)
  <2>1. a .. a + 3 = a .. b - 1
    BY <1>15
  <2> QED BY <1>1, <1>14, <2>1
<1>18. /\ written' = written \cup bytes /\ written' \subseteq Firsts(d) /\ writes' = Cardinality(written')
  <2>1. written \subseteq Firsts(a) /\ bytes \subseteq a .. b - 1
    BY <1>16, <1>17
  <2> QED BY <1>12, <1>15, <1>16, <1>17, <2>1, SpanIsWritten
<1>19. written' = Firsts(b) \ Skipped(avhunk, dy)
  <2>1. Firsts(a) \cup bytes = Firsts(b)
    BY <1>15, <1>17, FirstsGrow
  <2>2. \A i \in Skipped(avhunk, dy) : i \notin bytes
    <3>1. \A i \in Skipped(avhunk, dy) : i \in Int /\ i < r
      BY <1>5, <1>11, SkippedAreBefore
    <3>2. \A i \in bytes : i >= r
      BY <1>12, <1>13, <1>14, <1>17
    <3> QED BY <1>12, <3>1, <3>2
  <2> QED BY <1>16, <1>18, <2>1, <2>2
<1>20. CountInv'
  BY <1>1, <1>11, <1>18 DEF AvInv, CountInv
<1>21. RowsInv'
  <2>1. RowAt' = RowAt /\ RowAt' + 4 * dx' = b
    <3>1. RowAt' = RowAt
      BY <1>1 DEF RowAt, VideoStart, AudioStart
    <3> QED BY <1>1, <1>11, <1>12, <1>15, <3>1
  <2>2. \A q \in {"y", "cb", "cr"} : StreamIs(context'[q], taken'[q], made'[q], before'[q])
    BY <1>1, <1>6, <1>7 DEF HasStream, RowPlanes
  <2>3. before' \in [Planes -> ByteOf] /\ (dy' = 0 => before' = Zeros)
    BY <1>1, RowFacts
  <2>4. dx' \in 0 .. avhunk'.width \div 2 /\ dy' \in 0 .. avhunk'.height /\ dy' # avhunk'.height
    BY <1>1, <1>5, <1>11, <1>13
  <2> QED BY <1>1, <1>19, <2>1, <2>2, <2>3, <2>4 DEF RowsInv
<1> QED BY <1>8, <1>9, <1>10, <1>20, <1>21 DEF AvInv

(* At the end of a row of an odd width the last pixel is left over: the byte *)
(* `k' places before the end of row `row'.                                  *)
LastOfRow(h, row, k) == VideoStart(h) + row * 2 * h.width + 2 * h.width - k

LEMMA RowEnds ==
  ASSUME NEW h \in AvHunks, NEW n \in 0 .. h.height, n < h.height
  PROVE  Firsts(RowStart(h, n) + 4 * (h.width \div 2)) \ Skipped(h, n)
           = Firsts(RowStart(h, n + 1)) \ Skipped(h, n + 1)
<1>1. PICK r, w, q : r = RowStart(h, n) /\ w = h.width /\ q = w \div 2
  OBVIOUS
<1>2. r \in Nat /\ w \in Nat /\ RowStart(h, n + 1) = r + 2 * w /\ n \in Nat
  BY <1>1, AvHunksAre, RowLayout
<1>3. q \in Nat /\ w % 2 \in {0, 1} /\ w = 2 * q + (w % 2)
  BY <1>1, <1>2
<1>4. CASE w % 2 = 0
  <2>1. r + 4 * q = r + 2 * w
    BY <1>2, <1>3, <1>4
  <2>2. Skipped(h, n) = {} /\ Skipped(h, n + 1) = {}
    BY <1>1, <1>4 DEF Skipped
  <2> QED BY <1>1, <1>2, <2>1, <2>2
<1>5. CASE w % 2 = 1
  <2>1. PICK e \in Nat : e = r + 4 * q /\ r <= e /\ e + 2 = r + 2 * w
    BY <1>2, <1>3, <1>5
  <2>2. \A i \in Skipped(h, n) : i \in Int /\ i < r
    BY <1>1, SkippedAreBefore
  <2>3. Skipped(h, n + 1) = Skipped(h, n) \cup {e, e + 1}
    <3>1. \A m : Skipped(h, m) =
            {VideoStart(h) + row * 2 * w + 2 * w - k : row \in 0 .. m - 1, k \in 1 .. 2}
      BY <1>1, <1>5 DEF Skipped
    <3>2. 0 .. (n + 1) - 1 = (0 .. n - 1) \cup {n}
      BY <1>2
    <3>3. PICK z : z = 2 * w
      OBVIOUS
    <3>4. RowStart(h, n) = VideoStart(h) + n * 2 * w
      BY <1>1 DEF RowStart
    <3>5. \A k \in 1 .. 2 : VideoStart(h) + n * 2 * w + 2 * w - k = r + 2 * w - k
      BY <1>1, <3>4
    <3>6. r + 2 * w - 1 = e + 1 /\ r + 2 * w - 2 = e
      BY <1>2, <2>1
    <3>7. {VideoStart(h) + n * 2 * w + 2 * w - k : k \in 1 .. 2} = {e, e + 1}
      <4>1. 1 .. 2 = {1, 2}
        OBVIOUS
      <4>2. VideoStart(h) + n * 2 * w + 2 * w - 1 = e + 1 /\ VideoStart(h) + n * 2 * w + 2 * w - 2 = e
        BY <3>5, <3>6
      <4> QED BY <4>1, <4>2
    <3>8. Skipped(h, n + 1) = Skipped(h, n) \cup {VideoStart(h) + n * 2 * w + 2 * w - k : k \in 1 .. 2}
      <4>1. \A m, i : i \in Skipped(h, m) <=> \E row \in 0 .. m - 1, k \in 1 .. 2 : i = LastOfRow(h, row, k)
        BY <1>1, <3>1 DEF LastOfRow
      <4>2. \A i : i \in Skipped(h, n + 1)
                    <=> \E row \in (0 .. n - 1) \cup {n}, k \in 1 .. 2 : i = LastOfRow(h, row, k)
        BY <3>2, <4>1
      <4>3. \A i : i \in Skipped(h, n + 1)
                    <=> i \in Skipped(h, n) \/ \E k \in 1 .. 2 : i = LastOfRow(h, n, k)
        <5> TAKE i
        <5>1. i \in Skipped(h, n) <=> \E row \in 0 .. n - 1, k \in 1 .. 2 : i = LastOfRow(h, row, k)
          BY <4>1
        <5>2. i \in Skipped(h, n + 1)
                <=> \E row \in (0 .. n - 1) \cup {n}, k \in 1 .. 2 : i = LastOfRow(h, row, k)
          BY <4>2
        <5> QED BY <5>1, <5>2
      <4>4. PICK S, T : S = Skipped(h, n) /\ T = Skipped(h, n + 1)
        OBVIOUS
      <4>5. \A i : i \in T <=> i \in S \/ i \in {LastOfRow(h, n, k) : k \in 1 .. 2}
        BY <4>3, <4>4
      <4>6. T = S \cup {LastOfRow(h, n, k) : k \in 1 .. 2}
        BY <4>5
      <4> QED BY <1>1, <4>4, <4>6 DEF LastOfRow
    <3> QED BY <3>7, <3>8
  <2>4. Firsts(e) = Firsts(e + 2) \ {e, e + 1}
    BY DEF Firsts
  <2>5. Firsts(e) \ Skipped(h, n) = Firsts(e + 2) \ (Skipped(h, n) \cup {e, e + 1})
    BY <2>4
  <2> QED BY <1>1, <1>2, <2>1, <2>3, <2>5
<1> QED BY <1>3, <1>4, <1>5

LEMMA EndRowKeeps ==
  ASSUME AvInv, EndRow
  PROVE  AvInv'
<1>1. /\ avphase = "rows" /\ dy < avhunk.height /\ dx = avhunk.width \div 2
      /\ context' = [p \in Planes |-> IF p \in {"y", "cb", "cr"} THEN deltarle_flush(context[p])
                                                                  ELSE context[p]]
      /\ taken' = Nothing /\ made' = Nothing
      /\ before' = [p \in Planes |-> IF made[p] = <<>> THEN before[p] ELSE Last(made[p])]
      /\ dy' = dy + 1 /\ dx' = 0
      /\ UNCHANGED <<avhunk, avphase, chnum, sampnum, srcoffs, sample, written, writes, read, answer>>
  BY DEF EndRow, InRow, avmemory
<1>2. /\ avhunk \in AvHunks /\ dy \in 0 .. avhunk.height /\ avhunk.width \in Nat /\ avhunk.height \in Nat
      /\ before \in [Planes -> ByteOf] /\ RowAt = RowStart(avhunk, dy)
      /\ written = Firsts(RowAt + 4 * dx) \ Skipped(avhunk, dy)
      /\ \A p \in RowPlanes : p \in Planes /\ StreamIs(context[p], taken[p], made[p], before[p])
  BY <1>1, RowFacts
<1>3. \A p \in Planes : context[p] \in Decoder /\ made[p] \in Seq(ByteOf) /\ before[p] \in ByteOf
  BY <1>2, AvFacts
<1>4. ASSUME NEW p \in Planes PROVE context'[p] \in Decoder /\ before'[p] \in ByteOf
  <2>1. context[p] \in Decoder /\ made[p] \in Seq(ByteOf) /\ before[p] \in ByteOf
    BY <1>3
  <2>2. [context[p] EXCEPT !.rlecount = 0] \in Decoder
    BY <2>1, DecoderIs
  <2>3. context'[p] = [context[p] EXCEPT !.rlecount = 0] \/ context'[p] = context[p]
    BY <1>1 DEF deltarle_flush
  <2>4. made[p] # <<>> => Last(made[p]) \in ByteOf
    <3>1. PICK b : b = made[p]
      OBVIOUS
    <3>2. b \in Seq(ByteOf) /\ (b # <<>> => b[Len(b)] \in ByteOf)
      BY <2>1, <3>1
    <3> QED BY <3>1, <3>2 DEF Last
  <2> QED BY <1>1, <2>1, <2>2, <2>3, <2>4
<1>5. context' \in [Planes -> Decoder] /\ before' \in [Planes -> ByteOf]
  BY <1>1, <1>4
<1>6. AvTypeInv'
  BY <1>1, <1>5, NothingIs DEF AvInv, AvTypeInv
<1>7. IdleInv' /\ CountInv'
  BY <1>1 DEF AvInv, IdleInv, CountInv
<1>8. TreesInv' /\ AudioInv' /\ VideoInv' /\ EndInv'
  BY <1>1 DEF TreesInv, AudioInv, VideoInv, EndInv
<1>9. RowsInv'
  <2>1. ASSUME NEW p \in {"y", "cb", "cr"} PROVE StreamIs(context'[p], taken'[p], made'[p], before'[p])
    <3>1. p \in Planes /\ StreamIs(context[p], taken[p], made[p], before[p]) /\ context[p] \in Decoder
      BY <1>2, <1>3 DEF RowPlanes
    <3>2. context'[p] = [context[p] EXCEPT !.rlecount = 0]
      BY <1>1, <3>1 DEF deltarle_flush
    <3>3. context'[p].rlecount = 0 /\ context'[p].prev = context[p].prev
      BY <3>1, <3>2, DecoderIs
    <3>4. before'[p] = context[p].prev
      <4>1. context[p].prev = IF made[p] = <<>> THEN before[p] ELSE made[p][Len(made[p])]
        BY <3>1 DEF StreamIs
      <4>2. before'[p] = IF made[p] = <<>> THEN before[p] ELSE made[p][Len(made[p])]
        BY <1>1, <3>1 DEF Last
      <4> QED BY <4>1, <4>2
    <3>5. taken'[p] = <<>> /\ made'[p] = <<>>
      BY <1>1, <3>1 DEF Nothing
    <3>6. StreamIs(context'[p], <<>>, <<>>, before'[p])
      BY <3>3, <3>4, FreshStream
    <3> QED BY <3>5, <3>6
  <2>2. dy + 1 \in 0 .. avhunk.height /\ dy + 1 # 0
    BY <1>1, <1>2
  <2>3. 0 \in 0 .. avhunk.width \div 2
    <3>1. PICK w \in Nat : w = avhunk.width
      BY <1>2
    <3>2. w \div 2 \in Nat
      OBVIOUS
    <3> QED BY <3>1, <3>2
  <2>4. written' = Firsts(RowAt' + 4 * dx') \ Skipped(avhunk', dy')
    <3>1. RowStart(avhunk, dy + 1) \in Nat
      BY <1>2, <2>2, RowLayout
    <3>2. RowAt' = RowStart(avhunk, dy + 1)
      BY <1>1 DEF RowAt, RowStart, VideoStart, AudioStart
    <3>3. RowStart(avhunk, dy + 1) + 4 * 0 = RowStart(avhunk, dy + 1)
      BY <3>1
    <3>4. Firsts(RowStart(avhunk, dy) + 4 * (avhunk.width \div 2)) \ Skipped(avhunk, dy)
            = Firsts(RowStart(avhunk, dy + 1)) \ Skipped(avhunk, dy + 1)
      BY <1>1, <1>2, RowEnds
    <3> QED BY <1>1, <1>2, <3>2, <3>3, <3>4
  <2> QED BY <1>1, <1>5, <2>1, <2>2, <2>3, <2>4 DEF RowsInv
<1> QED BY <1>6, <1>7, <1>8, <1>9 DEF AvInv

LEMMA LeftOverIs == \A h : LeftOver(h) = Skipped(h, h.height)
BY DEF LeftOver, Skipped

LEMMA EndVideoKeeps ==
  ASSUME AvInv, EndVideo
  PROVE  AvInv'
<1>1. /\ avphase = "rows" /\ dy = avhunk.height /\ avphase' = "end"
      /\ UNCHANGED <<avhunk, chnum, sampnum, dy, dx, srcoffs, context, taken, made, sample, before,
                     written, writes, read, answer>>
  BY DEF EndVideo, place, streams, avmemory
<1>2. avhunk \in AvHunks /\ Verdict(avhunk) = "NONE" /\ answer = "none"
  BY <1>1, AvFacts
<1>3. AvTypeInv' /\ IdleInv' /\ CountInv'
  BY <1>1, <1>2 DEF AvInv, AvTypeInv, AvPhases, IdleInv, CountInv
<1>4. TreesInv' /\ AudioInv' /\ VideoInv' /\ RowsInv'
  BY <1>1 DEF TreesInv, AudioInv, VideoInv, RowsInv
<1>5. EndInv'
  <2>1. /\ dx = 0 /\ RowAt = RowStart(avhunk, dy)
        /\ written = Firsts(RowAt + 4 * dx) \ Skipped(avhunk, dy)
    BY <1>1, RowFacts
  <2>2. RowStart(avhunk, avhunk.height) = 12 + Payload(avhunk) /\ 12 + Payload(avhunk) \in Nat
    <3>1. avhunk.height \in 0 .. avhunk.height
      BY <1>2, AvHunksAre
    <3> QED BY <1>2, <3>1, RowLayout
  <2>3. 12 + Payload(avhunk) + 4 * 0 = 12 + Payload(avhunk)
    BY <2>2
  <2>4. PICK p : p = 12 + Payload(avhunk)
    OBVIOUS
  <2>5. p \in Nat /\ RowAt + 4 * dx = p
    <3>1. p + 4 * 0 = p
      BY <2>2, <2>4
    <3> QED BY <1>1, <2>1, <2>2, <2>4, <3>1
  <2>6. written = Firsts(p) \ LeftOver(avhunk)
    BY <1>1, <2>1, <2>5, LeftOverIs
  <2> QED BY <1>1, <2>4, <2>6 DEF EndInv
<1> QED BY <1>3, <1>4, <1>5 DEF AvInv

LEMMA PadAndAnswerKeeps ==
  ASSUME AvInv, PadAndAnswer
  PROVE  AvInv'
<1>1. /\ avphase = "end" /\ Wrote(12 + Payload(avhunk) .. avhunk.destlen - 1) /\ AvAnswer("NONE")
      /\ UNCHANGED <<avhunk, context, read>>
  BY DEF PadAndAnswer
<1>2. /\ avphase' = "idle" /\ answer' = "NONE"
      /\ taken' = Nothing /\ made' = Nothing /\ sample' = <<>> /\ before' = Zeros
  BY <1>1 DEF AvAnswer
<1>3. avhunk \in AvHunks /\ Verdict(avhunk) = "NONE"
  BY <1>1, AvFacts
<1>4. PICK p, d : p = 12 + Payload(avhunk) /\ d = avhunk.destlen
  OBVIOUS
<1>5. avhunk.height \in 0 .. avhunk.height
  BY <1>3, AvHunksAre
<1>6. p \in Nat /\ d \in Nat /\ p <= d
  BY <1>3, <1>4, <1>5, AvHunksAre, RowLayout, VerdictIs
<1>7. written = Firsts(p) \ LeftOver(avhunk) /\ writes = Cardinality(written)
  BY <1>1, <1>4, AvFacts DEF AvInv, EndInv
<1>8. PICK bytes : bytes = p .. d - 1 /\ Wrote(bytes)
  BY <1>1, <1>4
<1>9. /\ written' = written \cup bytes /\ written' \subseteq Firsts(d) /\ writes' = Cardinality(written')
  <2>1. written \subseteq Firsts(p) /\ bytes \subseteq p .. d - 1 /\ d <= d
    BY <1>6, <1>7, <1>8
  <2> QED BY <1>6, <1>7, <1>8, <2>1, SpanIsWritten
<1>10. written' = Firsts(d) \ LeftOver(avhunk)
  <2>1. \A i \in LeftOver(avhunk) : i \in Int /\ i < p
    BY <1>3, <1>4, <1>5, LeftOverIs, SkippedAreBefore, RowLayout
  <2>2. \A i \in LeftOver(avhunk) : i \notin bytes
    BY <1>6, <1>8, <2>1
  <2>3. Firsts(p) \cup bytes = Firsts(d)
    BY <1>6, <1>8, FirstsGrow
  <2> QED BY <1>7, <1>9, <2>2, <2>3
<1>11. CountInv'
  BY <1>1, <1>4, <1>9 DEF AvInv, CountInv
<1>12. AvTypeInv'
  BY <1>1, <1>2, <1>3, AvFacts, NothingIs DEF AvTypeInv, AvPhases
<1>13. TreesInv' /\ AudioInv' /\ VideoInv' /\ RowsInv' /\ EndInv'
  BY <1>2 DEF TreesInv, AudioInv, VideoInv, RowsInv, EndInv
<1>14. IdleInv'
  <2>1. NothingTaken'
    BY <1>2 DEF NothingTaken
  <2>2. HunkIsWritten'
    <3>1. LeftOver(avhunk') = LeftOver(avhunk)
      BY <1>1
    <3>2. written' = (0 .. avhunk'.destlen - 1) \ LeftOver(avhunk')
      BY <1>1, <1>4, <1>10, <3>1 DEF Firsts
    <3>3. LeftOver(avhunk)' = LeftOver(avhunk')
      BY DEF LeftOver, VideoStart, AudioStart
    <3> QED BY <3>2, <3>3 DEF HunkIsWritten
  <2> QED BY <1>2, <2>1, <2>2 DEF IdleInv
<1> QED BY <1>11, <1>12, <1>13, <1>14 DEF AvInv

LEMMA AvInvInit == AvHuffInit => AvInv
<1> SUFFICES ASSUME AvHuffInit PROVE AvInv
  OBVIOUS
<1>1. /\ avhunk = (CHOOSE h \in AvHunks : TRUE) /\ avphase = "idle" /\ context = [p \in Planes |-> Fresh]
      /\ taken = Nothing /\ made = Nothing /\ sample = <<>> /\ before = Zeros
      /\ written = {} /\ writes = 0 /\ read = 0 /\ answer = "none"
  BY DEF AvHuffInit
<1>2. avhunk \in AvHunks
  BY <1>1, AvHuffAssumption
<1>3. avhunk.complen \in Nat
  BY <1>2, AvHunksAre
<1>4. AvTypeInv
  BY <1>1, <1>2, FreshIs, NothingIs DEF AvTypeInv, AvPhases
<1>5. CountInv
  BY <1>1, <1>3, FS_EmptySet DEF CountInv
<1>6. IdleInv
  BY <1>1 DEF IdleInv, NothingTaken, HunkIsWritten
<1>7. TreesInv /\ AudioInv /\ VideoInv /\ RowsInv /\ EndInv
  BY <1>1 DEF TreesInv, AudioInv, VideoInv, RowsInv, EndInv
<1> QED BY <1>4, <1>5, <1>6, <1>7 DEF AvInv

LEMMA AvStutters ==
  ASSUME AvInv, UNCHANGED avhuffvars
  PROVE  AvInv'
<1>1. UNCHANGED <<avhunk, avphase, chnum, sampnum, dy, dx, srcoffs, context, taken, made, sample,
                  before, written, writes, read, answer>>
  BY DEF avhuffvars, place, streams, avmemory
<1>2. AvTypeInv' /\ CountInv'
  BY <1>1 DEF AvInv, AvTypeInv, CountInv
<1>3. NothingTaken' = NothingTaken /\ AudioStreams' = AudioStreams /\ RowAt' = RowAt
      /\ HunkIsWritten' = HunkIsWritten
  BY <1>1 DEF NothingTaken, AudioStreams, RowAt, HunkIsWritten
<1>4. TreesInv' /\ VideoInv' /\ EndInv' /\ IdleInv'
  BY <1>1, <1>3 DEF AvInv, TreesInv, VideoInv, EndInv, IdleInv
<1>5. AudioInv'
  BY <1>1, <1>3 DEF AvInv, AudioInv
<1>6. RowsInv'
  BY <1>1, <1>3 DEF AvInv, RowsInv
<1> QED BY <1>2, <1>4, <1>5, <1>6 DEF AvInv

(* The invariant holds whatever the headers say, however large a hunk is,   *)
(* and whatever codes its streams hold.                                     *)
THEOREM AvInvHolds == AvHuffSpec => []AvInv
<1>1. AvInv /\ [AvHuffNext]_avhuffvars => AvInv'
  <2> SUFFICES ASSUME AvInv, [AvHuffNext]_avhuffvars PROVE AvInv'
    OBVIOUS
  <2>1. CASE RefuseHunk
    BY <2>1, RefuseHunkKeeps
  <2>2. CASE StartHunk
    BY <2>2, StartHunkKeeps
  <2>3. CASE ImportAudioTrees
    BY <2>3, ImportAudioTreesKeeps
  <2>4. CASE AudioTreesAreBad
    BY <2>4, AudioTreesAreBadKeeps
  <2>5. CASE FlacChannel
    BY <2>5, FlacChannelKeeps
  <2>6. CASE FlacChannelIsBad
    BY <2>6, FlacChannelIsBadKeeps
  <2>7. CASE RawChannel
    BY <2>7, RawChannelKeeps
  <2>8. CASE RawChannelIsShort
    BY <2>8, RawChannelIsShortKeeps
  <2>9. CASE CodedSample
    BY <2>9, CodedSampleKeeps
  <2>10. CASE EndCodedChannel
    BY <2>10, EndCodedChannelKeeps
  <2>11. CASE CodedChannelOverflows
    BY <2>11, CodedChannelOverflowsKeeps
  <2>12. CASE NoMemory
    BY <2>12, NoMemoryKeeps
  <2>13. CASE AudioDone
    BY <2>13, AudioDoneKeeps
  <2>14. CASE NoVideo
    BY <2>14, NoVideoKeeps
  <2>15. CASE VideoIsBad
    BY <2>15, VideoIsBadKeeps
  <2>16. CASE ImportVideoTrees
    BY <2>16, ImportVideoTreesKeeps
  <2>17. CASE PixelPair
    BY <2>17, PixelPairKeeps
  <2>18. CASE EndRow
    BY <2>18, EndRowKeeps
  <2>19. CASE EndVideo
    BY <2>19, EndVideoKeeps
  <2>20. CASE VideoEndsElsewhere
    BY <2>20, VideoEndsElsewhereKeeps
  <2>21. CASE PadAndAnswer
    BY <2>21, PadAndAnswerKeeps
  <2>22. CASE UNCHANGED avhuffvars
    BY <2>22, AvStutters
  <2> QED BY <2>1, <2>2, <2>3, <2>4, <2>5, <2>6, <2>7, <2>8, <2>9, <2>10, <2>11, <2>12, <2>13,
             <2>14, <2>15, <2>16, <2>17, <2>18, <2>19, <2>20, <2>21, <2>22 DEF AvHuffNext
<1> QED BY <1>1, AvInvInit, PTL DEF AvHuffSpec

(* What the invariant says of the parts is what the runs check.             *)
LEMMA InvStaysInside == AvInv => AvHuffTypeOK /\ StaysInside /\ HunkIsWritten
<1> SUFFICES ASSUME AvInv PROVE AvHuffTypeOK /\ StaysInside /\ HunkIsWritten
  OBVIOUS
<1>1. AvHuffTypeOK
  <2>1. \A p \in Planes : context[p] \in Decoder /\ taken[p] \in Seq(Symbols) /\ made[p] \in Seq(ByteOf)
    BY AvFacts
  <2>2. \A p \in Planes : context[p].prev \in ByteOf /\ context[p].rlecount \in Nat
    BY <2>1, DecoderIs
  <2>3. answer \in {"none", "NONE", "INVALID_DATA", "DECOMPRESSION_ERROR", "OUT_OF_MEMORY"}
    BY DEF AvInv, AvTypeInv, AvErrors
  <2> QED BY <2>1, <2>2, <2>3, AvFacts DEF AvHuffTypeOK, AvPhases, ByteOf
<1>2. StaysInside
  <2>1. avphase = "video" => srcoffs < avhunk.complen
    BY DEF AvInv, VideoInv
  <2> QED BY <2>1, AvFacts DEF StaysInside, Firsts
<1>3. HunkIsWritten
  <2>1. CASE avphase = "idle"
    BY <2>1 DEF AvInv, IdleInv
  <2>2. CASE avphase # "idle"
    BY <2>2, AvFacts DEF HunkIsWritten
  <2> QED BY <2>1, <2>2
<1> QED BY <1>1, <1>2, <1>3

LEMMA InvFollowsRuns == AvInv => RowsAreTheirRuns /\ SamplesAreTheirDeltas
<1> SUFFICES ASSUME AvInv PROVE RowsAreTheirRuns /\ SamplesAreTheirDeltas
  OBVIOUS
<1>1. \A p \in Planes : context[p] \in Decoder /\ made[p] \in Seq(ByteOf)
  BY AvFacts
<1>2. ASSUME avphase = "rows", NEW p \in {"y", "cb", "cr"}
      PROVE  /\ made[p] = Expansion(taken[p], IF dy = 0 THEN 0 ELSE before[p], Len(made[p]))
             /\ JustEnough(taken[p], Len(made[p]))
  <2>1. p \in Planes /\ StreamIs(context[p], taken[p], made[p], before[p]) /\ (dy = 0 => before = Zeros)
    BY <1>2, RowFacts DEF RowPlanes
  <2>2. made[p] = Expansion(taken[p], before[p], Len(made[p])) /\ JustEnough(taken[p], Len(made[p]))
    BY <1>1, <2>1, StreamIsJustEnough
  <2>3. before[p] = IF dy = 0 THEN 0 ELSE before[p]
    BY <2>1 DEF Zeros
  <2> QED BY <2>2, <2>3
<1>3. RowsAreTheirRuns
  BY <1>2 DEF RowsAreTheirRuns
<1>4. ASSUME Coded
      PROVE  /\ \A p \in {"ahi", "alo"} : /\ made[p] = Expansion(taken[p], 0, sampnum)
                                          /\ JustEnough(taken[p], sampnum)
             /\ sample = DeltaSums(made["ahi"], made["alo"], sampnum)
  <2>1. InChannel /\ avphase = "audio" /\ "ahi" \in Planes /\ "alo" \in Planes
    BY <1>4 DEF Coded, InChannel, Planes
  <2>2. CASE sampnum = 0
    <3>1. \A p \in Planes : taken[p] = <<>> /\ made[p] = <<>>
      BY <2>1, <2>2, ChannelFacts DEF NothingTaken, Nothing
    <3>2. sample = <<>>
      BY <2>1, <2>2, ChannelFacts DEF NothingTaken
    <3>3. Len(<<>>) = 0 /\ <<>> \in Seq(ByteOf)
      OBVIOUS
    <3>4. StreamIs(Fresh, <<>>, <<>>, 0)
      BY FreshIs, FreshStream
    <3>5. <<>> = Expansion(<<>>, 0, 0) /\ JustEnough(<<>>, 0)
      <4>1. PICK e, z : e = <<>> /\ z = 0
        OBVIOUS
      <4>2. e \in Seq(ByteOf) /\ Len(e) = z /\ StreamIs(Fresh, e, e, z)
        BY <3>3, <3>4, <4>1
      <4>3. e = Expansion(e, z, Len(e)) /\ JustEnough(e, Len(e))
        BY <4>2, FreshIs, StreamIsJustEnough
      <4> QED BY <4>1, <4>2, <4>3
    <3> QED BY <2>1, <2>2, <3>1, <3>2, <3>5, NoSamples
  <2>3. CASE sampnum # 0
    <3>1. AudioStreams
      BY <2>1, <2>3 DEF AvInv, AudioInv
    <3>2. ASSUME NEW p \in {"ahi", "alo"}
          PROVE  made[p] = Expansion(taken[p], 0, sampnum) /\ JustEnough(taken[p], sampnum)
      <4>1. p \in Planes /\ StreamIs(context[p], taken[p], made[p], 0) /\ Len(made[p]) = sampnum
        BY <2>1, <3>1 DEF AudioStreams
      <4>2. made[p] = Expansion(taken[p], 0, Len(made[p])) /\ JustEnough(taken[p], Len(made[p]))
        BY <1>1, <4>1, StreamIsJustEnough
      <4> QED BY <4>1, <4>2
    <3> QED BY <3>1, <3>2 DEF AudioStreams
  <2> QED BY <2>2, <2>3
<1>5. SamplesAreTheirDeltas
  BY <1>4 DEF SamplesAreTheirDeltas
<1> QED BY <1>3, <1>5

(* avhuff_codec_decompress reads and writes inside the two hunks, writes    *)
(* every byte of the destination at most once and, when it succeeds, all of *)
(* them but the last pixels of the rows of an odd width, and every row and  *)
(* channel comes from its own codes: whatever the header and the codes say. *)
THEOREM AvHunksAreTheirStreams == AvHuffSpec => []HunkIsItsStreams
BY AvInvHolds, InvStaysInside, InvFollowsRuns, PTL DEF HunkIsItsStreams
================================================================================
