---------------------------- MODULE LowramMapProofs ----------------------------
(****************************************************************************)
(* A map entry decoded on demand is the entry of the whole map, for every   *)
(* map, every hunk count and every checkpoint stride, in whatever order the *)
(* hunks are asked for.  Most of the proof is about MapV5: the two passes   *)
(* are recursive functions over the hunks, and what holds of them is proved *)
(* from the least hunk of which it does not.                                *)
(****************************************************************************)
EXTENDS LowramMap, FiniteSetTheorems, SequenceTheorems, TLAPS

-----------------------------------------------------------------------------
(* Induction.  A nonempty set of naturals has a least element: the initial  *)
(* segments below its elements are finite sets, and strict inclusion is     *)
(* well-founded on those.                                                   *)
LEMMA LeastOf ==
  ASSUME NEW T \in SUBSET Nat, T # {}
  PROVE  \E n \in T : \A m \in T : n <= m
<1> DEFINE U == {0 .. (n - 1) : n \in T}
<1>1. U \subseteq FiniteSubsetsOf(Nat) /\ U # {}
  <2>1. \A n \in T : IsFiniteSet(0 .. (n - 1)) /\ 0 .. (n - 1) \subseteq Nat
    BY FS_Interval
  <2> QED BY <2>1, Zenon DEF FiniteSubsetsOf
<1>2. PICK x \in U : \A y \in U : <<y, x>> \notin StrictSubsetOrdering(Nat)
  <2> HIDE DEF U
  <2> QED BY <1>1, FS_StrictSubsetOrderingWellFounded, WFMin, Zenon
<1>3. PICK n \in T : x = 0 .. (n - 1)
  OBVIOUS
<1>4. ASSUME NEW m \in T, m < n PROVE FALSE
  <2> DEFINE y == 0 .. (m - 1)
  <2>1. y \in U
    OBVIOUS
  <2>2. y \subseteq x /\ y # x
    BY <1>3, <1>4
  <2>3. <<y, x>> \in StrictSubsetOrdering(Nat)
    BY <2>2, <1>3 DEF StrictSubsetOrdering
  <2> QED BY <2>1, <2>3, <1>2
<1> QED BY <1>4

(* What is given by a first value and by a step exists.                     *)
StepFunctions(n, S) == [(1 .. n) \X S -> S]
Runs(n, S, c, F, f) ==
  f \in [0 .. n -> S] /\ f[0] = c /\ \A i \in 1 .. n : f[i] = F[<<i, f[i - 1]>>]

LEMMA Recursion ==
  ASSUME NEW n \in Nat, NEW S, NEW c \in S, NEW F \in StepFunctions(n, S)
  PROVE  \E f : Runs(n, S, c, F, f)
<1> USE DEF StepFunctions
<1> DEFINE Upto(k, f) == f \in [0 .. k -> S] /\ f[0] = c /\ \A i \in 1 .. k : f[i] = F[<<i, f[i - 1]>>]
           T == {k \in 0 .. n : \A f : ~ Upto(k, f)}
<1>1. ASSUME NEW k \in T, \A m \in T : k <= m PROVE FALSE
  <2>1. k \in 0 .. n /\ \A f : ~ Upto(k, f)
    OBVIOUS
  <2>2. Upto(0, [i \in 0 .. 0 |-> c])
    OBVIOUS
  <2>3. k - 1 \in 0 .. n /\ k - 1 \notin T
    <3>1. k # 0
      BY <2>1, <2>2
    <3> HIDE DEF T
    <3> QED BY <1>1, <2>1, <3>1
  <2>4. PICK f : Upto(k - 1, f)
    BY <2>3
  <2> DEFINE g == [i \in 0 .. k |-> IF i < k THEN f[i] ELSE F[<<k, f[k - 1]>>]]
  <2>5. Upto(k, g)
    <3>1. f[k - 1] \in S /\ <<k, f[k - 1]>> \in (1 .. n) \X S
      BY <2>1, <2>3, <2>4
    <3>2. g \in [0 .. k -> S] /\ g[0] = c
      BY <2>1, <2>3, <2>4, <3>1
    <3>3. ASSUME NEW i \in 1 .. k PROVE g[i] = F[<<i, g[i - 1]>>]
      <4>1. CASE i = k
        <5>1. g[k] = F[<<k, f[k - 1]>>] /\ g[k - 1] = f[k - 1]
          BY <2>1, <2>3
        <5> QED BY <4>1, <5>1
      <4>2. CASE i # k
        <5>1. i \in 1 .. k - 1 /\ g[i] = f[i] /\ g[i - 1] = f[i - 1]
          BY <4>2, <2>1, <2>3
        <5> QED BY <5>1, <2>4
      <4> QED BY <4>1, <4>2
    <3> QED BY <3>2, <3>3
  <2> QED BY <2>1, <2>5
<1>2. T = {}
  <2>1. T \subseteq Nat
    OBVIOUS
  <2> HIDE DEF T
  <2> QED BY <1>1, <2>1, LeastOf
<1>3. \E f : Upto(n, f)
  <2>1. n \notin T
    BY <1>2
  <2> HIDE DEF Upto
  <2> QED BY <2>1
<1> QED BY <1>3 DEF Runs

-----------------------------------------------------------------------------
(* The states of the two passes. *)
PState == [lastcomp : 0 .. 15, repcount : Nat, at : Nat \ {0}]
QState == [curoffset : Nat, last_self : Nat, last_parent : Nat, at : Nat \ {0}]

(* What is taken is a member of the sequence or zero.                       *)
LEMMA TakenType ==
  ASSUME NEW B, 0 \in B, NEW seq \in Seq(B),
         NEW end \in Int, end <= Len(seq), NEW at \in Nat \ {0}
  PROVE  Taken(seq, end, at) \in B
<1>1. CASE at <= end
  <2>1. at \in 1 .. Len(seq) /\ Len(seq) \in Nat
    BY <1>1
  <2>2. seq[at] \in B
    BY <2>1
  <2> QED BY <1>1, <2>2 DEF Taken
<1>2. CASE ~(at <= end)
  BY <1>2 DEF Taken
<1> QED BY <1>1, <1>2

(* A window that ends at `last`, or with the sequence, gives what the whole *)
(* sequence gives up to there.                                              *)
LEMMA TakenAgrees ==
  ASSUME NEW B, NEW seq \in Seq(B), NEW last \in Int,
         NEW at \in Nat \ {0}, at <= last
  PROVE  Taken(seq, Clipped(last, seq), at) = Taken(seq, Len(seq), at)
<1>1. Len(seq) \in Nat
  OBVIOUS
<1> QED BY <1>1 DEF Taken, Clipped

LEMMA ClippedBounds ==
  ASSUME NEW B, NEW seq \in Seq(B), NEW last \in Int
  PROVE  Clipped(last, seq) \in Int /\ Clipped(last, seq) <= Len(seq)
<1>1. Len(seq) \in Nat
  OBVIOUS
<1> QED BY <1>1 DEF Clipped

(* The states written out, and what changing two fields of one leaves.      *)
P(lastcomp, repcount, at) == [lastcomp |-> lastcomp, repcount |-> repcount, at |-> at]
Q(curoffset, last_self, last_parent, at) ==
  [curoffset |-> curoffset, last_self |-> last_self, last_parent |-> last_parent, at |-> at]

RepsOf(p, x, y) == [p EXCEPT !.repcount = x, !.at = y]
CompOf(p, x, y) == [p EXCEPT !.lastcomp = x, !.at = y]
OffsOf(q, x, y) == [q EXCEPT !.curoffset = x, !.at = y]
SelfOf(q, x, y) == [q EXCEPT !.last_self = x, !.at = y]
ParentOf(q, x, y) == [q EXCEPT !.last_parent = x, !.at = y]

LEMMA RepsOfP ==
  ASSUME NEW p \in PState, NEW x, NEW y
  PROVE  RepsOf(p, x, y) = P(p.lastcomp, x, y)
<1>1. RepsOf(p, x, y) = [[p EXCEPT !.repcount = x] EXCEPT !.at = y]
  BY DEF RepsOf, PState
<1>2. [p EXCEPT !.repcount = x] = P(p.lastcomp, x, p.at)
  BY DEF PState, P
<1>3. [P(p.lastcomp, x, p.at) EXCEPT !.at = y] = P(p.lastcomp, x, y)
  BY DEF P
<1> QED BY <1>1, <1>2, <1>3, Zenon

LEMMA CompOfP ==
  ASSUME NEW p \in PState, NEW x, NEW y
  PROVE  CompOf(p, x, y) = P(x, p.repcount, y)
<1>1. CompOf(p, x, y) = [[p EXCEPT !.lastcomp = x] EXCEPT !.at = y]
  BY DEF CompOf, PState
<1>2. [p EXCEPT !.lastcomp = x] = P(x, p.repcount, p.at)
  BY DEF PState, P
<1>3. [P(x, p.repcount, p.at) EXCEPT !.at = y] = P(x, p.repcount, y)
  BY DEF P
<1> QED BY <1>1, <1>2, <1>3, Zenon

LEMMA OffsOfQ ==
  ASSUME NEW q \in QState, NEW x, NEW y
  PROVE  OffsOf(q, x, y) = Q(x, q.last_self, q.last_parent, y)
<1>1. OffsOf(q, x, y) = [[q EXCEPT !.curoffset = x] EXCEPT !.at = y]
  BY DEF OffsOf, QState
<1>2. [q EXCEPT !.curoffset = x] = Q(x, q.last_self, q.last_parent, q.at)
  BY DEF QState, Q
<1>3. [Q(x, q.last_self, q.last_parent, q.at) EXCEPT !.at = y] = Q(x, q.last_self, q.last_parent, y)
  BY DEF Q
<1> QED BY <1>1, <1>2, <1>3, Zenon

LEMMA SelfOfQ ==
  ASSUME NEW q \in QState, NEW x, NEW y
  PROVE  SelfOf(q, x, y) = Q(q.curoffset, x, q.last_parent, y)
<1>1. SelfOf(q, x, y) = [[q EXCEPT !.last_self = x] EXCEPT !.at = y]
  BY DEF SelfOf, QState
<1>2. [q EXCEPT !.last_self = x] = Q(q.curoffset, x, q.last_parent, q.at)
  BY DEF QState, Q
<1>3. [Q(q.curoffset, x, q.last_parent, q.at) EXCEPT !.at = y] = Q(q.curoffset, x, q.last_parent, y)
  BY DEF Q
<1> QED BY <1>1, <1>2, <1>3, Zenon

LEMMA ParentOfQ ==
  ASSUME NEW q \in QState, NEW x, NEW y
  PROVE  ParentOf(q, x, y) = Q(q.curoffset, q.last_self, x, y)
<1>1. ParentOf(q, x, y) = [[q EXCEPT !.last_parent = x] EXCEPT !.at = y]
  BY DEF ParentOf, QState
<1>2. [q EXCEPT !.last_parent = x] = Q(q.curoffset, q.last_self, x, q.at)
  BY DEF QState, Q
<1>3. [Q(q.curoffset, q.last_self, x, q.at) EXCEPT !.at = y] = Q(q.curoffset, q.last_self, x, y)
  BY DEF Q
<1> QED BY <1>1, <1>2, <1>3, Zenon

(* What the pass of the types does, a lemma for each way it goes on.        *)
LEMMA NextTypeRepeats ==
  ASSUME NEW codes, NEW end, NEW p \in PState, p.repcount # 0
  PROVE  NextType(codes, end, p) = P(p.lastcomp, p.repcount - 1, p.at)
<1>1. NextType(codes, end, p) = [p EXCEPT !.repcount = p.repcount - 1]
  BY DEF NextType, PState, RLE_SMALL, RLE_LARGE
<1> QED BY <1>1 DEF PState, P

LEMMA NextTypeRleSmall ==
  ASSUME NEW codes, NEW end, NEW p \in PState, p.repcount = 0,
         Taken(codes, end, p.at) = RLE_SMALL
  PROVE  NextType(codes, end, p) =
           P(p.lastcomp, 2 + Taken(codes, end, p.at + 1), p.at + 2)
<1> DEFINE x == 2 + Taken(codes, end, p.at + 1)
           y == p.at + 2
<1>1. NextType(codes, end, p) = RepsOf(p, x, y)
  BY DEF RepsOf, NextType, PState, RLE_SMALL, RLE_LARGE
<1> HIDE DEF x, y
<1>2. NextType(codes, end, p) = P(p.lastcomp, x, y)
  BY <1>1, RepsOfP
<1> QED BY <1>2 DEF x, y

LEMMA NextTypeRleLarge ==
  ASSUME NEW codes, NEW end, NEW p \in PState, p.repcount = 0,
         Taken(codes, end, p.at) = RLE_LARGE
  PROVE  NextType(codes, end, p) =
           P(p.lastcomp, RepeatsLarge(codes, end, p.at + 1), p.at + 3)
<1> DEFINE x == RepeatsLarge(codes, end, p.at + 1)
           y == p.at + 3
<1>1. NextType(codes, end, p) = RepsOf(p, x, y)
  BY DEF RepsOf, NextType, PState, RLE_SMALL, RLE_LARGE
<1> HIDE DEF x, y
<1>2. NextType(codes, end, p) = P(p.lastcomp, x, y)
  BY <1>1, RepsOfP
<1> QED BY <1>2 DEF x, y

LEMMA NextTypePlain ==
  ASSUME NEW codes, NEW end, NEW p \in PState, p.repcount = 0,
         Taken(codes, end, p.at) # RLE_SMALL, Taken(codes, end, p.at) # RLE_LARGE
  PROVE  NextType(codes, end, p) = P(Taken(codes, end, p.at), p.repcount, p.at + 1)
<1> DEFINE x == Taken(codes, end, p.at)
           y == p.at + 1
<1>1. NextType(codes, end, p) = CompOf(p, x, y)
  BY DEF CompOf, NextType, PState
<1> HIDE DEF x, y
<1>2. NextType(codes, end, p) = P(x, p.repcount, y)
  BY <1>1, CompOfP
<1> QED BY <1>2 DEF x, y

LEMMA RepeatsLargeType ==
  ASSUME NEW codes, NEW end, NEW at,
         Taken(codes, end, at) \in 0 .. 15, Taken(codes, end, at + 1) \in 0 .. 15
  PROVE  RepeatsLarge(codes, end, at) \in Nat
BY DEF RepeatsLarge

(* Pass 1 stays in its states and does not go back.                         *)
LEMMA NextTypeType ==
  ASSUME NEW codes \in Seq(0 .. 15), NEW end \in Int, end <= Len(codes), NEW p \in PState
  PROVE  /\ NextType(codes, end, p) \in PState
         /\ NextType(codes, end, p).at >= p.at
<1>1. /\ p.lastcomp \in 0 .. 15 /\ p.repcount \in Nat /\ p.at \in Nat \ {0}
      /\ p.at + 1 \in Nat \ {0} /\ p.at + 2 \in Nat \ {0} /\ p.at + 3 \in Nat \ {0}
      /\ p.at + 1 >= p.at /\ p.at + 2 >= p.at /\ p.at + 3 >= p.at
  BY DEF PState
<1>2. /\ Taken(codes, end, p.at) \in 0 .. 15
      /\ Taken(codes, end, p.at + 1) \in 0 .. 15
      /\ Taken(codes, end, (p.at + 1) + 1) \in 0 .. 15
  <2> HIDE DEF PState
  <2>1. (p.at + 1) + 1 = p.at + 2 /\ 0 \in 0 .. 15
    BY <1>1
  <2> QED BY <1>1, <2>1, TakenType
<1>3. RepeatsLarge(codes, end, p.at + 1) \in Nat
  BY <1>2, RepeatsLargeType
<1>4. 2 + Taken(codes, end, p.at + 1) \in Nat
  BY <1>2
<1>5. ASSUME NEW x, NEW l \in 0 .. 15, NEW r \in Nat, NEW a \in Nat \ {0}, a >= p.at,
             x = P(l, r, a)
      PROVE  x \in PState /\ x.at >= p.at
  BY <1>5 DEF P, PState
<1> DEFINE next == NextType(codes, end, p)
<1> SUFFICES next \in PState /\ next.at >= p.at
  OBVIOUS
<1> HIDE DEF next, PState
<1>6. CASE p.repcount # 0
  <2>1. p.repcount - 1 \in Nat /\ p.at >= p.at
    BY <1>1, <1>6
  <2>2. next = P(p.lastcomp, p.repcount - 1, p.at)
    BY <1>6, NextTypeRepeats DEF next
  <2> QED BY ONLY <2>1, <2>2, <1>1, <1>5
<1>7. CASE p.repcount = 0 /\ Taken(codes, end, p.at) = RLE_SMALL
  <2>1. next = P(p.lastcomp, 2 + Taken(codes, end, p.at + 1), p.at + 2)
    BY <1>7, NextTypeRleSmall DEF next
  <2> QED BY ONLY <2>1, <1>1, <1>4, <1>5
<1>8. CASE p.repcount = 0 /\ Taken(codes, end, p.at) = RLE_LARGE
  <2>1. next = P(p.lastcomp, RepeatsLarge(codes, end, p.at + 1), p.at + 3)
    BY <1>8, NextTypeRleLarge DEF next
  <2> QED BY ONLY <2>1, <1>1, <1>3, <1>5
<1>9. CASE p.repcount = 0 /\ Taken(codes, end, p.at) # RLE_SMALL /\ Taken(codes, end, p.at) # RLE_LARGE
  <2>1. next = P(Taken(codes, end, p.at), p.repcount, p.at + 1)
    BY <1>9, NextTypePlain DEF next
  <2> QED BY ONLY <2>1, <1>1, <1>2, <1>5
<1> QED BY <1>6, <1>7, <1>8, <1>9

(* ... and takes the same step in a window that has the codes of the step.  *)
LEMMA NextTypeAgrees ==
  ASSUME NEW codes \in Seq(0 .. 15), NEW last \in Int, NEW p \in PState,
         NextType(codes, Len(codes), p).at <= last + 1
  PROVE  NextType(codes, Clipped(last, codes), p) = NextType(codes, Len(codes), p)
<1> DEFINE end == Clipped(last, codes)
           val == Taken(codes, Len(codes), p.at)
<1>1. /\ p.lastcomp \in 0 .. 15 /\ p.repcount \in Nat /\ p.at \in Nat \ {0}
      /\ p.at + 1 \in Nat \ {0} /\ p.at + 2 \in Nat \ {0}
  BY DEF PState
<1>2. ASSUME NEW k \in Nat \ {0}, k <= last
      PROVE  Taken(codes, end, k) = Taken(codes, Len(codes), k)
  BY <1>2, TakenAgrees
<1> HIDE DEF end
<1>3. CASE p.repcount # 0
  BY <1>3, NextTypeRepeats
<1>4. CASE p.repcount = 0 /\ val = RLE_SMALL
  <2>1. NextType(codes, Len(codes), p).at = p.at + 2
    BY <1>4, NextTypeRleSmall DEF P
  <2>2. p.at <= last /\ p.at + 1 <= last
    BY <1>1, <2>1
  <2>3. /\ Taken(codes, end, p.at) = val
        /\ Taken(codes, end, p.at + 1) = Taken(codes, Len(codes), p.at + 1)
    BY <1>1, <2>2, <1>2
  <2> QED BY <1>4, <2>3, NextTypeRleSmall DEF end
<1>5. CASE p.repcount = 0 /\ val = RLE_LARGE
  <2>1. NextType(codes, Len(codes), p).at = p.at + 3
    BY <1>5, NextTypeRleLarge DEF P
  <2>2. p.at <= last /\ p.at + 1 <= last /\ p.at + 2 <= last /\ (p.at + 1) + 1 = p.at + 2
    BY <1>1, <2>1
  <2>3. /\ Taken(codes, end, p.at) = val
        /\ Taken(codes, end, p.at + 1) = Taken(codes, Len(codes), p.at + 1)
        /\ Taken(codes, end, (p.at + 1) + 1) = Taken(codes, Len(codes), (p.at + 1) + 1)
    BY <1>1, <2>2, <1>2
  <2>4. RepeatsLarge(codes, end, p.at + 1) = RepeatsLarge(codes, Len(codes), p.at + 1)
    BY <2>3 DEF RepeatsLarge
  <2> QED BY <1>5, <2>3, <2>4, NextTypeRleLarge DEF end
<1>6. CASE p.repcount = 0 /\ val \notin {RLE_SMALL, RLE_LARGE}
  <2>1. NextType(codes, Len(codes), p).at = p.at + 1
    BY <1>6, NextTypePlain DEF P
  <2>2. p.at <= last
    BY <1>1, <2>1
  <2>3. Taken(codes, end, p.at) = val
    BY <1>1, <2>2, <1>2
  <2> QED BY <1>6, <2>3, NextTypePlain DEF end
<1> QED BY <1>3, <1>4, <1>5, <1>6

-----------------------------------------------------------------------------
(* What the pass of the fields does, by the type of the hunk.               *)
TypeNumbers == 0 .. 15

LEMMA NextFieldsOffset ==
  ASSUME NEW fields, NEW end, NEW q \in QState, NEW type \in TypeNumbers, NEW h
  PROVE  /\ type \in STORED =>
              NextFields(fields, end, q, type, h) =
                OffsOf(q, q.curoffset + Taken(fields, end, q.at), q.at + 1)
         /\ type = NONE =>
              NextFields(fields, end, q, type, h) =
                OffsOf(q, q.curoffset + HunkBytes, q.at + 1)
BY DEF NextFields, OffsOf, TypeNumbers, STORED, NONE, SELF, PARENT, SELF_1, PARENT_SELF, PARENT_1

LEMMA NextFieldsField ==
  ASSUME NEW fields, NEW end, NEW q \in QState, NEW type \in TypeNumbers, NEW h
  PROVE  /\ type = SELF =>
              NextFields(fields, end, q, type, h) =
                SelfOf(q, Taken(fields, end, q.at), q.at + 1)
         /\ type = PARENT =>
              NextFields(fields, end, q, type, h) =
                ParentOf(q, Taken(fields, end, q.at), q.at + 1)
BY DEF NextFields, SelfOf, ParentOf, TypeNumbers, STORED, NONE, SELF, PARENT, SELF_1, PARENT_SELF, PARENT_1

LEMMA NextFieldsNone ==
  ASSUME NEW fields, NEW end, NEW q \in QState, NEW type \in TypeNumbers, NEW h
  PROVE  /\ type = SELF_1 =>
              NextFields(fields, end, q, type, h) =
                Q(q.curoffset, q.last_self + 1, q.last_parent, q.at)
         /\ type = PARENT_SELF =>
              NextFields(fields, end, q, type, h) =
                Q(q.curoffset, q.last_self, (h * HunkBytes) \div UnitBytes, q.at)
         /\ type = PARENT_1 =>
              NextFields(fields, end, q, type, h) =
                Q(q.curoffset, q.last_self, q.last_parent + HunkBytes \div UnitBytes, q.at)
<1>2. ASSUME type = SELF_1
      PROVE  NextFields(fields, end, q, type, h) =
               Q(q.curoffset, q.last_self + 1, q.last_parent, q.at)
  <2> DEFINE x == q.last_self + 1
  <2>1. NextFields(fields, end, q, type, h) = [q EXCEPT !.last_self = x]
    BY <1>2 DEF NextFields, TypeNumbers, STORED, NONE, SELF, PARENT, SELF_1, PARENT_SELF, PARENT_1
  <2> HIDE DEF x
  <2>2. [q EXCEPT !.last_self = x] = Q(q.curoffset, x, q.last_parent, q.at)
    BY DEF Q, QState
  <2> QED BY <2>1, <2>2 DEF x
<1>3. ASSUME type = PARENT_SELF
      PROVE  NextFields(fields, end, q, type, h) =
               Q(q.curoffset, q.last_self, (h * HunkBytes) \div UnitBytes, q.at)
  <2> DEFINE x == (h * HunkBytes) \div UnitBytes
  <2>1. NextFields(fields, end, q, type, h) = [q EXCEPT !.last_parent = x]
    BY <1>3 DEF NextFields, TypeNumbers, STORED, NONE, SELF, PARENT, SELF_1, PARENT_SELF, PARENT_1
  <2> HIDE DEF x
  <2>2. [q EXCEPT !.last_parent = x] = Q(q.curoffset, q.last_self, x, q.at)
    BY DEF Q, QState
  <2> QED BY <2>1, <2>2 DEF x
<1>4. ASSUME type = PARENT_1
      PROVE  NextFields(fields, end, q, type, h) =
               Q(q.curoffset, q.last_self, q.last_parent + HunkBytes \div UnitBytes, q.at)
  <2> DEFINE x == q.last_parent + HunkBytes \div UnitBytes
  <2>1. NextFields(fields, end, q, type, h) = [q EXCEPT !.last_parent = x]
    BY <1>4 DEF NextFields, TypeNumbers, STORED, NONE, SELF, PARENT, SELF_1, PARENT_SELF, PARENT_1
  <2> HIDE DEF x
  <2>2. [q EXCEPT !.last_parent = x] = Q(q.curoffset, q.last_self, x, q.at)
    BY DEF Q, QState
  <2> QED BY <2>1, <2>2 DEF x
<1> QED BY <1>2, <1>3, <1>4

LEMMA NextFieldsKept ==
  ASSUME NEW fields, NEW end, NEW q \in QState, NEW type \in TypeNumbers, NEW h,
         type \notin 0 .. 6, type \notin {SELF_1, PARENT_SELF, PARENT_1}
  PROVE  NextFields(fields, end, q, type, h) = q
BY DEF NextFields, TypeNumbers, STORED, NONE, SELF, PARENT, SELF_1, PARENT_SELF, PARENT_1

LEMMA Quotients ==
  ASSUME NEW x \in Nat, NEW y \in Nat \ {0}
  PROVE  x \div y \in Nat
OBVIOUS

(* Pass 2 stays in its states and takes one field or none.                  *)
LEMMA NextFieldsType ==
  ASSUME NEW fields \in Seq(Nat), NEW end \in Int, end <= Len(fields), NEW q \in QState,
         NEW type \in TypeNumbers, NEW h \in Nat
  PROVE  /\ NextFields(fields, end, q, type, h) \in QState
         /\ NextFields(fields, end, q, type, h).at =
              IF type \in 0 .. 6 THEN q.at + 1 ELSE q.at
<1>1. /\ q.curoffset \in Nat /\ q.last_self \in Nat /\ q.last_parent \in Nat
      /\ q.at \in Nat \ {0} /\ q.at + 1 \in Nat \ {0} /\ q.last_self + 1 \in Nat
  BY DEF QState
<1>2. Taken(fields, end, q.at) \in Nat
  BY <1>1, TakenType
<1>3. /\ (h * HunkBytes) \div UnitBytes \in Nat
      /\ q.last_parent + HunkBytes \div UnitBytes \in Nat
      /\ q.curoffset + HunkBytes \in Nat
  <2>1. h * HunkBytes \in Nat /\ HunkBytes \in Nat /\ UnitBytes \in Nat \ {0}
    BY MapAssumption
  <2>2. (h * HunkBytes) \div UnitBytes \in Nat /\ HunkBytes \div UnitBytes \in Nat
    BY <2>1, Quotients
  <2> QED BY <2>1, <2>2, <1>1
<1>4. q.curoffset + Taken(fields, end, q.at) \in Nat
  BY <1>1, <1>2
<1> DEFINE next == NextFields(fields, end, q, type, h)
<1>6. CASE type \in STORED
  <2>1. next = Q(q.curoffset + Taken(fields, end, q.at), q.last_self, q.last_parent, q.at + 1)
    BY <1>6, NextFieldsOffset, OffsOfQ
  <2> HIDE DEF next, QState
  <2>2. next \in QState /\ next.at = q.at + 1
    BY ONLY <2>1, <1>1, <1>4 DEF Q, QState
  <2> QED BY <2>2, <1>6 DEF next, STORED
<1>7. CASE type = NONE
  <2>1. next = Q(q.curoffset + HunkBytes, q.last_self, q.last_parent, q.at + 1)
    BY <1>7, NextFieldsOffset, OffsOfQ
  <2> HIDE DEF next, QState
  <2>2. next \in QState /\ next.at = q.at + 1
    BY ONLY <2>1, <1>1, <1>3 DEF Q, QState
  <2> QED BY <2>2, <1>7 DEF next, NONE
<1>8. CASE type = SELF
  <2>1. next = Q(q.curoffset, Taken(fields, end, q.at), q.last_parent, q.at + 1)
    BY <1>8, NextFieldsField, SelfOfQ
  <2> HIDE DEF next, QState
  <2>2. next \in QState /\ next.at = q.at + 1
    BY ONLY <2>1, <1>1, <1>2 DEF Q, QState
  <2> QED BY <2>2, <1>8 DEF next, SELF
<1>9. CASE type = PARENT
  <2>1. next = Q(q.curoffset, q.last_self, Taken(fields, end, q.at), q.at + 1)
    BY <1>9, NextFieldsField, ParentOfQ
  <2> HIDE DEF next, QState
  <2>2. next \in QState /\ next.at = q.at + 1
    BY ONLY <2>1, <1>1, <1>2 DEF Q, QState
  <2> QED BY <2>2, <1>9 DEF next, PARENT
<1>10. CASE type = SELF_1
  <2>1. next = Q(q.curoffset, q.last_self + 1, q.last_parent, q.at)
    BY <1>10, NextFieldsNone
  <2> HIDE DEF next, QState
  <2>2. next \in QState /\ next.at = q.at
    BY ONLY <2>1, <1>1 DEF Q, QState
  <2> QED BY <2>2, <1>10 DEF next, SELF_1
<1>11. CASE type = PARENT_SELF
  <2> DEFINE at_hunk == (h * HunkBytes) \div UnitBytes
  <2>1. next = Q(q.curoffset, q.last_self, at_hunk, q.at)
    BY <1>11, NextFieldsNone
  <2> HIDE DEF next, QState, at_hunk
  <2>2. at_hunk \in Nat
    BY <1>3 DEF at_hunk
  <2>3. next \in QState /\ next.at = q.at
    BY ONLY <2>1, <2>2, <1>1 DEF Q, QState
  <2> QED BY <2>3, <1>11 DEF next, PARENT_SELF
<1>12. CASE type = PARENT_1
  <2> DEFINE after == q.last_parent + HunkBytes \div UnitBytes
  <2>1. next = Q(q.curoffset, q.last_self, after, q.at)
    BY <1>12, NextFieldsNone
  <2> HIDE DEF next, QState, after
  <2>2. after \in Nat
    BY <1>3 DEF after
  <2>3. next \in QState /\ next.at = q.at
    BY ONLY <2>1, <2>2, <1>1 DEF Q, QState
  <2> QED BY <2>3, <1>12 DEF next, PARENT_1
<1>13. CASE type \notin 0 .. 6 /\ type \notin {SELF_1, PARENT_SELF, PARENT_1}
  BY <1>13, NextFieldsKept
<1>14. type \in 0 .. 6 => type \in STORED \cup {NONE, SELF, PARENT}
  BY DEF STORED, NONE, SELF, PARENT
<1> QED BY <1>6, <1>7, <1>8, <1>9, <1>10, <1>11, <1>12, <1>13, <1>14

(* ... and takes the same step in a window that has the field of the step.  *)
LEMMA NextFieldsAgrees ==
  ASSUME NEW fields \in Seq(Nat), NEW end \in Int, NEW q \in QState,
         NEW type \in TypeNumbers, NEW h \in Nat,
         type \in 0 .. 6 => Taken(fields, end, q.at) = Taken(fields, Len(fields), q.at)
  PROVE  NextFields(fields, end, q, type, h) = NextFields(fields, Len(fields), q, type, h)
<1>1. CASE type \in STORED \cup {NONE}
  <2>1. Taken(fields, end, q.at) = Taken(fields, Len(fields), q.at)
    BY <1>1 DEF STORED, NONE
  <2> QED BY <2>1, <1>1, NextFieldsOffset
<1>2. CASE type \in {SELF, PARENT}
  <2>1. Taken(fields, end, q.at) = Taken(fields, Len(fields), q.at)
    BY <1>2 DEF SELF, PARENT
  <2> QED BY <2>1, <1>2, NextFieldsField
<1>3. CASE type \in {SELF_1, PARENT_SELF, PARENT_1}
  <2>1. CASE type = SELF_1
    BY <2>1, NextFieldsNone
  <2>2. CASE type = PARENT_SELF
    BY <2>2, NextFieldsNone
  <2>3. CASE type = PARENT_1
    BY <2>3, NextFieldsNone
  <2> QED BY <2>1, <2>2, <2>3, <1>3
<1>4. CASE type \notin STORED \cup {NONE, SELF, PARENT} /\ type \notin {SELF_1, PARENT_SELF, PARENT_1}
  <2>1. type \notin 0 .. 6
    BY <1>4 DEF STORED, NONE, SELF, PARENT
  <2> QED BY <2>1, <1>4, NextFieldsKept
<1> QED BY <1>1, <1>2, <1>3, <1>4

-----------------------------------------------------------------------------
(* The two passes over the whole map are what their recursions say.         *)
TypesAre(codes, types) ==
  /\ types \in [0 .. HunkCount -> PState]
  /\ types[0] = TypesAtStart
  /\ \A h \in 1 .. HunkCount : types[h] = NextType(codes, Len(codes), types[h - 1])

FieldsAre(fields, types, states) ==
  /\ states \in [0 .. HunkCount -> QState]
  /\ states[0] = FieldsAtStart
  /\ \A h \in 1 .. HunkCount :
       states[h] = NextFields(fields, Len(fields), states[h - 1], types[h].lastcomp, h - 1)

LEMMA TypesRecursion ==
  ASSUME NEW codes \in Seq(0 .. 15)
  PROVE  TypesAre(codes, TypesBefore(codes))
<1> DEFINE F == [x \in (1 .. HunkCount) \X PState |-> NextType(codes, Len(codes), x[2])]
           IsIt(g) == g = [h \in 0 .. HunkCount |->
                             IF h = 0 THEN TypesAtStart
                                      ELSE NextType(codes, Len(codes), g[h - 1])]
<1>1. HunkCount \in Nat /\ Len(codes) \in Int /\ Len(codes) <= Len(codes)
  BY MapAssumption
<1>2. F \in StepFunctions(HunkCount, PState)
  BY <1>1, NextTypeType DEF StepFunctions
<1>3. TypesAtStart \in PState
  BY DEF TypesAtStart, PState
<1>4. PICK f \in [0 .. HunkCount -> PState] :
        f[0] = TypesAtStart /\ \A i \in 1 .. HunkCount : f[i] = F[<<i, f[i - 1]>>]
  <2> HIDE DEF F
  <2>1. \E f : Runs(HunkCount, PState, TypesAtStart, F, f)
    BY <1>1, <1>2, <1>3, Recursion
  <2> QED BY <2>1 DEF Runs
<1>5. ASSUME NEW i \in 1 .. HunkCount
      PROVE  i - 1 \in 0 .. HunkCount /\ f[i] = NextType(codes, Len(codes), f[i - 1])
  <2>1. i - 1 \in 0 .. HunkCount /\ f[i - 1] \in PState
    BY <1>1
  <2>2. F[<<i, f[i - 1]>>] = NextType(codes, Len(codes), f[i - 1])
    BY <2>1
  <2> QED BY <2>1, <2>2, <1>4
<1>6. IsIt(f)
  <2>1. ASSUME NEW h \in 0 .. HunkCount
        PROVE  f[h] = IF h = 0 THEN TypesAtStart ELSE NextType(codes, Len(codes), f[h - 1])
    <3>1. h # 0 => h \in 1 .. HunkCount
      BY <1>1
    <3> QED BY <3>1, <1>4, <1>5
  <2> HIDE DEF F
  <2> QED BY <2>1
<1>7. TypesBefore(codes) = CHOOSE g : IsIt(g)
  BY DEF TypesBefore
<1>8. IsIt(TypesBefore(codes))
  <2> HIDE DEF IsIt
  <2> QED BY <1>6, <1>7
<1> DEFINE g == TypesBefore(codes)
<1> HIDE DEF g, F
<1>9. g = [h \in 0 .. HunkCount |-> IF h = 0 THEN TypesAtStart
                                    ELSE NextType(codes, Len(codes), g[h - 1])]
  BY <1>8 DEF g
<1>10. ASSUME NEW h \in 0 .. HunkCount PROVE g[h] = f[h]
  <2> DEFINE T == {k \in 0 .. HunkCount : g[k] # f[k]}
  <2>1. ASSUME NEW k \in T, \A m \in T : k <= m PROVE FALSE
    <3>1. k \in 0 .. HunkCount /\ g[k] # f[k]
      OBVIOUS
    <3>2. k # 0
      BY <3>1, <1>1, <1>4, <1>9
    <3>3. k \in 1 .. HunkCount /\ k - 1 \in 0 .. HunkCount /\ ~(k <= k - 1)
      BY <3>1, <3>2, <1>1
    <3>4. g[k - 1] = f[k - 1]
      BY <2>1, <3>3
    <3> QED BY <3>1, <3>2, <3>3, <3>4, <1>5, <1>9
  <2>2. T = {}
    <3>1. T \subseteq Nat
      BY <1>1
    <3> HIDE DEF T
    <3> QED BY <2>1, <3>1, LeastOf
  <2> QED BY <2>2
<1>11. g = f
  <2>1. DOMAIN g = 0 .. HunkCount /\ DOMAIN f = 0 .. HunkCount /\ g = [h \in 0 .. HunkCount |-> g[h]]
    BY <1>9
  <2> QED BY <2>1, <1>10
<1> QED BY <1>11, <1>4, <1>5 DEF g, TypesAre

LEMMA FieldsRecursion ==
  ASSUME NEW fields \in Seq(Nat), NEW types,
         \A h \in 1 .. HunkCount : types[h].lastcomp \in TypeNumbers
  PROVE  FieldsAre(fields, types, FieldsBefore(fields, types))
<1> DEFINE Step(h, q) == NextFields(fields, Len(fields), q, types[h].lastcomp, h - 1)
           F == [x \in (1 .. HunkCount) \X QState |-> Step(x[1], x[2])]
           IsIt(g) == g = [h \in 0 .. HunkCount |->
                             IF h = 0 THEN FieldsAtStart ELSE Step(h, g[h - 1])]
<1>1. HunkCount \in Nat /\ Len(fields) \in Int /\ Len(fields) <= Len(fields)
  BY MapAssumption
<1>2. F \in StepFunctions(HunkCount, QState)
  <2>1. ASSUME NEW h \in 1 .. HunkCount, NEW q \in QState PROVE Step(h, q) \in QState
    <3>1. h - 1 \in Nat
      BY <1>1
    <3> QED BY <1>1, <3>1, NextFieldsType
  <2> HIDE DEF Step
  <2> QED BY <2>1 DEF StepFunctions
<1>3. FieldsAtStart \in QState
  BY MapAssumption DEF FieldsAtStart, QState
<1>4. PICK f \in [0 .. HunkCount -> QState] :
        f[0] = FieldsAtStart /\ \A i \in 1 .. HunkCount : f[i] = F[<<i, f[i - 1]>>]
  <2> HIDE DEF F
  <2>1. \E f : Runs(HunkCount, QState, FieldsAtStart, F, f)
    BY <1>1, <1>2, <1>3, Recursion
  <2> QED BY <2>1 DEF Runs
<1>5. ASSUME NEW i \in 1 .. HunkCount
      PROVE  i - 1 \in 0 .. HunkCount /\ f[i] = Step(i, f[i - 1])
  <2> HIDE DEF Step
  <2>1. i - 1 \in 0 .. HunkCount /\ f[i - 1] \in QState
    BY <1>1
  <2>2. F[<<i, f[i - 1]>>] = Step(i, f[i - 1])
    BY <2>1
  <2> QED BY <2>1, <2>2, <1>4
<1>6. IsIt(f)
  <2> HIDE DEF Step
  <2>1. ASSUME NEW h \in 0 .. HunkCount
        PROVE  f[h] = IF h = 0 THEN FieldsAtStart ELSE Step(h, f[h - 1])
    <3>1. h # 0 => h \in 1 .. HunkCount
      BY <1>1
    <3> QED BY <3>1, <1>4, <1>5
  <2> HIDE DEF F
  <2> QED BY <2>1
<1>7. FieldsBefore(fields, types) = CHOOSE g : IsIt(g)
  BY DEF FieldsBefore
<1>8. IsIt(FieldsBefore(fields, types))
  <2> HIDE DEF IsIt
  <2> QED BY <1>6, <1>7
<1> DEFINE g == FieldsBefore(fields, types)
<1> HIDE DEF g, F, Step
<1>9. g = [h \in 0 .. HunkCount |-> IF h = 0 THEN FieldsAtStart ELSE Step(h, g[h - 1])]
  BY <1>8 DEF g
<1>10. ASSUME NEW h \in 0 .. HunkCount PROVE g[h] = f[h]
  <2> DEFINE T == {k \in 0 .. HunkCount : g[k] # f[k]}
  <2>1. ASSUME NEW k \in T, \A m \in T : k <= m PROVE FALSE
    <3>1. k \in 0 .. HunkCount /\ g[k] # f[k]
      OBVIOUS
    <3>2. k # 0
      BY <3>1, <1>1, <1>4, <1>9
    <3>3. k \in 1 .. HunkCount /\ k - 1 \in 0 .. HunkCount /\ ~(k <= k - 1)
      BY <3>1, <3>2, <1>1
    <3>4. g[k - 1] = f[k - 1]
      BY <2>1, <3>3
    <3> QED BY <3>1, <3>2, <3>3, <3>4, <1>5, <1>9
  <2>2. T = {}
    <3>1. T \subseteq Nat
      BY <1>1
    <3> HIDE DEF T
    <3> QED BY <2>1, <3>1, LeastOf
  <2> QED BY <2>2
<1>11. g = f
  <2>1. DOMAIN g = 0 .. HunkCount /\ DOMAIN f = 0 .. HunkCount /\ g = [h \in 0 .. HunkCount |-> g[h]]
    BY <1>9
  <2> QED BY <2>1, <1>10
<1> QED BY <1>11, <1>4, <1>5 DEF g, Step, FieldsAre

(* What never goes back from one hunk to the next never goes back.          *)
LEMMA Monotone ==
  ASSUME NEW n \in Nat, NEW f, \A h \in 0 .. n : f[h] \in Int,
         \A h \in 1 .. n : f[h - 1] <= f[h],
         NEW a \in 0 .. n, NEW b \in 0 .. n, a <= b
  PROVE  f[a] <= f[b]
<1> DEFINE T == {k \in a .. n : ~(f[a] <= f[k])}
<1>1. ASSUME NEW k \in T, \A m \in T : k <= m PROVE FALSE
  <2>1. k \in a .. n /\ k \in 0 .. n /\ ~(f[a] <= f[k])
    OBVIOUS
  <2>2. k # a
    BY <2>1
  <2>3. k \in 1 .. n /\ k - 1 \in a .. n /\ k - 1 \in 0 .. n /\ ~(k <= k - 1)
    BY <2>1, <2>2
  <2>4. f[a] <= f[k - 1]
    BY <1>1, <2>3
  <2>5. f[k - 1] <= f[k] /\ f[k - 1] \in Int /\ f[k] \in Int /\ f[a] \in Int
    BY <2>1, <2>3
  <2> HIDE DEF T
  <2> QED BY <2>1, <2>4, <2>5
<1>2. T = {}
  <2>1. T \subseteq Nat
    OBVIOUS
  <2> HIDE DEF T
  <2> QED BY <1>1, <2>1, LeastOf
<1> QED BY <1>2

-----------------------------------------------------------------------------
(* The hunks of a bucket.                                                   *)
LEMMA Division ==
  ASSUME NEW x \in Nat, NEW y \in Nat \ {0}
  PROVE  /\ x \div y \in Nat
         /\ (x \div y) * y <= x
         /\ x < (x \div y) * y + y
OBVIOUS

LEMMA Products ==
  ASSUME NEW x \in Int, NEW z \in Int, NEW y \in Nat, x <= z
  PROVE  x * y <= z * y
OBVIOUS

LEMMA BucketFacts ==
  ASSUME NEW h \in Hunks
  PROVE  /\ BucketOf(h) \in Buckets
         /\ BucketOf(h) * Stride \in 0 .. h
         /\ h < Boundary(BucketOf(h))
<1> DEFINE b == BucketOf(h)
           c == (HunkCount - 1) \div Stride
<1>1. HunkCount - 1 \in Nat /\ h \in Nat /\ h <= HunkCount - 1 /\ Stride \in Nat \ {0}
  BY MapAssumption DEF Hunks
<1>2. b \in Nat /\ b * Stride <= h /\ h < b * Stride + Stride
  BY <1>1, Division DEF BucketOf
<1>3. c \in Nat /\ c * Stride <= HunkCount - 1 /\ HunkCount - 1 < c * Stride + Stride
  BY <1>1, Division
<1> HIDE DEF b, c
<1>4. b * Stride \in Nat /\ c * Stride \in Nat /\ (c + 1) * Stride = c * Stride + Stride
      /\ (b + 1) * Stride = b * Stride + Stride
  BY <1>1, <1>2, <1>3
<1>5. b <= c
  <2>1. CASE c + 1 <= b
    <3>1. (c + 1) * Stride <= b * Stride
      BY <2>1, <1>1, <1>2, <1>3, Products
    <3> QED BY <3>1, <1>1, <1>2, <1>3, <1>4
  <2> QED BY <2>1, <1>2, <1>3
<1>6. b \in Buckets
  BY <1>2, <1>3, <1>5 DEF Buckets, CheckpointCount, c
<1>7. h < Boundary(b)
  BY <1>1, <1>2, <1>4, MapAssumption DEF Boundary
<1> QED BY <1>1, <1>2, <1>4, <1>6, <1>7 DEF b

LEMMA BucketBounds ==
  ASSUME NEW b \in Buckets
  PROVE  /\ b * Stride \in Hunks
         /\ Boundary(b) \in 1 .. HunkCount
<1> DEFINE c == (HunkCount - 1) \div Stride
<1>1. HunkCount - 1 \in Nat /\ Stride \in Nat \ {0} /\ HunkCount \in Nat
  BY MapAssumption DEF Hunks
<1>2. c \in Nat /\ c * Stride <= HunkCount - 1
  BY <1>1, Division
<1>3. b \in 0 .. c /\ CheckpointCount = c + 1
  BY <1>2 DEF Buckets, CheckpointCount
<1> HIDE DEF c
<1>4. b * Stride <= c * Stride /\ b * Stride \in Nat /\ c * Stride \in Nat
  BY <1>1, <1>2, <1>3, Products
<1>5. b * Stride \in Hunks
  BY <1>1, <1>2, <1>4 DEF Hunks
<1>6. ASSUME b + 1 < CheckpointCount
      PROVE  (b + 1) * Stride \in 1 .. HunkCount
  <2>1. b + 1 <= c /\ b + 1 \in Int /\ c \in Int
    BY <1>2, <1>3, <1>6
  <2>2. (b + 1) * Stride <= c * Stride
    BY <2>1, <1>1, Products
  <2>3. (b + 1) * Stride = b * Stride + Stride
    BY <1>1, <1>3
  <2> QED BY <2>2, <2>3, <1>1, <1>2, <1>4
<1> QED BY <1>1, <1>5, <1>6 DEF Boundary

-----------------------------------------------------------------------------
(* In the windows of a bucket the two passes take, side by side, the steps  *)
(* they take in the whole map.                                              *)
Types(codes) == TypesBefore(codes)
States(codes, fields) == FieldsBefore(fields, TypesBefore(codes))

LEMMA TypesFacts ==
  ASSUME NEW codes \in Seq(0 .. 15)
  PROVE  /\ TypesAre(codes, Types(codes))
         /\ \A h \in 0 .. HunkCount :
              /\ Types(codes)[h] \in PState
              /\ Types(codes)[h].lastcomp \in TypeNumbers
              /\ Types(codes)[h].at \in Nat \ {0}
<1>1. TypesAre(codes, Types(codes))
  BY TypesRecursion DEF Types
<1>2. \A p \in PState : p.lastcomp \in TypeNumbers /\ p.at \in Nat \ {0}
  BY DEF PState, TypeNumbers
<1>3. \A h \in 0 .. HunkCount : Types(codes)[h] \in PState
  BY <1>1 DEF TypesAre
<1> QED BY <1>1, <1>2, <1>3

LEMMA StatesFacts ==
  ASSUME NEW codes \in Seq(0 .. 15), NEW fields \in Seq(Nat)
  PROVE  /\ FieldsAre(fields, Types(codes), States(codes, fields))
         /\ \A h \in 0 .. HunkCount :
              /\ States(codes, fields)[h] \in QState
              /\ States(codes, fields)[h].at \in Nat \ {0}
<1>1. \A h \in 1 .. HunkCount : Types(codes)[h].lastcomp \in TypeNumbers
  BY TypesFacts, MapAssumption
<1>2. FieldsAre(fields, Types(codes), States(codes, fields))
  BY <1>1, FieldsRecursion DEF Types, States
<1>3. \A q \in QState : q.at \in Nat \ {0}
  BY DEF QState
<1>4. \A h \in 0 .. HunkCount : States(codes, fields)[h] \in QState
  BY <1>2 DEF FieldsAre
<1> QED BY <1>2, <1>3, <1>4

LEMMA TypesAdvance ==
  ASSUME NEW codes \in Seq(0 .. 15), NEW a \in 0 .. HunkCount, NEW b \in 0 .. HunkCount, a <= b
  PROVE  Types(codes)[a].at <= Types(codes)[b].at
<1> DEFINE t == Types(codes)
           f == [h \in 0 .. HunkCount |-> t[h].at]
<1> HIDE DEF t
<1>1. TypesAre(codes, t) /\ \A h \in 0 .. HunkCount : t[h] \in PState /\ t[h].at \in Nat \ {0}
  BY TypesFacts DEF t
<1>2. ASSUME NEW h \in 1 .. HunkCount PROVE f[h - 1] <= f[h]
  <2>1. h \in 0 .. HunkCount /\ h - 1 \in 0 .. HunkCount /\ Len(codes) \in Int /\ Len(codes) <= Len(codes)
    BY MapAssumption
  <2>2. t[h] = NextType(codes, Len(codes), t[h - 1]) /\ t[h - 1] \in PState
    BY <1>1, <2>1 DEF TypesAre
  <2>3. t[h].at >= t[h - 1].at
    BY <2>1, <2>2, NextTypeType
  <2> QED BY <2>1, <2>3, <1>1
<1>3. \A h \in 0 .. HunkCount : f[h] \in Int
  BY <1>1
<1>4. f[a] <= f[b]
  <2> HIDE DEF f
  <2> QED BY <1>2, <1>3, Monotone, MapAssumption
<1> QED BY <1>4 DEF t

LEMMA StatesStep ==
  ASSUME NEW codes \in Seq(0 .. 15), NEW fields \in Seq(Nat), NEW h \in Hunks
  PROVE  LET q == States(codes, fields)[h]
             type == Types(codes)[h + 1].lastcomp
         IN  /\ h \in Nat /\ h \in 0 .. HunkCount /\ h + 1 \in 0 .. HunkCount
             /\ q \in QState /\ type \in TypeNumbers
             /\ States(codes, fields)[h + 1] = NextFields(fields, Len(fields), q, type, h)
             /\ States(codes, fields)[h + 1].at = IF type \in 0 .. 6 THEN q.at + 1 ELSE q.at
<1> DEFINE t == Types(codes)
           s == States(codes, fields)
<1> HIDE DEF t, s
<1>1. h \in Nat /\ h \in 0 .. HunkCount /\ h + 1 \in 1 .. HunkCount /\ h + 1 \in 0 .. HunkCount
      /\ (h + 1) - 1 = h /\ Len(fields) \in Int /\ Len(fields) <= Len(fields)
  BY MapAssumption DEF Hunks
<1>2. s[h] \in QState /\ t[h + 1].lastcomp \in TypeNumbers
  BY <1>1, TypesFacts, StatesFacts DEF t, s
<1>3. FieldsAre(fields, t, s)
  BY StatesFacts DEF t, s
<1>4. s[h + 1] = NextFields(fields, Len(fields), s[h], t[h + 1].lastcomp, h)
  BY <1>1, <1>3 DEF FieldsAre
<1>5. s[h + 1].at = IF t[h + 1].lastcomp \in 0 .. 6 THEN s[h].at + 1 ELSE s[h].at
  <2> DEFINE q == s[h]
             type == t[h + 1].lastcomp
             next == NextFields(fields, Len(fields), q, type, h)
  <2>1. q \in QState /\ type \in TypeNumbers /\ s[h + 1] = next
    BY <1>2, <1>4
  <2> HIDE DEF q, type
  <2>2. next.at = IF type \in 0 .. 6 THEN q.at + 1 ELSE q.at
    BY <2>1, <1>1, NextFieldsType
  <2> QED BY <2>1, <2>2 DEF q, type
<1> QED BY <1>1, <1>2, <1>4, <1>5 DEF t, s

LEMMA StatesAdvance ==
  ASSUME NEW codes \in Seq(0 .. 15), NEW fields \in Seq(Nat),
         NEW a \in 0 .. HunkCount, NEW b \in 0 .. HunkCount, a <= b
  PROVE  States(codes, fields)[a].at <= States(codes, fields)[b].at
<1> DEFINE s == States(codes, fields)
           f == [h \in 0 .. HunkCount |-> s[h].at]
<1>1. \A h \in 0 .. HunkCount : s[h].at \in Nat \ {0}
  BY StatesFacts
<1>2. ASSUME NEW h \in 1 .. HunkCount PROVE f[h - 1] <= f[h]
  <2>1. h \in 0 .. HunkCount /\ h - 1 \in 0 .. HunkCount /\ h - 1 \in Hunks /\ (h - 1) + 1 = h
    BY MapAssumption DEF Hunks
  <2>2. s[h].at = s[h - 1].at + 1 \/ s[h].at = s[h - 1].at
    BY <2>1, StatesStep
  <2> HIDE DEF s
  <2> QED BY <2>1, <2>2, <1>1
<1> HIDE DEF s
<1>3. \A h \in 0 .. HunkCount : f[h] \in Int
  BY <1>1
<1>4. f[a] <= f[b]
  <2> HIDE DEF f
  <2> QED BY <1>2, <1>3, Monotone, MapAssumption
<1> QED BY <1>4 DEF s

LEMMA StepOfTypes ==
  ASSUME NEW codes \in Seq(0 .. 15), NEW b \in Buckets, NEW h \in Hunks, h < Boundary(b)
  PROVE  NextType(codes, BucketCodes(codes, b).to, Types(codes)[h]) = Types(codes)[h + 1]
<1> DEFINE t == Types(codes)
           last == t[Boundary(b)].at - 1
<1>1. /\ h \in 0 .. HunkCount /\ h + 1 \in 1 .. HunkCount /\ h + 1 \in 0 .. HunkCount
      /\ (h + 1) - 1 = h /\ h + 1 <= Boundary(b) /\ Boundary(b) \in 0 .. HunkCount
  BY BucketBounds, MapAssumption DEF Hunks
<1>2. BucketCodes(codes, b).to = Clipped(last, codes)
  BY DEF BucketCodes, Types
<1>3. t[h] \in PState /\ t[h + 1].at \in Nat \ {0} /\ t[Boundary(b)].at \in Nat \ {0}
  BY <1>1, TypesFacts
<1>4. t[h + 1] = NextType(codes, Len(codes), t[h])
  <2>1. TypesAre(codes, t)
    BY TypesFacts
  <2> HIDE DEF t
  <2> QED BY <2>1, <1>1 DEF TypesAre
<1>5. t[h + 1].at <= t[Boundary(b)].at
  BY <1>1, TypesAdvance
<1> HIDE DEF t
<1>6. last \in Int /\ t[h + 1].at <= last + 1
  BY <1>3, <1>5
<1> HIDE DEF last
<1>7. NextType(codes, Clipped(last, codes), t[h]) = NextType(codes, Len(codes), t[h])
  BY <1>3, <1>4, <1>6, NextTypeAgrees
<1> QED BY <1>2, <1>4, <1>7 DEF t

LEMMA StepOfFields ==
  ASSUME NEW codes \in Seq(0 .. 15), NEW fields \in Seq(Nat),
         NEW b \in Buckets, NEW h \in Hunks, h < Boundary(b)
  PROVE  NextFields(fields, BucketFields(codes, fields, b).to, States(codes, fields)[h],
                    Types(codes)[h + 1].lastcomp, h) = States(codes, fields)[h + 1]
<1> DEFINE s == States(codes, fields)
           type == Types(codes)[h + 1].lastcomp
           last == s[Boundary(b)].at - 1
           end == BucketFields(codes, fields, b).to
<1>1. /\ h \in 0 .. HunkCount /\ h + 1 \in 1 .. HunkCount /\ h + 1 \in 0 .. HunkCount
      /\ h + 1 <= Boundary(b) /\ Boundary(b) \in 0 .. HunkCount
  BY BucketBounds, MapAssumption DEF Hunks
<1>2. end = Clipped(last, fields) \/ end = Len(fields)
  BY DEF BucketFields, States
<1>3. s[h + 1].at \in Nat \ {0} /\ s[Boundary(b)].at \in Nat \ {0} /\ s[h].at \in Nat \ {0}
  BY <1>1, StatesFacts
<1>4. /\ h \in Nat /\ s[h] \in QState /\ type \in TypeNumbers
      /\ s[h + 1] = NextFields(fields, Len(fields), s[h], type, h)
      /\ s[h + 1].at = IF type \in 0 .. 6 THEN s[h].at + 1 ELSE s[h].at
  BY StatesStep
<1>5. s[h + 1].at <= s[Boundary(b)].at
  BY <1>1, StatesAdvance
<1> HIDE DEF s, type, end
<1>6. last \in Int /\ (type \in 0 .. 6 => s[h].at <= last)
  BY <1>3, <1>4, <1>5
<1> HIDE DEF last
<1>7. end \in Int
  <2>1. Len(fields) \in Int
    OBVIOUS
  <2>2. Clipped(last, fields) \in Int
    BY <1>6, ClippedBounds
  <2> QED BY <2>1, <2>2, <1>2
<1>8. type \in 0 .. 6 => Taken(fields, end, s[h].at) = Taken(fields, Len(fields), s[h].at)
  BY <1>2, <1>3, <1>6, TakenAgrees
<1>9. NextFields(fields, end, s[h], type, h) = NextFields(fields, Len(fields), s[h], type, h)
  BY <1>4, <1>7, <1>8, NextFieldsAgrees
<1> QED BY <1>4, <1>9 DEF s, type, end

(* A hunk decoded in the windows of its bucket, from the state before it.   *)
TheEntryIn(codes, fields, h) ==
  EntryOf(States(codes, fields)[h], States(codes, fields)[h + 1], Types(codes)[h + 1].lastcomp)

DecodedTo(codes, fields, h, ok) ==
  [p |-> Types(codes)[h + 1], q |-> States(codes, fields)[h + 1],
   entry |-> TheEntryIn(codes, fields, h), ok |-> ok]

LEMMA OneHunkIs ==
  ASSUME NEW codes \in Seq(0 .. 15), NEW fields \in Seq(Nat),
         NEW b \in Buckets, NEW h \in Hunks, h < Boundary(b),
         NEW s, s.p = Types(codes)[h], s.q = States(codes, fields)[h]
  PROVE  LET end1 == BucketCodes(codes, b).to
         IN  OneHunk(codes, fields, end1, BucketFields(codes, fields, b).to, s, h) =
               DecodedTo(codes, fields, h, s.ok /\ ~Overflows(end1, Types(codes)[h]))
<1> DEFINE end1 == BucketCodes(codes, b).to
           end2 == BucketFields(codes, fields, b).to
           p == NextType(codes, end1, s.p)
           q == NextFields(fields, end2, s.q, p.lastcomp, h)
<1>1. p = Types(codes)[h + 1]
  BY StepOfTypes
<1>2. q = States(codes, fields)[h + 1]
  BY <1>1, StepOfFields
<1>3. OneHunk(codes, fields, end1, end2, s, h) =
        [p |-> p, q |-> q, entry |-> EntryOf(s.q, q, p.lastcomp),
         ok |-> s.ok /\ ~Overflows(end1, s.p)]
  BY DEF OneHunk
<1> HIDE DEF p, q, end1, end2
<1> QED BY <1>1, <1>2, <1>3 DEF DecodedTo, TheEntryIn, end1, end2

LEMMA EntriesOfTheMap ==
  ASSUME NEW codes, NEW fields, NEW h \in Hunks
  PROVE  decompress_v5_map(codes, fields)[h] = TheEntryIn(codes, fields, h)
BY DEF decompress_v5_map, TheEntryIn, Types, States

(* The loop of v5_map_get_entry ends in the states of the whole map, and    *)
(* with its entry.                                                          *)
NoOverflow(codes, end, first, last) ==
  \A i \in first .. last : ~Overflows(end, Types(codes)[i])

LEMMA NoOverflowStep ==
  ASSUME NEW codes, NEW end, NEW first \in Nat, NEW k \in Nat, first <= k
  PROVE  /\ k = first =>
              NoOverflow(codes, end, first, k) = ~Overflows(end, Types(codes)[k])
         /\ k # first =>
              NoOverflow(codes, end, first, k) =
                (NoOverflow(codes, end, first, k - 1) /\ ~Overflows(end, Types(codes)[k]))
<1> DEFINE O(i) == Overflows(end, Types(codes)[i])
<1>1. k = first => first .. k = {k}
  OBVIOUS
<1>2. k # first => first .. k = (first .. (k - 1)) \cup {k}
  OBVIOUS
<1> HIDE DEF O
<1>3. CASE k = first
  <2>1. (\A i \in first .. k : ~O(i)) <=> ~O(k)
    BY <1>1, <1>3
  <2> QED BY <2>1, <1>3 DEF NoOverflow, O
<1>4. CASE k # first
  <2>1. (\A i \in first .. k : ~O(i)) <=> (\A i \in first .. (k - 1) : ~O(i)) /\ ~O(k)
    BY <1>2, <1>4
  <2> QED BY <2>1, <1>4 DEF NoOverflow, O
<1> QED BY <1>3, <1>4

LEMMA DecodedIs ==
  ASSUME NEW codes \in Seq(0 .. 15), NEW fields \in Seq(Nat), NEW b \in Buckets,
         NEW start \in Hunks, NEW h \in Hunks, start <= h, h < Boundary(b),
         NEW from, from.p = Types(codes)[start], from.q = States(codes, fields)[start]
  PROVE  LET end1 == BucketCodes(codes, b).to
         IN  Decoded(codes, fields, end1, BucketFields(codes, fields, b).to, from, start, h) =
               DecodedTo(codes, fields, h, NoOverflow(codes, end1, start, h))
<1> DEFINE end1 == BucketCodes(codes, b).to
           end2 == BucketFields(codes, fields, b).to
           First == [p |-> from.p, q |-> from.q, ok |-> TRUE]
           Step(x, k) == OneHunk(codes, fields, end1, end2, x, k)
           IsIt(g) == g = [k \in start .. h |->
                             Step(IF k = start THEN First ELSE g[k - 1], k)]
           Ok(k) == NoOverflow(codes, end1, start, k)
           f == [k \in start .. h |-> DecodedTo(codes, fields, k, Ok(k))]
<1>1. start \in Nat /\ h \in Nat
  BY MapAssumption DEF Hunks
<1>2. \A k \in start .. h : k \in Nat /\ k \in Hunks /\ start <= k /\ k < Boundary(b)
  BY <1>1, BucketBounds, MapAssumption DEF Hunks
<1>3. ASSUME NEW k \in start .. h
      PROVE  f[k] = Step(IF k = start THEN First ELSE f[k - 1], k)
  <2> DEFINE x == IF k = start THEN First ELSE f[k - 1]
  <2>1. /\ x.p = Types(codes)[k]
        /\ x.q = States(codes, fields)[k]
        /\ (x.ok /\ ~Overflows(end1, Types(codes)[k])) = Ok(k)
    <3>1. CASE k = start
      <4>1. x.p = from.p /\ x.q = from.q /\ x.ok = TRUE
        BY <3>1
      <4> HIDE DEF x
      <4>2. Ok(k) = ~Overflows(end1, Types(codes)[k])
        BY <3>1, <1>1, <1>2, NoOverflowStep
      <4> QED BY <3>1, <4>1, <4>2
    <3>2. CASE k # start
      <4>1. k - 1 \in start .. h /\ (k - 1) + 1 = k
        BY <3>2, <1>1
      <4>2. x = DecodedTo(codes, fields, k - 1, Ok(k - 1))
        BY <3>2, <4>1
      <4> HIDE DEF x, Ok
      <4>3. x.p = Types(codes)[k] /\ x.q = States(codes, fields)[k] /\ x.ok = Ok(k - 1)
        BY <4>1, <4>2 DEF DecodedTo
      <4>4. Ok(k) = (Ok(k - 1) /\ ~Overflows(end1, Types(codes)[k]))
        BY <3>2, <1>1, <1>2, NoOverflowStep DEF Ok
      <4> QED BY <4>3, <4>4
    <3> QED BY <3>1, <3>2
  <2> HIDE DEF x, Ok
  <2>2. k \in Hunks /\ k < Boundary(b)
    BY <1>2
  <2>3. Step(x, k) = DecodedTo(codes, fields, k, x.ok /\ ~Overflows(end1, Types(codes)[k]))
    BY <2>1, <2>2, OneHunkIs
  <2>4. f[k] = DecodedTo(codes, fields, k, Ok(k))
    OBVIOUS
  <2>5. Step(x, k) = f[k]
    BY <2>1, <2>3, <2>4
  <2> HIDE DEF f
  <2> QED BY <2>5 DEF x
<1>4. IsIt(f)
  <2> HIDE DEF Step, First, Ok
  <2>1. f = [k \in start .. h |-> f[k]]
    OBVIOUS
  <2> HIDE DEF f
  <2> QED BY <1>3, <2>1
<1>5. Decoded(codes, fields, end1, end2, from, start, h) = (CHOOSE g : IsIt(g))[h]
  BY DEF Decoded
<1> DEFINE g == CHOOSE y : IsIt(y)
<1>6. IsIt(g)
  <2> HIDE DEF IsIt
  <2> QED BY <1>4
<1> HIDE DEF f, Step, First
<1>7. g = [k \in start .. h |-> Step(IF k = start THEN First ELSE g[k - 1], k)]
  BY <1>6
<1> HIDE DEF g
<1>8. ASSUME NEW k \in start .. h PROVE g[k] = f[k]
  <2> DEFINE T == {m \in start .. h : g[m] # f[m]}
  <2>1. ASSUME NEW m \in T, \A n \in T : m <= n PROVE FALSE
    <3>1. m \in start .. h /\ g[m] # f[m]
      OBVIOUS
    <3>2. m # start
      BY <3>1, <1>1, <1>3, <1>7
    <3>3. m - 1 \in start .. h /\ ~(m <= m - 1)
      BY <3>1, <3>2, <1>1
    <3>4. g[m - 1] = f[m - 1]
      BY <2>1, <3>3
    <3> QED BY <3>1, <3>2, <3>3, <3>4, <1>3, <1>7
  <2>2. T = {}
    <3>1. T \subseteq Nat
      BY <1>1
    <3> HIDE DEF T
    <3> QED BY <2>1, <3>1, LeastOf
  <2> QED BY <2>2
<1>9. g[h] = f[h] /\ f[h] = DecodedTo(codes, fields, h, Ok(h))
  BY <1>1, <1>8 DEF f
<1> QED BY <1>5, <1>9 DEF g

-----------------------------------------------------------------------------
(* The inductive invariant: the type invariant and the two properties, and  *)
(* what they rest on.  What may be resumed was decoded in the windows of    *)
(* one bucket and is resumed within that bucket; and only a failed call     *)
(* leaves a window that has been freed to be resumed in.                    *)
ResumeIsARecord ==
  resume = [valid |-> resume.valid, cur_hunk |-> resume.cur_hunk,
            next_boundary |-> resume.next_boundary,
            end1 |-> resume.end1, end2 |-> resume.end2, state |-> resume.state]

ResumesInItsBucket ==
  resume.valid /\ dangling = {} =>
    \E b \in Buckets :
      /\ resume.end1 = BucketCodes(map.codes, b).to
      /\ resume.end2 = BucketFields(map.codes, map.fields, b).to
      /\ resume.next_boundary = Boundary(b)

DanglingAfterAFailure == dangling # {} => lapsed

IInv ==
  /\ TypeOK
  /\ EntriesAreExact
  /\ ResumeIsExact
  /\ ResumeIsARecord
  /\ ResumesInItsBucket
  /\ DanglingAfterAFailure

LEMMA MapsAreMaps ==
  ASSUME map \in Maps
  PROVE  map.codes \in Seq(0 .. 15) /\ map.fields \in Seq(Nat)
BY LowramAssumption

(* From an exact state within a bucket, an exact entry and an exact state.  *)
LEMMA DecodedInABucket ==
  ASSUME map \in Maps, map.compressed, NEW b \in Buckets,
         NEW start \in Hunks, NEW h \in Hunks, start <= h, h < Boundary(b),
         NEW from, from.p = Types(map.codes)[start],
         from.q = States(map.codes, map.fields)[start]
  PROVE  LET d == Decoded(map.codes, map.fields, BucketCodes(map.codes, b).to,
                          BucketFields(map.codes, map.fields, b).to, from, start, h)
         IN  /\ d.p = Types(map.codes)[h + 1]
             /\ d.q = States(map.codes, map.fields)[h + 1]
             /\ d.entry = TheEntry(h)
<1>1. map.codes \in Seq(0 .. 15) /\ map.fields \in Seq(Nat)
  BY MapsAreMaps
<1> DEFINE d == Decoded(map.codes, map.fields, BucketCodes(map.codes, b).to,
                        BucketFields(map.codes, map.fields, b).to, from, start, h)
           ok == NoOverflow(map.codes, BucketCodes(map.codes, b).to, start, h)
<1>2. d = DecodedTo(map.codes, map.fields, h, ok)
  BY <1>1, DecodedIs
<1>3. TheEntry(h) = TheEntryIn(map.codes, map.fields, h)
  BY EntriesOfTheMap DEF TheEntry
<1> HIDE DEF d, ok
<1>4. /\ d.p = Types(map.codes)[h + 1]
      /\ d.q = States(map.codes, map.fields)[h + 1]
      /\ d.entry = TheEntryIn(map.codes, map.fields, h)
  BY <1>2 DEF DecodedTo
<1> QED BY <1>3, <1>4 DEF d

LEMMA ResumeIsExactSays ==
  ResumeIsExact <=>
    (resume.valid /\ dangling = {} =>
       /\ resume.state.p = Types(map.codes)[resume.cur_hunk]
       /\ resume.state.q = States(map.codes, map.fields)[resume.cur_hunk])
BY DEF ResumeIsExact, Types, States

(* The two parts of the type invariant.                                     *)
WindowsAreOfTheMap ==
  /\ map \in Maps
  /\ window1 = NoWindow \/ /\ window1.bucket \in Buckets
                           /\ [from |-> window1.from, to |-> window1.to]
                                = BucketCodes(map.codes, window1.bucket)
  /\ window2 = NoWindow \/ /\ window2.bucket \in Buckets
                           /\ [from |-> window2.from, to |-> window2.to]
                                = BucketFields(map.codes, map.fields, window2.bucket)

ResumeAndReplyOK ==
  /\ resume.valid \in BOOLEAN
  /\ resume.cur_hunk \in 0 .. resume.next_boundary
  /\ resume.next_boundary \in 0 .. HunkCount
  /\ dangling \subseteq {1, 2}
  /\ lapsed \in BOOLEAN
  /\ reply.path \in {"none", "file", "checkpoint", "resumed", "failed"}

LEMMA TypeOKSays == TypeOK <=> WindowsAreOfTheMap /\ ResumeAndReplyOK
BY Zenon DEF TypeOK, WindowsAreOfTheMap, ResumeAndReplyOK

LEMMA TypeOKSaysNext == TypeOK' <=> WindowsAreOfTheMap' /\ ResumeAndReplyOK'
BY Zenon DEF TypeOK, WindowsAreOfTheMap, ResumeAndReplyOK

LEMMA InitIInv == Init => IInv
<1> SUFFICES ASSUME Init PROVE IInv
  OBVIOUS
<1> USE DEF Init, NoResume, NoReply
<1>1. TypeOK
  <2>1. WindowsAreOfTheMap
    BY DEF WindowsAreOfTheMap
  <2>2. ResumeAndReplyOK
    <3>1. resume.valid \in BOOLEAN /\ lapsed \in BOOLEAN
      BY Zenon
    <3>2. resume.cur_hunk = 0 /\ resume.next_boundary = 0 /\ reply.path = "none" /\ dangling = {}
      OBVIOUS
    <3>3. 0 \in 0 .. 0 /\ 0 \in 0 .. HunkCount
      BY MapAssumption
    <3> QED BY <3>1, <3>2, <3>3 DEF ResumeAndReplyOK
  <2> QED BY <2>1, <2>2, TypeOKSays
<1>2. EntriesAreExact
  BY DEF EntriesAreExact, ExactUntilACallFails, CheckpointsHeal, Exact
<1>3. ResumeIsExact /\ ResumesInItsBucket /\ DanglingAfterAFailure /\ ResumeIsARecord
  BY DEF ResumeIsExact, ResumesInItsBucket, DanglingAfterAFailure, ResumeIsARecord
<1> QED BY <1>1, <1>2, <1>3 DEF IInv

(* Fetching an entry, and standing still, leave alone what is resumed.      *)
LEMMA ReadEntryKeeps ==
  ASSUME IInv, NEW h \in Hunks, ReadEntry(h)
  PROVE  IInv'
<1> USE DEF IInv, ReadEntry
<1>1. TypeOK'
  <2>1. WindowsAreOfTheMap'
    BY TypeOKSays DEF WindowsAreOfTheMap
  <2>2. ResumeAndReplyOK'
    <3>1. reply'.path \in {"file", "failed"}
      BY DEF Answer, Failure
    <3>2. lapsed' \in BOOLEAN
      BY TypeOKSays, Zenon DEF ResumeAndReplyOK
    <3> QED BY <3>1, <3>2, TypeOKSays DEF ResumeAndReplyOK
  <2> QED BY <2>1, <2>2, TypeOKSaysNext
<1>2. EntriesAreExact'
  BY DEF EntriesAreExact, ExactUntilACallFails, CheckpointsHeal, Exact, Answer, Failure,
         TheEntry, DanglingAfterAFailure
<1>3. (ResumeIsExact /\ ResumesInItsBucket /\ DanglingAfterAFailure /\ ResumeIsARecord)'
  BY DEF ResumeIsExact, ResumesInItsBucket, DanglingAfterAFailure, ResumeIsARecord
<1> QED BY <1>1, <1>2, <1>3

LEMMA StutterKeeps ==
  ASSUME IInv, UNCHANGED vars
  PROVE  IInv'
<1> USE DEF IInv, vars
<1>1. TypeOK'
  BY DEF TypeOK
<1>2. EntriesAreExact'
  BY DEF EntriesAreExact, ExactUntilACallFails, CheckpointsHeal, Exact, TheEntry
<1>3. (ResumeIsExact /\ ResumesInItsBucket /\ DanglingAfterAFailure /\ ResumeIsARecord)'
  BY DEF ResumeIsExact, ResumesInItsBucket, DanglingAfterAFailure, ResumeIsARecord
<1> QED BY <1>1, <1>2, <1>3

(* What has been resumed may be resumed again one hunk further on.          *)
Advanced(r, cur_hunk, state) == [r EXCEPT !.cur_hunk = cur_hunk, !.state = state]

LEMMA AdvancedIs ==
  ASSUME ResumeIsARecord, NEW c, NEW s
  PROVE  Advanced(resume, c, s) =
           [valid |-> resume.valid, cur_hunk |-> c, next_boundary |-> resume.next_boundary,
            end1 |-> resume.end1, end2 |-> resume.end2, state |-> s]
<1> DEFINE r == resume
           R(x, y) == [valid |-> r.valid, cur_hunk |-> x, next_boundary |-> r.next_boundary,
                       end1 |-> r.end1, end2 |-> r.end2, state |-> y]
<1>1. r = R(r.cur_hunk, r.state)
  BY DEF ResumeIsARecord
<1>2. Advanced(r, c, s) = [[r EXCEPT !.cur_hunk = c] EXCEPT !.state = s]
  BY <1>1 DEF Advanced
<1>3. [R(r.cur_hunk, r.state) EXCEPT !.cur_hunk = c] = R(c, r.state)
  OBVIOUS
<1>4. [R(c, r.state) EXCEPT !.state = s] = R(c, s)
  OBVIOUS
<1> HIDE DEF R, r
<1>5. [[r EXCEPT !.cur_hunk = c] EXCEPT !.state = s] = R(c, s)
  BY <1>1, <1>3, <1>4, Zenon
<1>6. Advanced(r, c, s) = R(c, s)
  BY <1>2, <1>5, Zenon
<1> QED BY <1>6 DEF R, r

(* The three conjuncts of the invariant that are about what is resumed,     *)
(* after a step that advances it.                                           *)
LEMMA AdvancedKeeps ==
  ASSUME ResumeIsARecord, NEW c, NEW s, resume' = Advanced(resume, c, s)
  PROVE  /\ ResumeIsARecord'
         /\ resume'.valid = resume.valid /\ resume'.cur_hunk = c
         /\ resume'.next_boundary = resume.next_boundary
         /\ resume'.end1 = resume.end1 /\ resume'.end2 = resume.end2
         /\ resume'.state = s
<1>1. resume' = [valid |-> resume.valid, cur_hunk |-> c, next_boundary |-> resume.next_boundary,
                 end1 |-> resume.end1, end2 |-> resume.end2, state |-> s]
  BY AdvancedIs
<1> QED BY ONLY <1>1 DEF ResumeIsARecord

LEMMA FastPathKeeps ==
  ASSUME IInv, NEW h \in Hunks, FastPath(h)
  PROVE  IInv'
<1> DEFINE d == Decoded(map.codes, map.fields, resume.end1, resume.end2, resume.state, h, h)
<1>1. /\ map.compressed /\ MayResume(h) /\ dangling = {}
      /\ UNCHANGED <<map, window1, window2, dangling>>
  BY DEF FastPath
<1>2. resume.valid /\ resume.cur_hunk = h /\ h < resume.next_boundary
  BY <1>1 DEF MayResume
<1>3. /\ WindowsAreOfTheMap /\ ResumeAndReplyOK /\ ResumeIsARecord /\ ResumeIsExact
      /\ ResumesInItsBucket /\ EntriesAreExact
  BY TypeOKSays DEF IInv
<1>4. PICK b \in Buckets :
        /\ resume.end1 = BucketCodes(map.codes, b).to
        /\ resume.end2 = BucketFields(map.codes, map.fields, b).to
        /\ resume.next_boundary = Boundary(b)
  BY <1>1, <1>2, <1>3 DEF ResumesInItsBucket
<1>5. /\ d.p = Types(map.codes)[h + 1]
      /\ d.q = States(map.codes, map.fields)[h + 1]
      /\ d.entry = TheEntry(h)
  <2>1. /\ resume.state.p = Types(map.codes)[h]
        /\ resume.state.q = States(map.codes, map.fields)[h]
    BY <1>1, <1>2, <1>3, ResumeIsExactSays
  <2>2. map \in Maps /\ h \in Nat /\ h <= h /\ h < Boundary(b)
    BY <1>2, <1>3, <1>4 DEF WindowsAreOfTheMap, Hunks
  <2> QED BY <1>1, <1>4, <2>1, <2>2, DecodedInABucket
<1>6. WindowsAreOfTheMap'
  BY <1>1, <1>3 DEF WindowsAreOfTheMap
<1>7. CASE d.ok
  <2>1. /\ resume' = Advanced(resume, h + 1, [p |-> d.p, q |-> d.q])
        /\ reply' = Answer(h, "resumed", d.entry)
        /\ UNCHANGED lapsed
    BY <1>7 DEF FastPath, Advanced
  <2> DEFINE s == [p |-> d.p, q |-> d.q]
  <2>2. s.p = d.p /\ s.q = d.q
    OBVIOUS
  <2> HIDE DEF d, s
  <2>3. /\ ResumeIsARecord'
        /\ resume'.valid = resume.valid /\ resume'.cur_hunk = h + 1
        /\ resume'.next_boundary = resume.next_boundary
        /\ resume'.end1 = resume.end1 /\ resume'.end2 = resume.end2
        /\ resume'.state = s
    BY <1>3, <2>1, AdvancedKeeps DEF s
  <2>4. ResumeAndReplyOK'
    <3>1. reply'.path = "resumed"
      BY <2>1 DEF Answer
    <3>2. h + 1 \in 0 .. resume.next_boundary /\ resume.next_boundary \in 0 .. HunkCount
      BY <1>2, <1>3, MapAssumption DEF ResumeAndReplyOK, Hunks
    <3>3. lapsed' \in BOOLEAN /\ resume'.valid \in BOOLEAN
      BY <1>3, <2>1, <2>3, Zenon DEF ResumeAndReplyOK
    <3>4. dangling' \subseteq {1, 2}
      BY <1>1
    <3> QED BY <2>3, <3>1, <3>2, <3>3, <3>4 DEF ResumeAndReplyOK
  <2>5. EntriesAreExact'
    <3>1. reply'.entry = TheEntry(h)' /\ reply'.hunk = h
      BY <2>1, <1>1, <1>5 DEF Answer, TheEntry
    <3> QED BY <3>1, <1>1 DEF EntriesAreExact, ExactUntilACallFails, CheckpointsHeal, Exact
  <2>6. ResumeIsExact'
    <3>1. /\ resume'.state.p = Types(map.codes)[h + 1]
          /\ resume'.state.q = States(map.codes, map.fields)[h + 1]
      BY <2>2, <2>3, <1>5
    <3> QED BY <3>1, <2>3, <1>1 DEF ResumeIsExact, Types, States
  <2>7. ResumesInItsBucket' /\ DanglingAfterAFailure'
    BY <2>3, <1>1, <1>4 DEF ResumesInItsBucket, DanglingAfterAFailure
  <2> QED BY <1>6, <2>3, <2>4, <2>5, <2>6, <2>7, TypeOKSaysNext DEF IInv
<1>8. CASE ~d.ok
  <2>1. reply' = Failure(h) /\ lapsed' = TRUE /\ UNCHANGED resume
    BY <1>8 DEF FastPath
  <2>2. ResumeAndReplyOK'
    <3>1. reply'.path = "failed"
      BY <2>1 DEF Failure
    <3> QED BY <3>1, <2>1, <1>1, <1>3 DEF ResumeAndReplyOK
  <2>3. EntriesAreExact'
    <3>1. reply'.path = "failed"
      BY <2>1 DEF Failure
    <3> QED BY <3>1, <2>1 DEF EntriesAreExact, ExactUntilACallFails, CheckpointsHeal
  <2>4. (ResumeIsExact /\ ResumesInItsBucket /\ DanglingAfterAFailure /\ ResumeIsARecord)'
    BY <2>1, <1>1, <1>3 DEF ResumeIsExact, ResumesInItsBucket, DanglingAfterAFailure, ResumeIsARecord
  <2> QED BY <1>6, <2>2, <2>3, <2>4, TypeOKSaysNext DEF IInv
<1> QED BY <1>7, <1>8

LEMMA FastPathIntoFreedMemoryKeeps ==
  ASSUME IInv, NEW h \in Hunks, FastPathIntoFreedMemory(h)
  PROVE  IInv'
<1>1. /\ MayResume(h) /\ dangling # {}
      /\ UNCHANGED <<map, window1, window2, dangling, lapsed>>
  BY DEF FastPathIntoFreedMemory
<1>2. resume.valid /\ resume.cur_hunk = h /\ h < resume.next_boundary
  BY <1>1 DEF MayResume
<1>3. WindowsAreOfTheMap /\ ResumeAndReplyOK /\ ResumeIsARecord
  BY TypeOKSays DEF IInv
<1>4. lapsed /\ dangling' # {}
  BY <1>1 DEF IInv, DanglingAfterAFailure
<1>5. WindowsAreOfTheMap'
  BY <1>1, <1>3 DEF WindowsAreOfTheMap
<1>6. reply'.path \in {"resumed", "failed"}
  BY DEF FastPathIntoFreedMemory, Answer, Failure
<1>7. EntriesAreExact'
  <2>1. lapsed'
    BY <1>1, <1>4, Zenon
  <2> QED BY <2>1, <1>6 DEF EntriesAreExact, ExactUntilACallFails, CheckpointsHeal
<1>8. (ResumeIsExact /\ ResumesInItsBucket)'
  BY <1>4 DEF ResumeIsExact, ResumesInItsBucket
<1>9. DanglingAfterAFailure'
  BY <1>1, <1>4 DEF DanglingAfterAFailure
<1>10. ResumeIsARecord' /\ ResumeAndReplyOK'
  <2>1. CASE UNCHANGED resume
    BY <2>1, <1>1, <1>3, <1>6 DEF ResumeIsARecord, ResumeAndReplyOK
  <2>2. CASE resume' = Advanced(resume, h + 1, Unknown)
    <3>1. /\ ResumeIsARecord'
          /\ resume'.valid = resume.valid /\ resume'.cur_hunk = h + 1
          /\ resume'.next_boundary = resume.next_boundary
      BY <1>3, <2>2, AdvancedKeeps
    <3>2. h + 1 \in 0 .. resume.next_boundary /\ resume.next_boundary \in 0 .. HunkCount
      BY <1>2, <1>3, MapAssumption DEF ResumeAndReplyOK, Hunks
    <3>3. lapsed' \in BOOLEAN /\ resume'.valid \in BOOLEAN
      BY <1>1, <1>3, <3>1, Zenon DEF ResumeAndReplyOK
    <3>4. dangling' \subseteq {1, 2}
      BY <1>1, <1>3 DEF ResumeAndReplyOK
    <3> QED BY <1>6, <3>1, <3>2, <3>3, <3>4 DEF ResumeAndReplyOK
  <2> QED BY <2>1, <2>2 DEF FastPathIntoFreedMemory, Advanced
<1> QED BY <1>3, <1>5, <1>7, <1>8, <1>9, <1>10, TypeOKSaysNext DEF IInv

(* A window that has come is that of its bucket; one that has not is the    *)
(* one there was.                                                           *)
LEMMA EnsuredWindow ==
  ASSUME NEW win, NEW bucket \in Nat, NEW from, NEW to,
         NEW w \in ensure_v5_map_window(win, bucket, [from |-> from, to |-> to]),
         win.bucket = bucket => win.from = from /\ win.to = to
  PROVE  /\ w.ok \in BOOLEAN
         /\ w.win = win \/ w.win = [bucket |-> bucket, from |-> from, to |-> to]
         /\ w.ok => w.win.to = to
<1>1. CASE win.bucket = bucket
  <2>1. w = [ok |-> TRUE, win |-> win]
    BY <1>1 DEF ensure_v5_map_window
  <2> QED BY <2>1, <1>1
<1>2. CASE win.bucket # bucket
  <2>1. \/ w = [ok |-> TRUE, win |-> [bucket |-> bucket, from |-> from, to |-> to]]
        \/ w = [ok |-> FALSE, win |-> win]
    BY <1>2 DEF ensure_v5_map_window
  <2>2. CASE w = [ok |-> TRUE, win |-> [bucket |-> bucket, from |-> from, to |-> to]]
    <3>1. w.ok = TRUE /\ w.win = [bucket |-> bucket, from |-> from, to |-> to]
      BY ONLY <2>2
    <3>2. w.win.to = to
      BY ONLY <3>1
    <3> QED BY ONLY <3>1, <3>2
  <2>3. CASE w = [ok |-> FALSE, win |-> win]
    <3>1. w.ok = FALSE /\ w.win = win
      BY ONLY <2>3
    <3> QED BY ONLY <3>1
  <2> QED BY <2>1, <2>2, <2>3
<1> QED BY <1>1, <1>2

LEMMA SlowPathKeeps ==
  ASSUME IInv, NEW h \in Hunks, SlowPath(h)
  PROVE  IInv'
<1> DEFINE b == BucketOf(h)
           cp == Checkpoint(map.codes, map.fields, b)
           part1 == BucketCodes(map.codes, b)
           part2 == BucketFields(map.codes, map.fields, b)
<1>1. /\ WindowsAreOfTheMap /\ ResumeAndReplyOK /\ ResumeIsARecord /\ ResumeIsExact
      /\ ResumesInItsBucket /\ DanglingAfterAFailure /\ map \in Maps
  BY TypeOKSays DEF IInv, WindowsAreOfTheMap
<1>2. b \in Buckets /\ b \in Nat /\ b * Stride \in 0 .. h /\ h < Boundary(b) /\ b * Stride \in Hunks
  BY BucketFacts, BucketBounds DEF Buckets
<1>3. map.compressed /\ UNCHANGED map
  BY DEF SlowPath
<1>4. /\ part1 = [from |-> part1.from, to |-> part1.to]
      /\ part2 = [from |-> part2.from, to |-> part2.to]
  BY DEF BucketCodes, BucketFields
<1>5. /\ cp.hunknum = b * Stride
      /\ cp.p = Types(map.codes)[b * Stride]
      /\ cp.q = States(map.codes, map.fields)[b * Stride]
  BY DEF Checkpoint, Types, States
<1>6. PICK w1 \in ensure_v5_map_window(window1, b, part1) :
        /\ window1' = w1.win
        /\ \/ /\ ~w1.ok
              /\ UNCHANGED <<window2, resume, dangling>>
              /\ reply' = Failure(h)
              /\ lapsed' = TRUE
           \/ /\ w1.ok
              /\ \E w2 \in ensure_v5_map_window(window2, b, part2) :
                   LET d == Decoded(map.codes, map.fields, w1.win.to, w2.win.to,
                                    cp, cp.hunknum, h)
                   IN  /\ window2' = w2.win
                       /\ IF w2.ok /\ d.ok
                            THEN /\ resume' = ResumeAfter(h, Boundary(b), w1.win.to,
                                                w2.win.to, [p |-> d.p, q |-> d.q])
                                 /\ dangling' = {}
                                 /\ reply' = Answer(h, "checkpoint", d.entry)
                                 /\ UNCHANGED lapsed
                            ELSE /\ dangling' = dangling \cup Freed(1, window1, w1.win)
                                                         \cup Freed(2, window2, w2.win)
                                 /\ reply' = Failure(h)
                                 /\ lapsed' = TRUE
                                 /\ UNCHANGED resume
  BY Zenon DEF SlowPath
<1> HIDE DEF b, part1, part2, cp
<1>7. /\ w1.win = window1 \/ w1.win = [bucket |-> b, from |-> part1.from, to |-> part1.to]
      /\ w1.ok => w1.win.to = part1.to
  <2>1. window1.bucket = b => window1.from = part1.from /\ window1.to = part1.to
    <3>1. NoWindow.bucket # b
      BY <1>2 DEF NoWindow
    <3>2. ASSUME window1.bucket = b, [from |-> window1.from, to |-> window1.to] = part1
          PROVE  window1.from = part1.from /\ window1.to = part1.to
      BY ONLY <3>2
    <3> QED BY <3>1, <3>2, <1>1 DEF WindowsAreOfTheMap, part1
  <2>2. w1 \in ensure_v5_map_window(window1, b, [from |-> part1.from, to |-> part1.to])
    BY <1>4, <1>6
  <2> QED BY <2>1, <2>2, <1>2, EnsuredWindow
<1>8. ASSUME NEW w2 \in ensure_v5_map_window(window2, b, part2)
      PROVE  /\ w2.win = window2 \/ w2.win = [bucket |-> b, from |-> part2.from, to |-> part2.to]
             /\ w2.ok => w2.win.to = part2.to
  <2>1. window2.bucket = b => window2.from = part2.from /\ window2.to = part2.to
    <3>1. NoWindow.bucket # b
      BY <1>2 DEF NoWindow
    <3>2. ASSUME window2.bucket = b, [from |-> window2.from, to |-> window2.to] = part2
          PROVE  window2.from = part2.from /\ window2.to = part2.to
      BY ONLY <3>2
    <3> QED BY <3>1, <3>2, <1>1 DEF WindowsAreOfTheMap, part2
  <2>2. w2 \in ensure_v5_map_window(window2, b, [from |-> part2.from, to |-> part2.to])
    BY <1>4, <1>8
  <2> QED BY <2>1, <2>2, <1>2, EnsuredWindow
<1>9. \/ window2' = window2
      \/ window2' = [bucket |-> b, from |-> part2.from, to |-> part2.to]
  BY <1>6, <1>8
<1>10. WindowsAreOfTheMap'
  <2>1. \/ window1' = window1
        \/ window1' = [bucket |-> b, from |-> part1.from, to |-> part1.to]
    BY <1>6, <1>7
  <2>2. (window1 = NoWindow \/ /\ window1.bucket \in Buckets
                               /\ [from |-> window1.from, to |-> window1.to]
                                    = BucketCodes(map.codes, window1.bucket))'
    BY <2>1, <1>1, <1>2, <1>3, <1>4 DEF WindowsAreOfTheMap, part1
  <2>3. (window2 = NoWindow \/ /\ window2.bucket \in Buckets
                               /\ [from |-> window2.from, to |-> window2.to]
                                    = BucketFields(map.codes, map.fields, window2.bucket))'
    BY <1>1, <1>2, <1>3, <1>4, <1>9 DEF WindowsAreOfTheMap, part2
  <2> QED BY <2>2, <2>3, <1>1, <1>3 DEF WindowsAreOfTheMap
<1>11. CASE UNCHANGED resume /\ reply' = Failure(h) /\ lapsed' = TRUE
            /\ dangling \subseteq dangling' /\ dangling' \subseteq dangling \cup {1, 2}
  <2>1. ResumeAndReplyOK'
    <3>1. reply'.path = "failed"
      BY <1>11 DEF Failure
    <3> QED BY <3>1, <1>11, <1>1 DEF ResumeAndReplyOK
  <2>2. EntriesAreExact'
    <3>1. reply'.path = "failed"
      BY <1>11 DEF Failure
    <3> QED BY <3>1, <1>11 DEF EntriesAreExact, ExactUntilACallFails, CheckpointsHeal
  <2>3. dangling' = {} => dangling = {}
    BY <1>11
  <2>4. (ResumeIsExact /\ ResumesInItsBucket /\ DanglingAfterAFailure /\ ResumeIsARecord)'
    BY <2>3, <1>11, <1>1, <1>3
    DEF ResumeIsExact, ResumesInItsBucket, DanglingAfterAFailure, ResumeIsARecord
  <2> QED BY <1>10, <2>1, <2>2, <2>4, TypeOKSaysNext DEF IInv
<1>12. CASE ~w1.ok
  BY <1>6, <1>11, <1>12
<1>13. CASE w1.ok
  <2>1. PICK w2 \in ensure_v5_map_window(window2, b, part2) :
          LET d == Decoded(map.codes, map.fields, w1.win.to, w2.win.to, cp, cp.hunknum, h)
          IN  /\ window2' = w2.win
              /\ IF w2.ok /\ d.ok
                   THEN /\ resume' = ResumeAfter(h, Boundary(b), w1.win.to,
                                       w2.win.to, [p |-> d.p, q |-> d.q])
                        /\ dangling' = {}
                        /\ reply' = Answer(h, "checkpoint", d.entry)
                        /\ UNCHANGED lapsed
                   ELSE /\ dangling' = dangling \cup Freed(1, window1, w1.win)
                                                \cup Freed(2, window2, w2.win)
                        /\ reply' = Failure(h)
                        /\ lapsed' = TRUE
                        /\ UNCHANGED resume
    BY <1>6, <1>13
  <2> DEFINE d == Decoded(map.codes, map.fields, w1.win.to, w2.win.to, cp, cp.hunknum, h)
  <2>2. CASE ~(w2.ok /\ d.ok)
    <3>1. /\ dangling' = dangling \cup Freed(1, window1, w1.win) \cup Freed(2, window2, w2.win)
          /\ reply' = Failure(h) /\ lapsed' = TRUE /\ UNCHANGED resume
      BY <2>1, <2>2
    <3>2. Freed(1, window1, w1.win) \subseteq {1, 2} /\ Freed(2, window2, w2.win) \subseteq {1, 2}
      BY DEF Freed
    <3> QED BY <3>1, <3>2, <1>11
  <2>3. CASE w2.ok /\ d.ok
    <3>1. /\ resume' = ResumeAfter(h, Boundary(b), w1.win.to, w2.win.to, [p |-> d.p, q |-> d.q])
          /\ dangling' = {}
          /\ reply' = Answer(h, "checkpoint", d.entry)
          /\ UNCHANGED lapsed
      BY <2>1, <2>3
    <3>2. w1.win.to = part1.to /\ w2.win.to = part2.to
      BY <1>7, <1>8, <1>13, <2>3
    <3>3. /\ d.p = Types(map.codes)[h + 1]
          /\ d.q = States(map.codes, map.fields)[h + 1]
          /\ d.entry = TheEntry(h)
      <4>1. b * Stride <= h
        BY <1>2 DEF Hunks
      <4> QED BY <3>2, <4>1, <1>1, <1>2, <1>3, <1>5, DecodedInABucket DEF part1, part2
    <3> DEFINE s == [p |-> d.p, q |-> d.q]
    <3>4. s.p = d.p /\ s.q = d.q
      OBVIOUS
    <3> HIDE DEF d, s
    <3>5. /\ ResumeIsARecord'
          /\ resume'.valid = TRUE /\ resume'.cur_hunk = h + 1
          /\ resume'.next_boundary = Boundary(b)
          /\ resume'.end1 = part1.to /\ resume'.end2 = part2.to
          /\ resume'.state = s
      <4>1. resume' = [valid |-> TRUE, cur_hunk |-> h + 1, next_boundary |-> Boundary(b),
                       end1 |-> part1.to, end2 |-> part2.to, state |-> s]
        BY <3>1, <3>2 DEF ResumeAfter, s
      <4> QED BY ONLY <4>1 DEF ResumeIsARecord
    <3>6. ResumeAndReplyOK'
      <4>1. reply'.path = "checkpoint"
        BY <3>1 DEF Answer
      <4>2. h + 1 \in 0 .. Boundary(b) /\ Boundary(b) \in 0 .. HunkCount
        BY <1>2, BucketBounds, MapAssumption DEF Hunks
      <4>3. lapsed' \in BOOLEAN /\ resume'.valid \in BOOLEAN
        BY <1>1, <3>1, <3>5, Zenon DEF ResumeAndReplyOK
      <4> QED BY <3>1, <3>5, <4>1, <4>2, <4>3 DEF ResumeAndReplyOK
    <3>7. EntriesAreExact'
      <4>1. reply'.entry = TheEntry(h)' /\ reply'.hunk = h
        BY <3>1, <3>3, <1>3 DEF Answer, TheEntry
      <4> QED BY <4>1, <3>1 DEF EntriesAreExact, ExactUntilACallFails, CheckpointsHeal, Exact
    <3>8. ResumeIsExact'
      BY <3>3, <3>4, <3>5, <1>3 DEF ResumeIsExact, Types, States
    <3>9. ResumesInItsBucket' /\ DanglingAfterAFailure'
      BY <3>1, <3>5, <1>2, <1>3 DEF ResumesInItsBucket, DanglingAfterAFailure, part1, part2
    <3> QED BY <1>10, <3>5, <3>6, <3>7, <3>8, <3>9, TypeOKSaysNext DEF IInv
  <2> QED BY <2>2, <2>3
<1> QED BY <1>12, <1>13

LEMMA NextKeepsIInv == IInv /\ [Next]_vars => IInv'
<1> SUFFICES ASSUME IInv, [Next]_vars PROVE IInv'
  OBVIOUS
<1>1. ASSUME NEW h \in Hunks, v5_map_get_entry(h) PROVE IInv'
  BY <1>1, ReadEntryKeeps, FastPathKeeps, FastPathIntoFreedMemoryKeeps, SlowPathKeeps
  DEF v5_map_get_entry
<1>2. CASE UNCHANGED vars
  BY <1>2, StutterKeeps
<1> QED BY <1>1, <1>2 DEF Next

LEMMA InvariantHolds == Spec => []IInv
BY InitIInv, NextKeepsIInv, PTL DEF Spec

(* The types of the state, and that a window, once there, is exactly the    *)
(* part of the map its bucket needs (ensure_v5_map_window).                 *)
THEOREM WindowsHoldTheirBucket == Spec => []TypeOK
<1>1. IInv => TypeOK
  BY DEF IInv
<1> QED BY <1>1, InvariantHolds, PTL

(* For every map, hunk count and stride: until a call of v5_map_get_entry() *)
(* fails every entry is that of decompress_v5_map(), and after failures     *)
(* still every one that was decoded from its checkpoint.                    *)
THEOREM OnDemandEntriesAreExact == Spec => []EntriesAreExact
<1>1. IInv => EntriesAreExact
  BY DEF IInv
<1> QED BY <1>1, InvariantHolds, PTL

(* Whenever its windows are held, the state v5_map_get_entry() leaves to be *)
(* resumed is that of the two passes over the whole map at that hunk.       *)
THEOREM ResumedStateIsExact == Spec => []ResumeIsExact
<1>1. IInv => ResumeIsExact
  BY DEF IInv
<1> QED BY <1>1, InvariantHolds, PTL
================================================================================
