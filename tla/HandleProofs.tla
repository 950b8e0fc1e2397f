----------------------------- MODULE HandleProofs -----------------------------
(****************************************************************************)
(* What a handle owns has one owner and goes with it: files and parents     *)
(* (OpenClose), the states of its codecs (CodecSlots), the memory its       *)
(* codecs keep for their libraries (CodecMemory).  The three share no       *)
(* state, and their proofs follow one after the other.                      *)
(****************************************************************************)
EXTENDS OpenClose, CodecSlots, CodecMemory, FiniteSetTheorems, TLAPS

-----------------------------------------------------------------------------
(****************************************************************************)
(* Every file and every handle has one owner, for every set of files, every *)
(* relation of children and parents among them and every number of handles, *)
(* whatever way opens fail.                                                 *)
(*                                                                          *)
(* Families are what the argument is about: the handles that chd_close()    *)
(* takes down with one.  They are chains, those of the handles an           *)
(* application owns have nothing in common, and together they are all there *)
(* is.  Closing takes one of them away, opening puts a handle on top of one *)
(* or starts another.                                                       *)
(****************************************************************************)

(* A nonempty set of naturals has a least element: the initial segments     *)
(* below its elements are finite sets, and strict inclusion is well-founded *)
(* on those.                                                                *)
LEMMA LeastHandle ==
  ASSUME NEW T \in SUBSET Nat, T # {}
  PROVE  \E n \in T : \A m \in T : n <= m
<1> DEFINE U == {0 .. (n - 1) : n \in T}
<1>1. U \subseteq FiniteSubsetsOf(Nat) /\ U # {}
  <2>1. \A n \in T : IsFiniteSet(0 .. (n - 1)) /\ 0 .. (n - 1) \subseteq Nat
    BY FS_Interval
  <2> QED BY <2>1, Zenon DEF FiniteSubsetsOf
<1>2. PICK x \in U : \A y \in U : <<y, x>> \notin StrictSubsetOrdering(Nat)
  <2> HIDE DEF U
  <2> QED BY <1>1, FS_StrictSubsetOrderingWellFounded, WFMin, Zenon
<1>3. PICK n \in T : x = 0 .. (n - 1)
  OBVIOUS
<1>4. ASSUME NEW m \in T, m < n PROVE FALSE
  <2> DEFINE y == 0 .. (m - 1)
  <2>1. y \in U /\ y \subseteq x /\ y # x
    BY <1>3, <1>4
  <2>2. <<y, x>> \in StrictSubsetOrdering(Nat)
    BY <2>1, <1>3 DEF StrictSubsetOrdering
  <2> QED BY <2>1, <2>2, <1>2
<1> QED BY <1>4

-----------------------------------------------------------------------------
(* Families.                                                                *)

(* Parents are older than their children, so that a chain has an end.       *)
ChainsGoDown ==
  /\ live \subseteq Handles
  /\ \A h \in live : handle[h].parent \in 0 .. (h - 1)

(* What the recursion of chd_close() is to compute.                         *)
FamilyEquation ==
  \A x, p \in 0 .. MaxHandles :
    /\ x \notin live => Family(x) = {}
    /\ x \in live /\ handle[x].parent = p => Family(x) = {x} \cup Family(p)

Extends(k, L, p, g) ==
  \A x \in 0 .. k : g[x] = IF x \in L THEN {x} \cup g[p[x]] ELSE {}

FamiliesOf(n, L, p, g) == g = [x \in 0 .. n |-> IF x \in L THEN {x} \cup g[p[x]] ELSE {}]

LEMMA FamiliesExist ==
  ASSUME NEW n \in Nat, NEW L \in SUBSET (1 .. n), NEW p, \A x \in L : p[x] \in 0 .. (x - 1)
  PROVE  \E g : FamiliesOf(n, L, p, g)
<1> DEFINE T == {k \in 0 .. n : \A g : ~ Extends(k, L, p, g)}
<1>1. ASSUME NEW k \in T, \A m \in T : k <= m PROVE FALSE
  <2>1. k \in 0 .. n /\ \A g : ~ Extends(k, L, p, g)
    OBVIOUS
  <2>2. Extends(0, L, p, [x \in 0 .. 0 |-> {}])
    BY DEF Extends
  <2>3. k # 0
    BY <2>1, <2>2
  <2>4. k - 1 \in 0 .. n /\ k - 1 \notin T
    <3> HIDE DEF T
    <3> QED BY <1>1, <2>1, <2>3
  <2>5. PICK f : Extends(k - 1, L, p, f)
    BY <2>4
  <2> DEFINE g == [x \in 0 .. k |-> IF x < k THEN f[x] ELSE IF k \in L THEN {k} \cup f[p[k]] ELSE {}]
  <2>6. Extends(k, L, p, g)
    <3>1. ASSUME NEW x \in 0 .. k PROVE g[x] = IF x \in L THEN {x} \cup g[p[x]] ELSE {}
      <4>1. x \in L => p[x] \in 0 .. k /\ p[x] < x /\ g[p[x]] = f[p[x]]
        BY <2>1
      <4>2. CASE x = k
        <5>1. g[k] = IF k \in L THEN {k} \cup f[p[k]] ELSE {}
          BY <2>1
        <5> HIDE DEF g
        <5> QED BY <5>1, <4>1, <4>2
      <4>3. CASE x # k
        <5>1. x \in 0 .. (k - 1) /\ g[x] = f[x]
          BY <4>3, <2>1
        <5>2. f[x] = IF x \in L THEN {x} \cup f[p[x]] ELSE {}
          BY <5>1, <2>5 DEF Extends
        <5> HIDE DEF g
        <5> QED BY <5>1, <5>2, <4>1
      <4> QED BY <4>2, <4>3
    <3> HIDE DEF g
    <3> QED BY <3>1 DEF Extends
  <2> HIDE DEF g
  <2> QED BY <2>1, <2>6
<1>2. T = {}
  <2>1. T \subseteq Nat
    OBVIOUS
  <2> HIDE DEF T
  <2> QED BY <1>1, <2>1, LeastHandle
<1>3. PICK f : Extends(n, L, p, f)
  <2>1. n \notin T
    BY <1>2
  <2> QED BY <2>1
<1> DEFINE g == [x \in 0 .. n |-> f[x]]
<1>4. \A x \in 0 .. n : g[x] = IF x \in L THEN {x} \cup g[p[x]] ELSE {}
  <2>1. ASSUME NEW x \in 0 .. n PROVE g[x] = IF x \in L THEN {x} \cup g[p[x]] ELSE {}
    <3>1. x \in L => p[x] \in 0 .. n
      OBVIOUS
    <3>2. f[x] = IF x \in L THEN {x} \cup f[p[x]] ELSE {}
      BY <1>3 DEF Extends
    <3> QED BY <3>1, <3>2
  <2> QED BY <2>1
<1>5. g = [x \in 0 .. n |-> g[x]]
  OBVIOUS
<1> HIDE DEF g
<1>6. g = [x \in 0 .. n |-> IF x \in L THEN {x} \cup g[p[x]] ELSE {}]
  BY <1>4, <1>5
<1> QED BY <1>6 DEF FamiliesOf

(* A family is a handle and the family of its parent.                       *)
LEMMA FamilyIs == ChainsGoDown => FamilyEquation
<1> SUFFICES ASSUME ChainsGoDown PROVE FamilyEquation
  OBVIOUS
<1> DEFINE p == [x \in live |-> handle[x].parent]
           Solves(g) == g = [x \in 0 .. MaxHandles |->
                               IF x = NULL \/ x \notin live THEN {} ELSE {x} \cup g[handle[x].parent]]
           upTo == CHOOSE g : Solves(g)
<1>1. MaxHandles \in Nat /\ live \in SUBSET (1 .. MaxHandles) /\ \A x \in live : p[x] \in 0 .. (x - 1)
  BY OpenAssumption DEF ChainsGoDown, Handles
<1>2. \A x \in live : x # NULL /\ p[x] = handle[x].parent /\ handle[x].parent \in 0 .. MaxHandles
  BY <1>1 DEF NULL
<1> HIDE DEF p
<1>3. PICK g : FamiliesOf(MaxHandles, live, p, g)
  BY <1>1, FamiliesExist
<1>4. Solves(g)
  <2>1. \A x \in 0 .. MaxHandles :
          (IF x \in live THEN {x} \cup g[p[x]] ELSE {}) =
          (IF x = NULL \/ x \notin live THEN {} ELSE {x} \cup g[handle[x].parent])
    BY <1>2
  <2> QED BY <1>3, <2>1 DEF FamiliesOf
<1>5. Solves(upTo)
  <2> HIDE DEF Solves
  <2> QED BY <1>4
<1>6. \A x : Family(x) = upTo[x]
  BY DEF Family
<1>7. ASSUME NEW x \in 0 .. MaxHandles
      PROVE  upTo[x] = IF x \in live THEN {x} \cup upTo[handle[x].parent] ELSE {}
  <2> HIDE DEF upTo
  <2>1. upTo[x] = IF x = NULL \/ x \notin live THEN {} ELSE {x} \cup upTo[handle[x].parent]
    BY <1>5
  <2> QED BY <2>1, <1>2
<1> HIDE DEF upTo
<1>8. \A x \in 0 .. MaxHandles :
        Family(x) = IF x \in live THEN {x} \cup Family(handle[x].parent) ELSE {}
  BY <1>6, <1>7
<1> QED BY <1>8 DEF FamilyEquation
(* A family is of live handles, none younger than the first.                *)
LEMMA FamilyInside ==
  ASSUME ChainsGoDown
  PROVE  /\ Family(NULL) = {}
         /\ \A x \in live : x \in Family(x)
         /\ \A x \in 0 .. MaxHandles : Family(x) \subseteq live /\ Family(x) \subseteq 1 .. x
<1> USE OpenAssumption
<1>1. FamilyEquation
  BY FamilyIs
<1>2. \A x \in live : x \in 1 .. MaxHandles /\ handle[x].parent \in 0 .. (x - 1)
  BY DEF ChainsGoDown, Handles
<1>3. Family(NULL) = {} /\ \A x \in live : x \in Family(x)
  BY <1>1, <1>2 DEF FamilyEquation, NULL
<1> DEFINE T == {x \in 0 .. MaxHandles : ~ (Family(x) \subseteq live /\ Family(x) \subseteq 1 .. x)}
<1>4. ASSUME NEW x \in T, \A m \in T : x <= m PROVE FALSE
  <2>1. x \in 0 .. MaxHandles /\ ~ (Family(x) \subseteq live /\ Family(x) \subseteq 1 .. x)
    OBVIOUS
  <2>2. Family(x) = IF x \in live THEN {x} \cup Family(handle[x].parent) ELSE {}
    BY <1>1, <1>2, <2>1 DEF FamilyEquation
  <2>3. CASE x \notin live
    BY <2>1, <2>2, <2>3
  <2>4. CASE x \in live
    <3> DEFINE p == handle[x].parent
    <3>1. p \in 0 .. MaxHandles /\ p < x
      BY <1>2, <2>1, <2>4
    <3>2. p \notin T
      <4> HIDE DEF T, p
      <4> QED BY <1>4, <3>1, <2>1
    <3>3. Family(p) \subseteq live /\ Family(p) \subseteq 1 .. p
      BY <3>1, <3>2
    <3> HIDE DEF p
    <3>4. 1 .. p \subseteq 1 .. x /\ x \in 1 .. x
      BY <3>1, <2>1
    <3> HIDE DEF T
    <3> QED BY <2>1, <2>2, <2>4, <3>3, <3>4 DEF p
  <2> QED BY <2>3, <2>4
<1>5. T = {}
  <2>1. T \subseteq Nat
    OBVIOUS
  <2> HIDE DEF T
  <2> QED BY <1>4, <2>1, LeastHandle
<1> QED BY <1>3, <1>5

(* With a member a family has the member's parents.                         *)
ParentsLive == \A h \in live : handle[h].parent # NULL => handle[h].parent \in live

LEMMA FamilyUpwards ==
  ASSUME ChainsGoDown, ParentsLive
  PROVE  \A m \in 0 .. MaxHandles : \A x \in Family(m) :
           /\ Family(x) \subseteq Family(m)
           /\ handle[x].parent # NULL => handle[x].parent \in Family(m)
<1> USE OpenAssumption
<1>1. FamilyEquation
  BY FamilyIs
<1>2. \A x \in live : x \in 1 .. MaxHandles /\ handle[x].parent \in 0 .. (x - 1)
  BY DEF ChainsGoDown, Handles
<1> DEFINE Closed(m) == \A x \in Family(m) :
                          /\ Family(x) \subseteq Family(m)
                          /\ handle[x].parent # NULL => handle[x].parent \in Family(m)
           T == {m \in 0 .. MaxHandles : ~ Closed(m)}
<1>3. ASSUME NEW m \in T, \A n \in T : m <= n PROVE FALSE
  <2>1. m \in 0 .. MaxHandles /\ ~ Closed(m)
    OBVIOUS
  <2> HIDE DEF Closed
  <2>2. Family(m) = IF m \in live THEN {m} \cup Family(handle[m].parent) ELSE {}
    BY <1>1, <1>2, <2>1 DEF FamilyEquation
  <2>3. CASE m \notin live
    BY <2>1, <2>2, <2>3 DEF Closed
  <2>4. CASE m \in live
    <3> DEFINE p == handle[m].parent
    <3>1. p \in 0 .. MaxHandles /\ p < m
      BY <1>2, <2>1, <2>4
    <3>2. p # NULL => p \in Family(p)
      BY <2>4, FamilyInside DEF ParentsLive
    <3>3. p \notin T
      <4> HIDE DEF T, p
      <4> QED BY <1>3, <3>1, <2>1
    <3>4. Closed(p)
      <4> HIDE DEF p
      <4> QED BY <3>1, <3>3
    <3>5. Family(m) = {m} \cup Family(p)
      BY <2>2, <2>4
    <3>6. handle[m].parent = p
      OBVIOUS
    <3> HIDE DEF p, T
    <3>7. Closed(m)
      BY <3>2, <3>4, <3>5, <3>6 DEF Closed
    <3> QED BY <3>7, <2>1
  <2> QED BY <2>3, <2>4
<1>4. T = {}
  <2>1. T \subseteq Nat
    OBVIOUS
  <2> HIDE DEF T
  <2> QED BY <1>3, <2>1, LeastHandle
<1>5. \A m \in 0 .. MaxHandles : Closed(m)
  <2> HIDE DEF Closed
  <2> QED BY <1>4
<1> QED BY <1>5

(* A family whose members stay, with the parents they have, stays.          *)
Kept(x) == \A y \in Family(x) : y \in live' /\ handle'[y].parent = handle[y].parent

LEMMA FamilyStays ==
  ASSUME ChainsGoDown, ChainsGoDown', ParentsLive, NULL \notin live'
  PROVE  \A x \in live \cup {NULL} : Kept(x) => Family(x)' = Family(x)
<1> USE OpenAssumption
<1>1. FamilyEquation /\ FamilyEquation'
  BY FamilyIs, PTL
<1>2. \A x \in live : x \in 1 .. MaxHandles /\ handle[x].parent \in 0 .. (x - 1)
  BY DEF ChainsGoDown, Handles
<1> DEFINE T == {x \in live \cup {NULL} : Kept(x) /\ Family(x)' # Family(x)}
<1>3. ASSUME NEW x \in T, \A n \in T : x <= n PROVE FALSE
  <2>1. x \in live \cup {NULL} /\ Kept(x) /\ Family(x)' # Family(x) /\ x \in 0 .. MaxHandles
    BY <1>2 DEF NULL
  <2>2. /\ x \notin live => Family(x) = {}
        /\ x \notin live' => Family(x)' = {}
    BY <1>1, <2>1 DEF FamilyEquation
  <2>3. CASE x = NULL
    <3>1. x \notin live
      BY <2>3, <1>2 DEF NULL
    <3> QED BY <2>1, <2>2, <2>3, <3>1
  <2>4. CASE x \in live
    <3> DEFINE p == handle[x].parent
    <3>1. p \in 0 .. MaxHandles /\ p < x /\ p \in live \cup {NULL}
      BY <1>2, <2>1, <2>4 DEF ParentsLive
    <3>2. x \in Family(x) /\ x \in live' /\ handle'[x].parent = p
      BY <2>4, <2>1, FamilyInside DEF Kept
    <3>3. handle[x].parent = p
      OBVIOUS
    <3> HIDE DEF p
    <3>4. PICK q \in 0 .. MaxHandles : q = p
      BY <3>1
    <3>5. Family(x) = {x} \cup Family(q) /\ Family(x)' = {x} \cup Family(q)'
      BY <1>1, <2>1, <2>4, <3>2, <3>3, <3>4 DEF FamilyEquation
    <3>6. q \notin T
      <4> HIDE DEF T
      <4> QED BY <1>3, <3>1, <3>4, <2>1
    <3>7. Kept(q)
      BY <2>1, <3>5 DEF Kept
    <3> QED BY <3>1, <3>4, <3>5, <3>6, <3>7, <2>1
  <2> QED BY <2>1, <2>3, <2>4
<1>4. T = {}
  <2>1. T \subseteq Nat
    BY <1>2 DEF NULL
  <2> HIDE DEF T
  <2> QED BY <1>3, <2>1, LeastHandle
<1> QED BY <1>4
-----------------------------------------------------------------------------
(* The inductive invariant.  OneOwnerEach counts the owned handles that     *)
(* reach a handle; a step is better seen as moving whole families, each     *)
(* apart from the others.                                                   *)

Shapes ==
  /\ made \in 0 .. MaxHandles
  /\ live \subseteq 1 .. made
  /\ mine \subseteq live
  /\ DOMAIN handle = Handles
  /\ \A h \in live :
       /\ handle[h].file \in Files
       /\ handle[h].parent \in 0 .. (h - 1)
       /\ handle[h].owns \in BOOLEAN

FamiliesApart == \A m, n \in mine : m # n => Family(m) \cap Family(n) = {}
FamiliesAreAll == \A h \in live : \E m \in mine : h \in Family(m)

(* A file is opened once, so that handles do not share one.                 *)
FilesApart == \A h, k \in live : handle[h].file = handle[k].file => h = k

FilesInUse ==
  /\ file \in [Files -> {"fresh", "open", "lent", "closed"}]
  /\ \A h \in live : file[handle[h].file] \in {"open", "lent"}

HandlesInv == Shapes /\ ParentsLive /\ FamiliesApart /\ FamiliesAreAll /\ FilesApart
FilesInv == FilesInUse /\ FilesFollowHandles
OpenIInv == HandlesInv /\ FilesInv

LEMMA ShapesGoDown == Shapes => ChainsGoDown /\ live \subseteq 1 .. MaxHandles /\ NULL \notin live
BY OpenAssumption DEF Shapes, ChainsGoDown, Handles, NULL
(* A handle outside the family of an owned one has nothing to do with it,   *)
(* nor has its family.                                                      *)
LEMMA OthersAreApart ==
  ASSUME HandlesInv, NEW p \in mine \cup {NULL}, NEW x \in live, x \notin Family(p)
  PROVE  /\ Family(x) \cap Family(p) = {}
         /\ handle[x].parent \notin Family(p)
<1> USE OpenAssumption
<1>1. ChainsGoDown /\ live \subseteq 1 .. MaxHandles /\ NULL \notin live /\ mine \subseteq live
  BY ShapesGoDown DEF HandlesInv, Shapes
<1>2. PICK m \in mine : x \in Family(m)
  BY DEF HandlesInv, FamiliesAreAll
<1>3. m \in 0 .. MaxHandles
  BY <1>1
<1>4. Family(x) \subseteq Family(m) /\ (handle[x].parent # NULL => handle[x].parent \in Family(m))
  BY <1>1, <1>2, <1>3, FamilyUpwards DEF HandlesInv
<1>5. Family(m) \cap Family(p) = {}
  <2>1. CASE p = NULL
    BY <2>1, <1>1, FamilyInside
  <2>2. CASE p \in mine
    BY <2>2, <1>2 DEF HandlesInv, FamiliesApart
  <2> QED BY <2>1, <2>2
<1>6. NULL \notin Family(p)
  <2>1. p \in 0 .. MaxHandles
    BY <1>1 DEF NULL
  <2> QED BY <1>1, <2>1, FamilyInside
<1> QED BY <1>4, <1>5, <1>6

(* Closing takes one family away: that of p, or none when p is NULL.        *)
LEMMA CloseKeepsHandles ==
  ASSUME HandlesInv, NEW p \in mine \cup {NULL},
         live' = live \ Family(p), mine' = mine \ {p}, UNCHANGED <<made, handle>>
  PROVE  HandlesInv'
<1> USE OpenAssumption
<1>1. ChainsGoDown /\ live \subseteq 1 .. MaxHandles /\ NULL \notin live /\ mine \subseteq live
  BY ShapesGoDown DEF HandlesInv, Shapes
<1>2. \A m \in mine' : m \in live'
  <2>1. ASSUME NEW m \in mine, m # p PROVE m \notin Family(p)
    <3>1. m \in Family(m)
      BY <1>1, FamilyInside
    <3>2. CASE p = NULL
      BY <3>2, <1>1, FamilyInside
    <3>3. CASE p \in mine
      BY <3>1, <3>3, <2>1 DEF HandlesInv, FamiliesApart
    <3> QED BY <3>2, <3>3
  <2> QED BY <2>1, <1>1
<1>3. Shapes'
  BY <1>2 DEF HandlesInv, Shapes
<1>4. ParentsLive'
  <2>1. ASSUME NEW h \in live, h \notin Family(p), handle[h].parent # NULL
        PROVE  handle[h].parent \in live'
    <3>1. handle[h].parent \notin Family(p)
      BY <2>1, OthersAreApart
    <3> QED BY <3>1, <2>1 DEF HandlesInv, ParentsLive
  <2> QED BY <2>1 DEF ParentsLive
<1>5. ASSUME NEW x \in live, x \notin Family(p) PROVE Family(x)' = Family(x)
  <2>1. ChainsGoDown' /\ NULL \notin live'
    BY <1>1 DEF ChainsGoDown
  <2>2. Family(x) \subseteq live
    BY <1>1, FamilyInside
  <2>3. Kept(x)
    BY <2>2, <1>5, OthersAreApart DEF Kept
  <2> QED BY <1>1, <2>1, <2>3, FamilyStays DEF HandlesInv
<1>6. \A m \in mine' : m \in live /\ m \notin Family(p) /\ m \in mine
  BY <1>1, <1>2
<1>7. FamiliesApart'
  BY <1>5, <1>6 DEF HandlesInv, FamiliesApart
<1>8. FamiliesAreAll'
  <2>1. ASSUME NEW h \in live, h \notin Family(p) PROVE \E m \in mine' : h \in Family(m)'
    <3>1. PICK m \in mine : h \in Family(m)
      BY DEF HandlesInv, FamiliesAreAll
    <3>2. m \in mine' /\ m \notin Family(p)
      BY <3>1, <2>1, <1>6
    <3> QED BY <3>1, <3>2, <1>1, <1>5
  <2> QED BY <2>1 DEF FamiliesAreAll
<1>9. FilesApart'
  BY DEF HandlesInv, FilesApart
<1> QED BY <1>3, <1>4, <1>7, <1>8, <1>9 DEF HandlesInv

(* An open that succeeds puts a handle on top of the parent's family.       *)
LEMMA OpenKeepsHandles ==
  ASSUME HandlesInv, NEW f \in Files, NEW entry, NEW parent \in mine \cup {NULL},
         \A h \in live : handle[h].file # f,
         OpenSucceeds(f, entry, parent)
  PROVE  HandlesInv'
<1> USE OpenAssumption
<1> DEFINE record == [file |-> f, parent |-> parent, owns |-> OwnsFile(entry)]
<1>1. ChainsGoDown /\ live \subseteq 1 .. MaxHandles /\ NULL \notin live /\ mine \subseteq live
  BY ShapesGoDown DEF HandlesInv, Shapes
<1>0. PICK new \in Int : new = made + 1
  BY DEF HandlesInv, Shapes
<1>2. /\ made' = new /\ live' = live \cup {new} /\ mine' = (mine \ {parent}) \cup {new}
      /\ handle' = [handle EXCEPT ![new] = record]
      /\ new \in 1 .. MaxHandles /\ new \notin live /\ live \subseteq 1 .. made
      /\ DOMAIN handle = Handles /\ parent \in 0 .. made /\ parent # new
      /\ parent \in 0 .. (new - 1)
  <2>1. /\ made \in 0 .. MaxHandles /\ made < MaxHandles /\ live \subseteq 1 .. made
        /\ made' = new /\ live' = live \cup {new} /\ mine' = (mine \ {parent}) \cup {new}
        /\ handle' = [handle EXCEPT ![new] = record] /\ DOMAIN handle = Handles
    BY <1>0 DEF HandlesInv, Shapes, OpenSucceeds, OwnedAfter
  <2>0. parent \in 1 .. made \/ parent = 0
    BY <2>1, <1>1, Zenon DEF NULL
  <2>2. parent \in 0 .. made
    BY <2>0, <2>1
  <2>3. \A a, b, c, d \in Int :
          a \in 0 .. b /\ a < b /\ c = a + 1 /\ d \in 0 .. a =>
            c \in 1 .. b /\ c \notin 1 .. a /\ d # c /\ d \in 0 .. (c - 1)
    OBVIOUS
  <2>4. made \in Int /\ MaxHandles \in Int /\ parent \in Int
    BY <2>1, <2>2
  <2>5. new \in 1 .. MaxHandles /\ new \notin 1 .. made /\ parent # new /\ parent \in 0 .. (new - 1)
    BY <2>1, <2>2, <2>3, <2>4, <1>0, Zenon
  <2> HIDE DEF record
  <2> QED BY <2>1, <2>2, <2>5, Zenon
<1>3. /\ handle'[new] = record
      /\ \A h \in live : handle'[h] = handle[h]
      /\ DOMAIN handle' = Handles
  BY <1>1, <1>2 DEF Handles
<1>4. record.file = f /\ record.parent = parent /\ record.owns \in BOOLEAN
  BY DEF OwnsFile
<1> HIDE DEF record
<1>5. Shapes'
  <2>1. made' \in 0 .. MaxHandles /\ live' \subseteq 1 .. made' /\ mine' \subseteq live'
    <3>1. /\ made' = made + 1 /\ live' = live \cup {made + 1} /\ mine' = (mine \ {parent}) \cup {made + 1}
          /\ made \in 0 .. MaxHandles /\ made + 1 \in 1 .. MaxHandles
          /\ live \subseteq 1 .. made /\ mine \subseteq live
      BY <1>0, <1>1, <1>2 DEF HandlesInv, Shapes
    <3> QED BY ONLY <3>1, OpenAssumption DEF OpenAssumption
  <2>2. ASSUME NEW h \in live'
        PROVE  /\ handle'[h].file \in Files
               /\ handle'[h].parent \in 0 .. (h - 1)
               /\ handle'[h].owns \in BOOLEAN
    <3>1. CASE h = new
      <4>1. parent \in 0 .. (h - 1)
        BY <3>1, <1>2
      <4>2. handle'[h] = record
        BY <3>1, <1>3
      <4>3. handle'[h].file \in Files /\ handle'[h].parent \in 0 .. (h - 1)
        BY <4>1, <4>2, <1>4
      <4>4. handle'[h].owns \in BOOLEAN
        BY <4>2, <1>4, Zenon
      <4> QED BY <4>3, <4>4
    <3>2. CASE h \in live
      BY <3>2, <1>3 DEF HandlesInv, Shapes
    <3> QED BY <3>1, <3>2, <1>2
  <2> QED BY <1>3, <2>1, <2>2 DEF Shapes
<1>6. ChainsGoDown' /\ NULL \notin live'
  BY <1>5, <1>2 DEF Shapes, ChainsGoDown, Handles, NULL
<1>7. ParentsLive'
  <2>1. parent # NULL => parent \in live'
    BY <1>1, <1>2
  <2>2. ASSUME NEW h \in live, handle'[h].parent # NULL PROVE handle'[h].parent \in live'
    BY <2>2, <1>2, <1>3 DEF HandlesInv, ParentsLive
  <2> QED BY <2>1, <2>2, <1>2, <1>3, <1>4 DEF ParentsLive
<1>8. \A x \in live \cup {NULL} : Family(x) \subseteq live /\ Family(x)' = Family(x)
  <2>1. ASSUME NEW x \in live \cup {NULL} PROVE Family(x) \subseteq live /\ Kept(x)
    <3>1. Family(x) \subseteq live
      BY <1>1, FamilyInside
    <3> QED BY <3>1, <1>2, <1>3 DEF Kept
  <2> QED BY <2>1, <1>1, <1>6, FamilyStays DEF HandlesInv
<1>9. Family(new)' = {new} \cup Family(parent)
  <2>1. FamilyEquation'
    BY <1>6, FamilyIs, PTL
  <2>2. PICK q \in 0 .. MaxHandles : q = parent
    BY <1>2, <1>1 DEF NULL
  <2>3. PICK n \in 0 .. MaxHandles : n = new
    BY <1>2
  <2>4. Family(n)' = {n} \cup Family(q)'
    BY <2>1, <2>2, <2>3, <1>2, <1>3, <1>4 DEF FamilyEquation
  <2>5. Family(q)' = Family(q)
    BY <1>8, <1>1, <2>2
  <2> QED BY <2>2, <2>3, <2>4, <2>5
<1>10. \A m \in mine : m # parent => Family(m) \cap Family(parent) = {}
  <2>1. CASE parent = NULL
    BY <2>1, <1>1, FamilyInside
  <2>2. CASE parent \in mine
    BY <2>2 DEF HandlesInv, FamiliesApart
  <2> QED BY <2>1, <2>2
<1>11. FamiliesApart'
  <2>1. ASSUME NEW m \in mine, NEW n \in mine, m # n PROVE Family(m)' \cap Family(n)' = {}
    BY <2>1, <1>1, <1>8 DEF HandlesInv, FamiliesApart
  <2>2. ASSUME NEW m \in mine, m # parent PROVE Family(m)' \cap Family(new)' = {}
    BY <2>2, <1>1, <1>2, <1>8, <1>9, <1>10
  <2> QED BY <2>1, <2>2, <1>2 DEF FamiliesApart
<1>12. FamiliesAreAll'
  <2>1. ASSUME NEW h \in live PROVE \E m \in mine' : h \in Family(m)'
    <3>1. PICK m \in mine : h \in Family(m)
      BY DEF HandlesInv, FamiliesAreAll
    <3>2. CASE m = parent
      BY <3>1, <3>2, <1>2, <1>9
    <3>3. CASE m # parent
      BY <3>1, <3>3, <1>1, <1>2, <1>8
    <3> QED BY <3>2, <3>3
  <2>2. \E m \in mine' : new \in Family(m)'
    BY <1>2, <1>9
  <2> QED BY <2>1, <2>2, <1>2 DEF FamiliesAreAll
<1>13. FilesApart'
  BY <1>2, <1>3, <1>4 DEF HandlesInv, FilesApart
<1> QED BY <1>5, <1>7, <1>11, <1>12, <1>13 DEF HandlesInv
-----------------------------------------------------------------------------
(* Files.                                                                   *)

(* What is closed with a family was open, and nobody else reads it.         *)
LEMMA ClosedFiles ==
  ASSUME OpenIInv, NEW p \in mine \cup {NULL}
  PROVE  /\ \A g \in FilesOf(Closing(p)) : g \in Files /\ file[g] = "open"
         /\ \A h \in live \ Family(p) : handle[h].file \notin FilesOf(Closing(p))
<1>1. Family(p) \subseteq live
  <2>1. ChainsGoDown /\ live \subseteq 1 .. MaxHandles /\ p \in 0 .. MaxHandles
    BY ShapesGoDown, OpenAssumption DEF OpenIInv, HandlesInv, Shapes, NULL
  <2> QED BY <2>1, FamilyInside
<1>2. \A h \in live : handle[h].file \in Files /\ (handle[h].owns => file[handle[h].file] = "open")
  BY DEF OpenIInv, HandlesInv, Shapes, FilesInv, FilesFollowHandles
<1>3. \A h, k \in live : handle[h].file = handle[k].file => h = k
  BY DEF OpenIInv, HandlesInv, FilesApart
<1> QED BY <1>1, <1>2, <1>3 DEF FilesOf, Closing

LEMMA CloseKeepsFiles ==
  ASSUME OpenIInv, NEW p \in mine \cup {NULL},
         live' = live \ Family(p), UNCHANGED handle,
         file' \in [Files -> {"fresh", "open", "lent", "closed"}],
         \A g \in Files : file[g] = "fresh" => file'[g] # "open",
         \A g \in Files : file[g] # "fresh" =>
           file'[g] = IF g \in FilesOf(Closing(p)) THEN "closed" ELSE file[g]
  PROVE  FilesInv'
<1>1. \A h \in live : handle[h].file \in Files /\ file[handle[h].file] \in {"open", "lent"}
  BY DEF OpenIInv, HandlesInv, Shapes, FilesInv, FilesInUse
<1>2. \A h \in live \ Family(p) : handle[h].file \notin FilesOf(Closing(p))
  BY ClosedFiles
<1>3. \A h \in live \ Family(p) : file'[handle[h].file] = file[handle[h].file]
  BY <1>1, <1>2
<1>4. FilesInUse'
  BY <1>1, <1>3 DEF FilesInUse
<1>5. ASSUME NEW g \in Files, file'[g] = "open"
      PROVE  \E h \in live' : handle'[h].file = g /\ handle'[h].owns
  <2>1. file[g] # "fresh"
    BY <1>5
  <2>2. g \notin FilesOf(Closing(p)) /\ file[g] = "open"
    BY <1>5, <2>1
  <2>3. PICK h \in live : handle[h].file = g /\ handle[h].owns
    BY <2>2 DEF OpenIInv, FilesInv, FilesFollowHandles
  <2>4. h \notin Family(p)
    BY <2>2, <2>3 DEF FilesOf, Closing
  <2> QED BY <2>3, <2>4
<1>6. ASSUME NEW h \in live', handle'[h].owns
      PROVE  file'[handle'[h].file] = "open"
  <2>1. h \in live /\ h \notin Family(p) /\ handle[h].owns /\ handle[h].file \in Files
    BY <1>1, <1>6
  <2>2. file[handle[h].file] = "open"
    BY <2>1 DEF OpenIInv, FilesInv, FilesFollowHandles
  <2> QED BY <2>1, <2>2, <1>3
<1>7. FilesFollowHandles'
  BY <1>5, <1>6 DEF FilesFollowHandles
<1> QED BY <1>4, <1>7 DEF FilesInv

-----------------------------------------------------------------------------
(* The actions.                                                             *)

LEMMA CloseStep ==
  ASSUME OpenIInv, NEW h \in Handles, chd_close(h)
  PROVE  OpenIInv'
<1>1. /\ h \in mine /\ file' = AfterClosing(FilesOf(Closing(h)))
      /\ live' = live \ Family(h) /\ mine' = mine \ {h} /\ UNCHANGED <<made, handle>>
  BY DEF chd_close, Closing
<1>2. \A g \in FilesOf(Closing(h)) : g \in Files /\ file[g] = "open"
  BY <1>1, ClosedFiles
<1>3. file \in [Files -> {"fresh", "open", "lent", "closed"}]
  BY DEF OpenIInv, FilesInv, FilesInUse
<1>4. /\ file' \in [Files -> {"fresh", "open", "lent", "closed"}]
      /\ \A g \in Files : file'[g] = IF g \in FilesOf(Closing(h)) THEN "closed" ELSE file[g]
  BY <1>1, <1>2, <1>3 DEF AfterClosing, FileClosed
<1>5. HandlesInv'
  BY <1>1, CloseKeepsHandles DEF OpenIInv
<1>6. FilesInv'
  <2>1. \A g \in Files : file[g] = "fresh" => file'[g] # "open"
    BY <1>2, <1>4
  <2> QED BY <1>1, <1>4, <2>1, CloseKeepsFiles
<1> QED BY <1>5, <1>6 DEF OpenIInv

(* A failed open that closes the family of its parent, or none.             *)
LEMMA FailureStep ==
  ASSUME OpenIInv, NEW f \in Files, NEW entry, NEW p \in mine \cup {NULL}, FreshFile(f),
         file' = Given(f, entry, FileAlone(f) \cup FilesOf(Closing(p))),
         live' = live \ Family(p), mine' = mine \ {p}, UNCHANGED <<made, handle>>
  PROVE  OpenIInv'
<1>1. \A g \in FilesOf(Closing(p)) : g \in Files /\ file[g] = "open"
  BY ClosedFiles
<1>2. file \in [Files -> {"fresh", "open", "lent", "closed"}]
  BY DEF OpenIInv, FilesInv, FilesInUse
<1>3. f \notin FilesOf(Closing(p)) /\ file[f] = "fresh"
  BY <1>1 DEF FreshFile
<1>4. /\ file' \in [Files -> {"fresh", "open", "lent", "closed"}]
      /\ file'[f] # "open"
      /\ \A g \in Files : g # f =>
           file'[g] = IF g \in FilesOf(Closing(p)) THEN "closed" ELSE file[g]
  BY <1>1, <1>2, <1>3 DEF Given, FileAlone, FileClosed
<1>5. HandlesInv'
  BY CloseKeepsHandles DEF OpenIInv
<1>6. FilesInv'
  <2>1. \A g \in Files : file[g] = "fresh" => file'[g] # "open"
    BY <1>1, <1>4
  <2>2. \A g \in Files : file[g] # "fresh" =>
           file'[g] = IF g \in FilesOf(Closing(p)) THEN "closed" ELSE file[g]
    BY <1>3, <1>4
  <2> QED BY <1>4, <2>1, <2>2, CloseKeepsFiles
<1> QED BY <1>5, <1>6 DEF OpenIInv

LEMMA SuccessStep ==
  ASSUME OpenIInv, NEW f \in Files, NEW entry, NEW p \in mine \cup {NULL},
         OpenSucceeds(f, entry, p)
  PROVE  OpenIInv'
<1>1. /\ file[f] = "fresh" /\ live' = live \cup {made + 1}
      /\ file' = Given(f, entry, {})
      /\ handle' = [handle EXCEPT ![made + 1] = [file |-> f, parent |-> p, owns |-> OwnsFile(entry)]]
      /\ made < MaxHandles
  BY DEF OpenSucceeds, FreshFile
<1>2. file \in [Files -> {"fresh", "open", "lent", "closed"}]
  BY DEF OpenIInv, FilesInv, FilesInUse
<1>3. \A h \in live : handle[h].file \in Files /\ file[handle[h].file] \in {"open", "lent"}
  BY DEF OpenIInv, HandlesInv, Shapes, FilesInv, FilesInUse
<1>4. HandlesInv'
  BY <1>1, <1>3, OpenKeepsHandles DEF OpenIInv
<1>5. /\ handle'[made + 1].file = f /\ handle'[made + 1].owns = OwnsFile(entry)
      /\ \A h \in live : handle'[h] = handle[h]
  BY <1>1, OpenAssumption DEF OpenIInv, HandlesInv, Shapes, Handles
<1>6. /\ file' \in [Files -> {"fresh", "open", "lent", "closed"}]
      /\ file'[f] = (IF OwnsFile(entry) THEN "open" ELSE "lent")
      /\ \A g \in Files : g # f => file'[g] = file[g]
  BY <1>1, <1>2 DEF Given
<1>7. \A h \in live : file'[handle[h].file] = file[handle[h].file]
  BY <1>1, <1>3, <1>6
<1>8. FilesInUse'
  BY <1>1, <1>3, <1>5, <1>6, <1>7 DEF FilesInUse
<1>9. FilesFollowHandles'
  <2>1. \A g \in Files : file[g] = "open" <=> \E h \in live : handle[h].file = g /\ handle[h].owns
    BY DEF OpenIInv, FilesInv, FilesFollowHandles
  <2>2. ASSUME NEW g \in Files, g # f
        PROVE  file'[g] = "open" <=> \E h \in live' : handle'[h].file = g /\ handle'[h].owns
    BY <2>1, <2>2, <1>1, <1>5, <1>6
  <2>3. file'[f] = "open" <=> \E h \in live' : handle'[h].file = f /\ handle'[h].owns
    BY <1>1, <1>3, <1>5, <1>6
  <2> QED BY <2>2, <2>3 DEF FilesFollowHandles
<1> QED BY <1>4, <1>8, <1>9 DEF OpenIInv, FilesInv

(* Nothing changes when nothing is done.                                    *)
LEMMA UnchangedStep ==
  ASSUME OpenIInv, UNCHANGED <<file, made, live, handle, mine>>
  PROVE  OpenIInv'
<1>1. ChainsGoDown /\ NULL \notin mine
  BY ShapesGoDown DEF OpenIInv, HandlesInv, Shapes
<1>2. Family(NULL) = {}
  BY <1>1, FamilyInside
<1>3. live' = live \ Family(NULL) /\ mine' = mine \ {NULL}
  BY <1>1, <1>2
<1>4. HandlesInv'
  BY <1>3, CloseKeepsHandles DEF OpenIInv
<1>5. FilesInv'
  BY DEF OpenIInv, FilesInv, FilesInUse, FilesFollowHandles
<1> QED BY <1>4, <1>5 DEF OpenIInv

LEMMA OpenInvariantHolds == OpenSpec => []OpenIInv
<1>1. OpenInit => OpenIInv
  BY OpenAssumption DEF OpenInit, OpenIInv, HandlesInv, Shapes, ParentsLive, FamiliesApart,
    FamiliesAreAll, FilesApart, FilesInv, FilesInUse, FilesFollowHandles
<1>2. OpenIInv /\ [OpenNext]_openvars => OpenIInv'
  <2> SUFFICES ASSUME OpenIInv, [OpenNext]_openvars PROVE OpenIInv'
    OBVIOUS
  <2>1. ChainsGoDown /\ NULL \notin mine /\ Bogus # NULL /\ Bogus \notin mine
    BY ShapesGoDown, OpenAssumption DEF OpenIInv, HandlesInv, Shapes, NULL, Bogus
  <2>2. ASSUME UNCHANGED openvars PROVE OpenIInv'
    <3>1. UNCHANGED <<file, made, live, handle, mine>>
      BY <2>2 DEF openvars
    <3> QED BY <3>1, UnchangedStep
  <2>3. ASSUME NEW h \in Handles, chd_close(h) PROVE OpenIInv'
    BY <2>3, CloseStep
  <2>4. ASSUME NEW entry \in Entries, NEW parent \in Parents, Open(entry, parent) PROVE OpenIInv'
    <3>1. CASE OpenFailsEarly(entry)
      BY <3>1, <2>2 DEF OpenFailsEarly
    <3>2. ASSUME NEW f \in Files, InvalidParent(f, entry) PROVE OpenIInv'
      <4>1. Family(NULL) = {}
        BY <2>1, FamilyInside
      <4>2. FilesOf(Closing(NULL)) = {}
        BY <4>1 DEF FilesOf, Closing
      <4>3. /\ FreshFile(f) /\ UNCHANGED <<made, handle>>
            /\ file' = Given(f, entry, FileAlone(f) \cup FilesOf(Closing(NULL)))
            /\ live' = live \ Family(NULL) /\ mine' = mine \ {NULL}
        BY <3>2, <4>1, <4>2, <2>1 DEF InvalidParent
      <4> QED BY <4>3, FailureStep
    <3>3. ASSUME NEW f \in Files, OpenFails(f, entry, parent) PROVE OpenIInv'
      <4>1. parent \in mine \cup {NULL}
        BY <3>3 DEF OpenFails, Parents
      <4>2. /\ FreshFile(f) /\ UNCHANGED <<made, handle>>
            /\ file' = Given(f, entry, FileAlone(f) \cup FilesOf(Closing(parent)))
            /\ live' = live \ Family(parent) /\ mine' = mine \ {parent}
        BY <3>3 DEF OpenFails, OwnedAfter, Closing
      <4> QED BY <4>1, <4>2, FailureStep
    <3>4. ASSUME NEW f \in Files, OpenSucceeds(f, entry, parent) PROVE OpenIInv'
      <4>1. parent \in mine \cup {NULL}
        BY <3>4 DEF OpenSucceeds, Parents
      <4> QED BY <4>1, <3>4, SuccessStep
    <3> QED BY <2>4, <3>1, <3>2, <3>3, <3>4 DEF Open
  <2> QED BY <2>2, <2>3, <2>4 DEF OpenNext
<1> QED BY <1>1, <1>2, PTL DEF OpenSpec

-----------------------------------------------------------------------------
(* FilesHaveOneOwner: whatever way opens and closes go (chd_open,           *)
(* chd_open_file, chd_open_core_file, chd_open_core_file_callbacks and      *)
(* chd_close, with every failure), no file is closed twice or while a       *)
(* handle reads it, none the library was given is left open without a       *)
(* handle, and every handle and parent is closed with exactly one of the    *)
(* handles the application owns.                                            *)
THEOREM FilesAndParentsHaveOneOwner == OpenSpec => []FilesHaveOneOwner
<1>1. OpenIInv => FilesHaveOneOwner
  <2> SUFFICES ASSUME OpenIInv PROVE FilesHaveOneOwner
    OBVIOUS
  <2>1. OpenTypeOK
    BY DEF OpenIInv, HandlesInv, Shapes, FilesInv, FilesInUse, OpenTypeOK
  <2>2. ParentsOutliveChildren
    BY DEF OpenIInv, HandlesInv, ParentsLive, FilesInv, FilesInUse, ParentsOutliveChildren
  <2>3. OneOwnerEach
    <3> SUFFICES ASSUME NEW h \in live PROVE Cardinality({m \in mine : h \in Family(m)}) = 1
      BY DEF OneOwnerEach
    <3>1. PICK m \in mine : h \in Family(m)
      BY DEF OpenIInv, HandlesInv, FamiliesAreAll
    <3>2. \A n \in mine : h \in Family(n) => n = m
      BY <3>1 DEF OpenIInv, HandlesInv, FamiliesApart
    <3>3. {n \in mine : h \in Family(n)} = {m}
      BY <3>1, <3>2
    <3> QED BY <3>3, FS_Singleton
  <2> QED BY <2>1, <2>2, <2>3 DEF FilesHaveOneOwner, OpenIInv, FilesInv
<1> QED BY <1>1, OpenInvariantHolds, PTL

-----------------------------------------------------------------------------
(****************************************************************************)
(* The states of the codecs of a handle are made once and freed once, for   *)
(* every header, every number of slots and both builds; and no codec        *)
(* decompresses without its state but the two that are known to: huff,      *)
(* whose init succeeds also without its decoder, and a codec that           *)
(* ensure_codec_ready() initialises again for an earlier slot.              *)
(****************************************************************************)

-----------------------------------------------------------------------------
(* The inductive invariant.                                                 *)
Frozen == phase \in {"closed", "crashed"}

HeldIsAFunction == held = [c \in Codecs |-> held[c]]

(* The open resolves the slots in order: what has been initialised by       *)
(* default was for the first slot of its codec, and a slot that is resolved *)
(* has its codec.                                                           *)
FirstSlotsMakeStates ==
  /\ phase = "opening" => next \in Slots
  /\ ~lazybuild /\ ~Frozen =>
       /\ \A c \in Codecs :
            held[c] # {} \/ c \in ready =>
              \E s \in Slots : s < next /\ compression[s] = c /\ Earlier(s) = {}
       /\ phase = "opening" =>
            \A s \in Slots : s < next => compression[s] = NoCodec \/ compression[s] \in ready

(* By default nothing is overwritten and nothing initialised again.         *)
NothingAgain == ~lazybuild => lost = {} /\ again = {}

(* Under LOWRAM_TARGET a codec is ready for a slot that is marked.          *)
LazyIsMarked ==
  /\ lazy \subseteq Slots
  /\ lazybuild => \A c \in ready : \E t \in lazy : compression[t] = c

(* A codec that was ready once keeps what its free function needs.          *)
CallbacksStay ==
  ~Frozen => \A c \in ready : NeedsCallbacks(c) => "callbacks" \in held[c]

ClosedGivesBack == phase = "closed" => shared # "held"

(* The codecs that have lost what they decompress with, or never had it.    *)
Doubtful == {"huff"} \cup (again \ {"flac"})

ReadyHaveTheirState ==
  ~Frozen => \A c \in ready \ Doubtful :
               HasState(c, held[c]) /\ (c \in Borrowers => shared = "held")

UnreadyAreDoubtful ==
  /\ unready \subseteq Doubtful
  /\ \A c \in unready : \E s \in Slots : compression[s] = c

SlotIInv ==
  /\ StatesAreMadeAndFreedOnce
  /\ HeldIsAFunction
  /\ FirstSlotsMakeStates
  /\ NothingAgain
  /\ LazyIsMarked
  /\ CallbacksStay
  /\ ClosedGivesBack
  /\ ReadyHaveTheirState
  /\ UnreadyAreDoubtful

-----------------------------------------------------------------------------
(* The steps of the init functions.                                         *)
LEMMA StepsFacts ==
  ASSUME NEW c \in Codecs
  PROVE  /\ Len(Steps[c]) \in Nat
         /\ NeedsCallbacks(c) => c \notin {"avhuff", "huff"}
         /\ StepsUpTo("flac", Len(Steps["flac"])) = {"samples", "stream"}
<1>1. Len(Steps[c]) \in Nat
  <2>1. /\ Len(Steps["zlib"]) = 1 /\ Len(Steps["lzma"]) = 2 /\ Len(Steps["huff"]) = 1
        /\ Len(Steps["flac"]) = 2 /\ Len(Steps["zstd"]) = 1 /\ Len(Steps["avhuff"]) = 2
    BY DEF Steps
  <2>2. Len(Steps["cdzl"]) = 4 /\ Len(Steps["cdlz"]) = 5 /\ Len(Steps["cdfl"]) = 4
    BY DEF Steps
  <2>3. Len(Steps["cdzs"]) \in {3, 4}
    <3>1. CASE lazybuild
      BY <3>1 DEF Steps
    <3>2. CASE ~lazybuild
      BY <3>2 DEF Steps
    <3> QED BY <3>1, <3>2
  <2> QED BY <2>1, <2>2, <2>3 DEF Codecs
<1>2. Steps["avhuff"] = <<"contexts", "stream">> /\ Steps["huff"] = <<"decoder">>
      /\ Steps["flac"] = <<"samples", "stream">>
  BY DEF Steps
<1>3. NeedsCallbacks(c) => c \notin {"avhuff", "huff"}
  BY <1>2 DEF NeedsCallbacks
<1>4. StepsUpTo("flac", Len(Steps["flac"])) = {"samples", "stream"}
  <2>1. Len(Steps["flac"]) = 2 /\ Steps["flac"][1] = "samples" /\ Steps["flac"][2] = "stream"
        /\ 1 .. 2 = {1, 2}
    BY <1>2
  <2> QED BY <2>1 DEF StepsUpTo
<1> QED BY <1>1, <1>3, <1>4

LEMMA StepsStay ==
  ASSUME UNCHANGED lazybuild
  PROVE  Steps' = Steps
BY DEF Steps

LEMMA StepsUpToGrow ==
  ASSUME NEW c \in Codecs, NEW n \in 0 .. Len(Steps[c])
  PROVE  /\ StepsUpTo(c, n) \subseteq StepsUpTo(c, Len(Steps[c]))
         /\ Left(c, n) \subseteq StepsUpTo(c, Len(Steps[c]))
         /\ StepsUpTo(c, n) \subseteq StepsRun(c, n)
<1>1. Len(Steps[c]) \in Nat /\ n \in Nat
  BY StepsFacts
<1>2. 1 .. n \subseteq 1 .. Len(Steps[c]) /\ 1 .. n \subseteq 1 .. (n + 1)
  BY <1>1
<1> QED BY <1>2 DEF StepsUpTo, Left, StepsRun

(* What an init function does to the state of its codec, and to no other.   *)
LEMMA InitCodec ==
  ASSUME HeldIsAFunction, \A d \in Codecs : held[d] \subseteq StepsUpTo(d, Len(Steps[d])),
         NEW c \in Codecs, NEW n \in Outcomes(c), Init_codec(c, n)
  PROVE  /\ HeldIsAFunction'
         /\ \A d \in Codecs : d # c => held'[d] = held[d]
         /\ held'[c] = (held[c] \ StepsRun(c, n)) \cup Left(c, n)
         /\ \A d \in Codecs : held'[d] \subseteq StepsUpTo(d, Len(Steps[d]))
         /\ again' = again \cup ({c} \cap ready)
         /\ lost' = lost \cup {<<c, part>> : part \in Allocated(held[c] \cap StepsRun(c, n))}
         /\ ready' = IF Succeeds(c, n) THEN ready \cup {c} ELSE ready
<1>1. n \in 0 .. Len(Steps[c])
  BY DEF Outcomes
<1> DEFINE new == (held[c] \ StepsRun(c, n)) \cup Left(c, n)
<1>2. held' = [held EXCEPT ![c] = new] /\ DOMAIN held = Codecs
  BY DEF Init_codec, HeldIsAFunction
<1>3. new \subseteq StepsUpTo(c, Len(Steps[c]))
  BY <1>1, StepsUpToGrow
<1> HIDE DEF new
<1>4. held'[c] = new /\ \A d \in Codecs : d # c => held'[d] = held[d]
  BY <1>2
<1>5. held' = [d \in Codecs |-> held'[d]]
  BY <1>2
<1> QED BY <1>3, <1>4, <1>5 DEF new, HeldIsAFunction, Init_codec

(* A step that cannot fail is never taken away from a codec but avhuff.     *)
LEMMA InfallibleStays ==
  ASSUME NEW c \in Codecs, c # "avhuff", NEW n \in Outcomes(c),
         NEW step \in Infallible, NEW parts, step \in parts
  PROVE  step \in (parts \ StepsRun(c, n)) \cup Left(c, n)
<1>1. /\ n \in 0 .. Len(Steps[c]) /\ Len(Steps[c]) \in Nat
      /\ n < Len(Steps[c]) => MayFail(Steps[c][n + 1])
  BY StepsFacts DEF Outcomes
<1>2. step \notin Checks
  BY DEF Checks, Infallible
<1>3. CASE step \in StepsUpTo(c, n)
  BY <1>2, <1>3 DEF Left
<1>4. CASE step \notin StepsUpTo(c, n)
  <2>1. ASSUME step \in StepsRun(c, n) PROVE FALSE
    <3>1. n < Len(Steps[c]) /\ step \in StepsUpTo(c, n + 1)
      BY <1>4, <2>1 DEF StepsRun
    <3>2. step = Steps[c][n + 1]
      <4>1. 1 .. (n + 1) = (1 .. n) \cup {n + 1}
        BY <1>1
      <4> QED BY <3>1, <4>1, <1>4 DEF StepsUpTo
    <3> QED BY <1>1, <3>1, <3>2 DEF MayFail
  <2> QED BY <2>1
<1> QED BY <1>3, <1>4

(* An init that succeeds has made all of the state, but in huff.            *)
LEMMA SuccessMakesTheState ==
  ASSUME NEW c \in Codecs, c # "huff", NEW n \in Outcomes(c), Succeeds(c, n), NEW parts
  PROVE  HasState(c, parts \cup Left(c, n))
<1>1. n = Len(Steps[c])
  BY DEF Succeeds
<1>2. Left(c, n) = StepsUpTo(c, Len(Steps[c])) \ Checks
  BY <1>1, StepsFacts DEF Left
<1> QED BY <1>2 DEF HasState

-----------------------------------------------------------------------------
(* The header does not change, and with it the steps of the codecs.         *)
Settled == UNCHANGED <<lazybuild, compression, hunks>>

LEMMA SettledDefs ==
  ASSUME Settled
  PROVE  /\ \A c : StepsUpTo(c, Len(Steps[c]))' = StepsUpTo(c, Len(Steps[c]))
         /\ \A c : NeedsCallbacks(c)' <=> NeedsCallbacks(c)
         /\ \A c : HasState(c, held[c])' <=> HasState(c, held'[c])
         /\ \A s : Earlier(s)' = Earlier(s)
<1>1. Steps' = Steps
  BY StepsStay DEF Settled
<1>2. \A c : StepsUpTo(c, Len(Steps[c]))' = StepsUpTo(c, Len(Steps[c]))
  BY <1>1 DEF StepsUpTo
<1>3. \A c : NeedsCallbacks(c)' <=> NeedsCallbacks(c)
  BY <1>1 DEF NeedsCallbacks
<1>4. \A c : HasState(c, held[c])' <=> HasState(c, held'[c])
  BY <1>2 DEF HasState
<1>5. \A s : Earlier(s)' = Earlier(s)
  BY DEF Settled, Earlier
<1> QED BY <1>2, <1>3, <1>4, <1>5

(* The conjuncts of the type invariant, by what they are about.             *)
HeaderOK == lazybuild \in Builds /\ compression \in Headers(lazybuild) /\ hunks \in HunkSizes
PlaceOK ==
  /\ phase \in {"opening", "closing", "open", "closed", "crashed"}
  /\ next \in 1 .. SlotCount + 1
StatesOK ==
  /\ \A c \in Codecs : held[c] \subseteq StepsUpTo(c, Len(Steps[c]))
  /\ ready \subseteq Codecs /\ again \subseteq ready
MarksOK ==
  /\ unready \subseteq Codecs
  /\ \A s \in lazy : compression[s] \in ready
  /\ shared \in {"none", "held", "freed"}
OpenSlotsOK ==
  phase = "open" /\ ~lazybuild =>
    \A s \in Slots : compression[s] = NoCodec \/ compression[s] \in ready

LEMMA SlotTypeOKSays ==
  SlotTypeOK <=> HeaderOK /\ PlaceOK /\ StatesOK /\ MarksOK /\ OpenSlotsOK
BY Zenon DEF SlotTypeOK, HeaderOK, PlaceOK, StatesOK, MarksOK, OpenSlotsOK

LEMMA SlotTypeOKSaysNext ==
  SlotTypeOK' <=> HeaderOK' /\ PlaceOK' /\ StatesOK' /\ MarksOK' /\ OpenSlotsOK'
BY Zenon DEF SlotTypeOK, HeaderOK, PlaceOK, StatesOK, MarksOK, OpenSlotsOK

(* What is about the states of the codecs, and what is about the end.       *)
StatesInv ==
  /\ HeaderOK /\ StatesOK /\ HeldIsAFunction /\ NothingAgain /\ InitialisedOnce
  /\ CallbacksStay /\ ReadyHaveTheirState
EndInv == NothingLeaks /\ LazyCloseNeverRunsWild /\ ClosedGivesBack
WayInv == PlaceOK /\ MarksOK /\ OpenSlotsOK /\ FirstSlotsMakeStates /\ LazyIsMarked
          /\ UnreadyAreDoubtful

LEMMA SlotIInvSays == SlotIInv <=> StatesInv /\ EndInv /\ WayInv
BY SlotTypeOKSays, Zenon DEF SlotIInv, StatesAreMadeAndFreedOnce, StatesInv, EndInv, WayInv

LEMMA SlotIInvSaysNext == SlotIInv' <=> StatesInv' /\ EndInv' /\ WayInv'
BY SlotTypeOKSaysNext, Zenon DEF SlotIInv, StatesAreMadeAndFreedOnce, StatesInv, EndInv, WayInv

(* The end comes with chd_close() only.                                     *)
LEMMA NotTheEnd ==
  ASSUME ~Frozen'
  PROVE  EndInv'
BY DEF Frozen, EndInv, NothingLeaks, LazyCloseNeverRunsWild, CloseNeverRunsWild, ClosedGivesBack

LEMMA UntouchedKeepsStates ==
  ASSUME StatesInv, Settled, Untouched, ~Frozen, UNCHANGED shared
  PROVE  StatesInv'
<1>1. HeaderOK'
  BY DEF StatesInv, HeaderOK, Settled
<1>2. StatesOK' /\ HeldIsAFunction'
  BY SettledDefs DEF StatesInv, StatesOK, Untouched, HeldIsAFunction
<1>3. NothingAgain' /\ InitialisedOnce'
  BY DEF StatesInv, NothingAgain, InitialisedOnce, Untouched, Settled
<1>4. CallbacksStay'
  BY SettledDefs DEF StatesInv, CallbacksStay, Untouched
<1>5. ReadyHaveTheirState'
  BY SettledDefs DEF StatesInv, ReadyHaveTheirState, Untouched, Doubtful
<1> QED BY <1>1, <1>2, <1>3, <1>4, <1>5 DEF StatesInv

LEMMA InitKeepsStates ==
  ASSUME StatesInv, Settled, ~Frozen, NEW c \in Codecs, NEW n \in Outcomes(c),
         Init_codec(c, n), shared' = Lent(c),
         lazybuild \/ (c \notin ready /\ held[c] = {}),
         c \in ready => \E s, t \in Slots : s < t /\ compression[s] = c /\ compression[t] = c
  PROVE  StatesInv'
<1>1. /\ HeldIsAFunction'
      /\ \A d \in Codecs : d # c => held'[d] = held[d]
      /\ held'[c] = (held[c] \ StepsRun(c, n)) \cup Left(c, n)
      /\ \A d \in Codecs : held'[d] \subseteq StepsUpTo(d, Len(Steps[d]))
      /\ again' = again \cup ({c} \cap ready)
      /\ lost' = lost \cup {<<c, part>> : part \in Allocated(held[c] \cap StepsRun(c, n))}
      /\ ready' = IF Succeeds(c, n) THEN ready \cup {c} ELSE ready
  BY InitCodec DEF StatesInv, StatesOK
<1>2. HeaderOK'
  BY DEF StatesInv, HeaderOK, Settled
<1>3. StatesOK'
  BY <1>1, SettledDefs DEF StatesInv, StatesOK
<1>4. NothingAgain'
  <2>1. held[c] = {} => {<<c, part>> : part \in Allocated(held[c] \cap StepsRun(c, n))} = {}
    BY DEF Allocated
  <2> QED BY <1>1, <2>1 DEF StatesInv, NothingAgain, Settled
<1>5. InitialisedOnce'
  BY <1>1 DEF StatesInv, InitialisedOnce, Settled
<1>6. c # "huff" /\ Succeeds(c, n) => HasState(c, held'[c])
  BY <1>1, SuccessMakesTheState
<1>7. CallbacksStay'
  <2> SUFFICES ASSUME NEW d \in ready', NeedsCallbacks(d) PROVE "callbacks" \in held'[d]
    BY SettledDefs DEF CallbacksStay
  <2>1. d \in Codecs /\ d \notin {"avhuff", "huff"}
    BY <1>3, StepsFacts DEF StatesOK
  <2>2. CASE d \in ready
    <3>1. "callbacks" \in held[d] /\ "callbacks" \in Infallible
      BY <2>2 DEF StatesInv, CallbacksStay, Infallible
    <3> QED BY <3>1, <2>1, <1>1, InfallibleStays
  <2>3. CASE d \notin ready
    <3>1. d = c /\ Succeeds(c, n)
      BY <2>3, <1>1
    <3>2. "callbacks" \in StepsUpTo(c, Len(Steps[c])) \ Checks
      BY <3>1 DEF NeedsCallbacks, StepsUpTo, Checks
    <3> QED BY <3>1, <3>2, <2>1, <1>6 DEF HasState
  <2> QED BY <2>2, <2>3
<1>8. ReadyHaveTheirState'
  <2> SUFFICES ASSUME NEW d \in ready', d \notin Doubtful'
               PROVE  HasState(d, held'[d]) /\ (d \in Borrowers => shared' = "held")
    BY SettledDefs DEF ReadyHaveTheirState
  <2>1. d \in Codecs /\ d # "huff" /\ d \notin Doubtful
    BY <1>1, <1>3 DEF StatesOK, Doubtful
  <2>2. shared = "held" => shared' = "held"
    BY DEF Lent
  <2>3. CASE d # c
    <3>1. d \in ready /\ held'[d] = held[d]
      BY <2>1, <2>3, <1>1
    <3> QED BY <3>1, <2>1, <2>2 DEF StatesInv, ReadyHaveTheirState
  <2>4. CASE d = c /\ c \notin ready
    <3>1. Succeeds(c, n)
      BY <2>4, <1>1
    <3> QED BY <3>1, <2>1, <2>4, <1>6 DEF Lent
  <2>5. CASE d = c /\ c \in ready
    <3>1. c = "flac"
      BY <2>5, <1>1 DEF Doubtful
    <3>2. HasState(c, held[c])
      BY <2>1, <2>5 DEF StatesInv, ReadyHaveTheirState
    <3>3. StepsUpTo(c, Len(Steps[c])) = {"samples", "stream"}
      BY <3>1, StepsFacts
    <3>4. "stream" \in held[c] /\ "stream" \in Infallible /\ c # "avhuff" /\ c \notin Borrowers
      BY <3>1, <3>2, <3>3 DEF HasState, Checks, Infallible, Borrowers
    <3>5. "stream" \in held'[c]
      BY <3>4, <1>1, InfallibleStays
    <3> QED BY <2>5, <3>3, <3>4, <3>5 DEF HasState, Checks
  <2> QED BY <2>3, <2>4, <2>5
<1> QED BY <1>1, <1>2, <1>3, <1>4, <1>5, <1>7, <1>8 DEF StatesInv

-----------------------------------------------------------------------------
(* The actions, one by one.                                                 *)
LEMMA SlotsHaveCodecs ==
  ASSUME HeaderOK
  PROVE  /\ compression \in [Slots -> Codecs \cup {NoCodec, Foreign}]
         /\ NoCodec \notin Codecs /\ Foreign \notin Codecs /\ NoCodec # Foreign
         /\ SlotCount \in Nat \ {0}
<1>1. compression \in [Slots -> Codecs \cup {NoCodec, Foreign}]
  BY SlotAssumption DEF HeaderOK
<1> QED BY <1>1, SlotAssumption DEF Codecs, NoCodec, Foreign

LEMMA UnsupportedSlotKeeps ==
  ASSUME SlotIInv, UnsupportedSlot
  PROVE  SlotIInv'
<1> USE DEF UnsupportedSlot
<1>1. StatesInv /\ WayInv /\ Settled /\ ~Frozen /\ ~Frozen'
  BY SlotIInvSays DEF Settled, Frozen
<1>2. StatesInv'
  BY <1>1, UntouchedKeepsStates
<1>3. PlaceOK' /\ MarksOK' /\ OpenSlotsOK'
  BY <1>1 DEF WayInv, PlaceOK, MarksOK, OpenSlotsOK, Untouched
<1>4. FirstSlotsMakeStates'
  BY <1>1, SettledDefs DEF WayInv, FirstSlotsMakeStates, Untouched, Settled
<1>5. LazyIsMarked' /\ UnreadyAreDoubtful'
  BY <1>1 DEF WayInv, LazyIsMarked, UnreadyAreDoubtful, Doubtful, Untouched
<1> QED BY <1>1, <1>2, <1>3, <1>4, <1>5, NotTheEnd, SlotIInvSaysNext DEF WayInv

LEMMA NotLentKeeps ==
  ASSUME SlotIInv, NotLent
  PROVE  SlotIInv'
<1> USE DEF NotLent, EarlyExit
<1>1. StatesInv /\ WayInv /\ Settled /\ ~Frozen /\ ~Frozen'
  BY SlotIInvSays DEF Settled, Frozen
<1>2. StatesInv'
  BY <1>1, UntouchedKeepsStates
<1>3. next \in Slots /\ SlotCount \in Nat
  BY <1>1, SlotAssumption DEF WayInv, FirstSlotsMakeStates
<1>4. PlaceOK' /\ MarksOK' /\ OpenSlotsOK'
  BY <1>1, <1>3 DEF WayInv, PlaceOK, MarksOK, OpenSlotsOK, Untouched, Slots
<1>5. FirstSlotsMakeStates'
  <2>1. \A s \in Slots : s < next => s < next'
    BY <1>3 DEF Slots
  <2> QED BY <1>1, <2>1, SettledDefs DEF WayInv, FirstSlotsMakeStates, Untouched, Settled
<1>6. LazyIsMarked' /\ UnreadyAreDoubtful'
  BY <1>1 DEF WayInv, LazyIsMarked, UnreadyAreDoubtful, Doubtful, Untouched
<1> QED BY <1>1, <1>2, <1>4, <1>5, <1>6, NotTheEnd, SlotIInvSaysNext DEF WayInv

(* To the next slot, when the one at hand has its codec.                    *)
LEMMA ProceedKeeps ==
  ASSUME WayInv, HeaderOK, phase = "opening", Proceed, Settled, ready \subseteq ready',
         ~lazybuild => compression[next] = NoCodec \/ compression[next] \in ready'
  PROVE  /\ PlaceOK' /\ OpenSlotsOK' /\ ~Frozen'
         /\ phase' = "opening" => next' \in Slots
         /\ phase' = "opening" /\ ~lazybuild =>
              \A s \in Slots : s < next' => compression[s] = NoCodec \/ compression[s] \in ready'
<1>1. next \in Slots /\ SlotCount \in Nat /\ next' = next + 1
      /\ phase' = IF next = SlotCount THEN "open" ELSE "opening"
  BY SlotAssumption DEF WayInv, FirstSlotsMakeStates, Proceed
<1>2. PlaceOK' /\ ~Frozen' /\ (phase' = "opening" => next' \in Slots)
  BY <1>1 DEF PlaceOK, Frozen, Slots
<1>3. ASSUME ~lazybuild, NEW s \in Slots, s < next'
      PROVE  compression[s] = NoCodec \/ compression[s] \in ready'
  <2>1. s = next \/ s < next
    BY <1>1, <1>3 DEF Slots
  <2>2. s < next => compression[s] = NoCodec \/ compression[s] \in ready
    BY <1>1, <1>3 DEF WayInv, FirstSlotsMakeStates, Frozen
  <2> QED BY <2>1, <2>2, <1>3
<1>4. OpenSlotsOK'
  <2>1. next = SlotCount => \A s \in Slots : s < next'
    BY <1>1 DEF Slots
  <2> QED BY <2>1, <1>1, <1>3 DEF OpenSlotsOK, Settled
<1> QED BY <1>2, <1>3, <1>4

LEMMA ResolveSlotKeeps ==
  ASSUME SlotIInv, ResolveSlot
  PROVE  SlotIInv'
<1> USE DEF ResolveSlot
<1>1. StatesInv /\ WayInv /\ Settled /\ ~Frozen /\ HeaderOK /\ Proceed /\ Untouched
      /\ UNCHANGED <<shared, lazy, unready>>
  BY SlotIInvSays DEF Settled, Frozen, StatesInv
<1>2. StatesInv'
  BY <1>1, UntouchedKeepsStates
<1>3. next \in Slots
  BY <1>1 DEF WayInv, FirstSlotsMakeStates
<1>4. ~lazybuild => compression[next] = NoCodec \/ compression[next] \in ready'
  <2>1. ASSUME ~lazybuild, compression[next] # NoCodec
        PROVE  compression[next] \in ready
    <3>1. PICK t \in Slots : t < next /\ compression[t] = compression[next]
      BY <2>1 DEF NeedsInit, Earlier
    <3> QED BY <3>1, <2>1, <1>1 DEF WayInv, FirstSlotsMakeStates
  <2> QED BY <2>1, <1>1 DEF Untouched
<1>5. /\ PlaceOK' /\ OpenSlotsOK' /\ ~Frozen'
      /\ phase' = "opening" => next' \in Slots
      /\ phase' = "opening" /\ ~lazybuild =>
           \A s \in Slots : s < next' => compression[s] = NoCodec \/ compression[s] \in ready'
  BY <1>1, <1>4, ProceedKeeps DEF Untouched
<1>6. FirstSlotsMakeStates'
  <2>1. \A s \in Slots : s < next => s < next'
    BY <1>1, <1>3 DEF Slots, Proceed
  <2>2. ASSUME ~lazybuild, NEW c \in Codecs, held'[c] # {} \/ c \in ready'
        PROVE  \E s \in Slots : s < next' /\ compression[s] = c /\ Earlier(s) = {}
    BY <2>1, <2>2, <1>1 DEF WayInv, FirstSlotsMakeStates, Untouched
  <2> QED BY <2>2, <1>1, <1>5, SettledDefs DEF FirstSlotsMakeStates, Settled
<1>7. MarksOK' /\ LazyIsMarked' /\ UnreadyAreDoubtful'
  BY <1>1 DEF WayInv, MarksOK, LazyIsMarked, UnreadyAreDoubtful, Doubtful, Untouched, Settled
<1> QED BY <1>2, <1>5, <1>6, <1>7, NotTheEnd, SlotIInvSaysNext DEF WayInv

LEMMA InitSlotKeeps ==
  ASSUME SlotIInv, InitSlot
  PROVE  SlotIInv'
<1> DEFINE c == compression[next]
<1>1. /\ StatesInv /\ WayInv /\ Settled /\ ~Frozen /\ HeaderOK /\ phase = "opening" /\ ~lazybuild
      /\ c # Foreign /\ NeedsInit(next) /\ shared' = Lent(c) /\ UNCHANGED <<lazy, unready>>
  BY SlotIInvSays DEF InitSlot, Settled, Frozen, StatesInv
<1>2. PICK n \in Outcomes(c) :
        /\ Init_codec(c, n)
        /\ IF Succeeds(c, n) THEN Proceed ELSE EarlyExit
  BY DEF InitSlot
<1>3. next \in Slots /\ SlotCount \in Nat /\ c \in Codecs /\ Earlier(next) = {}
  BY <1>1, SlotsHaveCodecs DEF WayInv, FirstSlotsMakeStates, NeedsInit
<1>4. c \notin ready /\ held[c] = {}
  <2>1. ASSUME NEW s \in Slots, s < next, compression[s] = c PROVE FALSE
    BY <2>1, <1>3 DEF Earlier
  <2> QED BY <2>1, <1>1, <1>3 DEF WayInv, FirstSlotsMakeStates
<1>5. StatesInv'
  BY <1>1, <1>2, <1>3, <1>4, InitKeepsStates
<1>6. /\ \A d \in Codecs : d # c => held'[d] = held[d]
      /\ ready' = IF Succeeds(c, n) THEN ready \cup {c} ELSE ready
      /\ again' = again \cup ({c} \cap ready)
  BY <1>1, <1>2, <1>3, InitCodec DEF StatesInv, StatesOK
<1>7. /\ PlaceOK' /\ OpenSlotsOK' /\ ~Frozen'
      /\ phase' = "opening" => next' \in Slots
      /\ phase' = "opening" /\ ~lazybuild =>
           \A s \in Slots : s < next' => compression[s] = NoCodec \/ compression[s] \in ready'
  <2>1. CASE Succeeds(c, n)
    BY <2>1, <1>1, <1>2, <1>6, ProceedKeeps
  <2>2. CASE ~Succeeds(c, n)
    BY <2>2, <1>2, <1>3 DEF EarlyExit, PlaceOK, OpenSlotsOK, Frozen, Slots
  <2> QED BY <2>1, <2>2
<1>8. FirstSlotsMakeStates'
  <2>1. next' = next + 1 /\ next < next' /\ \A s \in Slots : s < next => s < next'
    BY <1>2, <1>3 DEF Slots, Proceed, EarlyExit
  <2>2. ASSUME NEW d \in Codecs, held'[d] # {} \/ d \in ready'
        PROVE  \E s \in Slots : s < next' /\ compression[s] = d /\ Earlier(s) = {}
    <3>1. CASE d = c
      BY <3>1, <2>1, <1>3
    <3>2. CASE d # c
      <4>1. held[d] # {} \/ d \in ready
        BY <3>2, <2>2, <1>6
      <4> QED BY <4>1, <2>1, <1>1 DEF WayInv, FirstSlotsMakeStates
    <3> QED BY <3>1, <3>2
  <2> QED BY <2>2, <1>1, <1>7, SettledDefs DEF FirstSlotsMakeStates, Settled
<1>9. MarksOK' /\ LazyIsMarked' /\ UnreadyAreDoubtful'
  BY <1>1, <1>6 DEF WayInv, MarksOK, LazyIsMarked, UnreadyAreDoubtful, Doubtful, Settled, Lent
<1> QED BY <1>5, <1>7, <1>8, <1>9, NotTheEnd, SlotIInvSaysNext DEF WayInv

(* A codec that decompresses once it is ready lacks its state only if it is *)
(* doubtful.                                                                *)
LEMMA DecompressKeeps ==
  ASSUME UnreadyAreDoubtful, Settled, ~Frozen, NEW s \in Slots, compression[s] \in Codecs,
         ReadyHaveTheirState', ~Frozen', compression[s] \in ready', again \subseteq again',
         Decompress(compression[s], held'[compression[s]], shared'),
         unready \subseteq Codecs
  PROVE  UnreadyAreDoubtful' /\ unready' \subseteq Codecs
<1> DEFINE c == compression[s]
<1>1. unready' \in {unready, unready \cup {c}}
      /\ (HasState(c, held'[c]) /\ (c \in Borrowers => shared' = "held") => unready' = unready)
  BY DEF Decompress
<1>2. Doubtful \subseteq Doubtful'
  BY DEF Doubtful
<1>3. c \notin Doubtful' => HasState(c, held'[c]) /\ (c \in Borrowers => shared' = "held")
  BY SettledDefs DEF ReadyHaveTheirState
<1>4. unready' \subseteq Doubtful'
  BY <1>1, <1>2, <1>3 DEF UnreadyAreDoubtful
<1>5. \A d \in unready' : \E t \in Slots : compression'[t] = d
  BY <1>1 DEF UnreadyAreDoubtful, Settled
<1> QED BY <1>1, <1>4, <1>5 DEF UnreadyAreDoubtful

LEMMA DecodeKeeps ==
  ASSUME SlotIInv, NEW s \in Slots, DecodeReady(s) \/ DecodeAlias(s)
  PROVE  SlotIInv'
<1>1. /\ StatesInv /\ WayInv /\ HeaderOK
      /\ Selectable(s) /\ Settled /\ Untouched /\ UNCHANGED <<phase, next, shared>>
      /\ Decompress(compression[s], held[compression[s]], shared)
      /\ lazy' = lazy \/ lazy' = lazy \cup {s}
  BY SlotIInvSays DEF StatesInv, DecodeReady, DecodeAlias, Settled
<1>2. phase = "open" /\ ~Frozen /\ ~Frozen' /\ compression[s] \in Codecs
  BY <1>1 DEF Selectable, Frozen
<1>3. StatesInv'
  BY <1>1, <1>2, UntouchedKeepsStates
<1>4. compression[s] \in ready
  <2>1. CASE lazybuild /\ s \notin lazy
    <3>1. PICK t \in lazy : compression[t] = compression[s]
      BY <2>1 DEF DecodeReady, DecodeAlias, Earlier
    <3> QED BY <3>1, <1>1 DEF WayInv, MarksOK
  <2>2. CASE lazybuild /\ s \in lazy
    BY <2>2, <1>1 DEF WayInv, MarksOK
  <2>3. CASE ~lazybuild
    BY <2>3, <1>1, <1>2, SlotsHaveCodecs DEF WayInv, OpenSlotsOK
  <2> QED BY <2>1, <2>2, <2>3
<1>5. UnreadyAreDoubtful' /\ unready' \subseteq Codecs
  BY <1>1, <1>2, <1>3, <1>4, DecompressKeeps DEF WayInv, MarksOK, StatesInv, Untouched
<1>6. PlaceOK' /\ OpenSlotsOK' /\ MarksOK' /\ LazyIsMarked'
  BY <1>1, <1>4, <1>5 DEF WayInv, PlaceOK, OpenSlotsOK, MarksOK, LazyIsMarked, Untouched, Settled
<1>7. FirstSlotsMakeStates'
  BY <1>1, <1>2, SettledDefs DEF WayInv, FirstSlotsMakeStates, Untouched, Settled, Frozen
<1> QED BY <1>2, <1>3, <1>5, <1>6, <1>7, NotTheEnd, SlotIInvSaysNext DEF WayInv

LEMMA FirstUseNotLentKeeps ==
  ASSUME SlotIInv, NEW s \in Slots, FirstUseNotLent(s)
  PROVE  SlotIInv'
<1>1. /\ StatesInv /\ WayInv /\ Settled /\ Untouched
      /\ UNCHANGED <<phase, next, shared, lazy, unready>> /\ ~Frozen /\ ~Frozen'
  BY SlotIInvSays DEF FirstUseNotLent, FirstUse, Selectable, Settled, Frozen
<1>2. StatesInv'
  BY <1>1, UntouchedKeepsStates
<1>3. PlaceOK' /\ OpenSlotsOK' /\ MarksOK' /\ LazyIsMarked' /\ UnreadyAreDoubtful'
  BY <1>1 DEF WayInv, PlaceOK, OpenSlotsOK, MarksOK, LazyIsMarked, Untouched, Settled,
              UnreadyAreDoubtful, Doubtful
<1>4. FirstSlotsMakeStates'
  BY <1>1, SettledDefs DEF WayInv, FirstSlotsMakeStates, Untouched, Settled
<1> QED BY <1>1, <1>2, <1>3, <1>4, NotTheEnd, SlotIInvSaysNext DEF WayInv

LEMMA FirstUseInitKeeps ==
  ASSUME SlotIInv, NEW s \in Slots, FirstUseInit(s)
  PROVE  SlotIInv'
<1> DEFINE c == compression[s]
<1>1. /\ StatesInv /\ WayInv /\ Settled /\ HeaderOK /\ FirstUse(s) /\ lazybuild
      /\ UNCHANGED <<phase, next>> /\ shared' = Lent(c) /\ c \in Codecs
      /\ phase = "open" /\ ~Frozen /\ ~Frozen'
  BY SlotIInvSays DEF FirstUseInit, FirstUse, Selectable, Settled, Frozen, StatesInv
<1>2. PICK n \in Outcomes(c) :
        /\ Init_codec(c, n)
        /\ lazy' = Marked(s, c, n)
        /\ IF Succeeds(c, n) THEN Decompress(c, held'[c], shared') ELSE UNCHANGED unready
  BY DEF FirstUseInit
<1>3. /\ ready' = IF Succeeds(c, n) THEN ready \cup {c} ELSE ready
      /\ again' = again \cup ({c} \cap ready)
  BY <1>1, <1>2, InitCodec DEF StatesInv, StatesOK
<1>4. ASSUME c \in ready
      PROVE  \E t, u \in Slots : t < u /\ compression[t] = c /\ compression[u] = c
  <2>1. PICK t \in lazy : compression[t] = c
    BY <1>1, <1>4 DEF WayInv, LazyIsMarked
  <2>2. t \in Slots /\ t # s /\ ~(t < s)
    BY <2>1, <1>1 DEF FirstUse, Earlier, WayInv, LazyIsMarked
  <2>3. s < t
    BY <2>2, SlotAssumption DEF Slots
  <2> QED BY <2>1, <2>2, <2>3
<1>5. StatesInv'
  BY <1>1, <1>2, <1>4, InitKeepsStates
<1>6. UnreadyAreDoubtful' /\ unready' \subseteq Codecs
  <2>1. CASE Succeeds(c, n)
    BY <2>1, <1>1, <1>2, <1>3, <1>5, DecompressKeeps DEF WayInv, MarksOK, StatesInv
  <2>2. CASE ~Succeeds(c, n)
    BY <2>2, <1>1, <1>2, <1>3 DEF WayInv, MarksOK, UnreadyAreDoubtful, Doubtful, Settled
  <2> QED BY <2>1, <2>2
<1>7. PlaceOK' /\ OpenSlotsOK'
  BY <1>1, <1>3 DEF WayInv, PlaceOK, OpenSlotsOK, Settled
<1>8. MarksOK' /\ LazyIsMarked'
  <2>1. lazy' = IF Succeeds(c, n) THEN lazy \cup {s} ELSE lazy
    BY <1>2 DEF Marked
  <2>2. MarksOK'
    BY <2>1, <1>1, <1>3, <1>6 DEF WayInv, MarksOK, Settled, Lent
  <2>3. LazyIsMarked'
    BY <2>1, <1>1, <1>3 DEF WayInv, LazyIsMarked, Settled
  <2> QED BY <2>2, <2>3
<1>9. FirstSlotsMakeStates'
  BY <1>1 DEF FirstSlotsMakeStates, Settled
<1> QED BY <1>1, <1>5, <1>6, <1>7, <1>8, <1>9, NotTheEnd, SlotIInvSaysNext DEF WayInv

(* chd_close() frees what the open made: by default every state is that of  *)
(* a first slot, and every first slot is freed.                             *)
LEMMA CloseKeeps ==
  ASSUME SlotIInv, Close
  PROVE  SlotIInv'
<1>1. /\ StatesInv /\ WayInv /\ HeaderOK /\ Settled /\ ~Frozen /\ phase' = "closed" /\ Frozen'
      /\ held' = [c \in Codecs |-> IF c \in Freed THEN {} ELSE held[c]]
      /\ shared' = IF shared = "held" THEN "freed" ELSE shared
      /\ UNCHANGED <<next, lost, again, ready, lazy, unready>>
  BY SlotIInvSays DEF Close, Settled, Frozen, StatesInv
<1>2. StatesInv'
  <2>1. StatesOK' /\ HeldIsAFunction'
    BY <1>1, SettledDefs DEF StatesInv, StatesOK, HeldIsAFunction
  <2>2. HeaderOK' /\ NothingAgain' /\ InitialisedOnce'
    BY <1>1 DEF StatesInv, HeaderOK, NothingAgain, InitialisedOnce, Settled
  <2>3. CallbacksStay' /\ ReadyHaveTheirState'
    BY <1>1 DEF CallbacksStay, ReadyHaveTheirState
  <2> QED BY <2>1, <2>2, <2>3 DEF StatesInv
<1>3. NothingLeaks'
  <2> SUFFICES ASSUME ~lazybuild
               PROVE  (\A c \in Codecs : Allocated(held'[c]) = {}) /\ lost' = {} /\ shared' # "held"
    BY <1>1 DEF NothingLeaks, Settled, Allocated
  <2>1. ASSUME NEW c \in Codecs PROVE held'[c] = {}
    <3>1. CASE c \in Freed
      BY <3>1, <1>1
    <3>2. CASE c \notin Freed
      <4>1. ASSUME NEW s \in Slots, s < next, compression[s] = c, Earlier(s) = {} PROVE FALSE
        BY <4>1, <3>2 DEF Freed, FreedSlots
      <4>2. held[c] = {}
        BY <4>1, <1>1 DEF WayInv, FirstSlotsMakeStates
      <4> QED BY <3>2, <4>2, <1>1
    <3> QED BY <3>1, <3>2
  <2>2. lost' = {}
    BY <1>1 DEF StatesInv, NothingAgain
  <2> QED BY <2>1, <2>2, <1>1 DEF Allocated
<1>4. EndInv'
  BY <1>1, <1>3 DEF EndInv, LazyCloseNeverRunsWild, CloseNeverRunsWild, ClosedGivesBack
<1>5. WayInv'
  BY <1>1 DEF WayInv, PlaceOK, MarksOK, OpenSlotsOK, FirstSlotsMakeStates, LazyIsMarked,
              UnreadyAreDoubtful, Doubtful, Settled
<1> QED BY <1>2, <1>4, <1>5, SlotIInvSaysNext

(* A free function that cannot cope runs by default only.                   *)
LEMMA CloseRunsWildKeeps ==
  ASSUME SlotIInv, CloseRunsWild
  PROVE  SlotIInv'
<1>1. /\ StatesInv /\ WayInv /\ HeaderOK /\ Settled /\ ~Frozen /\ phase' = "crashed" /\ Frozen'
      /\ UNCHANGED <<next, held, lost, again, ready, lazy, shared, unready>>
  BY SlotIInvSays DEF CloseRunsWild, Settled, Frozen, StatesInv
<1>2. ~lazybuild
  <2> SUFFICES ASSUME lazybuild PROVE FALSE
    OBVIOUS
  <2>1. PICK c \in Freed : Wild(c)
    BY DEF CloseRunsWild
  <2>2. c \in ready
    BY <2>1, <1>1 DEF Freed, FreedSlots, WayInv, MarksOK
  <2> QED BY <2>1, <2>2, <1>1 DEF Wild, StatesInv, CallbacksStay
<1>3. StatesInv'
  <2>1. StatesOK' /\ HeldIsAFunction'
    BY <1>1, SettledDefs DEF StatesInv, StatesOK, HeldIsAFunction
  <2>2. HeaderOK' /\ NothingAgain' /\ InitialisedOnce'
    BY <1>1 DEF StatesInv, HeaderOK, NothingAgain, InitialisedOnce, Settled
  <2>3. CallbacksStay' /\ ReadyHaveTheirState'
    BY <1>1 DEF CallbacksStay, ReadyHaveTheirState
  <2> QED BY <2>1, <2>2, <2>3 DEF StatesInv
<1>4. EndInv'
  BY <1>1, <1>2 DEF EndInv, NothingLeaks, LazyCloseNeverRunsWild, ClosedGivesBack, Settled
<1>5. WayInv'
  BY <1>1 DEF WayInv, PlaceOK, MarksOK, OpenSlotsOK, FirstSlotsMakeStates, LazyIsMarked,
              UnreadyAreDoubtful, Doubtful, Settled
<1> QED BY <1>3, <1>4, <1>5, SlotIInvSaysNext

-----------------------------------------------------------------------------
LEMMA InitSlotIInv == SlotInit => SlotIInv
<1> SUFFICES ASSUME SlotInit PROVE SlotIInv
  OBVIOUS
<1> USE SlotAssumption DEF SlotInit
<1>1. StatesInv
  <2>1. HeaderOK /\ HeldIsAFunction /\ NothingAgain /\ InitialisedOnce
    BY DEF HeaderOK, HeldIsAFunction, NothingAgain, InitialisedOnce
  <2>2. StatesOK /\ CallbacksStay /\ ReadyHaveTheirState
    BY DEF StatesOK, CallbacksStay, ReadyHaveTheirState
  <2> QED BY <2>1, <2>2 DEF StatesInv
<1>2. EndInv
  BY DEF EndInv, NothingLeaks, LazyCloseNeverRunsWild, CloseNeverRunsWild, ClosedGivesBack
<1>3. WayInv
  <2>1. PlaceOK /\ MarksOK /\ OpenSlotsOK /\ LazyIsMarked /\ UnreadyAreDoubtful
    BY DEF PlaceOK, MarksOK, OpenSlotsOK, LazyIsMarked, UnreadyAreDoubtful
  <2>2. FirstSlotsMakeStates
    BY DEF FirstSlotsMakeStates, Slots
  <2> QED BY <2>1, <2>2 DEF WayInv
<1> QED BY <1>1, <1>2, <1>3, SlotIInvSays

LEMMA SlotStutterKeeps ==
  ASSUME SlotIInv, UNCHANGED slotvars
  PROVE  SlotIInv'
<1>1. /\ StatesInv /\ WayInv /\ EndInv /\ Settled /\ Untouched
      /\ UNCHANGED <<phase, next, lazy, shared, unready>>
  BY SlotIInvSays DEF slotvars, Settled, Untouched
<1>2. Frozen' <=> Frozen
  BY <1>1 DEF Frozen
<1>3. StatesInv'
  <2>1. CASE ~Frozen
    BY <2>1, <1>1, UntouchedKeepsStates
  <2>2. CASE Frozen
    <3>1. StatesOK' /\ HeldIsAFunction'
      BY <1>1, SettledDefs DEF StatesInv, StatesOK, HeldIsAFunction, Untouched
    <3>2. HeaderOK' /\ NothingAgain' /\ InitialisedOnce'
      BY <1>1 DEF StatesInv, HeaderOK, NothingAgain, InitialisedOnce, Settled, Untouched
    <3>3. CallbacksStay' /\ ReadyHaveTheirState'
      BY <2>2, <1>2 DEF CallbacksStay, ReadyHaveTheirState
    <3> QED BY <3>1, <3>2, <3>3 DEF StatesInv
  <2> QED BY <2>1, <2>2
<1>4. EndInv'
  BY <1>1 DEF EndInv, NothingLeaks, LazyCloseNeverRunsWild, CloseNeverRunsWild, ClosedGivesBack,
              Settled, Untouched, Allocated
<1>5. WayInv'
  <2>1. PlaceOK' /\ MarksOK' /\ OpenSlotsOK' /\ LazyIsMarked' /\ UnreadyAreDoubtful'
    BY <1>1 DEF WayInv, PlaceOK, MarksOK, OpenSlotsOK, LazyIsMarked, UnreadyAreDoubtful,
                Doubtful, Settled, Untouched
  <2>2. FirstSlotsMakeStates'
    BY <1>1, <1>2, SettledDefs DEF WayInv, FirstSlotsMakeStates, Settled, Untouched
  <2> QED BY <2>1, <2>2 DEF WayInv
<1> QED BY <1>3, <1>4, <1>5, SlotIInvSaysNext

LEMMA SlotNextKeepsIInv == SlotIInv /\ [SlotNext]_slotvars => SlotIInv'
<1> SUFFICES ASSUME SlotIInv, [SlotNext]_slotvars PROVE SlotIInv'
  OBVIOUS
<1>1. CASE UnsupportedSlot \/ ResolveSlot \/ NotLent \/ InitSlot
  BY <1>1, UnsupportedSlotKeeps, ResolveSlotKeeps, NotLentKeeps, InitSlotKeeps
<1>2. ASSUME NEW s \in Slots, ensure_codec_ready(s) PROVE SlotIInv'
  BY <1>2, DecodeKeeps, FirstUseNotLentKeeps, FirstUseInitKeeps DEF ensure_codec_ready
<1>3. CASE Close \/ CloseRunsWild
  BY <1>3, CloseKeeps, CloseRunsWildKeeps
<1>4. CASE UNCHANGED slotvars
  BY <1>4, SlotStutterKeeps
<1> QED BY <1>1, <1>2, <1>3, <1>4 DEF SlotNext

LEMMA SlotInvariantHolds == SlotSpec => []SlotIInv
BY InitSlotIInv, SlotNextKeepsIInv, PTL DEF SlotSpec

(* For every header and both builds: the state of a codec is made once and  *)
(* freed once, whatever slots it is in and however far the open of          *)
(* chd_open_core_file_callbacks() or a lazy initialisation came.            *)
THEOREM StatesMadeAndFreedOnce == SlotSpec => []StatesAreMadeAndFreedOnce
<1>1. SlotIInv => StatesAreMadeAndFreedOnce
  BY DEF SlotIInv
<1> QED BY <1>1, SlotInvariantHolds, PTL

(* For every header and both builds: a codec that decompresses without the  *)
(* state its init builds is huff, or one that ensure_codec_ready() has      *)
(* initialised again.                                                       *)
THEOREM OnlyDoubtfulCodecsLackTheirState == SlotSpec => []UnreadyAreDoubtful
<1>1. SlotIInv => UnreadyAreDoubtful
  BY DEF SlotIInv
<1> QED BY <1>1, SlotInvariantHolds, PTL

(* The headers without either: none names huff, and none read by a          *)
(* LOWRAM_TARGET build repeats a codec whose init can fail half-way.        *)
HeadersWithoutDoubt ==
  \A b \in Builds : \A h \in Headers(b) : \A s \in Slots :
    /\ h[s] # "huff"
    /\ b /\ h[s] \in Codecs \ {"flac"} => \A t \in Slots : h[t] = h[s] => t = s

(* With such headers no decompress function ever runs without the state     *)
(* its init builds, nor through a shared inflater the handle does not have. *)
THEOREM DecodersAlwaysHaveTheirState ==
  ASSUME HeadersWithoutDoubt
  PROVE  SlotSpec => []DecodersHaveTheirState
<1>1. SlotIInv => DecodersHaveTheirState
  <2> SUFFICES ASSUME SlotIInv, NEW c \in unready PROVE FALSE
    BY DEF DecodersHaveTheirState
  <2>1. HeaderOK /\ StatesOK /\ InitialisedOnce /\ unready \subseteq Codecs
    BY SlotIInvSays DEF StatesInv, WayInv, MarksOK
  <2>2. PICK s \in Slots : compression[s] = c
    BY DEF SlotIInv, UnreadyAreDoubtful
  <2>3. c # "huff"
    BY <2>1, <2>2 DEF HeadersWithoutDoubt, HeaderOK
  <2>4. c \in again /\ c # "flac" /\ c \in Codecs
    BY <2>1, <2>3 DEF SlotIInv, UnreadyAreDoubtful, Doubtful
  <2>5. lazybuild /\ \E t, u \in Slots : t < u /\ compression[t] = c /\ compression[u] = c
    BY <2>1, <2>4 DEF InitialisedOnce
  <2>6. \A t, u \in Slots : compression[t] = c /\ compression[u] = c => t = u
    <3>1. \A t \in Slots :
            lazybuild /\ compression[t] \in Codecs \ {"flac"} =>
              \A u \in Slots : compression[u] = compression[t] => u = t
      BY <2>1, Zenon DEF HeadersWithoutDoubt, HeaderOK
    <3> QED BY <3>1, <2>4, <2>5
  <2>7. \A t \in Slots : ~(t < t)
    BY DEF Slots
  <2> QED BY <2>5, <2>6, <2>7
<1> QED BY <1>1, SlotInvariantHolds, PTL

-----------------------------------------------------------------------------
(****************************************************************************)
(* The table of kept blocks is sound and behaves as malloc() and free() do, *)
(* for every sequence of requests, every set of sizes, every rounding and   *)
(* every size of the table.                                                 *)
(*                                                                          *)
(* The invariant is a correspondence: what the library holds is, one by     *)
(* one, the blocks of the table whose word is odd.  The table has as many   *)
(* blocks of a size as were held at once, because a block is only made when *)
(* all of its size are held.                                                *)
(****************************************************************************)

-----------------------------------------------------------------------------
(* The inductive invariant.                                                 *)

RoundedSizes == {Rounded(m) : m \in Sizes}

MemoryShape ==
  /\ codec \in {"none", "made", "freed"}
  /\ blocks \in 0 .. MaxBlocks
  /\ table \in [PoolSlots -> [block : 0 .. MaxBlocks, word : Nat]]
  /\ heap \subseteq 1 .. blocks
  /\ swallowed \subseteq heap
  /\ given \subseteq [address : 1 .. MaxBlocks, size : Sizes]
  /\ peak \in [RoundedSizes -> Nat]

Holding(s) == table[s].block # NoBlock
GivenOut(s) == \E g \in given : g.address = table[s].block

(* The table and the heap: each block that is neither freed nor swallowed   *)
(* has a slot of its own.                                                   *)
TableIsTheHeap ==
  /\ \A s, t \in PoolSlots : Holding(s) /\ table[s].block = table[t].block => s = t
  /\ \A s \in PoolSlots : Holding(s) => table[s].block \in heap \ swallowed
  /\ \A b \in heap \ swallowed : \E s \in PoolSlots : table[s].block = b

(* The word of a slot: a rounded size, plus one while the block is lent.    *)
WordsTell ==
  /\ \A s \in PoolSlots : Holding(s) /\ ~ GivenOut(s) => table[s].word \in RoundedSizes
  /\ \A s \in PoolSlots : \A g \in given :
       g.address = table[s].block => table[s].word = Rounded(g.size) + 1

(* What is lent is in the table, and lent once.                             *)
LentOnce ==
  /\ \A g \in given : \E s \in PoolSlots : table[s].block = g.address
  /\ \A g, h \in given : g.address = h.address => g = h

(* The slots with blocks of a size.                                         *)
SlotsOf(n) == {s \in PoolSlots : Holding(s) /\ Released(table[s].word) = n}

WhileMade ==
  codec = "made" => TableIsTheHeap /\ WordsTell /\ LentOnce /\ TableIsAsLargeAsThePeak

WhileNotMade ==
  /\ codec # "made" => heap = swallowed /\ given = {}
  /\ codec = "none" => \A n \in RoundedSizes : peak[n] = 0

MemoryIInv == MemoryShape /\ WhileMade /\ WhileNotMade
-----------------------------------------------------------------------------
(* Words.                                                                   *)

LEMMA Quotients ==
  ASSUME NEW x \in Nat, NEW y \in Nat \ {0}
  PROVE  /\ x \div y \in Nat
         /\ x < (x \div y) * y + y
OBVIOUS

LEMMA Doubles ==
  ASSUME NEW q \in Nat, NEW k \in Nat
  PROVE  /\ q * (2 * k) \in Nat
         /\ (q * (2 * k)) % 2 = 0
         /\ (q * (2 * k) + 1) % 2 = 1
<1>1. q * (2 * k) = 2 * (q * k) /\ q * k \in Nat
  OBVIOUS
<1>2. \A m \in Nat : 2 * m \in Nat /\ (2 * m) % 2 = 0 /\ (2 * m + 1) % 2 = 1
  OBVIOUS
<1> QED BY <1>1, <1>2

(* A rounded size has room for the size, and its low bit is free.           *)
LEMMA RoundedFacts ==
  ASSUME NEW n \in Nat
  PROVE  /\ Rounded(n) \in Nat /\ n <= Rounded(n)
         /\ Rounded(n) % 2 = 0 /\ (Rounded(n) + 1) % 2 = 1
<1>1. Grain \in Nat \ {0} /\ n + Grain - 1 \in Nat
  BY MemoryAssumption
<1>2. PICK k \in Nat : Grain = 2 * k
  <2>1. Grain % 2 = 0 /\ Grain \in Nat
    BY MemoryAssumption
  <2>2. Grain = 2 * (Grain \div 2) /\ Grain \div 2 \in Nat
    BY <2>1
  <2> QED BY <2>2
<1> DEFINE q == (n + Grain - 1) \div Grain
<1>3. q \in Nat /\ n + Grain - 1 < q * Grain + Grain
  BY <1>1, Quotients
<1> HIDE DEF q
<1>4. q * Grain \in Nat /\ (q * Grain) % 2 = 0 /\ (q * Grain + 1) % 2 = 1
  BY <1>2, <1>3, Doubles
<1>5. n <= q * Grain
  BY <1>1, <1>3, <1>4
<1>6. Rounded(n) = q * Grain
  BY DEF Rounded, q
<1> QED BY <1>4, <1>5, <1>6

LEMMA WordFacts ==
  ASSUME NEW r \in RoundedSizes
  PROVE  /\ r \in Nat /\ ~ InUse(r) /\ InUse(r + 1) /\ r # r + 1
         /\ Claimed(r) = r + 1 /\ Released(r) = r /\ Released(r + 1) = r
<1>1. PICK n \in Sizes : r = Rounded(n)
  BY DEF RoundedSizes
<1>2. n \in Nat
  BY MemoryAssumption
<1>3. r \in Nat /\ r % 2 = 0 /\ (r + 1) % 2 = 1
  BY <1>1, <1>2, RoundedFacts
<1>4. ~ InUse(r) /\ InUse(r + 1)
  BY <1>3 DEF InUse
<1> QED BY <1>3, <1>4 DEF Claimed, Released

(* No two rounded sizes share a word.                                       *)
LEMMA WordsApart ==
  ASSUME NEW r \in RoundedSizes, NEW q \in RoundedSizes
  PROVE  r # q + 1 /\ (r + 1 = q + 1 => r = q)
<1>1. r \in Nat /\ q \in Nat /\ ~ InUse(r) /\ InUse(q + 1)
  BY WordFacts
<1> QED BY <1>1

-----------------------------------------------------------------------------
(* What is held, counted by slots.                                          *)

HeldOf(n) == {g \in given : Rounded(g.size) = n}
UsedOf(n) == {s \in SlotsOf(n) : GivenOut(s)}

PeakTells == \A n \in RoundedSizes : Cardinality(SlotsOf(n)) = peak[n]

LEMMA PeakTellsOf ==
  ASSUME MemoryShape, codec = "made"
  PROVE  TableIsAsLargeAsThePeak <=> PeakTells
<1>1. DOMAIN peak = RoundedSizes
  BY DEF MemoryShape
<1> QED BY <1>1 DEF TableIsAsLargeAsThePeak, PeakTells, SlotsOf, Holding

LEMMA SlotsAreFinite ==
  /\ IsFiniteSet(PoolSlots)
  /\ \A n : IsFiniteSet(SlotsOf(n)) /\ IsFiniteSet(UsedOf(n))
<1>1. IsFiniteSet(PoolSlots)
  BY MemoryAssumption, FS_Interval DEF PoolSlots
<1>2. \A n : SlotsOf(n) \subseteq PoolSlots /\ UsedOf(n) \subseteq PoolSlots
  BY DEF SlotsOf, UsedOf
<1> QED BY <1>1, <1>2, FS_Subset

LEMMA HeldIsUsed ==
  ASSUME MemoryShape, TableIsTheHeap, WordsTell, LentOnce, NEW n \in RoundedSizes
  PROVE  HeldNow(n) = Cardinality(UsedOf(n))
<1> DEFINE At(s) == CHOOSE g \in given : g.address = table[s].block
           f == [s \in UsedOf(n) |-> At(s)]
<1>1. ASSUME NEW s \in UsedOf(n)
      PROVE  At(s) \in HeldOf(n) /\ At(s).address = table[s].block /\ Holding(s) /\ s \in PoolSlots
  <2>1. s \in PoolSlots /\ Holding(s) /\ GivenOut(s) /\ Released(table[s].word) = n
    BY DEF UsedOf, SlotsOf
  <2>2. At(s) \in given /\ At(s).address = table[s].block
    BY <2>1 DEF GivenOut
  <2> HIDE DEF At
  <2>3. At(s).size \in Sizes
    BY <2>2 DEF MemoryShape
  <2>4. Rounded(At(s).size) \in RoundedSizes
    BY <2>3 DEF RoundedSizes
  <2>5. table[s].word = Rounded(At(s).size) + 1
    BY <2>1, <2>2 DEF WordsTell
  <2>6. Rounded(At(s).size) = n
    BY <2>1, <2>4, <2>5, WordFacts
  <2> QED BY <2>1, <2>2, <2>6 DEF HeldOf
<1>2. ASSUME NEW g \in HeldOf(n) PROVE \E s \in UsedOf(n) : At(s) = g
  <2>1. g \in given /\ Rounded(g.size) = n /\ g.address \in 1 .. MaxBlocks
    BY DEF HeldOf, MemoryShape
  <2>2. PICK s \in PoolSlots : table[s].block = g.address
    BY <2>1 DEF LentOnce
  <2>3. Holding(s) /\ GivenOut(s) /\ table[s].word = n + 1
    BY <2>1, <2>2 DEF Holding, GivenOut, NoBlock, WordsTell
  <2>4. s \in UsedOf(n)
    BY <2>3, WordFacts DEF UsedOf, SlotsOf
  <2>5. At(s) \in given /\ At(s).address = table[s].block
    BY <2>3 DEF GivenOut
  <2> HIDE DEF At
  <2>6. At(s) = g
    BY <2>1, <2>2, <2>5 DEF LentOnce
  <2> QED BY <2>4, <2>6
<1> HIDE DEF At
<1>3. f \in [UsedOf(n) -> HeldOf(n)]
  BY <1>1
<1>4. \A s, t \in UsedOf(n) : f[s] = f[t] => s = t
  <2>1. ASSUME NEW s \in UsedOf(n), NEW t \in UsedOf(n), At(s) = At(t) PROVE s = t
    BY <2>1, <1>1 DEF TableIsTheHeap
  <2> QED BY <2>1
<1>5. \A g \in HeldOf(n) : \E s \in UsedOf(n) : f[s] = g
  BY <1>2
<1> HIDE DEF f
<1>6. f \in Bijection(UsedOf(n), HeldOf(n))
  BY <1>3, <1>4, <1>5 DEF Bijection, Injection, Surjection, IsInjective
<1>7. ExistsBijection(UsedOf(n), HeldOf(n))
  BY <1>6 DEF ExistsBijection
<1>8. Cardinality(HeldOf(n)) = Cardinality(UsedOf(n))
  BY <1>7, SlotsAreFinite, FS_Bijection
<1> QED BY <1>8 DEF HeldOf, HeldNow
-----------------------------------------------------------------------------
(* The actions.  Each is first said in words of what it does to a slot.     *)

TableType == [PoolSlots -> [block : 0 .. MaxBlocks, word : Nat]]

LEMMA MadeFacts ==
  ASSUME MemoryIInv, codec = "made"
  PROVE  MemoryShape /\ TableIsTheHeap /\ WordsTell /\ LentOnce /\ PeakTells
BY PeakTellsOf DEF MemoryIInv, WhileMade

LEMMA MadeFactsNext ==
  ASSUME MemoryShape', codec' = "made", TableIsTheHeap', WordsTell', LentOnce', PeakTells'
  PROVE  MemoryIInv'
<1>1. TableIsAsLargeAsThePeak'
  <2>1. DOMAIN peak' = RoundedSizes
    BY DEF MemoryShape
  <2> QED BY <2>1 DEF TableIsAsLargeAsThePeak, PeakTells, SlotsOf, Holding
<1> QED BY <1>1 DEF MemoryIInv, WhileMade, WhileNotMade

(* A slot whose word is a rounded size is not lent, and the size it is in   *)
(* has a slot more than is held.                                            *)
LEMMA FreeSlots ==
  ASSUME MemoryShape, TableIsTheHeap, WordsTell, LentOnce, PeakTells,
         NEW n \in RoundedSizes, NEW s \in PoolSlots, Holding(s), table[s].word = n
  PROVE  ~ GivenOut(s) /\ HeldNow(n) + 1 <= peak[n]
<1>1. ~ GivenOut(s)
  <2>1. ASSUME NEW g \in given, g.address = table[s].block PROVE FALSE
    <3>1. table[s].word = Rounded(g.size) + 1 /\ g.size \in Sizes
      BY <2>1 DEF WordsTell, MemoryShape
    <3>2. Rounded(g.size) \in RoundedSizes
      BY <3>1 DEF RoundedSizes
    <3> QED BY <3>1, <3>2, WordsApart
  <2> QED BY <2>1 DEF GivenOut
<1>2. s \in SlotsOf(n)
  BY WordFacts DEF SlotsOf
<1>3. UsedOf(n) \subseteq SlotsOf(n) \ {s}
  BY <1>1 DEF UsedOf
<1>4. /\ IsFiniteSet(SlotsOf(n) \ {s})
      /\ Cardinality(SlotsOf(n) \ {s}) = Cardinality(SlotsOf(n)) - 1
  BY <1>2, SlotsAreFinite, FS_RemoveElement
<1>5. Cardinality(UsedOf(n)) <= Cardinality(SlotsOf(n) \ {s})
  BY <1>3, <1>4, FS_Subset
<1>6. Cardinality(UsedOf(n)) \in Nat /\ Cardinality(SlotsOf(n)) \in Nat
  BY SlotsAreFinite, FS_CardinalityType
<1>7. HeldNow(n) = Cardinality(UsedOf(n)) /\ peak[n] = Cardinality(SlotsOf(n))
  BY HeldIsUsed DEF PeakTells
<1> QED BY <1>1, <1>4, <1>5, <1>6, <1>7

(* Without a slot to serve a size, all its slots are lent.                  *)
LEMMA AllLent ==
  ASSUME MemoryShape, TableIsTheHeap, WordsTell, LentOnce, PeakTells,
         NEW n \in RoundedSizes, \A s \in PoolSlots : Holding(s) => table[s].word # n
  PROVE  HeldNow(n) = peak[n]
<1>1. ASSUME NEW s \in SlotsOf(n) PROVE GivenOut(s)
  <2>1. s \in PoolSlots /\ Holding(s) /\ Released(table[s].word) = n
    BY DEF SlotsOf
  <2>2. ASSUME ~ GivenOut(s) PROVE FALSE
    <3>1. table[s].word \in RoundedSizes
      BY <2>1, <2>2 DEF WordsTell
    <3>2. table[s].word = n
      BY <2>1, <3>1, WordFacts
    <3> QED BY <2>1, <3>2
  <2> QED BY <2>2
<1>2. UsedOf(n) = SlotsOf(n)
  BY <1>1 DEF UsedOf
<1> QED BY <1>2, HeldIsUsed DEF PeakTells

(* Lending a block: another holder of it, of which there was none.          *)
LentAs(b, n) == [address |-> b, size |-> n]

LEMMA ReuseStep ==
  ASSUME MemoryIInv, NEW size \in Sizes, Reuse(size)
  PROVE  MemoryIInv' /\ \E b \in 1 .. MaxBlocks :
                          /\ \A g \in given : g.address # b
                          /\ given' = given \cup {LentAs(b, size)}
<1> DEFINE r == Rounded(size)
<1>1. codec = "made" /\ UNCHANGED <<codec, heap, blocks, swallowed>>
  BY DEF Reuse
<1>2. MemoryShape /\ TableIsTheHeap /\ WordsTell /\ LentOnce /\ PeakTells
  BY <1>1, MadeFacts
<1>3. PICK s \in PoolSlots :
        /\ Holding(s) /\ table[s].word = r
        /\ table' = [table EXCEPT ![s].word = Claimed(@)]
        /\ Gave(table[s].block, size)
  BY DEF Reuse, FirstOf, Serving, Holding
<1>4. r \in RoundedSizes
  BY DEF RoundedSizes
<1> HIDE DEF r
<1>5. ~ GivenOut(s) /\ HeldNow(r) + 1 <= peak[r]
  BY <1>2, <1>3, <1>4, FreeSlots
<1>6. table \in TableType
  BY <1>2 DEF MemoryShape, TableType
<1>7. table[s].block \in 1 .. MaxBlocks
  BY <1>3, <1>6 DEF TableType, Holding, NoBlock
<1>8. /\ table' \in TableType
      /\ \A t \in PoolSlots : table'[t].block = table[t].block
      /\ table'[s].word = r + 1
      /\ \A t \in PoolSlots : t # s => table'[t].word = table[t].word
  BY <1>3, <1>4, <1>6, WordFacts DEF TableType
<1> DEFINE g0 == LentAs(table[s].block, size)
<1>9. g0.address = table[s].block /\ g0.size = size /\ g0 \in [address : 1 .. MaxBlocks, size : Sizes]
  BY <1>7 DEF LentAs
<1>10. given' = given \cup {g0}
  BY <1>3 DEF Gave, LentAs
<1> HIDE DEF g0
<1>11. peak' = peak
  <2>1. peak \in [RoundedSizes -> Nat]
    BY <1>2 DEF MemoryShape
  <2>2. HeldNow(r) \in Nat
    BY <1>2, <1>4, HeldIsUsed, SlotsAreFinite, FS_CardinalityType
  <2>3. ~ (HeldNow(r) + 1 > peak[r])
    BY <1>4, <1>5, <2>1, <2>2
  <2>4. peak' = [peak EXCEPT ![r] = IF HeldNow(r) + 1 > @ THEN @ + 1 ELSE @]
    BY <1>3 DEF Gave, r
  <2> QED BY <2>1, <2>3, <2>4
<1>12. MemoryShape'
  BY <1>1, <1>2, <1>8, <1>9, <1>10, <1>11 DEF MemoryShape, TableType
<1>13. \A t \in PoolSlots : Holding(t)' <=> Holding(t)
  BY <1>8 DEF Holding
<1>14. TableIsTheHeap'
  BY <1>1, <1>2, <1>8, <1>13 DEF TableIsTheHeap
<1>15. \A t \in PoolSlots : GivenOut(t)' <=> (GivenOut(t) \/ t = s)
  <2>1. \A t \in PoolSlots : table[t].block = table[s].block => t = s
    BY <1>2, <1>3 DEF TableIsTheHeap
  <2> QED BY <2>1, <1>8, <1>9, <1>10 DEF GivenOut
<1>16. WordsTell'
  <2>1. ASSUME NEW t \in PoolSlots, Holding(t)', ~ GivenOut(t)' PROVE table'[t].word \in RoundedSizes
    BY <2>1, <1>2, <1>8, <1>13, <1>15 DEF WordsTell
  <2>2. ASSUME NEW t \in PoolSlots, NEW g \in given', g.address = table'[t].block
        PROVE  table'[t].word = Rounded(g.size) + 1
    <3>1. CASE g \in given
      <4>1. g.address = table[t].block /\ GivenOut(t)
        BY <3>1, <2>2, <1>8 DEF GivenOut
      <4>2. t # s
        BY <4>1, <1>5
      <4> QED BY <3>1, <4>1, <4>2, <1>2, <1>8 DEF WordsTell
    <3>2. CASE g = g0
      <4>1. t = s
        BY <3>2, <2>2, <1>2, <1>3, <1>8, <1>9 DEF TableIsTheHeap
      <4> QED BY <3>2, <4>1, <1>8, <1>9 DEF r
    <3> QED BY <3>1, <3>2, <1>10
  <2> QED BY <2>1, <2>2 DEF WordsTell
<1>17. \A g \in given : g.address # g0.address
  BY <1>5, <1>9 DEF GivenOut
<1>18. LentOnce'
  BY <1>2, <1>8, <1>9, <1>10, <1>17 DEF LentOnce
<1>19. \A n : SlotsOf(n)' = SlotsOf(n)
  <2>1. \A t \in PoolSlots : Released(table'[t].word) = Released(table[t].word)
    BY <1>3, <1>4, <1>8, WordFacts
  <2> QED BY <2>1, <1>13 DEF SlotsOf
<1>20. PeakTells'
  BY <1>2, <1>11, <1>19 DEF PeakTells
<1>21. MemoryIInv'
  BY <1>1, <1>12, <1>14, <1>16, <1>18, <1>20, MadeFactsNext
<1> QED BY <1>7, <1>9, <1>10, <1>17, <1>21 DEF g0
LEMMA NewBlockStep ==
  ASSUME MemoryIInv, NEW size \in Sizes, NewBlock(size)
  PROVE  MemoryIInv' /\ \E b \in 1 .. MaxBlocks :
                          /\ \A g \in given : g.address # b
                          /\ given' = given \cup {LentAs(b, size)}
<1> DEFINE r == Rounded(size)
<1>1. /\ codec = "made" /\ UNCHANGED <<codec, swallowed>>
      /\ blocks < MaxBlocks
      /\ \A t \in PoolSlots : Holding(t) => table[t].word # r
  BY DEF NewBlock, Serving, Holding
<1>2. MemoryShape /\ TableIsTheHeap /\ WordsTell /\ LentOnce /\ PeakTells
  BY <1>1, MadeFacts
<1>3. PICK b \in 1 .. MaxBlocks : b = blocks + 1
  BY <1>1, <1>2, MemoryAssumption DEF MemoryShape
<1>4. PICK s \in PoolSlots :
        /\ ~ Holding(s)
        /\ table' = [table EXCEPT ![s] = [block |-> b, word |-> Claimed(r)]]
  BY <1>3 DEF NewBlock, FirstOf, Empty, Holding
<1>5. blocks' = b /\ heap' = heap \cup {b} /\ Gave(b, size)
  BY <1>3 DEF NewBlock
<1>6. r \in RoundedSizes
  BY DEF RoundedSizes
<1> HIDE DEF r
<1>7. HeldNow(r) = peak[r]
  BY <1>1, <1>2, <1>6, AllLent
<1>8. table \in TableType
  BY <1>2 DEF MemoryShape, TableType
<1>9. /\ table' \in TableType
      /\ table'[s].block = b /\ table'[s].word = r + 1
      /\ \A t \in PoolSlots : t # s => table'[t] = table[t]
  BY <1>3, <1>4, <1>6, <1>8, WordFacts DEF TableType
<1>10. b \notin heap /\ b # NoBlock /\ swallowed \subseteq heap
  BY <1>2, <1>3 DEF MemoryShape, NoBlock
<1>11. \A t \in PoolSlots : table[t].block # b
  BY <1>2, <1>10 DEF TableIsTheHeap, Holding
<1>12. \A g \in given : g.address # b
  BY <1>2, <1>11 DEF LentOnce
<1> DEFINE g0 == LentAs(b, size)
<1>13. g0.address = b /\ g0.size = size /\ g0 \in [address : 1 .. MaxBlocks, size : Sizes]
  BY DEF LentAs
<1>14. given' = given \cup {g0}
  BY <1>5 DEF Gave, LentAs
<1> HIDE DEF g0
<1>15. peak \in [RoundedSizes -> Nat] /\ peak' = [peak EXCEPT ![r] = peak[r] + 1]
  <2>1. peak \in [RoundedSizes -> Nat]
    BY <1>2 DEF MemoryShape
  <2>2. peak' = [peak EXCEPT ![r] = IF HeldNow(r) + 1 > @ THEN @ + 1 ELSE @]
    BY <1>5 DEF Gave, r
  <2>3. HeldNow(r) + 1 > peak[r]
    BY <1>6, <1>7, <2>1
  <2> QED BY <2>1, <2>2, <2>3
<1>16. MemoryShape'
  <2>1. blocks' \in 0 .. MaxBlocks /\ heap' \subseteq 1 .. blocks' /\ swallowed' \subseteq heap'
    BY <1>1, <1>2, <1>3, <1>5 DEF MemoryShape
  <2>2. peak' \in [RoundedSizes -> Nat]
    BY <1>6, <1>15
  <2> QED BY <2>1, <2>2, <1>1, <1>2, <1>9, <1>13, <1>14 DEF MemoryShape, TableType
<1>17. Holding(s)' /\ \A t \in PoolSlots : t # s => (Holding(t)' <=> Holding(t))
  BY <1>9, <1>10 DEF Holding
<1>18. TableIsTheHeap'
  <2>1. ASSUME NEW t \in PoolSlots, NEW u \in PoolSlots, Holding(t)', table'[t].block = table'[u].block
        PROVE  t = u
    BY <2>1, <1>2, <1>9, <1>11, <1>17 DEF TableIsTheHeap
  <2>2. ASSUME NEW t \in PoolSlots, Holding(t)' PROVE table'[t].block \in heap' \ swallowed'
    BY <2>2, <1>1, <1>2, <1>5, <1>9, <1>10, <1>17 DEF TableIsTheHeap
  <2>3. ASSUME NEW c \in heap' \ swallowed' PROVE \E t \in PoolSlots : table'[t].block = c
    <3>1. CASE c = b
      BY <3>1, <1>9
    <3>2. CASE c # b
      <4>1. PICK t \in PoolSlots : table[t].block = c
        BY <3>2, <2>3, <1>1, <1>2, <1>5 DEF TableIsTheHeap
      <4>2. c # NoBlock
        BY <2>3, <1>2, <1>5, <3>2 DEF MemoryShape, NoBlock
      <4>3. t # s
        BY <4>1, <4>2, <1>4 DEF Holding
      <4> QED BY <4>1, <4>3, <1>9
    <3> QED BY <3>1, <3>2
  <2> QED BY <2>1, <2>2, <2>3 DEF TableIsTheHeap
<1>19. \A t \in PoolSlots : GivenOut(t)' <=> (IF t = s THEN TRUE ELSE GivenOut(t))
  BY <1>9, <1>11, <1>13, <1>14 DEF GivenOut
<1>20. ~ GivenOut(s)
  <2>1. \A g \in given : g.address # NoBlock
    BY <1>2 DEF MemoryShape, NoBlock
  <2> QED BY <2>1, <1>4 DEF GivenOut, Holding
<1>21. WordsTell'
  <2>1. ASSUME NEW t \in PoolSlots, Holding(t)', ~ GivenOut(t)' PROVE table'[t].word \in RoundedSizes
    BY <2>1, <1>2, <1>9, <1>17, <1>19 DEF WordsTell
  <2>2. ASSUME NEW t \in PoolSlots, NEW g \in given', g.address = table'[t].block
        PROVE  table'[t].word = Rounded(g.size) + 1
    <3>1. CASE g \in given
      <4>1. t # s
        BY <3>1, <2>2, <1>9, <1>12
      <4> QED BY <3>1, <4>1, <2>2, <1>2, <1>9 DEF WordsTell
    <3>2. CASE g = g0
      <4>1. t = s
        BY <3>2, <2>2, <1>9, <1>11, <1>13
      <4> QED BY <3>2, <4>1, <1>9, <1>13 DEF r
    <3> QED BY <3>1, <3>2, <1>14
  <2> QED BY <2>1, <2>2 DEF WordsTell
<1>22. LentOnce'
  <2>1. ASSUME NEW g \in given' PROVE \E t \in PoolSlots : table'[t].block = g.address
    <3>1. CASE g \in given
      <4>1. PICK t \in PoolSlots : table[t].block = g.address
        BY <3>1, <1>2 DEF LentOnce
      <4>2. t # s
        BY <4>1, <3>1, <1>20 DEF GivenOut
      <4> QED BY <4>1, <4>2, <1>9
    <3>2. CASE g = g0
      BY <3>2, <1>9, <1>13
    <3> QED BY <3>1, <3>2, <1>14
  <2>2. ASSUME NEW g \in given', NEW h \in given', g.address = h.address PROVE g = h
    BY <2>2, <1>2, <1>12, <1>13, <1>14 DEF LentOnce
  <2> QED BY <2>1, <2>2 DEF LentOnce
<1>23. /\ SlotsOf(r)' = SlotsOf(r) \cup {s} /\ s \notin SlotsOf(r)
       /\ \A n \in RoundedSizes : n # r => SlotsOf(n)' = SlotsOf(n)
  <2>1. Released(table'[s].word) = r
    BY <1>6, <1>9, WordFacts
  <2>2. \A n : s \notin SlotsOf(n)
    BY <1>4 DEF SlotsOf
  <2>3. ASSUME NEW n, NEW t \in PoolSlots, t # s PROVE t \in SlotsOf(n)' <=> t \in SlotsOf(n)
    BY <2>3, <1>9, <1>17 DEF SlotsOf
  <2>4. \A n : s \in SlotsOf(n)' <=> r = n
    BY <2>1, <1>17 DEF SlotsOf
  <2>5. \A n : SlotsOf(n) \subseteq PoolSlots /\ SlotsOf(n)' \subseteq PoolSlots
    BY DEF SlotsOf
  <2> QED BY <2>2, <2>3, <2>4, <2>5
<1>24. PeakTells'
  <2>1. Cardinality(SlotsOf(r) \cup {s}) = Cardinality(SlotsOf(r)) + 1
    BY <1>23, SlotsAreFinite, FS_AddElement
  <2>2. Cardinality(SlotsOf(r))' = peak'[r]
    BY <2>1, <1>2, <1>6, <1>15, <1>23 DEF PeakTells
  <2>3. ASSUME NEW n \in RoundedSizes, n # r PROVE Cardinality(SlotsOf(n))' = peak'[n]
    BY <2>3, <1>2, <1>15, <1>23 DEF PeakTells
  <2> QED BY <2>2, <2>3 DEF PeakTells
<1>25. MemoryIInv'
  BY <1>1, <1>16, <1>18, <1>21, <1>22, <1>24, MadeFactsNext
<1> QED BY <1>12, <1>14, <1>25 DEF g0

LEMMA NoSlotStep ==
  ASSUME MemoryIInv, NEW size \in Sizes, NoSlot(size)
  PROVE  MemoryIInv' /\ UNCHANGED given
<1>1. /\ codec = "made" /\ blocks < MaxBlocks
      /\ blocks' = blocks + 1 /\ heap' = heap \cup {blocks + 1}
      /\ swallowed' = swallowed \cup {blocks + 1}
      /\ UNCHANGED <<codec, table, given, peak, dictionary>>
  BY DEF NoSlot
<1>2. MemoryShape /\ TableIsTheHeap /\ WordsTell /\ LentOnce /\ PeakTells
  BY <1>1, MadeFacts
<1>3. MemoryShape' /\ heap' \ swallowed' = heap \ swallowed
  BY <1>1, <1>2, MemoryAssumption DEF MemoryShape
<1>4. TableIsTheHeap' /\ WordsTell' /\ LentOnce' /\ PeakTells'
  BY <1>1, <1>2, <1>3 DEF TableIsTheHeap, WordsTell, LentOnce, PeakTells, SlotsOf, Holding, GivenOut
<1> QED BY <1>1, <1>3, <1>4, MadeFactsNext

LEMMA FreeStep ==
  ASSUME MemoryIInv, NEW g0 \in given, fast_free(g0)
  PROVE  MemoryIInv' /\ given' = given \ {g0}
<1>1. /\ codec = "made" /\ given' = given \ {g0}
      /\ UNCHANGED <<codec, heap, blocks, peak, swallowed, dictionary>>
      /\ table' = [s \in PoolSlots |-> IF table[s].block = g0.address
                                 THEN [table[s] EXCEPT !.word = Released(@)] ELSE table[s]]
  BY DEF fast_free
<1>2. MemoryShape /\ TableIsTheHeap /\ WordsTell /\ LentOnce /\ PeakTells
  BY <1>1, MadeFacts
<1> DEFINE r == Rounded(g0.size)
<1>3. r \in RoundedSizes /\ g0.address # NoBlock
  BY <1>2 DEF MemoryShape, RoundedSizes, NoBlock
<1>4. \A t \in PoolSlots : table[t].block = g0.address => table[t].word = r + 1
  BY <1>2 DEF WordsTell
<1> HIDE DEF r
<1>5. table \in TableType
  BY <1>2 DEF MemoryShape, TableType
<1>6. /\ table' \in TableType
      /\ \A t \in PoolSlots : table'[t].block = table[t].block
      /\ \A t \in PoolSlots : table'[t].word = IF table[t].block = g0.address THEN r ELSE table[t].word
  BY <1>1, <1>3, <1>4, <1>5, WordFacts DEF TableType
<1>7. MemoryShape'
  BY <1>1, <1>2, <1>6 DEF MemoryShape, TableType
<1>8. \A t \in PoolSlots : Holding(t)' <=> Holding(t)
  BY <1>6 DEF Holding
<1>9. TableIsTheHeap'
  BY <1>1, <1>2, <1>6, <1>8 DEF TableIsTheHeap
<1>10. \A g \in given' : g \in given /\ g.address # g0.address
  BY <1>1, <1>2 DEF LentOnce
<1>11. WordsTell'
  <2>1. ASSUME NEW t \in PoolSlots, Holding(t)', ~ GivenOut(t)' PROVE table'[t].word \in RoundedSizes
    <3>1. CASE table[t].block = g0.address
      BY <3>1, <1>3, <1>6
    <3>2. CASE table[t].block # g0.address
      <4>1. ~ GivenOut(t)
        BY <3>2, <2>1, <1>1, <1>6 DEF GivenOut
      <4> QED BY <4>1, <3>2, <2>1, <1>2, <1>6, <1>8 DEF WordsTell
    <3> QED BY <3>1, <3>2
  <2>2. ASSUME NEW t \in PoolSlots, NEW g \in given', g.address = table'[t].block
        PROVE  table'[t].word = Rounded(g.size) + 1
    BY <2>2, <1>2, <1>6, <1>10 DEF WordsTell
  <2> QED BY <2>1, <2>2 DEF WordsTell
<1>12. LentOnce'
  BY <1>2, <1>6, <1>10 DEF LentOnce
<1>13. \A n : SlotsOf(n)' = SlotsOf(n)
  <2>1. \A t \in PoolSlots : Released(table'[t].word) = Released(table[t].word)
    BY <1>3, <1>4, <1>6, WordFacts
  <2> QED BY <2>1, <1>8 DEF SlotsOf
<1>14. PeakTells'
  BY <1>1, <1>2, <1>13 DEF PeakTells
<1> QED BY <1>1, <1>7, <1>9, <1>11, <1>12, <1>14, MadeFactsNext
LEMMA InitStep ==
  ASSUME MemoryIInv, Codec_init
  PROVE  MemoryIInv' /\ UNCHANGED given
<1>1. /\ codec = "none" /\ codec' = "made"
      /\ table' = [s \in PoolSlots |-> EmptySlot]
      /\ UNCHANGED <<heap, blocks, given, peak, swallowed>>
  BY DEF Codec_init
<1>2. /\ MemoryShape /\ heap = swallowed /\ given = {}
      /\ \A n \in RoundedSizes : peak[n] = 0
  BY <1>1 DEF MemoryIInv, WhileNotMade
<1>3. EmptySlot \in [block : 0 .. MaxBlocks, word : Nat] /\ EmptySlot.block = NoBlock
  BY MemoryAssumption DEF EmptySlot, NoBlock
<1>4. \A s \in PoolSlots : ~ Holding(s)'
  BY <1>1, <1>3 DEF Holding
<1>5. MemoryShape'
  BY <1>1, <1>2, <1>3 DEF MemoryShape
<1>6. TableIsTheHeap' /\ WordsTell' /\ LentOnce'
  BY <1>1, <1>2, <1>4 DEF TableIsTheHeap, WordsTell, LentOnce
<1>7. \A n : SlotsOf(n)' = {}
  BY <1>4 DEF SlotsOf
<1>8. PeakTells'
  BY <1>1, <1>2, <1>7, FS_EmptySet DEF PeakTells
<1> QED BY <1>1, <1>5, <1>6, <1>8, MadeFactsNext

LEMMA AllFreedStep ==
  ASSUME MemoryIInv, allocator_free
  PROVE  MemoryIInv' /\ given' = {}
<1>1. /\ codec = "made" /\ codec' = "freed" /\ heap' = heap \ FreedBlocks /\ given' = {}
      /\ UNCHANGED <<table, blocks, peak, swallowed, dictionary>>
  BY DEF allocator_free
<1>2. MemoryShape /\ TableIsTheHeap
  BY <1>1, MadeFacts
<1>3. FreedBlocks = heap \ swallowed
  <2>1. \A b \in heap : b # NoBlock
    BY <1>2 DEF MemoryShape, NoBlock
  <2> QED BY <2>1, <1>2 DEF FreedBlocks, TableIsTheHeap, Holding
<1>4. heap' = swallowed'
  BY <1>1, <1>2, <1>3 DEF MemoryShape
<1>5. MemoryShape'
  BY <1>1, <1>2, <1>4 DEF MemoryShape
<1> QED BY <1>1, <1>4, <1>5 DEF MemoryIInv, WhileMade, WhileNotMade

LEMMA NextCodecStep ==
  ASSUME MemoryIInv, NextCodec
  PROVE  MemoryIInv' /\ UNCHANGED given
<1>1. /\ codec = "freed" /\ codec' = "none" /\ peak' = [n \in RoundedSizes |-> 0]
      /\ UNCHANGED <<table, heap, blocks, given, swallowed, dictionary>>
  BY DEF NextCodec, RoundedSizes
<1>2. MemoryShape'
  BY <1>1 DEF MemoryIInv, MemoryShape
<1>3. WhileMade'
  BY <1>1 DEF WhileMade
<1>4. WhileNotMade'
  BY <1>1 DEF MemoryIInv, WhileNotMade
<1> QED BY <1>1, <1>2, <1>3, <1>4 DEF MemoryIInv

LEMMA RestStep ==
  ASSUME MemoryIInv, UNCHANGED memvars
  PROVE  MemoryIInv' /\ UNCHANGED given
BY DEF memvars, MemoryIInv, MemoryShape, WhileMade, WhileNotMade, TableIsTheHeap, WordsTell,
  LentOnce, TableIsAsLargeAsThePeak, Holding, GivenOut, Released, InUse

(* What a step may do to what the library holds.                            *)
GivenSteps ==
  \/ \E size \in Sizes, b \in 1 .. MaxBlocks :
       (\A g \in given : g.address # b) /\ given' = given \cup {LentAs(b, size)}
  \/ \E g \in given : given' = given \ {g}
  \/ given' = {}
  \/ UNCHANGED given

LEMMA MemoryStep ==
  ASSUME MemoryIInv, [MemoryNext]_memvars
  PROVE  MemoryIInv' /\ GivenSteps
<1>1. CASE Codec_init
  BY <1>1, InitStep DEF GivenSteps
<1>2. CASE allocator_free
  BY <1>2, AllFreedStep DEF GivenSteps
<1>3. CASE NextCodec
  BY <1>3, NextCodecStep DEF GivenSteps
<1>4. ASSUME NEW size \in Sizes, fast_alloc(size) PROVE MemoryIInv' /\ GivenSteps
  <2>1. CASE Reuse(size)
    BY <2>1, ReuseStep DEF GivenSteps
  <2>2. CASE NewBlock(size)
    BY <2>2, NewBlockStep DEF GivenSteps
  <2>3. CASE NoSlot(size)
    BY <2>3, NoSlotStep DEF GivenSteps
  <2>4. CASE NoMemory(size)
    BY <2>4, RestStep DEF GivenSteps, NoMemory
  <2> QED BY <1>4, <2>1, <2>2, <2>3, <2>4 DEF fast_alloc
<1>5. ASSUME NEW g \in given, fast_free(g) PROVE MemoryIInv' /\ GivenSteps
  BY <1>5, FreeStep DEF GivenSteps
<1>6. CASE UNCHANGED memvars
  BY <1>6, RestStep DEF GivenSteps
<1> QED BY <1>1, <1>2, <1>3, <1>4, <1>5, <1>6 DEF MemoryNext

LEMMA MemoryInitially == MemoryInit => MemoryIInv
<1> SUFFICES ASSUME MemoryInit PROVE MemoryIInv
  OBVIOUS
<1>1. /\ codec = "none" /\ table = [s \in PoolSlots |-> EmptySlot]
      /\ heap = {} /\ blocks = 0 /\ given = {} /\ swallowed = {}
      /\ peak = [n \in RoundedSizes |-> 0]
  BY DEF MemoryInit, RoundedSizes
<1>2. EmptySlot \in [block : 0 .. MaxBlocks, word : Nat]
  BY MemoryAssumption DEF EmptySlot, NoBlock
<1>3. MemoryShape
  BY <1>1, <1>2, MemoryAssumption DEF MemoryShape
<1>4. WhileMade /\ WhileNotMade
  BY <1>1 DEF WhileMade, WhileNotMade
<1> QED BY <1>3, <1>4 DEF MemoryIInv

LEMMA MemoryInvariantHolds == MemorySpec => []MemoryIInv
<1>1. MemoryIInv /\ [MemoryNext]_memvars => MemoryIInv'
  BY MemoryStep
<1> QED BY <1>1, MemoryInitially, PTL DEF MemorySpec

-----------------------------------------------------------------------------
(* PoolIsSound: a block that is lent is alive, marked and large enough, the *)
(* table has as many blocks of a size as were held at once, and nothing is  *)
(* left of a freed codec but what the table had no slot for                 *)
(* (lzma_fast_alloc, lzma_fast_free, lzma_allocator_free and their zlib     *)
(* twins).                                                                  *)
THEOREM PoolsAreSound == MemorySpec => []PoolIsSound
<1>1. MemoryIInv => PoolIsSound
  <2> SUFFICES ASSUME MemoryIInv PROVE PoolIsSound
    OBVIOUS
  <2>1. GivenBlocksFit
    <3> SUFFICES ASSUME codec = "made", NEW s \in PoolSlots, Holding(s)
                 PROVE  /\ table[s].block \in heap
                        /\ InUse(table[s].word) <=> GivenOut(s)
                        /\ \A g \in given : g.address = table[s].block => g.size <= Released(table[s].word)
      BY DEF GivenBlocksFit, Holding, GivenOut
    <3>1. MemoryShape /\ TableIsTheHeap /\ WordsTell /\ LentOnce
      BY MadeFacts
    <3>2. table[s].block \in heap
      BY <3>1 DEF TableIsTheHeap
    <3>3. ASSUME NEW g \in given, g.address = table[s].block
          PROVE  InUse(table[s].word) /\ g.size <= Released(table[s].word)
      <4>1. table[s].word = Rounded(g.size) + 1 /\ g.size \in Sizes /\ g.size \in Nat
        BY <3>1, <3>3, MemoryAssumption DEF WordsTell, MemoryShape
      <4>2. Rounded(g.size) \in RoundedSizes /\ g.size <= Rounded(g.size)
        BY <4>1, RoundedFacts DEF RoundedSizes
      <4> QED BY <4>1, <4>2, WordFacts
    <3>4. ~ GivenOut(s) => ~ InUse(table[s].word)
      BY <3>1, WordFacts DEF WordsTell
    <3> QED BY <3>2, <3>3, <3>4 DEF GivenOut
  <2>2. TableIsAsLargeAsThePeak
    BY DEF MemoryIInv, WhileMade, TableIsAsLargeAsThePeak
  <2>3. NoBlockStays
    BY DEF MemoryIInv, WhileNotMade, NoBlockStays
  <2> QED BY <2>1, <2>2, <2>3 DEF PoolIsSound
<1> QED BY <1>1, MemoryInvariantHolds, PTL

(* LendsLikeMalloc: seen by the library, the table is a malloc() and a      *)
(* free(): Allocator is what CodecMemory implements, with the blocks for    *)
(* its addresses.                                                           *)
THEOREM PoolsLendLikeMalloc == MemorySpec => LendsLikeMalloc
<1>1. MemoryInit => Promise!AllocatorInit
  BY DEF MemoryInit, Promise!AllocatorInit
<1>2. MemoryIInv /\ [MemoryNext]_memvars => [Promise!AllocatorNext]_(Promise!givenvars)
  <2> SUFFICES ASSUME MemoryIInv, [MemoryNext]_memvars
               PROVE  [Promise!AllocatorNext]_(Promise!givenvars)
    OBVIOUS
  <2>1. GivenSteps
    BY MemoryStep
  <2> QED BY <2>1 DEF GivenSteps, LentAs, Promise!AllocatorNext, Promise!givenvars,
        Promise!Give, Promise!TakeBack, Promise!TakeAllBack
<1> QED BY <1>1, <1>2, MemoryInvariantHolds, PTL
      DEF MemorySpec, LendsLikeMalloc, Promise!AllocatorSpec

-----------------------------------------------------------------------------
(* The dictionary.                                                          *)

LEMMA Magnitudes ==
  /\ SmallestDictionary = 4096
  /\ Mega = 256 * SmallestDictionary
  /\ RoundedFrom = 2 * Mega
  /\ DefaultDictionary = 64 * Mega
  /\ 2 ^ 20 = Mega /\ 2 ^ 21 = RoundedFrom
BY SMT DEF SmallestDictionary, Mega, RoundedFrom, DefaultDictionary

LEMMA SizesGrow ==
  /\ \A i \in 22 .. 48 : Representable(i) \in Nat
  /\ \A i \in 22 .. 48, j \in 22 .. 48 : i < j => Representable(i) < Representable(j)
  /\ Representable(22) = SmallestDictionary /\ Representable(40) = RoundedFrom
<1>1. /\ Representable(22) = 4096 /\ Representable(23) = 6144 /\ Representable(24) = 8192
      /\ Representable(25) = 12288 /\ Representable(26) = 16384 /\ Representable(27) = 24576
      /\ Representable(28) = 32768 /\ Representable(29) = 49152 /\ Representable(30) = 65536
      /\ Representable(31) = 98304 /\ Representable(32) = 131072 /\ Representable(33) = 196608
      /\ Representable(34) = 262144 /\ Representable(35) = 393216 /\ Representable(36) = 524288
      /\ Representable(37) = 786432 /\ Representable(38) = 1048576 /\ Representable(39) = 1572864
      /\ Representable(40) = 2097152 /\ Representable(41) = 3145728 /\ Representable(42) = 4194304
      /\ Representable(43) = 6291456 /\ Representable(44) = 8388608 /\ Representable(45) = 12582912
      /\ Representable(46) = 16777216 /\ Representable(47) = 25165824 /\ Representable(48) = 33554432
  BY DEF Representable
<1>2. \A i \in 22 .. 48 : Representable(i) \in Nat
  BY <1>1
<1>3. \A i \in 22 .. 47 : Representable(i) < Representable(i + 1)
  BY <1>1
<1>4. ASSUME NEW i \in 22 .. 48, NEW j \in 22 .. 48, i < j
      PROVE  Representable(i) < Representable(j)
  <2> DEFINE T == {k \in 0 .. 48 : i < k /\ ~ (Representable(i) < Representable(k))}
  <2>1. ASSUME NEW k \in T, \A m \in T : k <= m PROVE FALSE
    <3>1. k - 1 \in 22 .. 47 /\ k - 1 \notin T /\ k - 1 >= i
      BY <2>1
    <3>2. Representable(k - 1) < Representable(k)
      <4>1. (k - 1) + 1 = k
        BY <2>1
      <4> QED BY <3>1, <4>1, <1>3
    <3>3. Representable(i) <= Representable(k - 1)
      BY <3>1, <1>2
    <3> QED BY <3>1, <3>2, <3>3, <1>2, <2>1
  <2>2. T = {}
    <3>1. T \in SUBSET Nat
      OBVIOUS
    <3> HIDE DEF T
    <3> QED BY <3>1, <2>1, LeastHandle
  <2>3. j \in 0 .. 48
    OBVIOUS
  <2>4. ~ (j \in 0 .. 48 /\ i < j /\ ~ (Representable(i) < Representable(j)))
    BY <2>2
  <2> QED BY <2>3, <2>4, <1>4
<1>5. Representable(22) = SmallestDictionary /\ Representable(40) = RoundedFrom
  BY SMT DEF Representable, SmallestDictionary, RoundedFrom
<1> QED BY <1>2, <1>4, <1>5

LEMMA StreamSizesAre == StreamSizes = {Representable(i) : i \in 22 .. 41}
<1>1. \A n \in 11 .. 20 : /\ 2 * n \in 22 .. 40 /\ (2 * n) \div 2 = n /\ (2 * n) % 2 = 0
                         /\ 2 * n + 1 \in 22 .. 41 /\ (2 * n + 1) \div 2 = n /\ (2 * n + 1) % 2 = 1
  OBVIOUS
<1>2. \A n \in 11 .. 20 : Representable(2 * n) = 2 * 2 ^ n /\ Representable(2 * n + 1) = 3 * 2 ^ n
  BY <1>1 DEF Representable
<1>3. \A n \in 11 .. 20 : 2 ^ (n + 1) = 2 * 2 ^ n
  <2> DEFINE Two(k) == 2 ^ k
  <2>1. /\ Two(11) = 2048 /\ Two(12) = 4096 /\ Two(13) = 8192 /\ Two(14) = 16384
        /\ Two(15) = 32768 /\ Two(16) = 65536 /\ Two(17) = 131072 /\ Two(18) = 262144
        /\ Two(19) = 524288 /\ Two(20) = 1048576 /\ Two(21) = 2097152
    OBVIOUS
  <2> HIDE DEF Two
  <2>2. \A n \in 11 .. 20 : Two(n + 1) = 2 * Two(n)
    BY <2>1
  <2> QED BY <2>2 DEF Two
<1>4. ASSUME NEW x \in StreamSizes PROVE \E i \in 22 .. 41 : x = Representable(i)
  <2>1. CASE \E n \in 12 .. 21 : x = 2 ^ n
    <3>1. PICK n \in 12 .. 21 : x = 2 ^ n
      BY <2>1
    <3>2. n - 1 \in 11 .. 20 /\ (n - 1) + 1 = n
      OBVIOUS
    <3>3. PICK m \in 11 .. 20 : m = n - 1 /\ m + 1 = n
      BY <3>2
    <3>4. Representable(2 * m) = 2 * 2 ^ m /\ 2 ^ (m + 1) = 2 * 2 ^ m /\ 2 * m \in 22 .. 40
      BY <1>1, <1>2, <1>3
    <3>5. x = 2 ^ (m + 1)
      BY <3>1, <3>3, Zenon
    <3>6. x = Representable(2 * m)
      BY <3>4, <3>5, Zenon
    <3>7. 2 * m \in 22 .. 41
      BY <3>4
    <3> QED BY <3>6, <3>7
  <2>2. CASE \E n \in 11 .. 20 : x = 3 * 2 ^ n
    BY <2>2, <1>1, <1>2
  <2> QED BY <2>1, <2>2 DEF StreamSizes
<1>5. ASSUME NEW i \in 22 .. 41 PROVE Representable(i) \in StreamSizes
  <2>1. PICK n \in 11 .. 20 : i = 2 * n \/ i = 2 * n + 1
    <3>1. i \div 2 \in 11 .. 20 /\ (i = 2 * (i \div 2) \/ i = 2 * (i \div 2) + 1)
      OBVIOUS
    <3> QED BY <3>1
  <2>2. CASE i = 2 * n
    <3>1. Representable(2 * n) = 2 * 2 ^ n /\ 2 ^ (n + 1) = 2 * 2 ^ n
      BY <1>2, <1>3
    <3>2. Representable(i) = 2 ^ (n + 1)
      BY <3>1, <2>2, Zenon
    <3>3. n + 1 \in 12 .. 21
      OBVIOUS
    <3> QED BY <3>2, <3>3, Zenon DEF StreamSizes
  <2>3. CASE i = 2 * n + 1
    BY <2>3, <1>2 DEF StreamSizes
  <2> QED BY <2>1, <2>2, <2>3
<1> QED BY <1>4, <1>5

LEMMA LeastSize ==
  ASSUME NEW wanted \in SmallestDictionary .. RoundedFrom
  PROVE  \E j \in 22 .. 40 : /\ wanted <= Representable(j)
                             /\ \A i \in 22 .. j - 1 : Representable(i) < wanted
<1> DEFINE T == {j \in 22 .. 40 : wanted <= Representable(j)}
<1>1. T \in SUBSET Nat
  OBVIOUS
<1>2. 40 \in T
  BY SizesGrow
<1>3. PICK j \in T : \A m \in T : j <= m
  <2> HIDE DEF T
  <2> QED BY <1>1, <1>2, LeastHandle
<1>4. ASSUME NEW i \in 22 .. j - 1 PROVE Representable(i) < wanted
  <2>1. i \in 22 .. 40 /\ i \notin T
    BY <1>3
  <2> QED BY <2>1, SizesGrow
<1> QED BY <1>3, <1>4

(* The search by recursion stops at the first size that is large enough.    *)
LEMMA SearchFinds ==
  ASSUME NEW wanted \in SmallestDictionary .. RoundedFrom, NEW j \in 22 .. 40, wanted <= Representable(j),
         \A i \in 22 .. j - 1 : Representable(i) < wanted
  PROVE  LET from[i \in 22 .. 48] ==
               IF Representable(i) < wanted THEN from[i + 1] ELSE Representable(i)
         IN  from[22] = Representable(j)
<1> DEFINE IsIt(g) == g = [i \in 22 .. 48 |-> IF Representable(i) < wanted THEN g[i + 1]
                                             ELSE Representable(i)]
           h == [i \in 22 .. 48 |-> IF i < j THEN Representable(j) ELSE Representable(i)]
           from == CHOOSE g : IsIt(g)
<1>1. \A i \in 22 .. 48 : i >= j => ~ (Representable(i) < wanted)
  BY SizesGrow
<1>2. IsIt(h)
  <2>1. ASSUME NEW i \in 22 .. 48
        PROVE  h[i] = IF Representable(i) < wanted THEN h[i + 1] ELSE Representable(i)
    <3>1. CASE i < j
      <4>1. i \in 22 .. j - 1 /\ i + 1 \in 22 .. 48
        BY <3>1
      <4>2. h[i] = Representable(j) /\ h[i + 1] = Representable(j)
        BY <4>1
      <4> QED BY <4>1, <4>2
    <3>2. CASE ~ (i < j)
      BY <3>2, <1>1
    <3> QED BY <3>1, <3>2
  <2>2. h = [i \in 22 .. 48 |-> h[i]]
    OBVIOUS
  <2> HIDE DEF h
  <2> QED BY <2>1, <2>2
<1>3. IsIt(from)
  <2> HIDE DEF IsIt, h
  <2> QED BY <1>2
<1>4. \A i \in 22 .. 48 : from[i] = IF Representable(i) < wanted THEN from[i + 1] ELSE Representable(i)
  <2> HIDE DEF from
  <2> QED BY <1>3
<1> HIDE DEF from
<1> DEFINE T == {k \in 0 .. j - 22 : from[j - k] # Representable(j)}
<1>5. ASSUME NEW k \in T, \A m \in T : k <= m PROVE FALSE
  <2>1. from[j] = Representable(j)
    BY <1>1, <1>4
  <2>2. k # 0
    BY <2>1
  <2>3. k - 1 \in 0 .. j - 22 /\ k - 1 \notin T
    BY <1>5, <2>2
  <2>4. from[j - (k - 1)] = Representable(j)
    BY <2>3
  <2>5. j - k \in 22 .. j - 1 /\ j - k \in 22 .. 48 /\ (j - k) + 1 = j - (k - 1)
    BY <2>2
  <2>6. from[j - k] = from[(j - k) + 1]
    BY <2>5, <1>4
  <2> QED BY <2>4, <2>5, <2>6
<1>6. T = {}
  <2>1. T \in SUBSET Nat
    OBVIOUS
  <2> HIDE DEF T
  <2> QED BY <2>1, <1>5, LeastHandle
<1>7. from[22] = Representable(j)
  <2>1. j - 22 \in 0 .. j - 22 /\ j - (j - 22) = 22
    OBVIOUS
  <2>2. from[j - (j - 22)] = Representable(j)
    BY <2>1, <1>6
  <2> QED BY <2>1, <2>2
<1> QED BY <1>7 DEF from

LEMMA TheLeast ==
  ASSUME NEW S \in SUBSET Nat, NEW x \in S, \A y \in S : x <= y
  PROVE  Min(S) = x
<1>1. \A y \in S : (\A z \in S : y <= z) => y = x
  OBVIOUS
<1> QED BY <1>1 DEF Min

LEMMA UsedIsReduced ==
  ASSUME NEW h \in Nat \ {0}
  PROVE  Reduced(h) = EncoderUsed(h) /\ Reduced(h) \in SmallestDictionary .. DefaultDictionary
<1>1. DefaultDictionary \in Nat /\ SmallestDictionary \in Nat /\ SmallestDictionary <= DefaultDictionary
  BY Magnitudes
<1> DEFINE atleast == IF h > SmallestDictionary THEN h ELSE SmallestDictionary
<1>2. Max({h, SmallestDictionary}) = atleast
  <2>1. atleast \in {h, SmallestDictionary} /\ \A y \in {h, SmallestDictionary} : atleast >= y
    BY <1>1
  <2>2. \A y \in {h, SmallestDictionary} : (\A z \in {h, SmallestDictionary} : y >= z) => y = atleast
    BY <1>1
  <2> QED BY <2>1, <2>2 DEF Max
<1>3. atleast \in Nat /\ atleast >= SmallestDictionary /\ atleast >= h
  BY <1>1
<1>4. Reduced(h) = IF DefaultDictionary <= atleast THEN DefaultDictionary ELSE atleast
  BY <1>1 DEF Reduced
<1> HIDE DEF atleast
<1>5. Min({DefaultDictionary, atleast}) = IF DefaultDictionary <= atleast THEN DefaultDictionary ELSE atleast
  <2> DEFINE S == {DefaultDictionary, atleast}
             x == IF DefaultDictionary <= atleast THEN DefaultDictionary ELSE atleast
  <2>1. S \in SUBSET Nat /\ x \in S /\ \A y \in S : x <= y
    BY <1>1, <1>3
  <2> HIDE DEF S, x
  <2>2. Min(S) = x
    BY <2>1, TheLeast
  <2> QED BY <2>2 DEF S, x
<1> QED BY <1>1, <1>2, <1>3, <1>4, <1>5 DEF EncoderUsed

LEMMA DictionaryOf ==
  ASSUME NEW h \in Nat \ {0}, NEW size, size = lzma_compute_aligned_dictionary_size(h)
  PROVE  IF EncoderUsed(h) <= 2 ^ 21
           THEN size = Min({n \in StreamSizes : n >= EncoderUsed(h)})
           ELSE size - EncoderUsed(h) \in 0 .. 2 ^ 20 - 1 /\ size % 2 ^ 20 = 0
<1> DEFINE wanted == EncoderUsed(h)
<1>1. /\ 2 ^ 21 = RoundedFrom /\ 2 ^ 20 = Mega /\ RoundedFrom = 2 * Mega /\ Mega \in Nat \ {0}
      /\ DefaultDictionary = 64 * Mega /\ SmallestDictionary \in Nat \ {0}
      /\ SmallestDictionary < RoundedFrom
  BY Magnitudes
<1>2. wanted = Reduced(h) /\ wanted \in SmallestDictionary .. DefaultDictionary
  BY UsedIsReduced
<1> HIDE DEF wanted
<1>3. ASSUME NEW j \in 22 .. 40, wanted <= RoundedFrom, wanted <= Representable(j),
             \A i \in 22 .. j - 1 : Representable(i) < wanted
      PROVE  Min({n \in StreamSizes : n >= wanted}) = Representable(j)
  <2> DEFINE S == {n \in StreamSizes : n >= wanted}
  <2>1. S \in SUBSET Nat
    BY StreamSizesAre, SizesGrow
  <2>2. Representable(j) \in S
    BY <1>3, StreamSizesAre, SizesGrow, <1>2
  <2>3. ASSUME NEW n \in S PROVE Representable(j) <= n
    <3>1. PICK i \in 22 .. 41 : n = Representable(i)
      BY StreamSizesAre
    <3>2. i >= j
      BY <3>1, <1>2, <1>3, SizesGrow
    <3>3. i = j \/ i > j
      BY <3>2
    <3> QED BY <3>1, <3>3, SizesGrow
  <2> HIDE DEF S
  <2>4. Min(S) = Representable(j)
    BY <2>1, <2>2, <2>3, TheLeast
  <2> QED BY <2>4 DEF S
<1>4. CASE wanted < RoundedFrom
  <2>1. PICK j \in 22 .. 40 : /\ wanted <= Representable(j)
                              /\ \A i \in 22 .. j - 1 : Representable(i) < wanted
    <3>1. wanted \in SmallestDictionary .. RoundedFrom
      BY <1>1, <1>2, <1>4
    <3> QED BY <3>1, LeastSize
  <2>2. size = LET from[i \in 22 .. 48] ==
                     IF Representable(i) < wanted THEN from[i + 1] ELSE Representable(i)
               IN  from[22]
    <3>1. ~ (wanted >= RoundedFrom)
      BY <1>1, <1>2, <1>4
    <3> QED BY <3>1, <1>2, Zenon DEF lzma_compute_aligned_dictionary_size
  <2>3. wanted \in SmallestDictionary .. RoundedFrom
    BY <1>1, <1>2, <1>4
  <2>4. size = Representable(j)
    BY <2>1, <2>2, <2>3, SearchFinds, Zenon
  <2>5. Min({n \in StreamSizes : n >= wanted}) = Representable(j)
    BY <1>3, <1>4, <2>1, <2>3
  <2> QED BY <2>4, <2>5, <1>1, <1>4, <2>3 DEF wanted
<1>5. CASE wanted >= RoundedFrom
  <2> DEFINE q == (wanted + Mega - 1) \div Mega
  <2>1. size = q * Mega
    <3>1. wanted >= RoundedFrom
      BY <1>1, <1>5
    <3>2. size = ((wanted + Mega - 1) \div Mega) * Mega
      BY <3>1, <1>2, Zenon DEF lzma_compute_aligned_dictionary_size
    <3> QED BY <3>2, <1>1
  <2>2. q \in Nat /\ size \in Nat /\ size - wanted \in 0 .. Mega - 1 /\ size % Mega = 0
    <3>1. Mega \in Nat \ {0} /\ wanted \in Nat
      BY <1>1, <1>2
    <3>2. \A m \in Nat \ {0}, w \in Nat : (w + m - 1) \div m \in Nat
      OBVIOUS
    <3>3. \A m \in Nat \ {0}, w \in Nat : ((w + m - 1) \div m) * m - w \in 0 .. m - 1
      OBVIOUS
    <3>4. \A m \in Nat \ {0}, p \in Nat : p * m \in Nat /\ (p * m) % m = 0
      OBVIOUS
    <3>5. q \in Nat /\ q * Mega - wanted \in 0 .. Mega - 1
      BY <3>1, <3>2, <3>3, Zenon
    <3> HIDE DEF q
    <3> QED BY <2>1, <3>1, <3>4, <3>5, Zenon
  <2>3. wanted = RoundedFrom => size = RoundedFrom
    <3>1. Mega = 1048576 /\ RoundedFrom = 2097152
      BY SMT DEF Mega, RoundedFrom
    <3> QED BY SMT, <3>1, <2>1
  <2>4. CASE wanted = RoundedFrom
    <3>1. /\ wanted <= Representable(40)
          /\ \A i \in 22 .. 40 - 1 : Representable(i) < wanted
      BY <2>4, SizesGrow
    <3>2. Min({n \in StreamSizes : n >= wanted}) = Representable(40)
      BY <1>1, <1>2, <1>3, <2>4, <3>1
    <3>3. Representable(40) = RoundedFrom
      BY SizesGrow
    <3> QED BY <3>2, <3>3, <2>3, <2>4, <1>1 DEF wanted
  <2>5. CASE wanted # RoundedFrom
    <3>1. ~ (wanted <= 2 ^ 21)
      BY <2>5, <1>1, <1>2, <1>5
    <3>2. 2 ^ 20 - 1 = Mega - 1
      BY <1>1
    <3> QED BY <3>1, <3>2, <2>2, <1>1 DEF wanted
  <2> QED BY <2>4, <2>5
<1> QED BY <1>1, <1>2, <1>4, <1>5

(* DictionaryIsTheEncoders: for every size of a hunk the decoder's          *)
(* dictionary is the next size that an LZMA stream can state from the one   *)
(* the encoder used (lzma_compute_aligned_dictionary_size, lzma_codec_init).*)
THEOREM DictionariesAreTheEncoders == MemorySpec => []DictionaryIsTheEncoders
<1> DEFINE Derived == codec = "made" =>
             /\ dictionary.hunk \in Nat \ {0}
             /\ dictionary.size = lzma_compute_aligned_dictionary_size(dictionary.hunk)
<1>1. MemoryInit => Derived
  BY DEF MemoryInit
<1>2. Derived /\ [MemoryNext]_memvars => Derived'
  <2> SUFFICES ASSUME Derived, [MemoryNext]_memvars PROVE Derived'
    OBVIOUS
  <2>1. CASE Codec_init
    <3>1. PICK h \in DecoderHunks :
            dictionary' = [hunk |-> h, size |-> lzma_compute_aligned_dictionary_size(h)]
      BY <2>1 DEF Codec_init
    <3> QED BY <3>1, MemoryAssumption
  <2>2. CASE UNCHANGED <<codec, dictionary>>
    BY <2>2
  <2>3. CASE codec' # "made"
    BY <2>3
  <2>4. ASSUME NEW n \in Sizes, fast_alloc(n) PROVE UNCHANGED <<codec, dictionary>>
    BY <2>4 DEF fast_alloc, Reuse, NewBlock, NoSlot, NoMemory, memvars
  <2>5. ASSUME NEW g \in given, fast_free(g) PROVE UNCHANGED <<codec, dictionary>>
    BY <2>5 DEF fast_free
  <2>6. allocator_free \/ NextCodec => codec' # "made"
    BY DEF allocator_free, NextCodec
  <2>7. UNCHANGED memvars => UNCHANGED <<codec, dictionary>>
    BY DEF memvars
  <2> HIDE DEF Derived
  <2> QED BY <2>1, <2>2, <2>3, <2>4, <2>5, <2>6, <2>7, Zenon DEF MemoryNext
<1>3. Derived => DictionaryIsTheEncoders
  <2> SUFFICES ASSUME Derived, codec = "made"
               PROVE  IF EncoderUsed(dictionary.hunk) <= 2 ^ 21
                        THEN dictionary.size = Min({n \in StreamSizes : n >= EncoderUsed(dictionary.hunk)})
                        ELSE dictionary.size - EncoderUsed(dictionary.hunk) \in 0 .. 2 ^ 20 - 1 /\ dictionary.size % 2 ^ 20 = 0
    BY DEF DictionaryIsTheEncoders
  <2> QED BY DictionaryOf
<1> HIDE DEF Derived
<1> QED BY <1>1, <1>2, <1>3, PTL DEF MemorySpec
================================================================================
