---------------------------- MODULE ContainerProofs ----------------------------
(***************************************************************************)
(* What opening a file establishes, for every file: its header can be      *)
(* computed with, and its map is inside it.                                *)
(***************************************************************************)
EXTENDS Container, FiniteSetTheorems, TLAPS

-----------------------------------------------------------------------------
(* Arithmetic.                                                             *)

(* A division rounds down.                                                 *)
LEMMA Quotient ==
  ASSUME NEW n \in Nat, NEW s \in Nat \ {0}
  PROVE  /\ n \div s \in Nat
         /\ s * (n \div s) <= n
         /\ n < s * (n \div s) + s
<1>1. n \div s \in Nat
  OBVIOUS
<1>2. s * (n \div s) <= n
  OBVIOUS
<1>3. n < s * (n \div s) + s
  OBVIOUS
<1> QED BY <1>1, <1>2, <1>3

(* A product of two factors is divided by each of them.                    *)
LEMMA ProductDivides ==
  ASSUME NEW a \in Nat \ {0}, NEW b \in Nat \ {0}
  PROVE  (a * b) \div b = a /\ (a * b) % a = 0
<1>1. (a * b) \div b = a
  OBVIOUS
<1>2. (a * b) % a = 0
  OBVIOUS
<1> QED BY <1>1, <1>2

(* As long as nothing wraps, the count of hunks covers the bytes.          *)
LEMMA CountCovers ==
  ASSUME NEW bytes \in Nat, NEW size \in Nat \ {0},
         bytes <= (U32 - 1) * size, bytes + size <= U64
  PROVE  size * (CountOf(bytes, size) % U32) >= bytes
<1>0. U32 \in Nat \ {0} /\ U64 \in Nat \ {0}
  BY HeaderAssumption
<1>1. bytes + size - 1 \in Nat /\ bytes + size - 1 < U64
  BY <1>0
<1>2. (bytes + size - 1) % U64 = bytes + size - 1
  <2>1. \A n, m \in Nat : n < m => n % m = n
    OBVIOUS
  <2> QED BY <1>0, <1>1, <2>1
<1> DEFINE q == (bytes + size - 1) \div size
<1>3. q \in Nat /\ size * q <= bytes + size - 1 /\ bytes + size - 1 < size * q + size
  BY <1>1, Quotient
<1>4. CountOf(bytes, size) = q
  BY <1>2 DEF CountOf
<1> HIDE DEF q
<1>5. q < U32
  <2>1. size * q < U32 * size
    <3>1. (U32 - 1) * size = U32 * size - size
      BY <1>0
    <3>2. U32 * size \in Nat /\ size * q \in Nat
      BY <1>0, <1>3
    <3> QED BY <1>0, <1>3, <3>1, <3>2
  <2>2. \A a, b \in Nat : a >= b => size * a >= b * size
    OBVIOUS
  <2> QED BY <1>0, <1>3, <2>1, <2>2
<1>6. q % U32 = q
  BY <1>0, <1>3, <1>5
<1> QED BY <1>3, <1>4, <1>6

-----------------------------------------------------------------------------
(* Least and largest members.                                              *)

(* A nonempty set of naturals has a least member: the segments below its   *)
(* members are finite sets, and strict inclusion of those is well-founded. *)
LEMMA LeastNumber ==
  ASSUME NEW T \in SUBSET Nat, T # {}
  PROVE  \E n \in T : \A m \in T : n <= m
<1> DEFINE U == {0 .. (n - 1) : n \in T}
<1>1. U \subseteq FiniteSubsetsOf(Nat) /\ U # {}
  <2>1. \A n \in T : IsFiniteSet(0 .. (n - 1)) /\ 0 .. (n - 1) \subseteq Nat
    BY FS_Interval
  <2> QED BY <2>1, Zenon DEF FiniteSubsetsOf
<1>2. PICK x \in U : \A y \in U : <<y, x>> \notin StrictSubsetOrdering(Nat)
  <2> HIDE DEF U
  <2> QED BY <1>1, FS_StrictSubsetOrderingWellFounded, WFMin, Zenon
<1>3. PICK n \in T : x = 0 .. (n - 1)
  OBVIOUS
<1>4. ASSUME NEW m \in T, m < n PROVE FALSE
  <2> DEFINE y == 0 .. (m - 1)
  <2>1. y \in U
    OBVIOUS
  <2>2. y \subseteq x /\ y # x
    BY <1>3, <1>4
  <2>3. <<y, x>> \in StrictSubsetOrdering(Nat)
    BY <2>2, <1>3 DEF StrictSubsetOrdering
  <2> QED BY <2>1, <2>3, <1>2
<1> QED BY <1>4

(* A nonempty set of naturals below a bound has a largest one.             *)
LEMMA Largest ==
  ASSUME NEW B \in Nat, NEW T \in SUBSET (0 .. B), T # {}
  PROVE  Max(T) \in T /\ \A m \in T : m <= Max(T)
<1> DEFINE U == {B - n : n \in T}
<1>0. \A n \in T : n \in Nat /\ B - n \in Nat
  OBVIOUS
<1>1. U \in SUBSET Nat /\ U # {}
  BY <1>0
<1>2. PICK u \in U : \A v \in U : u <= v
  <2> HIDE DEF U
  <2> QED BY <1>1, LeastNumber
<1>3. PICK n \in T : u = B - n
  OBVIOUS
<1>4. \A m \in T : B - m \in U
  OBVIOUS
<1>5. ASSUME NEW m \in T PROVE n >= m
  <2>1. B - n <= B - m
    BY <1>2, <1>3, <1>4
  <2> QED BY <1>0, <2>1
<1>6. \E x \in T : \A y \in T : x >= y
  BY <1>5
<1>7. Max(T) \in T /\ \A y \in T : Max(T) >= y
  BY <1>6, Zenon DEF Max
<1> QED BY <1>7

-----------------------------------------------------------------------------
(* The files.                                                              *)

LEMMA FileTypes ==
  ASSUME container \in Containers
  PROVE  /\ container.size \in Nat \ {0}
         /\ Raw.version \in Nat
         /\ \A n \in ShortFields(Raw) : n \in Nat /\ n < U32
         /\ Raw.logicalbytes \in Nat /\ Raw.metaoffset \in Nat
         /\ IsFiniteSet(DOMAIN container.entries)
         /\ 0 \notin DOMAIN container.entries
         /\ \A o \in DOMAIN container.entries : container.entries[o].parses \subseteq 0 .. U32 - 1
         /\ container.map \in Seq(MapEntry)
         /\ U32 \in Nat \ {0} /\ U64 \in Nat \ {0} /\ U32 <= U64
<1>1. U32 \in Nat \ {0} /\ U64 \in Nat \ {0} /\ U32 <= U64
  BY HeaderAssumption
<1>2. \A n \in ShortFields(Raw) : n \in 0 .. U32 - 1
  BY ContainerAssumption DEF Raw
<1>3. Raw.logicalbytes \in 0 .. U64 - 1 /\ Raw.metaoffset \in 0 .. U64 - 1
  BY ContainerAssumption DEF Raw
<1> QED BY <1>1, <1>2, <1>3, ContainerAssumption DEF Raw

LEMMA RawTypes ==
  ASSUME container \in Containers
  PROVE  /\ {Raw.length, Raw.hunksize, Raw.totalhunks, Raw.hunkbytes, Raw.unitbytes} \subseteq Nat
         /\ Raw.hunkbytes < U32 /\ Raw.unitbytes < U32
         /\ SectorLength(Raw) \in Nat /\ SectorLength(Raw) < U32
         /\ HunkBytes(Raw) \in Nat /\ HunkBytes(Raw) < U32
         /\ HunkBytes(Raw) # 0 \/ Legacy(Raw.version) => TotalHunks(Raw) \in Nat
<1>1. /\ \A n \in ShortFields(Raw) : n \in Nat /\ n < U32
      /\ Raw.logicalbytes \in Nat
      /\ U32 \in Nat \ {0} /\ U64 \in Nat \ {0}
  BY FileTypes
<1>2. /\ {Raw.length, Raw.hunksize, Raw.totalhunks, Raw.hunkbytes, Raw.unitbytes, Raw.seclen} \subseteq Nat
      /\ Raw.hunkbytes < U32 /\ Raw.unitbytes < U32 /\ Raw.seclen < U32
  BY <1>1 DEF ShortFields
<1>3. SectorLength(Raw) \in Nat /\ SectorLength(Raw) < U32
  BY <1>2, HeaderAssumption DEF SectorLength, V1SectorSize
<1>4. SectorLength(Raw) * Raw.hunksize \in Nat
  BY <1>2, <1>3
<1>5. HunkBytes(Raw) \in Nat /\ HunkBytes(Raw) < U32
  BY <1>1, <1>2, <1>4 DEF HunkBytes
<1>6. ASSUME HunkBytes(Raw) # 0 \/ Legacy(Raw.version) PROVE TotalHunks(Raw) \in Nat
  <2>1. CASE Legacy(Raw.version)
    BY <1>2, <2>1 DEF TotalHunks
  <2>2. CASE ~Legacy(Raw.version)
    <3>1. HunkBytes(Raw) = Raw.hunkbytes /\ Raw.hunkbytes # 0
      BY <1>6, <2>2, FileTypes DEF HunkBytes, Legacy
    <3>2. Raw.logicalbytes + Raw.hunkbytes - 1 \in Nat
      BY <1>1, <1>2, <3>1
    <3>3. (Raw.logicalbytes + Raw.hunkbytes - 1) % U64 \in Nat
      BY <1>1, <3>2
    <3>4. CountOf(Raw.logicalbytes, Raw.hunkbytes) \in Nat
      BY <1>2, <3>1, <3>3, Quotient DEF CountOf
    <3> QED BY <1>1, <2>2, <3>4 DEF TotalHunks
  <2> QED BY <2>1, <2>2
<1> QED BY <1>2, <1>3, <1>5, <1>6

-----------------------------------------------------------------------------
(* The header.                                                             *)

LEMMA VersionsAre == Versions = 1 .. 5
BY HeaderAssumption DEF Versions

(* What the verdict looked at.                                             *)
LEMMA VerdictSays ==
  ASSUME NEW units, NEW size, Verdict(Raw, units, size) = "NONE"
  PROVE  /\ GeometryVerdict(Raw, units) = "NONE"
         /\ Legacy(Raw.version) => LegacyFieldsAreValid(Raw)
         /\ SizesAreSane(Raw, size)
BY DEF Verdict

(* The unit size of a version before 3 is its sector length.               *)
LEMMA UnitsOfOldHeaders ==
  ASSUME container \in Containers, Raw.version < 3, HunkBytes(Raw) # 0
  PROVE  /\ HunkBytes(Raw) \div Raw.hunksize = SectorLength(Raw)
         /\ HunkBytes(Raw) % SectorLength(Raw) = 0
<1>1. /\ SectorLength(Raw) \in Nat /\ Raw.hunksize \in Nat
      /\ Raw.version \in Nat /\ U32 \in Nat
  BY RawTypes, FileTypes
<1>2. HunkBytes(Raw) = SectorLength(Raw) * Raw.hunksize
  BY <1>1 DEF HunkBytes
<1>3. SectorLength(Raw) # 0 /\ Raw.hunksize # 0
  BY <1>1, <1>2
<1>4. SectorLength(Raw) \in Nat \ {0} /\ Raw.hunksize \in Nat \ {0}
  BY <1>1, <1>3
<1> QED BY <1>2, <1>4, ProductDivides

(* A header that was let pass can be computed with.                        *)
LEMMA AcceptedIsCoherent ==
  ASSUME container \in Containers, Raw.version \in Versions,
         unitbytes \in Nat,
         Verdict(Raw, unitbytes, container.size) = "NONE",
         Raw.version < 3 => unitbytes = HunkBytes(Raw) \div Raw.hunksize
  PROVE  HeaderIsCoherent
<1> DEFINE h == Accepted
<1>1. /\ GeometryVerdict(Raw, unitbytes) = "NONE"
      /\ Legacy(Raw.version) => LegacyFieldsAreValid(Raw)
      /\ SizesAreSane(Raw, container.size)
  BY VerdictSays
<1>2. /\ h.version = Raw.version /\ h.length = Raw.length
      /\ h.hunkbytes = HunkBytes(Raw) /\ h.unitbytes = unitbytes
      /\ h.totalhunks = TotalHunks(Raw) /\ h.logicalbytes = LogicalBytes(Raw)
  BY DEF Accepted, Completed
<1> HIDE DEF h
<1>3. /\ HunkBytes(Raw) \in Nat /\ MaxHunkSize \in Nat /\ LegacyHunkLimit \in Nat
      /\ Raw.version \in 1 .. 5
      /\ {Raw.length, Raw.hunksize, Raw.totalhunks, Raw.hunkbytes} \subseteq Nat
      /\ Raw.logicalbytes \in Nat /\ U32 \in Nat /\ U64 \in Nat
  BY RawTypes, FileTypes, VersionsAre, HeaderAssumption
<1>4. HunkBytes(Raw) # 0
  <2>1. CASE Legacy(Raw.version)
    BY <1>1, <1>3, <2>1 DEF LegacyFieldsAreValid
  <2>2. CASE ~Legacy(Raw.version)
    <3>1. Raw.version = 5
      BY <1>3, <2>2 DEF Legacy
    <3> QED BY <1>1, <3>1 DEF GeometryVerdict
  <2> QED BY <2>1, <2>2
<1>5. h.hunkbytes \in 1 .. MaxHunkSize - 1 /\ h.unitbytes > 0
  <2>1. unitbytes # 0
    BY <1>1 DEF GeometryVerdict
  <2> QED BY <1>1, <1>2, <1>3, <1>4, <2>1 DEF SizesAreSane
<1>6. h.hunkbytes * h.totalhunks < MaxFileSize
  BY <1>1, <1>2 DEF SizesAreSane
<1>7. ASSUME Legacy(h.version)
      PROVE  /\ h.totalhunks > 0
             /\ h.length + h.totalhunks * EntrySize(h.version) <= container.size
  <2>1. h.totalhunks = Raw.totalhunks /\ Raw.totalhunks # 0
    BY <1>1, <1>2, <1>7 DEF LegacyFieldsAreValid, TotalHunks
  <2>2. MapEnd(Raw) <= container.size
    BY <1>1, <1>2, <1>7 DEF SizesAreSane
  <2> QED BY <1>2, <1>3, <2>1, <2>2 DEF MapEnd
<1>8. ASSUME ~Legacy(h.version), ~CountWraps
      PROVE  h.hunkbytes * h.totalhunks >= h.logicalbytes
  <2>1. Raw.version = 5 /\ ~Legacy(Raw.version)
    BY <1>2, <1>3, <1>8 DEF Legacy
  <2>2. /\ HunkBytes(Raw) = Raw.hunkbytes /\ LogicalBytes(Raw) = Raw.logicalbytes
        /\ TotalHunks(Raw) = CountOf(Raw.logicalbytes, Raw.hunkbytes) % U32
    BY <2>1 DEF HunkBytes, LogicalBytes, TotalHunks
  <2>3. Raw.hunkbytes \in Nat \ {0}
    BY <1>3, <1>4, <2>2
  <2>4. /\ Raw.logicalbytes <= (U32 - 1) * Raw.hunkbytes
        /\ Raw.logicalbytes + Raw.hunkbytes <= U64
    <3>1. (U32 - 1) * Raw.hunkbytes \in Int /\ Raw.logicalbytes + Raw.hunkbytes \in Nat
      BY <1>3, <2>3
    <3> QED BY <1>3, <1>8, <3>1 DEF CountWraps
  <2> QED BY <1>2, <1>3, <2>2, <2>3, <2>4, CountCovers
<1>9. ASSUME h.version < 3
      PROVE  h.hunkbytes % h.unitbytes = 0 /\ h.unitbytes = SectorLength(Raw)
  BY <1>2, <1>4, <1>9, UnitsOfOldHeaders
<1> QED BY <1>5, <1>6, <1>7, <1>8, <1>9 DEF HeaderIsCoherent, h

-----------------------------------------------------------------------------
(* The walk over the metadata.                                             *)

OpenAt(at, readable, k) == at[k] # 0 /\ (k <= MaxEntries => at[k] \in readable)
StopsAt(list, at, readable, tag, index) ==
  {k \in 1 .. MaxEntries : ~OpenAt(at, readable, k) \/ Found(list, at, k, tag, index)}
NotFound == [error |-> "METADATA_NOT_FOUND", offset |-> 0]

(* A walk goes to the first place where it stops, and answers there.       *)
LEMMA Walk ==
  ASSUME NEW list, NEW readable, NEW start, NEW tag, NEW index,
         NEW at, at = Visit(list, start),
         NEW answer, answer = metadata_find_entry(list, readable, start, tag, index)
  PROVE  \E k \in 1 .. MaxEntries + 1 :
           /\ \A j \in 1 .. k - 1 : OpenAt(at, readable, j) /\ ~Found(list, at, j, tag, index)
           /\ \/ ~OpenAt(at, readable, k) /\ answer = NotFound
              \/ OpenAt(at, readable, k) /\ k = MaxEntries + 1 /\ answer = TooLong(at)
              \/ /\ OpenAt(at, readable, k) /\ k <= MaxEntries
                 /\ Found(list, at, k, tag, index)
                 /\ answer = [error |-> "NONE", offset |-> at[k]]
<1> DEFINE stops == StopsAt(list, at, readable, tag, index)
           First(i) == i \in stops \cup {MaxEntries + 1} /\ \A j \in stops : i <= j
           first == CHOOSE i \in stops \cup {MaxEntries + 1} : \A j \in stops : i <= j
<1>0. MaxEntries \in Nat \ {0}
  BY MetadataAssumption
<1>1. stops \subseteq 1 .. MaxEntries
  BY DEF StopsAt
<1>2. \E i : First(i)
  <2>1. CASE stops = {}
    BY <2>1
  <2>2. CASE stops # {}
    <3>1. stops \in SUBSET Nat
      BY <1>1
    <3>2. \E n \in stops : \A m \in stops : n <= m
      <4> HIDE DEF stops
      <4> QED BY <2>2, <3>1, LeastNumber
    <3> QED BY <3>2
  <2> QED BY <2>1, <2>2
<1>3. First(first)
  <2> HIDE DEF stops
  <2> QED BY <1>2, Zenon
<1>4. answer = IF ~OpenAt(at, readable, first) THEN NotFound
               ELSE IF first > MaxEntries THEN TooLong(at)
               ELSE [error |-> "NONE", offset |-> at[first]]
  BY Zenon DEF metadata_find_entry, OpenAt, StopsAt, NotFound
<1> HIDE DEF first, stops
<1>5. first \in 1 .. MaxEntries + 1
  BY <1>0, <1>1, <1>3
<1>6. ASSUME NEW j \in 1 .. first - 1
      PROVE  OpenAt(at, readable, j) /\ ~Found(list, at, j, tag, index)
  <2>1. j \in 1 .. MaxEntries /\ ~(first <= j)
    BY <1>0, <1>5
  <2>2. j \notin stops
    BY <1>3, <2>1
  <2> QED BY <2>1, <2>2 DEF stops, StopsAt
<1>7. first <= MaxEntries /\ OpenAt(at, readable, first) => Found(list, at, first, tag, index)
  <2>1. first <= MaxEntries => first \in stops
    BY <1>0, <1>3, <1>5
  <2> QED BY <2>1 DEF stops, StopsAt
<1>8. first > MaxEntries <=> first = MaxEntries + 1
  BY <1>0, <1>5
<1>9. first <= MaxEntries <=> ~(first > MaxEntries)
  BY <1>0, <1>5
<1> QED BY <1>4, <1>5, <1>6, <1>7, <1>8, <1>9

(* What is found is an entry that could be read.                           *)
LEMMA FoundIsReadable ==
  ASSUME NEW list, NEW readable, NEW start, NEW tag, NEW index,
         NEW answer, answer = metadata_find_entry(list, readable, start, tag, index),
         answer.error = "NONE"
  PROVE  answer.offset \in readable
<1> DEFINE at == Visit(list, start)
<1> HIDE DEF at
<1>1. PICK k \in 1 .. MaxEntries + 1 :
        \/ ~OpenAt(at, readable, k) /\ answer = NotFound
        \/ OpenAt(at, readable, k) /\ k = MaxEntries + 1 /\ answer = TooLong(at)
        \/ /\ OpenAt(at, readable, k) /\ k <= MaxEntries
           /\ Found(list, at, k, tag, index)
           /\ answer = [error |-> "NONE", offset |-> at[k]]
  BY Walk DEF at
<1> QED BY <1>1 DEF NotFound, TooLong, OpenAt

(* No more entries are found than a walk meets.                            *)
LEMMA FoundIndexIsSmall ==
  ASSUME NEW list, NEW readable, NEW start, NEW tag, NEW index \in Nat,
         NEW answer, answer = metadata_find_entry(list, readable, start, tag, index),
         answer.error = "NONE"
  PROVE  index < MaxEntries
<1> DEFINE at == Visit(list, start)
<1> HIDE DEF at
<1>1. PICK k \in 1 .. MaxEntries + 1 :
        \/ ~OpenAt(at, readable, k) /\ answer = NotFound
        \/ OpenAt(at, readable, k) /\ k = MaxEntries + 1 /\ answer = TooLong(at)
        \/ /\ OpenAt(at, readable, k) /\ k <= MaxEntries
           /\ Found(list, at, k, tag, index)
           /\ answer = [error |-> "NONE", offset |-> at[k]]
  BY Walk DEF at
<1>2. k <= MaxEntries /\ Found(list, at, k, tag, index)
  BY <1>1 DEF NotFound, TooLong
<1> DEFINE S == {j \in 1 .. k : Matches(list, at[j], tag)}
<1>3. Cardinality(S) = index + 1
  BY <1>2 DEF Found
<1>4. IsFiniteSet(1 .. k) /\ Cardinality(1 .. k) = k
  <2>1. k \in Nat /\ k >= 1
    BY MetadataAssumption
  <2>2. IsFiniteSet(1 .. k) /\ Cardinality(1 .. k) = IF 1 > k THEN 0 ELSE k - 1 + 1
    BY <2>1, FS_Interval
  <2> QED BY <2>1, <2>2
<1>5. S \subseteq 1 .. k
  OBVIOUS
<1> HIDE DEF S
<1>6. Cardinality(S) <= k
  BY <1>4, <1>5, FS_Subset
<1> QED BY <1>2, <1>3, <1>6, MetadataAssumption

-----------------------------------------------------------------------------
(* Lists.  A recursive function over numbers exists, as the least number   *)
(* up to which it does not would have to have a predecessor.               *)
StepFunctions(n, S) == [(1 .. n) \X S -> S]
Runs(n, S, c, F, f) ==
  f \in [0 .. n -> S] /\ f[0] = c /\ \A i \in 1 .. n : f[i] = F[<<i, f[i - 1]>>]

LEMMA RunExists ==
  ASSUME NEW n \in Nat, NEW S, NEW c \in S, NEW F \in StepFunctions(n, S)
  PROVE  \E f : Runs(n, S, c, F, f)
<1> USE DEF StepFunctions
<1> DEFINE Upto(k, f) == f \in [0 .. k -> S] /\ f[0] = c /\ \A i \in 1 .. k : f[i] = F[<<i, f[i - 1]>>]
           T == {k \in 0 .. n : \A f : ~ Upto(k, f)}
<1>1. ASSUME NEW k \in T, \A m \in T : k <= m PROVE FALSE
  <2>1. k \in 0 .. n /\ \A f : ~ Upto(k, f)
    OBVIOUS
  <2>2. Upto(0, [i \in 0 .. 0 |-> c])
    OBVIOUS
  <2>3. k - 1 \in 0 .. n /\ k - 1 \notin T
    <3>1. k # 0
      BY <2>1, <2>2
    <3> HIDE DEF T
    <3> QED BY <1>1, <2>1, <3>1
  <2>4. PICK f : Upto(k - 1, f)
    BY <2>3
  <2> DEFINE g == [i \in 0 .. k |-> IF i < k THEN f[i] ELSE F[<<k, f[k - 1]>>]]
  <2>5. Upto(k, g)
    <3>1. f[k - 1] \in S /\ <<k, f[k - 1]>> \in (1 .. n) \X S
      BY <2>1, <2>3, <2>4
    <3>2. g \in [0 .. k -> S] /\ g[0] = c
      BY <2>1, <2>3, <2>4, <3>1
    <3>3. ASSUME NEW i \in 1 .. k PROVE g[i] = F[<<i, g[i - 1]>>]
      <4>1. CASE i = k
        <5>1. g[k] = F[<<k, f[k - 1]>>] /\ g[k - 1] = f[k - 1]
          BY <2>1, <2>3
        <5> QED BY <4>1, <5>1
      <4>2. CASE i # k
        <5>1. i \in 1 .. k - 1 /\ g[i] = f[i] /\ g[i - 1] = f[i - 1]
          BY <4>2, <2>1, <2>3
        <5> QED BY <5>1, <2>4
      <4> QED BY <4>1, <4>2
    <3> QED BY <3>2, <3>3
  <2> QED BY <2>1, <2>5
<1>2. T = {}
  <2>1. T \subseteq Nat
    OBVIOUS
  <2> HIDE DEF T
  <2> QED BY <1>1, <2>1, LeastNumber
<1>3. \E f : Upto(n, f)
  <2>1. n \notin T
    BY <1>2
  <2> HIDE DEF Upto
  <2> QED BY <2>1
<1> QED BY <1>3 DEF Runs

(* The offset after another one, and all there may be.                     *)
After(list, o) == IF o \in DOMAIN list THEN list[o].next ELSE 0
Offsets(list, start) == {start, 0} \cup {list[o].next : o \in DOMAIN list}

(* A walk follows the links.                                               *)
LEMMA WalkSteps ==
  ASSUME NEW list, NEW start
  PROVE  /\ Visit(list, start)[1] = start
         /\ \A k \in 1 .. MaxEntries : Visit(list, start)[k + 1] = After(list, Visit(list, start)[k])
<1> DEFINE S == Offsets(list, start)
           F == [x \in (1 .. MaxEntries) \X S |-> After(list, x[2])]
           IsIt(g) == g = [k \in 1 .. MaxEntries + 1 |->
                             IF k = 1 THEN start
                             ELSE IF g[k - 1] \in DOMAIN list THEN list[g[k - 1]].next
                             ELSE 0]
<1>0. MaxEntries \in Nat \ {0}
  BY MetadataAssumption
<1>1. F \in StepFunctions(MaxEntries, S) /\ start \in S
  <2>1. \A s \in S : After(list, s) \in S
    BY DEF After, Offsets
  <2> HIDE DEF S
  <2>2. F \in [(1 .. MaxEntries) \X S -> S]
    BY <2>1
  <2> QED BY <2>2 DEF StepFunctions, S, Offsets
<1>2. PICK f : Runs(MaxEntries, S, start, F, f)
  <2> HIDE DEF F, S
  <2> QED BY <1>0, <1>1, RunExists
<1> DEFINE at == [k \in 1 .. MaxEntries + 1 |-> f[k - 1]]
<1>3. ASSUME NEW k \in 1 .. MaxEntries PROVE f[k] = After(list, f[k - 1])
  <2>1. k - 1 \in 0 .. MaxEntries
    BY <1>0
  <2>2. f[k - 1] \in S
    BY <1>2, <2>1 DEF Runs
  <2>3. f[k] = F[<<k, f[k - 1]>>]
    BY <1>2 DEF Runs
  <2>4. \A s \in S : F[<<k, s>>] = After(list, s)
    <3> HIDE DEF S
    <3> QED OBVIOUS
  <2> HIDE DEF F, S
  <2> QED BY <2>2, <2>3, <2>4
<1>4. IsIt(at)
  <2>1. ASSUME NEW k \in 1 .. MaxEntries + 1
        PROVE  at[k] = IF k = 1 THEN start
                       ELSE IF at[k - 1] \in DOMAIN list THEN list[at[k - 1]].next ELSE 0
    <3>1. CASE k = 1
      <4>1. at[1] = f[0] /\ f[0] = start
        BY <1>0, <1>2, <3>1 DEF Runs
      <4> QED BY <3>1, <4>1
    <3>2. CASE k # 1
      <4>1. k - 1 \in 1 .. MaxEntries /\ k - 1 \in 1 .. MaxEntries + 1
        BY <1>0, <3>2
      <4>2. at[k] = f[k - 1] /\ at[k - 1] = f[(k - 1) - 1]
        BY <4>1
      <4>3. f[k - 1] = After(list, f[(k - 1) - 1])
        BY <1>3, <4>1
      <4> HIDE DEF at
      <4> QED BY <3>2, <4>2, <4>3 DEF After
    <3> QED BY <3>1, <3>2
  <2>2. at = [k \in 1 .. MaxEntries + 1 |-> at[k]]
    OBVIOUS
  <2> HIDE DEF F, S, at
  <2> QED BY <2>1, <2>2
<1>5. Visit(list, start) = CHOOSE g : IsIt(g)
  BY DEF Visit
<1>6. IsIt(Visit(list, start))
  <2> HIDE DEF IsIt, at
  <2> QED BY <1>4, <1>5
<1> DEFINE v == Visit(list, start)
<1> HIDE DEF v, F, S, at
<1>7. v = [k \in 1 .. MaxEntries + 1 |->
             IF k = 1 THEN start
             ELSE IF v[k - 1] \in DOMAIN list THEN list[v[k - 1]].next ELSE 0]
  BY <1>6 DEF v
<1>8. v[1] = start
  BY <1>0, <1>7
<1>9. ASSUME NEW k \in 1 .. MaxEntries PROVE v[k + 1] = After(list, v[k])
  <2>1. k + 1 \in 1 .. MaxEntries + 1 /\ k + 1 # 1 /\ k + 1 - 1 = k
    BY <1>0
  <2>2. \A j \in 1 .. MaxEntries + 1 : j # 1 => v[j] = After(list, v[j - 1])
    BY <1>7 DEF After
  <2> QED BY <2>1, <2>2
<1> QED BY <1>8, <1>9 DEF v

(* The offsets reached, from one number of steps to the next.              *)
Stepped(list, S) == S \cup {list[o].next : o \in S \cap DOMAIN list}
Reaches(list, start, n, r) ==
  r[0] = {start} /\ \A i \in 1 .. n : r[i] = Stepped(list, r[i - 1])

LEMMA ReachedSteps ==
  ASSUME NEW list, IsFiniteSet(DOMAIN list), NEW start, NEW n, n = Cardinality(DOMAIN list) + 1
  PROVE  \E r : Reaches(list, start, n, r) /\ ReachedFrom(list, start) = r[n]
<1> DEFINE S == SUBSET Offsets(list, start)
           F == [x \in (1 .. n) \X S |-> Stepped(list, x[2])]
           IsIt(g) == g = [k \in 0 .. Cardinality(DOMAIN list) + 1 |->
                             IF k = 0 THEN {start}
                             ELSE g[k - 1] \cup {list[o].next : o \in g[k - 1] \cap DOMAIN list}]
<1>0. n \in Nat /\ n # 0
  BY FS_CardinalityType
<1>1. F \in StepFunctions(n, S) /\ {start} \in S
  <2>1. \A s \in S : Stepped(list, s) \in S
    BY DEF Stepped, Offsets
  <2>2. {start} \in S
    BY DEF Offsets
  <2> HIDE DEF S
  <2>3. F \in [(1 .. n) \X S -> S]
    BY <2>1
  <2> QED BY <2>2, <2>3 DEF StepFunctions
<1>2. PICK f : Runs(n, S, {start}, F, f)
  <2> HIDE DEF F, S
  <2> QED BY <1>0, <1>1, RunExists
<1>3. ASSUME NEW k \in 1 .. n PROVE f[k] = Stepped(list, f[k - 1])
  <2>1. k - 1 \in 0 .. n
    BY <1>0
  <2>2. f[k - 1] \in S
    BY <1>2, <2>1 DEF Runs
  <2>3. f[k] = F[<<k, f[k - 1]>>]
    BY <1>2 DEF Runs
  <2>4. \A s \in S : F[<<k, s>>] = Stepped(list, s)
    <3> HIDE DEF S
    <3> QED OBVIOUS
  <2> HIDE DEF F, S
  <2> QED BY <2>2, <2>3, <2>4
<1>4. IsIt(f)
  <2>1. ASSUME NEW k \in 0 .. n
        PROVE  f[k] = IF k = 0 THEN {start}
                      ELSE f[k - 1] \cup {list[o].next : o \in f[k - 1] \cap DOMAIN list}
    <3>1. k # 0 => k \in 1 .. n
      BY <1>0
    <3> QED BY <1>2, <1>3, <3>1 DEF Runs, Stepped
  <2>2. f = [k \in 0 .. n |-> f[k]]
    BY <1>2 DEF Runs
  <2> HIDE DEF F, S
  <2> QED BY <2>1, <2>2
<1> DEFINE g == CHOOSE y : IsIt(y)
<1>5. ReachedFrom(list, start) = g[n]
  BY DEF ReachedFrom
<1>6. IsIt(g)
  <2> HIDE DEF IsIt
  <2> QED BY <1>4
<1> HIDE DEF g, F, S
<1>7. g = [k \in 0 .. n |-> IF k = 0 THEN {start}
             ELSE g[k - 1] \cup {list[o].next : o \in g[k - 1] \cap DOMAIN list}]
  BY <1>6
<1>8. Reaches(list, start, n, g)
  <2>1. g[0] = {start}
    BY <1>0, <1>7
  <2>2. ASSUME NEW k \in 1 .. n PROVE g[k] = Stepped(list, g[k - 1])
    <3>1. k \in 0 .. n /\ k # 0
      BY <1>0
    <3> QED BY <1>7, <3>1 DEF Stepped
  <2> QED BY <2>1, <2>2 DEF Reaches
<1> QED BY <1>5, <1>8
(* The offsets reached: the first one, and what is behind one reached.  No *)
(* more steps are needed than there are entries: a step that reaches no    *)
(* further entry is the last one to reach anything.                        *)
LEMMA ReachedIsClosed ==
  ASSUME NEW list, IsFiniteSet(DOMAIN list), NEW start
  PROVE  /\ start \in ReachedFrom(list, start)
         /\ \A o \in ReachedFrom(list, start) \cap DOMAIN list :
              list[o].next \in ReachedFrom(list, start)
<1> DEFINE D == DOMAIN list
           n == Cardinality(D) + 1
           Closed(S) == \A o \in S \cap D : list[o].next \in S
<1>0. n \in Nat /\ n # 0 /\ n - 1 = Cardinality(D) /\ Cardinality(D) \in Nat
  BY FS_CardinalityType
<1>1. PICK r : Reaches(list, start, n, r) /\ ReachedFrom(list, start) = r[n]
  BY ReachedSteps
<1> HIDE DEF n
<1>2. /\ r[0] = {start}
      /\ \A i \in 1 .. n : r[i] = r[i - 1] \cup {list[o].next : o \in r[i - 1] \cap D}
  BY <1>1 DEF Reaches, Stepped
<1> HIDE DEF D
<1>3. ASSUME NEW k \in 0 .. n PROVE start \in r[k]
  <2> DEFINE T == {i \in 0 .. n : start \notin r[i]}
  <2>1. ASSUME NEW i \in T, \A m \in T : i <= m PROVE FALSE
    <3>1. i \in 1 .. n /\ i - 1 \in 0 .. n /\ ~(i <= i - 1)
      BY <1>0, <1>2
    <3>2. start \in r[i - 1]
      BY <2>1, <3>1
    <3> QED BY <1>2, <3>1, <3>2
  <2>2. T = {}
    <3>1. T \subseteq Nat
      BY <1>0
    <3> HIDE DEF T
    <3> QED BY <2>1, <3>1, LeastNumber
  <2> QED BY <2>2
\* From a step that reaches no new entry on, nothing is reached.
<1>4. ASSUME NEW i \in 1 .. n, r[i] \cap D = r[i - 1] \cap D
      PROVE  Closed(r[n])
  <2>1. r[i] = r[i - 1] \cup {list[o].next : o \in r[i] \cap D}
    BY <1>2, <1>4
  <2>2. Closed(r[i])
    BY <2>1
  <2>3. r[n] = r[i]
    <3> DEFINE T == {k \in i .. n : r[k] # r[i]}
    <3>1. ASSUME NEW k \in T, \A m \in T : k <= m PROVE FALSE
      <4>1. k \in 1 .. n /\ k - 1 \in i .. n /\ ~(k <= k - 1) /\ r[k] # r[i]
        BY <1>0
      <4>2. r[k - 1] = r[i]
        BY <3>1, <4>1
      <4>3. r[k] = r[i] \cup {list[o].next : o \in r[i] \cap D}
        BY <1>2, <4>1, <4>2
      <4> QED BY <2>2, <4>1, <4>3
    <3>2. T = {}
      <4>1. T \subseteq Nat
        BY <1>0
      <4> HIDE DEF T
      <4> QED BY <3>1, <4>1, LeastNumber
    <3>3. n \in i .. n
      BY <1>0
    <3> HIDE DEF T
    <3>4. n \notin T
      BY <3>2
    <3> QED BY <3>3, <3>4 DEF T
  <2> QED BY <2>2, <2>3
<1>5. Closed(r[n])
  <2> SUFFICES ASSUME ~Closed(r[n]) PROVE FALSE
    OBVIOUS
  <2> HIDE DEF Closed
  <2> DEFINE T == {i \in 0 .. n : ~(Cardinality(r[i] \cap D) >= i)}
  <2>0. \A i : IsFiniteSet(r[i] \cap D) /\ Cardinality(r[i] \cap D) \in Nat
                /\ Cardinality(r[i] \cap D) <= Cardinality(D)
    <3>1. IsFiniteSet(D)
      BY DEF D
    <3>2. \A i : r[i] \cap D \in SUBSET D
      OBVIOUS
    <3> QED BY <3>1, <3>2, FS_Subset, FS_CardinalityType
  <2>1. ASSUME NEW i \in T, \A m \in T : i <= m PROVE FALSE
    <3>1. i \in 0 .. n /\ ~(Cardinality(r[i] \cap D) >= i)
      OBVIOUS
    <3>2. i # 0
      BY <2>0, <3>1
    <3>3. i \in 1 .. n /\ i - 1 \in 0 .. n /\ ~(i <= i - 1)
      BY <1>0, <3>1, <3>2
    <3>4. Cardinality(r[i - 1] \cap D) >= i - 1
      <4>1. i - 1 \notin T
        BY <2>1, <3>3
      <4> QED BY <3>3, <4>1
    <3>5. r[i - 1] \cap D \in SUBSET (r[i] \cap D)
      BY <1>2, <3>3
    <3>6. r[i] \cap D # r[i - 1] \cap D
      BY <1>4, <3>3
    <3>7. /\ Cardinality(r[i - 1] \cap D) <= Cardinality(r[i] \cap D)
          /\ Cardinality(r[i - 1] \cap D) # Cardinality(r[i] \cap D)
      BY <2>0, <3>5, <3>6, FS_Subset
    <3>8. Cardinality(r[i - 1] \cap D) \in Nat /\ Cardinality(r[i] \cap D) \in Nat /\ i \in Nat
      <4>1. i \in Nat
        BY <1>0, <3>3
      <4>2. \A j : Cardinality(r[j] \cap D) \in Nat
        BY <2>0, Zenon
      <4> QED BY <4>1, <4>2
    <3>9. \A a, b, c \in Nat : b >= c - 1 /\ b <= a /\ b # a => a >= c
      OBVIOUS
    <3> QED BY <3>1, <3>4, <3>7, <3>8, <3>9
  <2>2. T = {}
    <3>1. T \subseteq Nat
      BY <1>0
    <3> HIDE DEF T
    <3> QED BY <2>1, <3>1, LeastNumber
  <2>3. n \in 0 .. n /\ n \notin T
    BY <1>0, <2>2
  <2>4. Cardinality(r[n] \cap D) >= n
    BY <2>3
  <2> QED BY <1>0, <2>0, <2>4
<1>6. start \in r[n]
  BY <1>0, <1>3
<1> QED BY <1>1, <1>5, <1>6 DEF D

(* And nothing else.                                                       *)
LEMMA ReachedIsLeast ==
  ASSUME NEW list, IsFiniteSet(DOMAIN list), NEW start,
         NEW S, start \in S, \A o \in S \cap DOMAIN list : list[o].next \in S
  PROVE  ReachedFrom(list, start) \subseteq S
<1> DEFINE n == Cardinality(DOMAIN list) + 1
<1>0. n \in Nat
  BY FS_CardinalityType
<1>1. PICK r : Reaches(list, start, n, r) /\ ReachedFrom(list, start) = r[n]
  BY ReachedSteps
<1> HIDE DEF n
<1> DEFINE T == {i \in 0 .. n : ~(r[i] \subseteq S)}
<1>2. ASSUME NEW i \in T, \A m \in T : i <= m PROVE FALSE
  <2>1. i \in 0 .. n /\ ~(r[i] \subseteq S)
    OBVIOUS
  <2>2. i # 0
    BY <1>1, <2>1 DEF Reaches
  <2>3. i \in 1 .. n /\ i - 1 \in 0 .. n /\ ~(i <= i - 1)
    BY <1>0, <2>1, <2>2
  <2>4. r[i - 1] \subseteq S
    BY <1>2, <2>3
  <2>5. r[i] = r[i - 1] \cup {list[o].next : o \in r[i - 1] \cap DOMAIN list}
    BY <1>1, <2>3 DEF Reaches, Stepped
  <2> QED BY <2>1, <2>4, <2>5
<1>3. T = {}
  <2>1. T \subseteq Nat
    BY <1>0
  <2> HIDE DEF T
  <2> QED BY <1>2, <2>1, LeastNumber
<1>4. n \notin T
  BY <1>3
<1> QED BY <1>0, <1>1, <1>4
(* A walk over a list without a circle: everything it meets is reached, it *)
(* meets nothing twice, and what else is reached is behind its last place. *)
LEMMA LineWalk ==
  ASSUME NEW list, IsFiniteSet(DOMAIN list), NEW start, ~IsCircular(list, start),
         NEW at, at = Visit(list, start), NEW k \in 1 .. MaxEntries + 1,
         \A j \in 1 .. k - 1 : at[j] \in DOMAIN list
  PROVE  /\ \A j \in 1 .. k : at[j] \in ReachedFrom(list, start)
         /\ \A i, j \in 1 .. k : i < j => at[j] \in ReachedFrom(list, at[i]) /\ at[i] # at[j]
         /\ ReachedFrom(list, start) \subseteq
              {at[j] : j \in 1 .. k - 1} \cup ReachedFrom(list, at[k])
<1>0. MaxEntries \in Nat /\ k \in Nat \ {0}
  BY MetadataAssumption
<1>1. at[1] = start /\ \A j \in 1 .. k - 1 : at[j + 1] = list[at[j]].next
  <2>1. at[1] = start /\ \A j \in 1 .. MaxEntries : at[j + 1] = After(list, at[j])
    BY WalkSteps
  <2>2. \A j \in 1 .. k - 1 : j \in 1 .. MaxEntries
    BY <1>0
  <2> QED BY <2>1, <2>2 DEF After
<1>2. ASSUME NEW x, NEW i \in 1 .. k, at[i] \in ReachedFrom(list, x), NEW j \in i .. k
      PROVE  at[j] \in ReachedFrom(list, x)
  <2> DEFINE R == ReachedFrom(list, x)
             T == {m \in i .. k : at[m] \notin R}
  <2>0. \A o \in R \cap DOMAIN list : list[o].next \in R
    BY ReachedIsClosed
  <2> HIDE DEF R
  <2>1. ASSUME NEW m \in T, \A l \in T : m <= l PROVE FALSE
    <3>0. m \in i .. k /\ at[m] \notin R
      OBVIOUS
    <3>1. m # i
      BY <1>2, <3>0 DEF R
    <3>2. m - 1 \in i .. k /\ ~(m <= m - 1) /\ m - 1 \in 1 .. k - 1 /\ m - 1 + 1 = m
      BY <1>0, <3>0, <3>1
    <3>3. at[m - 1] \in R
      BY <2>1, <3>2
    <3>4. at[m] = list[at[m - 1]].next
      BY <1>1, <3>2
    <3> QED BY <2>0, <3>0, <3>2, <3>3, <3>4
  <2>2. T = {}
    <3>1. T \subseteq Nat
      BY <1>0
    <3> HIDE DEF T
    <3> QED BY <2>1, <3>1, LeastNumber
  <2> QED BY <2>2 DEF R
<1>3. ASSUME NEW j \in 1 .. k PROVE at[j] \in ReachedFrom(list, start)
  <2>1. at[1] \in ReachedFrom(list, start)
    BY <1>1, ReachedIsClosed
  <2>2. 1 \in 1 .. k /\ j \in 1 .. k
    BY <1>0
  <2> QED BY <1>2, <2>1, <2>2
<1>4. ASSUME NEW i \in 1 .. k, NEW j \in 1 .. k, i < j
      PROVE  at[j] \in ReachedFrom(list, at[i]) /\ at[i] # at[j]
  <2> DEFINE next == list[at[i]].next
  <2>1. i \in 1 .. k - 1 /\ i + 1 \in 1 .. k /\ j \in i + 1 .. k
    BY <1>0, <1>4
  <2>2. at[i + 1] = next /\ at[i] \in DOMAIN list
    BY <1>1, <2>1
  <2> HIDE DEF next
  <2>3. at[j] \in ReachedFrom(list, next)
    <3>1. at[i + 1] \in ReachedFrom(list, next)
      BY <2>2, ReachedIsClosed
    <3> QED BY <1>2, <2>1, <3>1
  <2>4. ReachedFrom(list, next) \subseteq ReachedFrom(list, at[i])
    <3>1. next \in ReachedFrom(list, at[i])
      BY <2>2, ReachedIsClosed DEF next
    <3> QED BY <3>1, ReachedIsClosed, ReachedIsLeast
  <2>5. at[i] # at[j]
    <3>1. at[i] \in EntriesFrom(list, start)
      BY <1>3, <2>2 DEF EntriesFrom
    <3> QED BY <2>3, <3>1 DEF IsCircular, next
  <2> QED BY <2>3, <2>4, <2>5
<1>5. ReachedFrom(list, start) \subseteq
        {at[j] : j \in 1 .. k - 1} \cup ReachedFrom(list, at[k])
  <2> DEFINE R == ReachedFrom(list, at[k])
             S == {at[j] : j \in 1 .. k - 1} \cup R
  <2>1. at[k] \in R /\ \A o \in R \cap DOMAIN list : list[o].next \in R
    BY ReachedIsClosed
  <2> HIDE DEF R
  <2>2. \A j \in 1 .. k : at[j] \in S
    <3>1. \A j \in 1 .. k : j = k \/ j \in 1 .. k - 1
      BY <1>0
    <3> QED BY <2>1, <3>1
  <2>3. start \in S
    <3>1. 1 \in 1 .. k
      BY <1>0
    <3> QED BY <1>1, <2>2, <3>1
  <2>4. ASSUME NEW o \in S \cap DOMAIN list PROVE list[o].next \in S
    <3>1. CASE o \in R
      BY <2>1, <3>1
    <3>2. CASE \E j \in 1 .. k - 1 : o = at[j]
      <4>1. PICK j \in 1 .. k - 1 : o = at[j]
        BY <3>2
      <4>2. j + 1 \in 1 .. k
        BY <1>0
      <4> HIDE DEF S
      <4> QED BY <1>1, <2>2, <4>1, <4>2
    <3> QED BY <3>1, <3>2
  <2> HIDE DEF S
  <2>5. ReachedFrom(list, start) \subseteq S
    BY <2>3, <2>4, ReachedIsLeast
  <2> QED BY <2>5 DEF S, R
<1> QED BY <1>3, <1>4, <1>5

(* Behind the end of a list is nothing more.                               *)
LEMMA BehindTheEnd ==
  ASSUME NEW list, IsFiniteSet(DOMAIN list), NEW o, o \notin DOMAIN list
  PROVE  ReachedFrom(list, o) \subseteq {o}
<1> DEFINE S == {o}
<1>1. o \in S /\ \A x \in S \cap DOMAIN list : list[x].next \in S
  OBVIOUS
<1> HIDE DEF S
<1>2. ReachedFrom(list, o) \subseteq S
  BY <1>1, ReachedIsLeast
<1> QED BY <1>2 DEF S

(* An injective function counts what it is applied to.                     *)
LEMMA ImageCount ==
  ASSUME NEW S, IsFiniteSet(S), NEW f, \A i, j \in S : f[i] = f[j] => i = j
  PROVE  LET T == {f[i] : i \in S}
         IN  IsFiniteSet(T) /\ Cardinality(T) = Cardinality(S)
<1> DEFINE T == {f[i] : i \in S}
           g == [i \in S |-> f[i]]
<1>1. g \in [S -> T]
  OBVIOUS
<1>2. \A i, j \in S : g[i] = g[j] => i = j
  OBVIOUS
<1>3. \A t \in T : \E i \in S : g[i] = t
  OBVIOUS
<1> HIDE DEF g, T
<1>4. g \in Bijection(S, T)
  BY <1>1, <1>2, <1>3 DEF Bijection, Injection, Surjection, IsInjective
<1>5. ExistsBijection(S, T)
  BY <1>4 DEF ExistsBijection
<1>6. IsFiniteSet(T) /\ Cardinality(T) = Cardinality(S)
  BY <1>5, FS_Bijection
<1> QED BY <1>6 DEF T

(* The matches among the first entries of a walk.                          *)
MatchesTo(list, at, k, tag) == {j \in 1 .. k : Matches(list, at[j], tag)}

LEMMA MatchesCount ==
  ASSUME NEW list, NEW at, NEW tag, NEW k \in Nat \ {0}
  PROVE  /\ IsFiniteSet(MatchesTo(list, at, k, tag))
         /\ Cardinality(MatchesTo(list, at, k, tag)) \in Nat
         /\ Cardinality(MatchesTo(list, at, k - 1, tag)) \in Nat
         /\ Cardinality(MatchesTo(list, at, k, tag)) =
              IF Matches(list, at[k], tag) THEN Cardinality(MatchesTo(list, at, k - 1, tag)) + 1
              ELSE Cardinality(MatchesTo(list, at, k - 1, tag))
<1> DEFINE A == MatchesTo(list, at, k, tag)
           B == MatchesTo(list, at, k - 1, tag)
<1>1. IsFiniteSet(A) /\ IsFiniteSet(B)
  <2>1. IsFiniteSet(1 .. k) /\ IsFiniteSet(1 .. k - 1)
    BY FS_Interval
  <2>2. A \in SUBSET (1 .. k) /\ B \in SUBSET (1 .. k - 1)
    BY DEF MatchesTo
  <2> HIDE DEF A, B
  <2> QED BY <2>1, <2>2, FS_Subset
<1>2. CASE Matches(list, at[k], tag)
  <2>1. A = B \cup {k} /\ k \notin B
    BY <1>2 DEF MatchesTo
  <2> HIDE DEF A, B
  <2>2. Cardinality(A) = Cardinality(B) + 1
    BY <1>1, <2>1, FS_AddElement
  <2>3. Cardinality(A) \in Nat /\ Cardinality(B) \in Nat
    BY <1>1, FS_CardinalityType
  <2> QED BY <1>1, <1>2, <2>2, <2>3 DEF A, B
<1>3. CASE ~Matches(list, at[k], tag)
  <2>1. A = B
    BY <1>3 DEF MatchesTo
  <2> HIDE DEF A, B
  <2>3. Cardinality(A) \in Nat /\ Cardinality(B) \in Nat
    BY <1>1, FS_CardinalityType
  <2> QED BY <1>1, <1>3, <2>1, <2>3 DEF A, B
<1> QED BY <1>2, <1>3

(* What is in front of a place of the walk is what the walk met before.    *)
LEMMA InFrontIsBefore ==
  ASSUME NEW list, IsFiniteSet(DOMAIN list), NEW start, ~IsCircular(list, start),
         NEW at, at = Visit(list, start), NEW k \in 1 .. MaxEntries + 1,
         \A j \in 1 .. k : at[j] \in DOMAIN list, NEW tag
  PROVE  /\ InFrontOf(list, start, at[k], tag) = {at[j] : j \in MatchesTo(list, at, k - 1, tag)}
         /\ Cardinality(InFrontOf(list, start, at[k], tag)) =
              Cardinality(MatchesTo(list, at, k - 1, tag))
<1> DEFINE F == InFrontOf(list, start, at[k], tag)
           M == MatchesTo(list, at, k - 1, tag)
<1>0. k \in Nat \ {0} /\ \A j \in 1 .. k - 1 : j \in 1 .. k /\ j < k
  BY MetadataAssumption
<1>1. /\ \A j \in 1 .. k : at[j] \in ReachedFrom(list, start)
      /\ \A i, j \in 1 .. k : i < j => at[j] \in ReachedFrom(list, at[i]) /\ at[i] # at[j]
      /\ ReachedFrom(list, start) \subseteq
           {at[j] : j \in 1 .. k - 1} \cup ReachedFrom(list, at[k])
  BY <1>0, LineWalk
<1>2. k \in 1 .. k /\ at[k] \in EntriesFrom(list, start)
  BY <1>0, <1>1 DEF EntriesFrom
<1>3. ASSUME NEW j \in M PROVE at[j] \in F
  <2>1. j \in 1 .. k - 1 /\ Matches(list, at[j], tag)
    BY DEF MatchesTo
  <2> QED BY <1>0, <1>1, <1>2, <2>1 DEF InFrontOf, EntriesFrom
<1>4. ASSUME NEW o \in F PROVE \E j \in M : o = at[j]
  <2>1. /\ o \in EntriesFrom(list, start) /\ o # at[k] /\ Matches(list, o, tag)
        /\ at[k] \in ReachedFrom(list, o)
    BY DEF InFrontOf
  <2>2. CASE \E j \in 1 .. k - 1 : o = at[j]
    BY <2>1, <2>2 DEF MatchesTo
  <2>3. CASE o \in ReachedFrom(list, at[k])
    <3> DEFINE next == list[at[k]].next
               R == ReachedFrom(list, next)
    <3>0. next \in R /\ \A x \in R \cap DOMAIN list : list[x].next \in R
      BY ReachedIsClosed
    <3> HIDE DEF R
    <3>1. ReachedFrom(list, at[k]) \subseteq {at[k]} \cup R
      <4> DEFINE S == {at[k]} \cup R
      <4>1. at[k] \in S /\ \A x \in S \cap DOMAIN list : list[x].next \in S
        BY <3>0
      <4> HIDE DEF S
      <4>2. ReachedFrom(list, at[k]) \subseteq S
        BY <4>1, ReachedIsLeast
      <4> QED BY <4>2 DEF S
    <3>2. o \in R
      BY <2>1, <2>3, <3>1
    <3>3. ReachedFrom(list, o) \subseteq R
      BY <3>0, <3>2, ReachedIsLeast
    <3>4. at[k] \in R
      BY <2>1, <3>3
    <3> QED BY <1>2, <3>4 DEF IsCircular, R
  <2> QED BY <1>1, <2>1, <2>2, <2>3 DEF EntriesFrom
<1>5. F = {at[j] : j \in M}
  <2> HIDE DEF F, M
  <2> QED BY <1>3, <1>4
<1>6. Cardinality(F) = Cardinality(M)
  <2>1. IsFiniteSet(M)
    <3>1. IsFiniteSet(1 .. k - 1)
      BY <1>0, FS_Interval
    <3>2. M \in SUBSET (1 .. k - 1)
      BY DEF MatchesTo
    <3> HIDE DEF M
    <3> QED BY <3>1, <3>2, FS_Subset
  <2>2. ASSUME NEW i \in M, NEW j \in M, at[i] = at[j] PROVE i = j
    <3>1. i \in 1 .. k /\ j \in 1 .. k
      BY <1>0 DEF MatchesTo
    <3>2. i < j \/ j < i \/ i = j
      BY <1>0, <3>1
    <3> QED BY <1>1, <2>2, <3>1, <3>2
  <2> HIDE DEF F, M
  <2> QED BY <1>5, <2>1, <2>2, ImageCount
<1> QED BY <1>5, <1>6

(* In particular, nothing is in front of a place the walk reached without  *)
(* meeting the tag.                                                        *)
LEMMA NothingInFront ==
  ASSUME NEW list, IsFiniteSet(DOMAIN list), NEW start, ~IsCircular(list, start),
         NEW at, at = Visit(list, start), NEW k \in 1 .. MaxEntries + 1,
         \A j \in 1 .. k : at[j] \in DOMAIN list, NEW tag,
         MatchesTo(list, at, k - 1, tag) = {}
  PROVE  InFrontOf(list, start, at[k], tag) = {}
<1> DEFINE F == InFrontOf(list, start, at[k], tag)
           M == MatchesTo(list, at, k - 1, tag)
<1>1. F = {at[j] : j \in M}
  BY InFrontIsBefore
<1>2. M = {}
  OBVIOUS
<1> HIDE DEF F, M
<1>3. F = {}
  BY <1>1, <1>2
<1> QED BY <1>3 DEF F

-----------------------------------------------------------------------------
(* What a lookup says of the list.                                         *)

LookupIsByPosition(list, start, tag, index, offset, e, all) ==
  LET matches == {o \in EntriesFrom(list, start) : Matches(list, o, tag)}
  IN  /\ e = "NONE" => /\ offset \in matches
                       /\ Cardinality(InFrontOf(list, start, offset, tag)) = index
      /\ e = "METADATA_NOT_FOUND" /\ all => Cardinality(matches) <= index

(* As long as the entry asked for is not found, no more than index matches *)
(* are met.                                                                *)
LEMMA NotFoundYet ==
  ASSUME NEW list, NEW at, NEW tag, NEW index \in Nat, NEW k \in Nat,
         \A j \in 1 .. k : ~Found(list, at, j, tag, index)
  PROVE  Cardinality(MatchesTo(list, at, k, tag)) \in Nat
           /\ Cardinality(MatchesTo(list, at, k, tag)) <= index
<1> DEFINE C(j) == Cardinality(MatchesTo(list, at, j, tag))
           T == {j \in 0 .. k : ~(C(j) \in Nat /\ C(j) <= index)}
<1>1. ASSUME NEW j \in T, \A m \in T : j <= m PROVE FALSE
  <2>1. j \in 0 .. k /\ ~(C(j) \in Nat /\ C(j) <= index)
    OBVIOUS
  <2>2. j # 0
    <3>1. MatchesTo(list, at, 0, tag) = {}
      BY DEF MatchesTo
    <3>2. C(0) = 0
      BY <3>1, FS_EmptySet
    <3> QED BY <2>1, <3>2
  <2>3. j \in 1 .. k /\ j - 1 \in 0 .. k /\ ~(j <= j - 1) /\ j \in Nat \ {0}
    BY <2>1, <2>2
  <2>4. C(j - 1) \in Nat /\ C(j - 1) <= index
    <3>1. j - 1 \notin T
      BY <1>1, <2>3
    <3> QED BY <2>3, <3>1
  <2>5. C(j) = IF Matches(list, at[j], tag) THEN C(j - 1) + 1 ELSE C(j - 1)
    BY <2>3, MatchesCount
  <2>6. ~(Matches(list, at[j], tag) /\ C(j) = index + 1)
    <3>1. ~Found(list, at, j, tag, index)
      BY <2>3
    <3> QED BY <3>1 DEF Found, MatchesTo
  <2> HIDE DEF C
  <2> QED BY <2>1, <2>4, <2>5, <2>6
<1>2. T = {}
  <2>1. T \subseteq Nat
    OBVIOUS
  <2> HIDE DEF T
  <2> QED BY <1>1, <2>1, LeastNumber
<1>3. k \notin T
  BY <1>2
<1> QED BY <1>3

LEMMA LookupSays ==
  ASSUME NEW list, IsFiniteSet(DOMAIN list), 0 \notin DOMAIN list,
         NEW start, ~IsCircular(list, start),
         NEW readable \in SUBSET DOMAIN list, NEW tag, NEW index \in Nat,
         NEW answer, answer = metadata_find_entry(list, readable, start, tag, index)
  PROVE  LookupIsByPosition(list, start, tag, index, answer.offset, answer.error,
                            readable = DOMAIN list)
<1> DEFINE at == Visit(list, start)
           matches == {o \in EntriesFrom(list, start) : Matches(list, o, tag)}
<1> HIDE DEF at
<1>0. MaxEntries \in Nat
  BY MetadataAssumption
<1>1. PICK k \in 1 .. MaxEntries + 1 :
        /\ \A j \in 1 .. k - 1 : OpenAt(at, readable, j) /\ ~Found(list, at, j, tag, index)
        /\ \/ ~OpenAt(at, readable, k) /\ answer = NotFound
           \/ OpenAt(at, readable, k) /\ k = MaxEntries + 1 /\ answer = TooLong(at)
           \/ /\ OpenAt(at, readable, k) /\ k <= MaxEntries
              /\ Found(list, at, k, tag, index)
              /\ answer = [error |-> "NONE", offset |-> at[k]]
  BY Walk DEF at
<1>2. \A j \in 1 .. k - 1 : at[j] \in readable /\ at[j] \in DOMAIN list
  <2>1. \A j \in 1 .. k - 1 : j <= MaxEntries
    BY <1>0
  <2> QED BY <1>1, <2>1 DEF OpenAt
<1>3. k \in Nat \ {0} /\ k - 1 \in Nat
  BY <1>0
<1>4. ASSUME answer.error = "NONE"
      PROVE  /\ answer.offset \in matches
             /\ Cardinality(InFrontOf(list, start, answer.offset, tag)) = index
  <2>1. /\ k <= MaxEntries /\ at[k] \in DOMAIN list
        /\ Found(list, at, k, tag, index) /\ answer.offset = at[k]
    BY <1>1, <1>4 DEF NotFound, TooLong, OpenAt
  <2>2. \A j \in 1 .. k : at[j] \in DOMAIN list
    <3>1. \A j \in 1 .. k : j = k \/ j \in 1 .. k - 1
      BY <1>3
    <3> QED BY <1>2, <2>1, <3>1
  <2>3. at[k] \in matches
    <3>1. at[k] \in ReachedFrom(list, start)
      <4>1. k \in 1 .. k
        BY <1>3
      <4> QED BY <1>2, <4>1, LineWalk DEF at
    <3> QED BY <2>1, <3>1 DEF EntriesFrom, Found
  <2>4. Cardinality(InFrontOf(list, start, at[k], tag)) = Cardinality(MatchesTo(list, at, k - 1, tag))
    BY <2>2, InFrontIsBefore DEF at
  <2>5. Matches(list, at[k], tag) /\ Cardinality(MatchesTo(list, at, k, tag)) = index + 1
    BY <2>1 DEF Found, MatchesTo
  <2>6. /\ Cardinality(MatchesTo(list, at, k, tag)) = Cardinality(MatchesTo(list, at, k - 1, tag)) + 1
        /\ Cardinality(MatchesTo(list, at, k - 1, tag)) \in Nat
    BY <1>3, <2>5, MatchesCount
  <2> HIDE DEF matches
  <2> QED BY <2>1, <2>3, <2>4, <2>5, <2>6
<1>5. ASSUME answer.error = "METADATA_NOT_FOUND", readable = DOMAIN list
      PROVE  Cardinality(matches) <= index
  <2>1. ~OpenAt(at, readable, k)
    BY <1>1, <1>5 DEF TooLong
  <2>2. at[k] \notin DOMAIN list
    BY <1>5, <2>1 DEF OpenAt
  <2>3. matches \subseteq {at[j] : j \in MatchesTo(list, at, k - 1, tag)}
    <3>1. ReachedFrom(list, start) \subseteq
            {at[j] : j \in 1 .. k - 1} \cup ReachedFrom(list, at[k])
      BY <1>2, LineWalk DEF at
    <3>2. ReachedFrom(list, at[k]) \subseteq {at[k]}
      BY <2>2, BehindTheEnd
    <3> QED BY <2>2, <3>1, <3>2 DEF EntriesFrom, MatchesTo
  <2> DEFINE M == MatchesTo(list, at, k - 1, tag)
             I == {at[j] : j \in M}
  <2>4. Cardinality(M) \in Nat /\ Cardinality(M) <= index
    BY <1>1, <1>3, NotFoundYet
  <2>5. IsFiniteSet(I) /\ Cardinality(I) = Cardinality(M)
    <3>1. IsFiniteSet(M)
      <4>1. IsFiniteSet(1 .. k - 1)
        BY <1>3, FS_Interval
      <4>2. M \in SUBSET (1 .. k - 1)
        BY DEF MatchesTo
      <4> HIDE DEF M
      <4> QED BY <4>1, <4>2, FS_Subset
    <3>2. ASSUME NEW i \in M, NEW j \in M, at[i] = at[j] PROVE i = j
      <4>1. i \in 1 .. k /\ j \in 1 .. k
        BY <1>3 DEF MatchesTo
      <4>2. i < j \/ j < i \/ i = j
        BY <1>3, <4>1
      <4>3. \A a, b \in 1 .. k : a < b => at[a] # at[b]
        BY <1>2, LineWalk DEF at
      <4> QED BY <3>2, <4>1, <4>2, <4>3
    <3> HIDE DEF M
    <3> QED BY <3>1, <3>2, ImageCount
  <2>6. Cardinality(matches) \in Nat /\ Cardinality(matches) <= Cardinality(I)
    <3> HIDE DEF matches, I
    <3>1. matches \in SUBSET I
      BY <2>3 DEF I
    <3> QED BY <2>5, <3>1, FS_Subset, FS_CardinalityType
  <2> HIDE DEF matches, M, I
  <2> QED BY <2>4, <2>5, <2>6
<1> HIDE DEF matches
<1> QED BY <1>4, <1>5 DEF LookupIsByPosition, matches

-----------------------------------------------------------------------------
(* The invariant of opening and of the calls after it.                     *)

ReadingShape == ContainerTypeOK /\ nextentry \in Nat /\ map \in Seq(MapEntry)

(* What a stage of opening has behind it.                                  *)
StagesPassed ==
  /\ reading \notin {"start", "refused"} => Raw.version \in Versions
  /\ reading \in {"start", "header"} => tries = 0
  /\ reading = "guess" => /\ Legacy(Raw.version)
                          /\ GeometryVerdict(Raw, 1) = "NONE"
                          /\ Raw.version < 3 => tries = 0
  /\ reading \in {"checks", "map", "open"} /\ Raw.version < 3 =>
       unitbytes = HunkBytes(Raw) \div Raw.hunksize
  /\ reading \in {"map", "open"} => Verdict(Raw, unitbytes, container.size) = "NONE"
  /\ reading = "map" => Legacy(Raw.version)

(* The entries of the chunks read so far.                                  *)
SoFar == IF nextentry <= Raw.totalhunks THEN nextentry ELSE Raw.totalhunks

EntryIsBelow(h, bound) == Stored(FileEntry(h)) => EndOf(FileEntry(h)) <= bound

MapSoFar ==
  /\ reading \in {"start", "header", "guess", "checks", "refused"} => map = <<>>
  /\ reading \in {"start", "header", "guess", "checks"} => nextentry = 0 /\ maxoffset = 0
  /\ lowram \/ ~Legacy(Raw.version) => map = <<>>
  /\ reading \in {"map", "open"} /\ ~lowram /\ Legacy(Raw.version) =>
       Len(map) = SoFar /\ \A i \in 1 .. SoFar : map[i] = FileEntry(i - 1)
  /\ reading \in {"map", "open"} => \A h \in 0 .. SoFar - 1 : EntryIsBelow(h, maxoffset)
  /\ reading = "open" /\ Legacy(Raw.version) =>
       nextentry >= Raw.totalhunks /\ maxoffset <= container.size

(* What the last call delivered.                                           *)
CallsAnswered ==
  /\ reading # "open" => call = NoCall
  /\ call.index \in Nat
  /\ call.kind = "entry" => call.entry = <<FileEntry(call.index)>>
  /\ CountingUpEnds

ContainerIInv == ReadingShape /\ StagesPassed /\ MapSoFar /\ CallsAnswered

LEMMA ContainerStarts == ContainerInit => ContainerIInv
<1> SUFFICES ASSUME ContainerInit PROVE ContainerIInv
  OBVIOUS
<1> USE DEF ContainerInit
<1>1. Raw.totalhunks \in Nat /\ U32 \in Nat \ {0} /\ U64 \in Nat \ {0}
  BY RawTypes, FileTypes
<1>2. Len(GuessTags) = 6
  BY DEF GuessTags, CDTags
<1>3. map = <<>> /\ Len(map) = 0 /\ map \in Seq(MapEntry) /\ nextentry \in Nat
  OBVIOUS
<1>4. ReadingShape
  <2>1. 0 \in 0 .. 6 /\ 0 \in 0 .. U32 - 1 /\ 0 \in 0 .. U64 - 1 /\ 0 \in 0 .. MaxFaults
    BY <1>1, ContainerAssumption
  <2> QED BY <1>1, <1>2, <1>3, <2>1 DEF ReadingShape, ContainerTypeOK
<1>5. StagesPassed /\ MapSoFar
  BY DEF StagesPassed, MapSoFar
<1>6. CallsAnswered
  BY DEF CallsAnswered, CountingUpEnds, NoCall
<1> QED BY <1>4, <1>5, <1>6 DEF ContainerIInv

(* The file stays what it is.                                              *)
LEMMA FileStays ==
  ASSUME container' = container
  PROVE  Raw' = Raw /\ \A h : FileEntry(h)' = FileEntry(h)
BY DEF Raw, FileEntry, Extracted, OldMap

(* What the rest of the invariant asks of a step of opening that reads no  *)
(* entry and makes no call.                                                *)
LEMMA MapIsNotTouched ==
  ASSUME MapSoFar, UNCHANGED <<container, lowram, mapping>>,
         \/ reading' = reading
         \/ /\ reading \in {"start", "header", "guess", "checks"}
            /\ reading' \in {"start", "header", "guess", "checks"}
         \/ reading = "checks" /\ reading' = "map" /\ Raw.totalhunks \in Nat
         \/ /\ reading = "checks" /\ reading' = "open"
            /\ ~Legacy(Raw.version) /\ Raw.totalhunks \in Nat
  PROVE  MapSoFar'
<1>1. /\ Raw' = Raw /\ \A h : FileEntry(h)' = FileEntry(h)
      /\ map' = map /\ nextentry' = nextentry /\ maxoffset' = maxoffset
      /\ lowram' = lowram /\ container' = container
  BY FileStays DEF mapping
<1>2. SoFar' = SoFar
  BY <1>1 DEF SoFar
<1>3. \A h, b : EntryIsBelow(h, b)' <=> EntryIsBelow(h, b)'
  OBVIOUS
<1>4. \A h : EntryIsBelow(h, maxoffset)' <=> EntryIsBelow(h, maxoffset)
  BY <1>1 DEF EntryIsBelow
<1>5. CASE reading' = reading
  BY <1>1, <1>2, <1>4, <1>5 DEF MapSoFar
<1>6. CASE /\ reading \in {"start", "header", "guess", "checks"}
           /\ reading' \in {"start", "header", "guess", "checks"}
  BY <1>1, <1>6 DEF MapSoFar
<1>7. CASE /\ reading = "checks" /\ reading' \in {"map", "open"} /\ Raw.totalhunks \in Nat
           /\ reading' = "open" => ~Legacy(Raw.version)
  <2>1. map = <<>> /\ nextentry = 0
    BY <1>7 DEF MapSoFar
  <2>2. SoFar = 0 /\ Len(map) = 0
    BY <1>7, <2>1 DEF SoFar
  <2>3. 1 .. SoFar = {} /\ 0 .. SoFar - 1 = {}
    BY <2>2
  <2> QED BY <1>1, <1>2, <1>7, <2>1, <2>2, <2>3 DEF MapSoFar
<1> QED BY <1>5, <1>6, <1>7

LEMMA CallIsNotTouched ==
  ASSUME CallsAnswered, UNCHANGED <<container, error, call>>,
         reading' = reading \/ reading # "open"
  PROVE  CallsAnswered'
<1>1. \A h : FileEntry(h)' = FileEntry(h)
  BY FileStays
<1>2. call' = call /\ error' = error
  OBVIOUS
<1>3. CountingUpEnds'
  BY <1>2 DEF CallsAnswered, CountingUpEnds
<1> QED BY <1>1, <1>2, <1>3 DEF CallsAnswered

(* Refusing a file drops what was read.                                    *)
LEMMA RefusingKeeps ==
  ASSUME ContainerIInv, reading # "open", NEW e, Refuse(e), faults' \in 0 .. MaxFaults
  PROVE  ContainerIInv'
<1>1. /\ UNCHANGED <<container, lowram, tries, unitbytes, nextentry, maxoffset, call>>
      /\ reading' = "refused" /\ map' = <<>> /\ error' = e
  BY DEF Refuse
<1>2. Raw' = Raw
  BY <1>1, FileStays
<1>3. ReadingShape'
  <2>1. Raw.totalhunks \in Nat
    BY RawTypes DEF ContainerIInv, ReadingShape, ContainerTypeOK
  <2>2. Len(map') = 0 /\ map' \in Seq(MapEntry)
    BY <1>1
  <2> QED BY <1>1, <1>2, <2>1, <2>2 DEF ContainerIInv, ReadingShape, ContainerTypeOK
<1>4. StagesPassed'
  BY <1>1 DEF StagesPassed
<1>5. MapSoFar'
  BY <1>1 DEF MapSoFar
<1>6. CallsAnswered'
  <2>1. call' = NoCall
    BY <1>1 DEF ContainerIInv, CallsAnswered
  <2> QED BY <2>1 DEF CallsAnswered, CountingUpEnds, NoCall
<1> QED BY <1>3, <1>4, <1>5, <1>6 DEF ContainerIInv

LEMMA FaultsAreCounted ==
  ASSUME faults \in 0 .. MaxFaults, ReadFails \/ UNCHANGED faults
  PROVE  faults' \in 0 .. MaxFaults
BY ContainerAssumption DEF ReadFails

LEMMA ShapeSays ==
  ASSUME ReadingShape
  PROVE  /\ container \in Containers /\ lowram \in BOOLEAN
         /\ tries \in 0 .. 6 /\ unitbytes \in 0 .. U32 - 1 /\ unitbytes \in Nat
         /\ Raw.totalhunks \in Nat /\ Len(map) <= Raw.totalhunks /\ map \in Seq(MapEntry)
         /\ nextentry \in Nat /\ maxoffset \in 0 .. U64 - 1 /\ maxoffset \in Nat
         /\ faults \in 0 .. MaxFaults
<1>1. Len(GuessTags) = 6
  BY DEF GuessTags, CDTags
<1>2. container \in Containers
  BY DEF ReadingShape, ContainerTypeOK
<1>3. Raw.totalhunks \in Nat
  BY <1>2, RawTypes
<1>4. unitbytes \in Nat /\ maxoffset \in Nat
  BY HeaderAssumption DEF ReadingShape, ContainerTypeOK
<1> QED BY <1>1, <1>2, <1>3, <1>4 DEF ReadingShape, ContainerTypeOK

(* A step before the map moves the shape along when its numbers fit.       *)
LEMMA ShapeMoves ==
  ASSUME ReadingShape, UNCHANGED <<container, lowram, mapping>>,
         reading' \in {"start", "header", "guess", "checks", "map", "open", "refused"},
         tries' \in 0 .. 6, unitbytes' \in 0 .. U32 - 1, faults' \in 0 .. MaxFaults
  PROVE  ReadingShape'
<1>1. Len(GuessTags) = 6
  BY DEF GuessTags, CDTags
<1>2. Raw' = Raw
  BY FileStays
<1> QED BY <1>1, <1>2 DEF ReadingShape, ContainerTypeOK, mapping

LEMMA StartKeeps ==
  ASSUME ContainerIInv, ReadStart \/ StartUnreadable
  PROVE  ContainerIInv'
<1>0. ReadingShape /\ StagesPassed /\ MapSoFar /\ CallsAnswered /\ faults \in 0 .. MaxFaults
  BY ShapeSays DEF ContainerIInv
<1>1. faults' \in 0 .. MaxFaults /\ reading \in {"start", "header"}
  BY <1>0, FaultsAreCounted DEF ReadStart, StartUnreadable
<1>2. CASE \E e : Refuse(e)
  BY <1>1, <1>2, RefusingKeeps
<1>3. CASE /\ reading = "start" /\ StartVerdict(Raw) = "NONE" /\ Go("header")
           /\ UNCHANGED <<tries, unitbytes, mapping>>
  <2>1. /\ UNCHANGED <<container, lowram, error, call, tries, unitbytes, mapping>>
        /\ reading' = "header" /\ Raw' = Raw
    BY <1>3, FileStays DEF Go
  <2>2. ReadingShape'
    BY <1>0, <1>1, <2>1, ShapeSays, ShapeMoves
  <2>3. StagesPassed'
    <3>1. Raw.version \in Versions
      BY <1>3 DEF StartVerdict
    <3> QED BY <1>0, <1>3, <2>1, <3>1 DEF StagesPassed
  <2>4. MapSoFar' /\ CallsAnswered'
    BY <1>0, <1>3, <2>1, MapIsNotTouched, CallIsNotTouched
  <2> QED BY <2>2, <2>3, <2>4 DEF ContainerIInv
<1> QED BY <1>2, <1>3 DEF ReadStart, StartUnreadable

LEMMA HeaderKeeps ==
  ASSUME ContainerIInv, ReadHeader
  PROVE  ContainerIInv'
<1>0. ReadingShape /\ StagesPassed /\ MapSoFar /\ CallsAnswered /\ faults \in 0 .. MaxFaults
  BY ShapeSays DEF ContainerIInv
<1>1. faults' \in 0 .. MaxFaults /\ reading = "header"
  BY <1>0 DEF ReadHeader
<1>2. CASE \E e : Refuse(e)
  BY <1>1, <1>2, RefusingKeeps
<1> DEFINE next == IF Legacy(Raw.version) THEN "guess" ELSE "checks"
<1>3. CASE /\ GeometryVerdict(Raw, 1) = "NONE" /\ Go(next)
           /\ unitbytes' = IF Legacy(Raw.version) THEN 0 ELSE Raw.unitbytes
           /\ UNCHANGED <<tries, mapping>>
  <2>1. /\ UNCHANGED <<container, lowram, error, call, tries, mapping>>
        /\ reading' = next /\ Raw' = Raw
    BY <1>3, FileStays DEF Go
  <2>2. unitbytes' \in 0 .. U32 - 1
    <3>1. Raw.unitbytes \in Nat /\ Raw.unitbytes < U32 /\ U32 \in Nat \ {0}
      BY <1>0, ShapeSays, RawTypes, HeaderAssumption
    <3> QED BY <1>3, <3>1
  <2>3. ReadingShape'
    BY <1>0, <1>1, <2>1, <2>2, ShapeSays, ShapeMoves
  <2>4. Raw.version \in 1 .. 5
    BY <1>0, <1>1, VersionsAre DEF StagesPassed
  <2>5. ASSUME reading' = "guess"
        PROVE  /\ Legacy(Raw.version)
               /\ GeometryVerdict(Raw, 1) = "NONE"
               /\ Raw.version < 3 => tries = 0

    BY <1>0, <1>1, <1>3, <2>1, <2>5 DEF StagesPassed
  <2>6. StagesPassed'
    <3>1. reading' = "checks" => ~(Raw.version < 3)
      BY <2>1, <2>4 DEF Legacy
    <3> QED BY <1>0, <1>1, <2>1, <2>5, <3>1 DEF StagesPassed
  <2>7. MapSoFar' /\ CallsAnswered'
    BY <1>0, <1>1, <2>1, MapIsNotTouched, CallIsNotTouched
  <2> QED BY <2>3, <2>6, <2>7 DEF ContainerIInv
<1> QED BY <1>2, <1>3 DEF ReadHeader

LEMMA GuessedKeeps ==
  ASSUME ContainerIInv, reading = "guess", faults' \in 0 .. MaxFaults,
         NEW bytes \in 0 .. U32 - 1, Guessed(bytes),
         Raw.version < 3 => bytes = HunkBytes(Raw) \div Raw.hunksize
  PROVE  ContainerIInv'
<1>0. ReadingShape /\ StagesPassed /\ MapSoFar /\ CallsAnswered
  BY DEF ContainerIInv
<1>1. /\ UNCHANGED <<container, lowram, error, call, tries, mapping>>
      /\ reading' = "checks" /\ unitbytes' = bytes /\ Raw' = Raw
  BY FileStays DEF Guessed, Go
<1>2. ReadingShape'
  BY <1>0, <1>1, ShapeSays, ShapeMoves
<1>3. StagesPassed'
  BY <1>0, <1>1 DEF StagesPassed
<1>4. MapSoFar' /\ CallsAnswered'
  BY <1>0, <1>1, MapIsNotTouched, CallIsNotTouched
<1> QED BY <1>2, <1>3, <1>4 DEF ContainerIInv

LEMMA TryNextKeeps ==
  ASSUME ContainerIInv, reading = "guess", faults' \in 0 .. MaxFaults,
         tries < Len(GuessTags), tries = 0 => Raw.version >= 3, TryNext
  PROVE  ContainerIInv'
<1>0. ReadingShape /\ StagesPassed /\ MapSoFar /\ CallsAnswered
  BY DEF ContainerIInv
<1>1. /\ UNCHANGED <<container, lowram, error, call, unitbytes, mapping>>
      /\ reading' = "guess" /\ tries' = tries + 1 /\ Raw' = Raw
  BY FileStays DEF TryNext, Go
<1>2. ReadingShape'
  <2>1. Len(GuessTags) = 6
    BY DEF GuessTags, CDTags
  <2>2. tries' \in 0 .. 6
    <3>1. tries \in 0 .. 6 /\ tries < 6
      BY <1>0, <2>1, ShapeSays
    <3> QED BY <1>1, <3>1
  <2> QED BY <1>0, <1>1, <2>2, ShapeSays, ShapeMoves
<1>3. StagesPassed'
  <2>1. ~(Raw.version < 3)
    <3>1. Raw.version \in Nat
      BY <1>0, ShapeSays, FileTypes
    <3> QED BY <1>0, <3>1 DEF StagesPassed
  <2> QED BY <1>0, <1>1, <2>1 DEF StagesPassed
<1>4. MapSoFar' /\ CallsAnswered'
  BY <1>0, <1>1, MapIsNotTouched, CallIsNotTouched
<1> QED BY <1>2, <1>3, <1>4 DEF ContainerIInv

LEMMA GuessKeeps ==
  ASSUME ContainerIInv,
         GuessFromFaux \/ GuessFromTag \/ GuessUnreadable \/ GuessNothing
  PROVE  ContainerIInv'
<1>0. ReadingShape /\ StagesPassed /\ container \in Containers /\ faults \in 0 .. MaxFaults
  BY ShapeSays DEF ContainerIInv
<1>1. faults' \in 0 .. MaxFaults /\ reading = "guess"
  BY <1>0, FaultsAreCounted DEF GuessFromFaux, GuessFromTag, GuessUnreadable, GuessNothing
<1>2. /\ Raw.version \in 1 .. 5 /\ GeometryVerdict(Raw, 1) = "NONE"
      /\ Raw.version < 3 => tries = 0
  BY <1>0, <1>1, VersionsAre DEF StagesPassed
<1>3. U32 \in Nat \ {0} /\ HunkBytes(Raw) \in 0 .. U32 - 1
  BY <1>0, RawTypes, HeaderAssumption
<1>4. CASE GuessFromFaux
  <2>1. HunkBytes(Raw) # 0
    BY <1>2, <1>4 DEF GuessFromFaux, GeometryVerdict
  <2>2. HunkBytes(Raw) \div Raw.hunksize = SectorLength(Raw)
    BY <1>0, <1>4, <2>1, UnitsOfOldHeaders DEF GuessFromFaux
  <2>3. SectorLength(Raw) \in 0 .. U32 - 1
    BY <1>0, <1>3, RawTypes
  <2> QED BY <1>1, <1>4, <2>2, <2>3, GuessedKeeps DEF GuessFromFaux
<1>5. CASE GuessFromTag
  <2> DEFINE found == Lookup(DOMAIN container.entries, Tried, 0)
  <2>1. tries < Len(GuessTags) /\ (tries = 0 => Raw.version >= 3)
    BY <1>5 DEF GuessFromTag
  <2>2. ~(Raw.version < 3)
    BY <1>2, <2>1
  <2>3. \/ TryNext
        \/ Guessed(CDFrameSize)
        \/ /\ found.error = "NONE"
           /\ \E bytes \in container.entries[found.offset].parses : Guessed(bytes)
    BY <1>5 DEF GuessFromTag
  <2>4. CASE TryNext
    BY <1>1, <2>1, <2>4, TryNextKeeps
  <2>5. CASE Guessed(CDFrameSize)
    BY <1>1, <2>2, <2>5, ContainerAssumption, GuessedKeeps
  <2>6. CASE /\ found.error = "NONE"
             /\ \E bytes \in container.entries[found.offset].parses : Guessed(bytes)
    <3>1. found.offset \in DOMAIN container.entries
      BY <2>6, FoundIsReadable DEF Lookup
    <3>2. container.entries[found.offset].parses \subseteq 0 .. U32 - 1
      BY <1>0, <3>1, FileTypes
    <3> HIDE DEF found
    <3> QED BY <1>1, <2>2, <2>6, <3>2, GuessedKeeps
  <2> QED BY <2>3, <2>4, <2>5, <2>6
<1>6. CASE GuessUnreadable
  BY <1>1, <1>6, TryNextKeeps DEF GuessUnreadable
<1>7. CASE GuessNothing
  <2>1. ~(Raw.version < 3)
    <3>1. Len(GuessTags) = 6
      BY DEF GuessTags, CDTags
    <3> QED BY <1>2, <1>7, <3>1 DEF GuessNothing
  <2> QED BY <1>1, <1>3, <1>7, <2>1, GuessedKeeps DEF GuessNothing
<1> QED BY <1>4, <1>5, <1>6, <1>7

LEMMA CheckHeaderKeeps ==
  ASSUME ContainerIInv, CheckHeader
  PROVE  ContainerIInv'
<1>0. ReadingShape /\ StagesPassed /\ MapSoFar /\ CallsAnswered /\ faults \in 0 .. MaxFaults
  BY ShapeSays DEF ContainerIInv
<1>1. faults' \in 0 .. MaxFaults /\ reading = "checks"
  BY <1>0 DEF CheckHeader
<1>2. CASE \E e : Refuse(e)
  BY <1>1, <1>2, RefusingKeeps
<1>3. CASE /\ Verdict(Raw, unitbytes, container.size) = "NONE"
           /\ UNCHANGED <<container, lowram, tries, unitbytes, mapping, call>>
           /\ reading' = IF Legacy(Raw.version) THEN "map" ELSE "open"
  <2>1. Raw' = Raw /\ Raw.totalhunks \in Nat
    BY <1>0, <1>3, FileStays, ShapeSays
  <2>2. ReadingShape'
    BY <1>0, <1>1, <1>3, ShapeSays, ShapeMoves
  <2>3. StagesPassed'
    BY <1>0, <1>1, <1>3, <2>1 DEF StagesPassed
  <2>4. MapSoFar'
    BY <1>0, <1>1, <1>3, <2>1, MapIsNotTouched
  <2>5. CallsAnswered'
    <3>1. call' = NoCall
      BY <1>0, <1>1, <1>3 DEF CallsAnswered
    <3> QED BY <3>1 DEF CallsAnswered, CountingUpEnds, NoCall
  <2> QED BY <2>2, <2>3, <2>4, <2>5 DEF ContainerIInv
<1>4. \/ \E e : Refuse(e)
      \/ /\ Verdict(Raw, unitbytes, container.size) = "NONE"
         /\ UNCHANGED <<container, lowram, tries, unitbytes, mapping, call>>
         /\ reading' = IF Legacy(Raw.version) THEN "map" ELSE "open"
  BY DEF CheckHeader, Go
<1> QED BY <1>2, <1>3, <1>4

-----------------------------------------------------------------------------
(* The map.                                                                *)

(* A map that is read is inside the file, so that the file has its entries.*)
LEMMA EntriesAreThere ==
  ASSUME container \in Containers, Legacy(Raw.version),
         Verdict(Raw, unitbytes, container.size) = "NONE"
  PROVE  /\ Raw.totalhunks \in Nat /\ Raw.totalhunks <= Len(container.map)
         /\ Len(container.map) \in Nat
         /\ \A h \in 0 .. Raw.totalhunks - 1 :
              FileEntry(h) \in MapEntry /\ EndOf(FileEntry(h)) \in 0 .. U64 - 1
<1>1. MapEnd(Raw) <= container.size
  BY VerdictSays DEF SizesAreSane
<1>2. Raw.totalhunks <= Len(container.map) /\ container.map \in Seq(MapEntry)
  BY <1>1, ContainerAssumption DEF Raw
<1>3. Raw.totalhunks \in Nat /\ U64 \in Nat \ {0} /\ U32 \in Nat \ {0}
  BY RawTypes, HeaderAssumption
<1>4. Len(container.map) \in Nat
  BY <1>2
<1>5. ASSUME NEW h \in 0 .. Raw.totalhunks - 1
      PROVE  FileEntry(h) \in MapEntry /\ EndOf(FileEntry(h)) \in 0 .. U64 - 1
  <2>1. h + 1 \in 1 .. Len(container.map)
    BY <1>2, <1>3, <1>4
  <2>2. container.map[h + 1] \in MapEntry
    BY <1>2, <2>1
  <2>3. FileEntry(h) \in MapEntry
    <3> DEFINE entry == container.map[h + 1]
    <3>1. entry \in MapEntry
      BY <2>2
    <3> HIDE DEF entry
    <3>2. \A t \in EntryTypes : [entry EXCEPT !.type = t] \in MapEntry
      BY <3>1 DEF MapEntry
    <3>3. "compressed" \in EntryTypes /\ "uncompressed" \in EntryTypes
      BY DEF EntryTypes
    <3> DEFINE known == IF entry.length = HunkBytes(Raw) THEN "uncompressed" ELSE "compressed"
    <3>4. known \in EntryTypes
      BY <3>3
    <3>5. Extracted(entry) = IF OldMap THEN [entry EXCEPT !.type = known] ELSE entry
      BY Zenon DEF Extracted
    <3> HIDE DEF known
    <3>6. Extracted(entry) \in MapEntry
      BY <3>1, <3>2, <3>4, <3>5, Zenon
    <3> QED BY <3>6 DEF FileEntry, entry
  <2>4. FileEntry(h).offset \in Nat /\ FileEntry(h).length \in Nat
    BY <1>3, <2>3 DEF MapEntry
  <2>5. \A a, b \in Nat : (a + b) % U64 \in 0 .. U64 - 1
    BY <1>3
  <2> QED BY <2>3, <2>4, <2>5 DEF EndOf
<1> QED BY <1>2, <1>3, <1>4, <1>5

(* A sequence behind another.                                              *)
LEMMA Appended ==
  ASSUME NEW S, NEW s \in Seq(S), NEW t \in Seq(S)
  PROVE  /\ Len(s \o t) = Len(s) + Len(t)
         /\ \A i \in 1 .. Len(s) + Len(t) :
              (s \o t)[i] = IF i <= Len(s) THEN s[i] ELSE t[i - Len(s)]
OBVIOUS

(* How many entries a chunk has.                                           *)
LEMMA ChunkLength ==
  ASSUME nextentry \in Nat, Raw.totalhunks \in Nat, nextentry < Raw.totalhunks
  PROVE  \E c \in Nat :
           /\ c = Cardinality(Chunk)
           /\ nextentry + c <= Raw.totalhunks
           /\ nextentry + c = IF nextentry + StackEntries <= Raw.totalhunks
                                THEN nextentry + StackEntries ELSE Raw.totalhunks
<1> DEFINE end == IF nextentry + StackEntries < Raw.totalhunks
                    THEN nextentry + StackEntries ELSE Raw.totalhunks
<1>1. end \in Nat /\ nextentry + 1 <= end /\ end <= Raw.totalhunks
  BY ContainerAssumption
<1>2. end = IF nextentry + StackEntries <= Raw.totalhunks
              THEN nextentry + StackEntries ELSE Raw.totalhunks
  BY ContainerAssumption
<1>3. Chunk = nextentry + 1 .. end
  BY DEF Chunk
<1> HIDE DEF end
<1>4. Cardinality(Chunk) = end - nextentry
  <2>1. nextentry + 1 \in Int /\ end \in Int /\ ~(nextentry + 1 > end)
    BY <1>1
  <2>2. Cardinality(nextentry + 1 .. end) = end - (nextentry + 1) + 1
    BY <2>1, FS_Interval
  <2> QED BY <1>1, <1>3, <2>2
<1>5. end - nextentry \in Nat /\ nextentry + (end - nextentry) = end
  BY <1>1
<1> QED BY <1>1, <1>2, <1>4, <1>5

(* A chunk is read: the entries behind those read so far.                  *)
LEMMA ReadChunkKeeps ==
  ASSUME ContainerIInv, ReadChunk
  PROVE  ContainerIInv'
<1>0. ReadingShape /\ StagesPassed /\ MapSoFar /\ CallsAnswered
  BY DEF ContainerIInv
<1>1. /\ reading = "map" /\ nextentry < Raw.totalhunks
      /\ UNCHANGED <<container, lowram, error, call, tries, unitbytes, faults>>
      /\ reading' = "map" /\ Raw' = Raw /\ \A h : FileEntry(h)' = FileEntry(h)
      /\ nextentry' = nextentry + StackEntries
  BY FileStays DEF ReadChunk, Go
<1>2. /\ container \in Containers /\ nextentry \in Nat /\ map \in Seq(MapEntry)
      /\ maxoffset \in 0 .. U64 - 1 /\ Raw.totalhunks \in Nat /\ Len(map) <= Raw.totalhunks
  BY <1>0, ShapeSays
<1>3. Legacy(Raw.version) /\ Verdict(Raw, unitbytes, container.size) = "NONE"
  BY <1>0, <1>1 DEF StagesPassed
<1>4. \A h \in 0 .. Raw.totalhunks - 1 :
        FileEntry(h) \in MapEntry /\ EndOf(FileEntry(h)) \in 0 .. U64 - 1
  BY <1>2, <1>3, EntriesAreThere
<1>5. PICK c \in Nat :
        /\ c = Cardinality(Chunk)
        /\ nextentry + c <= Raw.totalhunks
        /\ nextentry + c = IF nextentry + StackEntries <= Raw.totalhunks
                             THEN nextentry + StackEntries ELSE Raw.totalhunks
  BY <1>1, <1>2, ChunkLength
<1>6. SoFar = nextentry /\ SoFar' = nextentry + c
  <2>1. SoFar = nextentry
    BY <1>1, <1>2 DEF SoFar
  <2>2. SoFar' = IF nextentry + StackEntries <= Raw.totalhunks
                   THEN nextentry + StackEntries ELSE Raw.totalhunks
    BY <1>1, Zenon DEF SoFar
  <2> QED BY <1>5, <2>1, <2>2, Zenon
<1> DEFINE chunk == [i \in 1 .. c |-> Extracted(container.map[nextentry + i])]
<1>7. /\ map' = IF lowram THEN <<>> ELSE map \o chunk
      /\ maxoffset' = Max(Ends(chunk) \cup {maxoffset})
  BY <1>5 DEF ReadChunk
<1>8. \A i \in 1 .. c : /\ nextentry + i - 1 \in 0 .. Raw.totalhunks - 1
                        /\ chunk[i] = FileEntry(nextentry + i - 1)
  <2>1. ASSUME NEW i \in 1 .. c
        PROVE  /\ nextentry + i - 1 \in 0 .. Raw.totalhunks - 1
               /\ nextentry + i - 1 + 1 = nextentry + i
    <3>1. \A n, t, k \in Nat : \A j \in 1 .. k :
            n + k <= t => n + j - 1 \in 0 .. t - 1 /\ n + j - 1 + 1 = n + j
      OBVIOUS
    <3> QED BY <1>2, <1>5, <3>1
  <2>2. \A i \in 1 .. c : chunk[i] = Extracted(container.map[nextentry + i])
    OBVIOUS
  <2> HIDE DEF chunk
  <2> QED BY <2>1, <2>2 DEF FileEntry
<1>9. chunk \in Seq(MapEntry) /\ Len(chunk) = c
  <2>1. \A i \in 1 .. c : chunk[i] \in MapEntry
    <3> HIDE DEF chunk
    <3> QED BY <1>4, <1>8
  <2>2. chunk \in [1 .. c -> MapEntry]
    BY <2>1
  <2> QED BY <2>2
<1>10. Range(chunk) = {FileEntry(nextentry + i - 1) : i \in 1 .. c}
  <2>1. DOMAIN chunk = 1 .. c
    OBVIOUS
  <2> HIDE DEF chunk
  <2> QED BY <1>8, <2>1 DEF Range
<1> HIDE DEF chunk
<1>11. /\ maxoffset' \in 0 .. U64 - 1 /\ maxoffset <= maxoffset'
       /\ \A i \in 1 .. c : EntryIsBelow(nextentry + i - 1, maxoffset')
  <2> DEFINE T == Ends(chunk) \cup {maxoffset}
  <2>1. U64 - 1 \in Nat
    BY HeaderAssumption
  <2>2. T \subseteq 0 .. U64 - 1
    BY <1>2, <1>4, <1>8, <1>10 DEF Ends
  <2>3. \A i \in 1 .. c : Stored(FileEntry(nextentry + i - 1)) =>
                            EndOf(FileEntry(nextentry + i - 1)) \in T
    BY <1>10 DEF Ends
  <2>4. maxoffset \in T
    OBVIOUS
  <2>5. maxoffset' = Max(T)
    BY <1>7
  <2> HIDE DEF T
  <2>6. maxoffset' \in T /\ \A m \in T : m <= maxoffset'
    BY <2>1, <2>2, <2>4, <2>5, Largest
  <2> QED BY <2>2, <2>3, <2>4, <2>6 DEF EntryIsBelow
<1>12. ReadingShape'
  <2>1. Len(GuessTags) = 6
    BY DEF GuessTags, CDTags
  <2>2. nextentry' \in Nat
    BY <1>1, <1>2, ContainerAssumption
  <2>3. map' \in Seq(MapEntry) /\ Len(map') <= Raw.totalhunks
    <3>1. CASE lowram
      <4>1. map' = <<>>
        BY <1>7, <3>1
      <4> QED BY <1>2, <4>1
    <3>2. CASE ~lowram
      <4>1. Len(map) = nextentry
        BY <1>0, <1>1, <1>3, <1>6, <3>2 DEF MapSoFar
      <4>2. map' = map \o chunk
        BY <1>7, <3>2
      <4> QED BY <1>2, <1>5, <1>9, <4>1, <4>2
    <3> QED BY <3>1, <3>2
  <2> QED BY <1>0, <1>1, <1>11, <2>1, <2>2, <2>3 DEF ReadingShape, ContainerTypeOK
<1>13. StagesPassed'
  BY <1>0, <1>1 DEF StagesPassed
<1>14. MapSoFar'
  <2>1. lowram => map' = <<>>
    BY <1>7
  <2>2. ASSUME ~lowram
        PROVE  /\ Len(map') = nextentry + c
               /\ \A i \in 1 .. nextentry + c : map'[i] = FileEntry(i - 1)
    <3>1. Len(map) = nextentry /\ \A i \in 1 .. nextentry : map[i] = FileEntry(i - 1)
      BY <1>0, <1>1, <1>3, <1>6, <2>2 DEF MapSoFar
    <3>2. map' = map \o chunk
      BY <1>7, <2>2
    <3>3. Len(map') = nextentry + c
      <4>1. Len(map \o chunk) = Len(map) + Len(chunk)
        BY <1>2, <1>9, Appended
      <4> QED BY <1>9, <3>1, <3>2, <4>1
    <3>4. ASSUME NEW i \in 1 .. nextentry + c PROVE map'[i] = FileEntry(i - 1)
      <4>1. map'[i] = IF i <= nextentry THEN map[i] ELSE chunk[i - nextentry]
        <5>1. i \in 1 .. Len(map) + Len(chunk)
          BY <1>9, <3>1
        <5>2. (map \o chunk)[i] = IF i <= Len(map) THEN map[i] ELSE chunk[i - Len(map)]
          BY <1>2, <1>9, <5>1, Appended
        <5> QED BY <3>1, <3>2, <5>2
      <4>2. CASE i <= nextentry
        <5>1. i \in 1 .. nextentry
          BY <1>2, <4>2
        <5> QED BY <3>1, <4>1, <4>2, <5>1
      <4>3. CASE ~(i <= nextentry)
        <5>1. i - nextentry \in 1 .. c /\ nextentry + (i - nextentry) - 1 = i - 1
          BY <1>2, <4>3
        <5> QED BY <1>8, <4>1, <4>3, <5>1
      <4> QED BY <4>2, <4>3
    <3> QED BY <3>3, <3>4
  <2>3. ASSUME NEW h \in 0 .. nextentry + c - 1 PROVE EntryIsBelow(h, maxoffset')
    <3>1. CASE h < nextentry
      <4>1. h \in 0 .. SoFar - 1
        BY <1>2, <1>6, <3>1
      <4>2. EntryIsBelow(h, maxoffset)
        BY <1>0, <1>1, <4>1 DEF MapSoFar
      <4>3. EndOf(FileEntry(h)) \in Nat /\ maxoffset \in Nat /\ maxoffset' \in Nat
        <5>1. h \in 0 .. Raw.totalhunks - 1
          BY <1>1, <1>2, <3>1
        <5>2. EndOf(FileEntry(h)) \in 0 .. U64 - 1
          BY <1>4, <5>1
        <5> QED BY <1>2, <1>11, <5>2
      <4> QED BY <1>11, <4>2, <4>3 DEF EntryIsBelow
    <3>2. CASE ~(h < nextentry)
      <4>1. h - nextentry + 1 \in 1 .. c /\ nextentry + (h - nextentry + 1) - 1 = h
        BY <1>2, <3>2
      <4> QED BY <1>11, <4>1
    <3> QED BY <3>1, <3>2
  <2>5. ~lowram => Len(map)' = SoFar' /\ \A i \in 1 .. SoFar' : map'[i] = FileEntry(i - 1)'
    BY <1>1, <1>6, <2>2
  <2>6. (\A h \in 0 .. SoFar - 1 : EntryIsBelow(h, maxoffset))'
    <3> SUFFICES ASSUME NEW h \in 0 .. SoFar' - 1 PROVE EntryIsBelow(h, maxoffset)'
      OBVIOUS
    <3>1. h \in 0 .. nextentry + c - 1
      BY <1>2, <1>6
    <3>2. EntryIsBelow(h, maxoffset')
      BY <2>3, <3>1
    <3> QED BY <1>1, <3>2 DEF EntryIsBelow
  <2>7. lowram \/ ~Legacy(Raw.version) => map' = <<>>
    BY <1>3, <2>1
  <2>8. /\ reading' = "map" /\ lowram' = lowram /\ Raw' = Raw
        /\ (Len(map))' = Len(map')
    BY <1>1
  <2> QED BY <2>5, <2>6, <2>7, <2>8 DEF MapSoFar
<1>15. CallsAnswered'
  BY <1>0, <1>1, CallIsNotTouched
<1> QED BY <1>12, <1>13, <1>14, <1>15 DEF ContainerIInv

LEMMA CheckMapKeeps ==
  ASSUME ContainerIInv, CheckMap
  PROVE  ContainerIInv'
<1>0. ReadingShape /\ StagesPassed /\ MapSoFar /\ CallsAnswered /\ faults \in 0 .. MaxFaults
  BY ShapeSays DEF ContainerIInv
<1>1. faults' \in 0 .. MaxFaults /\ reading = "map" /\ nextentry >= Raw.totalhunks
  BY <1>0 DEF CheckMap
<1>2. CASE \E e : Refuse(e)
  BY <1>1, <1>2, RefusingKeeps
<1>3. CASE /\ ~(maxoffset > container.size)
           /\ UNCHANGED <<container, lowram, tries, unitbytes, mapping, call>>
           /\ reading' = "open"
  <2>1. Raw' = Raw /\ \A h : FileEntry(h)' = FileEntry(h)
    BY <1>3, FileStays
  <2>2. ReadingShape'
    BY <1>0, <1>1, <1>3, ShapeSays, ShapeMoves
  <2>3. StagesPassed'
    BY <1>0, <1>1, <1>3, <2>1 DEF StagesPassed
  <2>4. MapSoFar'
    <3>1. maxoffset <= container.size
      <4>1. maxoffset \in Nat /\ container.size \in Nat
        BY <1>0, ShapeSays, FileTypes
      <4> QED BY <1>3, <4>1
    <3>2. /\ map' = map /\ nextentry' = nextentry /\ maxoffset' = maxoffset
          /\ lowram' = lowram /\ container' = container
      BY <1>3 DEF mapping
    <3>3. SoFar' = SoFar
      BY <2>1, <3>2 DEF SoFar
    <3>4. \A h : EntryIsBelow(h, maxoffset)' <=> EntryIsBelow(h, maxoffset)
      BY <2>1, <3>2 DEF EntryIsBelow
    <3> QED BY <1>0, <1>1, <1>3, <2>1, <3>1, <3>2, <3>3, <3>4 DEF MapSoFar
  <2>5. CallsAnswered'
    <3>1. call' = NoCall
      BY <1>0, <1>1, <1>3 DEF CallsAnswered
    <3> QED BY <3>1 DEF CallsAnswered, CountingUpEnds, NoCall
  <2> QED BY <2>2, <2>3, <2>4, <2>5 DEF ContainerIInv
<1> QED BY <1>2, <1>3 DEF CheckMap

(* A map that cannot be read, or has no room.                              *)
LEMMA MapRefusedKeeps ==
  ASSUME ContainerIInv, MapNotAllocated \/ MapUnreadable
  PROVE  ContainerIInv'
<1>1. reading = "map" /\ \E e : Refuse(e)
  BY DEF MapNotAllocated, MapUnreadable
<1>2. faults \in 0 .. MaxFaults
  BY ShapeSays DEF ContainerIInv
<1>3. faults' \in 0 .. MaxFaults
  BY <1>2, FaultsAreCounted DEF MapNotAllocated, MapUnreadable
<1> QED BY <1>1, <1>3, RefusingKeeps

-----------------------------------------------------------------------------
(* The calls.                                                              *)

(* A call changes nothing but its answer.                                  *)
LEMMA CalledKeeps ==
  ASSUME ContainerIInv, reading = "open", faults' \in 0 .. MaxFaults,
         NEW c, NEW e, Called(c, e), c.index \in Nat,
         c.kind = "entry" => c.entry = <<FileEntry(c.index)>>,
         c.kind = "metadata" /\ e = "NONE" => c.index < MaxEntries
  PROVE  ContainerIInv'
<1>0. ReadingShape /\ StagesPassed /\ MapSoFar /\ CallsAnswered
  BY DEF ContainerIInv
<1>1. /\ call' = c /\ error' = e
      /\ UNCHANGED <<container, lowram, reading, tries, unitbytes, mapping>>
  BY DEF Called
<1>2. Raw' = Raw /\ \A h : FileEntry(h)' = FileEntry(h)
  BY <1>1, FileStays
<1>3. ReadingShape'
  BY <1>0, <1>1, ShapeSays, ShapeMoves
<1>4. StagesPassed'
  BY <1>0, <1>1, <1>2 DEF StagesPassed
<1>5. MapSoFar'
  BY <1>0, <1>1, MapIsNotTouched
<1>6. CallsAnswered'
  <2>1. CountingUpEnds'
    BY <1>1 DEF CountingUpEnds
  <2> QED BY <1>1, <1>2, <2>1 DEF CallsAnswered
<1> QED BY <1>3, <1>4, <1>5, <1>6 DEF ContainerIInv

LEMMA AnsweredKeeps ==
  ASSUME ContainerIInv, reading = "open", faults' \in 0 .. MaxFaults,
         NEW tag, NEW index \in Nat, NEW readable, NEW sound,
         Answered(tag, index, Lookup(readable, tag, index), sound)
  PROVE  ContainerIInv'
<1> DEFINE found == Lookup(readable, tag, index)
           Faux == [NoCall EXCEPT !.kind = "metadata", !.tag = tag, !.faux = TRUE]
           Real == [NoCall EXCEPT !.kind = "metadata", !.tag = tag, !.index = index,
                                  !.offset = found.offset, !.sound = sound]
<1>1. Called(Faux, "NONE") \/ Called(Real, found.error)
  BY Zenon DEF Answered
<1>2. Faux.kind = "metadata" /\ Faux.index = 0 /\ Real.kind = "metadata" /\ Real.index = index
  BY DEF NoCall
<1>3. found.error = "NONE" => index < MaxEntries
  BY FoundIndexIsSmall DEF Lookup
<1> HIDE DEF found, Faux, Real
<1>4. CASE Called(Faux, "NONE")
  BY <1>2, <1>4, CalledKeeps, MetadataAssumption
<1>5. CASE Called(Real, found.error)
  BY <1>2, <1>3, <1>5, CalledKeeps
<1> QED BY <1>1, <1>4, <1>5

LEMMA MetadataKeeps ==
  ASSUME ContainerIInv, chd_get_metadata \/ MetadataUnreadable
  PROVE  ContainerIInv'
<1>0. faults \in 0 .. MaxFaults /\ CallsAnswered
  BY ShapeSays DEF ContainerIInv
<1>1. faults' \in 0 .. MaxFaults /\ reading = "open"
  <2>1. reading = "open" /\ (ReadFails \/ UNCHANGED faults)
    BY Zenon DEF chd_get_metadata, MetadataUnreadable
  <2> QED BY <1>0, <2>1, FaultsAreCounted
<1>2. \A tag : FirstIndex(tag) \subseteq Nat
  BY <1>0 DEF FirstIndex, CallsAnswered
<1>3. \/ \E tag \in AskedTags : \E index \in FirstIndex(tag) : \E readable, sound :
           Answered(tag, index, Lookup(readable, tag, index), sound)
      \/ \E tag \in AskedTags :
           Called([NoCall EXCEPT !.kind = "metadata", !.tag = tag, !.sound = FALSE], "READ_ERROR")
  BY Zenon DEF chd_get_metadata, MetadataUnreadable
<1>4. CASE \E tag \in AskedTags : \E index \in FirstIndex(tag) : \E readable, sound :
             Answered(tag, index, Lookup(readable, tag, index), sound)
  BY <1>1, <1>2, <1>4, AnsweredKeeps
<1>5. CASE \E tag \in AskedTags :
             Called([NoCall EXCEPT !.kind = "metadata", !.tag = tag, !.sound = FALSE], "READ_ERROR")
  <2>1. PICK tag \in AskedTags :
          Called([NoCall EXCEPT !.kind = "metadata", !.tag = tag, !.sound = FALSE], "READ_ERROR")
    BY <1>5, Zenon
  <2> DEFINE c == [NoCall EXCEPT !.kind = "metadata", !.tag = tag, !.sound = FALSE]
  <2>2. c.kind = "metadata" /\ c.index = 0
    BY DEF NoCall
  <2>3. Called(c, "READ_ERROR")
    BY <2>1, Zenon
  <2> HIDE DEF c
  <2> QED BY <1>1, <2>2, <2>3, CalledKeeps
<1> QED BY <1>3, <1>4, <1>5, Zenon

LEMMA EntryKeeps ==
  ASSUME ContainerIInv, UseEntry \/ EntryUnreadable
  PROVE  ContainerIInv'
<1>0. /\ faults \in 0 .. MaxFaults /\ Raw.totalhunks \in Nat /\ nextentry \in Nat
      /\ MapSoFar /\ StagesPassed
  BY ShapeSays DEF ContainerIInv
<1>1. faults' \in 0 .. MaxFaults /\ reading = "open" /\ Legacy(Raw.version)
  <2>1. reading = "open" /\ Legacy(Raw.version) /\ (ReadFails \/ UNCHANGED faults)
    BY Zenon DEF UseEntry, EntryUnreadable
  <2> QED BY <1>0, <2>1, FaultsAreCounted
<1>2. CASE UseEntry
  <2>1. PICK h \in 0 .. Raw.totalhunks - 1 :
          Called([NoCall EXCEPT !.kind = "entry", !.index = h,
                      !.entry = <<IF lowram THEN FileEntry(h) ELSE map[h + 1]>>], "NONE")
    BY <1>2, Zenon DEF UseEntry
  <2>2. ~lowram => map[h + 1] = FileEntry(h)
    <3>1. SoFar = Raw.totalhunks
      BY <1>0, <1>1 DEF MapSoFar, SoFar
    <3>2. h + 1 \in 1 .. SoFar /\ h + 1 - 1 = h
      BY <1>0, <3>1
    <3> QED BY <1>0, <1>1, <3>2 DEF MapSoFar
  <2> DEFINE c == [NoCall EXCEPT !.kind = "entry", !.index = h,
                      !.entry = <<IF lowram THEN FileEntry(h) ELSE map[h + 1]>>]
  <2>3. c.kind = "entry" /\ c.index = h /\ c.entry = <<FileEntry(h)>>
    BY <2>2 DEF NoCall
  <2>4. Called(c, "NONE")
    BY <2>1, Zenon
  <2> HIDE DEF c
  <2>5. h \in Nat
    BY <1>0
  <2> QED BY <1>1, <2>3, <2>4, <2>5, CalledKeeps
<1>3. CASE EntryUnreadable
  <2>1. Called(NoCall, "READ_ERROR")
    BY <1>3 DEF EntryUnreadable
  <2>2. NoCall.kind = "none" /\ NoCall.index = 0
    BY DEF NoCall
  <2> QED BY <1>1, <2>1, <2>2, CalledKeeps
<1> QED BY <1>2, <1>3

LEMMA ContainerKeeps == ContainerIInv /\ [ContainerNext]_containervars => ContainerIInv'
<1> SUFFICES ASSUME ContainerIInv, [ContainerNext]_containervars PROVE ContainerIInv'
  OBVIOUS
<1>1. CASE ContainerNext
  BY <1>1, StartKeeps, HeaderKeeps, GuessKeeps, CheckHeaderKeeps, ReadChunkKeeps,
     MapRefusedKeeps, CheckMapKeeps, MetadataKeeps, EntryKeeps DEF ContainerNext
<1>2. CASE UNCHANGED containervars
  <2>0. ReadingShape /\ StagesPassed /\ MapSoFar /\ CallsAnswered
    BY DEF ContainerIInv
  <2>1. /\ UNCHANGED <<container, lowram, reading, tries, unitbytes, mapping, error, call, faults>>
        /\ Raw' = Raw
    BY <1>2, FileStays DEF containervars, mapping
  <2>2. ReadingShape'
    BY <2>0, <2>1, ShapeSays, ShapeMoves DEF ReadingShape, ContainerTypeOK
  <2>3. StagesPassed'
    BY <2>0, <2>1 DEF StagesPassed
  <2>4. MapSoFar' /\ CallsAnswered'
    BY <2>0, <2>1, MapIsNotTouched, CallIsNotTouched
  <2> QED BY <2>2, <2>3, <2>4 DEF ContainerIInv
<1> QED BY <1>1, <1>2

LEMMA ContainerInvariant == ContainerSpec => []ContainerIInv
BY ContainerStarts, ContainerKeeps, PTL DEF ContainerSpec

-----------------------------------------------------------------------------
(* What follows.                                                           *)

(* A sum that does not reach U64 does not wrap.                            *)
LEMMA NoWrap ==
  ASSUME NEW a \in Nat, NEW b \in Nat, a + b < U64
  PROVE  (a + b) % U64 = a + b
<1>1. \A n, m \in Nat : n < m => n % m = n
  OBVIOUS
<1> QED BY <1>1, HeaderAssumption

(* A header is refused, or none of its sizes is 0 or beyond its bound, the *)
(* map of an old file ends within the file, and the hunks cover the bytes  *)
(* (header_read, header_validate).  The units of a v5 file are not among   *)
(* it: nothing compares unitbytes with hunkbytes, so their quotient in     *)
(* 8 bits, by which hunk_read_into_memory() divides, may still be 0.       *)
THEOREM HeadersAreCoherent == ContainerSpec => [](ContainerTypeOK /\ HeaderIsCoherent)
<1>1. ContainerIInv => ContainerTypeOK
  BY DEF ContainerIInv, ReadingShape
<1>2. ContainerIInv => HeaderIsCoherent
  <2> SUFFICES ASSUME ContainerIInv, Opened PROVE HeaderIsCoherent
    BY DEF HeaderIsCoherent
  <2>1. StagesPassed /\ container \in Containers /\ unitbytes \in Nat
    BY ShapeSays DEF ContainerIInv
  <2>2. /\ Raw.version \in Versions
        /\ Verdict(Raw, unitbytes, container.size) = "NONE"
        /\ Raw.version < 3 => unitbytes = HunkBytes(Raw) \div Raw.hunksize
    BY <2>1 DEF StagesPassed, Opened
  <2> QED BY <2>1, <2>2, AcceptedIsCoherent
<1> QED BY <1>1, <1>2, ContainerInvariant, PTL

(* An accepted map of an old file refers to nothing behind the end of the  *)
(* file, and what a build without the array reads again is what was        *)
(* checked (map_read, map_read_one_legacy).                                *)
THEOREM MapsAreInTheirFiles == ContainerSpec => []MapEntriesAreTheFiles
<1>1. ASSUME ContainerIInv PROVE MapEntriesAreTheFiles
  <2>0. /\ MapSoFar /\ CallsAnswered /\ StagesPassed
        /\ container \in Containers /\ nextentry \in Nat /\ maxoffset \in Nat
        /\ Raw.totalhunks \in Nat
    BY <1>1, ShapeSays DEF ContainerIInv
  <2>1. ASSUME Opened, Legacy(Raw.version), NEW h \in 0 .. Raw.totalhunks - 1,
               Stored(FileEntry(h)), FileEntry(h).offset + FileEntry(h).length < U64
        PROVE  FileEntry(h).offset + FileEntry(h).length <= container.size
    <3> DEFINE e == FileEntry(h)
    <3>1. e \in MapEntry
      <4>1. Verdict(Raw, unitbytes, container.size) = "NONE"
        BY <2>0, <2>1 DEF StagesPassed, Opened
      <4> QED BY <2>0, <2>1, <4>1, EntriesAreThere
    <3> HIDE DEF e
    <3>2. e.offset \in Nat /\ e.length \in Nat
      BY <3>1, HeaderAssumption DEF MapEntry
    <3>3. EndOf(e) = e.offset + e.length
      BY <2>1, <3>2, NoWrap DEF EndOf, e
    <3>4. EndOf(e) <= maxoffset /\ maxoffset <= container.size
      <4>1. SoFar = Raw.totalhunks
        BY <2>0, <2>1 DEF MapSoFar, Opened, SoFar
      <4> QED BY <2>0, <2>1, <4>1 DEF MapSoFar, Opened, EntryIsBelow, e
    <3>5. container.size \in Nat /\ e.offset + e.length \in Nat
      BY <2>0, <3>2, FileTypes
    <3> QED BY <2>0, <3>3, <3>4, <3>5 DEF e
  <2>2. ASSUME call.kind = "entry"
        PROVE  call.entry[1] = Extracted(container.map[call.index + 1])
    BY <2>0, <2>2 DEF CallsAnswered, FileEntry
  <2> QED BY <2>1, <2>2, Zenon DEF MapEntriesAreTheFiles, Extracted
<1> QED BY <1>1, ContainerInvariant, PTL

(* Whoever asks for one entry after the other comes to an end, also when   *)
(* the list of a malformed file is a circle (metadata_find_entry).         *)
THEOREM CountingEnds == ContainerSpec => []CountingUpEnds
<1>1. ContainerIInv => CountingUpEnds
  BY DEF ContainerIInv, CallsAnswered
<1> QED BY <1>1, ContainerInvariant, PTL

-----------------------------------------------------------------------------
(* Lookups by position.                                                    *)

LEMMA LookupsStart == ContainerInit => LookupsAreByPosition
BY DEF ContainerInit, LookupsAreByPosition, NoCall

LEMMA AnsweredByPosition ==
  ASSUME container \in Containers, container' = container,
         NEW tag, NEW index \in Nat, NEW readable \in SUBSET DOMAIN container.entries, NEW sound,
         sound => readable = DOMAIN container.entries,
         Answered(tag, index, Lookup(readable, tag, index), sound)
  PROVE  LookupsAreByPosition'
<1> DEFINE found == Lookup(readable, tag, index)
           Faux == [NoCall EXCEPT !.kind = "metadata", !.tag = tag, !.faux = TRUE]
           Real == [NoCall EXCEPT !.kind = "metadata", !.tag = tag, !.index = index,
                                  !.offset = found.offset, !.sound = sound]
<1>1. call' = Faux \/ (call' = Real /\ error' = found.error)
  BY Zenon DEF Answered, Called
<1>2. Faux.faux = TRUE
  BY DEF NoCall
<1>3. /\ Real.tag = tag /\ Real.index = index /\ Real.offset = found.offset
      /\ Real.sound = sound
  BY DEF NoCall
<1>4. Raw' = Raw
  BY FileStays
<1>5. ~IsCircular(container.entries, MetaOffset(Raw)) =>
        LookupIsByPosition(container.entries, MetaOffset(Raw), tag, index, found.offset,
                           found.error, readable = DOMAIN container.entries)
  <2>1. IsFiniteSet(DOMAIN container.entries) /\ 0 \notin DOMAIN container.entries
    BY FileTypes
  <2> QED BY <2>1, LookupSays DEF Lookup
<1> HIDE DEF found, Faux, Real
<1>6. CASE call' = Faux
  BY <1>2, <1>6 DEF LookupsAreByPosition
<1>7. CASE call' = Real /\ error' = found.error
  BY <1>3, <1>4, <1>5, <1>7 DEF LookupsAreByPosition, LookupIsByPosition
<1> QED BY <1>1, <1>6, <1>7

LEMMA LookupsKeep ==
  ASSUME ContainerIInv, LookupsAreByPosition, [ContainerNext]_containervars
  PROVE  LookupsAreByPosition'
<1>0. CallsAnswered /\ container \in Containers
  BY ShapeSays DEF ContainerIInv
<1>1. CASE call'.kind # "metadata"
  BY <1>1 DEF LookupsAreByPosition
<1>2. CASE reading # "open" /\ call' = call
  <2>1. call' = NoCall /\ NoCall.kind = "none"
    BY <1>0, <1>2 DEF CallsAnswered, NoCall
  <2> QED BY <1>1, <2>1
<1>3. CASE UNCHANGED containervars
  BY <1>3, FileStays DEF containervars, LookupsAreByPosition
<1>4. CASE chd_get_metadata \/ MetadataUnreadable
  <2>0. container' = container
    BY <1>4, Zenon DEF chd_get_metadata, MetadataUnreadable, Answered, Called
  <2>1. \A tag : FirstIndex(tag) \subseteq Nat
    BY <1>0 DEF FirstIndex, CallsAnswered
  <2> DEFINE D == DOMAIN container.entries
  <2>2. \/ \E tag \in AskedTags : \E index \in FirstIndex(tag) :
             Answered(tag, index, Lookup(D, tag, index), TRUE)
        \/ \E tag \in AskedTags : \E index \in FirstIndex(tag) : \E o \in D :
             Answered(tag, index, Lookup(D \ {o}, tag, index), FALSE)
        \/ \E tag \in AskedTags :
             Called([NoCall EXCEPT !.kind = "metadata", !.tag = tag, !.sound = FALSE],
                    "READ_ERROR")
    BY <1>4, Zenon DEF chd_get_metadata, MetadataUnreadable
  <2>3. D \in SUBSET D /\ \A o : D \ {o} \in SUBSET D
    OBVIOUS
  <2>4. CASE \E tag \in AskedTags : \E index \in FirstIndex(tag) :
               Answered(tag, index, Lookup(D, tag, index), TRUE)
    BY <1>0, <2>0, <2>1, <2>3, <2>4, AnsweredByPosition
  <2>5. CASE \E tag \in AskedTags : \E index \in FirstIndex(tag) : \E o \in D :
               Answered(tag, index, Lookup(D \ {o}, tag, index), FALSE)
    <3> PICK tag \in AskedTags : \E index \in FirstIndex(tag) : \E o \in D :
                Answered(tag, index, Lookup(D \ {o}, tag, index), FALSE)
      BY <2>5, Zenon
    <3>1. PICK index \in FirstIndex(tag) : \E o \in D :
            Answered(tag, index, Lookup(D \ {o}, tag, index), FALSE)
      OBVIOUS
    <3>2. PICK o \in D : Answered(tag, index, Lookup(D \ {o}, tag, index), FALSE)
      BY <3>1
    <3>3. index \in Nat /\ D \ {o} \in SUBSET D
      BY <2>1, <2>3
    <3> HIDE DEF D
    <3> QED BY <1>0, <2>0, <3>2, <3>3, AnsweredByPosition DEF D
  <2>6. CASE \E tag \in AskedTags :
               Called([NoCall EXCEPT !.kind = "metadata", !.tag = tag, !.sound = FALSE],
                      "READ_ERROR")
    <3>1. error' = "READ_ERROR"
      BY <2>6, Zenon DEF Called
    <3> QED BY <3>1 DEF LookupsAreByPosition
  <2> QED BY <2>2, <2>4, <2>5, <2>6, Zenon
<1>5. CASE UseEntry \/ EntryUnreadable
  <2>1. \A x, y, z : [NoCall EXCEPT !.kind = "entry", !.index = x, !.entry = y].kind = "entry"
    BY DEF NoCall
  <2>2. \/ call' = NoCall
        \/ \E x, y : call' = [NoCall EXCEPT !.kind = "entry", !.index = x, !.entry = y]
    BY <1>5, Zenon DEF UseEntry, EntryUnreadable, Called
  <2>3. NoCall.kind = "none"
    BY DEF NoCall
  <2>4. call'.kind # "metadata"
    BY <2>1, <2>2, <2>3
  <2> QED BY <1>1, <2>4
<1>6. CASE \/ ReadStart \/ StartUnreadable \/ ReadHeader
           \/ GuessFromFaux \/ GuessFromTag \/ GuessUnreadable \/ GuessNothing
           \/ CheckHeader \/ ReadChunk \/ MapNotAllocated \/ MapUnreadable \/ CheckMap
  <2>1. reading # "open"
    BY <1>6 DEF ReadStart, StartUnreadable, ReadHeader, GuessFromFaux, GuessFromTag,
       GuessUnreadable, GuessNothing, CheckHeader, ReadChunk, MapNotAllocated,
       MapUnreadable, CheckMap
  <2>2. call' = call
    <3>1. CASE ReadStart \/ StartUnreadable \/ ReadHeader
      BY <3>1, Zenon DEF ReadStart, StartUnreadable, ReadHeader, Refuse, Go
    <3>2. CASE GuessFromFaux \/ GuessFromTag \/ GuessUnreadable \/ GuessNothing
      BY <3>2 DEF GuessFromFaux, GuessFromTag, GuessUnreadable, GuessNothing, Guessed, TryNext, Go
    <3>3. CASE CheckHeader \/ ReadChunk \/ MapNotAllocated \/ MapUnreadable \/ CheckMap
      BY <3>3 DEF CheckHeader, ReadChunk, MapNotAllocated, MapUnreadable, CheckMap, Refuse, Go
    <3> QED BY <1>6, <3>1, <3>2, <3>3
  <2> QED BY <1>2, <2>1, <2>2
<1> QED BY <1>3, <1>4, <1>5, <1>6, Zenon DEF ContainerNext

(* A lookup delivers the entry with as many entries of its tag in front of *)
(* it as the caller asked for, whoever asks, for every list without a      *)
(* circle; and whoever counts the index up comes to an end for every list  *)
(* (chd_get_metadata, metadata_find_entry).                                *)
THEOREM LookupsFindTheirEntries == ContainerSpec => []LookupsAreRight
<1>1. LookupsAreByPosition /\ CountingUpEnds => LookupsAreRight
  BY DEF LookupsAreRight
<1>2. ContainerIInv /\ LookupsAreByPosition /\ [ContainerNext]_containervars
        => LookupsAreByPosition'
  BY LookupsKeep
<1> QED BY <1>1, <1>2, LookupsStart, ContainerInvariant, CountingEnds, PTL DEF ContainerSpec

-----------------------------------------------------------------------------
(* The unit size of a file of version 3 or 4.                              *)

(* Asking for the first entry with a tag finds the one that has no other   *)
(* in front of it, and finds none only when there is none, in a list that  *)
(* a walk can go through.                                                  *)
FirstOfTag(list, start, tag) ==
  {o \in EntriesFrom(list, start) :
     list[o].tag = tag /\ InFrontOf(list, start, o, tag) = {}}

LEMMA FirstLookup ==
  ASSUME NEW list, IsFiniteSet(DOMAIN list), 0 \notin DOMAIN list,
         NEW start, IsWalkedWhole(list, start), NEW tag, tag # Wildcard,
         NEW answer, answer = metadata_find_entry(list, DOMAIN list, start, tag, 0)
  PROVE  /\ answer.error = "NONE" => FirstOfTag(list, start, tag) = {answer.offset}
         /\ answer.error # "NONE" => FirstOfTag(list, start, tag) = {}
<1> DEFINE at == Visit(list, start)
           D == DOMAIN list
           first == FirstOfTag(list, start, tag)
<1> HIDE DEF at
<1>0. MaxEntries \in Nat /\ ~IsCircular(list, start)
  BY MetadataAssumption DEF IsWalkedWhole
<1>1. PICK k \in 1 .. MaxEntries + 1 :
        /\ \A j \in 1 .. k - 1 : OpenAt(at, D, j) /\ ~Found(list, at, j, tag, 0)
        /\ \/ ~OpenAt(at, D, k) /\ answer = NotFound
           \/ OpenAt(at, D, k) /\ k = MaxEntries + 1 /\ answer = TooLong(at)
           \/ /\ OpenAt(at, D, k) /\ k <= MaxEntries
              /\ Found(list, at, k, tag, 0)
              /\ answer = [error |-> "NONE", offset |-> at[k]]
  BY Walk DEF at
<1>2. \A j \in 1 .. k - 1 : at[j] \in D
  <2>1. \A j \in 1 .. k - 1 : j <= MaxEntries
    BY <1>0
  <2> QED BY <1>1, <2>1 DEF OpenAt
<1>3. k \in Nat \ {0} /\ k - 1 \in Nat /\ k \in 1 .. k
  BY <1>0
<1>4. /\ \A j \in 1 .. k : at[j] \in ReachedFrom(list, start)
      /\ \A i, j \in 1 .. k : i < j => at[j] \in ReachedFrom(list, at[i]) /\ at[i] # at[j]
      /\ ReachedFrom(list, start) \subseteq
           {at[j] : j \in 1 .. k - 1} \cup ReachedFrom(list, at[k])
  BY <1>0, <1>2, LineWalk DEF at
<1>5. \A o : Matches(list, o, tag) <=> list[o].tag = tag
  BY DEF Matches
<1>6. MatchesTo(list, at, k - 1, tag) = {}
  <2> DEFINE M == MatchesTo(list, at, k - 1, tag)
  <2>1. Cardinality(M) \in Nat /\ Cardinality(M) <= 0
    BY <1>1, <1>3, NotFoundYet
  <2>2. IsFiniteSet(M)
    <3>1. IsFiniteSet(1 .. k - 1)
      BY <1>3, FS_Interval
    <3>2. M \in SUBSET (1 .. k - 1)
      BY DEF MatchesTo
    <3> HIDE DEF M
    <3> QED BY <3>1, <3>2, FS_Subset
  <2>3. Cardinality(M) = 0
    BY <2>1
  <2> HIDE DEF M
  <2>4. M = {}
    BY <2>2, <2>3, FS_EmptySet
  <2> QED BY <2>4 DEF M
<1>7. \A j \in 1 .. k - 1 : list[at[j]].tag # tag
  BY <1>5, <1>6 DEF MatchesTo
<1>8. ASSUME answer.error = "NONE" PROVE first = {answer.offset}
  <2>1. at[k] \in D /\ list[at[k]].tag = tag /\ answer.offset = at[k]
    BY <1>1, <1>5, <1>8 DEF NotFound, TooLong, OpenAt, Found
  <2>2. \A j \in 1 .. k : at[j] \in D
    <3>1. \A j \in 1 .. k : j = k \/ j \in 1 .. k - 1
      BY <1>3
    <3> QED BY <1>2, <2>1, <3>1
  <2>3. InFrontOf(list, start, at[k], tag) = {}
    <3>1. at = Visit(list, start) /\ \A j \in 1 .. k : at[j] \in DOMAIN list
      BY <2>2 DEF at
    <3> HIDE DEF D, first, at
    <3>2. k \in 1 .. MaxEntries + 1 /\ ~IsCircular(list, start) /\ IsFiniteSet(DOMAIN list)
      BY <1>0
    <3> QED BY <1>6, <3>1, <3>2, NothingInFront
  <2>4. at[k] \in EntriesFrom(list, start)
    BY <1>3, <1>4, <2>1 DEF EntriesFrom
  <2>5. at[k] \in first
    BY <2>1, <2>3, <2>4 DEF FirstOfTag
  <2>6. ASSUME NEW o \in first, o # at[k] PROVE FALSE
    <3>1. /\ o \in EntriesFrom(list, start) /\ list[o].tag = tag
          /\ InFrontOf(list, start, o, tag) = {}
      BY DEF FirstOfTag
    <3>2. o \in ReachedFrom(list, at[k])
      BY <1>4, <1>7, <3>1 DEF EntriesFrom
    <3>3. at[k] \in InFrontOf(list, start, o, tag)
      BY <1>5, <2>1, <2>4, <2>6, <3>2 DEF InFrontOf
    <3> QED BY <3>1, <3>3
  <2> HIDE DEF first
  <2> QED BY <2>1, <2>5, <2>6
<1>9. ASSUME answer.error # "NONE" PROVE first = {}
  <2>1. at[k] \notin D
    <3>1. CASE ~OpenAt(at, D, k)
      BY <3>1 DEF OpenAt
    <3>2. CASE k = MaxEntries + 1 /\ at[k] \in D
      <4> DEFINE I == {at[j] : j \in 1 .. k}
      <4>1. \A j \in 1 .. k : at[j] \in D
        <5>1. \A j \in 1 .. k : j = k \/ j \in 1 .. k - 1
          BY <1>3
        <5> QED BY <1>2, <3>2, <5>1
      <4>2. I \in SUBSET EntriesFrom(list, start)
        BY <1>4, <4>1 DEF EntriesFrom
      <4>3. IsFiniteSet(1 .. k) /\ Cardinality(1 .. k) = k
        <5>1. 1 \in Int /\ k \in Int /\ ~(1 > k) /\ k - 1 + 1 = k
          BY <1>3
        <5>2. IsFiniteSet(1 .. k) /\ Cardinality(1 .. k) = IF 1 > k THEN 0 ELSE k - 1 + 1
          BY <5>1, FS_Interval
        <5> QED BY <5>1, <5>2
      <4>4. Cardinality(I) = k
        <5>1. ASSUME NEW i \in 1 .. k, NEW j \in 1 .. k, at[i] = at[j] PROVE i = j
          <6>1. i < j \/ j < i \/ i = j
            BY <1>3
          <6> QED BY <1>4, <5>1, <6>1
        <5> DEFINE S == 1 .. k
        <5> HIDE DEF S
        <5>2. IsFiniteSet(S) /\ \A i, j \in S : at[i] = at[j] => i = j
          BY <4>3, <5>1 DEF S
        <5>3. Cardinality({at[i] : i \in S}) = Cardinality(S)
          BY <5>2, ImageCount
        <5> QED BY <4>3, <5>3 DEF S
      <4>5. IsFiniteSet(EntriesFrom(list, start))
        <5>1. EntriesFrom(list, start) \in SUBSET D
          BY DEF EntriesFrom
        <5> QED BY <5>1, FS_Subset
      <4> HIDE DEF I
      <4>6. /\ Cardinality(I) <= Cardinality(EntriesFrom(list, start))
            /\ Cardinality(EntriesFrom(list, start)) \in Nat
        BY <4>2, <4>5, FS_Subset, FS_CardinalityType
      <4>7. Cardinality(EntriesFrom(list, start)) <= MaxEntries
        BY DEF IsWalkedWhole
      <4> QED BY <1>0, <3>2, <4>4, <4>6, <4>7
    <3> QED BY <1>1, <1>9, <3>1, <3>2
  <2>2. ReachedFrom(list, at[k]) \subseteq {at[k]}
    BY <2>1, BehindTheEnd
  <2>3. ASSUME NEW o \in first PROVE FALSE
    <3>1. o \in ReachedFrom(list, start) /\ o \in D /\ list[o].tag = tag
      BY DEF FirstOfTag, EntriesFrom
    <3> QED BY <1>4, <1>7, <2>1, <2>2, <3>1
  <2> HIDE DEF first
  <2> QED BY <2>3
<1> HIDE DEF first
<1> QED BY <1>8, <1>9 DEF first

(* What the tags tried so far, and the tag that was used, say of the units.*)
DiskSizes == UNION {container.entries[o].parses : o \in FirstWith(HardDisk)}

SaysNothing(i) ==
  IF i = 1 THEN DiskSizes = {} ELSE FirstWith(GuessTags[i]) = {}

UnitsFromTags ==
  IF DiskSizes # {} THEN unitbytes \in DiskSizes
  ELSE IF \E i \in DOMAIN CDTags : FirstWith(CDTags[i]) # {} THEN unitbytes = CDFrameSize
  ELSE unitbytes = HunkBytes(Raw)

AllIsRead ==
  Raw.version \in {3, 4} /\ faults = 0 /\ IsWalkedWhole(container.entries, MetaOffset(Raw))

UnitsSoFar ==
  AllIsRead => /\ reading = "guess" => \A i \in 1 .. tries : SaysNothing(i)
               /\ reading \in {"checks", "map", "open"} => UnitsFromTags

LEMMA TagsAre ==
  /\ Len(GuessTags) = 6 /\ DOMAIN CDTags = 1 .. 5
  /\ GuessTags[1] = HardDisk
  /\ \A i \in 1 .. 5 : GuessTags[i + 1] = CDTags[i]
  /\ \A i \in 1 .. 5 : CDTags[i] # HardDisk
  /\ \A i \in 1 .. 6 : GuessTags[i] # Wildcard
<1>1. Len(GuessTags) = 6 /\ DOMAIN CDTags = 1 .. 5 /\ GuessTags[1] = HardDisk
  BY DEF GuessTags, CDTags
<1>2. /\ GuessTags[1] = HardDisk /\ GuessTags[2] = "CHCD" /\ GuessTags[3] = "CHTR"
      /\ GuessTags[4] = "CHT2" /\ GuessTags[5] = "CHGT" /\ GuessTags[6] = "CHGD"
  BY DEF GuessTags, CDTags
<1>3. /\ CDTags[1] = "CHCD" /\ CDTags[2] = "CHTR" /\ CDTags[3] = "CHT2"
      /\ CDTags[4] = "CHGT" /\ CDTags[5] = "CHGD"
  BY DEF CDTags
<1>4. \A i \in 1 .. 5 : i = 1 \/ i = 2 \/ i = 3 \/ i = 4 \/ i = 5
  OBVIOUS
<1>5. \A i \in 1 .. 6 : i = 1 \/ i = 2 \/ i = 3 \/ i = 4 \/ i = 5 \/ i = 6
  OBVIOUS
<1>6. \A i \in 1 .. 5 : GuessTags[i + 1] = CDTags[i]
  BY <1>2, <1>3, <1>4
<1>7. \A i \in 1 .. 5 : CDTags[i] # HardDisk
  BY <1>3, <1>4 DEF HardDisk
<1>8. \A i \in 1 .. 6 : GuessTags[i] # Wildcard
  BY <1>2, <1>5 DEF HardDisk, Wildcard
<1> QED BY <1>1, <1>6, <1>7, <1>8

LEMMA TagsStay ==
  ASSUME container' = container
  PROVE  /\ Raw' = Raw /\ DiskSizes' = DiskSizes
         /\ \A tag : FirstWith(tag)' = FirstWith(tag)
<1>1. Raw' = Raw
  BY FileStays
<1>2. \A tag : FirstWith(tag)' = FirstWith(tag)
  BY <1>1 DEF FirstWith
<1>3. DiskSizes' = DiskSizes
  BY <1>1 DEF DiskSizes, FirstWith
<1> QED BY <1>1, <1>2, <1>3

(* A step that tries no tag leaves what is known of the units.             *)
LEMMA UnitsAreNotTouched ==
  ASSUME UnitsSoFar, UNCHANGED <<container, tries, unitbytes>>, faults' = 0 => faults = 0,
         \/ reading' = reading
         \/ reading' \in {"header", "refused"}
         \/ reading \in {"checks", "map", "open"} /\ reading' \in {"map", "open"}
  PROVE  UnitsSoFar'
<1>1. /\ Raw' = Raw /\ DiskSizes' = DiskSizes /\ \A tag : FirstWith(tag)' = FirstWith(tag)
      /\ unitbytes' = unitbytes /\ tries' = tries /\ container' = container
  BY TagsStay
<1>2. AllIsRead' => AllIsRead
  BY <1>1 DEF AllIsRead
<1>3. \A i : SaysNothing(i)' = SaysNothing(i)
  BY <1>1 DEF SaysNothing
<1>4. UnitsFromTags' <=> UnitsFromTags
  BY <1>1 DEF UnitsFromTags
<1> QED BY <1>1, <1>2, <1>3, <1>4 DEF UnitsSoFar

LEMMA UnitsStart == ContainerInit => UnitsSoFar
BY DEF ContainerInit, UnitsSoFar

LEMMA FaultsOnlyGrow ==
  ASSUME faults \in Nat, ReadFails \/ UNCHANGED faults
  PROVE  faults' = 0 => faults = 0 /\ UNCHANGED faults
BY DEF ReadFails

LEMMA HeaderKeepsUnits ==
  ASSUME ContainerIInv, UnitsSoFar, ReadHeader
  PROVE  UnitsSoFar'
<1>0. /\ StagesPassed /\ reading = "header" /\ UNCHANGED faults
      /\ Raw.version \in 1 .. 5
  BY VersionsAre DEF ContainerIInv, ReadHeader, StagesPassed
<1>1. CASE Refuse("INVALID_DATA")
  BY <1>0, <1>1, UnitsAreNotTouched DEF Refuse
<1>2. CASE /\ Go(IF Legacy(Raw.version) THEN "guess" ELSE "checks")
           /\ UNCHANGED <<tries, mapping>>
  <2>1. container' = container /\ Raw' = Raw /\ tries' = 0
        /\ reading' = IF Legacy(Raw.version) THEN "guess" ELSE "checks"
    BY <1>0, <1>2, FileStays DEF Go, StagesPassed
  <2>2. CASE Legacy(Raw.version)
    <3>1. reading' = "guess" /\ 1 .. tries' = {}
      BY <2>1, <2>2
    <3> QED BY <3>1 DEF UnitsSoFar
  <2>3. CASE ~Legacy(Raw.version)
    <3>1. Raw.version \notin {3, 4}
      BY <2>3 DEF Legacy
    <3> QED BY <2>1, <3>1 DEF UnitsSoFar, AllIsRead
  <2> QED BY <2>2, <2>3
<1> QED BY <1>1, <1>2 DEF ReadHeader

LEMMA GuessFromTagKeepsUnits ==
  ASSUME ContainerIInv, UnitsSoFar, GuessFromTag, AllIsRead
  PROVE  UnitsSoFar'
<1> DEFINE found == Lookup(DOMAIN container.entries, Tried, 0)
<1>0. /\ container \in Containers /\ tries \in 0 .. 6 /\ reading = "guess"
      /\ tries < 6 /\ tries + 1 \in 1 .. 6
  <2>1. container \in Containers /\ tries \in 0 .. 6
    BY ShapeSays DEF ContainerIInv
  <2>2. reading = "guess" /\ tries < 6
    BY TagsAre DEF GuessFromTag
  <2> QED BY <2>1, <2>2
<1>1. /\ found.error = "NONE" => FirstWith(Tried) = {found.offset}
      /\ found.error # "NONE" => FirstWith(Tried) = {}
  <2> DEFINE list == container.entries
             start == MetaOffset(Raw)
  <2>1. IsFiniteSet(DOMAIN list) /\ 0 \notin DOMAIN list
    BY <1>0, FileTypes
  <2>2. IsWalkedWhole(list, start)
    BY DEF AllIsRead
  <2>3. Tried # Wildcard
    BY <1>0, TagsAre DEF Tried
  <2>4. found = metadata_find_entry(list, DOMAIN list, start, Tried, 0)
    BY DEF Lookup
  <2>5. FirstWith(Tried) = FirstOfTag(list, start, Tried)
    BY DEF FirstWith, FirstOfTag
  <2> HIDE DEF found, list, start
  <2>6. /\ found.error = "NONE" => FirstOfTag(list, start, Tried) = {found.offset}
        /\ found.error # "NONE" => FirstOfTag(list, start, Tried) = {}
    BY <2>1, <2>2, <2>3, <2>4, FirstLookup
  <2> QED BY <2>5, <2>6
<1>2. \A i \in 1 .. tries : SaysNothing(i)
  BY <1>0 DEF UnitsSoFar
<1>3. /\ Tried = GuessTags[tries + 1]
      /\ tries = 0 <=> Tried = HardDisk
      /\ tries # 0 => tries \in 1 .. 5 /\ Tried = CDTags[tries]
  <2>1. tries # 0 => tries \in 1 .. 5
    BY <1>0
  <2>2. Tried = GuessTags[tries + 1]
    BY DEF Tried
  <2>3. tries = 0 => Tried = HardDisk
    BY <2>2, TagsAre
  <2> QED BY <2>1, <2>2, <2>3, TagsAre
<1>4. /\ container' = container /\ faults' = faults /\ Raw' = Raw /\ DiskSizes' = DiskSizes
      /\ \A tag : FirstWith(tag)' = FirstWith(tag)
  <2>1. UNCHANGED <<container, faults>>
    BY DEF GuessFromTag, TryNext, Guessed, Go
  <2> QED BY <2>1, TagsStay
<1>5. CASE TryNext /\ SaysNothing(tries + 1)
  <2>1. reading' = "guess" /\ tries' = tries + 1
    BY <1>5 DEF TryNext, Go
  <2>2. \A i \in 1 .. tries + 1 : SaysNothing(i)
    <3>1. \A i \in 1 .. tries + 1 : i = tries + 1 \/ i \in 1 .. tries
      BY <1>0
    <3> QED BY <1>2, <1>5, <3>1
  <2>3. \A i : SaysNothing(i)' = SaysNothing(i)
    BY <1>4 DEF SaysNothing
  <2> QED BY <2>1, <2>2, <2>3 DEF UnitsSoFar
<1>6. ASSUME NEW bytes, Guessed(bytes),
             \/ bytes \in DiskSizes
             \/ DiskSizes = {} /\ (\E i \in DOMAIN CDTags : FirstWith(CDTags[i]) # {})
                  /\ bytes = CDFrameSize
      PROVE  UnitsSoFar'
  <2>1. reading' = "checks" /\ unitbytes' = bytes
    BY <1>6 DEF Guessed, Go
  <2>2. UnitsFromTags'
    BY <1>4, <1>6, <2>1 DEF UnitsFromTags
  <2> QED BY <2>1, <2>2 DEF UnitsSoFar
<1>7. CASE found.error # "NONE"
  <2>1. TryNext
    BY <1>7 DEF GuessFromTag
  <2>2. SaysNothing(tries + 1)
    <3>1. FirstWith(Tried) = {}
      BY <1>1, <1>7
    <3>2. CASE tries = 0
      <4>1. DiskSizes = {}
        BY <1>3, <3>1, <3>2 DEF DiskSizes
      <4> QED BY <3>2, <4>1 DEF SaysNothing
    <3>3. CASE tries # 0
      <4>1. tries + 1 # 1
        BY <1>0, <3>3
      <4> QED BY <1>3, <3>1, <4>1 DEF SaysNothing
    <3> QED BY <3>2, <3>3
  <2> QED BY <1>5, <2>1, <2>2
<1>8. CASE found.error = "NONE" /\ Tried # HardDisk
  <2>1. Guessed(CDFrameSize)
    BY <1>8 DEF GuessFromTag
  <2>2. tries \in 1 .. 5 /\ FirstWith(CDTags[tries]) # {}
    BY <1>1, <1>3, <1>8
  <2>3. 1 \in 1 .. tries
    BY <2>2
  <2>4. DiskSizes = {}
    BY <1>2, <2>3 DEF SaysNothing
  <2> QED BY <1>6, <2>1, <2>2, <2>4, TagsAre
<1>9. CASE found.error = "NONE" /\ Tried = HardDisk
  <2> DEFINE sizes == container.entries[found.offset].parses
  <2>1. FirstWith(HardDisk) = {found.offset}
    BY <1>1, <1>9
  <2>2. DiskSizes = sizes
    BY <2>1 DEF DiskSizes
  <2>3. CASE sizes = {}
    <3>1. TryNext
      BY <1>9, <2>3 DEF GuessFromTag
    <3>2. SaysNothing(tries + 1)
      <4>1. tries + 1 = 1
        BY <1>3, <1>9
      <4> QED BY <2>2, <2>3, <4>1 DEF SaysNothing
    <3> QED BY <1>5, <3>1, <3>2
  <2>4. CASE sizes # {}
    <3>1. \E bytes \in sizes : Guessed(bytes)
      BY <1>9, <2>4 DEF GuessFromTag
    <3> QED BY <1>6, <2>2, <3>1
  <2> QED BY <2>3, <2>4
<1> QED BY <1>7, <1>8, <1>9

LEMMA GuessNothingKeepsUnits ==
  ASSUME ContainerIInv, UnitsSoFar, GuessNothing, AllIsRead
  PROVE  UnitsSoFar'
<1>1. tries = 6 /\ reading = "guess" /\ Guessed(HunkBytes(Raw))
  BY TagsAre DEF GuessNothing
<1>2. /\ reading' = "checks" /\ unitbytes' = HunkBytes(Raw) /\ container' = container
  BY <1>1 DEF Guessed, Go
<1>3. \A i \in 1 .. 6 : SaysNothing(i)
  BY <1>1 DEF UnitsSoFar
<1>4. DiskSizes = {}
  <2>1. 1 \in 1 .. 6
    OBVIOUS
  <2> QED BY <1>3, <2>1 DEF SaysNothing
<1>5. \A i \in 1 .. 5 : FirstWith(CDTags[i]) = {}
  <2>1. \A i \in 1 .. 5 : i + 1 \in 1 .. 6 /\ i + 1 # 1
    OBVIOUS
  <2>2. \A i \in 1 .. 5 : FirstWith(GuessTags[i + 1]) = {}
    BY <1>3, <2>1 DEF SaysNothing
  <2> QED BY <2>2, TagsAre
<1>6. UnitsFromTags'
  <2>1. Raw' = Raw /\ DiskSizes' = DiskSizes /\ \A tag : FirstWith(tag)' = FirstWith(tag)
    BY <1>2, TagsStay
  <2> QED BY <1>2, <1>4, <1>5, <2>1, TagsAre DEF UnitsFromTags
<1> QED BY <1>2, <1>6 DEF UnitsSoFar

LEMMA UnitsKeep ==
  ASSUME ContainerIInv, UnitsSoFar, [ContainerNext]_containervars
  PROVE  UnitsSoFar'
<1>0. faults \in Nat
  BY ShapeSays, ContainerAssumption DEF ContainerIInv
<1>1. CASE UNCHANGED containervars
  BY <1>1, UnitsAreNotTouched DEF containervars
<1>2. CASE ReadHeader
  BY <1>2, HeaderKeepsUnits
<1>3. CASE ReadStart \/ StartUnreadable
  <2>1. UNCHANGED <<container, tries, unitbytes>> /\ reading' \in {"header", "refused"}
    BY <1>3, Zenon DEF ReadStart, StartUnreadable, Refuse, Go
  <2>2. ReadFails \/ UNCHANGED faults
    BY <1>3, Zenon DEF ReadStart, StartUnreadable
  <2> QED BY <1>0, <2>1, <2>2, FaultsOnlyGrow, UnitsAreNotTouched
<1>4. CASE GuessFromFaux
  <2>1. container' = container /\ Raw.version < 3
    BY <1>4 DEF GuessFromFaux, Guessed, Go
  <2>2. Raw' = Raw /\ Raw.version \notin {3, 4}
    BY <2>1, FileStays
  <2> QED BY <2>2 DEF UnitsSoFar, AllIsRead
<1>5. CASE GuessUnreadable
  <2>1. faults' # 0
    BY <1>0, <1>5 DEF GuessUnreadable, ReadFails
  <2> QED BY <2>1 DEF UnitsSoFar, AllIsRead
<1>6. CASE GuessFromTag \/ GuessNothing
  <2>1. CASE AllIsRead
    BY <1>6, <2>1, GuessFromTagKeepsUnits, GuessNothingKeepsUnits
  <2>2. CASE ~AllIsRead
    <3>1. UNCHANGED <<container, faults>>
      BY <1>6 DEF GuessFromTag, GuessNothing, TryNext, Guessed, Go
    <3>2. ~AllIsRead'
      BY <2>2, <3>1, FileStays DEF AllIsRead
    <3> QED BY <3>2 DEF UnitsSoFar
  <2> QED BY <2>1, <2>2
<1>7. CASE CheckHeader \/ ReadChunk \/ MapNotAllocated \/ MapUnreadable \/ CheckMap
  <2>1. UNCHANGED <<container, tries, unitbytes>>
    BY <1>7 DEF CheckHeader, ReadChunk, MapNotAllocated, MapUnreadable, CheckMap, Refuse, Go
  <2>2. reading \in {"checks", "map"} /\ reading' \in {"map", "open", "refused"}
    BY <1>7 DEF CheckHeader, ReadChunk, MapNotAllocated, MapUnreadable, CheckMap, Refuse, Go
  <2>3. ReadFails \/ UNCHANGED faults
    BY <1>7, Zenon DEF CheckHeader, ReadChunk, MapNotAllocated, MapUnreadable, CheckMap
  <2> QED BY <1>0, <2>1, <2>2, <2>3, FaultsOnlyGrow, UnitsAreNotTouched
<1>8. CASE chd_get_metadata \/ MetadataUnreadable \/ UseEntry \/ EntryUnreadable
  <2>1. UNCHANGED <<container, tries, unitbytes>> /\ reading' = reading
    BY <1>8, Zenon DEF chd_get_metadata, MetadataUnreadable, UseEntry, EntryUnreadable,
       Answered, Called
  <2>2. ReadFails \/ UNCHANGED faults
    BY <1>8, Zenon DEF chd_get_metadata, MetadataUnreadable, UseEntry, EntryUnreadable
  <2> QED BY <1>0, <2>1, <2>2, FaultsOnlyGrow, UnitsAreNotTouched
<1> QED BY <1>1, <1>2, <1>3, <1>4, <1>5, <1>6, <1>7, <1>8, Zenon DEF ContainerNext

(* An open file has a coherent header, and the units of a file of version  *)
(* 3 or 4 are the sectors of its hard disk, CD frames, or its hunks, as    *)
(* its metadata says when all of it can be read (header_guess_unitbytes).  *)
THEOREM OpenedFilesAreCoherent == ContainerSpec => []OpenedFileIsCoherent
<1>1. UnitsSoFar => UnitsAreTheMetadatas
  <2> SUFFICES ASSUME UnitsSoFar, Opened, AllIsRead PROVE UnitsAreTheMetadatas
    BY Zenon DEF UnitsAreTheMetadatas, AllIsRead
  <2>1. UnitsFromTags
    BY DEF UnitsSoFar, Opened
  <2> QED BY <2>1, Zenon DEF UnitsFromTags, DiskSizes, UnitsAreTheMetadatas
<1>2. ContainerTypeOK /\ HeaderIsCoherent /\ UnitsAreTheMetadatas => OpenedFileIsCoherent
  BY DEF OpenedFileIsCoherent
<1>3. ContainerIInv /\ UnitsSoFar /\ [ContainerNext]_containervars => UnitsSoFar'
  BY UnitsKeep
<1> QED
  BY <1>1, <1>2, <1>3, UnitsStart, ContainerInvariant, HeadersAreCoherent, PTL DEF ContainerSpec
================================================================================
