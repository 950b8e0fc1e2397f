--------------------------- MODULE ReadAheadProofs ---------------------------
(***************************************************************************)
(* Proofs about module ReadAhead, for every file, hunk size, budget and    *)
(* map: its variables keep their types, the window never lies about the    *)
(* file, and the reader with its caches implements FileService.  The last  *)
(* part is about module Playback, the caller that plays a file through it. *)
(***************************************************************************)
EXTENDS Playback, TLAPS

Transfers == [at : Nat, len : Nat, ok : BOOLEAN]

Buffers == [0 .. (ra_capacity - 1) -> Byte \cup {Junk}]

(* The two facts about the window that support each other.                 *)
IInv == TypeOK /\ WindowFaithful

LEMMA ExtentIsNat == \A e \in Extent : e.offset \in Nat /\ e.size \in Nat \ {0}
BY SizesAssumption DEF Extent

(* Only an extent that wraps is taken for one it is not.                   *)
LEMMA HaveInNat ==
  ASSUME NEW e \in Extent, ~Wraps(e)
  PROVE  Have(e) <=> (e.offset >= ra_off /\ e.offset + e.size <= ra_off + ra_valid)
<1>1. e.offset + e.size \in 0 .. (U64 - 1)
  BY ExtentIsNat, SizesAssumption DEF Wraps
<1>2. (e.offset + e.size) % U64 = e.offset + e.size
  BY <1>1, SizesAssumption
<1> QED BY <1>2 DEF Have

LEMMA InFileDoesNotWrap == \A e \in Extent : InFile(e) => ~Wraps(e)
BY ExtentIsNat, SizesAssumption, FileAssumption DEF InFile, Wraps

-----------------------------------------------------------------------------
(* The operators the window is built from.                                 *)

(* The bytes kept across a refill are the tail of the window from the      *)
(* requested offset on.                                                    *)
LEMMA KeepBounds ==
  ASSUME TypeOK, NEW e \in Extent
  PROVE  /\ e.offset \in Nat /\ e.size \in Nat \ {0}
         /\ ra_off \in Nat /\ ra_capacity \in Nat
         /\ ra_valid \in Nat /\ ra_valid <= ra_capacity
         /\ Keep(e) \in Nat
         /\ Keep(e) <= ra_valid
         /\ Keep(e) <= ra_capacity
         /\ Keep(e) > 0 => e.offset >= ra_off /\ e.offset + Keep(e) = ra_off + ra_valid
BY ExtentIsNat DEF TypeOK, Keep

(* A refill asks for bytes that exist and fit behind the kept ones.        *)
LEMMA AvailBounds ==
  ASSUME TypeOK, NEW e \in Extent, CanRefill(e)
  PROVE  /\ Avail(e) \in Nat \ {0}
         /\ Keep(e) + Avail(e) <= ra_capacity
         /\ FillAt(e) \in Nat
         /\ FillAt(e) + Avail(e) <= FileSize
<1>1. /\ Keep(e) \in Nat
      /\ Keep(e) <= ra_capacity
  BY KeepBounds
<1>2. /\ ra_capacity \in Nat
      /\ e.offset \in Nat
      /\ FileSize \in Nat
  BY ExtentIsNat, FileAssumption DEF TypeOK
<1>3. FillAt(e) \in Nat
  BY <1>1, <1>2 DEF FillAt
<1>4. ra_capacity - Keep(e) > 0 /\ FileSize - FillAt(e) > 0
  BY <1>1, <1>2, <1>3 DEF CanRefill
<1>5. \/ Avail(e) = ra_capacity - Keep(e) /\ Avail(e) < FileSize - FillAt(e)
      \/ Avail(e) = FileSize - FillAt(e) /\ Avail(e) <= ra_capacity - Keep(e)
  BY <1>1, <1>2, <1>3 DEF Avail
<1>6. QED
  BY <1>1, <1>2, <1>3, <1>4, <1>5

(* Sliding keeps the buffer's shape and the kept bytes' values.            *)
LEMMA SlidFaithful ==
  ASSUME IInv, NEW e \in Extent
  PROVE  /\ Slid(e) \in Buffers
         /\ \A i \in 0 .. (Keep(e) - 1) : Slid(e)[i] = File[e.offset + i]
<1> USE KeepBounds
<1>0. TypeOK
  BY DEF IInv
<1>1. ASSUME NEW i \in 0 .. (ra_capacity - 1)
      PROVE  Slid(e)[i] \in Byte \cup {Junk}
  <2>1. CASE i < Keep(e)
    <3>1. e.offset - ra_off + i \in 0 .. (ra_capacity - 1)
      BY <1>0, <2>1
    <3>2. QED
      BY <2>1, <3>1 DEF IInv, TypeOK, Slid
  <2>2. CASE ~(i < Keep(e))
    BY <2>2 DEF IInv, TypeOK, Slid
  <2>3. QED
    BY <2>1, <2>2
<1>2. Slid(e) \in Buffers
  BY <1>1 DEF Slid, Buffers
<1>3. ASSUME NEW i \in 0 .. (Keep(e) - 1)
      PROVE  Slid(e)[i] = File[e.offset + i]
  <2>1. /\ i \in 0 .. (ra_capacity - 1)
        /\ i < Keep(e)
        /\ e.offset - ra_off + i \in 0 .. (ra_valid - 1)
        /\ ra_off + (e.offset - ra_off + i) = e.offset + i
    BY <1>0
  <2>2. Slid(e)[i] = ra_buf[e.offset - ra_off + i]
    BY <2>1 DEF Slid
  <2>3. QED
    BY <2>1, <2>2 DEF IInv, WindowFaithful
<1>4. QED
  BY <1>2, <1>3

(* A refill keeps the buffer's shape, whether or not it succeeds.          *)
LEMMA RefilledShape ==
  ASSUME IInv, NEW e \in Extent, CanRefill(e)
  PROVE  /\ Refilled(e) \in Buffers
         /\ Spoiled(e) \in Buffers
<1>0. TypeOK
  BY DEF IInv
<1>1. Slid(e) \in Buffers
  BY SlidFaithful
<1>2. ASSUME NEW i \in 0 .. (ra_capacity - 1),
             Keep(e) <= i, i < Keep(e) + Avail(e)
      PROVE  File[FillAt(e) + i - Keep(e)] \in Byte
  <2>1. FillAt(e) + i - Keep(e) \in 0 .. (FileSize - 1)
    BY <1>0, <1>2, KeepBounds, AvailBounds, FileAssumption
  <2>2. QED
    BY <2>1, FileAssumption
<1>3. Refilled(e) \in Buffers
  BY <1>1, <1>2 DEF Refilled, FilledCell, Buffers
<1>4. Spoiled(e) \in Buffers
  BY <1>1 DEF Spoiled, Buffers
<1>5. QED
  BY <1>3, <1>4

(* One that succeeds leaves the file's bytes from the requested offset on. *)
LEMMA RefilledFaithful ==
  ASSUME IInv, NEW e \in Extent, CanRefill(e),
         NEW i \in 0 .. (Keep(e) + Avail(e) - 1)
  PROVE  Refilled(e)[i] = File[e.offset + i]
<1>0. TypeOK
  BY DEF IInv
<1>1. /\ Keep(e) \in Nat /\ Avail(e) \in Nat /\ e.offset \in Nat
      /\ Keep(e) + Avail(e) <= ra_capacity /\ ra_capacity \in Nat
  BY <1>0, KeepBounds, AvailBounds
<1>2. i \in 0 .. (ra_capacity - 1)
  BY <1>1
<1>3. CASE Keep(e) <= i
  <2>1. /\ FillAt(e) + i - Keep(e) = e.offset + i
        /\ i < Keep(e) + Avail(e)
    BY <1>1, <1>3 DEF FillAt
  <2>2. QED
    BY <1>2, <1>3, <2>1 DEF Refilled, FilledCell
<1>4. CASE ~(Keep(e) <= i)
  <2>1. i \in 0 .. (Keep(e) - 1)
    BY <1>1, <1>4
  <2>2. Refilled(e)[i] = Slid(e)[i]
    BY <1>2, <1>4 DEF Refilled, FilledCell
  <2>3. QED
    BY <2>1, <2>2, SlidFaithful
<1>5. QED
  BY <1>3, <1>4

(* What a window with the file's bytes from `off` on hands out is the      *)
(* extent asked for.                                                       *)
LEMMA FromWindowIsSlice ==
  ASSUME NEW e \in Extent, NEW off \in Nat, NEW valid \in Nat,
         NEW buf \in Buffers, valid <= ra_capacity, ra_capacity \in Nat,
         \A i \in 0 .. (valid - 1) : buf[i] = File[off + i],
         e.offset >= off, e.offset + e.size <= off + valid
  PROVE  FromWindow(e, buf, off) = Slice(e)
<1>0. e.offset \in Nat /\ e.size \in Nat
  BY ExtentIsNat
<1>1. ASSUME NEW i \in 0 .. (e.size - 1)
      PROVE  Cell(buf, e.offset - off + i) = File[e.offset + i]
  <2>1. /\ e.offset - off + i \in 0 .. (valid - 1)
        /\ off + (e.offset - off + i) = e.offset + i
    BY <1>0
  <2>2. DOMAIN buf = 0 .. (ra_capacity - 1)
    BY DEF Buffers
  <2>3. e.offset - off + i \in DOMAIN buf
    BY <2>1, <2>2
  <2>4. QED
    BY <2>1, <2>3 DEF Cell
<1>2. QED
  BY <1>1 DEF FromWindow, Slice

-----------------------------------------------------------------------------
(* What one call answers.                                                  *)

(* The answer is the bytes asked for, or the last transfer of the call, of *)
(* exactly those bytes, failed.                                            *)
Outcome(e) ==
  \/ InFile(e) /\ reply' = Answer(e, Slice(e))
  \/ /\ reply' = Failure(e)
     /\ Len(io') > 0
     /\ io'[Len(io')] = Transfer(e.offset, e.size, FALSE)

(* The exception: an extent that wraps is taken for one in the window.     *)
Misled(e) ==
  /\ Wraps(e) /\ ra_capacity > 0
  /\ reply'.status = "ok" /\ reply'.request = e

LEMMA DirectReadOutcome ==
  ASSUME NEW e \in Extent, NEW before \in Seq(Transfers), DirectRead(e, before)
  PROVE  Outcome(e) /\ io' \in Seq(Transfers)
<1>1. PICK t \in SeekAndRead(e.offset, e.size) :
        /\ io' = Append(before, t)
        /\ reply' = IF t.ok THEN Answer(e, Slice(e)) ELSE Failure(e)
  BY DEF DirectRead
<1>2. /\ t \in {Transfer(e.offset, e.size, TRUE), Transfer(e.offset, e.size, FALSE)}
      /\ t.ok => InFile(e)
  BY <1>1 DEF SeekAndRead, InFile
<1>3. t \in Transfers
  <2>1. e.offset \in Nat /\ e.size \in Nat
    BY ExtentIsNat
  <2>2. \A ok \in BOOLEAN : Transfer(e.offset, e.size, ok) \in Transfers
    BY <2>1 DEF Transfer, Transfers
  <2>3. QED
    BY <1>2, <2>2
<1>4. /\ io' \in Seq(Transfers)
      /\ Len(io') > 0
      /\ io'[Len(io')] = t
  BY <1>1, <1>3
<1>5. CASE t = Transfer(e.offset, e.size, TRUE)
  <2>1. t.ok
    BY <1>5 DEF Transfer
  <2>2. QED
    BY <1>1, <1>2, <1>4, <2>1 DEF Outcome
<1>6. CASE t = Transfer(e.offset, e.size, FALSE)
  <2>1. ~t.ok
    BY <1>6 DEF Transfer
  <2>2. QED
    BY <1>1, <1>4, <1>6, <2>1 DEF Outcome
<1>7. QED
  BY <1>2, <1>5, <1>6

(* Serving from a window with the file's bytes from the requested offset   *)
(* on, or reading directly when it is too short.                           *)
LEMMA ServeOrReadOutcome ==
  ASSUME NEW e \in Extent, NEW valid \in Nat, NEW before \in Seq(Transfers),
         NEW buf \in Buffers, valid <= ra_capacity, ra_capacity \in Nat,
         \A i \in 0 .. (valid - 1) : buf[i] = File[e.offset + i],
         valid > 0 => e.offset + valid <= FileSize,
         ServeOrRead(e, buf, valid, before)
  PROVE  Outcome(e) /\ io' \in Seq(Transfers)
<1>1. CASE e.size <= valid
  <2>1. e.offset \in Nat /\ e.size \in Nat \ {0}
    BY ExtentIsNat
  <2>2. FromWindow(e, buf, e.offset) = Slice(e)
    <3>1. e.offset >= e.offset /\ e.offset + e.size <= e.offset + valid
      BY <1>1, <2>1
    <3>2. QED
      BY <2>1, <3>1, FromWindowIsSlice
  <2>3. InFile(e)
    BY <1>1, <2>1, FileAssumption DEF InFile
  <2>4. QED
    BY <1>1, <2>2, <2>3 DEF ServeOrRead, Outcome
<1>2. CASE ~(e.size <= valid)
  BY <1>2, DirectReadOutcome DEF ServeOrRead
<1>3. QED
  BY <1>1, <1>2

-----------------------------------------------------------------------------
(* The cases of the window: each keeps it well formed and faithful and     *)
(* answers correctly.                                                      *)

WindowOK ==
  /\ ra_capacity \in Nat
  /\ ra_buf \in Buffers
  /\ ra_off \in Nat
  /\ ra_valid \in 0 .. ra_capacity
  /\ ra_hits \in Nat
  /\ ra_misses \in Nat
  /\ WindowFaithful

LEMMA IInvWindowOK == IInv => WindowOK
BY DEF IInv, TypeOK, WindowOK, Buffers

LEMMA UnchangedWindowOK ==
  WindowOK /\ UNCHANGED window /\ ra_hits' \in Nat /\ ra_misses' \in Nat => WindowOK'
BY DEF WindowOK, WindowFaithful, Buffers, window

LEMMA HitAnswers ==
  ASSUME IInv, NEW e \in Extent, Have(e), ~Wraps(e)
  PROVE  InFile(e) /\ FromWindow(e, ra_buf, ra_off) = Slice(e)
<1>1. /\ e.offset \in Nat /\ e.size \in Nat \ {0}
      /\ ra_off \in Nat /\ ra_valid \in Nat
      /\ FileSize \in Nat
  BY KeepBounds, FileAssumption DEF IInv
<1>2. /\ e.offset >= ra_off
      /\ e.offset + e.size <= ra_off + ra_valid
  BY HaveInNat
<1>3. /\ ra_valid > 0 => ra_off + ra_valid <= FileSize
      /\ \A i \in 0 .. (ra_valid - 1) : ra_buf[i] = File[ra_off + i]
  BY DEF IInv, WindowFaithful
<1>4. InFile(e)
  BY <1>1, <1>2, <1>3 DEF InFile
<1>5. ra_buf \in Buffers /\ ra_valid <= ra_capacity /\ ra_capacity \in Nat
  BY DEF IInv, TypeOK, Buffers
<1>6. QED
  BY <1>1, <1>2, <1>3, <1>4, <1>5, FromWindowIsSlice

LEMMA RefillSucceedsOK ==
  ASSUME IInv, NEW e \in Extent, RefillSucceeds(e)
  PROVE  WindowOK' /\ Outcome(e) /\ io' \in Seq(Transfers)
<1>t. TypeOK /\ CanRefill(e)
  BY DEF IInv, RefillSucceeds
<1>0. /\ TypeOK /\ CanRefill(e)
      /\ e.offset \in Nat /\ ra_off \in Nat /\ ra_capacity \in Nat
      /\ Keep(e) \in Nat /\ Avail(e) \in Nat /\ FillAt(e) \in Nat
      /\ Keep(e) + Avail(e) <= ra_capacity
      /\ FillAt(e) + Avail(e) <= FileSize
  BY <1>t, KeepBounds, AvailBounds
<1> DEFINE buf == Refilled(e)
           held == Keep(e) + Avail(e)
<1>1. /\ ra_capacity' = ra_capacity
      /\ ra_buf' = buf
      /\ ra_off' = e.offset
      /\ ra_valid' = held
      /\ ra_hits' = ra_hits
      /\ ra_misses' = ra_misses + 1
  BY DEF RefillSucceeds
<1>a. /\ buf \in Buffers
      /\ \A i \in 0 .. (held - 1) : buf[i] = File[e.offset + i]
  BY <1>0, RefilledShape, RefilledFaithful
<1>b. held \in Nat /\ e.offset + held <= FileSize /\ held <= ra_capacity
  BY <1>0, FileAssumption DEF FillAt
<1> HIDE DEF buf, held
<1>2. /\ ra_buf' \in Buffers
      /\ \A i \in 0 .. (ra_valid' - 1) : ra_buf'[i] = File[e.offset + i]
  BY <1>1, <1>a
<1>3. e.offset + ra_valid' <= FileSize
  BY <1>1, <1>b
<1>4. ra_valid' \in 0 .. ra_capacity
  BY <1>0, <1>1, <1>b
<1>5. ra_hits' \in Nat /\ ra_misses' \in Nat
  BY <1>0, <1>1 DEF TypeOK
<1>6. WindowOK'
  <2>1. ra_buf' \in Buffers'
    BY <1>1, <1>2 DEF Buffers
  <2>2. WindowFaithful'
    <3>1. \A i \in 0 .. (ra_valid' - 1) : ra_buf'[i] = File[ra_off' + i]
      BY <1>1, <1>2
    <3>2. ra_off' + ra_valid' <= FileSize
      BY <1>1, <1>3
    <3>3. QED
      BY <3>1, <3>2 DEF WindowFaithful
  <2>3. /\ ra_capacity' \in Nat
        /\ ra_off' \in Nat
        /\ ra_valid' \in 0 .. ra_capacity'
    BY <1>0, <1>1, <1>4
  <2>4. QED
    BY <1>5, <2>1, <2>2, <2>3 DEF WindowOK
<1>7. <<Transfer(FillAt(e), Avail(e), TRUE)>> \in Seq(Transfers)
  BY <1>0 DEF Transfer, Transfers
<1>8. ServeOrRead(e, ra_buf', ra_valid', <<Transfer(FillAt(e), Avail(e), TRUE)>>)
  BY DEF RefillSucceeds
<1>9. ra_valid' \in Nat
  BY <1>1, <1>4
<1>10. Outcome(e) /\ io' \in Seq(Transfers)
  <2>1. /\ \A i \in 0 .. (ra_valid' - 1) : ra_buf'[i] = File[e.offset + i]
        /\ ra_valid' > 0 => e.offset + ra_valid' <= FileSize
    <3>1. \A i \in 0 .. (ra_valid' - 1) : ra_buf'[i] = File[e.offset + i]
      BY <1>1, <1>2
    <3>2. e.offset + ra_valid' <= FileSize
      BY <1>1, <1>3
    <3>3. QED
      BY <3>1, <3>2
  <2>2. ra_buf' \in Buffers /\ ra_valid' <= ra_capacity
    BY <1>1, <1>2, <1>4
  <2>3. QED
    BY <1>0, <1>7, <1>8, <1>9, <2>1, <2>2, ServeOrReadOutcome
<1>11. QED
  BY <1>6, <1>10

LEMMA RefillFailsOK ==
  ASSUME IInv, NEW e \in Extent, RefillFails(e)
  PROVE  WindowOK' /\ Outcome(e) /\ io' \in Seq(Transfers)
<1>t. TypeOK /\ CanRefill(e)
  BY DEF IInv, RefillFails
<1>0. /\ TypeOK /\ CanRefill(e)
      /\ e.offset \in Nat /\ ra_off \in Nat /\ ra_capacity \in Nat
      /\ Keep(e) \in Nat /\ Avail(e) \in Nat /\ FillAt(e) \in Nat
      /\ Keep(e) + Avail(e) <= ra_capacity
      /\ FillAt(e) + Avail(e) <= FileSize
  BY <1>t, KeepBounds, AvailBounds
<1>1. /\ ra_capacity' = ra_capacity
      /\ ra_buf' = Spoiled(e)
      /\ ra_off' = ra_off
      /\ ra_valid' = 0
      /\ ra_hits' = ra_hits
      /\ ra_misses' = ra_misses
  BY DEF RefillFails, ValidAfterFailure, stats
<1>2. Spoiled(e) \in Buffers
  BY <1>0, RefilledShape
<1>3. ra_hits' \in Nat /\ ra_misses' \in Nat
  BY <1>0, <1>1 DEF TypeOK
<1>4. WindowOK'
  <2>1. ra_buf' \in Buffers'
    BY <1>1, <1>2 DEF Buffers
  <2>2. WindowFaithful'
    BY <1>1 DEF WindowFaithful
  <2>3. /\ ra_capacity' \in Nat
        /\ ra_off' \in Nat
        /\ ra_valid' \in 0 .. ra_capacity'
    BY <1>0, <1>1
  <2>4. QED
    BY <1>3, <2>1, <2>2, <2>3 DEF WindowOK
<1>5. <<Transfer(FillAt(e), Avail(e), FALSE)>> \in Seq(Transfers)
  BY <1>0 DEF Transfer, Transfers
<1>6. Outcome(e) /\ io' \in Seq(Transfers)
  BY <1>5, DirectReadOutcome DEF RefillFails
<1>7. QED
  BY <1>4, <1>6

LEMMA WindowAtEndOK ==
  ASSUME IInv, NEW e \in Extent, WindowAtEnd(e)
  PROVE  WindowOK' /\ Outcome(e) /\ io' \in Seq(Transfers)
<1>t. TypeOK
  BY DEF IInv
<1>0. /\ TypeOK
      /\ e.offset \in Nat /\ ra_off \in Nat /\ ra_capacity \in Nat
      /\ ra_valid \in Nat /\ ra_valid <= ra_capacity
      /\ Keep(e) \in Nat /\ Keep(e) <= ra_valid
      /\ Keep(e) > 0 => e.offset + Keep(e) = ra_off + ra_valid
  BY <1>t, KeepBounds
<1>1. /\ ra_capacity' = ra_capacity
      /\ ra_buf' = Slid(e)
      /\ ra_off' = e.offset
      /\ ra_valid' = Keep(e)
      /\ ra_hits' = ra_hits
      /\ ra_misses' = ra_misses
  BY DEF WindowAtEnd, stats
<1>2. /\ Slid(e) \in Buffers
      /\ \A i \in 0 .. (Keep(e) - 1) : Slid(e)[i] = File[e.offset + i]
  BY SlidFaithful
<1>3. Keep(e) > 0 => e.offset + Keep(e) <= FileSize
  <2>1. ra_valid > 0 => ra_off + ra_valid <= FileSize
    BY DEF IInv, WindowFaithful
  <2>2. QED
    BY <1>0, <2>1, FileAssumption
<1>4. Keep(e) \in 0 .. ra_capacity
  BY <1>0
<1>5. ra_hits' \in Nat /\ ra_misses' \in Nat
  BY <1>0, <1>1 DEF TypeOK
<1>6. WindowOK'
  <2>1. ra_buf' \in Buffers'
    BY <1>1, <1>2 DEF Buffers
  <2>2. WindowFaithful'
    BY <1>1, <1>2, <1>3 DEF WindowFaithful
  <2>3. /\ ra_capacity' \in Nat
        /\ ra_off' \in Nat
        /\ ra_valid' \in 0 .. ra_capacity'
    BY <1>0, <1>1, <1>4
  <2>4. QED
    BY <1>5, <2>1, <2>2, <2>3 DEF WindowOK
<1>7. << >> \in Seq(Transfers)
  OBVIOUS
<1>8. ServeOrRead(e, ra_buf', ra_valid', << >>)
  BY DEF WindowAtEnd
<1>9. ra_valid' \in Nat
  BY <1>1, <1>4
<1>10. Outcome(e) /\ io' \in Seq(Transfers)
  <2>1. /\ \A i \in 0 .. (ra_valid' - 1) : ra_buf'[i] = File[e.offset + i]
        /\ ra_valid' > 0 => e.offset + ra_valid' <= FileSize
    BY <1>1, <1>2, <1>3
  <2>2. ra_buf' \in Buffers /\ ra_valid' <= ra_capacity
    BY <1>1, <1>2, <1>4
  <2>3. QED
    BY <1>0, <1>7, <1>8, <1>9, <2>1, <2>2, ServeOrReadOutcome
<1>11. QED
  BY <1>6, <1>10

LEMMA ThroughWindowOK ==
  ASSUME IInv, NEW e \in Extent, ThroughWindow(e)
  PROVE  WindowOK' /\ (Outcome(e) \/ Misled(e)) /\ io' \in Seq(Transfers)
<1>0. /\ WindowOK
      /\ ra_hits \in Nat /\ ra_misses \in Nat
      /\ << >> \in Seq(Transfers)
  BY IInvWindowOK DEF IInv, TypeOK
<1>1. CASE WindowHit(e)
  <2>1. WindowOK'
    BY <1>0, <1>1, UnchangedWindowOK DEF WindowHit
  <2>2. ~Wraps(e) => InFile(e) /\ reply' = Answer(e, Slice(e))
    BY <1>1, HitAnswers DEF WindowHit
  <2>3. Wraps(e) => Misled(e)
    BY <1>1 DEF WindowHit, WindowApplies, Misled, Answer
  <2>4. io' \in Seq(Transfers)
    BY <1>0, <1>1 DEF WindowHit
  <2>5. QED
    BY <2>1, <2>2, <2>3, <2>4 DEF Outcome
<1>2. CASE BackwardMiss(e)
  <2>1. WindowOK'
    BY <1>0, <1>2, UnchangedWindowOK DEF BackwardMiss
  <2>2. QED
    BY <1>0, <1>2, <2>1, DirectReadOutcome DEF BackwardMiss
<1>3. CASE RefillSucceeds(e)
  BY <1>3, RefillSucceedsOK
<1>4. CASE RefillFails(e)
  BY <1>4, RefillFailsOK
<1>5. CASE WindowAtEnd(e)
  BY <1>5, WindowAtEndOK
<1>6. CASE NoWindow(e)
  <2>1. WindowOK'
    BY <1>0, <1>6, UnchangedWindowOK DEF NoWindow, stats
  <2>2. QED
    BY <1>0, <1>6, <2>1, DirectReadOutcome DEF NoWindow
<1>7. QED
  BY <1>1, <1>2, <1>3, <1>4, <1>5, <1>6 DEF ThroughWindow

-----------------------------------------------------------------------------
(* The readers.                                                            *)

(* The answer is the bytes asked for, or there is a reason for the error.  *)
Served(e) ==
  \/ InFile(e) /\ reply' = Answer(e, Slice(e))
  \/ /\ reply' = Failure(e)
     /\ Faulty' \/ ~InFile(e) \/ e.size > HunkBytes

Answered(e) == Served(e) \/ (~file_cache /\ Misled(e))

CallOK(e) ==
  /\ WindowOK'
  /\ Answered(e)
  /\ io' \in Seq(Transfers)
  /\ compressed_capacity' \in Nat
  /\ oom' \in BOOLEAN

LEMMA OutcomeAnswers ==
  ASSUME NEW e \in Extent, Outcome(e), io' \in Seq(Transfers)
  PROVE  Served(e)
<1>1. CASE InFile(e) /\ reply' = Answer(e, Slice(e))
  BY <1>1 DEF Served
<1>2. CASE /\ reply' = Failure(e)
           /\ Len(io') > 0
           /\ io'[Len(io')] = Transfer(e.offset, e.size, FALSE)
  <2>1. CASE InFile(e)
    <3>1. Len(io') \in 1 .. Len(io')
      BY <1>2
    <3>2. /\ ~io'[Len(io')].ok
          /\ io'[Len(io')].at + io'[Len(io')].len <= FileSize
      BY <1>2, <2>1 DEF Transfer, InFile
    <3>3. Faulty'
      BY <3>1, <3>2 DEF Faulty
    <3>4. QED
      BY <1>2, <3>3 DEF Served
  <2>2. CASE ~InFile(e)
    BY <1>2, <2>2 DEF Served
  <2>3. QED
    BY <2>1, <2>2
<1>3. QED
  BY <1>1, <1>2 DEF Outcome

LEMMA PrecachedOK ==
  ASSUME IInv, NEW e \in Extent, ReadPrecached(e)
  PROVE  CallOK(e)
<1>1. /\ UNCHANGED <<compressed_capacity, window, stats>>
      /\ io' = << >>
      /\ oom' = FALSE
      /\ \/ InFile(e) /\ reply' = Answer(e, Slice(e))
         \/ ~InFile(e) /\ reply' = Failure(e)
  BY DEF ReadPrecached, Refuse
<1>2. ra_hits' \in Nat /\ ra_misses' \in Nat /\ compressed_capacity' \in Nat
  BY <1>1 DEF IInv, TypeOK, stats
<1>3. WindowOK'
  BY <1>1, <1>2, IInvWindowOK, UnchangedWindowOK
<1>4. io' \in Seq(Transfers)
  BY <1>1
<1>5. Answered(e)
  BY <1>1 DEF Answered, Served
<1>6. oom' \in BOOLEAN
  BY <1>1
<1>7. QED
  BY <1>2, <1>3, <1>4, <1>5, <1>6 DEF CallOK

LEMMA RefusedOK ==
  ASSUME IInv, NEW e \in Extent, Refuse(e), oom' \in BOOLEAN,
         oom' \/ e.size > HunkBytes
  PROVE  CallOK(e)
<1>1. /\ UNCHANGED <<compressed_capacity, window, stats>>
      /\ io' = << >>
      /\ reply' = Failure(e)
  BY DEF Refuse
<1>2. ra_hits' \in Nat /\ ra_misses' \in Nat /\ compressed_capacity' \in Nat
  BY <1>1 DEF IInv, TypeOK, stats
<1>3. WindowOK'
  BY <1>1, <1>2, IInvWindowOK, UnchangedWindowOK
<1>4. io' \in Seq(Transfers)
  BY <1>1
<1>5. Answered(e)
  <2>1. oom' => Faulty'
    BY DEF Faulty
  <2>2. QED
    BY <1>1, <2>1 DEF Answered, Served
<1>6. QED
  BY <1>2, <1>3, <1>4, <1>5 DEF CallOK

LEMMA CompressedOK ==
  ASSUME IInv, NEW e \in Extent, hunk_read_compressed(e)
  PROVE  CallOK(e)
<1>1. CASE ReadPrecached(e)
  BY <1>1, PrecachedOK
<1>2. CASE RejectOversized(e)
  <2>1. Refuse(e) /\ oom' \in BOOLEAN /\ e.size > HunkBytes
    BY <1>2 DEF RejectOversized, Oversized
  <2>2. QED
    BY <2>1, RefusedOK
<1>3. CASE ScratchGrowthFails(e)
  <2>1. Refuse(e) /\ oom' = TRUE
    BY <1>3 DEF ScratchGrowthFails
  <2>2. QED
    BY <2>1, RefusedOK
<1>4. CASE ReadIntoScratch(e)
  <2>1. compressed_capacity' \in Nat
    BY <1>4, ExtentIsNat DEF ReadIntoScratch, GrownScratch, IInv, TypeOK
  <2>2. /\ ThroughWindow(e)
        /\ oom' \in BOOLEAN
    BY <1>4 DEF ReadIntoScratch
  <2>3. WindowOK' /\ (Outcome(e) \/ Misled(e)) /\ io' \in Seq(Transfers)
    BY <2>2, ThroughWindowOK
  <2>4. Answered(e)
    BY <1>4, <2>3, OutcomeAnswers DEF Answered, ReadIntoScratch
  <2>5. QED
    BY <2>1, <2>2, <2>3, <2>4 DEF CallOK
<1>5. QED
  BY <1>1, <1>2, <1>3, <1>4 DEF hunk_read_compressed

LEMMA UncompressedOK ==
  ASSUME IInv, NEW e \in Extent, hunk_read_uncompressed(e)
  PROVE  CallOK(e)
<1>0. /\ WindowOK
      /\ ra_hits \in Nat /\ ra_misses \in Nat /\ compressed_capacity \in Nat
      /\ << >> \in Seq(Transfers)
  BY IInvWindowOK DEF IInv, TypeOK
<1>1. CASE ReadPrecached(e)
  BY <1>1, PrecachedOK
<1>2. ASSUME ConsumeWindow(e) \/ BypassWindow(e), oom' = FALSE, ~file_cache,
             UNCHANGED <<compressed_capacity, window>>
      PROVE  CallOK(e)
  <2>1. ra_hits' \in Nat /\ ra_misses' \in Nat
    BY <1>0, <1>2 DEF ConsumeWindow, BypassWindow, stats
  <2>2. WindowOK'
    BY <1>0, <1>2, <2>1, UnchangedWindowOK
  <2>3. (Outcome(e) \/ Misled(e)) /\ io' \in Seq(Transfers)
    <3>1. CASE ConsumeWindow(e)
      <4>1. ~Wraps(e) => InFile(e) /\ reply' = Answer(e, Slice(e))
        BY <3>1, HitAnswers DEF ConsumeWindow
      <4>2. Wraps(e) => Misled(e)
        BY <3>1 DEF ConsumeWindow, Misled, Answer
      <4>3. QED
        BY <1>0, <3>1, <4>1, <4>2 DEF Outcome, ConsumeWindow
    <3>2. CASE BypassWindow(e)
      BY <1>0, <3>2, DirectReadOutcome DEF BypassWindow
    <3>3. QED
      BY <1>2, <3>1, <3>2
  <2>4. Answered(e)
    BY <1>2, <2>3, OutcomeAnswers DEF Answered
  <2>5. QED
    BY <1>0, <1>2, <2>2, <2>3, <2>4 DEF CallOK
<1>3. QED
  BY <1>1, <1>2 DEF hunk_read_uncompressed

LEMMA RawOK ==
  ASSUME IInv, NEW e \in Extent, read_raw_hunk(e)
  PROVE  CallOK(e) /\ Served(e)
<1>0. /\ WindowOK
      /\ compressed_capacity \in Nat
      /\ << >> \in Seq(Transfers)
  BY IInvWindowOK DEF IInv, TypeOK
<1>1. /\ DirectRead(e, << >>)
      /\ oom' \in BOOLEAN
      /\ UNCHANGED <<compressed_capacity, window, stats>>
  BY DEF read_raw_hunk
<1>2. ra_hits' \in Nat /\ ra_misses' \in Nat
  BY <1>1 DEF stats, IInv, TypeOK
<1>3. WindowOK'
  BY <1>0, <1>1, <1>2, UnchangedWindowOK
<1>4. Outcome(e) /\ io' \in Seq(Transfers)
  BY <1>0, <1>1, DirectReadOutcome
<1>5. Served(e)
  BY <1>4, OutcomeAnswers
<1>6. QED
  BY <1>0, <1>1, <1>3, <1>4, <1>5 DEF CallOK, Answered

-----------------------------------------------------------------------------
(* The steps of the specification.                                         *)

LEMMA InitEstablishes == Init => IInv
<1> SUFFICES ASSUME Init PROVE IInv
  OBVIOUS
<1>1. /\ file_cache = FALSE /\ oom = FALSE
      /\ ra_buf = << >> /\ ra_capacity = 0 /\ ra_off = 0 /\ ra_valid = 0
      /\ ra_hits = 0 /\ ra_misses = 0 /\ calls = 0
      /\ io = << >>
      /\ reply = NoReply
  BY DEF Init
<1>2. compressed_capacity \in Nat
  BY SizesAssumption DEF Init
<1>3. ra_buf \in [0 .. (ra_capacity - 1) -> Byte \cup {Junk}]
  <2>1. 0 .. (ra_capacity - 1) = {}
    BY <1>1
  <2>2. << >> \in [{} -> Byte \cup {Junk}]
    OBVIOUS
  <2>3. QED
    BY <1>1, <2>1, <2>2
<1>4. reply.status \in {"none", "ok", "error"}
  BY <1>1 DEF NoReply
<1>5. io \in Seq([at : Nat, len : Nat, ok : BOOLEAN])
  BY <1>1
<1>6. /\ file_cache \in BOOLEAN /\ oom \in BOOLEAN
      /\ ra_capacity \in Nat /\ ra_off \in Nat /\ ra_valid \in 0 .. ra_capacity
      /\ ra_hits \in Nat /\ ra_misses \in Nat /\ calls \in Nat
  <2>1. file_cache \in BOOLEAN /\ oom \in BOOLEAN
    BY DEF Init
  <2>2. /\ ra_capacity = 0 /\ ra_off = 0 /\ ra_valid = 0
        /\ ra_hits = 0 /\ ra_misses = 0 /\ calls = 0
    BY <1>1
  <2>3. /\ ra_capacity \in Nat /\ ra_off \in Nat /\ ra_valid \in 0 .. ra_capacity
        /\ ra_hits \in Nat /\ ra_misses \in Nat /\ calls \in Nat
    BY <2>2
  <2>4. QED
    BY <2>1, <2>3
<1>7. TypeOK
  BY <1>2, <1>3, <1>4, <1>5, <1>6 DEF TypeOK
<1>8. WindowFaithful
  BY <1>1 DEF WindowFaithful
<1>9. QED
  BY <1>7, <1>8 DEF IInv

(* The extents a read can ask for.                                         *)
LEMMA ReadIsOK ==
  ASSUME IInv, ReadHunk
  PROVE  \E e \in Compressed \cup Uncompressed \cup Raw :
           /\ e \in Extent /\ CallOK(e)
           /\ e \in Compressed \cup Uncompressed \/ Served(e)
<1>1. CASE \E e \in Compressed : hunk_read_compressed(e)
  BY <1>1, CompressedOK, MapAssumption
<1>2. CASE \E e \in Uncompressed : hunk_read_uncompressed(e)
  BY <1>2, UncompressedOK, MapAssumption
<1>3. CASE \E e \in Raw : read_raw_hunk(e)
  BY <1>3, RawOK, MapAssumption
<1>4. QED
  BY <1>1, <1>2, <1>3 DEF ReadHunk

(* A call that is in order keeps the invariant.                            *)
LEMMA CallIsSound ==
  ASSUME IInv, NEW e, CallOK(e), calls' = calls + 1, UNCHANGED file_cache
  PROVE  IInv'
<1>1. /\ WindowOK'
      /\ io' \in Seq(Transfers)
      /\ compressed_capacity' \in Nat
      /\ oom' \in BOOLEAN
      /\ Answered(e)
  BY DEF CallOK
<1>2. reply'.status \in {"none", "ok", "error"}
  BY <1>1 DEF Answered, Served, Answer, Failure, Misled
<1>3. calls' \in Nat /\ file_cache' \in BOOLEAN
  BY DEF IInv, TypeOK
<1>4. TypeOK'
  BY <1>1, <1>2, <1>3 DEF TypeOK, WindowOK, Buffers, Transfers
<1>5. QED
  BY <1>1, <1>4 DEF IInv, WindowOK

LEMMA ReadPreserves == IInv /\ ReadHunk => IInv'
BY ReadIsOK, CallIsSound DEF ReadHunk

LEMMA BudgetPreserves ==
  ASSUME IInv, NEW bytes \in Budgets, chd_set_cache_budget(bytes)
  PROVE  IInv'
<1>1. /\ calls' = 0 /\ io' = << >>
      /\ UNCHANGED <<file_cache, compressed_capacity, reply>>
  BY DEF chd_set_cache_budget
<1>2. /\ ra_hits \in Nat /\ ra_misses \in Nat /\ compressed_capacity \in Nat
      /\ file_cache \in BOOLEAN
      /\ reply.status \in {"none", "ok", "error"}
  BY DEF IInv, TypeOK
<1>3. io' \in Seq([at : Nat, len : Nat, ok : BOOLEAN])
  BY <1>1
<1>4. CASE DisableWindow(bytes) \/ WindowNotAllocated(bytes)
  <2>1. /\ ra_buf' = << >> /\ ra_capacity' = 0 /\ ra_off' = 0 /\ ra_valid' = 0
        /\ ra_hits' = ra_hits /\ ra_misses' = ra_misses
        /\ oom' \in BOOLEAN
    BY <1>4 DEF DisableWindow, WindowNotAllocated, WindowOff, stats
  <2>2. ra_buf' \in [0 .. (ra_capacity' - 1) -> Byte \cup {Junk}]
    <3>1. 0 .. (ra_capacity' - 1) = {}
      BY <2>1
    <3>2. << >> \in [{} -> Byte \cup {Junk}]
      OBVIOUS
    <3>3. QED
      BY <2>1, <3>1, <3>2
  <2>3. TypeOK'
    BY <1>1, <1>2, <1>3, <2>1, <2>2 DEF TypeOK
  <2>4. WindowFaithful'
    BY <2>1 DEF WindowFaithful
  <2>5. QED
    BY <2>3, <2>4 DEF IInv
<1>5. CASE AllocateWindow(bytes)
  <2>1. /\ ra_buf' = [i \in 0 .. (bytes - 1) |-> Junk]
        /\ ra_capacity' = bytes /\ ra_off' = 0 /\ ra_valid' = 0
        /\ ra_hits' = 0 /\ ra_misses' = 0
        /\ oom' \in BOOLEAN
    BY <1>5 DEF AllocateWindow, Restarted
  <2>2. bytes \in Nat
    BY SizesAssumption
  <2>3. ra_buf' \in [0 .. (ra_capacity' - 1) -> Byte \cup {Junk}]
    BY <2>1
  <2>4. TypeOK'
    BY <1>1, <1>2, <1>3, <2>1, <2>2, <2>3 DEF TypeOK
  <2>5. WindowFaithful'
    BY <2>1 DEF WindowFaithful
  <2>6. QED
    BY <2>4, <2>5 DEF IInv
<1>6. QED
  BY <1>4, <1>5 DEF chd_set_cache_budget

LEMMA PrecachePreserves ==
  ASSUME IInv, chd_precache
  PROVE  IInv'
<1>1. /\ UNCHANGED <<compressed_capacity, calls, reply>>
      /\ UNCHANGED window
      /\ UNCHANGED stats
  BY DEF chd_precache
<1>2. ASSUME NEW t \in SeekAndRead(0, FileSize)
      PROVE  t.ok \in BOOLEAN /\ <<t>> \in Seq([at : Nat, len : Nat, ok : BOOLEAN])
  <2>1. t = Transfer(0, FileSize, TRUE) \/ t = Transfer(0, FileSize, FALSE)
    BY <1>2 DEF SeekAndRead
  <2>2. \A ok \in BOOLEAN :
          /\ Transfer(0, FileSize, ok) \in [at : Nat, len : Nat, ok : BOOLEAN]
          /\ Transfer(0, FileSize, ok).ok = ok
    BY FileAssumption DEF Transfer
  <2>3. t \in [at : Nat, len : Nat, ok : BOOLEAN] /\ t.ok \in BOOLEAN
    BY <2>1, <2>2
  <2>4. QED
    BY <2>3
<1>3. /\ oom' \in BOOLEAN
      /\ file_cache' \in BOOLEAN
      /\ io' \in Seq([at : Nat, len : Nat, ok : BOOLEAN])
  <2>1. file_cache \in BOOLEAN
    BY DEF IInv, TypeOK
  <2>2. << >> \in Seq([at : Nat, len : Nat, ok : BOOLEAN])
    OBVIOUS
  <2>3. CASE /\ oom' = FALSE \/ oom' = TRUE
             /\ io' = << >>
             /\ UNCHANGED file_cache
    BY <2>1, <2>2, <2>3
  <2>4. CASE \E t \in SeekAndRead(0, FileSize) :
               oom' = FALSE /\ io' = <<t>> /\ file_cache' = t.ok
    BY <1>2, <2>4
  <2>5. QED
    BY <2>3, <2>4 DEF chd_precache
<1>4. WindowOK'
  BY <1>1, IInvWindowOK, UnchangedWindowOK DEF IInv, TypeOK, stats
<1>5. /\ compressed_capacity' \in Nat /\ calls' \in Nat
      /\ reply'.status \in {"none", "ok", "error"}
  BY <1>1 DEF IInv, TypeOK
<1>6. TypeOK'
  BY <1>3, <1>4, <1>5 DEF TypeOK, WindowOK, Buffers
<1>7. QED
  BY <1>4, <1>6 DEF IInv, WindowOK

LEMMA StepPreserves == IInv /\ [Next]_vars => IInv'
<1> SUFFICES ASSUME IInv, [Next]_vars PROVE IInv'
  OBVIOUS
<1>1. CASE ReadHunk
  BY <1>1, ReadPreserves
<1>2. CASE chd_precache
  BY <1>2, PrecachePreserves
<1>3. CASE \E bytes \in Budgets : chd_set_cache_budget(bytes)
  BY <1>3, BudgetPreserves
<1>4. CASE UNCHANGED vars
  BY <1>4 DEF IInv, TypeOK, WindowFaithful, vars
<1>5. QED
  BY <1>1, <1>2, <1>3, <1>4 DEF Next, Tune

-----------------------------------------------------------------------------
(* The theorems.                                                           *)

THEOREM Invariance == Spec => []IInv
<1>1. QED
  BY InitEstablishes, StepPreserves, PTL DEF Spec

(* Every variable keeps its shape, whatever the file, the map, the budgets *)
(* and the faults: in particular ra_valid never exceeds the window.        *)
THEOREM TypeCorrect == Spec => []TypeOK
<1>1. IInv => TypeOK
  BY DEF IInv
<1>2. QED
  BY <1>1, Invariance, PTL

(* The bytes the window claims to hold are the file's bytes.               *)
THEOREM WindowIsFaithful == Spec => []WindowFaithful
<1>1. IInv => WindowFaithful
  BY DEF IInv
<1>2. QED
  BY <1>1, Invariance, PTL

(* A read counts itself at most once, and leaves the size of the window.    *)
LEMMA ReadsCountOnce ==
  ASSUME IInv, ReadHunk
  PROVE  /\ ra_capacity' = ra_capacity
         /\ ra_hits' + ra_misses' <= ra_hits + ra_misses + 1
         /\ calls' = calls + 1
<1>1. ra_hits \in Nat /\ ra_misses \in Nat
  BY DEF IInv, TypeOK
<1> DEFINE Counts == /\ ra_capacity' = ra_capacity
                     /\ \/ ra_hits' = ra_hits /\ ra_misses' = ra_misses
                        \/ ra_hits' = ra_hits + 1 /\ ra_misses' = ra_misses
                        \/ ra_hits' = ra_hits /\ ra_misses' = ra_misses + 1
<1>2. ASSUME NEW e, ReadPrecached(e) \/ Refuse(e) PROVE Counts
  BY <1>2 DEF ReadPrecached, Refuse, window, stats
<1>3. ASSUME NEW e, ThroughWindow(e) PROVE Counts
  BY <1>3 DEF ThroughWindow, WindowHit, BackwardMiss, RefillSucceeds, RefillFails, WindowAtEnd,
    NoWindow, window, stats
<1>4. ASSUME NEW e, hunk_read_compressed(e) PROVE Counts
  <2> HIDE DEF Counts
  <2> QED BY <1>2, <1>3, <1>4
        DEF hunk_read_compressed, RejectOversized, ScratchGrowthFails, ReadIntoScratch
<1>5. ASSUME NEW e, hunk_read_uncompressed(e) PROVE Counts
  <2>1. CASE ReadPrecached(e)
    BY <2>1, <1>2
  <2>2. CASE (ConsumeWindow(e) \/ BypassWindow(e)) /\ UNCHANGED window
    BY <2>2 DEF ConsumeWindow, BypassWindow, window, stats
  <2> QED BY <1>5, <2>1, <2>2 DEF hunk_read_uncompressed
<1>6. ASSUME NEW e, read_raw_hunk(e) PROVE Counts
  BY <1>6 DEF read_raw_hunk, window, stats
<1>7. Counts
  <2> HIDE DEF Counts
  <2> QED BY <1>4, <1>5, <1>6 DEF ReadHunk
<1> QED BY <1>1, <1>7 DEF ReadHunk

LEMMA FaultyIsBoolean == Faulty \in BOOLEAN /\ Faulty' \in BOOLEAN
BY DEF Faulty

InUse == ra_capacity > 0 /\ ~file_cache

LEMMA InitImplements == Init => Service!Init
<1> SUFFICES ASSUME Init PROVE Service!Init
  OBVIOUS
<1>1. reply = NoReply /\ io = << >> /\ oom = FALSE /\ ra_capacity = 0
  BY DEF Init
<1>2. Faulty = FALSE /\ ~(ra_capacity > 0)
  BY <1>1 DEF Faulty
<1>3. QED
  BY <1>1, <1>2 DEF Service!Init, Service!NoReply, NoReply

LEMMA ReadImplements ==
  ASSUME IInv, ReadHunk
  PROVE  \E e \in Compressed \cup Uncompressed \cup Raw :
           Service!Serve(e) \/ Service!Fail(e) \/ Service!Misread(e)
<1>1. PICK e \in Compressed \cup Uncompressed \cup Raw :
        /\ CallOK(e)
        /\ e \in Compressed \cup Uncompressed \/ Served(e)
  BY ReadIsOK
<1>2. UNCHANGED InUse
  BY ReadsCountOnce DEF InUse, ReadHunk
<1>3. CASE InFile(e) /\ reply' = Answer(e, Slice(e))
  <2>1. Service!Serve(e)
    BY <1>2, <1>3, FaultyIsBoolean
    DEF Service!Serve, Service!InFile, Service!Answer, Service!Slice, InFile, Answer, Slice, InUse
  <2>2. QED
    BY <2>1
<1>4. CASE /\ reply' = Failure(e)
           /\ Faulty' \/ ~InFile(e) \/ e.size > HunkBytes
  <2>1. Service!Fail(e)
    BY <1>2, <1>4, FaultyIsBoolean
    DEF Service!Fail, Service!InFile, Service!Failure, InFile, Failure, InUse
  <2>2. QED
    BY <2>1
<1>5. CASE e \in Compressed \cup Uncompressed /\ ~file_cache /\ Misled(e)
  <2>1. Service!Misread(e)
    BY <1>2, <1>5, FaultyIsBoolean DEF Service!Misread, Misled, InUse
  <2>2. QED
    BY <2>1
<1>6. QED
  BY <1>1, <1>3, <1>4, <1>5 DEF CallOK, Answered, Served

LEMMA StepImplements ==
  IInv /\ [Next]_vars => [Service!Next]_<<reply, Faulty, InUse>>
<1> SUFFICES ASSUME IInv, [Next]_vars PROVE [Service!Next]_<<reply, Faulty, InUse>>
  OBVIOUS
<1>1. CASE ReadHunk
  BY <1>1, ReadImplements DEF Service!Next
<1>2. CASE Tune
  <2>1. UNCHANGED reply
    BY <1>2 DEF Tune, chd_precache, chd_set_cache_budget
  <2>2. QED
    BY <2>1, FaultyIsBoolean DEF Service!Next, Service!Tune
<1>3. CASE UNCHANGED vars
  BY <1>3 DEF vars, Faulty, InUse
<1>4. QED
  BY <1>1, <1>2, <1>3 DEF Next

(* The reader with its window, its whole-file cache and its scratch buffer *)
(* is FileService: caching never changes an answer, and no read fails      *)
(* without a fault of the medium or the allocator, an extent past the end  *)
(* of the file or a compressed hunk larger than a hunk.  One exception: a  *)
(* hunk of a legacy map whose offset and size wrap at 64 bits may be       *)
(* answered with other bytes while a window is in use.                     *)
THEOREM CachingIsTransparent == Spec => CachingTransparent
<1>1. QED
  BY InitImplements, StepImplements, Invariance, PTL
  DEF Spec, CachingTransparent, Service!Spec, InUse
-----------------------------------------------------------------------------
(* The counters and the scratch buffer.                                     *)

LEMMA StatsStay == IInv /\ StatsOfThisWindow /\ [Next]_vars => StatsOfThisWindow'
<1> SUFFICES ASSUME IInv, StatsOfThisWindow, [Next]_vars PROVE StatsOfThisWindow'
  OBVIOUS
<1>0. ra_hits \in Nat /\ ra_misses \in Nat /\ calls \in Nat
  BY DEF IInv, TypeOK
<1>1. CASE ReadHunk
  <2>1. ra_hits' \in Nat /\ ra_misses' \in Nat
    BY StepPreserves DEF IInv, TypeOK
  <2>2. /\ ra_capacity' = ra_capacity /\ calls' = calls + 1
        /\ ra_hits' + ra_misses' <= ra_hits + ra_misses + 1
    BY <1>1, ReadsCountOnce
  <2>3. ASSUME ra_capacity > 0 PROVE ra_hits' + ra_misses' <= calls'
    <3>1. ra_hits + ra_misses <= calls
      BY <2>3 DEF StatsOfThisWindow
    <3>2. \A a, b, c, x, y \in Nat : a + b <= c /\ x + y <= a + b + 1 => x + y <= c + 1
      OBVIOUS
    <3> QED BY <1>0, <2>1, <2>2, <3>1, <3>2
  <2> QED BY <2>2, <2>3 DEF StatsOfThisWindow
<1>2. CASE chd_precache
  BY <1>2 DEF chd_precache, window, stats, StatsOfThisWindow
<1>3. ASSUME NEW bytes \in Budgets, chd_set_cache_budget(bytes) PROVE StatsOfThisWindow'
  <2>1. calls' = 0
    BY <1>3 DEF chd_set_cache_budget
  <2>2. CASE DisableWindow(bytes) \/ WindowNotAllocated(bytes)
    BY <2>2 DEF DisableWindow, WindowNotAllocated, WindowOff, StatsOfThisWindow
  <2>3. CASE AllocateWindow(bytes)
    BY <2>1, <2>3 DEF AllocateWindow, Restarted, StatsOfThisWindow
  <2> QED BY <1>3, <2>2, <2>3 DEF chd_set_cache_budget
<1>4. CASE UNCHANGED vars
  BY <1>4 DEF vars, StatsOfThisWindow
<1> QED BY <1>1, <1>2, <1>3, <1>4 DEF Next, Tune

(* chd_get_cache_stats counts each read through the window there is at most *)
(* once, and none of an earlier window: StatsOfThisWindow.                  *)
THEOREM StatsAreOfThisWindow == Spec => []StatsOfThisWindow
<1>1. Init => StatsOfThisWindow
  BY DEF Init, StatsOfThisWindow
<1> QED BY <1>1, StatsStay, Invariance, PTL DEF Spec

(* The scratch buffer is a hunk from the start, unless it grows on demand.  *)
ScratchIsAHunk == LowRam \/ compressed_capacity = HunkBytes

LEMMA ScratchStep ==
  ASSUME IInv, ScratchIsAHunk, [Next]_vars
  PROVE  /\ ScratchIsAHunk'
         /\ compressed_capacity' >= compressed_capacity
         /\ \A e \in Compressed : ReadIntoScratch(e) => e.size <= compressed_capacity'
<1>1. compressed_capacity \in Nat /\ HunkBytes \in Nat
  BY SizesAssumption DEF IInv, TypeOK
<1>2. \A e \in Compressed : e.size \in Nat
  BY MapAssumption, ExtentIsNat
<1>3. ASSUME NEW e \in Compressed, ReadIntoScratch(e)
      PROVE  /\ compressed_capacity' = IF LowRam THEN GrownScratch(e) ELSE compressed_capacity
             /\ e.size <= compressed_capacity'
             /\ compressed_capacity' >= compressed_capacity
  <2>1. e.size <= HunkBytes /\ compressed_capacity' = IF LowRam THEN GrownScratch(e) ELSE compressed_capacity
    BY <1>1, <1>2, <1>3 DEF ReadIntoScratch, Oversized
  <2> QED BY <1>1, <1>2, <2>1 DEF GrownScratch, ScratchIsAHunk
<1>4. \/ \E e \in Compressed : ReadIntoScratch(e)
      \/ UNCHANGED compressed_capacity
  BY DEF Next, ReadHunk, Tune, vars, hunk_read_compressed, ReadPrecached, RejectOversized,
    ScratchGrowthFails, Refuse, hunk_read_uncompressed, read_raw_hunk, chd_precache,
    chd_set_cache_budget
<1> QED BY <1>1, <1>3, <1>4 DEF ScratchIsAHunk

(* The scratch buffer only grows, and never takes a hunk larger than it is, *)
(* with LOWRAM_TARGET and without: ScratchHoldsTheHunk.                     *)
THEOREM ScratchAlwaysHoldsTheHunk == Spec => ScratchHoldsTheHunk
<1> DEFINE Step == /\ compressed_capacity' >= compressed_capacity
                   /\ \A e \in Compressed :
                        (ReadIntoScratch(e) /\ reply'.status = "ok") => e.size <= compressed_capacity'
<1>1. Init => ScratchIsAHunk
  BY DEF Init, ScratchIsAHunk
<1>2. IInv /\ ScratchIsAHunk /\ [Next]_vars => ScratchIsAHunk' /\ [Step]_vars
  BY ScratchStep
<1> QED BY <1>1, <1>2, Invariance, PTL DEF Spec, ScratchHoldsTheHunk

(* What a read that fails has tried last.                                   *)
LEMMA FailuresAreDirect ==
  ASSUME IInv, ReadHunk, reply'.status = "error", io' # << >>
  PROVE  io'[Len(io')] = Transfer(reply'.request.offset, reply'.request.size, FALSE)
<1>1. ASSUME NEW e \in Extent, Outcome(e) \/ Misled(e)
      PROVE  io'[Len(io')] = Transfer(reply'.request.offset, reply'.request.size, FALSE)
  <2>1. Answer(e, Slice(e)).status = "ok" /\ Failure(e).request = e
    BY DEF Answer, Failure
  <2>2. reply' = Failure(e) /\ io'[Len(io')] = Transfer(e.offset, e.size, FALSE)
    BY <1>1, <2>1 DEF Outcome, Misled
  <2> QED BY <2>1, <2>2
<1>2. ASSUME NEW e \in Extent, hunk_read_compressed(e) PROVE Outcome(e) \/ Misled(e)
  <2>1. ReadIntoScratch(e)
    BY <1>2 DEF hunk_read_compressed, ReadPrecached, RejectOversized, ScratchGrowthFails, Refuse
  <2>2. ThroughWindow(e)
    BY <2>1 DEF ReadIntoScratch
  <2> QED BY <2>2, ThroughWindowOK
<1>3. << >> \in Seq(Transfers)
  OBVIOUS
<1>4. ASSUME NEW e \in Extent, hunk_read_uncompressed(e) PROVE Outcome(e)
  <2>1. BypassWindow(e)
    BY <1>4 DEF hunk_read_uncompressed, ReadPrecached, Refuse, ConsumeWindow
  <2> QED BY <2>1, <1>3, DirectReadOutcome DEF BypassWindow
<1>5. ASSUME NEW e \in Extent, read_raw_hunk(e) PROVE Outcome(e)
  BY <1>5, <1>3, DirectReadOutcome DEF read_raw_hunk
<1> QED BY <1>1, <1>2, <1>4, <1>5, MapAssumption DEF ReadHunk

LEMMA PrecachedNeedsNothing ==
  ASSUME IInv, file_cache, ReadHunk, reply'.request \notin Raw
  PROVE  io' = << >> /\ (InFile(reply'.request) => reply'.status = "ok")
<1>1. ASSUME NEW e, ReadPrecached(e)
      PROVE  io' = << >> /\ (InFile(reply'.request) => reply'.status = "ok")
  BY <1>1 DEF ReadPrecached, Refuse, Answer, Failure
<1>2. ASSUME NEW e \in Raw, read_raw_hunk(e) PROVE FALSE
  BY <1>2 DEF read_raw_hunk, DirectRead, Answer, Failure
<1>3. ASSUME NEW e, hunk_read_compressed(e) \/ hunk_read_uncompressed(e) PROVE ReadPrecached(e)
  BY <1>3 DEF hunk_read_compressed, hunk_read_uncompressed, RejectOversized, ScratchGrowthFails,
    ReadIntoScratch
<1> QED BY <1>1, <1>2, <1>3 DEF ReadHunk

(* A read that went to the medium fails only when its last transfer, of     *)
(* exactly the bytes asked for, failed; with the file in memory a read of a *)
(* compressed map inside the file does not fail: FailuresAreTheReadsOwn.    *)
THEOREM FailuresAreOfTheRead == Spec => FailuresAreTheReadsOwn
<1> DEFINE Absorbed == (ReadHunk /\ reply'.status = "error" /\ io' # <<>>)
              => io'[Len(io')] = Transfer(reply'.request.offset, reply'.request.size, FALSE)
           NoMedium == (file_cache /\ ReadHunk /\ reply'.request \notin Raw)
              => (io' = <<>> /\ (InFile(reply'.request) => reply'.status = "ok"))
<1>1. IInv => Absorbed /\ NoMedium
  BY FailuresAreDirect, PrecachedNeedsNothing
<1>2. IInv => [Absorbed]_vars /\ [NoMedium]_vars
  BY <1>1
<1> QED BY <1>2, Invariance, PTL DEF FailuresAreTheReadsOwn, RefillFailureAbsorbed,
      PrecachedReadsNeedNoMedium

-----------------------------------------------------------------------------
(* Playback.                                                               *)

Places == 0 .. (FileSize - 1)

EndOf(i) == layout[i].offset + layout[i].size

(* Where the stream stands: behind the hunk delivered last.                *)
Pos == IF next = 1 THEN 0 ELSE EndOf(next - 1)

PlayShape ==
  /\ ~file_cache
  /\ layout \in Layouts
  /\ pass \in Nat \ {0}
  /\ next \in 1 .. (Len(layout) + 1)
  /\ fetched \in [Places -> Nat]
  /\ ra_capacity > 0 => HunkBytes <= ra_capacity

(* What was delivered lies behind the stream.                              *)
DeliveredIsBehind == \A i \in 1 .. (next - 1) : EndOf(i) <= Pos

FreshStart == next = 1 => \A p \in Places : fetched[p] = 0

(* What was fetched ahead of the stream was fetched once and is still in   *)
(* the window, which begins no later than the stream stands.               *)
AheadIsInWindow ==
  \A p \in Places :
    (p >= Pos /\ fetched[p] >= 1) =>
      fetched[p] = 1 /\ ra_off <= Pos /\ p < ra_off + ra_valid

NoneTooOften == \A p \in Places : fetched[p] <= MostFetches(p)

(* In the first pass every byte of the window was fetched by the stream,   *)
(* never by an excursion: those find their hunk in the window or behind it.*)
FirstPass ==
  pass = 1 =>
    /\ ra_off <= Pos
    /\ \A p \in Places : (ra_off <= p /\ p < ra_off + ra_valid) => fetched[p] >= 1
    /\ \A p \in Places : Delivered(p) => fetched[p] >= 1
    /\ ra_capacity > 0 =>
         \A i \in 1 .. (next - 1) :
           layout[i].kind = "compressed" => EndOf(i) <= ra_off + ra_valid

PlayIInv ==
  /\ IInv
  /\ PlayShape
  /\ DeliveredIsBehind
  /\ FreshStart
  /\ AheadIsInWindow
  /\ NoneTooOften
  /\ FirstPass

(* The hunks of a layout are extents in the file.                          *)
LEMMA HunkIsInFile ==
  ASSUME PlayShape, NEW i \in 1 .. Len(layout)
  PROVE  /\ layout[i].kind \in {"compressed", "uncompressed"}
         /\ layout[i].offset \in Nat
         /\ layout[i].size \in Nat \ {0}
         /\ layout[i].size <= HunkBytes
         /\ EndOf(i) \in Nat
         /\ EndOf(i) <= FileSize
         /\ layout[i].offset = (IF i = 1 THEN 0 ELSE EndOf(i - 1))
         /\ ExtentOf(i) \in Extent
         /\ ExtentOf(i).offset = layout[i].offset
         /\ ExtentOf(i).size = layout[i].size
<1>1. layout \in Seq(Hunk)
  BY LayoutsAssumption DEF PlayShape
<1>2. layout[i] \in Hunk
  BY <1>1
<1>3. /\ layout[i].offset = (IF i = 1 THEN 0 ELSE EndOf(i - 1))
      /\ EndOf(i) <= FileSize
  BY LayoutsAssumption DEF PlayShape, EndOf
<1>4. /\ layout[i].kind \in {"compressed", "uncompressed"}
      /\ layout[i].offset \in Nat
      /\ layout[i].size \in Nat \ {0}
      /\ layout[i].size <= HunkBytes
      /\ EndOf(i) \in Nat
  BY <1>2, SizesAssumption DEF Hunk, EndOf
<1>5. /\ layout[i].offset + layout[i].size <= FileSize
      /\ FileSize \in Nat /\ HunkBytes \in Nat \ {0} /\ U64 \in Nat /\ FileSize + HunkBytes <= U64
  BY <1>3, FileAssumption, SizesAssumption DEF EndOf
<1>6. layout[i].offset \in 0 .. (U64 - 1) /\ layout[i].size \in 1 .. (U64 - 1)
  BY <1>4, <1>5
<1> QED BY <1>3, <1>4, <1>6 DEF ExtentOf, Extent

(* The stream stands inside the file.                                      *)
LEMMA PosInFile ==
  ASSUME PlayShape
  PROVE  /\ Pos \in Nat
         /\ next <= Len(layout) => layout[next].offset = Pos
<1>0. Len(layout) \in Nat
  BY LayoutsAssumption DEF PlayShape
<1>1. next \in Nat /\ next >= 1 /\ next <= Len(layout) + 1
  BY <1>0 DEF PlayShape
<1>2. next # 1 => next - 1 \in 1 .. Len(layout)
  BY <1>0, <1>1
<1>3. next <= Len(layout) => next \in 1 .. Len(layout)
  BY <1>0, <1>1
<1> QED BY <1>2, <1>3, HunkIsInFile DEF Pos

-----------------------------------------------------------------------------
(* What a successful read does to the window and to the medium.            *)

One(at, len) == << Transfer(at, len, TRUE) >>

Hit(e) ==
  /\ ra_capacity > 0
  /\ Have(e)
  /\ io' = << >>
  /\ UNCHANGED <<ra_off, ra_valid>>

Direct(e) ==
  /\ io' = One(e.offset, e.size)
  /\ UNCHANGED <<ra_off, ra_valid>>

Refill(e) ==
  /\ ra_capacity > 0
  /\ ~Have(e)
  /\ e.offset >= ra_off
  /\ io' = One(FillAt(e), Avail(e))
  /\ Avail(e) \in Nat
  /\ ra_off' = e.offset
  /\ ra_valid' = Keep(e) + Avail(e)
  /\ e.size <= Keep(e) + Avail(e)

LEMMA DirectSucceeds ==
  ASSUME NEW e, DirectRead(e, << >>), AllSucceed(io')
  PROVE  io' = One(e.offset, e.size)
<1>1. PICK t \in SeekAndRead(e.offset, e.size) : io' = Append(<< >>, t)
  BY DEF DirectRead
<1>2. io' = <<t>>
  BY <1>1
<1>3. Len(io') = 1 /\ io'[1] = t
  BY <1>2
<1>4. t.ok
  BY <1>3 DEF AllSucceed
<1>5. \/ t = Transfer(e.offset, e.size, TRUE)
      \/ t = Transfer(e.offset, e.size, FALSE)
  BY <1>1 DEF SeekAndRead
<1>6. ~Transfer(e.offset, e.size, FALSE).ok
  BY DEF Transfer
<1> QED BY <1>2, <1>4, <1>5, <1>6 DEF One

LEMMA FailedRefillShows ==
  ASSUME NEW e, RefillFails(e) PROVE ~AllSucceed(io')
<1> DEFINE f == Transfer(FillAt(e), Avail(e), FALSE)
<1>1. ~f.ok
  BY DEF Transfer
<1>2. PICK t : io' = Append(<<f>>, t)
  BY DEF RefillFails, DirectRead
<1> HIDE DEF f
<1>3. ASSUME NEW a, NEW b PROVE Len(Append(<<a>>, b)) = 2 /\ Append(<<a>>, b)[1] = a
  <2>1. <<a>> \in Seq({a, b}) /\ b \in {a, b} /\ Len(<<a>>) = 1 /\ <<a>>[1] = a
    OBVIOUS
  <2> QED BY <2>1
<1>4. 1 \in 1 .. Len(io') /\ io'[1] = f
  BY <1>2, <1>3
<1> QED BY <1>1, <1>4 DEF AllSucceed

(* A window is at least a hunk, so a refill reaches to the end of the hunk, *)
(* and there is always something left to fetch for a hunk not all there.    *)
LEMMA RefillReaches ==
  ASSUME IInv, NEW e \in Extent, InFile(e), ForwardMiss(e)
  PROVE  /\ CanRefill(e)
         /\ e.size <= Keep(e) + Avail(e)
         /\ Avail(e) \in Nat
<1>0. TypeOK
  BY DEF IInv
<1>1. /\ e.offset \in Nat /\ e.size \in Nat \ {0}
      /\ ra_off \in Nat /\ ra_capacity \in Nat /\ ra_valid \in Nat
      /\ Keep(e) \in Nat /\ Keep(e) <= ra_capacity
      /\ Keep(e) > 0 => e.offset + Keep(e) = ra_off + ra_valid
      /\ FileSize \in Nat
  BY <1>0, KeepBounds, FileAssumption
<1>2. /\ e.offset >= ra_off /\ e.size <= ra_capacity
      /\ ~(e.offset + e.size <= ra_off + ra_valid)
      /\ e.offset + e.size <= FileSize
  BY <1>1, InFileDoesNotWrap, HaveInNat DEF ForwardMiss, WindowApplies, Behind, InFile
<1>3. Keep(e) < e.size
  BY <1>1, <1>2
<1>4. FillAt(e) = e.offset + Keep(e)
  BY DEF FillAt
<1>5. ra_capacity - Keep(e) > 0 /\ FillAt(e) < FileSize
  BY <1>1, <1>2, <1>3, <1>4
<1>6. \/ Avail(e) = ra_capacity - Keep(e)
      \/ Avail(e) = FileSize - FillAt(e)
  BY DEF Avail
<1>7. Keep(e) + Avail(e) = ra_capacity \/ e.offset + (Keep(e) + Avail(e)) = FileSize
  BY <1>1, <1>4, <1>6
<1>8. e.size <= Keep(e) + Avail(e) /\ Avail(e) \in Nat
  BY <1>0, <1>1, <1>2, <1>5, <1>7, AvailBounds DEF CanRefill
<1> QED BY <1>5, <1>8 DEF CanRefill

(* A compressed hunk comes from the window, or by one transfer of itself,  *)
(* or by one refill that starts behind what the window holds of it.        *)
LEMMA CompressedEffect ==
  ASSUME IInv, ~file_cache, NEW e \in Extent, InFile(e), e.size <= HunkBytes,
         ra_capacity > 0 => HunkBytes <= ra_capacity,
         hunk_read_compressed(e), AllSucceed(io'), ~oom'
  PROVE  /\ ra_capacity' = ra_capacity
         /\ \/ Hit(e)
            \/ Direct(e) /\ (ra_capacity = 0 \/ e.offset < ra_off)
            \/ Refill(e)
<1>1. /\ ra_capacity \in Nat /\ ra_off \in Nat
      /\ e.size \in Nat \ {0} /\ e.offset \in Nat /\ HunkBytes \in Nat
  BY ExtentIsNat, SizesAssumption DEF IInv, TypeOK
<1>2. ThroughWindow(e)
  <2>1. ~ReadPrecached(e)
    BY DEF ReadPrecached
  <2>2. ~RejectOversized(e)
    BY <1>1 DEF RejectOversized, Oversized
  <2>3. ~ScratchGrowthFails(e)
    BY DEF ScratchGrowthFails
  <2> QED BY <2>1, <2>2, <2>3 DEF hunk_read_compressed, ReadIntoScratch
<1>3. CASE WindowHit(e)
  BY <1>3 DEF WindowHit, WindowApplies, Hit, window
<1>4. CASE BackwardMiss(e)
  BY <1>4, DirectSucceeds DEF BackwardMiss, Behind, Direct, window
<1>5. CASE RefillSucceeds(e)
  <2>1. /\ e.size <= Keep(e) + Avail(e)
        /\ Avail(e) \in Nat
        /\ ra_valid' = Keep(e) + Avail(e)
    BY <1>5, RefillReaches DEF RefillSucceeds
  <2>2. io' = One(FillAt(e), Avail(e))
    BY <1>5, <2>1 DEF RefillSucceeds, ServeOrRead, One
  <2> QED BY <1>5, <1>1, <2>1, <2>2
        DEF RefillSucceeds, ForwardMiss, WindowApplies, Behind, Refill
<1>6. CASE RefillFails(e)
  BY <1>6, FailedRefillShows
<1>7. CASE WindowAtEnd(e)
  BY <1>7, RefillReaches DEF WindowAtEnd
<1>8. CASE NoWindow(e)
  <2>1. ra_capacity = 0
    BY <1>1, <1>8 DEF NoWindow, WindowApplies
  <2> QED BY <1>8, <2>1, DirectSucceeds DEF NoWindow, Direct, window
<1> QED BY <1>2, <1>3, <1>4, <1>5, <1>6, <1>7, <1>8 DEF ThroughWindow

(* An uncompressed hunk comes from the window or by one transfer of itself.*)
LEMMA UncompressedEffect ==
  ASSUME ~file_cache, NEW e, hunk_read_uncompressed(e), AllSucceed(io')
  PROVE  /\ ra_capacity' = ra_capacity
         /\ Hit(e) \/ Direct(e)
<1>1. /\ ConsumeWindow(e) \/ BypassWindow(e)
      /\ UNCHANGED window
  BY DEF hunk_read_uncompressed, ReadPrecached
<1>2. CASE ConsumeWindow(e)
  BY <1>1, <1>2 DEF ConsumeWindow, Hit, window
<1>3. CASE BypassWindow(e)
  BY <1>1, <1>3, DirectSucceeds DEF BypassWindow, Direct, window
<1> QED BY <1>1, <1>2, <1>3

(* The bytes a call transferred.                                           *)
LEMMA ReachedByNone == \A p : io' = << >> => Reaching(io', p) = {}
BY DEF Reaching

LEMMA ReachedByOne ==
  ASSUME NEW at \in Nat, NEW len \in Nat, NEW p \in Nat, io' = One(at, len)
  PROVE  Reaching(io', p) # {} <=> (at <= p /\ p < at + len)
<1>1. ASSUME NEW t PROVE Len(<<t>>) = 1 /\ <<t>>[1] = t
  OBVIOUS
<1>2. Len(io') = 1 /\ io'[1] = Transfer(at, len, TRUE)
  BY <1>1 DEF One
<1>3. 1 .. Len(io') = {1}
  BY <1>2
<1>4. io'[1].at = at /\ io'[1].len = len
  BY <1>2 DEF Transfer
<1>5. Reaching(io', p) = {i \in {1} : at <= p /\ p < at + len}
  BY <1>3, <1>4 DEF Reaching
<1> QED BY <1>5

LEMMA ReadNthKeepsIInv ==
  ASSUME IInv, PlayShape, NEW i \in 1 .. Len(layout), ReadNth(i)
  PROVE  /\ IInv'
         /\ file_cache' = file_cache
         /\ ra_capacity' = ra_capacity
         /\ \/ Hit(ExtentOf(i))
            \/ /\ Direct(ExtentOf(i))
               /\ \/ layout[i].kind = "uncompressed"
                  \/ ra_capacity = 0
                  \/ layout[i].offset < ra_off
            \/ layout[i].kind = "compressed" /\ Refill(ExtentOf(i))
<1>1. /\ ExtentOf(i) \in Extent
      /\ ExtentOf(i).offset = layout[i].offset
      /\ InFile(ExtentOf(i))
      /\ ExtentOf(i).size <= HunkBytes
      /\ layout[i].kind \in {"compressed", "uncompressed"}
  BY HunkIsInFile DEF EndOf, InFile
<1>2. /\ ~file_cache /\ file_cache' = file_cache
      /\ calls' = calls + 1
      /\ AllSucceed(io') /\ ~oom'
      /\ ra_capacity > 0 => HunkBytes <= ra_capacity
  BY DEF PlayShape, ReadNth
<1>3. CASE layout[i].kind = "compressed"
  <2>1. hunk_read_compressed(ExtentOf(i))
    BY <1>3 DEF ReadNth
  <2> QED BY <1>1, <1>2, <1>3, <2>1, CompressedEffect, CompressedOK, CallIsSound
<1>4. CASE layout[i].kind = "uncompressed"
  <2>1. hunk_read_uncompressed(ExtentOf(i))
    BY <1>4 DEF ReadNth
  <2> QED BY <1>1, <1>2, <1>4, <2>1, UncompressedEffect, UncompressedOK, CallIsSound
<1> QED BY <1>1, <1>3, <1>4

-----------------------------------------------------------------------------
(* The steps of a playback.                                                *)

Fetched(p) == Reaching(io', p) # {}

LEMMA MostIsPositive == \A p : MostFetches(p) \in 1 .. 2
BY DEF MostFetches

(* The next hunk, by what it does to the window and to the counts.         *)
LEMMA PlayNextKeeps ==
  ASSUME PlayIInv, PlayNext
  PROVE  PlayIInv'
<1> DEFINE e == ExtentOf(next)
           end == EndOf(next)
<1>0. IInv /\ PlayShape /\ DeliveredIsBehind /\ AheadIsInWindow /\ NoneTooOften /\ FirstPass
  BY DEF PlayIInv
<1>1. Len(layout) \in Nat
  BY <1>0, LayoutsAssumption DEF PlayShape
<1>2. next \in 1 .. Len(layout) /\ next \in Nat /\ next >= 1
  BY <1>0, <1>1 DEF PlayShape, PlayNext
<1>3. /\ e \in Extent /\ e.offset = Pos /\ e.offset = layout[next].offset
      /\ e.size = layout[next].size
      /\ end = Pos + e.size /\ end <= FileSize /\ end \in Nat
      /\ Pos \in Nat /\ e.size \in Nat \ {0}
      /\ layout[next].kind \in {"compressed", "uncompressed"}
  BY <1>0, <1>2, HunkIsInFile, PosInFile DEF EndOf
<1>h. Have(e) <=> (e.offset >= ra_off /\ e.offset + e.size <= ra_off + ra_valid)
  <2>1. InFile(e)
    BY <1>3 DEF InFile
  <2> QED BY <1>3, <2>1, InFileDoesNotWrap, HaveInNat
<1>4. /\ next' = next + 1 /\ layout' = layout /\ pass' = pass
      /\ fetched' = [p \in DOMAIN fetched |-> IF Fetched(p) THEN fetched[p] + 1 ELSE fetched[p]]
      /\ ReadNth(next)
  BY DEF PlayNext, Fetched
<1>5. /\ IInv' /\ file_cache' = file_cache /\ ra_capacity' = ra_capacity
      /\ \/ Hit(e)
         \/ /\ Direct(e)
            /\ \/ layout[next].kind = "uncompressed"
               \/ ra_capacity = 0
               \/ e.offset < ra_off
         \/ layout[next].kind = "compressed" /\ Refill(e)
  BY <1>0, <1>2, <1>3, <1>4, ReadNthKeepsIInv
<1>6. Pos' = end
  BY <1>2, <1>4 DEF Pos, EndOf
<1> HIDE DEF e, end
<1>7. PlayShape'
  <2>1. fetched' \in [Places -> Nat]
    BY <1>0, <1>4 DEF PlayShape
  <2> QED BY <1>0, <1>1, <1>2, <1>4, <1>5, <2>1 DEF PlayShape
<1>8. DeliveredIsBehind'
  <2>1. ASSUME NEW i \in 1 .. next PROVE EndOf(i) <= end
    <3>1. CASE i = next
      BY <1>3, <3>1 DEF end, EndOf
    <3>2. CASE i # next
      <4>1. i \in 1 .. (next - 1) /\ i \in 1 .. Len(layout)
        BY <1>1, <1>2, <3>2
      <4>2. EndOf(i) <= Pos /\ EndOf(i) \in Nat
        BY <1>0, <4>1, HunkIsInFile DEF DeliveredIsBehind
      <4>3. \A a, b, c \in Nat : a <= b /\ b <= c => a <= c
        OBVIOUS
      <4>4. Pos <= end
        <5>1. \A a, b, c \in Nat : c = a + b => a <= c
          OBVIOUS
        <5>2. Pos \in Nat /\ end \in Nat /\ e.size \in Nat /\ end = Pos + e.size
          BY <1>3
        <5> QED BY <5>1, <5>2
      <4> QED BY <1>3, <4>2, <4>3, <4>4
    <3> QED BY <3>1, <3>2
  <2>2. \A i : EndOf(i)' = EndOf(i)
    BY <1>4 DEF EndOf
  <2>3. (next - 1)' = next
    BY <1>2, <1>4
  <2> QED BY <1>6, <2>1, <2>2, <2>3 DEF DeliveredIsBehind
<1>9. FreshStart'
  BY <1>2, <1>4 DEF FreshStart
<1>10. /\ ra_off \in Nat /\ ra_valid \in Nat /\ ra_capacity \in Nat
       /\ ra_capacity = 0 => ra_valid = 0
       /\ FileSize \in Nat
       /\ Keep(e) \in Nat
       /\ Keep(e) > 0 => e.offset >= ra_off /\ e.offset + Keep(e) = ra_off + ra_valid
       /\ Keep(e) = 0 => ~(e.offset >= ra_off /\ e.offset < ra_off + ra_valid)
  <2>1. TypeOK /\ FileSize \in Nat
    BY <1>0, FileAssumption DEF IInv
  <2>2. Keep(e) \in Nat /\ (Keep(e) > 0 => e.offset >= ra_off /\ e.offset + Keep(e) = ra_off + ra_valid)
    BY <1>3, <2>1, KeepBounds
  <2>3. ra_off \in Nat /\ ra_valid \in Nat /\ ra_capacity \in Nat /\ (ra_capacity = 0 => ra_valid = 0)
    BY <2>1 DEF TypeOK
  <2>4. e.offset \in Nat
    BY <1>3
  <2>5. Keep(e) = 0 => ~(e.offset >= ra_off /\ e.offset < ra_off + ra_valid)
    BY <2>3, <2>4 DEF Keep
  <2> QED BY <2>1, <2>2, <2>3, <2>5
<1>11. \A p \in Places : p \in Nat /\ p < FileSize /\ fetched[p] \in Nat
  BY <1>0, <1>10 DEF PlayShape, Places
<1>12. ASSUME NEW p \in Places
       PROVE  fetched'[p] = IF Fetched(p) THEN fetched[p] + 1 ELSE fetched[p]
  BY <1>0, <1>4 DEF PlayShape
<1>13. ASSUME NEW p \in Places, p >= Pos, fetched[p] >= 1
       PROVE  fetched[p] = 1 /\ ra_off <= Pos /\ p < ra_off + ra_valid
  BY <1>0, <1>13 DEF AheadIsInWindow
<1>14. ASSUME pass = 1
       PROVE  /\ ra_off <= Pos
              /\ \A p \in Places : (ra_off <= p /\ p < ra_off + ra_valid) => fetched[p] >= 1
              /\ \A p \in Places : Delivered(p) => fetched[p] >= 1
              /\ ra_capacity > 0 =>
                   \A i \in 1 .. (next - 1) :
                     layout[i].kind = "compressed" => EndOf(i) <= ra_off + ra_valid
  BY <1>0, <1>14 DEF FirstPass
<1>15. ASSUME NEW p PROVE Delivered(p)' <=> Delivered(p) \/ (Pos <= p /\ p < end)
  <2>1. (next - 1)' = next
    BY <1>2, <1>4
  <2>2. \A i : Holds(i, p)' <=> Holds(i, p)
    BY <1>4 DEF Holds
  <2>3. Delivered(p)' <=> \E i \in 1 .. next : Holds(i, p)
    BY <2>1, <2>2 DEF Delivered
  <2>4. Holds(next, p) <=> (Pos <= p /\ p < end)
    BY <1>3 DEF Holds, EndOf, end
  <2>5. 1 .. next = (1 .. (next - 1)) \cup {next}
    BY <1>2
  <2> QED BY <2>3, <2>4, <2>5 DEF Delivered
<1>16. ASSUME NEW p PROVE MostFetches(p)' = MostFetches(p)
  BY <1>4 DEF MostFetches, Holds
<1>17. Pos <= end
  <2>1. \A a, b, c \in Nat : c = a + b => a <= c
    OBVIOUS
  <2> QED BY <1>3, <2>1
<1>18. /\ \A i : EndOf(i)' = EndOf(i) /\ layout'[i].kind = layout[i].kind
       /\ (next - 1)' = next
  <2>1. \A i : EndOf(i)' = EndOf(i) /\ layout'[i].kind = layout[i].kind
    BY <1>4 DEF EndOf
  <2>2. (next - 1)' = next
    BY <1>2, <1>4
  <2> QED BY <2>1, <2>2
<1>19. Pos \in Nat /\ end \in Nat /\ ra_off \in Nat /\ ra_valid \in Nat
  BY <1>3, <1>10
<1>20. ASSUME \A p \in Places :
                (p >= end /\ fetched'[p] >= 1) =>
                  fetched'[p] = 1 /\ ra_off' <= end /\ p < ra_off' + ra_valid'
       PROVE  AheadIsInWindow'
  BY <1>6, <1>20 DEF AheadIsInWindow, Places
<1>21. ASSUME \A p \in Places : fetched'[p] <= MostFetches(p)
       PROVE  NoneTooOften'
  BY <1>16, <1>21 DEF NoneTooOften, Places
<1>22. ASSUME pass = 1 => ra_off' <= end,
              pass = 1 => \A p \in Places : (ra_off' <= p /\ p < ra_off' + ra_valid') => fetched'[p] >= 1,
              pass = 1 => \A p \in Places : Delivered(p) \/ (Pos <= p /\ p < end) => fetched'[p] >= 1,
              pass = 1 /\ ra_capacity > 0 =>
                \A i \in 1 .. next : layout[i].kind = "compressed" => EndOf(i) <= ra_off' + ra_valid'
       PROVE  FirstPass'
  <2>1. \A p \in Places : Delivered(p)' <=> Delivered(p) \/ (Pos <= p /\ p < end)
    BY <1>15
  <2> QED BY <1>4, <1>5, <1>6, <1>18, <1>22, <2>1 DEF FirstPass, Places
<1>23. IInv' /\ PlayShape' /\ DeliveredIsBehind' /\ FreshStart'
  BY <1>5, <1>7, <1>8, <1>9
<1>24. CASE Hit(e)
  <2>1. /\ ra_off' = ra_off /\ ra_valid' = ra_valid /\ io' = << >>
        /\ Pos >= ra_off /\ end <= ra_off + ra_valid
    BY <1>3, <1>h, <1>24 DEF Hit
  <2>2. \A p \in Places : fetched'[p] = fetched[p]
    BY <1>12, <2>1, ReachedByNone DEF Fetched
  <2>3. AheadIsInWindow'
    BY <1>19, <1>11, <1>13, <1>17, <1>20, <2>1, <2>2
  <2>4. NoneTooOften'
    BY <1>0, <1>21, <2>2 DEF NoneTooOften
  <2>5. ASSUME pass = 1 PROVE ra_off' <= end
    BY <1>19, <1>14, <1>17, <2>1, <2>5
  <2>6. ASSUME pass = 1, NEW p \in Places, Delivered(p) \/ (Pos <= p /\ p < end)
        PROVE  fetched'[p] >= 1
    <3>1. CASE Delivered(p)
      BY <1>14, <2>2, <2>6, <3>1
    <3>2. CASE Pos <= p /\ p < end
      <4>1. ra_off <= p /\ p < ra_off + ra_valid
        BY <1>19, <1>11, <2>1, <3>2
      <4> QED BY <1>14, <2>2, <2>6, <4>1
    <3> QED BY <2>6, <3>1, <3>2
  <2>7. ASSUME pass = 1, ra_capacity > 0, NEW i \in 1 .. next, layout[i].kind = "compressed"
        PROVE  EndOf(i) <= ra_off' + ra_valid'
    <3>1. CASE i = next
      BY <2>1, <3>1 DEF end, EndOf
    <3>2. CASE i # next
      <4>1. i \in 1 .. (next - 1)
        BY <1>2, <3>2
      <4> QED BY <1>14, <2>1, <2>7, <4>1
    <3> QED BY <3>1, <3>2
  <2>8. ASSUME pass = 1, NEW p \in Places, ra_off' <= p, p < ra_off' + ra_valid'
        PROVE  fetched'[p] >= 1
    BY <1>14, <2>1, <2>2, <2>8
  <2>9. FirstPass'
    BY <1>22, <2>5, <2>6, <2>7, <2>8
  <2> QED BY <1>23, <2>3, <2>4, <2>9 DEF PlayIInv
<1>25. CASE /\ Direct(e)
            /\ \/ layout[next].kind = "uncompressed"
               \/ ra_capacity = 0
               \/ e.offset < ra_off
  <2>1. ra_off' = ra_off /\ ra_valid' = ra_valid /\ io' = One(e.offset, e.size)
    BY <1>25 DEF Direct
  <2>2. ASSUME NEW p \in Places PROVE Fetched(p) <=> (Pos <= p /\ p < end)
    BY <1>3, <1>11, <2>1, ReachedByOne DEF Fetched
  <2>3. ASSUME NEW p \in Places
        PROVE  fetched'[p] = IF Pos <= p /\ p < end THEN fetched[p] + 1 ELSE fetched[p]
    BY <1>12, <2>2
  <2>4. AheadIsInWindow'
    BY <1>3, <1>10, <1>11, <1>13, <1>17, <1>20, <2>1, <2>3
  <2>5. ASSUME NEW p \in Places PROVE fetched'[p] <= MostFetches(p)
    <3>1. CASE ~(Pos <= p /\ p < end)
      BY <1>0, <2>3, <3>1 DEF NoneTooOften
    <3>2. CASE (Pos <= p /\ p < end) /\ fetched[p] = 0
      BY <2>3, <3>2, MostIsPositive
    <3>3. CASE (Pos <= p /\ p < end) /\ fetched[p] # 0
      <4>1. fetched[p] = 1 /\ ra_off <= Pos /\ p < ra_off + ra_valid
        BY <1>3, <1>11, <1>13, <3>3
      <4>2. ra_capacity # 0 /\ ~(e.offset < ra_off)
        BY <1>3, <1>10, <1>11, <3>3, <4>1
      <4>3. Holds(next, p) /\ layout[next].kind = "uncompressed"
        BY <1>3, <1>25, <3>3, <4>2 DEF Holds, EndOf, end
      <4>4. MostFetches(p) = 2
        BY <1>2, <4>3 DEF MostFetches
      <4> QED BY <2>3, <3>3, <4>1, <4>4
    <3> QED BY <3>1, <3>2, <3>3
  <2>6. NoneTooOften'
    BY <1>21, <2>5
  <2>7. ASSUME NEW p \in Places PROVE fetched[p] >= 1 => fetched'[p] >= 1
    BY <1>11, <2>3
  <2>8. ASSUME pass = 1, NEW p \in Places, Delivered(p) \/ (Pos <= p /\ p < end)
        PROVE  fetched'[p] >= 1
    <3>1. CASE Delivered(p)
      BY <1>14, <2>7, <2>8, <3>1
    <3>2. CASE Pos <= p /\ p < end
      BY <1>11, <2>3, <3>2
    <3> QED BY <2>8, <3>1, <3>2
  <2>9. ASSUME pass = 1, ra_capacity > 0, NEW i \in 1 .. next, layout[i].kind = "compressed"
        PROVE  EndOf(i) <= ra_off' + ra_valid'
    <3>1. i # next
      BY <1>3, <1>10, <1>14, <1>25, <2>9
    <3>2. i \in 1 .. (next - 1)
      BY <1>2, <3>1
    <3> QED BY <1>14, <2>1, <2>9, <3>2
  <2>10. ASSUME pass = 1 PROVE ra_off' <= end
    BY <1>19, <1>14, <1>17, <2>1, <2>10
  <2>11. ASSUME pass = 1, NEW p \in Places, ra_off' <= p, p < ra_off' + ra_valid'
         PROVE  fetched'[p] >= 1
    BY <1>14, <2>1, <2>7, <2>11
  <2>12. FirstPass'
    BY <1>22, <2>8, <2>9, <2>10, <2>11
  <2> QED BY <1>23, <2>4, <2>6, <2>12 DEF PlayIInv
<1>26. CASE layout[next].kind = "compressed" /\ Refill(e)
  <2> DEFINE held == Keep(e) + Avail(e)
  <2>1. /\ ra_off' = Pos /\ ra_valid' = held
        /\ io' = One(Pos + Keep(e), Avail(e))
        /\ Avail(e) \in Nat /\ held \in Nat
        /\ ra_off <= Pos
        /\ e.size <= held
    BY <1>3, <1>10, <1>26 DEF Refill, FillAt
  <2>2. end <= Pos + held
    <3>1. \A a, b, c \in Nat : b <= c => a + b <= a + c
      OBVIOUS
    <3>2. Pos \in Nat /\ e.size \in Nat /\ end = Pos + e.size
      BY <1>3
    <3> QED BY <2>1, <3>1, <3>2
  <2>3. ASSUME NEW p \in Places
        PROVE  Fetched(p) <=> (Pos + Keep(e) <= p /\ p < Pos + held)
    <3>1. Pos + Keep(e) \in Nat /\ (Pos + Keep(e)) + Avail(e) = Pos + held
      BY <1>3, <1>10, <2>1
    <3> QED BY <1>11, <2>1, <3>1, ReachedByOne DEF Fetched
  <2>4. ASSUME NEW p \in Places, Pos <= p
        PROVE  p < ra_off + ra_valid <=> p < Pos + Keep(e)
    BY <1>3, <1>10, <1>11, <2>1, <2>4
  <2> HIDE DEF held
  <2>5. ASSUME NEW p \in Places, Fetched(p) PROVE fetched[p] = 0 /\ fetched'[p] = 1
    <3>1. Pos <= p /\ ~(p < ra_off + ra_valid)
      BY <1>3, <1>10, <1>11, <2>3, <2>4, <2>5
    <3>2. fetched[p] = 0
      BY <1>11, <1>13, <3>1
    <3> QED BY <1>12, <2>5, <3>2
  <2>6. ASSUME NEW p \in Places, ~Fetched(p) PROVE fetched'[p] = fetched[p]
    BY <1>12, <2>6
  <2>7. ASSUME NEW p \in Places, p >= end, fetched'[p] >= 1
        PROVE  fetched'[p] = 1 /\ p < Pos + held
    <3>1. CASE Fetched(p)
      BY <2>3, <2>5, <3>1
    <3>2. CASE ~Fetched(p)
      <4>1. fetched[p] >= 1 /\ p >= Pos
        BY <1>3, <1>11, <1>17, <2>6, <2>7, <3>2
      <4>2. fetched[p] = 1 /\ p < Pos + Keep(e)
        BY <1>13, <2>4, <4>1
      <4>3. Pos + Keep(e) <= Pos + held
        BY <1>3, <1>10, <2>1 DEF held
      <4> QED BY <1>3, <1>10, <1>11, <2>1, <2>6, <3>2, <4>2, <4>3
    <3> QED BY <3>1, <3>2
  <2>8. AheadIsInWindow'
    BY <1>17, <1>20, <2>1, <2>7
  <2>9. ASSUME NEW p \in Places PROVE fetched'[p] <= MostFetches(p)
    <3>1. CASE Fetched(p)
      BY <2>5, <3>1, MostIsPositive
    <3>2. CASE ~Fetched(p)
      BY <1>0, <2>6, <3>2 DEF NoneTooOften
    <3> QED BY <3>1, <3>2
  <2>10. NoneTooOften'
    BY <1>21, <2>9
  <2>11. ASSUME NEW p \in Places, fetched[p] >= 1 PROVE fetched'[p] >= 1
    BY <2>5, <2>6, <2>11
  <2>12. ASSUME pass = 1, NEW p \in Places, Pos <= p, p < Pos + held
         PROVE  fetched'[p] >= 1
    <3>1. CASE Fetched(p)
      BY <2>5, <3>1
    <3>2. CASE ~Fetched(p)
      <4>1. p < Pos + Keep(e)
        BY <1>3, <1>10, <1>11, <2>3, <2>12, <3>2
      <4>2. ra_off <= p /\ p < ra_off + ra_valid
        BY <1>3, <1>10, <1>11, <2>1, <2>4, <2>12, <4>1
      <4>3. fetched[p] >= 1
        BY <1>14, <2>12, <4>2
      <4> QED BY <2>11, <4>3
    <3> QED BY <3>1, <3>2
  <2>13. ASSUME pass = 1, NEW p \in Places, Delivered(p) \/ (Pos <= p /\ p < end)
         PROVE  fetched'[p] >= 1
    <3>1. CASE Delivered(p)
      BY <1>14, <2>11, <2>13, <3>1
    <3>2. CASE Pos <= p /\ p < end
      <4>1. p < Pos + held
        BY <1>3, <1>11, <2>1, <2>2, <3>2
      <4> QED BY <2>12, <2>13, <3>2, <4>1
    <3> QED BY <2>13, <3>1, <3>2
  <2>14. ASSUME NEW i \in 1 .. next PROVE EndOf(i) <= Pos + held
    <3>1. CASE i = next
      BY <2>2, <3>1 DEF end, EndOf
    <3>2. CASE i # next
      <4>1. i \in 1 .. (next - 1) /\ i \in 1 .. Len(layout)
        BY <1>1, <1>2, <3>2
      <4>2. EndOf(i) <= Pos /\ EndOf(i) \in Nat
        BY <1>0, <4>1, HunkIsInFile DEF DeliveredIsBehind
      <4>3. \A a, b, c \in Nat : a <= b => a <= b + c
        OBVIOUS
      <4> QED BY <1>3, <2>1, <4>2, <4>3
    <3> QED BY <3>1, <3>2
  <2>15. FirstPass'
    <3>1. pass = 1 => \A p \in Places : (ra_off' <= p /\ p < ra_off' + ra_valid') => fetched'[p] >= 1
      BY <2>1, <2>12
    <3>2. pass = 1 => \A p \in Places : Delivered(p) \/ (Pos <= p /\ p < end) => fetched'[p] >= 1
      BY <2>13
    <3>3. \A i \in 1 .. next : EndOf(i) <= ra_off' + ra_valid'
      BY <2>1, <2>14
    <3> QED BY <1>17, <1>22, <2>1, <3>1, <3>2, <3>3
  <2> QED BY <1>23, <2>8, <2>10, <2>15 DEF PlayIInv
<1> QED BY <1>5, <1>24, <1>25, <1>26

(* An excursion never takes from the window what the stream fetched ahead, *)
(* and in the first pass it finds its hunk there or behind the window.     *)
LEMMA ExcursionKeeps ==
  ASSUME PlayIInv, NEW i \in 1 .. Len(layout), Excursion(i)
  PROVE  PlayIInv'
<1> DEFINE e == ExtentOf(i)
<1>0. IInv /\ PlayShape /\ DeliveredIsBehind /\ FreshStart /\ AheadIsInWindow /\ NoneTooOften /\ FirstPass
  BY DEF PlayIInv
<1>1. Len(layout) \in Nat /\ next \in Nat /\ next >= 1
  BY <1>0, LayoutsAssumption DEF PlayShape
<1>2. /\ UNCHANGED <<layout, pass, next, fetched>>
      /\ ReadNth(i)
      /\ i \in 1 .. (next - 1)
  BY <1>1 DEF Excursion
<1>3. /\ e \in Extent /\ e.offset = layout[i].offset
      /\ e.offset \in Nat /\ e.size \in Nat \ {0}
      /\ EndOf(i) = e.offset + e.size /\ EndOf(i) \in Nat /\ EndOf(i) <= Pos
      /\ Pos \in Nat
  BY <1>0, <1>2, HunkIsInFile, PosInFile DEF EndOf, DeliveredIsBehind
<1>h. Have(e) <=> (e.offset >= ra_off /\ e.offset + e.size <= ra_off + ra_valid)
  <2>1. i \in 1 .. Len(layout)
    BY <1>0, <1>1, <1>2 DEF PlayShape
  <2>2. InFile(e)
    BY <1>0, <1>3, <2>1, HunkIsInFile DEF InFile
  <2> QED BY <1>3, <2>2, InFileDoesNotWrap, HaveInNat
<1>4. /\ IInv' /\ file_cache' = file_cache /\ ra_capacity' = ra_capacity
      /\ Hit(e) \/ Direct(e) \/ (layout[i].kind = "compressed" /\ Refill(e))
  BY <1>0, <1>2, ReadNthKeepsIInv
<1>5. /\ Pos' = Pos
      /\ \A j : EndOf(j)' = EndOf(j) /\ layout'[j].kind = layout[j].kind
      /\ \A p : Delivered(p)' = Delivered(p) /\ MostFetches(p)' = MostFetches(p)
  <2>1. /\ Pos' = Pos
        /\ \A j : EndOf(j)' = EndOf(j) /\ layout'[j].kind = layout[j].kind
    BY <1>2 DEF Pos, EndOf
  <2>2. \A p : Delivered(p)' = Delivered(p)
    BY <1>2 DEF Delivered, Holds
  <2>3. \A p : MostFetches(p)' = MostFetches(p)
    BY <1>2 DEF MostFetches, Holds
  <2> QED BY <2>1, <2>2, <2>3
<1> HIDE DEF e
<1>6. PlayShape' /\ DeliveredIsBehind' /\ FreshStart' /\ NoneTooOften'
  <2>1. PlayShape'
    BY <1>0, <1>2, <1>4 DEF PlayShape
  <2>2. DeliveredIsBehind'
    BY <1>0, <1>2, <1>5 DEF DeliveredIsBehind
  <2>3. FreshStart' /\ NoneTooOften'
    BY <1>0, <1>2, <1>5 DEF FreshStart, NoneTooOften, Places
  <2> QED BY <2>1, <2>2, <2>3
<1>7. CASE UNCHANGED <<ra_off, ra_valid>>
  <2>1. AheadIsInWindow' /\ FirstPass'
    BY <1>0, <1>2, <1>4, <1>5, <1>7 DEF AheadIsInWindow, FirstPass, Places
  <2> QED BY <1>4, <1>6, <2>1 DEF PlayIInv
<1>8. CASE layout[i].kind = "compressed" /\ Refill(e)
  <2> DEFINE held == Keep(e) + Avail(e)
  <2>1. /\ ra_off' = e.offset /\ ra_valid' = held
        /\ Avail(e) \in Nat /\ ra_capacity > 0
        /\ ra_off <= e.offset
        /\ ~(e.offset + e.size <= ra_off + ra_valid)
    BY <1>3, <1>h, <1>8 DEF Refill
  <2>2. /\ ra_off \in Nat /\ ra_valid \in Nat
        /\ Keep(e) \in Nat
        /\ Keep(e) > 0 => e.offset + Keep(e) = ra_off + ra_valid
    BY <1>0, <1>3, KeepBounds DEF IInv, TypeOK
  <2>3. Keep(e) = 0 => e.offset >= ra_off + ra_valid
    BY <1>3, <2>1, <2>2 DEF Keep
  <2>4. ra_off + ra_valid <= e.offset + held
    <3>1. \A o, k, a, w \in Nat : o + k >= w => w <= o + (k + a)
      OBVIOUS
    <3>2. e.offset \in Nat /\ Keep(e) \in Nat /\ Avail(e) \in Nat /\ ra_off + ra_valid \in Nat
      BY <1>3, <2>1, <2>2
    <3>3. e.offset + Keep(e) >= ra_off + ra_valid
      BY <2>2, <2>3, <3>2
    <3> QED BY <3>1, <3>2, <3>3
  <2> HIDE DEF held
  <2>5. e.offset <= Pos /\ held \in Nat
    <3>1. \A o, s, p \in Nat : o + s <= p => o <= p
      OBVIOUS
    <3>2. e.offset \in Nat /\ e.size \in Nat /\ Pos \in Nat /\ e.offset + e.size <= Pos
      BY <1>3
    <3> QED BY <2>1, <2>2, <3>1, <3>2 DEF held
  <2>6. AheadIsInWindow'
    <3>1. ASSUME NEW p \in Places, p >= Pos, fetched[p] >= 1
          PROVE  fetched[p] = 1 /\ p < e.offset + held
      <4>1. p \in Nat
        BY FileAssumption DEF Places
      <4>2. fetched[p] = 1 /\ p < ra_off + ra_valid
        BY <1>0, <3>1 DEF AheadIsInWindow
      <4>3. \A a, b, c \in Nat : a < b /\ b <= c => a < c
        OBVIOUS
      <4>4. ra_off + ra_valid \in Nat /\ e.offset + held \in Nat
        BY <1>3, <2>2, <2>5
      <4> QED BY <2>4, <4>1, <4>2, <4>3, <4>4
    <3> QED BY <1>2, <1>5, <2>1, <2>5, <3>1 DEF AheadIsInWindow, Places
  <2>7. pass # 1
    <3>1. ASSUME pass = 1 PROVE EndOf(i) <= ra_off + ra_valid
      BY <1>0, <1>2, <1>8, <2>1, <3>1 DEF FirstPass
    <3> QED BY <1>3, <2>1, <3>1
  <2>8. FirstPass'
    BY <1>2, <2>7 DEF FirstPass
  <2> QED BY <1>4, <1>6, <2>6, <2>8 DEF PlayIInv
<1> QED BY <1>4, <1>7, <1>8 DEF Hit, Direct

(* A new pass starts counting from nothing.                                *)
LEMMA RewindKeeps ==
  ASSUME PlayIInv, Rewind
  PROVE  PlayIInv'
<1>1. /\ UNCHANGED vars /\ layout' = layout
      /\ pass' = pass + 1 /\ next' = 1
      /\ fetched' = [p \in DOMAIN fetched |-> 0]
  BY DEF Rewind
<1>2. IInv /\ PlayShape
  BY DEF PlayIInv
<1>3. fetched' \in [Places -> Nat] /\ \A p \in Places : fetched'[p] = 0
  BY <1>1, <1>2 DEF PlayShape
<1>4. IInv'
  BY <1>1, <1>2, StepPreserves
<1>5. pass' \in Nat \ {0} /\ pass' # 1
  BY <1>1, <1>2 DEF PlayShape
<1>6. PlayShape'
  <2>1. Len(layout) \in Nat
    BY <1>2, LayoutsAssumption DEF PlayShape
  <2> QED BY <1>1, <1>2, <1>3, <1>5, <2>1 DEF PlayShape, vars
<1>7. DeliveredIsBehind'
  <2>1. 1 .. (next' - 1) = {}
    BY <1>1
  <2> QED BY <2>1 DEF DeliveredIsBehind
<1>8. FreshStart' /\ AheadIsInWindow' /\ FirstPass'
  BY <1>3, <1>5 DEF FreshStart, AheadIsInWindow, FirstPass, Places
<1>9. NoneTooOften'
  <2>1. \A p : MostFetches(p)' \in 1 .. 2
    BY DEF MostFetches
  <2> QED BY <1>3, <2>1 DEF NoneTooOften, Places
<1> QED BY <1>4, <1>6, <1>7, <1>8, <1>9 DEF PlayIInv

(* A budget is set before anything was fetched, and leaves no window, or   *)
(* one that holds nothing yet.                                             *)
LEMMA ChooseBudgetKeeps ==
  ASSUME PlayIInv, NEW bytes \in Budgets, ChooseBudget(bytes)
  PROVE  PlayIInv'
<1>1. /\ next = 1
      /\ chd_set_cache_budget(bytes)
      /\ UNCHANGED <<layout, pass, next, fetched>>
  BY DEF ChooseBudget
<1>2. IInv /\ PlayShape /\ DeliveredIsBehind /\ FreshStart /\ NoneTooOften
  BY DEF PlayIInv
<1>3. IInv'
  BY <1>1, <1>2, BudgetPreserves
<1>4. /\ ra_off' = 0 /\ ra_valid' = 0
      /\ ra_capacity' > 0 => HunkBytes <= ra_capacity'
      /\ file_cache' = file_cache
  BY <1>1, SizesAssumption
    DEF chd_set_cache_budget, DisableWindow, WindowNotAllocated, WindowOff, AllocateWindow, TooSmall
<1>5. \A p \in Places : fetched'[p] = 0
  BY <1>1, <1>2 DEF FreshStart
<1>6. Pos' = 0 /\ 1 .. (next' - 1) = {}
  BY <1>1 DEF Pos
<1>7. PlayShape'
  BY <1>1, <1>2, <1>4 DEF PlayShape
<1>8. DeliveredIsBehind' /\ FreshStart' /\ AheadIsInWindow'
  BY <1>5, <1>6 DEF DeliveredIsBehind, FreshStart, AheadIsInWindow, Places
<1>9. NoneTooOften'
  BY <1>1, <1>2 DEF NoneTooOften, MostFetches, Holds, Places
<1>10. FirstPass'
  <2>1. \A p : ~Delivered(p)'
    BY <1>6 DEF Delivered
  <2>2. \A p \in Places : ~(ra_off' <= p /\ p < ra_off' + ra_valid')
    BY <1>4, FileAssumption DEF Places
  <2> QED BY <1>4, <1>6, <2>1, <2>2 DEF FirstPass, Places
<1> QED BY <1>3, <1>7, <1>8, <1>9, <1>10 DEF PlayIInv

LEMMA PlayInitEstablishes == PlayInit => PlayIInv
<1> SUFFICES ASSUME PlayInit PROVE PlayIInv
  OBVIOUS
<1>1. /\ Init /\ layout \in Layouts /\ pass = 1 /\ next = 1
      /\ fetched = [p \in Places |-> 0]
      /\ ra_off = 0 /\ ra_valid = 0 /\ ra_capacity = 0 /\ ~file_cache
  BY DEF PlayInit, Places, Init
<1>2. IInv
  BY <1>1, InitEstablishes
<1>3. Len(layout) \in Nat
  BY <1>1, LayoutsAssumption
<1>4. Pos = 0 /\ 1 .. (next - 1) = {}
  BY <1>1 DEF Pos
<1>5. PlayShape
  BY <1>1, <1>3 DEF PlayShape
<1>6. DeliveredIsBehind /\ FreshStart /\ AheadIsInWindow
  BY <1>1, <1>4 DEF DeliveredIsBehind, FreshStart, AheadIsInWindow
<1>7. NoneTooOften
  BY <1>1, MostIsPositive DEF NoneTooOften
<1>8. FirstPass
  <2>1. \A p : ~Delivered(p)
    BY <1>4 DEF Delivered
  <2>2. \A p \in Places : ~(ra_off <= p /\ p < ra_off + ra_valid)
    BY <1>1, FileAssumption DEF Places
  <2> QED BY <1>1, <1>4, <2>1, <2>2 DEF FirstPass
<1> QED BY <1>2, <1>5, <1>6, <1>7, <1>8 DEF PlayIInv

LEMMA PlayStepKeeps == PlayIInv /\ [PlayNextState]_playVars => PlayIInv'
<1> SUFFICES ASSUME PlayIInv, [PlayNextState]_playVars PROVE PlayIInv'
  OBVIOUS
<1>1. CASE UNCHANGED playVars
  <2>1. UNCHANGED vars /\ UNCHANGED <<layout, pass, next, fetched>>
    BY <1>1 DEF playVars
  <2>2. IInv'
    BY <2>1, StepPreserves DEF PlayIInv
  <2> QED BY <2>1, <2>2 DEF PlayIInv, PlayShape, DeliveredIsBehind, FreshStart, AheadIsInWindow,
        NoneTooOften, FirstPass, Pos, EndOf, MostFetches, Delivered, Holds, vars
<1> QED BY <1>1, PlayNextKeeps, ExcursionKeeps, RewindKeeps, ChooseBudgetKeeps DEF PlayNextState

(* A caller that plays a file through the window of chd_set_cache_budget    *)
(* fetches each byte of a compressed hunk once in a pass, and those of an   *)
(* uncompressed one at most twice, whatever the layout, the budget and the  *)
(* excursions in between: EachByteFetchedOnce.                              *)
THEOREM PlaybackFetchesOnce == PlaySpec => []EachByteFetchedOnce
<1>1. PlayIInv => EachByteFetchedOnce
  <2> SUFFICES ASSUME PlayIInv PROVE EachByteFetchedOnce
    OBVIOUS
  <2>1. DOMAIN fetched = Places
    BY DEF PlayIInv, PlayShape
  <2> QED BY <2>1 DEF PlayIInv, NoneTooOften, FirstPass, EachByteFetchedOnce
<1> QED BY <1>1, PlayInitEstablishes, PlayStepKeeps, PTL DEF PlaySpec
================================================================================
