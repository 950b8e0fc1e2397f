---------------------------- MODULE HunkReadProofs ----------------------------
(***************************************************************************)
(* Proofs about module HunkRead, for every chain of files, every map and   *)
(* every size of the self-reference cache, as long as a hunk has fewer     *)
(* than 256 units and legacy maps name no entry type the reader skips      *)
(* (the run with hunks of 300 units shows what happens otherwise).         *)
(***************************************************************************)
EXTENDS HunkRead, SequenceTheorems, TLAPS

FewUnits == HunkUnits < 256

KnownTypes ==
  \A f \in Files : \A h \in HunksOf(f) :
    Format[f] = "legacy" => Map[f][h].type # "unknown"

-----------------------------------------------------------------------------
(* The inductive invariant.                                                *)

Descends(caller, callee) ==
  \/ /\ callee.file = caller.file
     /\ callee.hunk < caller.hunk
  \/ /\ callee.file = ParentOf[caller.file]
     /\ Depth[callee.file] < Depth[caller.file]

UnitOf(f, h) == Map[f][h].offset % HunkUnits
HunkOf(f, h) == Map[f][h].offset \div HunkUnits

(* A call waits for `callee` with what it needs to go on from its result.  *)
Waits(caller, callee) ==
  LET f == caller.file
      h == caller.hunk
  IN  /\ h \in HunksOf(f)
      /\ Descends(caller, callee)
      /\ caller.at \in {"store", "pass", "first", "second"}
      /\ caller.at = "store" =>
           /\ callee.file = f /\ callee.hunk = Map[f][h].offset
           /\ callee.hunk \in HunksOf(f)
      /\ caller.at \in {"store", "pass"} =>
           Content[f][h] = At(callee.file, callee.hunk)
      /\ caller.at \in {"first", "second"} =>
           /\ Map[f][h].type = "parent" /\ Format[f] = "v5"
           /\ ParentOf[f] # NoFile
           /\ UnitOf(f, h) # 0
           /\ callee.file = ParentOf[f]
      /\ caller.at = "first" => callee.hunk = HunkOf(f, h)
      /\ caller.at = "second" =>
           /\ callee.hunk = HunkOf(f, h) + 1
           /\ caller.held = At(ParentOf[f], HunkOf(f, h))
           /\ caller.held # Undecodable

(* What a call for hunk h of f may return.                                 *)
Right(value, f, h, fault) ==
  \/ value = Ok(At(f, h)) /\ At(f, h) # Undecodable
  \/ value = Error /\ (fault \/ At(f, h) = Undecodable)

StackOK ==
  \A i \in 1 .. (Len(stack) - 1) : Waits(stack[i], stack[i + 1])

(* The innermost call is about to look at its map entry, or its nested     *)
(* call has just returned something right.                                 *)
TopOK ==
  stack # <<>> =>
    \/ Top.at = "call" /\ result = Pending
    \/ \E callee \in Frames :
         /\ Waits(Top, callee)
         /\ Right(result, callee.file, callee.hunk, faulty)

BottomOK ==
  /\ stack # <<>> =>
       /\ request \in Requests
       /\ reply = Pending
       /\ stack[1].file = request.file
       /\ stack[1].hunk = request.hunk
  /\ reply.status = "ok" => reply.data = At(request.file, request.hunk)

(* No hunk is in two slots, so a lookup has one answer.                    *)
NoneTwice ==
  \A f \in Files : selfcache_entries[f] # 0 =>
    \A i, j \in Slots :
      (selfcache_hunk[f][i] = selfcache_hunk[f][j] /\ selfcache_hunk[f][i] # NoHunk) => i = j

IInv == TypeOK /\ CacheFaithful /\ NoneTwice /\ StackOK /\ TopOK /\ BottomOK

-----------------------------------------------------------------------------
(* Arithmetic and content.                                                 *)

LEMMA Division ==
  ASSUME NEW a \in Nat
  PROVE  /\ a % HunkUnits \in Nat
         /\ a % HunkUnits < HunkUnits
         /\ a \div HunkUnits \in Nat
BY UnitsAssumption

LEMMA UnitsFit == FewUnits => units_in_hunk = HunkUnits
BY UnitsAssumption DEF FewUnits, units_in_hunk

LEMMA AtTyped ==
  ASSUME NEW f \in Files, NEW h
  PROVE  At(f, h) \in Datum \cup {Undecodable}
BY ContentAssumption DEF At

LEMMA ValueTyped ==
  ASSUME NEW f \in Files, NEW h, NEW fault, NEW v, Right(v, f, h, fault)
  PROVE  v \in Values /\ v # Pending
BY AtTyped DEF Right, Ok, Error, Values, Pending

LEMMA JoinedTyped ==
  ASSUME NEW a \in Datum, NEW b \in Datum, NEW k \in Nat, k < HunkUnits
  PROVE  /\ Joined(a, b, k) \in Datum
         /\ Joined(a, b, k) # Undecodable
<1>1. a # Undecodable /\ b # Undecodable
  BY UnitsAssumption
<1>2. ASSUME NEW i \in 0 .. (HunkUnits - 1)
      PROVE  (IF i < HunkUnits - k THEN a[i + k] ELSE b[i - (HunkUnits - k)]) \in Unit
  <2>1. CASE i < HunkUnits - k
    <3>1. i + k \in 0 .. (HunkUnits - 1)
      BY <2>1, UnitsAssumption
    <3>2. QED
      BY <2>1, <3>1 DEF Datum
  <2>2. CASE ~(i < HunkUnits - k)
    <3>1. i - (HunkUnits - k) \in 0 .. (HunkUnits - 1)
      BY <2>2, UnitsAssumption
    <3>2. QED
      BY <2>2, <3>1 DEF Datum
  <2>3. QED
    BY <2>1, <2>2
<1>3. Joined(a, b, k) \in Datum
  BY <1>1, <1>2 DEF Joined, Datum
<1>4. QED
  BY <1>3, UnitsAssumption

-----------------------------------------------------------------------------
(* Calls and returns.                                                      *)

LEMMA StackTop ==
  ASSUME TypeOK, stack # << >>
  PROVE  /\ Len(stack) \in Nat \ {0}
         /\ Top \in Frames
         /\ Top.file \in Files /\ Top.hunk \in Nat
         /\ Below \in Seq(Frames)
         /\ Len(Below) = Len(stack) - 1
         /\ \A i \in 1 .. (Len(stack) - 1) : Below[i] = stack[i]
<1>1. stack \in Seq(Frames)
  BY DEF TypeOK
<1>2. Len(stack) \in Nat \ {0}
  BY <1>1
<1>3. Top \in Frames
  BY <1>1, <1>2 DEF Top
<1>4. /\ Below \in Seq(Frames)
      /\ Len(Below) = Len(stack) - 1
      /\ \A i \in 1 .. (Len(stack) - 1) : Below[i] = stack[i]
  <2> DEFINE last == Len(stack) - 1
  <2>1. /\ last \in Int /\ 1 \in Int
        /\ \A i \in 1 .. last : stack[i] \in Frames
    BY <1>1, <1>2
  <2>2. /\ SubSeq(stack, 1, last) \in Seq(Frames)
        /\ Len(SubSeq(stack, 1, last)) = IF 1 <= last THEN last - 1 + 1 ELSE 0
        /\ \A i \in 1 .. (last - 1 + 1) : SubSeq(stack, 1, last)[i] = stack[1 + i - 1]
    BY <2>1, SubSeqProperties
  <2> DEFINE below == SubSeq(stack, 1, last)
  <2>3. below \in Seq(Frames)
    BY <2>2
  <2>4. last \in Nat
    BY <1>2
  <2> HIDE DEF last, below
  <2>5. Len(below) = last
    BY <2>2, <2>4 DEF below
  <2>6. ASSUME NEW i \in 1 .. last PROVE below[i] = stack[i]
    <3>1. i \in 1 .. (last - 1 + 1) /\ 1 + i - 1 = i
      BY <2>4
    <3>2. QED
      BY <2>2, <3>1 DEF below
  <2>7. QED
    BY <2>3, <2>5, <2>6 DEF Below, below, last
<1>5. QED
  BY <1>2, <1>3, <1>4 DEF Frames

CacheOK ==
  /\ selfcache_entries \in [Files -> {0, CacheSlots}]
  /\ selfcache_next \in [Files -> Slots]
  /\ selfcache_hunk \in [Files -> [Slots -> Nat \cup {NoHunk}]]
  /\ selfcache_data \in [Files -> [Slots -> Datum \cup {Undecodable}]]
  /\ CacheFaithful
  /\ NoneTwice

LEMMA CacheIsOK == IInv => CacheOK
BY DEF IInv, TypeOK, CacheOK

LEMMA CacheUnchanged == CacheOK /\ UNCHANGED selfcache => CacheOK'
BY DEF CacheOK, CacheFaithful, NoneTwice, selfcache

(* Only which hunk is called matters to the caller.                        *)
LEMMA WaitsFor ==
  ASSUME NEW caller, NEW callee, NEW other,
         Waits(caller, callee), other.file = callee.file, other.hunk = callee.hunk
  PROVE  Waits(caller, other)
BY DEF Waits, Descends

LEMMA ReturnPreserves ==
  ASSUME IInv, stack # << >>, NEW v, Return(v),
         Right(v, Top.file, Top.hunk, faulty'),
         faulty' \in BOOLEAN, UNCHANGED request, CacheOK'
  PROVE  IInv'
<1>0. /\ TypeOK /\ StackOK /\ BottomOK
      /\ request \in Requests \cup {NoRequest} /\ reply \in Values
  BY DEF IInv, TypeOK
<1>1. /\ Len(stack) \in Nat \ {0}
      /\ Top \in Frames
      /\ Top.file \in Files /\ Top.hunk \in Nat
      /\ Below \in Seq(Frames)
      /\ Len(Below) = Len(stack) - 1
      /\ \A i \in 1 .. (Len(stack) - 1) : Below[i] = stack[i]
  BY <1>0, StackTop
<1>2. /\ stack' = Below
      /\ Len(stack) = 1 => reply' = v /\ result' = Pending
      /\ Len(stack) # 1 => result' = v /\ reply' = reply
  BY DEF Return
<1>3. v \in Values /\ v # Pending /\ Pending \in Values
  BY <1>1, ValueTyped DEF Values, Pending
<1>4. TypeOK'
  <2>1. result' \in Values /\ reply' \in Values
    BY <1>0, <1>2, <1>3
  <2>2. stack' \in Seq(Frames) /\ request' \in Requests \cup {NoRequest}
    BY <1>0, <1>1, <1>2
  <2>3. (Requests \cup {NoRequest})' = Requests \cup {NoRequest}
    BY DEF Requests
  <2>4. QED
    BY <2>1, <2>2, <2>3 DEF TypeOK, CacheOK
<1>5. StackOK'
  <2>1. \A i \in 1 .. (Len(Below) - 1) : Waits(Below[i], Below[i + 1])
    <3> SUFFICES ASSUME NEW i \in 1 .. (Len(Below) - 1)
                 PROVE  Waits(Below[i], Below[i + 1])
      OBVIOUS
    <3>1. /\ i \in 1 .. (Len(stack) - 1)
          /\ i + 1 \in 1 .. (Len(stack) - 1)
      BY <1>1
    <3>2. Below[i] = stack[i] /\ Below[i + 1] = stack[i + 1]
      BY <1>1, <3>1
    <3>3. QED
      BY <1>0, <3>1, <3>2 DEF StackOK
  <2>2. QED
    BY <1>2, <2>1 DEF StackOK
<1>6. TopOK'
  <2>1. CASE Len(stack) = 1
    <3>1. stack' = << >>
      BY <1>1, <1>2, <2>1
    <3>2. QED
      BY <3>1 DEF TopOK
  <2>2. CASE Len(stack) # 1
    <3>1. /\ Len(stack) - 1 \in 1 .. (Len(stack) - 1)
          /\ (Len(stack) - 1) + 1 = Len(stack)
      BY <1>1, <2>2
    <3>2. Waits(stack[Len(stack) - 1], Top)
      BY <1>0, <3>1 DEF StackOK, Top
    <3>3. Top' = stack[Len(stack) - 1]
      BY <1>1, <1>2, <3>1 DEF Top
    <3>4. result' = v
      BY <1>2, <2>2
    <3>5. \E callee \in Frames :
            /\ Waits(Top', callee)
            /\ Right(result', callee.file, callee.hunk, faulty')
      BY <1>1, <3>2, <3>3, <3>4
    <3>6. QED
      BY <3>5 DEF TopOK, Waits, Descends, Right
  <2>3. QED
    BY <2>1, <2>2
<1>7. BottomOK'
  <2>1. CASE Len(stack) = 1
    <3>1. stack' = << >> /\ reply' = v
      BY <1>1, <1>2, <2>1
    <3>2. Top.file = request.file /\ Top.hunk = request.hunk
      BY <1>0, <2>1 DEF BottomOK, Top
    <3>3. v.status = "ok" => v.data = At(request.file, request.hunk)
      BY <3>2 DEF Right, Ok, Error
    <3>4. QED
      BY <3>1, <3>3 DEF BottomOK
  <2>2. CASE Len(stack) # 1
    <3>1. stack'[1] = stack[1] /\ reply' = reply
      BY <1>1, <1>2, <2>2
    <3>2. Requests' = Requests
      BY DEF Requests
    <3>3. QED
      BY <1>0, <3>1, <3>2 DEF BottomOK
  <2>3. QED
    BY <2>1, <2>2
<1>8. QED
  BY <1>4, <1>5, <1>6, <1>7 DEF IInv, CacheOK

LEMMA CallPreserves ==
  ASSUME IInv, stack # << >>, NEW next, NEW held, NEW g \in Files, NEW h \in Nat,
         next \in {"store", "pass", "first", "second"},
         held \in Datum \cup {Undecodable},
         Call(next, held, g, h),
         Waits([Top EXCEPT !.at = next, !.held = held], Frame(g, h)),
         faulty' \in BOOLEAN, UNCHANGED request, CacheOK'
  PROVE  IInv'
<1>0. /\ TypeOK /\ StackOK /\ BottomOK
      /\ request \in Requests \cup {NoRequest} /\ reply \in Values
  BY DEF IInv, TypeOK
<1>1. /\ Len(stack) \in Nat \ {0}
      /\ Top \in Frames
      /\ Below \in Seq(Frames)
      /\ Len(Below) = Len(stack) - 1
      /\ \A i \in 1 .. (Len(stack) - 1) : Below[i] = stack[i]
  BY <1>0, StackTop
<1> DEFINE caller == [Top EXCEPT !.at = next, !.held = held]
           callee == Frame(g, h)
           n == Len(stack)
<1>2. /\ caller \in Frames
      /\ caller.file = Top.file /\ caller.hunk = Top.hunk
  BY <1>1 DEF Frames
<1>3. /\ callee \in Frames
      /\ callee.at = "call"
  BY DEF Frame, Frames
<1>4. Waits(caller, callee)
  OBVIOUS
<1>5. /\ stack' = Append(Append(Below, caller), callee)
      /\ result' = Pending
      /\ reply' = reply
  BY DEF Call
<1>6. n \in Nat \ {0}
  BY <1>1
<1> HIDE DEF caller, callee, n
<1>7. /\ stack' \in Seq(Frames)
      /\ Len(stack') = n + 1
      /\ stack'[n + 1] = callee
      /\ stack'[n] = caller
      /\ \A i \in 1 .. (n - 1) : stack'[i] = stack[i]
  <2>1. /\ Append(Below, caller) \in Seq(Frames)
        /\ Len(Append(Below, caller)) = n
        /\ Append(Below, caller)[n] = caller
        /\ \A i \in 1 .. (n - 1) : Append(Below, caller)[i] = stack[i]
    BY <1>1, <1>2, <1>6 DEF n
  <2>2. QED
    BY <1>3, <1>5, <1>6, <2>1
<1>8. Pending \in Values
  BY DEF Pending, Values
<1>9. TypeOK'
  <2>1. (Requests \cup {NoRequest})' = Requests \cup {NoRequest}
    BY DEF Requests
  <2>2. QED
    BY <1>0, <1>5, <1>7, <1>8, <2>1 DEF TypeOK, CacheOK
<1>10. StackOK'
  <2>1. ASSUME NEW i \in 1 .. n PROVE Waits(stack'[i], stack'[i + 1])
    <3>1. CASE i = n
      BY <1>4, <1>7, <3>1
    <3>2. CASE i = n - 1
      <4>1. i \in 1 .. (n - 1) /\ i + 1 = n
        BY <1>6, <3>2
      <4>2. Waits(stack[i], stack[n])
        BY <1>0, <4>1 DEF StackOK, n
      <4>3. stack'[i] = stack[i] /\ stack'[i + 1] = caller
        BY <1>7, <4>1
      <4>4. caller.file = stack[n].file /\ caller.hunk = stack[n].hunk
        BY <1>2 DEF Top, n
      <4>5. QED
        BY <4>2, <4>3, <4>4, WaitsFor
    <3>3. CASE i # n /\ i # n - 1
      <4>1. i \in 1 .. (n - 1) /\ i + 1 \in 1 .. (n - 1)
        BY <1>6, <3>3
      <4>2. Waits(stack[i], stack[i + 1])
        BY <1>0, <4>1 DEF StackOK, n
      <4>3. QED
        BY <1>7, <4>1, <4>2
    <3>4. QED
      BY <3>1, <3>2, <3>3
  <2>2. Len(stack') - 1 = n
    BY <1>6, <1>7
  <2>3. QED
    BY <2>1, <2>2 DEF StackOK
<1>11. TopOK'
  <2>1. Top' = callee
    BY <1>7 DEF Top
  <2>2. QED
    BY <1>3, <1>5, <2>1 DEF TopOK
<1>12. BottomOK'
  <2>1. /\ stack # << >>
        /\ stack'[1].file = stack[1].file
        /\ stack'[1].hunk = stack[1].hunk
    <3>1. CASE n = 1
      BY <1>2, <1>7, <3>1 DEF Top, n
    <3>2. CASE n # 1
      BY <1>6, <1>7, <3>2
    <3>3. QED
      BY <3>1, <3>2
  <2>2. Requests' = Requests
    BY DEF Requests
  <2>3. QED
    BY <1>0, <1>5, <2>1, <2>2 DEF BottomOK
<1>13. QED
  BY <1>9, <1>10, <1>11, <1>12 DEF IInv, CacheOK

-----------------------------------------------------------------------------
(* The cache.                                                              *)

LEMMA EnsureKeepsCache ==
  ASSUME CacheOK, NEW f \in Files, selfcache_ensure(f)
  PROVE  CacheOK'
<1>1. CASE UNCHANGED selfcache
  BY <1>1, CacheUnchanged
<1>2. CASE /\ selfcache_entries' = [selfcache_entries EXCEPT ![f] = CacheSlots]
           /\ selfcache_next' = [selfcache_next EXCEPT ![f] = 0]
           /\ selfcache_hunk' = [selfcache_hunk EXCEPT ![f] = [i \in Slots |-> NoHunk]]
           /\ UNCHANGED selfcache_data
  <2>1. 0 \in Slots
    BY CacheAssumption DEF Slots
  <2>2. /\ selfcache_entries' \in [Files -> {0, CacheSlots}]
        /\ selfcache_next' \in [Files -> Slots]
        /\ selfcache_hunk' \in [Files -> [Slots -> Nat \cup {NoHunk}]]
        /\ selfcache_data' \in [Files -> [Slots -> Datum \cup {Undecodable}]]
    BY <1>2, <2>1 DEF CacheOK
  <2>3. ASSUME NEW g \in Files, NEW i \in Slots,
               i < selfcache_entries'[g], selfcache_hunk'[g][i] # NoHunk
        PROVE  /\ selfcache_hunk'[g][i] \in HunksOf(g)
               /\ selfcache_data'[g][i] = Content[g][selfcache_hunk'[g][i]]
               /\ selfcache_data'[g][i] # Undecodable
    <3>1. g # f
      BY <1>2, <2>3 DEF CacheOK
    <3>2. /\ selfcache_entries'[g] = selfcache_entries[g]
          /\ selfcache_hunk'[g] = selfcache_hunk[g]
          /\ selfcache_data'[g] = selfcache_data[g]
      BY <1>2, <3>1 DEF CacheOK
    <3>3. QED
      BY <2>3, <3>2 DEF CacheOK, CacheFaithful
  <2>4. CacheFaithful'
    BY <2>3 DEF CacheFaithful
  <2>5. ASSUME NEW g \in Files, selfcache_entries'[g] # 0,
               NEW i \in Slots, NEW j \in Slots,
               selfcache_hunk'[g][i] = selfcache_hunk'[g][j], selfcache_hunk'[g][i] # NoHunk
        PROVE  i = j
    <3>1. g # f
      BY <1>2, <2>5 DEF CacheOK
    <3>2. /\ selfcache_entries'[g] = selfcache_entries[g]
          /\ selfcache_hunk'[g] = selfcache_hunk[g]
      BY <1>2, <3>1 DEF CacheOK
    <3>3. QED
      BY <2>5, <3>2 DEF CacheOK, NoneTwice
  <2>6. NoneTwice'
    BY <2>5 DEF NoneTwice
  <2>7. QED
    BY <2>2, <2>4, <2>6 DEF CacheOK
<1>3. QED
  BY <1>1, <1>2 DEF selfcache_ensure

LEMMA StoreKeepsCache ==
  ASSUME CacheOK, NEW f \in Files, NEW h \in HunksOf(f), NEW data \in Datum,
         data = Content[f][h], data # Undecodable,
         selfcache_store(f, h, data)
  PROVE  CacheOK'
<1>1. CASE UNCHANGED selfcache
  BY <1>1, CacheUnchanged
<1>2. CASE ~(selfcache_entries[f] = 0 \/ Resident(f, h))
  <2> DEFINE slot == selfcache_next[f]
             following == (slot + 1) % CacheSlots
  <2>1. /\ selfcache_next' = [selfcache_next EXCEPT ![f] = following]
        /\ selfcache_hunk' = [selfcache_hunk EXCEPT ![f][slot] = h]
        /\ selfcache_data' = [selfcache_data EXCEPT ![f][slot] = data]
        /\ UNCHANGED selfcache_entries
    BY <1>2 DEF selfcache_store
  <2>2. slot \in Slots
    BY DEF CacheOK
  <2>3. following \in Slots
    <3>1. slot + 1 \in Nat /\ CacheSlots \in Nat \ {0}
      BY <2>2, CacheAssumption DEF Slots
    <3> HIDE DEF slot
    <3>2. following \in Nat /\ following < CacheSlots
      BY <3>1
    <3>3. QED
      BY <3>1, <3>2 DEF Slots
  <2> HIDE DEF slot, following
  <2>4. h \in Nat
    BY FilesAssumption DEF HunksOf
  <2>5. /\ selfcache_entries' \in [Files -> {0, CacheSlots}]
        /\ selfcache_next' \in [Files -> Slots]
        /\ selfcache_hunk' \in [Files -> [Slots -> Nat \cup {NoHunk}]]
        /\ selfcache_data' \in [Files -> [Slots -> Datum \cup {Undecodable}]]
    BY <2>1, <2>2, <2>3, <2>4 DEF CacheOK
  <2>6. ASSUME NEW g \in Files, NEW i \in Slots,
               i < selfcache_entries'[g], selfcache_hunk'[g][i] # NoHunk
        PROVE  /\ selfcache_hunk'[g][i] \in HunksOf(g)
               /\ selfcache_data'[g][i] = Content[g][selfcache_hunk'[g][i]]
               /\ selfcache_data'[g][i] # Undecodable
    <3>1. CASE g = f /\ i = slot
      <4>1. selfcache_hunk'[g][i] = h /\ selfcache_data'[g][i] = data
        BY <2>1, <2>2, <3>1 DEF CacheOK
      <4>2. QED
        BY <3>1, <4>1
    <3>2. CASE ~(g = f /\ i = slot)
      <4>1. /\ selfcache_entries'[g] = selfcache_entries[g]
            /\ selfcache_hunk'[g][i] = selfcache_hunk[g][i]
            /\ selfcache_data'[g][i] = selfcache_data[g][i]
        BY <2>1, <2>2, <3>2 DEF CacheOK
      <4>2. QED
        BY <2>6, <4>1 DEF CacheOK, CacheFaithful
    <3>3. QED
      BY <3>1, <3>2
  <2>7. CacheFaithful'
    BY <2>6 DEF CacheFaithful
  <2>8. ASSUME NEW g \in Files, selfcache_entries'[g] # 0,
               NEW i \in Slots, NEW j \in Slots,
               selfcache_hunk'[g][i] = selfcache_hunk'[g][j], selfcache_hunk'[g][i] # NoHunk
        PROVE  i = j
    <3>1. selfcache_entries'[g] = selfcache_entries[g]
      BY <2>1
    <3>2. CASE g # f
      <4>1. selfcache_hunk'[g] = selfcache_hunk[g]
        BY <2>1, <3>2 DEF CacheOK
      <4>2. QED
        BY <2>8, <3>1, <4>1 DEF CacheOK, NoneTwice
    <3>3. CASE g = f
      <4>1. \A k \in Slots : selfcache_hunk'[f][k] = IF k = slot THEN h ELSE selfcache_hunk[f][k]
        BY <2>1, <2>2 DEF CacheOK
      <4>2. \A k \in Slots : selfcache_hunk[f][k] # h
        <5>1. selfcache_entries[f] = CacheSlots
          BY <1>2 DEF CacheOK
        <5>2. QED
          BY <1>2, <5>1, CacheAssumption DEF Resident, Slots
      <4>3. QED
        BY <2>8, <3>1, <3>3, <4>1, <4>2 DEF CacheOK, NoneTwice
    <3>4. QED
      BY <3>2, <3>3
  <2>9. NoneTwice'
    BY <2>8 DEF NoneTwice
  <2>10. QED
    BY <2>5, <2>7, <2>9 DEF CacheOK
<1>3. QED
  BY <1>1, <1>2 DEF selfcache_store

(* What the cache hands out.                                               *)
LEMMA HitIsContent ==
  ASSUME CacheOK, NEW f \in Files, NEW h \in Nat, Resident(f, h)
  PROVE  /\ selfcache_data[f][SlotOf(f, h)] = At(f, h)
         /\ At(f, h) # Undecodable
<1>1. PICK k \in Slots : k < selfcache_entries[f] /\ selfcache_hunk[f][k] = h
  BY DEF Resident
<1>2. selfcache_entries[f] = CacheSlots /\ selfcache_entries[f] # 0 /\ h # NoHunk
  BY <1>1, CacheAssumption DEF CacheOK, Slots, NoHunk
<1>3. \A j \in Slots : j < k => selfcache_hunk[f][j] # h
  <2>1. \A j \in Slots : selfcache_hunk[f][j] = h => j = k
    BY <1>1, <1>2 DEF CacheOK, NoneTwice
  <2>2. QED
    BY <1>1, <2>1 DEF Slots
<1>4. /\ SlotOf(f, h) \in Slots
      /\ selfcache_hunk[f][SlotOf(f, h)] = h
  BY <1>1, <1>3 DEF SlotOf
<1>5. SlotOf(f, h) < selfcache_entries[f] /\ h # NoHunk
  BY <1>2, <1>4, CacheAssumption DEF Slots
<1>6. QED
  BY <1>4, <1>5 DEF CacheOK, CacheFaithful, At

-----------------------------------------------------------------------------
(* The steps.                                                              *)

(* A step returns something right, or calls and waits.                     *)
Returns == \E v \in Values : Return(v) /\ Right(v, Top.file, Top.hunk, faulty')

Calls ==
  \E next \in {"store", "pass", "first", "second"} :
  \E held \in Datum \cup {Undecodable} :
  \E g \in Files, h \in Nat :
    /\ Call(next, held, g, h)
    /\ Waits([Top EXCEPT !.at = next, !.held = held], Frame(g, h))

Progress ==
  /\ stack # << >>
  /\ faulty' \in BOOLEAN
  /\ faulty => faulty'
  /\ CacheOK'
  /\ Returns \/ Calls

(* A call that looks at the map entry of a hunk of its file.               *)
LEMMA EntryIs ==
  ASSUME IInv, stack # << >>, Top.hunk \in HunksOf(Top.file)
  PROVE  /\ Top \in Frames /\ Top.file \in Files /\ Top.hunk \in Nat
         /\ Entry.type \in Types[Format[Top.file]]
         /\ Entry.offset \in Nat
         /\ Entry.payload \in Datum \cup {Undecodable}
         /\ Parent \in Files \cup {NoFile}
         /\ At(Top.file, Top.hunk) = Content[Top.file][Top.hunk]
         /\ Content[Top.file][Top.hunk] = Meaning(Top.file, Top.hunk)
         /\ Format[Top.file] \in {"v5", "raw", "legacy"}
         /\ faulty \in BOOLEAN
         /\ CacheOK
<1>1. Top \in Frames /\ Top.file \in Files /\ Top.hunk \in Nat
  BY StackTop DEF IInv
<1>2. /\ Entry.type \in Types[Format[Top.file]]
      /\ Entry.offset \in Nat
      /\ Entry.payload \in Datum \cup {Undecodable}
  BY <1>1, MapAssumption DEF Entry
<1>3. Parent \in Files \cup {NoFile} /\ Format[Top.file] \in {"v5", "raw", "legacy"}
  BY <1>1, FilesAssumption DEF Parent
<1>4. /\ At(Top.file, Top.hunk) = Content[Top.file][Top.hunk]
      /\ Content[Top.file][Top.hunk] = Meaning(Top.file, Top.hunk)
  BY <1>1, ContentAssumption DEF At
<1>5. faulty \in BOOLEAN /\ CacheOK
  BY CacheIsOK DEF IInv, TypeOK
<1>6. QED
  BY <1>1, <1>2, <1>3, <1>4, <1>5

(* The types of one format are not those of another.                       *)
LEMMA FormatOfType ==
  ASSUME NEW f \in Files, NEW e, e.type \in Types[Format[f]],
         Format[f] \in {"v5", "raw", "legacy"}
  PROVE  /\ e.type = "hole" => Format[f] = "raw"
         /\ e.type \in {"self", "parent", "unknown"} => Format[f] \in {"v5", "legacy"}
         /\ e.type \in {"hole", "self", "parent", "unknown"} => ~Stored(f, e)
<1>1. CASE Format[f] = "v5"
  BY <1>1 DEF Types, StoredTypes, Stored
<1>2. CASE Format[f] = "raw"
  BY <1>2 DEF Types, StoredTypes, Stored
<1>3. CASE Format[f] = "legacy"
  BY <1>3 DEF Types, StoredTypes, Stored
<1>4. QED
  BY <1>1, <1>2, <1>3

(* Going down the chain of parents.                                        *)
LEMMA ParentDescends ==
  ASSUME NEW caller \in Frames, ParentOf[caller.file] # NoFile, NEW h
  PROVE  Descends(caller, Frame(ParentOf[caller.file], h))
<1>1. caller.file \in Files
  BY DEF Frames
<1>2. QED
  BY <1>1, FilesAssumption DEF Descends, Frame

(* An error with a fault to blame is right whatever was asked.             *)
LEMMA FaultProgress ==
  ASSUME IInv, stack # << >>, Return(Error), faulty' = TRUE, UNCHANGED selfcache
  PROVE  Progress
<1>1. Error \in Values /\ Right(Error, Top.file, Top.hunk, faulty')
  BY DEF Error, Values, Right
<1>2. Returns
  BY <1>1 DEF Returns
<1>3. CacheOK'
  BY CacheIsOK, CacheUnchanged
<1>4. QED
  BY <1>2, <1>3 DEF Progress

(* A step that returns something right and leaves the rest alone.          *)
LEMMA ReturnProgress ==
  ASSUME IInv, stack # << >>, NEW v, Return(v),
         Right(v, Top.file, Top.hunk, faulty), UNCHANGED <<selfcache, faulty>>
  PROVE  Progress
<1>1. Top.file \in Files
  BY StackTop DEF IInv
<1>2. v \in Values
  BY <1>1, ValueTyped
<1>3. faulty \in BOOLEAN
  BY DEF IInv, TypeOK
<1>4. Returns
  BY <1>2 DEF Returns
<1>5. CacheOK'
  BY CacheIsOK, CacheUnchanged
<1>6. QED
  BY <1>3, <1>4, <1>5 DEF Progress

LEMMA CallProgress ==
  ASSUME IInv, stack # << >>,
         NEW next \in {"store", "pass", "first", "second"},
         NEW held \in Datum \cup {Undecodable}, NEW g \in Files, NEW h \in Nat,
         Call(next, held, g, h),
         Waits([Top EXCEPT !.at = next, !.held = held], Frame(g, h)),
         CacheOK', UNCHANGED faulty
  PROVE  Progress
<1>1. faulty \in BOOLEAN
  BY DEF IInv, TypeOK
<1>2. Calls
  BY DEF Calls
<1>3. QED
  BY <1>1, <1>2 DEF Progress

(* Waiting to pass a result on: what is called holds what was asked for.   *)
LEMMA PassProgress ==
  ASSUME IInv, stack # << >>, Top.hunk \in HunksOf(Top.file),
         NEW g \in Files, NEW h \in Nat,
         Call("pass", Undecodable, g, h),
         Descends(Top, Frame(g, h)),
         Content[Top.file][Top.hunk] = At(g, h),
         UNCHANGED <<selfcache, faulty>>
  PROVE  Progress
<1> DEFINE caller == [Top EXCEPT !.at = "pass", !.held = Undecodable]
<1>1. Top \in Frames
  BY StackTop DEF IInv
<1>2. /\ caller.file = Top.file /\ caller.hunk = Top.hunk
      /\ caller.at = "pass"
  BY <1>1 DEF Frames
<1>3. Frame(g, h).file = g /\ Frame(g, h).hunk = h
  BY DEF Frame
<1>4. Waits(caller, Frame(g, h))
  BY <1>2, <1>3 DEF Waits, Descends
<1>5. CacheOK'
  BY CacheIsOK, CacheUnchanged
<1>6. QED
  BY <1>4, <1>5, CallProgress

LEMMA OutOfRangeProgress == IInv /\ OutOfRange => Progress
<1> SUFFICES ASSUME IInv, OutOfRange PROVE Progress
  OBVIOUS
<1>1. Right(Error, Top.file, Top.hunk, faulty)
  BY DEF OutOfRange, Right, At
<1>2. QED
  BY <1>1, ReturnProgress DEF OutOfRange, Entering

LEMMA FaultsProgress ==
  IInv /\ (MapEntryNotRead \/ StoredNotRead \/ ParentNoBuffer) => Progress
BY FaultProgress
DEF MapEntryNotRead, StoredNotRead, ParentNoBuffer, V5Parent, EnteringA, Entering

LEMMA ReadStoredProgress == IInv /\ ReadStored => Progress
<1> SUFFICES ASSUME IInv, ReadStored PROVE Progress
  OBVIOUS
<1>1. /\ stack # << >> /\ Top.hunk \in HunksOf(Top.file)
      /\ Stored(Top.file, Entry)
      /\ Return(Decoded(Entry.payload))
      /\ UNCHANGED <<selfcache, faulty>>
  BY DEF ReadStored, Entering
<1>2. At(Top.file, Top.hunk) = Entry.payload
  <2>1. Entry.type \notin {"hole", "self", "parent", "unknown"}
    BY <1>1, EntryIs, FormatOfType
  <2>2. Meaning(Top.file, Top.hunk) = Entry.payload
    BY <1>1, <2>1 DEF Meaning, Entry
  <2>3. QED
    BY <1>1, <2>2, EntryIs
<1>3. Right(Decoded(Entry.payload), Top.file, Top.hunk, faulty)
  BY <1>2 DEF Decoded, Right
<1>4. QED
  BY <1>1, <1>3, ReturnProgress

LEMMA ReadHoleProgress == IInv /\ ReadHole => Progress
<1> SUFFICES ASSUME IInv, ReadHole PROVE Progress
  OBVIOUS
<1>1. /\ stack # << >> /\ Top.hunk \in HunksOf(Top.file)
      /\ Entry.type = "hole"
      /\ UNCHANGED <<selfcache, faulty>>
  BY DEF ReadHole, EnteringA, Entering
<1>2. /\ Top \in Frames /\ Top.file \in Files /\ Top.hunk \in Nat
      /\ Parent \in Files \cup {NoFile}
      /\ At(Top.file, Top.hunk) = Content[Top.file][Top.hunk]
      /\ Content[Top.file][Top.hunk] = Meaning(Top.file, Top.hunk)
  BY <1>1, EntryIs
<1>3. ~Stored(Top.file, Entry)
  BY <1>1, EntryIs, FormatOfType
<1>4. Meaning(Top.file, Top.hunk) = IF Parent = NoFile THEN Zeros ELSE At(Parent, Top.hunk)
  BY <1>1, <1>3 DEF Meaning, Entry, Parent
<1>5. CASE Parent = NoFile
  <2>1. Zeros # Undecodable
    BY UnitsAssumption DEF Zeros, Datum
  <2>2. Right(Ok(Zeros), Top.file, Top.hunk, faulty)
    BY <1>2, <1>4, <1>5, <2>1 DEF Right
  <2>3. Return(Ok(Zeros))
    BY <1>5 DEF ReadHole
  <2>4. QED
    BY <1>1, <2>2, <2>3, ReturnProgress
<1>6. CASE Parent # NoFile
  <2>1. Call("pass", Undecodable, Parent, Top.hunk)
    BY <1>6 DEF ReadHole
  <2>2. Descends(Top, Frame(Parent, Top.hunk))
    BY <1>2, <1>6, ParentDescends DEF Parent
  <2>3. Content[Top.file][Top.hunk] = At(Parent, Top.hunk)
    BY <1>2, <1>4, <1>6
  <2>4. QED
    BY <1>1, <1>2, <1>6, <2>1, <2>2, <2>3, PassProgress
<1>7. QED
  BY <1>5, <1>6

LEMMA UnknownProgress == IInv /\ KnownTypes /\ UnknownType => Progress
<1> SUFFICES ASSUME IInv, KnownTypes, UnknownType PROVE Progress
  OBVIOUS
<1>1. /\ stack # << >> /\ Top.hunk \in HunksOf(Top.file)
      /\ Entry.type = "unknown"
      /\ UNCHANGED <<selfcache, faulty>>
  BY DEF UnknownType, EnteringA, Entering
<1>2. Top.file \in Files /\ Entry.type \in Types[Format[Top.file]]
  BY <1>1, EntryIs
<1>3. Format[Top.file] # "legacy"
  BY <1>1, <1>2 DEF KnownTypes, Entry
<1>4. ~Stored(Top.file, Entry)
  BY <1>1, EntryIs, FormatOfType
<1>5. At(Top.file, Top.hunk) = Undecodable
  BY <1>1, <1>4, EntryIs DEF Meaning, Entry
<1>6. Right(Error, Top.file, Top.hunk, faulty)
  BY <1>5 DEF Right
<1>7. Return(Error)
  BY <1>3 DEF UnknownType
<1>8. QED
  BY <1>1, <1>6, <1>7, ReturnProgress

(* What a self-reference means.                                            *)
LEMMA SelfMeans ==
  ASSUME IInv, EnteringA("self")
  PROVE  /\ stack # << >> /\ Top.hunk \in HunksOf(Top.file)
         /\ Top \in Frames /\ Top.file \in Files /\ Top.hunk \in Nat
         /\ Entry.offset \in Nat
         /\ At(Top.file, Top.hunk) = Content[Top.file][Top.hunk]
         /\ Entry.offset < Top.hunk =>
              /\ Content[Top.file][Top.hunk] = At(Top.file, Entry.offset)
              /\ Entry.offset \in HunksOf(Top.file)
              /\ Descends(Top, Frame(Top.file, Entry.offset))
         /\ ~(Entry.offset < Top.hunk) => Content[Top.file][Top.hunk] = Undecodable
<1>1. /\ stack # << >> /\ Top.hunk \in HunksOf(Top.file)
      /\ Entry.type = "self"
  BY DEF EnteringA, Entering
<1>2. /\ Top \in Frames /\ Top.file \in Files /\ Top.hunk \in Nat
      /\ Entry.offset \in Nat
      /\ At(Top.file, Top.hunk) = Content[Top.file][Top.hunk]
      /\ Content[Top.file][Top.hunk] = Meaning(Top.file, Top.hunk)
  BY <1>1, EntryIs
<1>3. ~Stored(Top.file, Entry)
  BY <1>1, EntryIs, FormatOfType
<1>4. Meaning(Top.file, Top.hunk) =
        IF Entry.offset < Top.hunk THEN At(Top.file, Entry.offset) ELSE Undecodable
  BY <1>1, <1>3 DEF Meaning, Entry
<1>5. Entry.offset < Top.hunk => Entry.offset \in HunksOf(Top.file)
  BY <1>1, <1>2, FilesAssumption DEF HunksOf
<1>6. Entry.offset < Top.hunk => Descends(Top, Frame(Top.file, Entry.offset))
  BY DEF Descends, Frame
<1>7. QED
  BY <1>1, <1>2, <1>4, <1>5, <1>6

LEMMA SelfNotBackwardProgress == IInv /\ SelfNotBackward => Progress
<1> SUFFICES ASSUME IInv, SelfNotBackward PROVE Progress
  OBVIOUS
<1>1. /\ EnteringA("self") /\ ~(Entry.offset < Top.hunk)
      /\ Return(Error) /\ UNCHANGED <<selfcache, faulty>>
  BY DEF SelfNotBackward, Backward
<1>2. Right(Error, Top.file, Top.hunk, faulty)
  BY <1>1, SelfMeans DEF Right
<1>3. QED
  BY <1>1, <1>2, SelfMeans, ReturnProgress

LEMMA LegacySelfProgress == IInv /\ LegacySelf => Progress
<1> SUFFICES ASSUME IInv, LegacySelf PROVE Progress
  OBVIOUS
<1>1. /\ EnteringA("self") /\ Entry.offset < Top.hunk
      /\ Call("pass", Undecodable, Top.file, Entry.offset)
      /\ UNCHANGED <<selfcache, faulty>>
  BY DEF LegacySelf, Backward
<1>2. QED
  BY <1>1, SelfMeans, PassProgress

LEMMA SelfHitProgress == IInv /\ SelfHit => Progress
<1> SUFFICES ASSUME IInv, SelfHit PROVE Progress
  OBVIOUS
<1> DEFINE data == selfcache_data[Top.file][SlotOf(Top.file, Entry.offset)]
<1>1. /\ EnteringA("self") /\ Entry.offset < Top.hunk
      /\ Resident(Top.file, Entry.offset)
      /\ Return(Ok(data))
      /\ UNCHANGED <<selfcache, faulty>>
  BY DEF SelfHit, Backward
<1>2. /\ data = At(Top.file, Entry.offset)
      /\ At(Top.file, Entry.offset) # Undecodable
  BY <1>1, SelfMeans, CacheIsOK, HitIsContent
<1>3. Right(Ok(data), Top.file, Top.hunk, faulty)
  BY <1>1, <1>2, SelfMeans DEF Right
<1>4. QED
  BY <1>1, <1>3, SelfMeans, ReturnProgress

LEMMA SelfMissProgress == IInv /\ SelfMiss => Progress
<1> SUFFICES ASSUME IInv, SelfMiss PROVE Progress
  OBVIOUS
<1> DEFINE caller == [Top EXCEPT !.at = "store", !.held = Undecodable]
<1>1. /\ EnteringA("self") /\ Entry.offset < Top.hunk
      /\ selfcache_ensure(Top.file)
      /\ Call("store", Undecodable, Top.file, Entry.offset)
      /\ UNCHANGED faulty
  BY DEF SelfMiss, Backward
<1>2. /\ stack # << >> /\ Top.hunk \in HunksOf(Top.file)
      /\ Top \in Frames /\ Top.file \in Files
      /\ Entry.offset \in Nat /\ Entry.offset \in HunksOf(Top.file)
      /\ Content[Top.file][Top.hunk] = At(Top.file, Entry.offset)
      /\ Descends(Top, Frame(Top.file, Entry.offset))
  BY <1>1, SelfMeans
<1>3. /\ caller.file = Top.file /\ caller.hunk = Top.hunk
      /\ caller.at = "store"
  BY <1>2 DEF Frames
<1>4. /\ Frame(Top.file, Entry.offset).file = Top.file
      /\ Frame(Top.file, Entry.offset).hunk = Entry.offset
  BY DEF Frame
<1>5. Waits(caller, Frame(Top.file, Entry.offset))
  BY <1>2, <1>3, <1>4 DEF Waits, Descends, Entry
<1>6. CacheOK'
  BY <1>1, <1>2, CacheIsOK, EnsureKeepsCache
<1>7. QED
  BY <1>1, <1>2, <1>5, <1>6, CallProgress

(* What a reference to the parent means.                                   *)
LEMMA ParentMeans ==
  ASSUME IInv, stack # << >>, Top.hunk \in HunksOf(Top.file), Entry.type = "parent"
  PROVE  /\ stack # << >> /\ Top.hunk \in HunksOf(Top.file)
         /\ Top \in Frames /\ Top.file \in Files /\ Top.hunk \in Nat
         /\ Entry.offset \in Nat
         /\ Parent \in Files \cup {NoFile}
         /\ Format[Top.file] \in {"v5", "legacy"}
         /\ At(Top.file, Top.hunk) = Content[Top.file][Top.hunk]
         /\ Parent = NoFile => Content[Top.file][Top.hunk] = Undecodable
         /\ (Parent # NoFile /\ Format[Top.file] = "legacy") =>
              Content[Top.file][Top.hunk] = At(Parent, Entry.offset)
         /\ (Parent # NoFile /\ Format[Top.file] = "v5") =>
              Content[Top.file][Top.hunk] = UnitsFrom(Parent, Entry.offset)
<1>1. /\ stack # << >> /\ Top.hunk \in HunksOf(Top.file)
      /\ Entry.type = "parent"
  OBVIOUS
<1>2. /\ Top \in Frames /\ Top.file \in Files /\ Top.hunk \in Nat
      /\ Entry.offset \in Nat
      /\ Parent \in Files \cup {NoFile}
      /\ At(Top.file, Top.hunk) = Content[Top.file][Top.hunk]
      /\ Content[Top.file][Top.hunk] = Meaning(Top.file, Top.hunk)
  BY <1>1, EntryIs
<1>3. ~Stored(Top.file, Entry) /\ Format[Top.file] \in {"v5", "legacy"}
  BY <1>1, EntryIs, FormatOfType
<1>4. Meaning(Top.file, Top.hunk) =
        IF Parent = NoFile THEN Undecodable
        ELSE IF Format[Top.file] = "legacy" THEN At(Parent, Entry.offset)
        ELSE UnitsFrom(Parent, Entry.offset)
  BY <1>1, <1>3 DEF Meaning, Entry, Parent
<1>5. QED
  BY <1>1, <1>2, <1>3, <1>4

LEMMA EnteringParent ==
  ASSUME EnteringA("parent")
  PROVE  stack # << >> /\ Top.hunk \in HunksOf(Top.file) /\ Entry.type = "parent"
BY DEF EnteringA, Entering

LEMMA ParentMissingProgress == IInv /\ ParentMissing => Progress
<1> SUFFICES ASSUME IInv, ParentMissing PROVE Progress
  OBVIOUS
<1>1. /\ EnteringA("parent") /\ Parent = NoFile
      /\ Return(Error) /\ UNCHANGED <<selfcache, faulty>>
  BY DEF ParentMissing
<1>2. Right(Error, Top.file, Top.hunk, faulty)
  BY <1>1, EnteringParent, ParentMeans DEF Right
<1>3. QED
  BY <1>1, <1>2, EnteringParent, ParentMeans, ReturnProgress

LEMMA LegacyParentProgress == IInv /\ LegacyParent => Progress
<1> SUFFICES ASSUME IInv, LegacyParent PROVE Progress
  OBVIOUS
<1>1. /\ EnteringA("parent") /\ Parent # NoFile /\ Format[Top.file] = "legacy"
      /\ Call("pass", Undecodable, Parent, Entry.offset)
      /\ UNCHANGED <<selfcache, faulty>>
  BY DEF LegacyParent
<1>2. Descends(Top, Frame(Parent, Entry.offset))
  BY <1>1, EnteringParent, ParentMeans, ParentDescends DEF Parent
<1>3. QED
  BY <1>1, <1>2, EnteringParent, ParentMeans, PassProgress

(* With fewer than 256 units the eight bits of units_in_hunk hold them     *)
(* all, and the two hunks that are read are those that hold the units.     *)
LEMMA ParentUnits ==
  ASSUME IInv, FewUnits, stack # << >>, Top.hunk \in HunksOf(Top.file),
         Entry.type = "parent", Format[Top.file] = "v5", Parent # NoFile
  PROVE  /\ unit_in_hunk = UnitOf(Top.file, Top.hunk)
         /\ HunkContaining = HunkOf(Top.file, Top.hunk)
         /\ HunkContaining \in Nat
         /\ unit_in_hunk \in Nat /\ unit_in_hunk < HunkUnits
         /\ Content[Top.file][Top.hunk] =
              IF unit_in_hunk = 0 THEN At(Parent, HunkContaining)
              ELSE Joined(At(Parent, HunkContaining), At(Parent, HunkContaining + 1),
                          unit_in_hunk)
<1>1. /\ unit_in_hunk = Entry.offset % HunkUnits
      /\ HunkContaining = Entry.offset \div HunkUnits
  BY UnitsFit DEF unit_in_hunk, HunkContaining
<1>2. Content[Top.file][Top.hunk] = UnitsFrom(Parent, Entry.offset)
  BY ParentMeans
<1>3. /\ unit_in_hunk \in Nat /\ unit_in_hunk < HunkUnits
      /\ HunkContaining \in Nat
  BY <1>1, ParentMeans, Division
<1>4. /\ unit_in_hunk = UnitOf(Top.file, Top.hunk)
      /\ HunkContaining = HunkOf(Top.file, Top.hunk)
  BY <1>1 DEF UnitOf, HunkOf, Entry
<1>5. UnitsFrom(Parent, Entry.offset) =
        IF unit_in_hunk = 0 THEN At(Parent, HunkContaining)
        ELSE Joined(At(Parent, HunkContaining), At(Parent, HunkContaining + 1), unit_in_hunk)
  BY <1>1 DEF UnitsFrom
<1>6. QED
  BY <1>2, <1>3, <1>4, <1>5

LEMMA ParentAlignedProgress == IInv /\ FewUnits /\ ParentAligned => Progress
<1> SUFFICES ASSUME IInv, FewUnits, ParentAligned PROVE Progress
  OBVIOUS
<1>1. /\ EnteringA("parent") /\ Parent # NoFile
      /\ Format[Top.file] = "v5"
      /\ unit_in_hunk = 0
      /\ Call("pass", Undecodable, Parent, HunkContaining)
      /\ UNCHANGED <<selfcache, faulty>>
  BY DEF ParentAligned, V5Parent
<1>2. /\ HunkContaining \in Nat
      /\ Content[Top.file][Top.hunk] = At(Parent, HunkContaining)
  BY <1>1, EnteringParent, ParentUnits
<1>3. Descends(Top, Frame(Parent, HunkContaining))
  BY <1>1, EnteringParent, ParentMeans, ParentDescends DEF Parent
<1>4. QED
  BY <1>1, <1>2, <1>3, EnteringParent, ParentMeans, PassProgress

LEMMA ParentUnalignedProgress == IInv /\ FewUnits /\ ParentUnaligned => Progress
<1> SUFFICES ASSUME IInv, FewUnits, ParentUnaligned PROVE Progress
  OBVIOUS
<1> DEFINE caller == [Top EXCEPT !.at = "first", !.held = Undecodable]
           callee == Frame(Parent, HunkContaining)
<1>1. /\ EnteringA("parent") /\ Parent # NoFile
      /\ Format[Top.file] = "v5" /\ Entry.type = "parent"
      /\ unit_in_hunk # 0
      /\ Call("first", Undecodable, Parent, HunkContaining)
      /\ UNCHANGED <<selfcache, faulty>>
  BY DEF ParentUnaligned, V5Parent, EnteringA
<1>2. /\ stack # << >> /\ Top.hunk \in HunksOf(Top.file)
      /\ Top \in Frames /\ Parent \in Files
  BY <1>1, EnteringParent, ParentMeans
<1>3. /\ unit_in_hunk = UnitOf(Top.file, Top.hunk)
      /\ HunkContaining = HunkOf(Top.file, Top.hunk)
      /\ HunkContaining \in Nat
  BY <1>1, EnteringParent, ParentUnits
<1>4. Descends(Top, callee)
  BY <1>1, <1>2, ParentDescends DEF Parent
<1>5. /\ caller.file = Top.file /\ caller.hunk = Top.hunk
      /\ caller.at = "first"
  BY <1>2 DEF Frames
<1>6. callee.file = Parent /\ callee.hunk = HunkContaining
  BY DEF Frame
<1> HIDE DEF caller, callee
<1>7. Waits(caller, callee)
  BY <1>1, <1>2, <1>3, <1>4, <1>5, <1>6 DEF Waits, Descends, Entry, Parent
<1>8. CacheOK'
  BY <1>1, CacheIsOK, CacheUnchanged
<1>9. QED
  BY <1>1, <1>2, <1>3, <1>7, <1>8, CallProgress DEF caller, callee

-----------------------------------------------------------------------------
(* The steps after a nested call.                                          *)

(* A call that resumes was waiting for a call that returned what is right. *)
LEMMA ResumingIs ==
  ASSUME IInv, NEW at, at # "call", Resuming(at)
  PROVE  /\ stack # << >> /\ Top.at = at
         /\ Top \in Frames /\ Top.file \in Files /\ Top.hunk \in Nat
         /\ faulty \in BOOLEAN
         /\ \E callee \in Frames :
              /\ Waits(Top, callee)
              /\ Right(result, callee.file, callee.hunk, faulty)
<1>1. stack # << >> /\ Top.at = at /\ result # Pending
  BY DEF Resuming
<1>2. Top \in Frames /\ Top.file \in Files /\ Top.hunk \in Nat
  BY <1>1, StackTop DEF IInv
<1>3. \E callee \in Frames :
        /\ Waits(Top, callee)
        /\ Right(result, callee.file, callee.hunk, faulty)
  BY <1>1 DEF IInv, TopOK
<1>4. QED
  BY <1>1, <1>2, <1>3 DEF IInv, TypeOK

LEMMA PassOnProgress == IInv /\ PassOn => Progress
<1> SUFFICES ASSUME IInv, PassOn PROVE Progress
  OBVIOUS
<1>1. Resuming("pass") /\ Return(result) /\ UNCHANGED <<selfcache, faulty>>
  BY DEF PassOn
<1>2. stack # << >> /\ Top.at = "pass" /\ Top.file \in Files
  BY <1>1, ResumingIs
<1>3. PICK callee \in Frames :
        /\ Waits(Top, callee)
        /\ Right(result, callee.file, callee.hunk, faulty)
  BY <1>1, ResumingIs
<1>4. At(Top.file, Top.hunk) = At(callee.file, callee.hunk)
  BY <1>2, <1>3 DEF Waits, At
<1>5. Right(result, Top.file, Top.hunk, faulty)
  BY <1>3, <1>4 DEF Right
<1>6. QED
  BY <1>1, <1>2, <1>5, ReturnProgress

LEMMA StoreTargetProgress == IInv /\ StoreTarget => Progress
<1> SUFFICES ASSUME IInv, StoreTarget PROVE Progress
  OBVIOUS
<1>1. /\ Resuming("store") /\ Return(result) /\ UNCHANGED faulty
      /\ result.status = "ok" => selfcache_store(Top.file, Entry.offset, result.data)
      /\ result.status # "ok" => UNCHANGED selfcache
  BY DEF StoreTarget
<1>2. /\ stack # << >> /\ Top.at = "store" /\ Top.file \in Files
      /\ faulty \in BOOLEAN
  BY <1>1, ResumingIs
<1>3. PICK callee \in Frames :
        /\ Waits(Top, callee)
        /\ Right(result, callee.file, callee.hunk, faulty)
  BY <1>1, ResumingIs
<1>4. /\ At(Top.file, Top.hunk) = At(callee.file, callee.hunk)
      /\ callee.file = Top.file /\ callee.hunk = Entry.offset
      /\ Entry.offset \in HunksOf(Top.file)
  BY <1>2, <1>3 DEF Waits, At, Entry
<1>5. Right(result, Top.file, Top.hunk, faulty)
  BY <1>3, <1>4 DEF Right
<1>6. CacheOK'
  <2>1. CASE result.status = "ok"
    <3>1. /\ result.data = Content[Top.file][Entry.offset]
          /\ result.data # Undecodable
      BY <1>3, <1>4, <2>1 DEF Right, Ok, Error, At
    <3>2. result.data \in Datum
      BY <1>2, <1>4, <3>1, ContentAssumption
    <3>3. QED
      BY <1>1, <1>2, <1>4, <2>1, <3>1, <3>2, CacheIsOK, StoreKeepsCache
  <2>2. CASE result.status # "ok"
    BY <1>1, <2>2, CacheIsOK, CacheUnchanged
  <2>3. QED
    BY <2>1, <2>2
<1>7. result \in Values
  BY <1>2, <1>5, ValueTyped
<1>8. Returns
  BY <1>1, <1>5, <1>7 DEF Returns
<1>9. QED
  BY <1>1, <1>2, <1>6, <1>8 DEF Progress

(* A call that assembles a hunk from two of the parent.                    *)
LEMMA HalvesAre ==
  ASSUME IInv, FewUnits, NEW at \in {"first", "second"}, Resuming(at)
  PROVE  /\ stack # << >> /\ Top.at = at
         /\ Top \in Frames /\ Top.file \in Files
         /\ Top.hunk \in HunksOf(Top.file)
         /\ Entry.type = "parent" /\ Format[Top.file] = "v5"
         /\ Parent \in Files /\ Parent # NoFile
         /\ unit_in_hunk = UnitOf(Top.file, Top.hunk)
         /\ HunkContaining = HunkOf(Top.file, Top.hunk)
         /\ HunkContaining \in Nat
         /\ unit_in_hunk \in Nat /\ unit_in_hunk < HunkUnits /\ unit_in_hunk # 0
         /\ At(Top.file, Top.hunk) =
              Joined(At(Parent, HunkContaining), At(Parent, HunkContaining + 1),
                     unit_in_hunk)
         /\ at = "first" => Right(result, Parent, HunkContaining, faulty)
         /\ at = "second" =>
              /\ Right(result, Parent, HunkContaining + 1, faulty)
              /\ Top.held = At(Parent, HunkContaining)
              /\ Top.held # Undecodable
<1>1. /\ stack # << >> /\ Top.at = at
      /\ Top \in Frames /\ Top.file \in Files /\ Top.hunk \in Nat
  BY ResumingIs
<1>2. PICK callee \in Frames :
        /\ Waits(Top, callee)
        /\ Right(result, callee.file, callee.hunk, faulty)
  BY ResumingIs
<1>3. /\ Top.hunk \in HunksOf(Top.file)
      /\ Entry.type = "parent" /\ Format[Top.file] = "v5"
      /\ Parent # NoFile
      /\ UnitOf(Top.file, Top.hunk) # 0
      /\ callee.file = Parent
      /\ at = "first" => callee.hunk = HunkOf(Top.file, Top.hunk)
      /\ at = "second" =>
           /\ callee.hunk = HunkOf(Top.file, Top.hunk) + 1
           /\ Top.held = At(Parent, HunkOf(Top.file, Top.hunk))
           /\ Top.held # Undecodable
  BY <1>1, <1>2 DEF Waits, Entry, Parent
<1>4. /\ Parent \in Files
      /\ At(Top.file, Top.hunk) = Content[Top.file][Top.hunk]
  BY <1>1, <1>3, ParentMeans
<1>5. /\ unit_in_hunk = UnitOf(Top.file, Top.hunk)
      /\ HunkContaining = HunkOf(Top.file, Top.hunk)
      /\ HunkContaining \in Nat
      /\ unit_in_hunk \in Nat /\ unit_in_hunk < HunkUnits
      /\ Content[Top.file][Top.hunk] =
              IF unit_in_hunk = 0 THEN At(Parent, HunkContaining)
              ELSE Joined(At(Parent, HunkContaining), At(Parent, HunkContaining + 1),
                          unit_in_hunk)
  BY <1>1, <1>3, ParentUnits
<1>6. QED
  BY <1>1, <1>2, <1>3, <1>4, <1>5

LEMMA FirstHalfFailsProgress == IInv /\ FewUnits /\ FirstHalfFails => Progress
<1> SUFFICES ASSUME IInv, FewUnits, FirstHalfFails PROVE Progress
  OBVIOUS
<1>1. /\ Resuming("first") /\ result.status = "error" /\ Return(Error)
      /\ UNCHANGED <<selfcache, faulty>>
  BY DEF FirstHalfFails
<1>2. faulty \/ At(Parent, HunkContaining) = Undecodable
  BY <1>1, HalvesAre DEF Right, Ok
<1>3. At(Parent, HunkContaining) = Undecodable => At(Top.file, Top.hunk) = Undecodable
  BY <1>1, HalvesAre DEF Joined
<1>4. Right(Error, Top.file, Top.hunk, faulty)
  BY <1>2, <1>3 DEF Right
<1>5. QED
  BY <1>1, <1>4, HalvesAre, ReturnProgress

LEMMA SecondHalfNextProgress == IInv /\ FewUnits /\ SecondHalfNext => Progress
<1> SUFFICES ASSUME IInv, FewUnits, SecondHalfNext PROVE Progress
  OBVIOUS
<1> DEFINE next == HunkContaining + 1
           caller == [Top EXCEPT !.at = "second", !.held = result.data]
           callee == Frame(Parent, next)
<1>1. /\ Resuming("first") /\ result.status = "ok"
      /\ Call("second", result.data, Parent, next)
      /\ UNCHANGED <<selfcache, faulty>>
  BY DEF SecondHalfNext
<1>2. /\ stack # << >> /\ Top \in Frames /\ Top.hunk \in HunksOf(Top.file)
      /\ Entry.type = "parent" /\ Format[Top.file] = "v5"
      /\ Parent \in Files /\ Parent # NoFile
      /\ unit_in_hunk = UnitOf(Top.file, Top.hunk) /\ unit_in_hunk # 0
      /\ HunkContaining = HunkOf(Top.file, Top.hunk)
      /\ HunkContaining \in Nat
      /\ Right(result, Parent, HunkContaining, faulty)
  BY <1>1, HalvesAre
<1>3. /\ result.data = At(Parent, HunkContaining)
      /\ result.data # Undecodable
  BY <1>1, <1>2 DEF Right, Ok, Error
<1>4. result.data \in Datum \cup {Undecodable}
  BY <1>2, <1>3, AtTyped
<1>5. next \in Nat
  BY <1>2
<1>6. /\ caller.file = Top.file /\ caller.hunk = Top.hunk
      /\ caller.at = "second" /\ caller.held = result.data
  BY <1>2 DEF Frames
<1>7. callee.file = Parent /\ callee.hunk = next
  BY DEF Frame
<1>8. Descends(Top, callee)
  BY <1>2, ParentDescends DEF Parent
<1>9. next = HunkOf(Top.file, Top.hunk) + 1
  BY <1>2
<1> HIDE DEF caller, callee, next
<1>10. Waits(caller, callee)
  BY <1>2, <1>3, <1>6, <1>7, <1>8, <1>9 DEF Waits, Descends, Entry, Parent
<1>11. CacheOK'
  BY <1>1, CacheIsOK, CacheUnchanged
<1>12. QED
  BY <1>1, <1>2, <1>4, <1>5, <1>10, <1>11, CallProgress DEF caller, callee

LEMMA BothHalvesProgress == IInv /\ FewUnits /\ BothHalves => Progress
<1> SUFFICES ASSUME IInv, FewUnits, BothHalves PROVE Progress
  OBVIOUS
<1> DEFINE value == IF result.status = "ok" THEN Ok(Assembled(Top.held, result.data)) ELSE Error
<1>1. Resuming("second") /\ Return(value) /\ UNCHANGED <<selfcache, faulty>>
  BY DEF BothHalves
<1>2. /\ stack # << >>
      /\ Parent \in Files
      /\ unit_in_hunk \in Nat /\ unit_in_hunk < HunkUnits
      /\ At(Top.file, Top.hunk) =
           Joined(At(Parent, HunkContaining), At(Parent, HunkContaining + 1), unit_in_hunk)
      /\ Right(result, Parent, HunkContaining + 1, faulty)
      /\ Top.held = At(Parent, HunkContaining)
      /\ Top.held # Undecodable
  BY <1>1, HalvesAre
<1>3. CASE result.status = "ok"
  <2>1. /\ result.data = At(Parent, HunkContaining + 1)
        /\ result.data # Undecodable
    BY <1>2, <1>3 DEF Right, Ok, Error
  <2>2. Top.held \in Datum /\ result.data \in Datum
    BY <1>2, <2>1, AtTyped
  <2>3. Assembled(Top.held, result.data) = Joined(Top.held, result.data, unit_in_hunk)
    <3>1. units_in_hunk = HunkUnits /\ HunkUnits \in Nat
      BY UnitsFit, UnitsAssumption
    <3>2. QED
      BY <1>2, <2>1, <3>1 DEF Assembled, Joined
  <2>4. At(Top.file, Top.hunk) = Joined(Top.held, result.data, unit_in_hunk)
    BY <1>2, <2>1
  <2>5. At(Top.file, Top.hunk) # Undecodable
    BY <1>2, <2>2, <2>4, JoinedTyped
  <2>6. Right(value, Top.file, Top.hunk, faulty)
    BY <1>3, <2>3, <2>4, <2>5 DEF Right
  <2>7. QED
    BY <1>1, <1>2, <2>6, ReturnProgress
<1>4. CASE result.status # "ok"
  <2>1. faulty \/ At(Parent, HunkContaining + 1) = Undecodable
    BY <1>2, <1>4 DEF Right, Ok
  <2>2. At(Parent, HunkContaining + 1) = Undecodable => At(Top.file, Top.hunk) = Undecodable
    BY <1>2 DEF Joined
  <2>3. Right(value, Top.file, Top.hunk, faulty)
    BY <1>4, <2>1, <2>2 DEF Right
  <2>4. QED
    BY <1>1, <1>2, <2>3, ReturnProgress
<1>5. QED
  BY <1>3, <1>4

LEMMA StepProgress == IInv /\ FewUnits /\ KnownTypes /\ Step => Progress
BY OutOfRangeProgress, FaultsProgress, ReadStoredProgress, ReadHoleProgress,
   UnknownProgress, SelfNotBackwardProgress, LegacySelfProgress, SelfHitProgress,
   SelfMissProgress, ParentMissingProgress, LegacyParentProgress,
   ParentAlignedProgress, ParentUnalignedProgress, PassOnProgress,
   StoreTargetProgress, FirstHalfFailsProgress, SecondHalfNextProgress,
   BothHalvesProgress
   DEF Step

LEMMA ProgressPreserves == IInv /\ Progress /\ UNCHANGED request => IInv'
<1> SUFFICES ASSUME IInv, Progress, UNCHANGED request PROVE IInv'
  OBVIOUS
<1>1. /\ stack # << >> /\ faulty' \in BOOLEAN /\ CacheOK'
      /\ Returns \/ Calls
  BY DEF Progress
<1>2. CASE Returns
  <2>1. PICK v \in Values : Return(v) /\ Right(v, Top.file, Top.hunk, faulty')
    BY <1>2 DEF Returns
  <2>2. QED
    BY <1>1, <2>1, ReturnPreserves
<1>3. CASE Calls
  <2>1. PICK next \in {"store", "pass", "first", "second"},
             held \in Datum \cup {Undecodable},
             g \in Files, h \in Nat :
          /\ Call(next, held, g, h)
          /\ Waits([Top EXCEPT !.at = next, !.held = held], Frame(g, h))
    BY <1>3 DEF Calls
  <2>2. QED
    BY <1>1, <2>1, CallPreserves
<1>4. QED
  BY <1>1, <1>2, <1>3

LEMMA InitEstablishes == Init => IInv
<1> SUFFICES ASSUME Init PROVE IInv
  OBVIOUS
<1>1. 0 \in Slots
  BY CacheAssumption DEF Slots
<1>2. CacheOK
  BY <1>1 DEF Init, CacheOK, CacheFaithful, NoneTwice
<1>3. /\ stack \in Seq(Frames) /\ stack = << >>
      /\ reply = Pending /\ result = Pending /\ Pending \in Values
      /\ request \in Requests \cup {NoRequest}
      /\ faulty \in BOOLEAN
  <2>1. stack = << >> /\ reply = Pending /\ result = Pending /\ request = NoRequest
    BY DEF Init
  <2>2. stack \in Seq(Frames)
    BY <2>1
  <2>3. Pending \in Values
    BY DEF Pending, Values
  <2>4. faulty \in BOOLEAN
    BY DEF Init
  <2>5. QED
    BY <2>1, <2>2, <2>3, <2>4
<1>4. TypeOK
  BY <1>2, <1>3 DEF TypeOK, CacheOK
<1>5. StackOK /\ TopOK
  BY <1>3 DEF StackOK, TopOK
<1>6. BottomOK
  BY <1>3 DEF BottomOK, Pending
<1>7. QED
  BY <1>2, <1>4, <1>5, <1>6 DEF IInv, CacheOK

LEMMA AskingPreserves ==
  ASSUME IInv, NEW f \in Files, NEW h \in 0 .. TotalHunks[f], chd_read(f, h)
  PROVE  IInv'
<1>1. /\ stack' = <<Frame(f, h)>>
      /\ request' = [file |-> f, hunk |-> h]
      /\ reply' = Pending /\ result' = Pending /\ faulty' = FALSE
      /\ UNCHANGED selfcache
  BY DEF chd_read
<1>2. h \in Nat
  BY FilesAssumption
<1>3. /\ Frame(f, h) \in Frames
      /\ Frame(f, h).file = f /\ Frame(f, h).hunk = h /\ Frame(f, h).at = "call"
  BY <1>2 DEF Frame, Frames
<1>4. /\ stack' \in Seq(Frames) /\ Len(stack') = 1 /\ stack'[1] = Frame(f, h)
  BY <1>1, <1>3
<1>5. CacheOK'
  BY <1>1, CacheIsOK, CacheUnchanged
<1>6. request' \in Requests /\ Requests' = Requests
  BY <1>1 DEF Requests
<1>7. Pending \in Values
  BY DEF Pending, Values
<1>8. TypeOK'
  BY <1>1, <1>4, <1>5, <1>6, <1>7 DEF TypeOK, CacheOK
<1>9. StackOK'
  BY <1>4 DEF StackOK
<1>10. TopOK'
  <2>1. Top' = Frame(f, h)
    BY <1>4 DEF Top
  <2>2. QED
    BY <1>1, <1>3, <2>1 DEF TopOK
<1>11. BottomOK'
  <2>1. request'.file = f /\ request'.hunk = h
    BY <1>1
  <2>2. reply'.status # "ok"
    BY <1>1 DEF Pending
  <2>3. QED
    BY <1>1, <1>3, <1>4, <1>6, <2>1, <2>2 DEF BottomOK
<1>12. QED
  BY <1>5, <1>8, <1>9, <1>10, <1>11 DEF IInv, CacheOK

LEMMA StepPreserves ==
  FewUnits /\ KnownTypes /\ IInv /\ [Next]_vars => IInv'
<1> SUFFICES ASSUME FewUnits, KnownTypes, IInv, [Next]_vars PROVE IInv'
  OBVIOUS
<1>1. CASE Step /\ UNCHANGED request
  BY <1>1, StepProgress, ProgressPreserves
<1>2. CASE \E f \in Files : \E h \in 0 .. TotalHunks[f] : chd_read(f, h)
  BY <1>2, AskingPreserves
<1>3. CASE UNCHANGED vars
  <2>1. /\ UNCHANGED <<stack, result, request, reply, faulty>>
        /\ UNCHANGED selfcache
    BY <1>3 DEF vars, selfcache
  <2>2. CacheOK'
    BY <2>1, CacheIsOK, CacheUnchanged
  <2>3. TypeOK'
    BY <2>1, <2>2 DEF IInv, TypeOK, CacheOK, Requests
  <2>4. StackOK' /\ TopOK'
    BY <2>1 DEF IInv, StackOK, TopOK, Top
  <2>5. BottomOK'
    BY <2>1 DEF IInv, BottomOK, Requests
  <2>6. QED
    BY <2>2, <2>3, <2>4, <2>5 DEF IInv, CacheOK
<1>4. QED
  BY <1>1, <1>2, <1>3 DEF Next

-----------------------------------------------------------------------------
(* The theorems.                                                           *)

THEOREM Invariance ==
  ASSUME FewUnits, KnownTypes PROVE Spec => []IInv
<1>1. QED
  BY InitEstablishes, StepPreserves, PTL DEF Spec

(* Every variable keeps its shape: in particular what a nested call hands  *)
(* up is a whole hunk with every unit written, or nothing.                 *)
THEOREM TypeCorrect ==
  ASSUME FewUnits, KnownTypes PROVE Spec => []TypeOK
<1>1. IInv => TypeOK
  BY DEF IInv
<1>2. QED
  BY <1>1, Invariance, PTL

(* The self-reference cache holds decoded content and nothing else, after  *)
(* any sequence of reads, failures and evictions.                          *)
THEOREM CacheIsFaithful ==
  ASSUME FewUnits, KnownTypes PROVE Spec => []CacheFaithful
<1>1. IInv => CacheFaithful
  BY DEF IInv
<1>2. QED
  BY <1>1, Invariance, PTL

(* No map makes the reader call itself for ever: every nested call is for  *)
(* an earlier hunk of the file, or for a file below it.                    *)
THEOREM RecursionDescends ==
  ASSUME FewUnits, KnownTypes PROVE Spec => []CallsDescend
<1>1. IInv => CallsDescend
  BY DEF IInv, StackOK, Waits, Descends, CallsDescend
<1>2. QED
  BY <1>1, Invariance, PTL

(* What chd_read reports as read is the content of the hunk.               *)
THEOREM AnswersAreFaithful ==
  ASSUME FewUnits, KnownTypes PROVE Spec => []AnswersFaithful
<1>1. IInv => AnswersFaithful
  BY DEF IInv, BottomOK, AnswersFaithful
<1>2. QED
  BY <1>1, Invariance, PTL

LEMMA InitImplements == Init => Service!Init
BY DEF Init, Service!Init, Pending, Service!Pending

LEMMA ProgressImplements ==
  ASSUME IInv, Progress, UNCHANGED request
  PROVE  [Service!Next]_<<request, reply, faulty>>
<1>1. /\ stack # << >> /\ faulty \in BOOLEAN /\ faulty' \in BOOLEAN
      /\ faulty => faulty'
      /\ request \in Requests
      /\ reply = Pending
      /\ stack[1].file = request.file /\ stack[1].hunk = request.hunk
  BY DEF Progress, IInv, TypeOK, BottomOK
<1>2. CASE reply' = reply
  <2>1. CASE faulty' = faulty
    BY <1>2, <2>1
  <2>2. CASE faulty' # faulty
    <3>1. Service!Fault
      BY <1>1, <1>2, <2>2 DEF Service!Fault, Service!Pending, Pending
    <3>2. QED
      BY <3>1 DEF Service!Next
  <2>3. QED
    BY <2>1, <2>2
<1>3. CASE reply' # reply
  <2>1. ~Calls
    BY <1>3 DEF Calls, Call
  <2>2. PICK v \in Values : Return(v) /\ Right(v, Top.file, Top.hunk, faulty')
    BY <2>1 DEF Progress, Returns
  <2>3. Len(stack) = 1 /\ reply' = v
    BY <1>3, <2>2 DEF Return
  <2>4. Top.file = request.file /\ Top.hunk = request.hunk
    BY <1>1, <2>3 DEF Top
  <2>5. [r \in Requests |-> At(r.file, r.hunk)][request] = At(request.file, request.hunk)
    BY <1>1
  <2>6. CASE v = Ok(At(request.file, request.hunk)) /\ At(request.file, request.hunk) # Undecodable
    <3>1. Service!Deliver
      BY <1>1, <2>3, <2>5, <2>6 DEF Service!Deliver, Service!Pending, Pending, Ok
    <3>2. QED
      BY <3>1 DEF Service!Next
  <2>7. CASE v = Error /\ (faulty' \/ At(request.file, request.hunk) = Undecodable)
    <3>1. Service!Fail
      BY <1>1, <2>3, <2>5, <2>7 DEF Service!Fail, Service!Pending, Pending, Error
    <3>2. QED
      BY <3>1 DEF Service!Next
  <2>8. QED
    BY <2>2, <2>4, <2>6, <2>7 DEF Right
<1>4. QED
  BY <1>2, <1>3

LEMMA StepImplements ==
  FewUnits /\ KnownTypes /\ IInv /\ [Next]_vars
    => [Service!Next]_<<request, reply, faulty>>
<1> SUFFICES ASSUME FewUnits, KnownTypes, IInv, [Next]_vars
             PROVE  [Service!Next]_<<request, reply, faulty>>
  OBVIOUS
<1>1. CASE Step /\ UNCHANGED request
  BY <1>1, StepProgress, ProgressImplements
<1>2. CASE \E f \in Files : \E h \in 0 .. TotalHunks[f] : chd_read(f, h)
  <2>0. PICK f \in Files : \E h \in 0 .. TotalHunks[f] : chd_read(f, h)
    BY <1>2
  <2>1. PICK h \in 0 .. TotalHunks[f] : chd_read(f, h)
    BY <2>0
  <2>2. request' \in Requests /\ reply' = Pending /\ faulty' = FALSE
    BY <2>1 DEF chd_read, Requests
  <2>3. Service!Begin(request')
    BY <2>2 DEF Service!Begin, Service!Pending, Pending
  <2>4. QED
    BY <2>2, <2>3 DEF Service!Next
<1>3. CASE UNCHANGED vars
  BY <1>3 DEF vars
<1>4. QED
  BY <1>1, <1>2, <1>3 DEF Next

(* chd_read, with its references, its recursion and its cache, implements  *)
(* HunkService: a hunk's content or an error with a reason, whatever the   *)
(* map and however reads of children and parents follow one another.       *)
THEOREM ReadsImplementTheService ==
  ASSUME FewUnits, KnownTypes PROVE Spec => ReadsAreTransparent
<1>1. QED
  BY InitImplements, StepImplements, Invariance, PTL
  DEF Spec, ReadsAreTransparent, Service!Spec

=============================================================================
