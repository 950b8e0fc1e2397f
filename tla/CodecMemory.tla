------------------------------ MODULE CodecMemory ------------------------------
(***************************************************************************)
(* The memory behind an lzma decoder and, with CHDR_SYSTEM_ZLIB, behind    *)
(* the inflater: a table of blocks that are reused when a request of the   *)
(* same rounded size comes, and only freed with the codec (lzma_fast_alloc *)
(* and zlib_fast_alloc and what goes with them, libchdr_codec_lzma.c and   *)
(* libchdr_codec_zlib.c).  A block starts with a word that holds its       *)
(* rounded size, with the low bit set while the block is given out.        *)
(*                                                                         *)
(* The library that asks is external: it asks for sizes of Sizes and gives *)
(* back what it got.                                                       *)
(***************************************************************************)
EXTENDS Integers, FiniteSets, FiniteSetsExt

CONSTANTS
  Sizes,         \* the sizes asked for
  Grain,         \* 0x400, what sizes are rounded to
  TableSlots,    \* MAX_LZMA_ALLOCS, MAX_ZLIB_ALLOCS
  MaxBlocks,     \* bound: blocks malloc'ed in a run
  DecoderHunks   \* the values of hunkbytes an lzma decoder is made for

ASSUME MemoryAssumption ==
  /\ Sizes \subseteq Nat
  /\ Grain \in Nat /\ Grain > 1 /\ Grain % 2 = 0
  /\ TableSlots \in Nat \ {0} /\ MaxBlocks \in Nat
  /\ DecoderHunks \subseteq Nat \ {0}

VARIABLES
  codec,         \* "none", "made" or "freed"
  table,         \* per slot the block and, as long as it exists, its word
  heap,          \* the blocks malloc'ed and not freed
  blocks,        \* the blocks malloc'ed so far
  given,         \* what the library holds: [address, size]
  peak,          \* per rounded size, the blocks held at once so far
  swallowed,     \* blocks the table had no slot for
  dictionary     \* [hunk, size], of the decoder's properties

memvars == <<codec, table, heap, blocks, given, peak, swallowed, dictionary>>

-----------------------------------------------------------------------------
(* lzma_compute_aligned_dictionary_size.                                   *)

DefaultDictionary == 2 ^ 26    \* of level 6
SmallestDictionary == 2 ^ 12   \* kReduceMin
RoundedFrom == 2 ^ 21
Mega == 2 ^ 20

Reduced_MaxForMin(hunkbytes) == IF DefaultDictionary > hunkbytes THEN DefaultDictionary ELSE hunkbytes
Reduced(hunkbytes) ==
  IF DefaultDictionary <= hunkbytes THEN DefaultDictionary
  ELSE LET atleast == IF hunkbytes > SmallestDictionary THEN hunkbytes ELSE SmallestDictionary
       IN  IF atleast < DefaultDictionary THEN atleast ELSE DefaultDictionary

(* The i-th size that fits the two bits of the stream's properties.        *)
Representable(i) == (2 + (i % 2)) * 2 ^ (i \div 2)

lzma_compute_aligned_dictionary_size(hunkbytes) ==
  LET wanted == Reduced(hunkbytes)
      from[i \in 22 .. 48] == IF Representable(i) < wanted THEN from[i + 1] ELSE Representable(i)
  IN  IF wanted >= RoundedFrom THEN ((wanted + Mega - 1) \div Mega) * Mega ELSE from[22]

-----------------------------------------------------------------------------
NoBlock == 0
PoolSlots == 1 .. TableSlots
EmptySlot == [block |-> NoBlock, word |-> 0]

Rounded(size) == ((size + Grain - 1) \div Grain) * Grain

InUse(word) == word % 2 = 1
Claimed_Never(word) == word
Claimed(word) == IF InUse(word) THEN word ELSE word + 1
Released(word) == IF InUse(word) THEN word - 1 ELSE word

(* The slots whose block serves a request, and the slots without one.      *)
Serving_LargerToo(size) == {s \in PoolSlots : table[s].block # NoBlock /\ table[s].word <= Rounded(size)}
Serving(size) == {s \in PoolSlots : table[s].block # NoBlock /\ table[s].word = Rounded(size)}
Empty == {s \in PoolSlots : table[s].block = NoBlock}
FirstOf(slots) == {s \in slots : \A t \in slots : s <= t}

HeldNow(size) == Cardinality({g \in given : Rounded(g.size) = size})
Gave(block, size) ==
  /\ given' = given \cup {[address |-> block, size |-> size]}
  /\ peak' = [peak EXCEPT ![Rounded(size)] = IF HeldNow(Rounded(size)) + 1 > @ THEN @ + 1 ELSE @]

(* lzma_allocator_init, or the memset of zlib_codec_init, and the codec.   *)
Codec_init ==
  /\ codec = "none"
  /\ codec' = "made"
  /\ table' = [s \in PoolSlots |-> EmptySlot]
  /\ \E h \in DecoderHunks :
       dictionary' = [hunk |-> h, size |-> lzma_compute_aligned_dictionary_size(h)]
  /\ UNCHANGED <<heap, blocks, given, peak, swallowed>>

Reuse(size) ==
  /\ codec = "made"
  /\ \E s \in FirstOf(Serving(size)) :
       /\ table' = [table EXCEPT ![s].word = Claimed(@)]
       /\ Gave(table[s].block, size)
  /\ UNCHANGED <<codec, heap, blocks, swallowed, dictionary>>

NewBlock(size) ==
  /\ codec = "made"
  /\ Serving(size) = {}
  /\ blocks < MaxBlocks
  /\ blocks' = blocks + 1
  /\ heap' = heap \cup {blocks + 1}
  /\ \E s \in FirstOf(Empty) :
       table' = [table EXCEPT ![s] = [block |-> blocks + 1, word |-> Claimed(Rounded(size))]]
  /\ Gave(blocks + 1, size)
  /\ UNCHANGED <<codec, swallowed, dictionary>>

(* No slot is left: the block is neither stored nor returned.              *)
NoSlot(size) ==
  /\ codec = "made"
  /\ Serving(size) = {}
  /\ Empty = {} /\ blocks < MaxBlocks
  /\ blocks' = blocks + 1
  /\ heap' = heap \cup {blocks + 1}
  /\ swallowed' = swallowed \cup {blocks + 1}
  /\ UNCHANGED <<codec, table, given, peak, dictionary>>

(* NULL: there is no memory.                                               *)
NoMemory(size) ==
  /\ codec = "made"
  /\ Serving(size) = {}
  /\ UNCHANGED memvars

fast_alloc(size) == Reuse(size) \/ NewBlock(size) \/ NoSlot(size) \/ NoMemory(size)

fast_free(g) ==
  /\ codec = "made"
  /\ given' = given \ {g}
  /\ table' = [s \in PoolSlots |-> IF table[s].block = g.address
                                 THEN [table[s] EXCEPT !.word = Released(@)] ELSE table[s]]
  /\ UNCHANGED <<codec, heap, blocks, peak, swallowed, dictionary>>

(* LzmaDec_FreeProbs or inflateEnd, and the allocator's own free.          *)
FreedBlocks == {table[s].block : s \in PoolSlots} \ {NoBlock}

allocator_free ==
  /\ codec = "made"
  /\ codec' = "freed"
  /\ heap' = heap \ FreedBlocks
  /\ given' = {}
  /\ UNCHANGED <<table, blocks, peak, swallowed, dictionary>>

(* The next file is opened with a codec state of its own.                  *)
NextCodec ==
  /\ codec = "freed"
  /\ codec' = "none"
  /\ peak' = [n \in {Rounded(m) : m \in Sizes} |-> 0]
  /\ UNCHANGED <<table, heap, blocks, given, swallowed, dictionary>>

-----------------------------------------------------------------------------
MemoryInit ==
  /\ codec = "none"
  /\ table = [s \in PoolSlots |-> EmptySlot]
  /\ heap = {} /\ blocks = 0 /\ given = {} /\ swallowed = {}
  /\ peak = [n \in {Rounded(m) : m \in Sizes} |-> 0]
  /\ dictionary = [hunk |-> 0, size |-> 0]

MemoryNext ==
  \/ Codec_init \/ allocator_free \/ NextCodec
  \/ \E n \in Sizes : fast_alloc(n)
  \/ \E g \in given : fast_free(g)

MemorySpec == MemoryInit /\ [][MemoryNext]_memvars

-----------------------------------------------------------------------------
(* Properties.                                                             *)

Promise == INSTANCE Allocator WITH Addresses <- 1 .. MaxBlocks

(* The memory behaves as malloc() and free() do: no block is given out a   *)
(* second time before it was given back, whatever was asked and freed in   *)
(* between (lzma_fast_alloc, zlib_fast_alloc and their frees).             *)
LendsLikeMalloc == Promise!AllocatorSpec

(* A block that is given out is alive, is marked in the table and has room *)
(* for what was asked; one that is not can be given out again.             *)
GivenBlocksFit ==
  codec = "made" =>
    \A s \in PoolSlots : table[s].block # NoBlock =>
      /\ table[s].block \in heap
      /\ InUse(table[s].word) <=> \E g \in given : g.address = table[s].block
      /\ \A g \in given : g.address = table[s].block => g.size <= Released(table[s].word)

(* The table does not grow with the calls: it has as many blocks of a size *)
(* as were held at once, so that a decoder that asks and frees over and    *)
(* over never fills it, and a full table never swallows a block.           *)
TableIsAsLargeAsThePeak ==
  codec = "made" =>
    \A n \in DOMAIN peak :
      Cardinality({s \in PoolSlots : table[s].block # NoBlock /\ Released(table[s].word) = n}) = peak[n]

(* Once the codec is freed none of its blocks is left, but those the table *)
(* had no slot for.                                                        *)
NoBlockStays == codec # "made" => heap = swallowed

(* The dictionary is never smaller than the one the encoder used, which    *)
(* would corrupt what refers back further, and no larger than the next     *)
(* size an LZMA stream can state: what "any deviation that yields a        *)
(* smaller dictionary than the real encoder used will silently corrupt"    *)
(* is about.                                                               *)
StreamSizes == {2 ^ n : n \in 12 .. 21} \cup {3 * 2 ^ n : n \in 11 .. 20}
EncoderUsed(hunkbytes) ==
  Min({DefaultDictionary, Max({hunkbytes, SmallestDictionary})})
DictionaryIsTheEncoders ==
  codec = "made" =>
    LET used == EncoderUsed(dictionary.hunk)
    IN  IF used <= 2 ^ 21
          THEN dictionary.size = Min({n \in StreamSizes : n >= used})
          ELSE dictionary.size - used \in 0 .. 2 ^ 20 - 1 /\ dictionary.size % 2 ^ 20 = 0

(* The table of kept blocks tells the truth about the heap, grows only to  *)
(* the peak, and is emptied with the codec.                                *)
PoolIsSound == GivenBlocksFit /\ TableIsAsLargeAsThePeak /\ NoBlockStays
==============================================================================
