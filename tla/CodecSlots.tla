------------------------------ MODULE CodecSlots ------------------------------
(***************************************************************************)
(* The codecs of a CHDv5 handle: up to SlotCount compressors named by the  *)
(* header, each with a state that is initialised step by step and that     *)
(* slots of the same codec share, and the subcode inflater the CD codecs   *)
(* borrow from the handle.  By default every codec is initialised when the *)
(* file is opened (chd_open_core_file_callbacks); under LOWRAM_TARGET each *)
(* is when the first hunk needs it (ensure_codec_ready).  chd_close()      *)
(* frees what is there, also when the open itself fails half-way.          *)
(*                                                                         *)
(* Memory is what matters: which parts of a codec state are allocated,     *)
(* which were overwritten while they still were, and whether a free        *)
(* function runs on a state it cannot cope with.  The bundled inflater     *)
(* (not CHDR_SYSTEM_ZLIB) and dr_flac are assumed, with WANT_SUBCODE.      *)
(***************************************************************************)
EXTENDS Integers, Sequences, FiniteSets

CONSTANTS
  Builds,      \* the builds considered: is LOWRAM_TARGET set?
  SlotCount,   \* the length of header.compression
  Headers(_),  \* the values of header.compression considered, for a build
  HunkSizes    \* how hunkbytes divides: "frames", "samples" or "odd"

Codecs == {"zlib", "lzma", "huff", "flac", "zstd",
           "cdzl", "cdlz", "cdfl", "cdzs", "avhuff"}
NoCodec == "none"       \* CHDCOMPRESSION_NONE: an interface without functions
Foreign == "foreign"    \* a tag codec_interfaces[] does not have

Slots == 1 .. SlotCount

ASSUME SlotAssumption ==
  /\ Builds \subseteq BOOLEAN
  /\ SlotCount \in Nat \ {0}
  /\ \A b \in BOOLEAN : Headers(b) \subseteq [Slots -> Codecs \cup {NoCodec, Foreign}]
  /\ HunkSizes \subseteq {"frames", "samples", "odd"}

VARIABLES
  lazybuild,        \* LOWRAM_TARGET, of the build
  compression,   \* header.compression
  hunks,         \* what hunkbytes is a multiple of
  phase,         \* "opening", "closing", "open", "closed" or "crashed"
  next,          \* the slot the open is at; those before it are resolved
  held,          \* per codec, the parts of its state that are there
  lost,          \* parts overwritten while they were allocated
  again,         \* codecs initialised although they already were
  ready,         \* codecs whose init has succeeded
  lazy,          \* codec_lazy_initialized: slots
  shared,        \* subcode_shared.inflater: "none", "held" or "freed"
  unready        \* codecs that were asked to decompress without their state

slotvars == <<lazybuild, compression, hunks, phase, next, held, lost, again, ready, lazy,
          shared, unready>>

-----------------------------------------------------------------------------
(* The init functions, step by step.                                       *)

(* "frames" and "samples" check hunkbytes; "callbacks" stores the function *)
(* pointers of the lzma allocator; "lent" keeps the inflater borrowed from *)
(* the handle; "stream" clears a FLAC decoder.  Every other step allocates.*)
Steps ==
  [zlib   |-> <<"inflater">>,
   lzma   |-> <<"callbacks", "probs">>,
   huff   |-> <<"decoder">>,
   flac   |-> <<"samples", "stream">>,
   zstd   |-> <<"dstream">>,
   cdzl   |-> <<"frames", "buffer", "inflater", "lent">>,
   cdlz   |-> <<"buffer", "callbacks", "probs", "lent", "frames">>,
   cdfl   |-> <<"frames", "buffer", "lent", "stream">>,
   cdzs   |-> IF lazybuild THEN <<"buffer", "dstream", "frames">>
              ELSE <<"buffer", "dstream", "subcode dstream", "frames">>,
   avhuff |-> <<"contexts", "stream">>]

Checks == {"frames", "samples"}
Infallible == {"callbacks", "lent", "stream"}

Fits(step) == hunks = "frames" \/ (step = "samples" /\ hunks = "samples")

MayPass(step) == step \in Checks => Fits(step)
MayFail(step) == step \notin Infallible /\ (step \in Checks => ~Fits(step))

Allocated(parts) == parts \ (Checks \cup Infallible)

StepsUpTo(c, n) == {Steps[c][i] : i \in 1 .. n}

(* How often init of codec c can go: n steps are done, and either they are *)
(* all, or the next one fails.                                             *)
Outcomes(c) ==
  {n \in 0 .. Len(Steps[c]) :
     /\ \A i \in 1 .. n : MayPass(Steps[c][i])
     /\ n < Len(Steps[c]) => MayFail(Steps[c][n + 1])}

(* A step that runs overwrites what the state held before, whether or not  *)
(* it then succeeds.                                                       *)
StepsRun(c, n) == StepsUpTo(c, IF n < Len(Steps[c]) THEN n + 1 ELSE n)

(* Two codecs do not follow the pattern: avhuff frees what it has when it  *)
(* fails, and huff reports success also without its decoder.               *)
Left(c, n) == IF c = "avhuff" /\ n < Len(Steps[c]) THEN {} ELSE StepsUpTo(c, n) \ Checks
Succeeds_Whatever(c, n) == TRUE
Succeeds(c, n) == n = Len(Steps[c]) \/ c = "huff"

Init_codec(c, n) ==
  /\ held' = [held EXCEPT ![c] = (@ \ StepsRun(c, n)) \cup Left(c, n)]
  /\ lost' = lost \cup {<<c, part>> : part \in Allocated(held[c] \cap StepsRun(c, n))}
  /\ again' = again \cup ({c} \cap ready)
  /\ ready' = IF Succeeds(c, n) THEN ready \cup {c} ELSE ready

Untouched == UNCHANGED <<held, lost, again, ready>>

(* cd_lend_subcode_inflater: allocated for the first CD codec that wants   *)
(* it, and only then may it fail.                                          *)
Borrowers == {"cdzl", "cdlz", "cdfl"}
MayNotLend(c) == c \in Borrowers /\ shared # "held"
Lent(c) == IF c \in Borrowers THEN "held" ELSE shared

-----------------------------------------------------------------------------
(* Opening.                                                                *)

Earlier(s) == {t \in Slots : t < s /\ compression[t] = compression[s]}

(* An earlier slot has the same interface, so the codec is initialised.    *)
NeedsInit(s) == compression[s] # NoCodec /\ Earlier(s) = {}

(* The open goes to the next slot, or is done.                             *)
Proceed ==
  /\ next' = next + 1
  /\ phase' = IF next = SlotCount THEN "open" ELSE "opening"

(* EARLY_EXIT: on to chd_close().  The slot at hand is resolved by then.   *)
EarlyExit ==
  /\ next' = next + 1
  /\ phase' = "closing"

UnsupportedSlot ==
  /\ phase = "opening"
  /\ compression[next] = Foreign
  /\ phase' = "closing"
  /\ Untouched
  /\ UNCHANGED <<lazybuild, compression, hunks, next, lazy, shared, unready>>

(* The slot is only looked up: it needs no codec, has one already, or gets *)
(* one when a hunk asks for it.                                            *)
ResolveSlot ==
  /\ phase = "opening"
  /\ compression[next] # Foreign
  /\ lazybuild \/ ~NeedsInit(next)
  /\ Proceed
  /\ Untouched
  /\ UNCHANGED <<lazybuild, compression, hunks, lazy, shared, unready>>

NotLent ==
  /\ phase = "opening"
  /\ ~lazybuild
  /\ compression[next] # Foreign /\ NeedsInit(next)
  /\ MayNotLend(compression[next])
  /\ EarlyExit
  /\ Untouched
  /\ UNCHANGED <<lazybuild, compression, hunks, lazy, shared, unready>>

InitSlot ==
  /\ phase = "opening"
  /\ ~lazybuild
  /\ compression[next] # Foreign /\ NeedsInit(next)
  /\ \E n \in Outcomes(compression[next]) :
       /\ Init_codec(compression[next], n)
       /\ IF Succeeds(compression[next], n) THEN Proceed ELSE EarlyExit
  /\ shared' = Lent(compression[next])
  /\ UNCHANGED <<lazybuild, compression, hunks, lazy, unready>>

-----------------------------------------------------------------------------
(* A compressed hunk selects slot s.                                       *)

Selectable(s) == phase = "open" /\ compression[s] \in Codecs

(* The codec's decompress function runs on whatever state there is.        *)
HasState(c, parts) == StepsUpTo(c, Len(Steps[c])) \ Checks \subseteq parts

Decompress(c, parts, inflater) ==
  unready' = IF HasState(c, parts) /\ (c \in Borrowers => inflater = "held")
               THEN unready ELSE unready \cup {c}

DecodeReady(s) ==
  /\ Selectable(s)
  /\ lazybuild => s \in lazy
  /\ Decompress(compression[s], held[compression[s]], shared)
  /\ Untouched
  /\ UNCHANGED <<lazybuild, compression, hunks, phase, next, lazy, shared>>

(* ensure_codec_ready for a slot that is not marked.                       *)
DecodeAlias(s) ==
  /\ Selectable(s)
  /\ lazybuild /\ s \notin lazy
  /\ Earlier(s) \cap lazy # {}
  /\ lazy' = lazy \cup {s}
  /\ Decompress(compression[s], held[compression[s]], shared)
  /\ Untouched
  /\ UNCHANGED <<lazybuild, compression, hunks, phase, next, shared>>

FirstUse(s) ==
  /\ Selectable(s)
  /\ lazybuild /\ s \notin lazy
  /\ Earlier(s) \cap lazy = {}

FirstUseNotLent(s) ==
  /\ FirstUse(s)
  /\ MayNotLend(compression[s])
  /\ Untouched
  /\ UNCHANGED <<lazybuild, compression, hunks, phase, next, lazy, shared, unready>>

Marked(s, c, n) == IF Succeeds(c, n) THEN lazy \cup {s} ELSE lazy

FirstUseInit(s) ==
  LET c == compression[s]
  IN  /\ FirstUse(s)
      /\ shared' = Lent(c)
      /\ \E n \in Outcomes(c) :
           /\ Init_codec(c, n)
           /\ lazy' = Marked(s, c, n)
           /\ IF Succeeds(c, n) THEN Decompress(c, held'[c], shared')
                                ELSE UNCHANGED unready
      /\ UNCHANGED <<lazybuild, compression, hunks, phase, next>>

ensure_codec_ready(s) ==
  DecodeReady(s) \/ DecodeAlias(s) \/ FirstUseNotLent(s) \/ FirstUseInit(s)

-----------------------------------------------------------------------------
(* chd_close.                                                              *)

(* The slots whose codec is freed: the first of each codec among those the *)
(* open resolved, and under LOWRAM_TARGET only if it was marked.           *)
FreedSlots_NotTheLast ==
  {s \in Slots : s < next - 1 /\ compression[s] \in Codecs /\ Earlier(s) = {}}
FreedSlots ==
  {s \in Slots : /\ s < next
                 /\ compression[s] \in Codecs
                 /\ Earlier(s) = {}
                 /\ lazybuild => s \in lazy}

Freed == {compression[s] : s \in FreedSlots}

(* LzmaDec_FreeProbs calls the allocator's Free function in any case.      *)
NeedsCallbacks(c) == \E i \in 1 .. Len(Steps[c]) : Steps[c][i] = "callbacks"
Wild(c) == NeedsCallbacks(c) /\ "callbacks" \notin held[c]

Close ==
  /\ phase \in {"open", "closing"}
  /\ \A c \in Freed : ~Wild(c)
  /\ phase' = "closed"
  /\ held' = [c \in Codecs |-> IF c \in Freed THEN {} ELSE held[c]]
  /\ shared' = IF shared = "held" THEN "freed" ELSE shared
  /\ UNCHANGED <<lazybuild, compression, hunks, next, lost, again, ready, lazy, unready>>

CloseRunsWild ==
  /\ phase \in {"open", "closing"}
  /\ \E c \in Freed : Wild(c)
  /\ phase' = "crashed"
  /\ UNCHANGED <<lazybuild, compression, hunks, next, held, lost, again, ready, lazy,
                 shared, unready>>

-----------------------------------------------------------------------------
SlotInit ==
  /\ lazybuild \in Builds
  /\ compression \in Headers(lazybuild)
  /\ hunks \in HunkSizes
  /\ phase = "opening"
  /\ next = 1
  /\ held = [c \in Codecs |-> {}]
  /\ lost = {}
  /\ again = {}
  /\ ready = {}
  /\ lazy = {}
  /\ shared = "none"
  /\ unready = {}

SlotNext ==
  \/ UnsupportedSlot \/ ResolveSlot \/ NotLent \/ InitSlot
  \/ \E s \in Slots : ensure_codec_ready(s)
  \/ Close \/ CloseRunsWild

SlotSpec == SlotInit /\ [][SlotNext]_slotvars

-----------------------------------------------------------------------------
(* Properties.                                                             *)

(* A marked slot, and by default every slot of an open file, stands for a  *)
(* codec whose init has succeeded.                                         *)
SlotTypeOK ==
  /\ lazybuild \in Builds /\ compression \in Headers(lazybuild) /\ hunks \in HunkSizes
  /\ phase \in {"opening", "closing", "open", "closed", "crashed"}
  /\ next \in 1 .. SlotCount + 1
  /\ \A c \in Codecs : held[c] \subseteq StepsUpTo(c, Len(Steps[c]))
  /\ ready \subseteq Codecs /\ again \subseteq ready /\ unready \subseteq Codecs
  /\ \A s \in lazy : compression[s] \in ready
  /\ shared \in {"none", "held", "freed"}
  /\ phase = "open" /\ ~lazybuild =>
       \A s \in Slots : compression[s] = NoCodec \/ compression[s] \in ready

(* No decompress function runs without the state its init builds, and none *)
(* through a borrowed inflater the handle does not have.                   *)
DecodersHaveTheirState == unready = {}

(* A closed handle leaves nothing behind, however far the open came: the   *)
(* codec states and the shared inflater are freed, and no allocation was   *)
(* overwritten.  Under LOWRAM_TARGET a codec whose first initialisation    *)
(* failed half-way is initialised anew by the next hunk, over what it had. *)
NothingLeaks ==
  phase = "closed" /\ ~lazybuild =>
    /\ \A c \in Codecs : Allocated(held[c]) = {}
    /\ lost = {}
    /\ shared # "held"

(* No codec is initialised twice, whichever of the slots that share it are *)
(* used, in whatever order: "an earlier slot referencing the same          *)
(* codec_interface may already be initialized" (ensure_codec_ready) and    *)
(* "ensure we don't try to initialize the same codec twice" (the open).    *)
(* What ensure_codec_ready() overlooks is a later slot of the same codec.  *)
InitialisedOnce ==
  \A c \in again : lazybuild /\ \E s, t \in Slots : s < t /\ compression[s] = c /\ compression[t] = c

(* The free functions only run on a state they can cope with: chd_close()  *)
(* says of them that "most codec free() implementations assume init() ran  *)
(* first".                                                                 *)
CloseNeverRunsWild == phase # "crashed"

(* Under LOWRAM_TARGET that is so: a codec that was never ready is not     *)
(* freed.                                                                  *)
LazyCloseNeverRunsWild == lazybuild => CloseNeverRunsWild

(* The state of a codec is made once and freed once, in whatever slots the *)
(* codec is, and however far the open or a lazy initialisation came.       *)
StatesAreMadeAndFreedOnce == SlotTypeOK /\ NothingLeaks /\ InitialisedOnce /\ LazyCloseNeverRunsWild
==============================================================================
