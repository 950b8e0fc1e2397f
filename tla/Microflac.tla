------------------------------- MODULE Microflac -------------------------------
(***************************************************************************)
(* The other backend of the flac and cdfl codecs                           *)
(* (libchdr_flac_microflac.cpp): the generated header is fed to a          *)
(* streaming decoder, then the hunk, block by block, straight into the     *)
(* caller's buffer while that has room for a whole block and through a     *)
(* scratch block, kept from hunk to hunk, when it has not.                 *)
(*                                                                         *)
(* The streaming decoder itself is external: of the stream it is at        *)
(* block `block' and has taken `inblock' bytes of it, and a call may stop  *)
(* anywhere.  Sizes are in samples of one channel, and of the payload in   *)
(* bytes.                                                                  *)
(***************************************************************************)
EXTENDS Integers, Sequences, SequencesExt

CONSTANTS
  MicroHunks,     \* [want, maxblock, blocks, length, swap]: a block is [samples, bytes, good];
                  \* length may cut the last block or go on behind it
  MicroHeader     \* sizeof(custom_header)

ASSUME MicroflacAssumption ==
  /\ MicroHeader \in Nat \ {0}
  /\ \A h \in MicroHunks :
       /\ h.want \in Nat \ {0} /\ h.maxblock \in Nat \ {0} /\ h.length \in Nat
       /\ h.blocks \in Seq([samples : Nat \ {0}, bytes : Nat \ {0}, good : BOOLEAN])
       /\ h.swap \in BOOLEAN

VARIABLES
  microphase,         \* "zeroed", "idle", "header", "decode" or "freed"
  payload,            \* the hunk
  headerleft,         \* left, of the header
  header_done,
  payload_consumed,
  atblock, inblock,   \* where the streaming decoder stands
  microhave,          \* samples delivered
  microsamples,       \* the caller's buffer: <<block, index, swapped>>
  microturn,          \* (of the model) flips at every call: one that does nothing is a step
  microroom,          \* the room the last call of decode() was given
  scratch_size,       \* 0 when there is none
  alloc_failed,
  memoryfailed,       \* (of the model) an allocation failed in this hunk
  microanswer         \* the codec's last answer

delivered == <<atblock, inblock, microhave, microsamples, microturn, microroom>>
micropayload == <<payload, headerleft, header_done, payload_consumed, delivered>>
microvars == <<microphase, micropayload, scratch_size, alloc_failed, memoryfailed, microanswer>>

PayloadLeft == payload.length - payload_consumed
MicroRoom == payload.want - microhave
Direct == MicroRoom >= payload.maxblock

\* The codec answers a failure by what alloc_failed says.
FailMicro(failed) ==
  /\ microphase' = "idle"
  /\ microanswer' = IF failed THEN "OUT_OF_MEMORY" ELSE "DECOMPRESSION_ERROR"
  /\ alloc_failed' = failed

-----------------------------------------------------------------------------
(* flac_decoder_init and _free.                                            *)
ConstructMicro ==
  /\ microphase \in {"zeroed", "freed"}
  /\ microphase' = "idle" /\ scratch_size' = 0 /\ alloc_failed' = FALSE
  /\ memoryfailed' = FALSE /\ microanswer' = "none"
  /\ UNCHANGED micropayload

\* A decoder that was never constructed is left alone.
DestroyMicro ==
  /\ microphase \in {"zeroed", "idle"}
  /\ microphase' = "freed"
  /\ scratch_size' = IF microphase = "idle" THEN 0 ELSE scratch_size
  /\ UNCHANGED <<micropayload, alloc_failed, memoryfailed, microanswer>>

(* flac_decoder_reset.                                                     *)
ResetMicro(h) == alloc_failed' = FALSE

StartMicro(h) ==
  /\ microphase = "idle"
  /\ ResetMicro(h)
  /\ microphase' = "header" /\ payload' = h /\ headerleft' = MicroHeader
  /\ header_done' = FALSE /\ payload_consumed' = 0 /\ atblock' = 1 /\ inblock' = 0
  /\ microhave' = 0 /\ microsamples' = <<>> /\ microturn' = FALSE /\ microroom' = h.maxblock
  /\ memoryfailed' = FALSE
  /\ UNCHANGED <<scratch_size, microanswer>>

(* The header is taken in pieces; an error that took some of it is passed  *)
(* over.  The decoder is assumed to take at least a byte when it asks for  *)
(* more: flac_decoder_reset() would ask it for ever if it took none.       *)
FeedHeader ==
  /\ microphase = "header" /\ headerleft > 0
  /\ \E taken \in 1 .. headerleft : headerleft' = headerleft - taken
  /\ UNCHANGED <<microphase, payload, header_done, payload_consumed, delivered,
                 scratch_size, alloc_failed, memoryfailed, microanswer>>

HeaderReady ==
  /\ microphase = "header" /\ headerleft > 0
  /\ headerleft' = 0 /\ header_done' = TRUE /\ microphase' = "decode"
  /\ UNCHANGED <<payload, payload_consumed, delivered, scratch_size,
                 alloc_failed, memoryfailed, microanswer>>

HeaderFails ==
  /\ microphase = "header"
  /\ \/ headerleft > 0 /\ FailMicro(TRUE) /\ memoryfailed' = TRUE
     \/ FailMicro(alloc_failed) /\ UNCHANGED memoryfailed
  /\ UNCHANGED <<micropayload, scratch_size>>

-----------------------------------------------------------------------------
(* flac_decoder_decode_interleaved.                                        *)
MicroDecoding == microphase = "decode" /\ microhave < payload.want

\* The scratch is allocated when a block is first decoded aside.
ScratchNotGrown ==
  /\ MicroDecoding /\ ~Direct /\ scratch_size < payload.maxblock
  /\ FailMicro(TRUE) /\ memoryfailed' = TRUE
  /\ UNCHANGED <<micropayload, scratch_size>>

RoomGiven == CASE Direct -> MicroRoom
               [] ~Direct /\ scratch_size < payload.maxblock -> payload.maxblock
               [] OTHER -> scratch_size

\* A call of decode(): where to, and where from.
CallMicro(taken) ==
  /\ MicroDecoding
  /\ microturn' = ~microturn /\ microroom' = RoomGiven
  /\ scratch_size' = IF Direct \/ scratch_size >= payload.maxblock THEN scratch_size
                     ELSE payload.maxblock
  /\ payload_consumed' = payload_consumed + taken
  /\ UNCHANGED <<payload, headerleft, header_done>>

AtMicroBlock == atblock <= Len(payload.blocks)
MicroBlockHere == payload.blocks[atblock]
RestOfBlock == MicroBlockHere.bytes - inblock
BlockSound ==
  /\ AtMicroBlock /\ MicroBlockHere.good
  /\ MicroBlockHere.samples <= payload.maxblock /\ RestOfBlock <= PayloadLeft

\* What of a block fits; directly decoded, there is room for all of it.
TakenOf_All(n) == n
TakenOf(n) == IF microhave + n > payload.want THEN payload.want - microhave ELSE n

\* FLAC_DECODER_SUCCESS: the rest of a block.
DecodeBlock ==
  /\ BlockSound
  /\ CallMicro(RestOfBlock)
  /\ microsamples' = microsamples \o
       [i \in 1 .. TakenOf(MicroBlockHere.samples) |-> <<atblock, i, FALSE>>]
  /\ microhave' = microhave + TakenOf(MicroBlockHere.samples)
  /\ atblock' = atblock + 1 /\ inblock' = 0
  /\ UNCHANGED <<microphase, alloc_failed, memoryfailed, microanswer>>

(* FLAC_DECODER_NEED_MORE_DATA: a part of a block.                         *)
NoProgress(taken) == taken = 0 \/ taken = PayloadLeft

PauseInBlock ==
  /\ AtMicroBlock
  /\ \E taken \in {t \in 0 .. PayloadLeft : t < RestOfBlock /\ (t > 0 \/ PayloadLeft = 0)} :
       /\ CallMicro(taken)
       /\ inblock' = inblock + taken
       /\ IF NoProgress(taken) THEN FailMicro(alloc_failed)
          ELSE UNCHANGED <<microphase, microanswer, alloc_failed>>
  /\ UNCHANGED <<atblock, microhave, microsamples, memoryfailed>>

\* An error, of memory or of the stream, or its end.
DecodeStops ==
  /\ \E taken \in {0, PayloadLeft}, failed \in {alloc_failed, TRUE} :
       /\ ~failed => ~BlockSound
       /\ CallMicro(taken)
       /\ FailMicro(failed) /\ memoryfailed' = (memoryfailed \/ failed)
  /\ UNCHANGED <<atblock, inblock, microhave, microsamples>>

\* All that is wanted is there: the bytes of each sample are swapped as asked.
FinishMicro ==
  /\ microphase = "decode" /\ microhave >= payload.want
  /\ microsamples' = [i \in DOMAIN microsamples |-> [microsamples[i] EXCEPT ![3] = payload.swap]]
  /\ microphase' = "idle" /\ microanswer' = "NONE"
  /\ UNCHANGED <<payload, headerleft, header_done, payload_consumed, atblock, inblock,
                 microhave, microturn, microroom, scratch_size, alloc_failed, memoryfailed>>

-----------------------------------------------------------------------------
NoPayload == [want |-> 1, maxblock |-> 1, blocks |-> <<>>, length |-> 0, swap |-> FALSE]

MicroInit ==
  /\ microphase = "zeroed" /\ payload = NoPayload /\ headerleft = 0 /\ header_done = FALSE
  /\ payload_consumed = 0 /\ atblock = 1 /\ inblock = 0
  /\ microhave = 0 /\ microsamples = <<>> /\ microturn = FALSE /\ microroom = 1
  /\ scratch_size = 0 /\ alloc_failed = FALSE /\ memoryfailed = FALSE /\ microanswer = "none"

MicroStep ==
  \/ FeedHeader \/ HeaderReady \/ HeaderFails
  \/ ScratchNotGrown \/ DecodeBlock \/ PauseInBlock \/ DecodeStops \/ FinishMicro

MicroNext == ConstructMicro \/ DestroyMicro \/ MicroStep \/ \E h \in MicroHunks : StartMicro(h)

\* A decode runs on to its end in the thread that called it.
MicroSpec == MicroInit /\ [][MicroNext]_microvars /\ WF_microvars(MicroStep)

-----------------------------------------------------------------------------
(* The variables have their types.                                         *)
MicroTypeOK ==
  /\ microphase \in {"zeroed", "idle", "header", "decode", "freed"}
  /\ headerleft \in 0 .. MicroHeader /\ header_done \in BOOLEAN
  /\ payload_consumed \in 0 .. payload.length
  /\ atblock \in 1 .. Len(payload.blocks) + 1 /\ inblock \in Nat
  /\ microhave = Len(microsamples) /\ scratch_size \in Nat
  /\ {alloc_failed, memoryfailed, microturn} \subseteq BOOLEAN
  /\ microphase = "decode" => header_done
  /\ microphase \in {"zeroed", "freed"} => scratch_size = 0

(* No block is written past the end of the buffer it is decoded to, the    *)
(* caller's or the scratch, and none is turned down for want of room: the  *)
(* streaming decoder asks for room for the largest block at every call.    *)
BlocksHaveRoom == microroom >= payload.maxblock /\ Len(microsamples) <= payload.want

(* A hunk that is answered is the stream's: as many samples as are wanted, *)
(* block after block with the last one cut, none left over from another    *)
(* hunk, and all swapped or none.  What flac_decoder_finish then reports   *)
(* is the end of the last block that was needed, where cdfl reads on.      *)
MicroStreamOf(h, swapped) ==
  FlattenSeq([b \in 1 .. Len(h.blocks) |->
                [i \in 1 .. h.blocks[b].samples |-> <<b, i, swapped>>]])
MicroBytesTo(h, b) ==
  LET to[i \in 0 .. b] == IF i = 0 THEN 0 ELSE to[i - 1] + h.blocks[i].bytes
  IN  to[b]
MicroHunkIsTheStream ==
  microphase = "idle" /\ microanswer = "NONE" =>
    /\ microsamples = SubSeq(MicroStreamOf(payload, payload.swap), 1, payload.want)
    /\ payload_consumed = MicroBytesTo(payload, microsamples[payload.want][1])

(* The codec answers out of memory exactly when an allocation failed in    *)
(* this hunk.                                                              *)
MicroOutOfMemory == microphase = "idle" => (memoryfailed <=> microanswer = "OUT_OF_MEMORY")

(* A hunk is decoded or given up, wherever its stream is cut.              *)
MicroHunkEnds == microphase \in {"header", "decode"} ~> microphase = "idle"

(* A hunk is decoded where there is room, to the samples of its stream, or *)
(* is given up for the right reason.                                       *)
MicroHunkIsDecoded == MicroTypeOK /\ BlocksHaveRoom /\ MicroHunkIsTheStream /\ MicroOutOfMemory
================================================================================
