------------------------------ MODULE FlacReader ------------------------------
(***************************************************************************)
(* dr_flac's bit reader in use, hunk after hunk: a frame is found, fields, *)
(* runs of zeros and Rice codes are read, the frame is ended with its CRC, *)
(* and libchdr asks how much was used.  It implements FlacSource.          *)
(***************************************************************************)
EXTENDS FlacBits

CONSTANTS
  Streams,   \* the hunks read
  Widths,    \* field widths, up to 32
  Params     \* Rice parameters, up to 30

ASSUME FlacReaderAssumption ==
  /\ Widths \subseteq 1 .. LineBits
  /\ Params \subseteq 0 .. LineBits - 2

VARIABLES
  stream,   \* compressed2_start
  bs,       \* the reader
  frame,    \* the byte the frame being decoded starts at, -1 between frames
  out,      \* what was read last
  failed    \* a read failed and the hunk with it

flacreadervars == <<stream, bs, frame, out, failed>>

Position == ByteBits * (bs.offset - HeaderBytes - bs.unalignedByteCount
                          - (LineCount - bs.nextL2Line) * LineBytes) - Remaining(bs)

Does(r) == bs' = r.bs /\ failed' = ~r.ok /\ out' = (IF r.ok THEN r.out ELSE <<>>)

FindSync ==
  /\ ~failed
  /\ \E r \in {find_and_seek_to_next_sync_code(bs, stream)} :
       /\ Does(r)
       /\ frame' = IF r.ok THEN flac_decoder_finish(r.bs) - 2 ELSE -1
  /\ UNCHANGED stream

ReadField(n) ==
  /\ ~failed /\ frame >= 0
  /\ \E r \in {read_uint32(bs, stream, n)} : Does(r)
  /\ UNCHANGED <<stream, frame>>

ReadZeros ==
  /\ ~failed /\ frame >= 0
  /\ \E r \in {seek_past_next_set_bit(bs, stream, 0)} : Does(r)
  /\ UNCHANGED <<stream, frame>>

ReadRice(p) ==
  /\ ~failed /\ frame >= 0
  /\ \E r \in {read_rice_parts_x1(bs, stream, p)} : Does(r)
  /\ UNCHANGED <<stream, frame>>

EndFrame ==
  /\ ~failed /\ frame >= 0
  /\ \E r \in {EndOfFrame(bs, stream)} : Does(r)
  /\ frame' = -1
  /\ UNCHANGED stream

\* Also closes the stream; the next hunk opens it again.
Finish ==
  /\ ~failed /\ frame = -1
  /\ out' = <<flac_decoder_finish(bs)>>
  /\ bs' = reset_cache(stream)
  /\ UNCHANGED <<stream, frame, failed>>

Reopen ==
  /\ failed
  /\ bs' = reset_cache(stream) /\ failed' = FALSE /\ out' = <<>> /\ frame' = -1
  /\ UNCHANGED stream

FlacReaderInit ==
  /\ stream \in Streams
  /\ bs = reset_cache(stream) /\ frame = -1 /\ out = <<>> /\ failed = FALSE

FlacReaderNext ==
  \/ FindSync \/ ReadZeros \/ EndFrame \/ Finish \/ Reopen
  \/ \E n \in Widths : ReadField(n)
  \/ \E p \in Params : ReadRice(p)

FlacReaderSpec == FlacReaderInit /\ [][FlacReaderNext]_flacreadervars

-----------------------------------------------------------------------------
(* What is not in use is zero, which the search for a set bit depends on:  *)
(* dr_flac.h "Make sure the consumed bits are always set to zero. Other    *)
(* parts of the library depend on this property."  It does not hold after  *)
(* a failed read, and must not be needed then.                             *)
FlacBitsTypeOK ==
  /\ stream \in Streams
  /\ bs.cache \in 0 .. 2 ^ LineBits - 1 /\ bs.consumedBits \in 0 .. LineBits
  /\ ~failed => bs.cache % 2 ^ bs.consumedBits = 0
  /\ bs.nextL2Line \in 0 .. LineCount
  /\ bs.unalignedByteCount \in 0 .. LineBytes - 1
  /\ bs.crc16CacheIgnoredBytes \in 0 .. LineBytes
  /\ bs.offset \in HeaderBytes .. HeaderBytes + Length(stream)

(* The reader is the string of bits it is meant to be, across lines,       *)
(* refills and the bytes set aside at the end; the CRC is taken over       *)
(* exactly the bytes of the frame; and flac_decoder_finish, which takes    *)
(* dr_flac's members apart because there is "no function to obtain bytes   *)
(* used", says where the frames end and so where the subcode of a CD hunk  *)
(* begins.                                                                 *)
Source == INSTANCE FlacSource WITH pos <- IF failed THEN 0 ELSE Position
FlacReadsTheBits == Source!Spec /\ []FlacBitsTypeOK
================================================================================
