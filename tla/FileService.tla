----------------------------- MODULE FileService -----------------------------
(***************************************************************************)
(* What libchdr's hunk reader promises about the bytes behind a hunk,      *)
(* whatever caching is on: a request is answered with exactly the bytes of *)
(* the file it names, or it fails, and it fails only for a reason - the    *)
(* request runs past the end of the file, is larger than a hunk, or the    *)
(* medium or the allocator failed while it was served.                     *)
(*                                                                         *)
(* The promise has one exception, Misread: the tests of the window add     *)
(* offset and size of a request without a look at the carry, so while a    *)
(* window is in use a request that wraps may be answered with bytes that   *)
(* are not the file's.  Without a window it is an error, as any other      *)
(* request past the end.                                                   *)
(*                                                                         *)
(* There is no cache here: module ReadAhead implements this specification  *)
(* with a read-ahead window, a whole-file cache and a scratch buffer.      *)
(***************************************************************************)
EXTENDS Integers

CONSTANTS
  FileSize,     \* bytes in the CHD file
  File,         \* its contents: a function on 0..FileSize-1
  HunkBytes,    \* header.hunkbytes
  Requests,     \* the extents [offset, size] the map can ask for
  Wrapping      \* those whose end does not fit 64 bits

VARIABLES
  reply,        \* the last answer
  faulty,       \* did the medium or the allocator fail during the last call
  windowed      \* is a read-ahead window in use

InFile(e) == e.offset + e.size <= FileSize

Slice(e) == [i \in 0 .. (e.size - 1) |-> File[e.offset + i]]

NoReply == [status |-> "none", request |-> [offset |-> 0, size |-> 0], data |-> <<>>]

Answer(e) == [status |-> "ok", request |-> e, data |-> Slice(e)]

Failure(e) == [status |-> "error", request |-> e, data |-> <<>>]

Init ==
  /\ reply = NoReply
  /\ faulty = FALSE
  /\ windowed = FALSE

(* The bytes of the file; a fault that a retry or a fallback absorbed may  *)
(* have happened on the way.                                               *)
Serve(e) ==
  /\ InFile(e)
  /\ faulty' \in BOOLEAN
  /\ reply' = Answer(e)
  /\ UNCHANGED windowed

(* No answer without a reason.                                             *)
Fail(e) ==
  /\ faulty' \in BOOLEAN
  /\ faulty' \/ ~InFile(e) \/ e.size > HunkBytes
  /\ reply' = Failure(e)
  /\ UNCHANGED windowed

(* The exception: success, whatever the bytes.                             *)
Misread(e) ==
  /\ windowed
  /\ e \in Wrapping
  /\ faulty' \in BOOLEAN
  /\ reply'.status = "ok" /\ reply'.request = e
  /\ UNCHANGED windowed

(* Calls that tune caching answer nothing.                                 *)
Tune ==
  /\ faulty' \in BOOLEAN
  /\ windowed' \in BOOLEAN
  /\ UNCHANGED reply

Next == Tune \/ \E e \in Requests : Serve(e) \/ Fail(e) \/ Misread(e)

Spec == Init /\ [][Next]_<<reply, faulty, windowed>>

=============================================================================
