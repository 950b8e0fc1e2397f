----------------------------- MODULE HunkService -----------------------------
(***************************************************************************)
(* What chd_read promises, whatever route a hunk takes to the caller: the  *)
(* hunk's content, or an error, and an error only for a reason - the hunk  *)
(* has no content (it lies outside the file, its payload does not decode,  *)
(* a reference of its map entry leads nowhere), or the medium, a decoder   *)
(* or the allocator failed during the call.                                *)
(*                                                                         *)
(* There is no recursion and no cache here: module HunkRead implements     *)
(* this specification with both.                                           *)
(***************************************************************************)
CONSTANTS
  Requests,     \* what a caller may ask for
  Content,      \* what each of them holds, or Undecodable
  Undecodable,
  NoRequest

VARIABLES
  request,      \* what was asked for last
  reply,        \* its answer, once there is one
  faulty        \* did anything fail while it was served

Pending == [status |-> "none", data |-> Undecodable]

Init ==
  /\ request = NoRequest
  /\ reply = Pending
  /\ faulty = FALSE

Begin(r) ==
  /\ request' = r
  /\ reply' = Pending
  /\ faulty' = FALSE

Fault ==
  /\ reply = Pending
  /\ faulty' = TRUE
  /\ UNCHANGED <<request, reply>>

(* A fault that was absorbed may have happened on the way.                 *)
Deliver ==
  /\ request \in Requests
  /\ Content[request] # Undecodable
  /\ reply = Pending
  /\ reply' = [status |-> "ok", data |-> Content[request]]
  /\ faulty' \in BOOLEAN
  /\ UNCHANGED request

(* No error without a reason.                                              *)
Fail ==
  /\ request \in Requests
  /\ faulty' \in BOOLEAN
  /\ faulty' \/ Content[request] = Undecodable
  /\ reply = Pending
  /\ reply' = [status |-> "error", data |-> Undecodable]
  /\ UNCHANGED request

Next ==
  \/ \E r \in Requests : Begin(r)
  \/ Fault
  \/ Deliver
  \/ Fail

Spec == Init /\ [][Next]_<<request, reply, faulty>>

=============================================================================
