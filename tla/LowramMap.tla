------------------------------ MODULE LowramMap ------------------------------
(***************************************************************************)
(* The hunk map under LOWRAM_TARGET: entries are decoded when a hunk asks  *)
(* for them, from the compressed bytes of the bucket the hunk lies in      *)
(* (v5_map_get_entry, ensure_v5_map_window), and the state the last call   *)
(* left behind is resumed when the next hunk is asked for.                 *)
(*                                                                         *)
(* One action is one call of v5_map_get_entry().  The state to resume has  *)
(* pointers into the two windows: "dangling" are the passes whose pointer  *)
(* is into a window that has been freed.  What is decoded through such a   *)
(* pointer is Unknown.                                                     *)
(***************************************************************************)
EXTENDS MapV5, FiniteSets

CONSTANTS
  Maps,      \* the maps considered: [compressed, codes, fields]
  Unknown    \* what freed memory decodes to

ASSUME LowramAssumption ==
  \A m \in Maps :
    /\ m.compressed \in BOOLEAN
    /\ m.codes \in Seq(0 .. 15)
    /\ m.fields \in Seq(Nat)

VARIABLES
  map,         \* the map in the file
  window1,     \* lowram_map.pass1_window
  window2,     \* lowram_map.pass2_window
  resume,      \* lowram_map.resume
  dangling,    \* the passes whose resumed stream reads freed memory
  lapsed,      \* has a call failed?
  reply        \* the answer to the last call

vars == <<map, window1, window2, resume, dangling, lapsed, reply>>

NoWindow == [bucket |-> -1, from |-> 0, to |-> -1]
NoResume == [valid |-> FALSE, cur_hunk |-> 0, next_boundary |-> 0,
             end1 |-> 0, end2 |-> 0, state |-> Unknown]
NoReply  == [hunk |-> 0, path |-> "none", entry |-> Unknown]

Answer(h, path, entry) == [hunk |-> h, path |-> path, entry |-> entry]
Failure(h) == [hunk |-> h, path |-> "failed", entry |-> Unknown]

(* What the entry of hunk h is: that of the whole map decoded at once, or  *)
(* the one stored in an uncompressed map.                                  *)
TheEntry(h) ==
  IF map.compressed THEN decompress_v5_map(map.codes, map.fields)[h]
                    ELSE [type |-> NONE, offset |-> map.fields[h + 1], length |-> 0]

-----------------------------------------------------------------------------
(* ensure_v5_map_window: the windows it may leave, and whether it worked.  *)
(* A window that cannot be replaced stays.                                 *)
ensure_v5_map_window_RangeKept(win, bucket, range) ==
  {[ok |-> TRUE, win |-> [win EXCEPT !.bucket = bucket]]}
ensure_v5_map_window(win, bucket, range) ==
  IF win.bucket = bucket
    THEN {[ok |-> TRUE, win |-> win]}
    ELSE {[ok |-> TRUE, win |-> [bucket |-> bucket, from |-> range.from, to |-> range.to]],
          [ok |-> FALSE, win |-> win]}

(* Replacing a window frees what a stream left to be resumed points into.  *)
Freed(pass, win, new) == IF resume.valid /\ new # win THEN {pass} ELSE {}

(* The nearest checkpoint at or before the hunk.                           *)
BucketOf(h) == h \div Stride

-----------------------------------------------------------------------------
(* An uncompressed map has entries of a fixed width: fetch the one.        *)
ReadEntry(h) ==
  /\ ~map.compressed
  /\ \/ reply' = Answer(h, "file", TheEntry(h)) /\ UNCHANGED lapsed
     \/ reply' = Failure(h) /\ lapsed' = TRUE
  /\ UNCHANGED <<map, window1, window2, resume, dangling>>

(* Did the last call stop right before this hunk, in the same bucket?      *)
MayResume_AcrossBuckets(h) ==
  resume.valid /\ resume.cur_hunk = h
MayResume(h) ==
  resume.valid /\ resume.cur_hunk = h /\ h < resume.next_boundary

(* Remember where this call stopped, for a call for the next hunk.         *)
ResumeAfter_NotAdvanced(h, boundary, end1, end2, state) ==
  [valid |-> TRUE, cur_hunk |-> h, next_boundary |-> boundary,
   end1 |-> end1, end2 |-> end2, state |-> state]
ResumeAfter(h, boundary, end1, end2, state) ==
  [valid |-> TRUE, cur_hunk |-> h + 1, next_boundary |-> boundary,
   end1 |-> end1, end2 |-> end2, state |-> state]

(* The fast path: neither a checkpoint nor a window is looked at.          *)
FastPath(h) ==
  /\ map.compressed
  /\ MayResume(h)
  /\ dangling = {}
  /\ LET d == Decoded(map.codes, map.fields, resume.end1, resume.end2,
                      resume.state, h, h)
     IN  IF d.ok
           THEN /\ resume' = [resume EXCEPT !.cur_hunk = h + 1,
                                            !.state = [p |-> d.p, q |-> d.q]]
                /\ reply' = Answer(h, "resumed", d.entry)
                /\ UNCHANGED lapsed
           ELSE /\ reply' = Failure(h)
                /\ lapsed' = TRUE
                /\ UNCHANGED resume
  /\ UNCHANGED <<map, window1, window2, dangling>>

(* The same code when the window under it is gone.                         *)
FastPathIntoFreedMemory(h) ==
  /\ map.compressed
  /\ MayResume(h)
  /\ dangling # {}
  /\ \/ /\ resume' = [resume EXCEPT !.cur_hunk = h + 1, !.state = Unknown]
        /\ reply' = Answer(h, "resumed", Unknown)
     \/ /\ reply' = Failure(h)
        /\ UNCHANGED resume
  /\ UNCHANGED <<map, window1, window2, dangling, lapsed>>

(* The slow path: the windows of the bucket, then every hunk from its      *)
(* checkpoint on.  Each of the two windows may fail to come; the first may *)
(* then have been replaced.                                                *)
SlowPath(h) ==
  LET bucket == BucketOf(h)
      cp     == Checkpoint(map.codes, map.fields, bucket)
  IN  /\ map.compressed
      /\ ~MayResume(h)
      /\ \E w1 \in ensure_v5_map_window(window1, bucket, BucketCodes(map.codes, bucket)) :
           /\ window1' = w1.win
           /\ \/ /\ ~w1.ok
                 /\ UNCHANGED <<window2, resume, dangling>>
                 /\ reply' = Failure(h)
                 /\ lapsed' = TRUE
              \/ /\ w1.ok
                 /\ \E w2 \in ensure_v5_map_window(window2, bucket,
                                BucketFields(map.codes, map.fields, bucket)) :
                      LET d == Decoded(map.codes, map.fields, w1.win.to, w2.win.to,
                                       cp, cp.hunknum, h)
                      IN  /\ window2' = w2.win
                          /\ IF w2.ok /\ d.ok
                               THEN /\ resume' = ResumeAfter(h, Boundary(bucket), w1.win.to,
                                                   w2.win.to, [p |-> d.p, q |-> d.q])
                                    /\ dangling' = {}
                                    /\ reply' = Answer(h, "checkpoint", d.entry)
                                    /\ UNCHANGED lapsed
                               ELSE /\ dangling' = dangling \cup Freed(1, window1, w1.win)
                                                            \cup Freed(2, window2, w2.win)
                                    /\ reply' = Failure(h)
                                    /\ lapsed' = TRUE
                                    /\ UNCHANGED resume
      /\ UNCHANGED map

v5_map_get_entry(h) ==
  ReadEntry(h) \/ FastPath(h) \/ FastPathIntoFreedMemory(h) \/ SlowPath(h)

-----------------------------------------------------------------------------
Init ==
  /\ map \in Maps
  /\ window1 = NoWindow
  /\ window2 = NoWindow
  /\ resume = NoResume
  /\ dangling = {}
  /\ lapsed = FALSE
  /\ reply = NoReply

Next == \E h \in Hunks : v5_map_get_entry(h)

Spec == Init /\ [][Next]_vars

-----------------------------------------------------------------------------
(* Properties.                                                             *)

(* A window, once there, is exactly the part of the map its bucket needs.  *)
TypeOK ==
  /\ map \in Maps
  /\ window1 = NoWindow \/ /\ window1.bucket \in Buckets
                           /\ [from |-> window1.from, to |-> window1.to]
                                = BucketCodes(map.codes, window1.bucket)
  /\ window2 = NoWindow \/ /\ window2.bucket \in Buckets
                           /\ [from |-> window2.from, to |-> window2.to]
                                = BucketFields(map.codes, map.fields, window2.bucket)
  /\ resume.valid \in BOOLEAN
  /\ resume.cur_hunk \in 0 .. resume.next_boundary
  /\ resume.next_boundary \in 0 .. HunkCount
  /\ dangling \subseteq {1, 2}
  /\ lapsed \in BOOLEAN
  /\ reply.path \in {"none", "file", "checkpoint", "resumed", "failed"}

Exact(r) == r.path = "none" \/ r.entry = TheEntry(r.hunk)

(* As long as no call has failed, every entry decoded on demand, resumed   *)
(* or not and in whatever order the hunks are asked for, is that of the    *)
(* whole map decoded at once, and what is left to be resumed is in the     *)
(* windows held.                                                           *)
ExactUntilACallFails == ~lapsed => Exact(reply) /\ dangling = {}

(* Failures pass: an entry decoded from its checkpoint, or fetched, is     *)
(* exact whatever failed before it.                                        *)
CheckpointsHeal == reply.path \in {"checkpoint", "file"} => Exact(reply)

(* Neither a failure nor freed memory is kept for long: right after a      *)
(* successful call from a checkpoint the state to resume is exact.         *)
ResumeIsExact ==
  resume.valid /\ dangling = {} =>
    LET types == TypesBefore(map.codes)
    IN  /\ resume.state.p = types[resume.cur_hunk]
        /\ resume.state.q = FieldsBefore(map.fields, types)[resume.cur_hunk]

(* The comments in v5_map_get_entry(): "nothing reallocates                *)
(* pass1_window/pass2_window between one call finishing and the next one   *)
(* starting", so that the streams to resume may be used as they are.       *)
ResumeIntoHeldWindows == resume.valid => dangling = {}

(* Entries on demand are those of the whole map: all of them until a call  *)
(* fails, and then those that do not resume.                               *)
EntriesAreExact == ExactUntilACallFails /\ CheckpointsHeal
==============================================================================
