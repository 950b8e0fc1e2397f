------------------------------- MODULE Playback -------------------------------
(***************************************************************************)
(* A caller that reads the hunks of a file in order through the window of  *)
(* module ReadAhead, with the excursions to earlier hunks that a           *)
(* COMPRESSION_SELF reference makes and now and then a new pass from the   *)
(* start.  The payloads of the hunks lie one behind the other in the file, *)
(* as the comment on ra_buf in struct _chd_file says they do.              *)
(*                                                                         *)
(* The medium works here: the question is how often it is asked.           *)
(***************************************************************************)
EXTENDS ReadAhead

CONSTANTS
  Layouts,    \* sequences of [kind, offset, size], contiguous from byte 0
  MaxPasses   \* bound: how often the file is played

ASSUME PassesAssumption == MaxPasses \in Nat \ {0}

Hunk == [kind : {"compressed", "uncompressed"}, offset : Nat, size : 1 .. HunkBytes]

ASSUME LayoutsAssumption ==
  \A l \in Layouts :
    /\ l \in Seq(Hunk)
    /\ \A i \in 1 .. Len(l) :
         /\ l[i].offset = (IF i = 1 THEN 0 ELSE l[i - 1].offset + l[i - 1].size)
         /\ l[i].offset + l[i].size <= FileSize

VARIABLES
  layout,     \* the hunks of the file at hand
  pass,       \* which time the file is played
  next,       \* the hunk the caller reads next
  fetched     \* how often each byte was transferred in this pass

playVars == <<vars, layout, pass, next, fetched>>

ExtentOf(i) == [offset |-> layout[i].offset, size |-> layout[i].size]

(* Transfers of a call that reach byte p.                                  *)
Reaching(transfers, p) ==
  {i \in 1 .. Len(transfers) :
     transfers[i].at <= p /\ p < transfers[i].at + transfers[i].len}

AllSucceed(transfers) == \A i \in 1 .. Len(transfers) : transfers[i].ok

ReadNth(i) ==
  /\ IF layout[i].kind = "compressed"
       THEN hunk_read_compressed(ExtentOf(i))
       ELSE hunk_read_uncompressed(ExtentOf(i))
  /\ AllSucceed(io')
  /\ ~oom'
  /\ calls' = calls + 1
  /\ UNCHANGED file_cache

PlayNext ==
  /\ next <= Len(layout)
  /\ ReadNth(next)
  /\ next' = next + 1
  /\ fetched' = [p \in DOMAIN fetched |->
                   IF Reaching(io', p) # {} THEN fetched[p] + 1 ELSE fetched[p]]
  /\ UNCHANGED <<layout, pass>>

(* A self-reference reaches back; what it fetches is not the stream's.     *)
Excursion(i) ==
  /\ i < next
  /\ calls < MaxCalls
  /\ ReadNth(i)
  /\ UNCHANGED <<layout, pass, next, fetched>>

Rewind ==
  /\ next > Len(layout)
  /\ pass < MaxPasses
  /\ pass' = pass + 1
  /\ next' = 1
  /\ fetched' = [p \in DOMAIN fetched |-> 0]
  /\ UNCHANGED <<vars, layout>>

(* The budget is chosen before a pass.                                     *)
ChooseBudget(bytes) ==
  /\ next = 1
  /\ chd_set_cache_budget(bytes)
  /\ UNCHANGED <<layout, pass, next, fetched>>

PlayInit ==
  /\ Init
  /\ layout \in Layouts
  /\ pass = 1
  /\ next = 1
  /\ fetched = [p \in 0 .. (FileSize - 1) |-> 0]

PlayNextState ==
  \/ PlayNext
  \/ \E i \in 1 .. Len(layout) : Excursion(i)
  \/ Rewind
  \/ \E bytes \in Budgets : ChooseBudget(bytes)

PlaySpec == PlayInit /\ [][PlayNextState]_playVars

-----------------------------------------------------------------------------
(* Properties.                                                             *)

(* chd.h on chd_set_cache_budget: "Sequential reads transfer each byte     *)
(* exactly once regardless of the budget".  Whatever excursions are made   *)
(* in between, that is so for the bytes of compressed hunks.  An           *)
(* uncompressed hunk that is only partly in the window is read whole, so   *)
(* its bytes may be fetched a second time, and no more often than that.    *)
(* A later pass may find bytes still in the window; the first has to fetch *)
(* every one it delivers.                                                  *)
Holds(i, p) == layout[i].offset <= p /\ p < layout[i].offset + layout[i].size

Delivered(p) == \E i \in 1 .. (next - 1) : Holds(i, p)

MostFetches(p) ==
  IF \E i \in 1 .. Len(layout) : Holds(i, p) /\ layout[i].kind = "uncompressed"
    THEN 2 ELSE 1

EachByteFetchedOnce ==
  \A p \in DOMAIN fetched :
    /\ fetched[p] <= MostFetches(p)
    /\ (pass = 1 /\ Delivered(p)) => fetched[p] >= 1

=============================================================================
