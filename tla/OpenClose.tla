------------------------------- MODULE OpenClose -------------------------------
(***************************************************************************)
(* Who closes what: the four ways to open a CHD, every point at which an   *)
(* open can fail, and chd_close(), for trees of a child and its parents    *)
(* (chd_open, chd_open_file, chd_open_core_file,                           *)
(* chd_open_core_file_callbacks and chd_close of libchdr_chd.c).           *)
(*                                                                         *)
(* One action is one call of the application.  An application only closes  *)
(* or hands over a handle it owns: mine.  An image is what a file          *)
(* contains, as far as an open can tell: which SHA1 it has and which       *)
(* parent it wants.  Any open may also fail for another reason.            *)
(***************************************************************************)
EXTENDS Integers, FiniteSets

CONSTANTS
  Files,        \* files an application may open, each of them once
  Image,        \* what is in each: [sha1, parentsha1]
  NoSha1,       \* nullsha1
  MaxHandles    \* bound: the handles allocated in a run

Entries == {"chd_open", "chd_open_file", "chd_open_core_file", "callbacks"}

ASSUME OpenAssumption ==
  /\ MaxHandles \in Nat
  /\ \A f \in Files : DOMAIN Image[f] = {"sha1", "parentsha1"}

NULL == 0       \* no handle
Bogus == -1     \* a pointer to something that is not a chd_file
Handles == 1 .. MaxHandles

VARIABLES
  file,      \* "fresh", "open", "lent", "closed" or "closed twice"
  made,      \* handles allocated so far
  live,      \* handles with a valid cookie
  handle,    \* [file, parent, owns] of a handle: does it own its file?
  mine       \* handles the application owns

openvars == <<file, made, live, handle, mine>>

Unused == [file |-> CHOOSE f \in Files : TRUE, parent |-> NULL, owns |-> FALSE]

-----------------------------------------------------------------------------
(* Closing.                                                                *)

(* A handle and the parents behind it.                                     *)
Family(h) ==
  LET upTo[x \in 0 .. MaxHandles] ==
        IF x = NULL \/ x \notin live THEN {}
                                     ELSE {x} \cup upTo[handle[x].parent]
  IN  upTo[h]

(* What chd_close() takes down with a handle.                              *)
Closing(h) == Family(h)

(* fclose of the callbacks a handle was opened with: chd_open_file() uses  *)
(* one that does nothing, its FILE is only lent.                           *)
OwnsFile(entry) == entry # "chd_open_file"

FilesOf(hs) == {handle[h].file : h \in {x \in hs : handle[x].owns}}

FileClosed(was) == IF was = "open" THEN "closed" ELSE "closed twice"

AfterClosing(fs) ==
  [f \in Files |-> IF f \in fs THEN FileClosed(file[f]) ELSE file[f]]

chd_close(h) ==
  /\ h \in mine
  /\ file' = AfterClosing(FilesOf(Closing(h)))
  /\ live' = live \ Closing(h)
  /\ mine' = mine \ {h}
  /\ UNCHANGED <<made, handle>>

-----------------------------------------------------------------------------
(* Opening.                                                                *)

Parents == mine \cup {NULL, Bogus}

(* The exits before the library has a file: chd_open() with a bad name or  *)
(* mode or a file that is not there, chd_open_core_file() without a file,  *)
(* no callbacks.  None of them looks at the parent, which stays with the   *)
(* application, against what chd.h says of failing opens.                  *)
OpenFailsEarly(entry) ==
  /\ entry # "chd_open_file"
  /\ UNCHANGED openvars

(* From here on the file is the library's.                                 *)
FreshFile(f) == file[f] = "fresh"

(* The file of a failed open, for the library to close.                    *)
FileAlone(f) == {f}

(* The files after a call that was given f and closed some.                *)
Given(f, entry, closed) ==
  [g \in Files |-> IF g = f
                     THEN IF ~OwnsFile(entry) THEN "lent"
                          ELSE IF f \in closed THEN "closed" ELSE "open"
                     ELSE IF g \in closed THEN FileClosed(file[g]) ELSE file[g]]

(* The handles the application owns after a call that took the parent.     *)
OwnedAfter_ParentToo(parent, new) == mine \cup new
OwnedAfter(parent, new) == (mine \ {parent}) \cup new

InvalidParent(f, entry) ==
  /\ FreshFile(f)
  /\ file' = Given(f, entry, FileAlone(f))
  /\ UNCHANGED <<made, live, handle, mine>>

(* The handle cannot be allocated, or is and the open fails with it: in    *)
(* both cases the file and the whole family of the parent are closed.      *)
OpenFails(f, entry, parent) ==
  /\ FreshFile(f)
  /\ parent # Bogus
  /\ file' = Given(f, entry, FileAlone(f) \cup FilesOf(Closing(parent)))
  /\ live' = live \ Closing(parent)
  /\ mine' = OwnedAfter(parent, {})
  /\ UNCHANGED <<made, handle>>

(* What lets an open fail, besides an allocation, a transfer or a codec:   *)
(* a bad header, a parent that is missing and a parent that is another.    *)
FitsParent(f, parent) ==
  LET wanted == Image[f].parentsha1
  IN  IF parent = NULL THEN wanted = NoSha1
      ELSE LET had == Image[handle[parent].file].sha1
           IN  wanted = NoSha1 \/ had = NoSha1 \/ wanted = had

OpenSucceeds(f, entry, parent) ==
  /\ FreshFile(f)
  /\ parent # Bogus
  /\ made < MaxHandles
  /\ FitsParent(f, parent)
  /\ file' = Given(f, entry, {})
  /\ made' = made + 1
  /\ live' = live \cup {made + 1}
  /\ handle' = [handle EXCEPT ![made + 1] = [file |-> f, parent |-> parent, owns |-> OwnsFile(entry)]]
  /\ mine' = OwnedAfter(parent, {made + 1})

Open(entry, parent) ==
  \/ OpenFailsEarly(entry)
  \/ \E f \in Files :
       \/ parent = Bogus /\ InvalidParent(f, entry)
       \/ OpenFails(f, entry, parent)
       \/ OpenSucceeds(f, entry, parent)

-----------------------------------------------------------------------------
OpenInit ==
  /\ file = [f \in Files |-> "fresh"]
  /\ made = 0
  /\ live = {}
  /\ handle = [h \in Handles |-> Unused]
  /\ mine = {}

OpenNext ==
  \/ \E entry \in Entries, parent \in Parents : Open(entry, parent)
  \/ \E h \in Handles : chd_close(h)

OpenSpec == OpenInit /\ [][OpenNext]_openvars

-----------------------------------------------------------------------------
(* Properties.                                                             *)

(* No file is closed twice, also when an open with a whole family of       *)
(* parents fails: a second fclose() is what a retry after a failure, or a  *)
(* failure after a partial open, would run into.                           *)
OpenTypeOK ==
  /\ file \in [Files -> {"fresh", "open", "lent", "closed"}]
  /\ made \in 0 .. MaxHandles
  /\ live \subseteq 1 .. made
  /\ mine \subseteq live
  /\ \A h \in live : handle[h].parent \in 0 .. (h - 1)

(* A live handle can read through its parents: each of them is alive and   *)
(* none of its files has been closed.                                      *)
ParentsOutliveChildren ==
  \A h \in live :
    /\ file[handle[h].file] \in {"open", "lent"}
    /\ handle[h].parent # NULL => handle[h].parent \in live

(* Handles form chains that the application holds by their last child:     *)
(* every live handle is reached from one the application owns, and from    *)
(* one only, so that closing what one owns closes all there is, once.      *)
OneOwnerEach ==
  \A h \in live : Cardinality({m \in mine : h \in Family(m)}) = 1

(* A file the library was given to close is open exactly as long as a live *)
(* handle reads it; the FILE of chd_open_file() is never closed.           *)
FilesFollowHandles ==
  \A f \in Files :
    file[f] = "open" <=>
      \E h \in live : handle[h].file = f /\ handle[h].owns

(* Whatever way opens and closes go, every file and every parent has one   *)
(* handle to close it, which does so once and after the last use.          *)
FilesHaveOneOwner == OpenTypeOK /\ ParentsOutliveChildren /\ OneOwnerEach /\ FilesFollowHandles
==============================================================================
