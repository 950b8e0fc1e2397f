------------------------------- MODULE MCHandle -------------------------------
(***************************************************************************)
(* The life of a handle, in one run: what a container says of itself, the  *)
(* open functions and chd_close, the codec slots and the memory behind     *)
(* them.  The four are modelled apart: in a behaviour one of them moves    *)
(* and the others rest.                                                    *)
(***************************************************************************)
EXTENDS Container, OpenClose, CodecSlots, CodecMemory

(***************************************************************************)
(* A good file of every version and its relatives: each with one field     *)
(* that is wrong or at a boundary, with metadata lists of every shape      *)
(* (short, long, circular, leading out of the file), and with maps that    *)
(* end at, beyond and far beyond the file.                                 *)
(***************************************************************************)
MCSizes == <<5, 6, 8, 7, 9>>

GoodRaw(version) ==
  [tag |-> TRUE, length |-> MCSizes[version], version |-> version,
   undefinedflags |-> FALSE, parentflag |-> FALSE, parenthash |-> FALSE, codecknown |-> TRUE,
   seclen |-> 3, hunksize |-> IF version < 3 THEN 2 ELSE 0, totalhunks |-> 3,
   cylinders |-> IF version < 3 THEN 2 ELSE 0, heads |-> IF version < 3 THEN 1 ELSE 0,
   sectors |-> IF version < 3 THEN 3 ELSE 0,
   logicalbytes |-> 20, metaoffset |-> 30, hunkbytes |-> 8, unitbytes |-> 4]

Item(tag, nextat, parses) == [tag |-> tag, next |-> nextat, parses |-> parses]

NoList     == [o \in {} |-> Item("CHTR", 0, {})]
DiskList   == (30 :> Item("CHTR", 32, {})) @@ (32 :> Item(HardDisk, 34, {4}))
                @@ (34 :> Item(HardDisk, 0, {3}))
CDList     == (30 :> Item("none", 34, {})) @@ (34 :> Item(HardDisk, 32, {}))
                @@ (32 :> Item("CHGD", 0, {}))
OpenList   == (30 :> Item(HardDisk, 32, {0, 2, 41})) @@ (32 :> Item("CHTR", 99, {}))
Circle     == (30 :> Item("none", 32, {})) @@ (32 :> Item("CHTR", 34, {}))
                @@ (34 :> Item("CHT2", 32, {}))
LongList   == [o \in 30 .. 35 |-> Item(IF o = 35 THEN HardDisk ELSE "CHTR",
                                       IF o = 35 THEN 0 ELSE o + 1, {4})]
Lists == {NoList, DiskList, CDList, OpenList, Circle, LongList}

GoodMap == <<[offset |-> 20, length |-> 8, type |-> "compressed"],
             [offset |-> 60, length |-> 8, type |-> "mini"],
             [offset |-> 28, length |-> 6, type |-> "compressed"]>>

\* The types of an old map are two: every entry is stored.
OldGoodMap == [GoodMap EXCEPT ![2] = [offset |-> 9, length |-> 5, type |-> "compressed"]]

Good(version) == [raw |-> GoodRaw(version), size |-> 40, entries |-> NoList,
                  map |-> IF version < 3 THEN OldGoodMap ELSE GoodMap, cookie |-> TRUE]

With(version, field, value) == [Good(version) EXCEPT !.raw = [@ EXCEPT ![field] = value]]

BadStarts == {With(4, "tag", FALSE), With(3, "length", 9), With(5, "version", 6),
              With(5, "version", 0)}
BadLegacy == {With(4, "undefinedflags", TRUE), With(4, "codecknown", FALSE),
              With(4, "hunkbytes", 0), With(3, "hunkbytes", 32), With(3, "hunkbytes", 31),
              With(4, "totalhunks", 0), With(4, "totalhunks", 17), With(1, "totalhunks", 36),
              With(4, "parentflag", TRUE), With(1, "heads", 0), With(2, "hunksize", 0),
              With(2, "hunksize", 22), With(2, "seclen", 40), With(1, "totalhunks", 1),
              With(2, "seclen", 0)}
V5 == {With(5, "hunkbytes", 0), With(5, "unitbytes", 0), With(5, "hunkbytes", 48),
       With(5, "logicalbytes", 8 * 63), With(5, "logicalbytes", 8 * 64),
       With(5, "logicalbytes", 8 * 65 - 5), With(5, "logicalbytes", 0),
       With(5, "logicalbytes", U64 - 1),
       [With(5, "hunkbytes", 32) EXCEPT !.raw.logicalbytes = 1024]}

Maps == {[Good(v) EXCEPT !.map[3] = [offset |-> o, length |-> 8, type |-> "uncompressed"]] :
           v \in {2, 3}, o \in {32, 33, U64 - 4}}
          \cup {[Good(1) EXCEPT !.cookie = FALSE], [Good(1) EXCEPT !.size = 8],
                [Good(1) EXCEPT !.raw.hunksize = 2]}

MCFiles ==
  {Good(v) : v \in 1 .. 5}
    \cup {[Good(v) EXCEPT !.entries = l] : v \in 3 .. 5, l \in Lists}
    \cup BadStarts \cup BadLegacy \cup V5 \cup Maps

(***************************************************************************)
(* Two files of a base image, a child of it and a grandchild: chains of    *)
(* three handles, a second try with another file, wrong parents.           *)
(***************************************************************************)
CONSTANTS base1, base2, child, grandchild, A, B, C

MCImage ==
  [f \in Files |->
     CASE f \in {base1, base2} -> [sha1 |-> A, parentsha1 |-> NoSha1]
       [] f = child            -> [sha1 |-> B, parentsha1 |-> A]
       [] f = grandchild       -> [sha1 |-> C, parentsha1 |-> B]]

(***************************************************************************)
(* Three slots.  In the default build every choice of the CD codecs, zlib, *)
(* "none" and an unknown tag, repetitions included.  Under LOWRAM_TARGET   *)
(* the codecs that are not CD codecs as well, none repeated but flac,      *)
(* whose init allocates nothing: initialising another codec again can fail *)
(* half way and take away the state its other slot decodes with.           *)
(***************************************************************************)
Repeats(h) == \E s, t \in Slots : s # t /\ h[s] = h[t] /\ h[s] \notin {NoCodec, "flac"}

MCHeaders(lowrambuild) ==
  IF lowrambuild
    THEN {h \in [Slots -> {"cdzl", "cdlz", "cdfl", "cdzs", "lzma", "avhuff", "flac", NoCodec}] :
            ~Repeats(h)}
    ELSE [Slots -> {"cdzl", "cdlz", "cdfl", "cdzs", "zlib", NoCodec, Foreign}]

\* What is enough for a run about the slots.
MCOneFile == {Good(5)}

-----------------------------------------------------------------------------
VARIABLE side

\* Where a machine that rests stays.
ContainerAtRest == container = Good(5) /\ lowram = FALSE /\ ContainerInit
SlotsAtRest ==
  /\ lazybuild = FALSE /\ compression = [s \in Slots |-> NoCodec] /\ hunks = "frames"
  /\ SlotInit

HandleInit ==
  /\ side \in {"container", "open", "slots", "memory"}
  /\ OpenInit /\ MemoryInit
  /\ IF side = "container" THEN TRUE ELSE ContainerAtRest
  /\ IF side = "slots" THEN TRUE ELSE SlotsAtRest
  /\ CASE side = "container" -> ContainerInit
       [] side = "slots" -> SlotInit
       [] OTHER -> TRUE

Moves(which) ==
  /\ side = which /\ UNCHANGED side
  /\ which # "container" => UNCHANGED containervars
  /\ which # "open" => UNCHANGED openvars
  /\ which # "slots" => UNCHANGED slotvars
  /\ which # "memory" => UNCHANGED memvars

HandleNext ==
  \/ Moves("container") /\ ContainerNext
  \/ Moves("open") /\ OpenNext
  \/ Moves("slots") /\ SlotNext
  \/ Moves("memory") /\ MemoryNext

handlevars == <<side, containervars, openvars, slotvars, memvars>>

HandleSpec == HandleInit /\ [][HandleNext]_handlevars
===============================================================================
