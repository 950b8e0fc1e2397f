-------------------------------- MODULE Header --------------------------------
(***************************************************************************)
(* The header of a CHD file and what header_read() takes and refuses.  A   *)
(* raw header is a record of the fields the versions have; a hash is       *)
(* whether it is there.  Numbers are scaled: U32 and U64 stand for 2^32    *)
(* and 2^64, and arithmetic wraps where C wraps it.                        *)
(***************************************************************************)
EXTENDS Integers

CONSTANTS
  U32, U64,
  LegacyHunkLimit,   \* 65536 * 256
  MaxHunkSize,       \* CHD_MAX_HUNK_SIZE
  MaxFileSize,       \* CHD_MAX_FILE_SIZE
  HeaderSizes,       \* header_sizes: the length of each version's header
  OldEntry, Entry    \* OLD_MAP_ENTRY_SIZE, MAP_ENTRY_SIZE

V1SectorSize == 4      \* CHD_V1_SECTOR_SIZE, scaled

ASSUME HeaderAssumption ==
  /\ {U32, U64, LegacyHunkLimit, MaxHunkSize, MaxFileSize, OldEntry, Entry} \subseteq Nat \ {0}
  /\ MaxHunkSize <= U32 /\ U32 <= U64 /\ V1SectorSize < U32
  /\ HeaderSizes \in [1 .. 5 -> Nat]

Versions == DOMAIN HeaderSizes

Legacy(version) == version < 5
EntrySize(version) == IF version < 3 THEN OldEntry ELSE Entry

-----------------------------------------------------------------------------
(* What the first 16 bytes decide, and what the rest of the header is read *)
(* into.  The metadata may be looked at before the header is complete.     *)

StartVerdict(raw) ==
  IF ~raw.tag THEN "INVALID_DATA"
  ELSE IF raw.version \notin Versions THEN "UNSUPPORTED_VERSION"
  ELSE IF raw.length # HeaderSizes[raw.version] THEN "INVALID_DATA"
  ELSE "NONE"

SectorLength(raw) == IF raw.version = 1 THEN V1SectorSize ELSE raw.seclen

(* hunkbytes; 0 is an error for every version, sooner or later.            *)
HunkBytes_In32Bits(raw) ==
  IF raw.version >= 3 THEN raw.hunkbytes ELSE (SectorLength(raw) * raw.hunksize) % U32
HunkBytes(raw) ==
  IF raw.version >= 3 THEN raw.hunkbytes
  ELSE LET bytes == SectorLength(raw) * raw.hunksize
       IN  IF bytes >= U32 THEN 0 ELSE bytes

LogicalBytes(raw) ==
  IF raw.version >= 3 THEN raw.logicalbytes
  ELSE (raw.cylinders * raw.heads * raw.sectors * SectorLength(raw)) % U64

MetaOffset(raw) == IF raw.version >= 3 THEN raw.metaoffset ELSE 0

\* Rounded up, in 64 bits.
CountOf(bytes, size) == ((bytes + size - 1) % U64) \div size

TotalHunks(raw) ==
  IF Legacy(raw.version) THEN raw.totalhunks
  ELSE CountOf(raw.logicalbytes, raw.hunkbytes) % U32

Completed(raw, unitbytes) ==
  [version      |-> raw.version,
   length       |-> raw.length,
   hunkbytes    |-> HunkBytes(raw),
   unitbytes    |-> unitbytes,
   logicalbytes |-> LogicalBytes(raw),
   unitcount    |-> CountOf(LogicalBytes(raw), unitbytes),
   totalhunks   |-> TotalHunks(raw),
   metaoffset   |-> MetaOffset(raw)]

\* Refused before the unit size is known, or because of it.
GeometryVerdict(raw, unitbytes) ==
  IF (raw.version \in {1, 2, 5} /\ HunkBytes(raw) = 0) \/ unitbytes = 0
    THEN "INVALID_DATA" ELSE "NONE"

-----------------------------------------------------------------------------
(* The validation at the end of header_read().  Versions up to 4 only:     *)

HasParent(raw) == raw.parentflag
ObsoleteFields(raw) == <<raw.cylinders, raw.heads, raw.sectors, raw.hunksize>>

LegacyFieldsAreValid(raw) ==
  /\ ~raw.undefinedflags
  /\ raw.codecknown
  /\ HunkBytes(raw) \in 1 .. LegacyHunkLimit - 1
  /\ raw.totalhunks # 0
  /\ HasParent(raw) => raw.parenthash
  /\ raw.version < 3 => \A i \in 1 .. 4 : ObsoleteFields(raw)[i] # 0

\* The map of an old file is an array behind the header.
MapEnd(raw) == raw.length + raw.totalhunks * EntrySize(raw.version)

SizesAreSane(raw, filesize) ==
  /\ HunkBytes(raw) < MaxHunkSize
  /\ HunkBytes(raw) * TotalHunks(raw) < MaxFileSize
  /\ Legacy(raw.version) => MapEnd(raw) <= filesize

Verdict(raw, unitbytes, filesize) ==
  IF GeometryVerdict(raw, unitbytes) # "NONE" THEN GeometryVerdict(raw, unitbytes)
  ELSE IF /\ Legacy(raw.version) => LegacyFieldsAreValid(raw)
          /\ SizesAreSane(raw, filesize)
    THEN "NONE"
  ELSE "INVALID_DATA"
================================================================================
