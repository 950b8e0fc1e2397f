SPECIFICATION Spec
CONSTANTS
  HunkCount = 6
  HunkBytes = 4
  UnitBytes = 2
  FirstOffs = 10
  Stride = 2
  Maps <- MCMaps
  Unknown = Unknown
INVARIANTS TypeOK EntriesAreExact ResumeIsExact
