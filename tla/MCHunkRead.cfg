SPECIFICATION FairSpec
CONSTANTS
  Files <- MCFiles
  NoFile <- MCNoFile
  ParentOf <- MCParentOf
  Depth <- MCDepth
  Format <- MCFormat
  TotalHunks <- MCTotalHunks
  Map <- MCMap
  HunkUnits = 2
  Unit <- MCUnit
  Unwritten = Unwritten
  Undecodable = Undecodable
  Content <- MCContent
  CacheSlots = 2
  MapOnDemand = TRUE
  NoRequest = NoRequest
INVARIANTS
  TypeOK
  CacheFaithful
  CallsDescend
PROPERTIES
  ReadsAreTransparent
  EveryReadReturns
