SPECIFICATION Spec
CONSTANTS
  Files <- ManyFiles
  NoFile <- MCNoFile
  ParentOf <- ManyParentOf
  Depth <- ManyDepth
  Format <- ManyFormat
  TotalHunks <- ManyTotal
  Map <- ManyMap
  HunkUnits = 300
  Unit <- ManyUnit
  Unwritten = Unwritten
  Undecodable = Undecodable
  Content <- ManyContent
  CacheSlots = 1
  MapOnDemand = FALSE
  NoRequest = NoRequest
INVARIANT
  AnswersFaithful
