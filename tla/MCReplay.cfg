SPECIFICATION FairSpec
CONSTANTS
  PageSize = 2
  DeviceGranularity = 4
  Pages <- MCPages
  Dumps <- MCDumps
  MaxHeap = 1
  Nothing = Nothing
  Result = Result
INVARIANTS
  ScopeTypeOK
  CopiesLandInMappedMemory
  NeverInItsOwnWay
  RestoredWhenReady
  LookupsPairUp
  MappingsGivenBack
PROPERTIES
  ProcessPagesKept
  HostDumpIsLoaded
CHECK_DEADLOCK FALSE
