SPECIFICATION MergeSpec
CONSTANTS
  Granularity = 2
  Address <- MCAddress
  Size <- MCSize
  MaxWanted = 4
INVARIANTS
  MergeTypeOK
  RegionsDisjoint
  RegionsCover
  RegionsTight
  RegionsAligned
CHECK_DEADLOCK FALSE
