SPECIFICATION TrackerSpec
CONSTANTS
  HeaderSize = 2
  Space = {"Host", "Device"}
  Measurable = {"Host"}
  Ptr <- MCPtr
  DataBytes <- MCDataBytes
  Slack <- MCSlack
  Legacy = TRUE
  HasCompilerPlugins = TRUE
  MaxBlocks = 3
  MaxUsed = 2
INVARIANTS
  TrackerTypeOK
  TrackerMatchesHeap
  SnapshotHoldsUsedViews
  SnapshotHoldsOnlyUsedViews
  SnapshotDisjoint
