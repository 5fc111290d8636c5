SPECIFICATION Spec
CONSTANTS
  t1 = t1
  t2 = t2
  v1 = v1
  v2 = v2
  Thread <- TwoThreads
  View <- OneView
  Label = {"k", "o"}
  LabelsOf <- SharedLabels
  ViewsOf <- OneOwner
  ModeOf <- AllPlain
  DumpLabel = "k"
  DumpInvocation = 2
  HasCompilerPlugins = FALSE
  ToolHasFence = TRUE
  EarlyMetadata = FALSE
  DumpMayFail = TRUE
  MaxLaunches = 2
INVARIANTS
  AtMostOneDump
  DumpHoldsOutputs
