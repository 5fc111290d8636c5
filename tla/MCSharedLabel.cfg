SPECIFICATION Spec
CONSTANTS
  t1 = t1
  t2 = t2
  v1 = v1
  v2 = v2
  Thread <- TwoThreads
  View <- TwoViews
  Label = {"k", "o"}
  LabelsOf <- SharedLabels
  ViewsOf <- OwnViews
  ModeOf <- AllKrepe
  DumpLabel = "k"
  DumpInvocation = 1
  HasCompilerPlugins = TRUE
  ToolHasFence = TRUE
  EarlyMetadata = FALSE
  DumpMayFail = FALSE
  MaxLaunches = 1
INVARIANTS
  ParallelForSavesItsFunctor
