SPECIFICATION Spec
CONSTANTS
  t1 = t1
  t2 = t2
  v1 = v1
  v2 = v2
  Thread <- OneThread
  View <- TwoViews
  Label = {"k", "o"}
  LabelsOf <- SoloLabels
  ViewsOf <- SoloViews
  ModeOf <- Mixed
  DumpLabel = "k"
  DumpInvocation = 2
  HasCompilerPlugins = FALSE
  ToolHasFence = TRUE
  EarlyMetadata = TRUE
  DumpMayFail = FALSE
  MaxLaunches = 3
INVARIANTS
  ParallelForSavesItsFunctor
