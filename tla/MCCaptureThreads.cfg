SPECIFICATION Spec
CONSTANTS
  t1 = t1
  t2 = t2
  v1 = v1
  v2 = v2
  Thread <- TwoThreads
  View <- TwoViews
  Label = {"k", "o"}
  LabelsOf <- OwnLabels
  ViewsOf <- OwnViews
  ModeOf <- AllKrepe
  DumpLabel = "k"
  DumpInvocation = 2
  HasCompilerPlugins = TRUE
  ToolHasFence = TRUE
  EarlyMetadata = FALSE
  DumpMayFail = TRUE
  MaxLaunches = 2
INVARIANTS
  TypeOK
  DumpHoldsItsKernel
  DumpHoldsInputs
  DumpHoldsOutputs
  CopiesLiveMemory
  KernelStatesMatch
  ChosenWritesDump
PROPERTIES
  ImplementsCaptureOnce
