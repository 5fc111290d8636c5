\* Every dump of MCDump, two calls of krepe::parallel_for, functors of two sizes.
SPECIFICATION Spec
CONSTANTS
  Nothing = Nothing
  Null = Null
  Half <- MCHalf
  Ranks = {2, 3, 4, 5, 6}
  Space = {"Serial", "OpenMP", "Cuda"}
  QueryableSpace = {"Cuda"}
  EnabledSpace = {"Serial", "Cuda"}
  Text <- MCText
  FlagText = other
  other = other
  CommandLines <- MCCommandLines
  Dump <- MCDump
  Files <- MCFiles
  Policies <- MCPolicies
  Sizes = {1, 2}
  Pointer = 1
  MaxCalls = 2
INVARIANTS
  ArgvKept
  LaunchedAsCaptured
  StoredNeverReleased
  TrackingBack
\* The program ends.
CHECK_DEADLOCK FALSE
