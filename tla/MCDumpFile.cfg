\* Two runs of the application one after the other, and two loads at any time.
SPECIFICATION Spec
CONSTANTS
  None = None
  p1 = p1  p2 = p2  v1 = v1  v2 = v2  k1 = k1  k2 = k2
  Process = {p1, p2}
  View = {v1, v2}
  Skipped = {v2}
  Key = {k1, k2}
  MetadataOf <- MCMetadataOf
  OneAtATime = TRUE
  MayFail = TRUE
  HdlReplayer = FALSE
  MaxGuards = 2
INVARIANTS
  DumpFileTypeOK
  LoadedInputIsWhole
  OutputOfItsInput
  RecordedDumpLoads
  MetadataAnswers
PROPERTIES
  ImplementsDumpStore
\* The processes end, and the replay program loads a bounded number of times.
CHECK_DEADLOCK FALSE
