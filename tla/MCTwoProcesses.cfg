\* Two runs of the application at the same time, as the ranks of an MPI job.
SPECIFICATION Spec
CONSTANTS
  None = None
  p1 = p1  p2 = p2  v1 = v1  v2 = v2  k1 = k1  k2 = k2
  Process = {p1, p2}
  View = {v1, v2}
  Skipped = {v2}
  Key = {k1, k2}
  MetadataOf <- MCMetadataOf
  OneAtATime = FALSE
  MayFail = FALSE
  HdlReplayer = TRUE
  MaxGuards = 2
INVARIANTS
  OutputOfItsInput
\* The processes end, and the replay program loads a bounded number of times.
CHECK_DEADLOCK FALSE
