\* Functors with a View in a member, in a base class and in an array.
SPECIFICATION Spec
CONSTANTS
  f = f  a = a  b = b  v = v  w = w
  Root = f
  Functors <- MCFunctors
INVARIANTS
  ContainedViewsFound
\* The walk ends.
CHECK_DEADLOCK FALSE
