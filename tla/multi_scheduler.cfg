SPECIFICATION Spec
CONSTANTS
  N = 3
  Callers = {p1, p2, p3}
  NoIdx = NoIdx
  MaxInt = 15
  MaxPosts = 13
INVARIANTS
  Balanced
  NothingLost
\* Posting ends at MaxPosts.
CHECK_DEADLOCK FALSE
