SPECIFICATION Spec
CONSTANTS
  Subs = {a, b}
  Posters = {p, q}
  MaxPosts = 1
  Nobody = Nobody
INVARIANT StopBlocks
CHECK_DEADLOCK FALSE
