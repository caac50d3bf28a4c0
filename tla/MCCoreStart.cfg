\* Four cores, the most the code supports.
CONSTANTS
  c1 = c1
  c2 = c2
  c3 = c3
  c4 = c4
  None = None
  Cores = {c1, c2, c3, c4}
SPECIFICATION CoreFairSpec
INVARIANT NoneStartsAlone
PROPERTIES NoRequestErased AllStart
CHECK_DEADLOCK TRUE
