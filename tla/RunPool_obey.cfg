SPECIFICATION Spec
CONSTANTS
  Checks = {k1, k2}
  Runs = {r1, r2, r3, r4, r5}
  Sems = {s1, s2}
  None = None
  ThreadChoices = {1, 2}
  InitialThreads = 0
  MayHang = FALSE
  Prompt = TRUE
SYMMETRY MCSymmetry
INVARIANTS
  TypeOK
  ClosesOwnChannel
PROPERTIES
  RunsAsSeen
