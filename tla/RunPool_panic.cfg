SPECIFICATION Spec
CONSTANTS
  Checks = {k1, k2}
  Runs = {r1, r2, r3, r4, r5}
  Sems = {s1}
  None = None
  ThreadChoices = {1}
  InitialThreads = 1
  MayHang = TRUE
  Prompt = TRUE
SYMMETRY MCSymmetry
INVARIANTS
  ContinuesAfterGiveUp
