SPECIFICATION FairSpec
CONSTANTS
  Checks = {k1, k2}
  Runs = {r1, r2, r3}
  Sems = {s1}
  None = None
  ThreadChoices = {1}
  InitialThreads = 1
  MayHang = TRUE
  Prompt = TRUE
INVARIANTS
  WorkWithinThreads
PROPERTIES
  RunsAreSettled
  GoroutinesEnd
CHECK_DEADLOCK FALSE
