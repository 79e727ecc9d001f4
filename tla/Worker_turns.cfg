SPECIFICATION FairSpec
CONSTANTS
  JobKeys = {1, 2}
  DockerKeys = {}
  RawRepeat <- MCRepeat
  RawTimeout <- MCTimeout
  UnsupportedKeys <- MCJob1Unsupported
  NoResponse = NoResponse
  ThreadChoices = {1}
  InitialThreads = 1
  JobsGetTimeout = 1
  ResponseSendTimeout = 0
  AutoUpdate = TRUE
  Lists <- MCOneDropped
  RecentChoices <- MCNoneRecent
  RestartOrders = {TRUE,FALSE}
  UpdateOrders = {TRUE,FALSE}
  MayHang = TRUE
  Postpone = 3
  MaxTime = 4
  MinRepeat = 2
  MaxRepeat = 3
  MinTimeout = 1
  DefaultTimeout = 1
  MaxTimeout = 2
  ImmediateErrorRetry = FALSE
  BatchFactor = 1
  MinBatch = 1
  MaxBatch = 2
INVARIANTS
  ResultOfOwnObject
PROPERTIES
  LoopTurns
  HungCheckIsFreed
