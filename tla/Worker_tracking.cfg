SPECIFICATION Spec
CONSTANTS
  JobKeys = {1}
  DockerKeys = {3}
  RawRepeat <- MCRepeat
  RawTimeout <- MCTimeout
  UnsupportedKeys <- MCNoUnsupported
  NoResponse = NoResponse
  ThreadChoices = {1}
  InitialThreads = 1
  JobsGetTimeout = 1
  ResponseSendTimeout = 0
  AutoUpdate = FALSE
  Lists <- MCAllLists
  RecentChoices <- MCAnyRecent
  RestartOrders <- MCNever
  UpdateOrders <- MCNever
  MayHang = FALSE
  Postpone = 3
  MaxTime = 4
  MinRepeat = 2
  MaxRepeat = 3
  MinTimeout = 1
  DefaultTimeout = 1
  MaxTimeout = 2
  ImmediateErrorRetry = FALSE
  BatchFactor = 1
  MinBatch = 1
  MaxBatch = 2
INVARIANTS
  HandlersAreCounted
  OnePendingPerJob
PROPERTIES
  StartsWithinThreads
  NextRunWaitsRepeat
  ResultsInRunOrder
  JobResultsDelivered
  DockerResultsDelivered
