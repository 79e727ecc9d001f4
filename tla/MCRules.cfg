SPECIFICATION Spec
CONSTANTS
  MinRepeat = 60
  MaxRepeat = 600
  DefaultTimeout = 15
  MaxTimeout = 60
  MinTimeout = 1
  ImmediateErrorRetry = FALSE
  BatchFactor = 4
  MinBatch = 32
  MaxBatch = 200
  BelowZero = 3
  Highest = 605
  Ids = {0, 1, 2}
  MaxLen = 4
  Codes = {0, 199, 200, 204, 299, 300, 304, 399, 400, 404, 499, 500, 503}
  Amounts = {0, 1, 2, 7}
  Absent = Absent
  None = None
  BadHosts = {"bad"}
  Numeral <- MCNumeral
  NotFinite <- MCNotFinite
  Prefix <- MCPrefix
  WholeTexts <- MCWholeTexts
  Shown <- MCShown
INVARIANTS
  OrderAgreesWithStart
  PrependIsTheLoop
  TakeSplitsTheQueue
  VerdictIsTheOutcome
  DockerVerdictsAgree
  RefusalIsHeard
  ValuesReadAsShown
  PathsReadAlike
  ReadersAgree
  UsageIsAPercentage
  OneSourceEach
CHECK_DEADLOCK FALSE
