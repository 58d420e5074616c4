CONSTANTS
  Jobs = {j1, j2}
  NoJob = NoJob
  Keys = {k1}
  NoKey = NoKey
  Priorities = {0}
  Delays = {0, 1}
  AttemptLimits = {2}
  RetryDelays = {0, 1}
  Concurrency = 1
  TickTime = 1
  DeadLetterTtl = 1
  Drainers = {d1}
  Closers = {}
SPECIFICATION FairSpec
CHECK_DEADLOCK FALSE
PROPERTIES EveryJobSettles DrainReturns
