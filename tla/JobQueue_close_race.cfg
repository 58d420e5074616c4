CONSTANTS
  Jobs = {j1, j2}
  NoJob = NoJob
  Keys = {}
  NoKey = NoKey
  Priorities = {0}
  Delays = {0}
  AttemptLimits = {1}
  RetryDelays = {0}
  Concurrency = 1
  TickTime = 1
  DeadLetterTtl = 0
  Drainers = {}
  Closers = {c1}
SPECIFICATION Spec
CHECK_DEADLOCK FALSE
INVARIANTS CloseLeavesNothing
