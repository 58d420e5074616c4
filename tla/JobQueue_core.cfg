CONSTANTS
  Jobs = {j1, j2, j3}
  NoJob = NoJob
  Keys = {}
  NoKey = NoKey
  Priorities = {0, 1}
  Delays = {0, 1}
  AttemptLimits = {2}
  RetryDelays = {0}
  Concurrency = 2
  TickTime = 1
  DeadLetterTtl = 0
  Drainers = {}
  Closers = {}
SPECIFICATION Spec
CHECK_DEADLOCK FALSE
SYMMETRY QueueSymmetry
INVARIANTS LimitsKept WakesOnTime
PROPERTIES NoOvertaking
