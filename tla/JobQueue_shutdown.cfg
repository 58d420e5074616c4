CONSTANTS
  Jobs = {j1, j2}
  NoJob = NoJob
  Keys = {k1}
  NoKey = NoKey
  Priorities = {0}
  Delays = {0, 1}
  AttemptLimits = {2}
  RetryDelays = {0, 1}
  Concurrency = 1
  TickTime = 1
  DeadLetterTtl = 0
  Drainers = {d1, d2}
  Closers = {c1, c2}
SPECIFICATION Spec
CHECK_DEADLOCK FALSE
SYMMETRY QueueSymmetry
INVARIANTS PlacedOnce
PROPERTIES ShutdownSettles ImplementsLifecycle
