CONSTANTS
  a = a
  b = b
  c = c
  r1 = r1
  r2 = r2
  r3 = r3
  r4 = r4
  Runs = {r1, r2, r3, r4}
  NodeIds = {a, b, c}
  Plan <- ManyPlans
  MaxRetries <- RetryAOnly
  Conditional = {b}
  Selective = {a}
  MaxConcurrentWorkflows = 2
SPECIFICATION Spec
CHECK_DEADLOCK FALSE
INVARIANTS BoundsKept PredecessorsFirst
PROPERTIES RunsEndRight ImplementsPromise
