CONSTANTS
  a = a
  b = b
  c = c
  r1 = r1
  r2 = r2
  r3 = r3
  r4 = r4
  Runs = {r1}
  NodeIds = {a, b}
  Plan <- OneRepeated
  MaxRetries <- RetryOnce
  Conditional = {}
  Selective = {}
  MaxConcurrentWorkflows = 1
SPECIFICATION Spec
CHECK_DEADLOCK FALSE
INVARIANTS CompletedRunsEveryNode
