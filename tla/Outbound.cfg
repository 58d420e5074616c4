CONSTANTS
  Callers = {"c1", "c2"}
  Batch <- MCBatch
  Kinds = {"email", "sms", "push"}
  Preferred <- MCPreferred
  Renders = {"n1", "n2", "n3", "n4", "n5"}
  Registered = {"email", "sms"}
  Addressed <- MCAddressed
  MaxAttemptsOption = 2
  Calls = {"k1", "k2"}
  Operation <- MCOperation
  Capabilities = {"releases.deliver"}
  PolicyAttempts = 3
  SyncJobs = {"j1", "j2"}
  Enabled = {"j1"}
  Cursors = {"x", "y"}
  NoCursor = "undefined"
SPECIFICATION OutboundSpec
CHECK_DEADLOCK FALSE
INVARIANTS OutcomesAgree AnswersAgree
PROPERTIES OnlyFailuresRepeat EverythingEnds
