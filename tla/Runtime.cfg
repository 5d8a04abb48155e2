SPECIFICATION FairRuntime
CONSTANTS
  Subjects = {"life", "ingress"}
  Chats = {"a", "b"}
  Ended = {"b"}
  Handlers = {"h1", "h2"}
  Mains = {"m"}
  MaxStops = 2
  MaxFailures = 1
  MaxMail = 1
  Streams <- Queues
  IngressChats = {"a", "b"}
  MaxBatches = 2
  MaxPauses = 1
  MaxFaults = 1
  MaxReopens = 1
CHECK_DEADLOCK FALSE
INVARIANT NoneLeftRunning
INVARIANT RecordIsCurrent
INVARIANT ForgottenIsHeld
INVARIANT LedgerOpens
PROPERTY CallersReturn
PROPERTY CapturedIsApplied
