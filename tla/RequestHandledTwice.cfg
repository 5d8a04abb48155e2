SPECIFICATION Spec
CONSTANTS
  MAX_RESEND_COUNT = 1000
  MaxMessages <- M10
  ExchangeIds <- AliceOnly
  Announcers = {}
  Deleters = {}
  Closers = {}
  Outcomes = {"lost", "unknown"}
  MaxFaults = 2
  MaxCrashes = 0
CHECK_DEADLOCK FALSE
INVARIANT NoFalseMismatch
