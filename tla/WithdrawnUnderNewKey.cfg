SPECIFICATION Spec
CONSTANTS
  MAX_RESEND_COUNT = 1000
  MaxMessages <- M20
  ExchangeIds <- AliceOnly
  Announcers = {}
  Deleters = {"alice"}
  Closers = {}
  Outcomes = {}
  MaxFaults = 0
  MaxCrashes = 0
CHECK_DEADLOCK FALSE
INVARIANT FramesReadable
