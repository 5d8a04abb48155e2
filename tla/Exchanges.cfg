SPECIFICATION FairScenarios
CONSTANTS
  MAX_RESEND_COUNT = 1000
  MaxMessages <- M10
  ExchangeIds <- AliceOnly
  Announcers = {}
  Deleters = {}
  Closers = {}
  Outcomes = {}
  MaxFaults = 2
  MaxCrashes = 1
  Scenarios = {"crashing", "colliding"}
CHECK_DEADLOCK FALSE
INVARIANT FramesReadable
INVARIANT AcceptedCanComplete
INVARIANT ExchangeMatchesState
PROPERTY ExchangeEnds
