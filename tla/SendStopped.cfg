SPECIFICATION SendSpec
CONSTANTS
  MAX_RESEND_COUNT = 1000
  MaxMessages <- M20
  ExchangeIds <- None
  Announcers = {}
  Deleters = {}
  Closers = {}
  Outcomes = {"lost"}
  MaxFaults = 2
  MaxCrashes = 0
CHECK_DEADLOCK FALSE
INVARIANT TakenIsStored
