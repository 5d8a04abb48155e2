SPECIFICATION FairScenarios
CONSTANTS
  MAX_RESEND_COUNT = 1000
  MaxMessages <- M10
  ExchangeIds <- AliceOnly
  Announcers = {}
  Deleters = {}
  Closers = {}
  Outcomes = {}
  MaxFaults = 2
  MaxCrashes = 1
  Scenarios = {"ordering", "layers", "withdrawal", "fault", "endings"}
CHECK_DEADLOCK FALSE
INVARIANT TypeOK
INVARIANT NeverRefused
INVARIANT NothingForgottenEarly
INVARIANT MailboxFaithful
INVARIANT DeletedIsWithdrawn
INVARIANT SendKeyHeld
PROPERTY ImplementsDialogue
PROPERTY HoleHealsInOrdering
