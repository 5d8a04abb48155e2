SPECIFICATION LifeSpec
CONSTANTS
  Chats = {"a", "b"}
  Ended = {"b"}
  Handlers = {"h1"}
  Mains = {"m"}
  MaxStops = 1
  MaxFailures = 0
  MaxMail = 1
CHECK_DEADLOCK FALSE
INVARIANT ForgottenStaysForgotten
