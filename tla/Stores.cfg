SPECIFICATION StoresSpec
CONSTANTS
  Subjects = {"store", "custody", "transient"}
  Process = {"one", "two"}
  Pids = {1, 2, 3}
  MaxNumber <- Numbers
  MaxDeaths = 1
  Records = 6
  Tasks = 2
  ChatSlots = 2
  Senders = {"s1"}
  Kinds <- SomeKinds
  MaxOut = 2
  MaxTicks = 1
  MaxSaveFailures = 1
  MaxRestarts = 1
  Rooms = {"x", "y"}
  TaskSlots = {"w1", "w2"}
  RecordLimit = 2
  ChatLimit = 1
  AttemptLimit = 2
  MaxSent = 2
  MaxFrames = 2
  MaxLives = 2
CHECK_DEADLOCK FALSE
INVARIANT ViewsAgree
INVARIANT LiveTempKept
INVARIANT WithinLimits
INVARIANT HeldOnce
INVARIANT RefusedIsLost
INVARIANT NoLostSlot
INVARIANT NothingLeftBehind
PROPERTY ImplementsAtomicStore
PROPERTY QuietForGood
