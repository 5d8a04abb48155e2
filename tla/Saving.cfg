SPECIFICATION FairSaving
CONSTANTS
  Subjects = {"save", "key", "frame", "file", "kind", "export", "fetch", "rich"}
  Kind <- Mails
  MaxSaveErrors = 1
  MaxOutages = 2
  MaxTorn = 0
  DH_BITS = 6
  FLOOR_BITS = 2
  MillerRabinBases = {2, 3}
  Digit = 4
  FrameKeys = {"k1", "k2"}
  MaxBody = 4
  MaxBlocks = 2
  Sources <- TwoSources
  Part = 3
  MemoryLimit = 16
  FILE_BLOCK = 2
  CHUNK = 4
  Savers = {"s1", "s2"}
  IntSizeLimit = 4
  MaxRewrites = 1
  LACE = 3
  Comments <- CommentLists
  Vendors <- VendorNames
  Records <- RecordLists
  Ranges <- SavedRanges
  MESSAGES_IN_FILE = 2
  SLICE_LIMIT = 3
  SizeLimit = 1
  PeerKinds = {"group", "supergroup"}
  Histories <- SomeHistories
  SplitCounts = {0, 2}
  LastOfFirst = 2
  FetchRanges <- FetchedRanges
  SLICE = 2
  EMOJI_CHUNK = 1
  CACHE = 1
  MaxRefreshes = 1
  MIGRATED_SHIFT <- Below
  Policy <- Policies
  MaxChanges = 1
  RichMessages <- RichInstances
  ButtonActions = {"url", "copy"}
  SafeTargets = {"http", "w1", "w2", "w3"}
  RichEmoji = {"e1", "e2", "e3", "e5", "e6"}
  TargetMax = 1
CHECK_DEADLOCK FALSE
INVARIANT FileNotLost
INVARIANT KeyInPrimeSubgroup
INVARIANT OpensAsSealed
INVARIANT SavedIsSent
INVARIANT KindIsKept
INVARIANT ExportIsWhole
INVARIANT FetchedIsWhole
INVARIANT RichIsWhole
PROPERTY OwedIsFetched
