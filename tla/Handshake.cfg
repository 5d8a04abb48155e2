SPECIFICATION FairSpec
CONSTANTS
  MaxFaults = 1
  MaxHalts = 1
CHECK_DEADLOCK FALSE
INVARIANT KeysAgree
INVARIANT DiscardIsFinal
INVARIANT OrphanIsDiscarded
PROPERTY RequestIsKeyed
