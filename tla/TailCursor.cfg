SPECIFICATION Spec
CONSTANTS
  Writers = {w1, w2}
  MaxEntries = 2
  MaxInsert = 2
  Kinds = {"normal", "tailable", "await", "polling"}
  FindSizes = {0, 1}
  MoreSizes = {1, 2}
INVARIANTS
  DeliversTheLog
  NoLostWakeup
PROPERTIES
  RegistryFollowsClient
  EveryEntryReached
CHECK_DEADLOCK FALSE
