\* Two accounts, objects of others beside theirs, every failure once.
SPECIFICATION LiveSpec
CONSTANTS
  Users = {"ann", "bob"}
  Records = {"rec", "rec2"}
  None = None
  Foreign <- MCForeign
  MaxUploads = 2
  Faults = {"storage", "queue_down", "redelivery", "other_event"}
  MaxFaults = 1
INVARIANT AudioStoreTypes
INVARIANT KeysRoundTrip
PROPERTY OwnerOnly
PROPERTY RemovedRightly
PROPERTY NoticesEnd
CHECK_DEADLOCK FALSE
