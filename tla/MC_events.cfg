\* One key and one create without, two requests at a time, two copies of the demo.
SPECIFICATION LiveSpec
CONSTANTS
  Ids = {e1, e2}
  Keys = {k1}
  Tags = {t1, t2}
  TagTable <- MCTagTable
  Rows <- MCRows
  None = None
  Requests = {q1, q2}
  MaxSeeds = 2
  Faults = {"unconfigured", "crash", "lost"}
  MaxFaults = 1
  e1 = e1
  e2 = e2
  k1 = k1
  t1 = t1
  t2 = t2
  q1 = q1
  q2 = q2
INVARIANT EventsTypes
INVARIANT UploadsFindRows
INVARIANT RecordingsOwned
INVARIANT SeedAtomic
PROPERTY SameEvent
PROPERTY SeedFits
PROPERTY RetrySettles
CHECK_DEADLOCK FALSE
