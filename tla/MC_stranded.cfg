\* One sweep at a time, and every failure but the ones that lose a job or a request.
SPECIFICATION Spec
CONSTANTS
  Recordings = {r1}
  None = None
  Deliveries = {d1, d2}
  Collectors = {c1}
  MaxUploads = 2
  MaxAttempts = 2
  PageLimit = 2
  MaxDrainPages = 2
  BatchLimit = 2
  TooLong = {}
  LongAudio = {}
  Faults = {"unconfigured", "rejected", "refused", "db_error", "redelivery", "queue_down"}
  MaxFaults = 3
  c1 = c1
  d1 = d1
  d2 = d2
  r1 = r1
INVARIANT NothingStranded
