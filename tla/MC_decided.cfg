\* Any two failures, two uploads; sweeps and deliveries go on.
SPECIFICATION LiveSpec
CONSTANTS
  Recordings = {r1}
  None = None
  Deliveries = {d1, d2}
  Collectors = {c1}
  MaxUploads = 2
  MaxAttempts = 2
  PageLimit = 2
  MaxDrainPages = 2
  BatchLimit = 2
  TooLong = {}
  LongAudio = {}
  Faults = {"crash", "storage", "unconfigured", "rejected", "refused", "no_answer", "box_down", "job_failed", "expiry", "db_error", "redelivery", "queue_down"}
  MaxFaults = 2
  c1 = c1
  d1 = d1
  d2 = d2
  r1 = r1
INVARIANT TypeOK
INVARIANT DoneHasText
PROPERTY EventuallyDecided
