\* OneSweep: one sweep at a time, no request or call dies halfway; jobs and storage may fail.
SPECIFICATION Spec
CONSTANTS
  Recordings = {r1}
  None = None
  Deliveries = {d1, d2}
  Collectors = {c1}
  MaxUploads = 2
  MaxAttempts = 2
  PageLimit = 2
  MaxDrainPages = 2
  BatchLimit = 2
  TooLong = {}
  LongAudio = {}
  Faults = {"storage", "unconfigured", "rejected", "refused", "job_failed", "expiry", "db_error", "redelivery", "queue_down"}
  MaxFaults = 3
  c1 = c1
  d1 = d1
  d2 = d2
  r1 = r1
INVARIANT SweepInv
INVARIANT ClaimExclusive
INVARIANT NewAudioWins
PROPERTY DoneIsFinal
PROPERTY LifecycleSpec
