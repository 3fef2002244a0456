\* Two recordings in pages and batches of one; every failure but a failed job and a lost answer.
SPECIFICATION Spec
CONSTANTS
  Recordings = {r1, r2}
  None = None
  Deliveries = {d1, d2}
  Collectors = {c1}
  MaxUploads = 1
  MaxAttempts = 2
  PageLimit = 1
  MaxDrainPages = 2
  BatchLimit = 1
  TooLong = {}
  LongAudio = {}
  Faults = {"crash", "storage", "unconfigured", "rejected", "refused", "box_down", "expiry", "db_error", "redelivery", "queue_down"}
  MaxFaults = 2
  c1 = c1
  d1 = d1
  d2 = d2
  r1 = r1
  r2 = r2
SYMMETRY Symmetry
PROPERTY PersistThenAck
