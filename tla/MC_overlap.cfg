\* Two sweeps, no failure.
SPECIFICATION Spec
CONSTANTS
  Recordings = {r1}
  None = None
  Deliveries = {d1, d2}
  Collectors = {c1, c2}
  MaxUploads = 1
  MaxAttempts = 2
  PageLimit = 2
  MaxDrainPages = 2
  BatchLimit = 2
  TooLong = {}
  LongAudio = {}
  Faults = {}
  MaxFaults = 0
  c1 = c1
  c2 = c2
  d1 = d1
  d2 = d2
  r1 = r1
PROPERTY DoneIsFinal
