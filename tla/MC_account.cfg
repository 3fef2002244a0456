\* A deletion among requests, uploads and notices; each of the failures it may meet.
SPECIFICATION LiveSpec
CONSTANTS
  Recordings = {r1, r2}
  None = None
  Deletions = {x1, x2}
  MaxUploads = 2
  Faults = {"queue", "storage", "auth", "auth_lost", "db", "crash", "enqueue", "redelivery", "stale_token"}
  MaxFaults = 1
  r1 = r1
  r2 = r2
  x1 = x1
  x2 = x2
INVARIANT AccountTypes
INVARIANT CollectsAll
INVARIANT OrphansNoticed
PROPERTY AuthGoesLast
PROPERTY AccountEndSpec
PROPERTY OrphansGo
CHECK_DEADLOCK FALSE
