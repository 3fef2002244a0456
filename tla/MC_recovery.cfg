\* Three rows in batches of two, one of them with a transcript that never fits.
SPECIFICATION LiveSpec
CONSTANTS
  Recordings = {r1, r2, r3}
  Unfit = {r1}
  BatchLimit = 2
  Faults = {"lost", "refused", "crash", "queue_down", "unanswered", "db_error", "expiry"}
  MaxFaults = 2
  r1 = r1
  r2 = r2
  r3 = r3
INVARIANT RecoveryTypes
INVARIANT OncePerSweep
PROPERTY Recovered
