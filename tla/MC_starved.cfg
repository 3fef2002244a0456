\* As many rows that never fit as a batch takes.
SPECIFICATION LiveSpec
CONSTANTS
  Recordings = {r1, r2}
  Unfit = {r1}
  BatchLimit = 1
  Faults = {"crash"}
  MaxFaults = 1
  r1 = r1
  r2 = r2
PROPERTY Recovered
