\* Requests and tagging workers two at a time, or one at a time with a failure.
SPECIFICATION LiveSpec
CONSTANTS
  Tags = {t1, t2}
  Names = {n1, n2}
  Events = {e1}
  None = None
  Stray = stray
  Workers = {w1, w2}
  Requests = {q1, q2}
  Operations = {"create", "rename", "delete", "tag", "write", "null"}
  MaxAttempts = 2
  Faults = {"overlap", "retry", "rejected", "crash", "redelivery", "queue_down"}
  MaxFaults = 1
  t1 = t1
  t2 = t2
  n1 = n1
  n2 = n2
  e1 = e1
  w1 = w1
  w2 = w2
  q1 = q1
  q2 = q2
  stray = stray
INVARIANT TaggingTypes
INVARIANT NeverInvented
INVARIANT CreateResolves
 
\* Every id is used once: with none left and no request in progress the model is at rest.
CHECK_DEADLOCK FALSE
