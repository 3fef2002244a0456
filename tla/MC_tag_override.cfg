\* The user tags an event while the worker waits for the model.
SPECIFICATION Spec
CONSTANTS
  Tags = {t1, t2}
  Names = {n1, n2}
  Events = {e1}
  None = None
  Stray = stray
  Workers = {w1}
  Requests = {q1}
  Operations = {"create", "tag"}
  MaxAttempts = 1
  Faults = {"overlap"}
  MaxFaults = 1
  t1 = t1
  t2 = t2
  n1 = n1
  n2 = n2
  e1 = e1
  w1 = w1
  q1 = q1
  stray = stray
SYMMETRY Symmetry
PROPERTY FillsGaps
\* Every id is used once: with none left and no request in progress the model is at rest.
CHECK_DEADLOCK FALSE
