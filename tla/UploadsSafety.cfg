SPECIFICATION Spec
CONSTANTS
  r1 = r1
  r2 = r2
  r3 = r3
  i1 = i1
  i2 = i2
  k1 = k1
  k2 = k2
  c1 = c1
  c2 = c2
  none = none
  None = none
  Requests = {r1, r2, r3}
  Intents = {i1, i2}
  Keys = {k1, k2}
  Contents = {c1, c2}
  Verifiable = {c1, c2}
  Lease = 1
  TTL = 2
  MaxTime = 3
SYMMETRY Symmetry
CHECK_DEADLOCK FALSE
INVARIANTS TypeOK OneRegistration AnswersAgree Repairable DuplicatesTrue
