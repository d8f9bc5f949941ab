SPECIFICATION Spec
CONSTANTS
  r1 = r1
  r2 = r2
  r3 = r3
  a = a
  b = b
  nobody = nobody
  Nobody = nobody
  Requests = {r1, r2}
  Makers = {a}
  Checkers = {a, b}
  MaxVersion = 2
  MaxAttempts = 2
SYMMETRY RequestSymmetry
INVARIANTS TypeOK DualControl MovementsAccounted ExecutedVouched
