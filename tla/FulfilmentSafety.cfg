SPECIFICATION Spec
CONSTANTS
  Desks <- MCDesks
  Requests = {r1, r2}
  Actors = {a1, a2}
  Nobody = nobody
  Staff <- MCStaff
  GateTypes <- MCGates
  MaxVersion = 2
  Outcomes <- MCOutcomes
  ConditionIds = {c1, c2}
  InterestIds = {i1}
  ItemIds = {c1, c2}
  Redlines = {t1}
  MaxPackages = 3
  ObligationIds = {1}
  TestIds = {t1}
  Anchors = {0}
  MaxCount = 1
  Operators = {"GTE", "EQ"}
  Ratios = {1}
  References = {x1, x2, x3}
  Amounts = {2, 3}
  Schedule <- MCSchedule
  RecoveryIds = {y1, y2}
  MaxChecks = 2
SYMMETRY Alike
INVARIANTS
  TypeOK
  DeliveredUnderControl
  ConfirmationRests
  PerfectionRests
  SignedInOrder
  AlertsAccounted
  LedgerAddsUp
  SettledClean
  StrategyDual
CHECK_DEADLOCK FALSE
