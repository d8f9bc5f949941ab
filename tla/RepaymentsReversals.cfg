SPECIFICATION Spec
CONSTANTS
  Desks = {"collections"}
  Requests = {r1}
  Actors = {a1}
  Nobody = nobody
  Staff <- MCStaff
  GateTypes <- MCGates
  MaxVersion = 1
  Outcomes <- MCOutcomes
  ConditionIds = {c1, c2}
  InterestIds = {i1}
  ItemIds = {c1, c2}
  Redlines = {t1}
  MaxPackages = 3
  ObligationIds = {1}
  TestIds = {t1}
  Anchors = {0}
  MaxCount = 1
  Operators = {"GTE"}
  Ratios = {1}
  References = {x1, x2, x3}
  Amounts = {2}
  Schedule <- MCSchedule
  RecoveryIds = {y1}
  MaxChecks = 1
INVARIANT LedgerReadable
CHECK_DEADLOCK FALSE
