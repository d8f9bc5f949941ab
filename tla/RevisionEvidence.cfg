SPECIFICATION Spec
CONSTANTS
  Desks = {"intake"}
  Requests = {r1, r2}
  Actors = {a1, a2}
  Nobody = nobody
  Staff <- MCStaff
  GateTypes <- MCGates
  MaxVersion = 3
  LatestVersion = 2
  MaxNeeds = 3
  MaxSnapshots = 2
  Documents = {d1}
  Fields = {x1, x2}
  Workers = {a1, a2}
  Dispositions <- MCDispositions
  Quanta = 100
  Confirmable <- MCConfirmable
  Amounts = {0, 3}
  Principals = {0, 1, 2, 3, 7, 100}
  Rates = {0, 7}
  Terms = {1, 2, 3, 5, 7}
  DriverAmounts = {0, 7}
  Downsides <- MCDownsides
  LastDay = 2
  StatusFacts <- MCStatusFacts
  Runners = {r1, r2}
  Opinions = {x1, x2}
  ModelGaps <- MCModelGaps
  MaxLosses = 1
  Passages <- MCPassages
  Facts <- MCFacts
  MaxBudget = 3
  LegLimit = 2
  MaxStale = 1
  Needed = {d1}
  Clauses = {p1}
  Checks = {c1}
  RiskIds = {p1}
  MaxItems = 2
  Gaps = {x1, x2}
  DispositionTypes <- MCDispositionTypes
  MaxDispositions = 2
  Challenges = {c1}
  ReviewTypes <- MCReviewTypes
  MaxRecorded = 3
  ProposedActions = {x1, x2}
SYMMETRY Alike
INVARIANT EvidenceCarried
CHECK_DEADLOCK FALSE
