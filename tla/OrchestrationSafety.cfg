SPECIFICATION Spec
CONSTANTS
  p1 = p1
  p2 = p2
  Procs = {p1, p2}
  Nodes <- ChainNodes
  Gates = {"G1", "G3"}
  Preds <- ChainPreds
  GateOf <- ChainGateOf
  IntakeGate = "G1"
  Reviewed <- ChainReviewed
  GapNodes = {"CREDIT_OPERATIONS"}
  MaxVersion = 2
  MaxRequests = 2
  MaxFaults = 1
SYMMETRY ProcSymmetry
INVARIANTS TypeOK WorkGated OutboxCovers HandoffCarried
CHECK_DEADLOCK FALSE
