SPECIFICATION FairSpec
CONSTANTS
  p1 = p1
  p2 = p2
  Procs = {p1, p2}
  Nodes <- ChainNodes
  Gates = {"G1", "G3"}
  Preds <- ChainPreds
  GateOf <- ChainGateOf
  IntakeGate = "G1"
  Reviewed <- ChainReviewed
  GapNodes = {}
  MaxVersion = 2
  MaxRequests = 2
  MaxFaults = 0
PROPERTIES ReadyStarted
CHECK_DEADLOCK FALSE
