--------------------------- MODULE MCOrchestration ---------------------------
(* Instances of Orchestration for TLC. *)
EXTENDS Orchestration, TLC

CONSTANTS p1, p2

\* The two reviewed layers of the template of graph.py: a task behind the derived gate, and one behind it
\* and a human gate that disposes of its assessment.
ChainNodes == {"INDEPENDENT_RISK_REVIEW", "CREDIT_OPERATIONS"}
ChainPreds == [n \in ChainNodes |->
  IF n = "CREDIT_OPERATIONS" THEN {"INDEPENDENT_RISK_REVIEW"} ELSE {}]
ChainGateOf == [n \in ChainNodes |->
  IF n = "CREDIT_OPERATIONS" THEN "G3" ELSE "G1"]
ChainReviewed == [g \in {"G1", "G3"} |->
  IF g = "G3" THEN {"INDEPENDENT_RISK_REVIEW"} ELSE {}]

ProcSymmetry == Permutations({p1, p2})
==============================================================================
