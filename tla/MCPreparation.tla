----------------------------- MODULE MCPreparation -----------------------------
EXTENDS Preparation, TLC

\* Everyone holds every role.
MCStaff ==
  [role \in {"INTAKE_OFFICER", "UNDERWRITER", "LEGAL_REVIEWER", "RISK_REVIEWER",
             "OPS_OFFICER"} |-> Actors]

MCGates ==
  {"HG_FINANCING_NEED_CONFIRMED", "G2_GAP_REQUEST_APPROVAL", "G3_RISK_DISPOSITION", "G4_OPS_AUTHORIZATION",
   "HG_LEGAL_ASSESSMENT_REVIEWED", "HG_UNDERWRITING_ASSESSMENT_REVIEWED",
   "HG_MAKER_SUBMISSION_CONFIRMED"}

MCDispositions == {"ACCEPTED", "ABSENT"}
MCDispositionTypes == {"APPROVED_ALL", "REJECTED", "NO_OUTBOUND_REQUESTS"}
MCReviewTypes == {"MAKER_MUST_REVISE", "NOTED"}
MCStatusFacts == {"PRESENT", "MISSING", "LOST"}

MCConfirmable ==
  {"current_assets", "inventory", "revenue", "accounts_receivable",
   "accounts_payable", "cost_of_goods_sold", "prior_revenue"}

MCDownsides ==
  [revenue_down : {0, 2}, cost_up : {0, 1}, receivable_days_up : {0, 15}]

\* One maker may add a gap of its own, so that its drafts may differ.
MCModelGaps ==
  [UNDERWRITING |-> {"asked"}, LEGAL |-> {}, RISK |-> {}, OPERATIONS |-> {}]

\* Two passages of one document, and one of another; a fact in each document.
MCPassages ==
  {[doc |-> "D1", region |-> "A", cost |-> 2], [doc |-> "D1", region |-> "B", cost |-> 1],
   [doc |-> "D2", region |-> "C", cost |-> 1]}
MCFacts == {[doc |-> "D1", region |-> "A"], [doc |-> "D2", region |-> "C"]}

\* One desk is at work, so the desks can draw on the same few model values: the
\* runners of the specialists are requests, the workers of the intake are actors,
\* and a gap, an opinion and an action are each an x.
Alike == Permutations(Requests) \cup Permutations(Actors) \cup Permutations(Gaps)
================================================================================
