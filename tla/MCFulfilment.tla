----------------------------- MODULE MCFulfilment -----------------------------
EXTENDS Fulfilment, TLC

MCDesks ==
  {"notifications", "conditions", "security", "contracts",
   "monitoring", "collections", "settlement", "recovery"}

\* Everyone holds every role: only the rules about who did what keep people apart.
MCStaff ==
  [role \in {"CREDIT_APPROVER", "OPS_OFFICER", "OPS_CHECKER", "LEGAL_REVIEWER",
             "MONITORING_REVIEWER", "WRITER"} |-> Actors]

MCOutcomes == {"APPROVED_WITH_CONDITIONS", "NOT_APPROVED"}

MCGates ==
  {"HG_CREDIT_NOTIFICATION_APPROVED", "HG_DISBURSEMENT_CONDITIONS_CONFIRMED",
   "HG_SECURITY_PERFECTION_CONFIRMED", "HG_CONTRACT_PACKAGE_APPROVED",
   "HG_SIGNATURE_AUTHORITY_CONFIRMED", "HG_CONTRACTS_SIGNED",
   "HG_SETTLEMENT_CONFIRMED", "HG_RECOVERY_STRATEGY_APPROVED"}

\* The last installment of an annuity differs from the others.
MCSchedule ==
  <<[fee |-> 1, interest |-> 1, principal |-> 1],
    [fee |-> 0, interest |-> 1, principal |-> 2]>>

\* One desk is at work, so a condition and a security item can be the same value.
Alike ==
  Permutations(Requests) \cup Permutations(Actors) \cup Permutations(ConditionIds)
===============================================================================
