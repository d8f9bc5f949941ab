------------------------------- MODULE Fulfilment -------------------------------
(****************************************************************************)
(* From the credit decision to the gates a disbursement needs, and after    *)
(* the disbursement the monitoring, collections, settlement and recovery of *)
(* the same case. The desks share the case version, the decision and the    *)
(* requests, and none of them reads what another one writes. So a behaviour *)
(* has one desk at work, chosen at the start: what one of them can do does  *)
(* not depend on the others.                                                *)
(****************************************************************************)
EXTENDS Notifications, Conditions, SecurityInterests, ContractPackages,
        Monitoring, Repayments, SettlementRecovery

CONSTANT Desks  \* the desks under study

ASSUME DesksAssumption ==
  Desks \subseteq {"notifications", "conditions", "security", "contracts",
                  "monitoring", "collections", "settlement", "recovery"}

\* The gates the desks satisfy, and the roles they ask for.
ASSUME GatesAssumption ==
  {"HG_CREDIT_NOTIFICATION_APPROVED", "HG_DISBURSEMENT_CONDITIONS_CONFIRMED",
   "HG_SECURITY_PERFECTION_CONFIRMED", "HG_CONTRACT_PACKAGE_APPROVED",
   "HG_SIGNATURE_AUTHORITY_CONFIRMED", "HG_CONTRACTS_SIGNED",
   "HG_SETTLEMENT_CONFIRMED", "HG_RECOVERY_STRATEGY_APPROVED"} \subseteq GateTypes
ASSUME RolesAssumption ==
  {"CREDIT_APPROVER", "OPS_OFFICER", "OPS_CHECKER", "LEGAL_REVIEWER",
   "MONITORING_REVIEWER", "WRITER"} \subseteq DOMAIN Staff

VARIABLE desk

contracting == <<notified, ledger, perfection, contracts>>
servicing == <<watching, repayments, closing>>

vars == <<casework, decided, contracting, servicing, desk>>

Init ==
  /\ CaseworkInit /\ DecisionInit
  /\ NotificationInit /\ LedgerInit /\ PerfectionInit /\ ContractsInit
  /\ MonitoringInit /\ RepaymentsInit /\ ClosingInit
  /\ desk \in Desks

TypeOK ==
  /\ CaseworkTypeOK /\ DecisionTypeOK
  /\ NotificationTypeOK /\ LedgerTypeOK /\ PerfectionTypeOK /\ ContractsTypeOK
  /\ MonitoringTypeOK /\ RepaymentsTypeOK /\ ClosingTypeOK
  /\ desk \in Desks

\* The desks that ask whether credit was granted.  Only the contracts are drawn up
\* from the approved terms; at the other desks an approver gives none.
Decide ==
  /\ desk \in {"notifications", "conditions", "contracts", "collections"}
  /\ \E r \in Requests : DecisionNext(r, IF desk = "contracts" THEN BOOLEAN ELSE {FALSE})
  /\ UNCHANGED <<contracting, servicing, desk>>

Notify ==
  /\ desk = "notifications"
  /\ \E r \in Requests : NotificationNext(r)
  /\ UNCHANGED <<ledger, perfection, contracts, servicing, desk>>

WorkOnConditions ==
  /\ desk = "conditions"
  /\ \E r \in Requests : ConditionsNext(r)
  /\ UNCHANGED <<notified, perfection, contracts, servicing, desk>>

Secure ==
  /\ desk = "security"
  /\ \E r \in Requests : PerfectionNext(r)
  /\ UNCHANGED <<decided, notified, ledger, contracts, servicing, desk>>

Contract ==
  /\ desk = "contracts"
  /\ \E r \in Requests : ContractsNext(r)
  /\ UNCHANGED <<notified, ledger, perfection, servicing, desk>>

Monitor ==
  /\ desk = "monitoring" /\ MonitoringNext
  /\ UNCHANGED <<decided, contracting, repayments, closing, desk>>

Collect ==
  /\ desk = "collections" /\ RepaymentsNext
  /\ UNCHANGED <<contracting, watching, closing, desk>>

Settle ==
  /\ desk = "settlement" /\ SettlementNext
  /\ UNCHANGED <<decided, contracting, watching, repayments, desk>>

Recover ==
  /\ desk = "recovery" /\ RecoveryNext
  /\ UNCHANGED <<decided, contracting, watching, repayments, desk>>

Around ==
  /\ NewVersion \/ \E r \in Requests : Lost(r)
  /\ UNCHANGED <<decided, contracting, servicing, desk>>

Next ==
  \/ Decide \/ Notify \/ WorkOnConditions \/ Secure \/ Contract
  \/ Monitor \/ Collect \/ Settle \/ Recover
  \/ Around

Spec == Init /\ [][Next]_vars
================================================================================
