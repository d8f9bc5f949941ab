-------------------------- MODULE SettlementRecovery --------------------------
(****************************************************************************)
(* The end of a loan (api/settlement_recovery.py): settlement, from a check *)
(* of the outstanding totals to two mock receipts and a gate, and recovery, *)
(* from a sustained shortfall to a strategy that another person approves.   *)
(* The figures come with the requests; neither reads the repayment ledger.  *)
(****************************************************************************)
EXTENDS Casework, Sequences

CONSTANTS
  RecoveryIds,
  MaxChecks    \* bound on the settlement checks of a version

ASSUME ChecksAssumption == MaxChecks \in Nat \ {0}

VARIABLES
  checks,     \* settlement_checks of a version, in the order they were recorded
  receipts,   \* who recorded each receipt of a check, Nobody before
  settledOn,  \* the check a confirmation of the version was based on, or 0
  recovery    \* recovery_cases: version, escalated_by, status and approved_by

closing == <<checks, receipts, settledOn, recovery>>

SUSTAINED_SHORTFALL_PERIODS == 3
SettlementReceiptKind == {"MOCK_CLOSURE", "MOCK_RELEASE"}
NoRecovery == [ver |-> 0, by |-> Nobody, status |-> "PREPARING", approvedBy |-> Nobody]

ClosingInit ==
  /\ checks = [v \in Versions |-> << >>]
  /\ receipts = [v \in Versions |->
       [n \in 1..MaxChecks |-> [k \in SettlementReceiptKind |-> Nobody]]]
  /\ settledOn = [v \in Versions |-> 0]
  /\ recovery = [x \in RecoveryIds |-> NoRecovery]

ClosingTypeOK ==
  /\ checks \in [Versions -> Seq([outstanding : Nat, exceptions : Nat])]
  /\ \A v \in Versions : Len(checks[v]) <= MaxChecks
  /\ receipts \in
       [Versions -> [1..MaxChecks -> [SettlementReceiptKind -> Actors \cup {Nobody}]]]
  /\ settledOn \in [Versions -> 0..MaxChecks]
  /\ recovery \in [RecoveryIds ->
       [ver : 0..MaxVersion, by : Actors \cup {Nobody},
        status : {"PREPARING", "STRATEGY_APPROVED"}, approvedBy : Actors \cup {Nobody}]]

-------------------------------------------------------------------------------
\* Mutant of Eligible: the open exceptions are forgotten.
EligibleBalance(outstanding, exceptions) == outstanding = 0

\* derive_settlement_eligible; the three totals count as one.
Eligible(outstanding, exceptions) == outstanding = 0 /\ exceptions = 0

\* The check an eligible snapshot becomes; its balance flag is computed again.
NewCheck(outstanding, exceptions) ==
  [outstanding |-> outstanding, exceptions |-> exceptions]

RecordCheck(v, outstanding, exceptions) ==
  /\ Eligible(outstanding, exceptions)
  /\ Len(checks[v]) < MaxChecks
  /\ checks' = [checks EXCEPT ![v] = Append(@, NewCheck(outstanding, exceptions))]
  /\ UNCHANGED <<casework, receipts, settledOn, recovery>>

\* load_latest_settlement_check
LatestCheck(v) == Len(checks[v])

CheckSettlement(r, a) ==
  /\ LatestCheck(caseVersion) > 0
  /\ Begin(r, "settle", a, "OPS_CHECKER", caseVersion,
           [check |-> LatestCheck(caseVersion)])
  /\ UNCHANGED closing

\* Both receipts of the check, in one transaction; those there are kept.
RecordReceipts(r) ==
  LET v == req[r].ver
      n == req[r].arg.check IN
  /\ Doing(r, "settle")
  /\ receipts' = [receipts EXCEPT ![v][n] =
       [k \in SettlementReceiptKind |-> IF @[k] = Nobody THEN req[r].who ELSE @[k]]]
  /\ req' = [req EXCEPT ![r].op = "settle_gate"]
  /\ UNCHANGED <<caseVersion, gate, checks, settledOn, recovery>>

ConfirmSettlement(r) ==
  LET v == req[r].ver IN
  /\ Doing(r, "settle_gate")
  /\ Satisfy("HG_SETTLEMENT_CONFIRMED", v, req[r].who)
  /\ settledOn' = [settledOn EXCEPT ![v] = IF @ = 0 THEN req[r].arg.check ELSE @]
  /\ Done(r)
  /\ UNCHANGED <<caseVersion, checks, receipts, recovery>>

-------------------------------------------------------------------------------
\* derive_recovery_trigger
Triggered(outstanding, periods) ==
  outstanding > 0 /\ periods >= SUSTAINED_SHORTFALL_PERIODS

\* The recovery case an escalation opens.
Escalated(v, a) == [NoRecovery EXCEPT !.ver = v, !.by = a]

OpenRecovery(v, a, x, outstanding, periods) ==
  /\ a \in Staff["OPS_CHECKER"]
  /\ Triggered(outstanding, periods)
  /\ recovery[x] = NoRecovery
  /\ recovery' = [recovery EXCEPT ![x] = Escalated(v, a)]
  /\ UNCHANGED <<casework, checks, receipts, settledOn>>

\* Mutant of RecoveryFound: a recovery case of an earlier version will do.
RecoveryFoundAny(x) == recovery[x].ver # 0

\* load_recovery_case
RecoveryFound(x) == recovery[x].ver = caseVersion

CheckStrategy(r, a, x) ==
  /\ RecoveryFound(x) /\ recovery[x].status = "PREPARING"
  /\ recovery[x].by # a
  /\ Begin(r, "strategy", a, "OPS_CHECKER", caseVersion, [recovery |-> x])
  /\ UNCHANGED closing

\* The row is locked and its status is read again.
StillPreparing(x) == recovery[x].status = "PREPARING"

ApproveStrategy(r) ==
  LET x == req[r].arg.recovery IN
  /\ Doing(r, "strategy")
  /\ IF StillPreparing(x)
       THEN /\ recovery' = [recovery EXCEPT ![x].status = "STRATEGY_APPROVED",
                                            ![x].approvedBy = req[r].who]
            /\ req' = [req EXCEPT ![r].op = "strategy_gate"]
       ELSE UNCHANGED recovery /\ Done(r)
  /\ UNCHANGED <<caseVersion, gate, checks, receipts, settledOn>>

\* A crash before this step leaves an approved strategy without its gate, and a
\* second approval of the same case is refused.
StrategyGate(r) ==
  /\ Doing(r, "strategy_gate")
  /\ Satisfy("HG_RECOVERY_STRATEGY_APPROVED", req[r].ver, req[r].who)
  /\ Done(r)
  /\ UNCHANGED <<caseVersion, closing>>

SettlementNext ==
  \/ \E v \in VersionRead, o, e \in 0..1 : RecordCheck(v, o, e)
  \/ \E r \in Requests :
       \/ \E a \in Actors : CheckSettlement(r, a)
       \/ RecordReceipts(r) \/ ConfirmSettlement(r)

RecoveryNext ==
  \/ \E v \in VersionRead, a \in Actors, x \in RecoveryIds, o \in 0..1,
        n \in {SUSTAINED_SHORTFALL_PERIODS - 1, SUSTAINED_SHORTFALL_PERIODS} :
       OpenRecovery(v, a, x, o, n)
  \/ \E r \in Requests :
       \/ \E a \in Actors, x \in RecoveryIds : CheckStrategy(r, a, x)
       \/ ApproveStrategy(r) \/ StrategyGate(r)
-------------------------------------------------------------------------------
\* A settled version rests on a check of its own that was clean, with both of its
\* receipts, which one person recorded, although checks and confirmations overlap.
SettledClean ==
  \A v \in Versions :
    /\ gate["HG_SETTLEMENT_CONFIRMED"][v] # Nobody =>
         LET n == settledOn[v] IN
         /\ n \in 1..Len(checks[v])
         /\ checks[v][n] = [outstanding |-> 0, exceptions |-> 0]
         /\ \A k \in SettlementReceiptKind : receipts[v][n][k] # Nobody
    /\ \A n \in 1..MaxChecks : \A k, l \in SettlementReceiptKind :
         /\ receipts[v][n][k] = receipts[v][n][l]
         /\ receipts[v][n][k] # Nobody => n <= Len(checks[v])

\* Whoever satisfied the recovery gate of a version approved a strategy of that
\* version which somebody else had escalated, and still stands as its approver;
\* every approved strategy has such an approver.
StrategyDual ==
  /\ \A x \in RecoveryIds :
       recovery[x].status = "STRATEGY_APPROVED" =>
         recovery[x].approvedBy \notin {Nobody, recovery[x].by}
  /\ \A v \in Versions :
       LET approver == gate["HG_RECOVERY_STRATEGY_APPROVED"][v] IN
       approver # Nobody =>
         \E x \in RecoveryIds :
           /\ recovery[x].ver = v /\ recovery[x].status = "STRATEGY_APPROVED"
           /\ recovery[x].approvedBy = approver
================================================================================
