---------------------------- MODULE CreditDecision ----------------------------
(****************************************************************************)
(* The human credit decision (api/credit_decisions.py): one row per case    *)
(* version, never changed, with the approved terms frozen beside an         *)
(* approval when the approver gives them.                                   *)
(****************************************************************************)
EXTENDS Casework

CONSTANT Outcomes  \* the outcomes an approver chooses from

VARIABLES
  decision,  \* human_credit_decisions.decision of a version, or NONE
  terms      \* the versions with a row in approved_term_snapshots

decided == <<decision, terms>>

APPROVAL_DECISIONS == {"APPROVED_AS_PROPOSED", "APPROVED_WITH_CONDITIONS"}

\* The three outcomes without approved terms are treated alike.
Declined == {"NOT_APPROVED"}
CreditDecisionType == APPROVAL_DECISIONS \cup Declined

ASSUME OutcomesAssumption == Outcomes \subseteq CreditDecisionType

DecisionInit ==
  /\ decision = [v \in Versions |-> "NONE"]
  /\ terms = {}

DecisionTypeOK ==
  /\ decision \in [Versions -> CreditDecisionType \cup {"NONE"}]
  /\ terms \subseteq Versions

\* HumanCreditDecision's validator: conditions belong to the one conditional
\* outcome, and only to it.
ConditionsMatch(kind, withConditions) ==
  withConditions = (kind = "APPROVED_WITH_CONDITIONS")

\* assert_snapshot_matches_decision
SnapshotAllowed(kind, withTerms) == withTerms => kind \in APPROVAL_DECISIONS

\* The request names the version it decides on, which must be the current one.
CheckDecision(r, kind, withConditions, withTerms) ==
  /\ ConditionsMatch(kind, withConditions)
  /\ SnapshotAllowed(kind, withTerms)
  /\ BeginAny(r, "decide", "CREDIT_APPROVER", caseVersion,
              [kind |-> kind, terms |-> withTerms])
  /\ UNCHANGED decided

\* The insert of the first decision of a version brings its terms; a later one
\* finds the row and writes nothing.
RecordDecision(r) ==
  LET v == req[r].ver
      d == req[r].arg IN
  /\ Doing(r, "decide")
  /\ IF decision[v] = "NONE"
       THEN /\ decision' = [decision EXCEPT ![v] = d.kind]
            /\ terms' = IF d.terms THEN terms \cup {v} ELSE terms
       ELSE UNCHANGED decided
  /\ Done(r)
  /\ UNCHANGED <<caseVersion, gate>>

\* A permitting decision of a version.
Permits(v) == decision[v] \in APPROVAL_DECISIONS

\* T: whether an approver gives terms.
DecisionNext(r, T) ==
  \/ \E k \in Outcomes, c \in BOOLEAN, t \in T :
       CheckDecision(r, k, c, t)
  \/ RecordDecision(r)
===============================================================================
