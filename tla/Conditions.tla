------------------------------ MODULE Conditions ------------------------------
(****************************************************************************)
(* The ledger of the disbursement conditions (api/conditions.py): officers  *)
(* open and work on the conditions of an approval, checkers verify, waive   *)
(* or rule them out, and a checker who verified none of them confirms the   *)
(* ledger, which satisfies the gate that a disbursement needs.              *)
(****************************************************************************)
EXTENDS CreditDecision

CONSTANT ConditionIds

VARIABLES
  condition,   \* the row of each condition: the case version and the status
  verifiedBy,  \* the actors of its status events to VERIFIED
  confirmed    \* the conditions the confirmation of a version was based on

ledger == <<condition, verifiedBy, confirmed>>

ConditionStatus ==
  {"PENDING", "EVIDENCE_SUBMITTED", "VERIFIED", "FAILED", "WAIVER_REQUESTED",
   "WAIVED_BY_HUMAN", "SUPERSEDED", "NOT_APPLICABLE_BY_HUMAN"}

NoRow == [ver |-> 0, status |-> "SUPERSEDED"]

ALLOWED_TRANSITIONS(s) ==
  CASE s = "PENDING" -> {"EVIDENCE_SUBMITTED", "WAIVER_REQUESTED",
                         "NOT_APPLICABLE_BY_HUMAN", "SUPERSEDED"}
    [] s = "EVIDENCE_SUBMITTED" -> {"VERIFIED", "FAILED", "SUPERSEDED"}
    [] s = "FAILED" -> {"EVIDENCE_SUBMITTED", "WAIVER_REQUESTED", "SUPERSEDED"}
    [] s = "WAIVER_REQUESTED" -> {"WAIVED_BY_HUMAN", "FAILED", "SUPERSEDED"}
    [] s = "SUPERSEDED" -> {}
    [] OTHER -> {"SUPERSEDED"}

CONFIRMABLE_STATUSES == {"VERIFIED", "WAIVED_BY_HUMAN", "NOT_APPLICABLE_BY_HUMAN"}
CHECKER_AUTHORITY_TARGETS == CONFIRMABLE_STATUSES

LedgerInit ==
  /\ condition = [c \in ConditionIds |-> NoRow]
  /\ verifiedBy = [c \in ConditionIds |-> {}]
  /\ confirmed = [v \in Versions |-> {}]

LedgerTypeOK ==
  /\ condition \in [ConditionIds -> [ver : 0..MaxVersion, status : ConditionStatus]]
  /\ verifiedBy \in [ConditionIds -> SUBSET Actors]
  /\ confirmed \in [Versions -> SUBSET ConditionIds]

\* list_conditions
Listed(v) == {c \in ConditionIds : condition[c].ver = v}

CheckCondition(r) ==
  /\ Permits(caseVersion)
  /\ BeginAny(r, "add_condition", "OPS_OFFICER", caseVersion, Nobody)
  /\ UNCHANGED <<decided, ledger>>

CreateCondition(r, c) ==
  /\ Doing(r, "add_condition")
  /\ condition[c] = NoRow
  /\ condition' = [condition EXCEPT ![c] = [ver |-> req[r].ver, status |-> "PENDING"]]
  /\ Done(r)
  /\ UNCHANGED <<caseVersion, gate, decided, verifiedBy, confirmed>>

\* The role an edge needs depends on its target.
RequiredRole(s) ==
  IF s \in CHECKER_AUTHORITY_TARGETS THEN "OPS_CHECKER" ELSE "OPS_OFFICER"

CheckTransition(r, a, c, s) ==
  /\ c \in Listed(caseVersion)
  /\ s \in ALLOWED_TRANSITIONS(condition[c].status)
  /\ Begin(r, "move_condition", a, RequiredRole(s), caseVersion,
           [condition |-> c, to |-> s])
  /\ UNCHANGED <<decided, ledger>>

\* Mutant of StillAllowed: the edge is checked against what the handler read.
StillAllowedOnce(c, s) == TRUE

\* The row is locked and the edge is checked again.
StillAllowed(c, s) == s \in ALLOWED_TRANSITIONS(condition[c].status)

TransitionCondition(r) ==
  /\ Doing(r, "move_condition")
  /\ LET c == req[r].arg.condition
         s == req[r].arg.to IN
     IF StillAllowed(c, s)
       THEN /\ condition' = [condition EXCEPT ![c].status = s]
            /\ verifiedBy' = [verifiedBy EXCEPT ![c] =
                 IF s = "VERIFIED" THEN @ \cup {req[r].who} ELSE @]
       ELSE UNCHANGED <<condition, verifiedBy>>
  /\ Done(r)
  /\ UNCHANGED <<caseVersion, gate, decided, confirmed>>

\* derive_conditions_confirmable: an empty ledger is not confirmed by silence.
Confirmable(S) ==
  S # {} /\ \A c \in S : condition[c].status \in CONFIRMABLE_STATUSES

\* list_verifying_actor_ids
VerifyingActors(v) == UNION {verifiedBy[c] : c \in Listed(v)}

\* What is read before the gate: the conditions, and who verified them.
CheckConfirm(r, a) ==
  /\ Confirmable(Listed(caseVersion))
  /\ a \notin VerifyingActors(caseVersion)
  /\ Begin(r, "confirm_ledger", a, "OPS_CHECKER", caseVersion,
           [listed |-> Listed(caseVersion)])
  /\ UNCHANGED <<decided, ledger>>

\* The gate; its disposition counts the conditions that were listed.
ConfirmConditions(r) ==
  LET v == req[r].ver IN
  /\ Doing(r, "confirm_ledger")
  /\ Satisfy("HG_DISBURSEMENT_CONDITIONS_CONFIRMED", v, req[r].who)
  /\ confirmed' = [confirmed EXCEPT ![v] = IF @ = {} THEN req[r].arg.listed ELSE @]
  /\ Done(r)
  /\ UNCHANGED <<caseVersion, decided, condition, verifiedBy>>

ConditionsNext(r) ==
  \/ CheckCondition(r)
  \/ \E a \in Actors : CheckConfirm(r, a)
  \/ \E a \in Actors, c \in ConditionIds, s \in ConditionStatus :
       CheckTransition(r, a, c, s)
  \/ \E c \in ConditionIds : CreateCondition(r, c)
  \/ TransitionCondition(r) \/ ConfirmConditions(r)
-------------------------------------------------------------------------------
\* A confirmation keeps resting on what the checker listed: at least one
\* condition of that version, each still settled or superseded, and none of them
\* verified by the checker, although the gate is written after the reads and the
\* conditions go on being worked on.
ConfirmationRests ==
  \A v \in Versions :
    LET checker == gate["HG_DISBURSEMENT_CONDITIONS_CONFIRMED"][v] IN
    checker # Nobody =>
      /\ confirmed[v] # {}
      /\ \A c \in confirmed[v] :
           /\ condition[c].ver = v
           /\ condition[c].status \in CONFIRMABLE_STATUSES \cup {"SUPERSEDED"}
           /\ checker \notin verifiedBy[c]
===============================================================================
