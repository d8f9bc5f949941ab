----------------------------- MODULE Disbursement -----------------------------
(****************************************************************************)
(* The proposed disbursement of one credit case (api/disbursements.py,      *)
(* infrastructure/postgres/disbursements.py): a maker creates one action    *)
(* per case version, two checkers satisfy the two gates, and a checker has  *)
(* it executed through an adapter that runs between two transactions. A     *)
(* requested execution is reconciled by a human, whether or not its adapter *)
(* call has ended.                                                          *)
(*                                                                          *)
(* API requests overlap; each repository call is an action of its own. The  *)
(* credit decision and the gate of the disbursement conditions are inputs   *)
(* here. The ticks the gates fire are Orchestration's subject.              *)
(****************************************************************************)
EXTENDS Naturals, FiniteSets

CONSTANTS
  Requests,    \* API requests that may overlap
  Makers,      \* actors with the role OPS_OFFICER
  Checkers,    \* actors with the role OPS_CHECKER
  Nobody,      \* not an actor
  MaxVersion,  \* bound on the case version
  MaxAttempts  \* bound on the executions requested for a version

Actors == Makers \cup Checkers

ASSUME ActorsAssumption == Nobody \notin Actors
ASSUME RequestsAssumption == IsFiniteSet(Requests)
ASSUME LimitsAssumption ==
  MaxVersion \in Nat \ {0} /\ MaxAttempts \in Nat

Versions == 1..MaxVersion

VARIABLES
  caseVersion, \* credit_cases.case_version
  decision,    \* the human credit decision of a version: NONE, APPROVAL, OTHER
  conditions,  \* versions with HG_DISBURSEMENT_CONDITIONS_CONFIRMED
  status,      \* proposed_disbursement_actions.status, NONE before the row
  creator,     \* its created_by
  validator,   \* who satisfied HG_DISBURSEMENT_VALIDATED, or Nobody
  authorizer,  \* who satisfied HG_DISBURSEMENT_AUTHORIZED, or Nobody
  moved,       \* how often the adapter has moved the funds of the action
  receipts,    \* its receipts with result_status CONFIRMED_EXECUTED
  requested,   \* its audit events of an execution requested,
  reopened,    \* of a reconciliation to CONFIRMED_NOT_EXECUTED,
  confirmed,   \* and of a reconciliation to CONFIRMED_EXECUTED
  pc,          \* where each request is
  who,         \* its actor
  ver,         \* the case version it has read
  result       \* what the adapter has answered it

gates == <<decision, conditions, creator, validator, authorizer>>
reconciled == <<reopened, confirmed>>
funds == <<status, moved, receipts, requested, reconciled>>
local == <<pc, who, ver, result>>
vars == <<caseVersion, gates, funds, local>>

Reattemptable == {"PROPOSED", "CONFIRMED_NOT_EXECUTED"}
Reconcilable == {"EXECUTION_REQUESTED", "EXECUTION_UNKNOWN"}
Outcomes == {"CONFIRMED_EXECUTED", "CONFIRMED_NOT_EXECUTED"}
Status == Reattemptable \cup Reconcilable \cup Outcomes \cup {"NONE"}

\* Mutant of AdapterResults: a result the life cycle does not know.
AdapterResultsTimeout == {"CONFIRMED_EXECUTED", "TIMEOUT"}

AdapterResults == {"CONFIRMED_EXECUTED", "EXECUTION_UNKNOWN"}
Results == {"CONFIRMED_EXECUTED", "EXECUTION_UNKNOWN", "none"}

Operations == {"create", "validate", "authorize", "execute", "reconcile"}
PC == Operations \cup
  {"idle", "insert", "gate1", "gate2", "request", "adapter", "record"}

TypeOK ==
  /\ caseVersion \in Versions
  /\ decision \in [Versions -> {"NONE", "APPROVAL", "OTHER"}]
  /\ conditions \subseteq Versions
  /\ status \in [Versions -> Status]
  /\ creator \in [Versions -> Actors \cup {Nobody}]
  /\ validator \in [Versions -> Actors \cup {Nobody}]
  /\ authorizer \in [Versions -> Actors \cup {Nobody}]
  /\ moved \in [Versions -> Nat] /\ receipts \in [Versions -> Nat]
  /\ requested \in [Versions -> 0..MaxAttempts]
  /\ reopened \in [Versions -> Nat] /\ confirmed \in [Versions -> Nat]
  /\ pc \in [Requests -> PC]
  /\ who \in [Requests -> Actors \cup {Nobody}]
  /\ ver \in [Requests -> Versions]
  /\ result \in [Requests -> Results]

Init ==
  /\ caseVersion = 1
  /\ decision = [v \in Versions |-> "NONE"]
  /\ conditions = {}
  /\ status = [v \in Versions |-> "NONE"]
  /\ creator = [v \in Versions |-> Nobody]
  /\ validator = [v \in Versions |-> Nobody]
  /\ authorizer = [v \in Versions |-> Nobody]
  /\ moved = [v \in Versions |-> 0] /\ receipts = [v \in Versions |-> 0]
  /\ requested = [v \in Versions |-> 0]
  /\ reopened = [v \in Versions |-> 0] /\ confirmed = [v \in Versions |-> 0]
  /\ pc = [r \in Requests |-> "idle"]
  /\ who = [r \in Requests |-> Nobody]
  /\ ver = [r \in Requests |-> 1]
  /\ result = [r \in Requests |-> "none"]
-------------------------------------------------------------------------------
(****************************************************************************)
(* What happens around the disbursement.                                    *)
(****************************************************************************)
\* A maker revision.  Nothing asks whether the version was already decided on.
BumpCaseVersion ==
  /\ caseVersion < MaxVersion
  /\ caseVersion' = caseVersion + 1
  /\ UNCHANGED <<gates, funds, local>>

\* record_decision: one per version, the first wins.  The version was current
\* when the request compared it, and may be old when the row is inserted.
RecordDecision(v, d) ==
  /\ v <= caseVersion
  /\ decision[v] = "NONE"
  /\ decision' = [decision EXCEPT ![v] = d]
  /\ UNCHANGED <<caseVersion, conditions, creator, validator, authorizer,
                 funds, local>>

\* confirm_conditions satisfies the gate of the version the request has read.
ConfirmConditions(v) ==
  /\ v <= caseVersion
  /\ v \notin conditions
  /\ conditions' = conditions \cup {v}
  /\ UNCHANGED <<caseVersion, decision, creator, validator, authorizer, funds,
                 local>>
-------------------------------------------------------------------------------
Goto(r, l) ==
  /\ pc' = [pc EXCEPT ![r] = l]
  /\ UNCHANGED <<who, ver, result>>

\* The request is answered.
Answer(r) ==
  /\ pc' = [pc EXCEPT ![r] = "idle"]
  /\ who' = [who EXCEPT ![r] = Nobody]
  /\ ver' = [ver EXCEPT ![r] = 1]
  /\ result' = [result EXCEPT ![r] = "none"]

\* load_snapshot and _gate_for: the gates of the version that was read, unless
\* the case has moved on, in which case none of them is found.
Seen(r, gate) == caseVersion = ver[r] /\ gate[ver[r]] # Nobody

\* load_action: the row of the version, whose creator never changes.
Exists(r) == status[ver[r]] # "NONE"

MayUse(op) == IF op = "create" THEN Makers ELSE Checkers

\* _require_role and _assert_case_access.
Begin(r, op, a) ==
  /\ pc[r] = "idle"
  /\ a \in MayUse(op)
  /\ pc' = [pc EXCEPT ![r] = op]
  /\ who' = [who EXCEPT ![r] = a]
  /\ ver' = [ver EXCEPT ![r] = caseVersion]
  /\ UNCHANGED <<caseVersion, gates, funds, result>>

\* The conditions under which each operation goes on; otherwise it is refused.
MayCreate(r) ==
  /\ decision[ver[r]] = "APPROVAL"
  /\ caseVersion = ver[r] /\ ver[r] \in conditions
MayAuthorize(r) ==
  Exists(r) /\ Seen(r, validator) /\ validator[ver[r]] # who[r]
MayExecute(r) ==
  /\ Exists(r)
  /\ Seen(r, validator) /\ Seen(r, authorizer)
  /\ creator[ver[r]] # who[r]

Check(r, op, allowed, l) ==
  /\ pc[r] = op
  /\ \/ allowed /\ Goto(r, l)
     \/ ~allowed /\ Answer(r)
  /\ UNCHANGED <<caseVersion, gates, funds>>

CheckCreate(r) == Check(r, "create", MayCreate(r), "insert")
CheckValidate(r) == Check(r, "validate", Exists(r), "gate1")
CheckAuthorize(r) == Check(r, "authorize", MayAuthorize(r), "gate2")
CheckExecute(r) == Check(r, "execute", MayExecute(r), "request")

\* create_action: insert, or find the row of the version.
CreateAction(r) ==
  LET v == ver[r] IN
  /\ pc[r] = "insert"
  /\ status' = [status EXCEPT ![v] = IF @ = "NONE" THEN "PROPOSED" ELSE @]
  /\ creator' = [creator EXCEPT ![v] = IF @ = Nobody THEN who[r] ELSE @]
  /\ Answer(r)
  /\ UNCHANGED <<caseVersion, decision, conditions, validator, authorizer,
                 moved, receipts, requested, reconciled>>

\* Mutant of Satisfied: the last actor is recorded.
SatisfiedAgain(gate, r) == [gate EXCEPT ![ver[r]] = who[r]]

\* ensure_gate(SATISFIED) of the version: only an OPEN gate is updated.
Satisfied(gate, r) ==
  [gate EXCEPT ![ver[r]] = IF @ = Nobody THEN who[r] ELSE @]

Validate(r) ==
  /\ pc[r] = "gate1"
  /\ validator' = Satisfied(validator, r)
  /\ Answer(r)
  /\ UNCHANGED <<caseVersion, decision, conditions, creator, authorizer,
                 funds>>

Authorize(r) ==
  /\ pc[r] = "gate2"
  /\ authorizer' = Satisfied(authorizer, r)
  /\ Answer(r)
  /\ UNCHANGED <<caseVersion, decision, conditions, creator, validator,
                 funds>>
-------------------------------------------------------------------------------
\* Mutant of StartsAttempt: an execution whose outcome is unknown is tried again.
StartsAttemptBlindly(s) == s \in Reattemptable \cup {"EXECUTION_UNKNOWN"}

\* The first transaction of execute_action: the row is locked, an unresolved or
\* executed action is refused, and EXECUTION_REQUESTED is durable.
StartsAttempt(s) == s \in Reattemptable

RequestExecution(r) ==
  /\ pc[r] = "request"
  /\ \/ /\ StartsAttempt(status[ver[r]])
        /\ requested[ver[r]] < MaxAttempts
        /\ requested' = [requested EXCEPT ![ver[r]] = @ + 1]
        /\ status' = [status EXCEPT ![ver[r]] = "EXECUTION_REQUESTED"]
        /\ Goto(r, "adapter")
     \/ /\ ~StartsAttempt(status[ver[r]])
        /\ Answer(r)
        /\ UNCHANGED <<status, requested>>
  /\ UNCHANGED <<caseVersion, gates, moved, receipts, reconciled>>

\* The adapter runs outside any transaction.  After a timeout nobody knows
\* whether the funds have moved.
RunAdapter(r) ==
  LET v == ver[r] IN
  /\ pc[r] = "adapter"
  /\ \E s \in AdapterResults :
       /\ \/ moved' = [moved EXCEPT ![v] = @ + 1]
          \/ s # "CONFIRMED_EXECUTED" /\ UNCHANGED moved
       /\ result' = [result EXCEPT ![r] = s]
  /\ pc' = [pc EXCEPT ![r] = "record"]
  /\ UNCHANGED <<caseVersion, gates, status, receipts, requested, reconciled,
                 who, ver>>

\* Mutant of Edge: writing the status the row already has is no transition.
EdgeRepeated(s, t) ==
  \/ s \in Reattemptable /\ t = "EXECUTION_REQUESTED"
  \/ s \in Reconcilable /\ t \in Outcomes
  \/ s = "EXECUTION_REQUESTED" /\ t = "EXECUTION_UNKNOWN"
  \/ s = t

\* enforce_disbursement_execution_transition
Edge(s, t) ==
  \/ s \in Reattemptable /\ t = "EXECUTION_REQUESTED"
  \/ s \in Reconcilable /\ t \in Outcomes
  \/ s = "EXECUTION_REQUESTED" /\ t = "EXECUTION_UNKNOWN"

\* The second transaction: the receipt and the status.  When the trigger refuses
\* the status the receipt is rolled back with it.
RecordExecution(r) ==
  LET v == ver[r] IN
  /\ pc[r] = "record"
  /\ \/ /\ Edge(status[v], result[r])
        /\ status' = [status EXCEPT ![v] = result[r]]
        /\ receipts' = [receipts EXCEPT ![v] =
             IF result[r] = "CONFIRMED_EXECUTED" THEN @ + 1 ELSE @]
     \/ /\ ~Edge(status[v], result[r])
        /\ UNCHANGED <<status, receipts>>
  /\ Answer(r)
  /\ UNCHANGED <<caseVersion, gates, moved, requested, reconciled>>

\* reconcile_action: a requested or unresolved action takes the outcome of the
\* body, even while an adapter call for it is running, and whether or not it is
\* true; an audit event tells of it.
Reconcile(r) ==
  LET v == ver[r] IN
  /\ pc[r] = "reconcile"
  /\ \/ /\ status[v] \in Reconcilable
        /\ \E outcome \in Outcomes :
             /\ status' = [status EXCEPT ![v] = outcome]
             /\ \/ /\ outcome = "CONFIRMED_EXECUTED"
                   /\ confirmed' = [confirmed EXCEPT ![v] = @ + 1]
                   /\ UNCHANGED reopened
                \/ /\ outcome = "CONFIRMED_NOT_EXECUTED"
                   /\ reopened' = [reopened EXCEPT ![v] = @ + 1]
                   /\ UNCHANGED confirmed
     \/ /\ status[v] \notin Reconcilable
        /\ UNCHANGED <<status, reconciled>>
  /\ Answer(r)
  /\ UNCHANGED <<caseVersion, gates, moved, receipts, requested>>

\* The API process dies, a call raises, or the body of the request (amount,
\* currency, outcome) is refused.
Crash(r) ==
  /\ pc[r] # "idle"
  /\ Answer(r)
  /\ UNCHANGED <<caseVersion, gates, funds>>
-------------------------------------------------------------------------------
Step(r) ==
  \/ \E op \in Operations, a \in Actors : Begin(r, op, a)
  \/ CheckCreate(r) \/ CreateAction(r)
  \/ CheckValidate(r) \/ Validate(r)
  \/ CheckAuthorize(r) \/ Authorize(r)
  \/ CheckExecute(r) \/ RequestExecution(r) \/ RunAdapter(r)
  \/ RecordExecution(r)
  \/ Reconcile(r)
  \/ Crash(r)

Next ==
  \/ BumpCaseVersion
  \/ \E v \in Versions, d \in {"APPROVAL", "OTHER"} : RecordDecision(v, d)
  \/ \E v \in Versions : ConfirmConditions(v)
  \/ \E r \in Requests : Step(r)

Spec == Init /\ [][Next]_vars
-------------------------------------------------------------------------------
\* The requests whose execution of a version is between its two transactions,
\* and those of them whose adapter has not answered.
UnderWay(v) == {r \in Requests : pc[r] \in {"adapter", "record"} /\ ver[r] = v}
Calling(v) == {r \in Requests : pc[r] = "adapter" /\ ver[r] = v}

\* Funds move only under the full control: an approval, the conditions gate, the
\* two disbursement gates from two different people, and an executor other than
\* the maker.  It holds at the version of the action, whatever the requests read
\* and however they overlap.
DualControl ==
  /\ \A v \in Versions : moved[v] > 0 \/ UnderWay(v) # {} =>
       /\ decision[v] = "APPROVAL" /\ v \in conditions
       /\ Nobody \notin {creator[v], validator[v], authorizer[v]}
       /\ validator[v] # authorizer[v]
  /\ \A r \in Requests : pc[r] \in {"adapter", "record"} =>
       who[r] \in Checkers /\ who[r] # creator[ver[r]]

\* Funds move only in an attempt whose request is on record, once in each; and
\* an attempt after the first only once a human has declared the earlier ones not
\* executed, one such declaration for each.  A row nobody has requested is
\* untouched.  Crashes, unknown results, late results and reconciliations of
\* attempts under way included.
MovementsAccounted ==
  \A v \in Versions :
    /\ moved[v] + Cardinality(Calling(v)) <= requested[v]
    /\ requested[v] =
         reopened[v] + IF status[v] \in Reattemptable \cup {"NONE"} THEN 0 ELSE 1
    /\ status[v] \in {"NONE", "PROPOSED"} => requested[v] = 0

\* An action is CONFIRMED_EXECUTED exactly if one source says so, and only one: a
\* receipt, behind which the funds have moved, or a human.  Two attempts under way
\* at once, or a result that is late, leave no second receipt and take back no
\* confirmation.
ExecutedVouched ==
  \A v \in Versions :
    /\ receipts[v] + confirmed[v] =
         IF status[v] = "CONFIRMED_EXECUTED" THEN 1 ELSE 0
    /\ receipts[v] <= moved[v]
===============================================================================
