--------------------------- MODULE FulfilmentProofs ---------------------------
(****************************************************************************)
(* Proofs about Fulfilment, for any number of overlapping requests, any     *)
(* people and roles, any number of case versions, of conditions, security   *)
(* items, packages, alerts and recovery cases, whatever desk is at work.    *)
(*                                                                          *)
(* A handler reads, and writes later. So the invariant of a desk says what  *)
(* every request under way still finds true of what it has read.            *)
(****************************************************************************)
EXTENDS Fulfilment, FoldFacts, SequenceTheorems, TLAPS

\* The assumptions on the constants.
LEMMA Constants ==
  /\ Nobody \notin Actors /\ Nobody \notin DOMAIN Staff /\ Nobody \notin InterestIds
  /\ MaxVersion \in Nat /\ 1 \in Versions /\ 0 \notin Versions
  /\ \A v \in Versions : v \in Nat /\ v \in 0..MaxVersion /\ 1..v \subseteq Versions
  /\ MaxPackages \in Nat /\ MaxPackages > 0 /\ MaxChecks \in Nat /\ MaxChecks > 0
  /\ Actors \subseteq People /\ DOMAIN Staff \subseteq People /\ Nobody \in People
  /\ Outcomes \subseteq CreditDecisionType
  /\ {"CREDIT_APPROVER", "OPS_OFFICER", "OPS_CHECKER", "LEGAL_REVIEWER",
      "MONITORING_REVIEWER", "WRITER"} \subseteq DOMAIN Staff
  BY CaseworkAssumption, OutcomesAssumption, InterestsAssumption, RolesAssumption,
     PackagesAssumption, ChecksAssumption DEF People, Versions

(****************************************************************************)
(* The inductive invariant.                                                 *)
(****************************************************************************)
\* A request is a record of these four fields.
ReqShape ==
  \A r \in Requests :
    req[r] = [op |-> req[r].op, who |-> req[r].who, ver |-> req[r].ver,
              arg |-> req[r].arg]

\* What a request is about, by its operation.
ArgTyped(op, who, arg) ==
  /\ op \in {"draft", "approve_draft", "deliver", "move_condition",
             "confirm_ledger", "move_item", "confirm_perfection",
             "settle", "settle_gate", "strategy", "strategy_gate"}
       => who \in Actors
  /\ op = "decide" => arg.kind \in CreditDecisionType /\ arg.terms \in BOOLEAN
  /\ op = "move_condition" =>
       arg.condition \in ConditionIds /\ arg.to \in ConditionStatus
  /\ op = "confirm_ledger" => arg.listed \subseteq ConditionIds
  /\ op = "move_item" =>
       /\ arg.item \in ItemIds /\ arg.to \in PerfectionStatus
       /\ arg.evidence \in BOOLEAN
  /\ op = "confirm_perfection" =>
       arg \in [interests : SUBSET InterestIds, items : SUBSET ItemIds]
  /\ op = "redline" => arg \in Redlines
  /\ op = "approve_package" => arg.package \in 1..MaxPackages
  /\ op = "dispose" => arg.source \in AlertSources /\ arg.to \in AlertStatus
  /\ op \in {"settle", "settle_gate"} => arg.check \in 1..MaxChecks
  /\ op \in {"strategy", "strategy_gate"} => arg.recovery \in RecoveryIds

ReqOK ==
  /\ CaseworkTypeOK /\ ReqShape
  /\ \A r \in Requests : ArgTyped(req[r].op, req[r].who, req[r].arg)
TypeInv == TypeOK /\ ReqOK

\* A desk that is not at work has written nothing, and a gate is satisfied by its
\* desk only.
GatesOf(d) ==
  CASE d = "notifications" -> {"HG_CREDIT_NOTIFICATION_APPROVED"}
    [] d = "conditions" -> {"HG_DISBURSEMENT_CONDITIONS_CONFIRMED"}
    [] d = "security" -> {"HG_SECURITY_PERFECTION_CONFIRMED"}
    [] d = "contracts" ->
         {"HG_CONTRACT_PACKAGE_APPROVED", "HG_SIGNATURE_AUTHORITY_CONFIRMED",
          "HG_CONTRACTS_SIGNED"}
    [] d = "settlement" -> {"HG_SETTLEMENT_CONFIRMED"}
    [] d = "recovery" -> {"HG_RECOVERY_STRATEGY_APPROVED"}
    [] OTHER -> {}
OthersUntouched ==
  /\ \A g \in GateTypes, v \in Versions : gate[g][v] # Nobody => g \in GatesOf(desk)
  /\ desk # "notifications" => NotificationInit
  /\ desk # "contracts" => ContractsInit
  /\ desk # "monitoring" => MonitoringInit
  /\ desk # "settlement" =>
       \A v \in Versions : \A n \in 1..MaxChecks : \A k \in SettlementReceiptKind :
         receipts[v][n][k] = Nobody
  /\ desk # "recovery" => \A x \in RecoveryIds : recovery[x] = NoRecovery

\* Notifications: a draft has its decision, and what a request has found of the
\* draft, its approval and the two people is still so.
NoteFound(r) ==
  LET v == req[r].ver IN
  /\ req[r].op = "draft" => Permits(v)
  /\ req[r].op = "deliver" =>
       /\ draft[v] # Nobody /\ draft[v] # req[r].who
       /\ gate["HG_CREDIT_NOTIFICATION_APPROVED"][v] # Nobody
NotificationsHold ==
  /\ \A v \in Versions : draft[v] # Nobody => Permits(v)
  /\ \A r \in Requests : NoteFound(r)
  /\ DeliveredUnderControl

\* Conditions: what a checker has listed stays settled, and is never verified by
\* that checker; the gate and its disposition come together.
ListSettled(listed, v, checker) ==
  /\ listed # {}
  /\ \A c \in listed :
       /\ condition[c].ver = v
       /\ condition[c].status \in CONFIRMABLE_STATUSES \cup {"SUPERSEDED"}
       /\ checker \notin verifiedBy[c]
LedgerFound(r) ==
  req[r].op = "confirm_ledger" =>
    ListSettled(req[r].arg.listed, req[r].ver, req[r].who)
ConditionsHold ==
  /\ \A v \in Versions :
       gate["HG_DISBURSEMENT_CONDITIONS_CONFIRMED"][v] # Nobody
         <=> confirmed[v] # {}
  /\ \A r \in Requests : LedgerFound(r)
  /\ ConfirmationRests

\* Security: what a checker has listed stays satisfied, because the trigger lets
\* no satisfied item back; a completion carries evidence when it is written.
ListPerfected(listed, v) ==
  /\ listed.interests # {}
  /\ \A i \in listed.interests :
       interest[i] = v /\ \E k \in listed.items : item[k].of = i
  /\ \A k \in listed.items :
       /\ item[k].of # Nobody
       /\ item[k].status \in TERMINAL_SATISFIED_STATUSES \cup {"EXPIRED"}
ItemFound(r) ==
  /\ req[r].op = "move_item" =>
       /\ item[req[r].arg.item].of # Nobody
       /\ req[r].arg.to = "COMPLETED" => req[r].arg.evidence
  /\ req[r].op = "confirm_perfection" => ListPerfected(req[r].arg, req[r].ver)
PerfectionHolds ==
  /\ \A k \in ItemIds :
       item[k].status = "COMPLETED" => item[k].evidence /\ item[k].by # Nobody
  /\ \A r \in Requests : ItemFound(r)
  /\ \A v \in Versions :
       gate["HG_SECURITY_PERFECTION_CONFIRMED"][v] # Nobody =>
         ListPerfected(perfected[v], v)

\* Contracts: rows are only appended, a signed one is READY_FOR_SIGNATURE, and
\* that is why the next signature never lands on one.
PackageFound(r) ==
  LET v == req[r].ver IN
  /\ req[r].op = "sign" =>
       /\ HasPackage(v) /\ PermitsContract(v)
       /\ gate["HG_CONTRACT_PACKAGE_APPROVED"][v] # Nobody
       /\ gate["HG_SIGNATURE_AUTHORITY_CONFIRMED"][v] # Nobody
  /\ req[r].op = "signed" => signedAs[v] # {}
ContractsHold ==
  /\ \A v \in Versions : \A n \in signedAs[v] :
       n \in 1..Len(packages[v]) /\ packages[v][n].state = "READY_FOR_SIGNATURE"
  /\ \A r \in Requests : PackageFound(r)
  /\ SignedInOrder

\* Settlement: every check is clean, and a confirmation names one that is there.
CheckFound(r) ==
  LET v == req[r].ver
      n == req[r].arg.check IN
  /\ req[r].op \in {"settle", "settle_gate"} => n \in 1..Len(checks[v])
  /\ req[r].op = "settle_gate" =>
       \A k \in SettlementReceiptKind : receipts[v][n][k] # Nobody
SettlementHolds ==
  /\ \A v \in Versions : \A n \in 1..Len(checks[v]) :
       checks[v][n] = [outstanding |-> 0, exceptions |-> 0]
  /\ \A v \in Versions :
       gate["HG_SETTLEMENT_CONFIRMED"][v] # Nobody <=> settledOn[v] # 0
  /\ \A r \in Requests : CheckFound(r)
  /\ SettledClean

\* Recovery: an approval is by somebody else, and is never written twice.
RecoveryNamed(r) ==
  LET x == req[r].arg.recovery IN
  /\ req[r].op = "strategy" =>
       recovery[x].ver = req[r].ver /\ recovery[x].by # req[r].who
  /\ req[r].op = "strategy_gate" =>
       /\ recovery[x].ver = req[r].ver
       /\ recovery[x].status = "STRATEGY_APPROVED"
       /\ recovery[x].approvedBy = req[r].who
RecoveryHolds ==
  /\ \A r \in Requests : RecoveryNamed(r)
  /\ StrategyDual

IInv ==
  /\ TypeInv /\ OthersUntouched
  /\ desk = "notifications" => NotificationsHold
  /\ desk = "conditions" => ConditionsHold
  /\ desk = "security" => PerfectionHolds
  /\ desk = "contracts" => ContractsHold
  /\ desk = "monitoring" => AlertsAccounted
  /\ desk = "settlement" => SettlementHolds
  /\ desk = "recovery" => RecoveryHolds
-------------------------------------------------------------------------------
(****************************************************************************)
(* Types: requests first, then the tables of each desk.                     *)
(****************************************************************************)
LEMMA EnterTypes ==
  ASSUME ReqOK, NEW r \in Requests, NEW op, NEW who \in People,
         NEW v \in Versions, NEW x, ArgTyped(op, who, x), Enter(r, op, who, v, x)
  PROVE  ReqOK'
<1> USE DEF ReqOK
<1>1. /\ req'[r] = [op |-> op, who |-> who, ver |-> v, arg |-> x]
      /\ \A q \in Requests \ {r} : req'[q] = req[q]
      /\ DOMAIN req' = Requests /\ UNCHANGED <<caseVersion, gate>>
  BY DEF Enter, CaseworkTypeOK
<1>2. CaseworkTypeOK'
  BY <1>1 DEF CaseworkTypeOK
<1>3. ReqShape'
  BY <1>1 DEF ReqShape
<1>4. \A q \in Requests : ArgTyped(req[q].op, req[q].who, req[q].arg)'
  <2> SUFFICES ASSUME NEW q \in Requests
               PROVE  ArgTyped(req'[q].op, req'[q].who, req'[q].arg)
    OBVIOUS
  <2>1. CASE q = r
    BY <1>1, <2>1 DEF ArgTyped
  <2>2. CASE q # r
    BY <1>1, <2>2 DEF ArgTyped
  <2> QED
    BY <2>1, <2>2
<1> QED
  BY <1>2, <1>3, <1>4

LEMMA DoneTypes ==
  ASSUME ReqOK, NEW r \in Requests, Done(r), caseVersion' \in Versions,
         gate' \in [GateTypes -> [Versions -> People]]
  PROVE  ReqOK'
<1> USE DEF ReqOK
<1>1. /\ req'[r] = Idle
      /\ \A q \in Requests \ {r} : req'[q] = req[q]
      /\ DOMAIN req' = Requests
  BY DEF Done, CaseworkTypeOK
<1>2. CaseworkTypeOK'
  <2>1. Idle.who \in People /\ Idle.ver \in Versions
    BY Constants DEF Idle
  <2>2. \A q \in Requests : req'[q].who \in People /\ req'[q].ver \in Versions
    BY <1>1, <2>1 DEF CaseworkTypeOK
  <2> QED
    BY <1>1, <2>2 DEF CaseworkTypeOK
<1>3. ReqShape'
  BY <1>1 DEF ReqShape, Idle
<1>4. \A q \in Requests : ArgTyped(req[q].op, req[q].who, req[q].arg)'
  <2> SUFFICES ASSUME NEW q \in Requests
               PROVE  ArgTyped(req'[q].op, req'[q].who, req'[q].arg)
    OBVIOUS
  <2>1. CASE q = r
    BY <1>1, <2>1 DEF ArgTyped, Idle
  <2>2. CASE q # r
    BY <1>1, <2>2 DEF ArgTyped
  <2> QED
    BY <2>1, <2>2
<1> QED
  BY <1>2, <1>3, <1>4

LEMMA SatisfyTypes ==
  ASSUME CaseworkTypeOK, NEW g \in GateTypes, NEW v \in Versions, NEW a \in People,
         Satisfy(g, v, a)
  PROVE  /\ gate' \in [GateTypes -> [Versions -> People]]
         /\ \A h \in GateTypes, w \in Versions :
              /\ gate[h][w] # Nobody => gate'[h][w] = gate[h][w]
              /\ gate'[h][w] # gate[h][w] =>
                   h = g /\ w = v /\ gate'[h][w] = a
  BY DEF CaseworkTypeOK, Satisfy

\* A request that goes on to its second write keeps what it is about.
LEMMA GoOnTypes ==
  ASSUME ReqOK, NEW r \in Requests, NEW op, req' = [req EXCEPT ![r].op = op],
         ArgTyped(op, req[r].who, req[r].arg), UNCHANGED <<caseVersion, gate>>
  PROVE  ReqOK'
<1> USE DEF ReqOK
<1>1. /\ req'[r] = [op |-> op, who |-> req[r].who, ver |-> req[r].ver,
                    arg |-> req[r].arg]
      /\ \A q \in Requests \ {r} : req'[q] = req[q]
      /\ DOMAIN req' = Requests
  <2>1. req[r] = [op |-> req[r].op, who |-> req[r].who, ver |-> req[r].ver,
                  arg |-> req[r].arg]
    BY DEF ReqShape
  <2>2. [req[r] EXCEPT !.op = op] =
          [op |-> op, who |-> req[r].who, ver |-> req[r].ver, arg |-> req[r].arg]
    BY <2>1
  <2> QED
    BY <2>2 DEF CaseworkTypeOK
<1>2. CaseworkTypeOK'
  BY <1>1 DEF CaseworkTypeOK
<1>3. ReqShape'
  BY <1>1 DEF ReqShape
<1>4. \A q \in Requests : ArgTyped(req[q].op, req[q].who, req[q].arg)'
  <2> SUFFICES ASSUME NEW q \in Requests
               PROVE  ArgTyped(req'[q].op, req'[q].who, req'[q].arg)
    OBVIOUS
  <2>1. CASE q = r
    BY <1>1, <2>1 DEF ArgTyped
  <2>2. CASE q # r
    BY <1>1, <2>2 DEF ArgTyped
  <2> QED
    BY <2>1, <2>2
<1> QED
  BY <1>2, <1>3, <1>4

LEMMA DecisionTypes ==
  ASSUME ReqOK, DecisionTypeOK, NEW r \in Requests, NEW T \in SUBSET BOOLEAN,
         DecisionNext(r, T)
  PROVE  ReqOK' /\ DecisionTypeOK'
<1>1. ASSUME NEW k \in Outcomes, NEW c \in BOOLEAN, NEW t \in T,
             CheckDecision(r, k, c, t)
      PROVE  ReqOK' /\ DecisionTypeOK'
  <2>1. ArgTyped("decide", "CREDIT_APPROVER", [kind |-> k, terms |-> t])
    BY Constants DEF ArgTyped
  <2>2. Enter(r, "decide", "CREDIT_APPROVER", caseVersion,
              [kind |-> k, terms |-> t])
    BY <1>1 DEF CheckDecision, BeginAny
  <2>3. ReqOK'
    BY <2>1, <2>2, EnterTypes, Constants DEF ReqOK, CaseworkTypeOK
  <2> QED
    BY <1>1, <2>3 DEF CheckDecision, decided, DecisionTypeOK
<1>2. CASE RecordDecision(r)
  <2>1. ReqOK'
    BY <1>2, DoneTypes DEF RecordDecision, ReqOK, CaseworkTypeOK
  <2>2. req[r].arg.kind \in CreditDecisionType /\ req[r].ver \in Versions
    BY <1>2 DEF RecordDecision, Doing, ReqOK, CaseworkTypeOK, ArgTyped
  <2> QED
    BY <1>2, <2>1, <2>2 DEF RecordDecision, decided, DecisionTypeOK
<1> QED
  BY <1>1, <1>2 DEF DecisionNext

LEMMA NotificationTypes ==
  ASSUME ReqOK, NotificationTypeOK, NEW r \in Requests, NotificationNext(r)
  PROVE  ReqOK' /\ NotificationTypeOK'
<1> USE DEF NotificationTypeOK
<1>a. CaseworkTypeOK /\ req[r].ver \in Versions
  BY DEF ReqOK, CaseworkTypeOK
<1>b. Doing(r, "draft") \/ Doing(r, "approve_draft") \/ Doing(r, "deliver")
        => req[r].who \in Actors
  BY DEF Doing, ReqOK, ArgTyped
<1>1. ASSUME NEW a \in Actors, NEW v \in Versions,
             CheckDraft(r, a) \/ CheckApproval(r, a, v) \/ CheckDelivery(r, a, v)
      PROVE  ReqOK' /\ NotificationTypeOK'
  <2>1. \A op \in {"draft", "approve_draft", "deliver"} : ArgTyped(op, a, Nobody)
    BY DEF ArgTyped
  <2>2. PICK op \in {"draft", "approve_draft", "deliver"}, w \in Versions :
          Enter(r, op, a, w, Nobody) /\ UNCHANGED notified
    BY <1>1, <1>a
       DEF CheckDraft, CheckApproval, CheckDelivery, Begin, CaseworkTypeOK
  <2> QED
    BY <2>1, <2>2, EnterTypes, Constants DEF notified
<1>2. CASE CreateDraft(r)
  BY <1>2, <1>a, <1>b, DoneTypes DEF CreateDraft, CaseworkTypeOK
<1>3. CASE ApproveDraft(r)
  BY <1>3, <1>a, <1>b, DoneTypes, SatisfyTypes, Constants, GatesAssumption
     DEF ApproveDraft, CaseworkTypeOK, notified
<1>4. CASE RecordMockDelivery(r)
  BY <1>4, <1>a, <1>b, DoneTypes DEF RecordMockDelivery, CaseworkTypeOK
<1> QED
  BY <1>4, <1>1, <1>2, <1>3, Constants DEF NotificationNext

LEMMA ConditionTypes ==
  ASSUME ReqOK, LedgerTypeOK, NEW r \in Requests, ConditionsNext(r)
  PROVE  ReqOK' /\ LedgerTypeOK'
<1> USE DEF LedgerTypeOK
<1>a. CaseworkTypeOK /\ req[r].ver \in Versions /\ caseVersion \in Versions
  BY DEF ReqOK, CaseworkTypeOK
<1>1. CASE CheckCondition(r)
  <2>1. ArgTyped("add_condition", "OPS_OFFICER", Nobody)
    BY DEF ArgTyped
  <2> QED
    BY <1>1, <1>a, <2>1, EnterTypes, Constants
       DEF CheckCondition, BeginAny, ledger
<1>2. ASSUME NEW a \in Actors, CheckConfirm(r, a)
      PROVE  ReqOK' /\ LedgerTypeOK'
  <2>1. ArgTyped("confirm_ledger", a, [listed |-> Listed(caseVersion)])
    BY DEF ArgTyped, Listed
  <2> QED
    BY <1>2, <1>a, <2>1, EnterTypes, Constants DEF CheckConfirm, Begin, ledger
<1>3. ASSUME NEW a \in Actors, NEW c \in ConditionIds, NEW s \in ConditionStatus,
             CheckTransition(r, a, c, s)
      PROVE  ReqOK' /\ LedgerTypeOK'
  <2>1. ArgTyped("move_condition", a, [condition |-> c, to |-> s])
    BY DEF ArgTyped
  <2> QED
    BY <1>3, <1>a, <2>1, EnterTypes, Constants DEF CheckTransition, Begin, ledger
<1>4. ASSUME NEW c \in ConditionIds, CreateCondition(r, c)
      PROVE  ReqOK' /\ LedgerTypeOK'
  <2>1. ReqOK'
    BY <1>4, <1>a, DoneTypes DEF CreateCondition, CaseworkTypeOK
  <2>2. condition' \in
          [ConditionIds -> [ver : 0..MaxVersion, status : ConditionStatus]]
    BY <1>4, <1>a, Constants DEF CreateCondition, ConditionStatus
  <2> QED
    BY <1>4, <2>1, <2>2 DEF CreateCondition
<1>5. CASE TransitionCondition(r)
  <2>1. ReqOK'
    BY <1>5, <1>a, DoneTypes DEF TransitionCondition, CaseworkTypeOK
  <2>2. /\ req[r].arg.condition \in ConditionIds /\ req[r].who \in Actors
        /\ req[r].arg.to \in ConditionStatus
    BY <1>5 DEF TransitionCondition, Doing, ReqOK, ArgTyped
  <2> DEFINE c == req[r].arg.condition
             s == req[r].arg.to
  <2>3. CASE StillAllowed(c, s)
    <3>1. /\ condition' = [condition EXCEPT ![c].status = s]
          /\ verifiedBy' = [verifiedBy EXCEPT ![c] =
               IF s = "VERIFIED" THEN @ \cup {req[r].who} ELSE @]
          /\ UNCHANGED confirmed
      BY <1>5, <2>3 DEF TransitionCondition
    <3> HIDE DEF c, s
    <3> QED
      BY <2>1, <2>2, <3>1 DEF c, s
  <2>4. CASE ~StillAllowed(c, s)
    BY <1>5, <2>1, <2>4 DEF TransitionCondition
  <2> QED
    BY <2>3, <2>4
<1>6. CASE ConfirmConditions(r)
  <2>1. req[r].arg.listed \subseteq ConditionIds /\ req[r].who \in People
    BY <1>6 DEF ConfirmConditions, Doing, ReqOK, ArgTyped, CaseworkTypeOK
  <2>2. ReqOK'
    BY <1>6, <1>a, <2>1, DoneTypes, SatisfyTypes, GatesAssumption
       DEF ConfirmConditions, CaseworkTypeOK
  <2> QED
    BY <1>6, <1>a, <2>1, <2>2 DEF ConfirmConditions
<1> QED
  BY <1>4, <1>5, <1>6, <1>1, <1>2, <1>3 DEF ConditionsNext

\* The row that transition_item writes.
ItemRows ==
  [of : InterestIds \cup {Nobody}, status : PerfectionStatus,
   evidence : BOOLEAN, by : Actors \cup {Nobody}]
LEMMA ItemMoved ==
  ASSUME NEW old \in ItemRows, NEW to \in PerfectionStatus, NEW e \in BOOLEAN,
         NEW a \in Actors
  PROVE  /\ Moved(old, to, e, a) \in ItemRows
         /\ Moved(old, to, e, a).of = old.of
         /\ Moved(old, to, e, a).status = to
         /\ Moved(old, to, e, a).evidence = e
         /\ Moved(old, to, e, a).by = IF to = "COMPLETED" THEN a ELSE old.by
  BY DEF ItemRows, Moved

LEMMA PerfectionTypes ==
  ASSUME ReqOK, PerfectionTypeOK, NEW r \in Requests, PerfectionNext(r)
  PROVE  ReqOK' /\ PerfectionTypeOK'
<1> USE DEF PerfectionTypeOK
<1>a. CaseworkTypeOK /\ req[r].ver \in Versions /\ caseVersion \in Versions
  BY DEF ReqOK, CaseworkTypeOK
<1>1. CASE CheckInterest(r)
  <2>1. ArgTyped("add_interest", "WRITER", Nobody)
    BY DEF ArgTyped
  <2> QED
    BY <1>1, <1>a, <2>1, EnterTypes, Constants
       DEF CheckInterest, BeginAny, perfection
<1>2. ASSUME NEW a \in Actors, CheckPerfection(r, a)
      PROVE  ReqOK' /\ PerfectionTypeOK'
  <2> DEFINE listed ==
        [interests |-> InterestsOf(caseVersion),
         items |-> UNION {ItemsOf(i) : i \in InterestsOf(caseVersion)}]
  <2>1. listed \in [interests : SUBSET InterestIds, items : SUBSET ItemIds]
    BY DEF InterestsOf, ItemsOf
  <2>2. ArgTyped("confirm_perfection", a, listed)
    BY <2>1 DEF ArgTyped
  <2>3. Enter(r, "confirm_perfection", a, caseVersion, listed)
          /\ UNCHANGED perfection
    BY <1>2 DEF CheckPerfection, Begin
  <2> HIDE DEF listed
  <2> QED
    BY <1>a, <2>2, <2>3, EnterTypes, Constants DEF perfection
<1>3. ASSUME NEW i \in InterestIds, CreateInterest(r, i)
      PROVE  ReqOK' /\ PerfectionTypeOK'
  BY <1>3, <1>a, DoneTypes, Constants DEF CreateInterest, CaseworkTypeOK
<1>4. ASSUME NEW a \in Actors, NEW k \in ItemIds, NEW i \in InterestIds,
             NEW e \in BOOLEAN, AddItem(r, a, k, i, e)
      PROVE  ReqOK' /\ PerfectionTypeOK'
  <2>1. ReqOK'
    BY <1>4 DEF AddItem, casework, ReqOK, CaseworkTypeOK, ReqShape
  <2> QED
    BY <1>4, <2>1 DEF AddItem, NoItem, PerfectionStatus
<1>5. ASSUME NEW a \in Actors, NEW k \in ItemIds, NEW s \in PerfectionStatus,
             NEW e \in BOOLEAN, ReadItem(r, a, k, s, e)
      PROVE  ReqOK' /\ PerfectionTypeOK'
  <2> DEFINE move == [item |-> k, to |-> s, evidence |-> item[k].evidence \/ e]
  <2>1. ArgTyped("move_item", a, move)
    BY DEF ArgTyped
  <2>2. Enter(r, "move_item", a, 1, move) /\ UNCHANGED perfection
    BY <1>5 DEF ReadItem, Begin
  <2> HIDE DEF move
  <2> QED
    BY <2>1, <2>2, EnterTypes, Constants DEF perfection
<1>6. CASE TransitionItem(r)
  <2>1. ReqOK'
    BY <1>6, <1>a, DoneTypes DEF TransitionItem, CaseworkTypeOK
  <2>2. /\ req[r].arg.item \in ItemIds /\ req[r].arg.to \in PerfectionStatus
        /\ req[r].arg.evidence \in BOOLEAN /\ req[r].who \in Actors
    BY <1>6 DEF TransitionItem, Doing, ReqOK, ArgTyped
  <2> DEFINE m == req[r].arg
  <2>3. Moved(item[m.item], m.to, m.evidence, req[r].who) \in ItemRows
    BY <2>2, ItemMoved DEF ItemRows
  <2>4. \/ item' = item
        \/ item' = [item EXCEPT ![m.item] =
                      Moved(item[m.item], m.to, m.evidence, req[r].who)]
    BY <1>6 DEF TransitionItem
  <2>5. UNCHANGED <<interest, perfected>>
    BY <1>6 DEF TransitionItem
  <2> QED
    BY <2>4, <2>5, <2>1, <2>2, <2>3 DEF ItemRows
<1>7. CASE ConfirmPerfection(r)
  <2>1. /\ req[r].arg \in [interests : SUBSET InterestIds, items : SUBSET ItemIds]
        /\ req[r].who \in People
    BY <1>7 DEF ConfirmPerfection, Doing, ReqOK, ArgTyped, CaseworkTypeOK
  <2>2. ReqOK'
    BY <1>7, <1>a, <2>1, DoneTypes, SatisfyTypes, GatesAssumption
       DEF ConfirmPerfection, CaseworkTypeOK
  <2> QED
    BY <1>7, <1>a, <2>1, <2>2 DEF ConfirmPerfection
<1> QED
  BY <1>4, <1>5, <1>6, <1>7, <1>1, <1>2, <1>3 DEF PerfectionNext

LEMMA ContractTypes ==
  ASSUME ReqOK, ContractsTypeOK, ContractsHold, NEW r \in Requests, ContractsNext(r)
  PROVE  ReqOK' /\ ContractsTypeOK'
<1> DEFINE Rows == [state : ContractPackageState, content : Contents,
                    terms : Versions]
<1>a. CaseworkTypeOK /\ req[r].ver \in Versions /\ caseVersion \in Versions
        /\ req[r].who \in People
  BY DEF ReqOK, CaseworkTypeOK
<1>b. /\ packages \in [Versions -> Seq(Rows)]
      /\ \A v \in Versions : Len(packages[v]) <= MaxPackages
      /\ approvedAs \in [Versions -> 0..MaxPackages]
      /\ signedAs \in [Versions -> SUBSET (1..MaxPackages)]
  BY DEF ContractsTypeOK
<1>r. \A v \in Versions : HasPackage(v) =>
        /\ Len(packages[v]) \in 1..MaxPackages /\ Current(v) \in Rows
  <2> SUFFICES ASSUME NEW v \in Versions, HasPackage(v)
               PROVE  Len(packages[v]) \in 1..MaxPackages /\ Current(v) \in Rows
    OBVIOUS
  <2> HIDE DEF Rows
  <2>1. /\ packages[v] \in Seq(Rows) /\ packages[v] # << >>
        /\ Len(packages[v]) <= MaxPackages
    BY <1>b DEF HasPackage
  <2>2. Len(packages[v]) \in 1..Len(packages[v])
    BY <2>1, EmptySeq
  <2>3. packages[v][Len(packages[v])] \in Rows
    BY <2>1, <2>2, ElementOfSeq
  <2> QED
    BY <2>1, <2>2, <2>3, Constants DEF Current
<1>p. ASSUME NEW v \in Versions, NEW s \in ContractPackageState, NEW c \in Contents,
             HasPackage(v), Len(packages[v]) < MaxPackages,
             packages' = Appended(v, s, c)
      PROVE  /\ packages' \in [Versions -> Seq(Rows)]
             /\ \A u \in Versions : Len(packages'[u]) <= MaxPackages
  <2> DEFINE row == [state |-> s, content |-> c, terms |-> Current(v).terms]
  <2>1. row \in Rows
    BY <1>p, <1>r
  <2>2. packages' = [packages EXCEPT ![v] = Append(packages[v], row)]
    BY <1>p DEF Appended
  <2> HIDE DEF row, Rows
  <2>3. /\ Append(packages[v], row) \in Seq(Rows)
        /\ Len(Append(packages[v], row)) = Len(packages[v]) + 1
    BY <2>1, <1>b, AppendProperties
  <2> QED
    BY <1>p, <1>b, <2>2, <2>3, Constants, LenProperties
<1>1. ASSUME NEW op \in {"new_package", "authority", "sign"},
             NEW role \in DOMAIN Staff,
             Enter(r, op, role, caseVersion, Nobody), UNCHANGED contracts
      PROVE  ReqOK' /\ ContractsTypeOK'
  <2>1. ArgTyped(op, role, Nobody)
    BY DEF ArgTyped
  <2> QED
    BY <1>1, <1>a, <2>1, EnterTypes, Constants DEF contracts, ContractsTypeOK
<1>2. CASE CheckPackage(r) \/ CheckAuthority(r) \/ CheckSign(r)
  BY <1>2, <1>1, Constants DEF CheckPackage, CheckAuthority, CheckSign, BeginAny
<1>3. ASSUME NEW c \in Redlines, CheckRedline(r, c)
      PROVE  ReqOK' /\ ContractsTypeOK'
  <2>1. ArgTyped("redline", "LEGAL_REVIEWER", c)
    BY DEF ArgTyped
  <2> QED
    BY <1>3, <1>a, <2>1, EnterTypes, Constants
       DEF CheckRedline, BeginAny, contracts, ContractsTypeOK
<1>4. CASE CheckApprove(r)
  <2>1. ArgTyped("approve_package", "OPS_CHECKER",
                 [package |-> Len(packages[caseVersion])])
    BY <1>4, <1>a, <1>r DEF CheckApprove, ArgTyped
  <2> QED
    BY <1>4, <1>a, <2>1, EnterTypes, Constants
       DEF CheckApprove, BeginAny, contracts, ContractsTypeOK
<1>5. CASE CreatePackage(r)
  <2>1. ReqOK'
    BY <1>5, <1>a, DoneTypes DEF CreatePackage, CaseworkTypeOK
  <2> DEFINE v == req[r].ver
             row == [state |-> "DRAFT", content |-> Rendered, terms |-> v]
  <2>2. row \in Rows
    BY <1>a DEF ContractPackageState, Contents
  <2> HIDE DEF Rows
  <2>3. /\ <<row>> \in Seq(Rows) /\ Len(<<row>>) = 1
        /\ UNCHANGED <<approvedAs, signedAs>>
    BY <1>5, <2>2 DEF CreatePackage
  <2>4. /\ packages' \in [Versions -> Seq(Rows)]
        /\ \A u \in Versions : Len(packages'[u]) <= MaxPackages
    <3>1. packages' = [packages EXCEPT ![v] = <<row>>] \/ packages' = packages
      BY <1>5, <1>a, <1>b DEF CreatePackage
    <3>2. v \in Versions
      BY <1>a
    <3> HIDE DEF row, v
    <3>3. CASE packages' = packages
      BY <1>b, <3>3
    <3>4. CASE packages' = [packages EXCEPT ![v] = <<row>>]
      <4>1. packages' \in [Versions -> Seq(Rows)]
        BY <1>b, <2>3, <3>2, <3>4
      <4>2. \A u \in Versions :
              packages'[u] = IF u = v THEN <<row>> ELSE packages[u]
        BY <1>b, <3>2, <3>4
      <4>3. 1 <= MaxPackages
        BY Constants
      <4> QED
        BY <1>b, <2>3, <4>1, <4>2, <4>3
    <3> QED
      BY <3>1, <3>3, <3>4
  <2> QED
    BY <1>b, <2>1, <2>3, <2>4 DEF ContractsTypeOK, Rows
<1>6. CASE AddRedline(r)
  <2>1. ReqOK'
    BY <1>6, <1>a, DoneTypes DEF AddRedline, CaseworkTypeOK
  <2>2. req[r].arg \in Contents
    BY <1>6 DEF AddRedline, Doing, ReqOK, ArgTyped, Contents
  <2> QED
    BY <1>6, <1>a, <1>b, <1>p, <2>1, <2>2
       DEF AddRedline, ContractsTypeOK, ContractPackageState
<1>7. CASE ApprovePackage(r)
  <2>1. ReqOK'
    BY <1>7, <1>a, DoneTypes, SatisfyTypes, GatesAssumption
       DEF ApprovePackage, CaseworkTypeOK
  <2>2. req[r].arg.package \in 1..MaxPackages
    BY <1>7 DEF ApprovePackage, Doing, ReqOK, ArgTyped
  <2> HIDE DEF Rows
  <2> DEFINE v == req[r].ver
             n == IF approvedAs[v] = 0 THEN req[r].arg.package ELSE approvedAs[v]
  <2>3. v \in Versions /\ n \in 0..MaxPackages
    <3>1. v \in Versions
      BY <1>a
    <3>2. approvedAs[v] \in 0..MaxPackages
      BY <1>b, <3>1
    <3>3. req[r].arg.package \in 0..MaxPackages
      BY <2>2, Constants
    <3> QED
      BY <3>1, <3>2, <3>3
  <2>4. approvedAs' = [approvedAs EXCEPT ![v] = n]
          /\ UNCHANGED <<packages, signedAs>>
    BY <1>7 DEF ApprovePackage
  <2> HIDE DEF v, n
  <2> QED
    BY <1>b, <2>1, <2>3, <2>4 DEF ContractsTypeOK, Rows
<1>8. CASE ConfirmAuthority(r) \/ ContractsSigned(r)
  BY <1>8, <1>a, DoneTypes, SatisfyTypes, GatesAssumption
     DEF ConfirmAuthority, ContractsSigned, CaseworkTypeOK, contracts,
         ContractsTypeOK
<1>9. CASE RecordSignature(r)
  <2> DEFINE v == req[r].ver
  <2>1. CASE Signable(v)
    <3>1. HasPackage(v)
      BY <1>9, <1>a DEF RecordSignature, Doing, ContractsHold, PackageFound
    <3>2. ReqOK'
      <4>1. ArgTyped("signed", req[r].who, req[r].arg)
        BY DEF ArgTyped
      <4> QED
        BY <1>9, <2>1, <4>1, GoOnTypes DEF RecordSignature
    <3>3. /\ packages' = Appended(v, "READY_FOR_SIGNATURE", Current(v).content)
          /\ signedAs' = [signedAs EXCEPT ![v] = @ \cup {Len(packages[v]) + 1}]
          /\ Len(packages[v]) < MaxPackages /\ UNCHANGED approvedAs
      BY <1>9, <2>1 DEF RecordSignature
    <3>4. Current(v).content \in Contents
      BY <1>a, <1>r, <3>1
    <3>5. /\ packages' \in [Versions -> Seq(Rows)]
          /\ \A u \in Versions : Len(packages'[u]) <= MaxPackages
      BY <1>a, <1>p, <3>1, <3>3, <3>4 DEF ContractPackageState
    <3>6. Len(packages[v]) + 1 \in 1..MaxPackages
      BY <1>a, <1>r, <3>1, <3>3, Constants
    <3> QED
      BY <1>a, <1>b, <3>2, <3>3, <3>5, <3>6 DEF ContractsTypeOK
  <2>2. CASE ~Signable(v)
    BY <1>9, <2>2, <1>a, DoneTypes
       DEF RecordSignature, CaseworkTypeOK, ContractsTypeOK
  <2> QED
    BY <2>1, <2>2
<1> QED
  BY <1>2, <1>3, <1>4, <1>5, <1>6, <1>7, <1>8, <1>9 DEF ContractsNext

LEMMA MonitoringTypes ==
  ASSUME ReqOK, MonitoringTypeOK, MonitoringNext
  PROVE  ReqOK' /\ MonitoringTypeOK'
<1> USE DEF MonitoringTypeOK
<1>a. CaseworkTypeOK /\ caseVersion \in Versions
        /\ \A r \in Requests : req[r].ver \in Versions
  BY DEF ReqOK, CaseworkTypeOK
<1>b. \A v \in VersionRead : v \in 0..MaxVersion
  BY <1>a, Constants DEF VersionRead
<1>c. /\ ObligationIds \subseteq Nat /\ Anchors \subseteq Nat /\ Ratios \subseteq Nat
      /\ MaxCount \in Nat
  BY MonitoringAssumption
<1>q. UNCHANGED casework => ReqOK'
  BY DEF casework, ReqOK, CaseworkTypeOK, ReqShape
<1>1. ASSUME NEW v \in VersionRead, NEW a \in Anchors, NEW f \in ObligationFrequency,
             NEW n \in 1..MaxCount, CreateObligations(v, a, f, n)
      PROVE  ReqOK' /\ MonitoringTypeOK'
  <2>1. PICK first \in ObligationIds :
          obligation' = [o \in ObligationIds |->
            IF o \in first..(first + n - 1) THEN Run(v, a, f, n)[o - first + 1]
                                            ELSE obligation[o]]
    BY <1>1 DEF CreateObligations
  <2>2. \A k \in 1..n : Run(v, a, f, n)[k] \in [ver : 0..MaxVersion, due : Nat]
    BY <1>b, <1>c DEF Run, Due, FREQUENCY_MONTHS
  <2>3. \A o \in ObligationIds :
          o \in first..(first + n - 1) => o - first + 1 \in 1..n
    BY <1>c
  <2>4. obligation' \in [ObligationIds -> [ver : 0..MaxVersion, due : Nat]]
    BY <2>1, <2>2, <2>3
  <2> QED
    BY <1>1, <1>q, <2>4 DEF CreateObligations
<1>2. ASSUME NEW v \in VersionRead, NEW op \in Operators, NEW t \in Ratios,
             CreateCovenant(v, op, t)
      PROVE  ReqOK' /\ MonitoringTypeOK'
  BY <1>2, <1>b, <1>c, <1>q DEF CreateCovenant, Declared
<1>3. ASSUME NEW v \in VersionRead, NEW o \in ObligationIds, NEW d \in Nat,
             RecordObservation(v, o, d)
      PROVE  ReqOK' /\ MonitoringTypeOK'
  BY <1>3, <1>q DEF RecordObservation, Raised, AlertStatus
<1>4. ASSUME NEW v \in VersionRead, NEW t \in TestIds, NEW n \in Ratios,
             NEW d \in 0..2, RecordCovenantTest(v, t, n, d)
      PROVE  ReqOK' /\ MonitoringTypeOK'
  BY <1>4, <1>q DEF RecordCovenantTest, Raised, AlertStatus
<1>5. ASSUME NEW r \in Requests, NEW s \in AlertSources, NEW to \in AlertStatus,
             CheckDisposition(r, s, to)
      PROVE  ReqOK' /\ MonitoringTypeOK'
  <2>1. ArgTyped("dispose", "MONITORING_REVIEWER", [source |-> s, to |-> to])
    BY DEF ArgTyped
  <2> QED
    BY <1>5, <1>a, <2>1, EnterTypes, Constants
       DEF CheckDisposition, BeginAny, watching
<1>6. ASSUME NEW r \in Requests, DisposeAlert(r)
      PROVE  ReqOK' /\ MonitoringTypeOK'
  <2>1. ReqOK'
    BY <1>6, <1>a, DoneTypes DEF DisposeAlert, CaseworkTypeOK
  <2>2. req[r].arg.source \in AlertSources /\ req[r].arg.to \in AlertStatus
    BY <1>6 DEF DisposeAlert, Doing, ReqOK, ArgTyped
  <2> DEFINE s == req[r].arg.source
             to == req[r].arg.to
  <2>3. alert' \in [AlertSources -> AlertStatus \cup {"NONE"}]
          /\ trail' \in [AlertSources -> Seq(AlertStatus)]
    <3>1. \/ UNCHANGED <<alert, trail>>
          \/ /\ alert' = [alert EXCEPT ![s] = to]
             /\ trail' = [trail EXCEPT ![s] = Append(trail[s], to)]
      BY <1>6 DEF DisposeAlert
    <3>2. s \in AlertSources /\ to \in AlertStatus
      BY <2>2
    <3> HIDE DEF s, to
    <3>3. Append(trail[s], to) \in Seq(AlertStatus)
      BY <3>2, AppendProperties
    <3> QED
      BY <3>1, <3>2, <3>3
  <2> QED
    BY <1>6, <2>1, <2>3
       DEF DisposeAlert
<1>7. \A a \in Anchors, d \in 0..(3 * MaxCount + 1) : a + d \in Nat
  BY <1>c
<1> QED
  BY <1>4, <1>5, <1>6, <1>7, <1>1, <1>2, <1>3 DEF MonitoringNext

LEMMA RepaymentTypes ==
  ASSUME ReqOK, RepaymentsTypeOK, RepaymentsNext
  PROVE  ReqOK' /\ RepaymentsTypeOK' /\ UNCHANGED decided
<1> USE DEF RepaymentsTypeOK
<1>a. \A v \in VersionRead : v \in 0..MaxVersion
  BY Constants DEF ReqOK, CaseworkTypeOK, VersionRead
<1>q. UNCHANGED casework => ReqOK'
  BY DEF casework, ReqOK, CaseworkTypeOK, ReqShape
<1>1. ASSUME NEW v \in VersionRead, CreateFacility(v)
      PROVE  ReqOK' /\ RepaymentsTypeOK' /\ UNCHANGED decided
  BY <1>1, <1>a, <1>q DEF CreateFacility
<1>2. ASSUME NEW x \in References, NEW kind \in {"PAYMENT", "REVERSAL"},
             NEW amount \in Amounts, NEW of \in References \cup {Nobody},
             RecordEvent(x, kind, amount, of)
      PROVE  ReqOK' /\ RepaymentsTypeOK' /\ UNCHANGED decided
  <2>1. [kind |-> kind, amount |-> amount, of |-> of] \in
          [kind : {"NONE", "PAYMENT", "REVERSAL"}, amount : Amounts \cup {0},
           of : References \cup {Nobody}]
    OBVIOUS
  <2> QED
    BY <1>2, <1>q, <2>1 DEF RecordEvent, Recorded
<1> QED
  BY <1>1, <1>2 DEF RepaymentsNext

LEMMA SettlementTypes ==
  ASSUME ReqOK, ClosingTypeOK, SettlementNext
  PROVE  ReqOK' /\ ClosingTypeOK'
<1> USE DEF ClosingTypeOK
<1>a. CaseworkTypeOK /\ caseVersion \in Versions
        /\ \A r \in Requests : req[r].ver \in Versions /\ req[r].who \in People
  BY DEF ReqOK, CaseworkTypeOK
<1>b. \A v \in VersionRead : v \in Versions
  BY <1>a, Constants DEF VersionRead
<1>q. UNCHANGED casework => ReqOK'
  BY DEF casework, ReqOK, CaseworkTypeOK, ReqShape
<1>1. ASSUME NEW v \in VersionRead, NEW o \in 0..1, NEW e \in 0..1,
             RecordCheck(v, o, e)
      PROVE  ReqOK' /\ ClosingTypeOK'
  <2>1. NewCheck(o, e) \in [outstanding : Nat, exceptions : Nat]
    BY DEF NewCheck
  <2>2. /\ checks' = [checks EXCEPT ![v] = Append(checks[v], NewCheck(o, e))]
        /\ Len(checks[v]) < MaxChecks /\ v \in Versions
    BY <1>1, <1>b DEF RecordCheck
  <2>3. /\ checks' \in [Versions -> Seq([outstanding : Nat, exceptions : Nat])]
        /\ Len(checks'[v]) = Len(checks[v]) + 1
    BY <2>1, <2>2, AppendProperties
  <2>4. \A u \in Versions : Len(checks'[u]) <= MaxChecks
    BY <2>2, <2>3, LenProperties, Constants
  <2> QED
    BY <1>1, <1>q, <2>3, <2>4 DEF RecordCheck
<1>2. ASSUME NEW r \in Requests, NEW a \in Actors, CheckSettlement(r, a)
      PROVE  ReqOK' /\ ClosingTypeOK'
  <2>1. ArgTyped("settle", a, [check |-> LatestCheck(caseVersion)])
    BY <1>2, <1>a DEF CheckSettlement, LatestCheck, ArgTyped
  <2> QED
    BY <1>2, <1>a, <2>1, EnterTypes, Constants DEF CheckSettlement, Begin, closing
<1>3. ASSUME NEW r \in Requests, RecordReceipts(r)
      PROVE  ReqOK' /\ ClosingTypeOK'
  <2>1. req[r].who \in Actors /\ req[r].arg.check \in 1..MaxChecks
    BY <1>3 DEF RecordReceipts, Doing, ReqOK, ArgTyped
  <2>2. ArgTyped("settle_gate", req[r].who, req[r].arg)
    BY <2>1 DEF ArgTyped
  <2>3. ReqOK'
    BY <1>3, <2>2, GoOnTypes DEF RecordReceipts
  <2> DEFINE v == req[r].ver
             n == req[r].arg.check
             new == [k \in SettlementReceiptKind |->
                       IF receipts[v][n][k] = Nobody THEN req[r].who
                                                     ELSE receipts[v][n][k]]
  <2>4. receipts' \in [Versions -> [1..MaxChecks ->
                         [SettlementReceiptKind -> Actors \cup {Nobody}]]]
    <3>0. v \in Versions /\ n \in 1..MaxChecks
      BY <1>a, <2>1
    <3>1. new \in [SettlementReceiptKind -> Actors \cup {Nobody}]
      <4> HIDE DEF v, n
      <4>1. receipts[v] \in
              [1..MaxChecks -> [SettlementReceiptKind -> Actors \cup {Nobody}]]
        BY <3>0
      <4>2. receipts[v][n] \in [SettlementReceiptKind -> Actors \cup {Nobody}]
        BY <3>0, <4>1
      <4> QED
        BY <2>1, <4>2
    <3>2. receipts' = [receipts EXCEPT ![v][n] = new]
      BY <1>3 DEF RecordReceipts
    <3> HIDE DEF new, v, n
    <3> QED
      BY <1>a, <2>1, <3>1, <3>2 DEF v, n
  <2> QED
    BY <1>3, <2>3, <2>4 DEF RecordReceipts
<1>4. ASSUME NEW r \in Requests, ConfirmSettlement(r)
      PROVE  ReqOK' /\ ClosingTypeOK'
  <2>1. req[r].arg.check \in 1..MaxChecks
    BY <1>4 DEF ConfirmSettlement, Doing, ReqOK, ArgTyped
  <2>2. ReqOK'
    BY <1>4, <1>a, DoneTypes, SatisfyTypes, GatesAssumption
       DEF ConfirmSettlement, CaseworkTypeOK
  <2> QED
    BY <1>4, <1>a, <2>1, <2>2 DEF ConfirmSettlement
<1> QED
  BY <1>4, <1>1, <1>2, <1>3 DEF SettlementNext

LEMMA RecoveryTypes ==
  ASSUME ReqOK, ClosingTypeOK, RecoveryNext
  PROVE  ReqOK' /\ ClosingTypeOK'
<1> DEFINE Row == [ver : 0..MaxVersion, by : Actors \cup {Nobody},
                   status : {"PREPARING", "STRATEGY_APPROVED"},
                   approvedBy : Actors \cup {Nobody}]
<1>a. CaseworkTypeOK /\ caseVersion \in Versions
        /\ \A r \in Requests : req[r].ver \in Versions /\ req[r].who \in People
  BY DEF ReqOK, CaseworkTypeOK
<1>b. \A v \in VersionRead : v \in 0..MaxVersion
  BY <1>a, Constants DEF VersionRead
<1>q. UNCHANGED casework => ReqOK'
  BY DEF casework, ReqOK, CaseworkTypeOK, ReqShape
<1>r. recovery' \in [RecoveryIds -> Row] /\ UNCHANGED <<checks, receipts, settledOn>>
        => ClosingTypeOK'
  BY DEF ClosingTypeOK
<1>t. recovery \in [RecoveryIds -> Row]
  BY DEF ClosingTypeOK
<1>1. ASSUME NEW v \in VersionRead, NEW a \in Actors, NEW x \in RecoveryIds,
             NEW o \in 0..1, NEW n \in Nat, OpenRecovery(v, a, x, o, n)
      PROVE  ReqOK' /\ ClosingTypeOK'
  <2>1. Escalated(v, a) \in Row
    BY <1>b DEF Escalated, NoRecovery
  <2> QED
    BY <1>1, <1>q, <1>r, <1>t, <2>1 DEF OpenRecovery
<1>2. ASSUME NEW r \in Requests, NEW a \in Actors, NEW x \in RecoveryIds,
             CheckStrategy(r, a, x)
      PROVE  ReqOK' /\ ClosingTypeOK'
  <2>1. ArgTyped("strategy", a, [recovery |-> x])
    BY DEF ArgTyped
  <2> QED
    BY <1>2, <1>a, <1>r, <1>t, <2>1, EnterTypes, Constants
       DEF CheckStrategy, Begin, closing
<1>3. ASSUME NEW r \in Requests, ApproveStrategy(r)
      PROVE  ReqOK' /\ ClosingTypeOK'
  <2> DEFINE x == req[r].arg.recovery
  <2>1. req[r].who \in Actors /\ x \in RecoveryIds
    BY <1>3 DEF ApproveStrategy, Doing, ReqOK, ArgTyped
  <2>2. CASE StillPreparing(x)
    <3>1. ArgTyped("strategy_gate", req[r].who, req[r].arg)
      BY <2>1 DEF ArgTyped
    <3>2. ReqOK'
      BY <1>3, <2>2, <3>1, GoOnTypes DEF ApproveStrategy
    <3>3. recovery' = [recovery EXCEPT ![x].status = "STRATEGY_APPROVED",
                                       ![x].approvedBy = req[r].who]
            /\ UNCHANGED <<checks, receipts, settledOn>>
      BY <1>3, <2>2 DEF ApproveStrategy
    <3> HIDE DEF x
    <3>4. recovery' \in [RecoveryIds -> Row]
      BY <3>3, <2>1, <1>t, ZenonT(60)
    <3> QED
      BY <3>2, <3>3, <3>4, <1>r
  <2>3. CASE ~StillPreparing(x)
    BY <1>3, <2>3, <1>a, <1>r, <1>t, DoneTypes DEF ApproveStrategy, CaseworkTypeOK
  <2> QED
    BY <2>2, <2>3
<1>4. ASSUME NEW r \in Requests, StrategyGate(r)
      PROVE  ReqOK' /\ ClosingTypeOK'
  BY <1>4, <1>a, <1>r, <1>t, DoneTypes, SatisfyTypes, GatesAssumption
     DEF StrategyGate, CaseworkTypeOK, closing
<1> QED
  BY <1>4, <1>1, <1>2, <1>3 DEF RecoveryNext, SUSTAINED_SHORTFALL_PERIODS

-------------------------------------------------------------------------------
(****************************************************************************)
(* Steps, whatever the desk.                                                *)
(****************************************************************************)
\* What a desk does not write keeps its type.
LEMMA KeptTypes ==
  /\ DecisionTypeOK /\ UNCHANGED decided => DecisionTypeOK'
  /\ NotificationTypeOK /\ UNCHANGED notified => NotificationTypeOK'
  /\ LedgerTypeOK /\ UNCHANGED ledger => LedgerTypeOK'
  /\ PerfectionTypeOK /\ UNCHANGED perfection => PerfectionTypeOK'
  /\ ContractsTypeOK /\ UNCHANGED contracts => ContractsTypeOK'
  /\ MonitoringTypeOK /\ UNCHANGED watching => MonitoringTypeOK'
  /\ RepaymentsTypeOK /\ UNCHANGED repayments => RepaymentsTypeOK'
  /\ ClosingTypeOK /\ UNCHANGED closing => ClosingTypeOK'
<1>1. DecisionTypeOK /\ UNCHANGED decided => DecisionTypeOK'
  BY DEF DecisionTypeOK, decided
<1>2. NotificationTypeOK /\ UNCHANGED notified => NotificationTypeOK'
  BY DEF NotificationTypeOK, notified
<1>3. LedgerTypeOK /\ UNCHANGED ledger => LedgerTypeOK'
  BY DEF LedgerTypeOK, ledger
<1>4. PerfectionTypeOK /\ UNCHANGED perfection => PerfectionTypeOK'
  BY DEF PerfectionTypeOK, perfection
<1>5. ContractsTypeOK /\ UNCHANGED contracts => ContractsTypeOK'
  BY DEF ContractsTypeOK, contracts
<1>6. MonitoringTypeOK /\ UNCHANGED watching => MonitoringTypeOK'
  BY DEF MonitoringTypeOK, watching
<1>7. RepaymentsTypeOK /\ UNCHANGED repayments => RepaymentsTypeOK'
  BY DEF RepaymentsTypeOK, repayments
<1>8. ClosingTypeOK /\ UNCHANGED closing => ClosingTypeOK'
  BY DEF ClosingTypeOK, closing
<1> QED
  BY <1>1, <1>2, <1>3, <1>4, <1>5, <1>6, <1>7, <1>8

LEMMA AroundTypes ==
  ASSUME ReqOK, Around
  PROVE  ReqOK'
<1>1. CASE NewVersion
  <2>1. caseVersion' \in Versions /\ UNCHANGED <<gate, req>>
    BY <1>1, Constants DEF NewVersion, ReqOK, CaseworkTypeOK, Versions
  <2> QED
    BY <2>1 DEF ReqOK, CaseworkTypeOK, ReqShape
<1>2. ASSUME NEW r \in Requests, Lost(r)
      PROVE  ReqOK'
  BY <1>2, DoneTypes DEF Lost, ReqOK, CaseworkTypeOK
<1> QED
  BY <1>1, <1>2 DEF Around

LEMMA TypeStep ==
  ASSUME TypeInv, desk = "contracts" => ContractsHold, [Next]_vars
  PROVE  TypeInv'
<1> USE DEF TypeInv, TypeOK, contracting, servicing
<1>r. ReqOK' => CaseworkTypeOK'
  BY DEF ReqOK
<1>1. CASE Decide
  <2> DEFINE T == IF desk = "contracts" THEN BOOLEAN ELSE {FALSE}
  <2>1. PICK r \in Requests : DecisionNext(r, T)
    BY <1>1 DEF Decide
  <2>2. T \in SUBSET BOOLEAN
    OBVIOUS
  <2> HIDE DEF T
  <2>3. ReqOK' /\ DecisionTypeOK'
    BY <2>1, <2>2, DecisionTypes
  <2> QED
    BY <1>1, <1>r, <2>3, KeptTypes DEF Decide
<1>2. CASE Notify
  <2>1. ReqOK' /\ NotificationTypeOK' /\ DecisionTypeOK'
    BY <1>2, NotificationTypes, KeptTypes
       DEF Notify, NotificationNext, CheckDraft, CheckApproval, CheckDelivery,
           CreateDraft, ApproveDraft, RecordMockDelivery
  <2> QED
    BY <1>2, <1>r, <2>1, KeptTypes DEF Notify
<1>3. CASE WorkOnConditions
  <2>1. ReqOK' /\ LedgerTypeOK' /\ DecisionTypeOK'
    BY <1>3, ConditionTypes, KeptTypes
       DEF WorkOnConditions, ConditionsNext, CheckCondition, CheckConfirm,
           CheckTransition, CreateCondition, TransitionCondition,
           ConfirmConditions
  <2> QED
    BY <1>3, <1>r, <2>1, KeptTypes DEF WorkOnConditions
<1>4. CASE Secure
  BY <1>4, <1>r, PerfectionTypes, KeptTypes DEF Secure
<1>5. CASE Contract
  <2>1. ReqOK' /\ ContractsTypeOK' /\ DecisionTypeOK'
    BY <1>5, ContractTypes, KeptTypes
       DEF Contract, ContractsNext, CheckPackage, CheckApprove, CheckAuthority,
           CheckSign, CheckRedline, CreatePackage, AddRedline, ApprovePackage,
           ConfirmAuthority, RecordSignature, ContractsSigned
  <2> QED
    BY <1>5, <1>r, <2>1, KeptTypes DEF Contract
<1>6. CASE Monitor
  BY <1>6, <1>r, MonitoringTypes, KeptTypes DEF Monitor
<1>7. CASE Collect
  BY <1>7, <1>r, RepaymentTypes, KeptTypes DEF Collect
<1>8. CASE Settle
  BY <1>8, <1>r, SettlementTypes, KeptTypes DEF Settle
<1>9. CASE Recover
  BY <1>9, <1>r, RecoveryTypes, KeptTypes DEF Recover
<1>10. CASE Around
  BY <1>10, <1>r, AroundTypes, KeptTypes DEF Around
<1>11. CASE UNCHANGED vars
  <2>1. ReqOK'
    BY <1>11 DEF vars, casework, ReqOK, CaseworkTypeOK, ReqShape
  <2> QED
    BY <1>11, <1>r, <2>1, KeptTypes DEF vars
<1> QED
  BY <1>1, <1>2, <1>3, <1>4, <1>5, <1>6, <1>7, <1>8, <1>9, <1>10, <1>11 DEF Next

\* What Enter and Done leave in the requests.
LEMMA Entered ==
  ASSUME CaseworkTypeOK, NEW r \in Requests, NEW op, NEW who, NEW v, NEW x,
         Enter(r, op, who, v, x)
  PROVE  /\ req'[r].op = op /\ req'[r].who = who /\ req'[r].ver = v
         /\ req'[r].arg = x
         /\ \A q \in Requests : q # r => req'[q] = req[q]
         /\ UNCHANGED <<caseVersion, gate>>
  BY DEF Enter, CaseworkTypeOK

LEMMA Answered ==
  ASSUME CaseworkTypeOK, NEW r \in Requests, Done(r)
  PROVE  /\ req'[r].op = "idle"
         /\ \A q \in Requests : q # r => req'[q] = req[q]
  BY DEF Done, CaseworkTypeOK, Idle

\* A step of no desk takes no decision back, and starts nothing of a desk.
LEMMA Elsewhere ==
  ASSUME TypeInv, Decide \/ Around \/ UNCHANGED vars
  PROVE  /\ \A v \in Versions :
              /\ Permits(v) => Permits(v)'
              /\ PermitsContract(v) => PermitsContract(v)'
         /\ \A q \in Requests :
              req'[q] = req[q] \/ req'[q].op \in {"decide", "idle"}
         /\ UNCHANGED <<gate, contracting, servicing, desk>>
<1>a. CaseworkTypeOK /\ \A r \in Requests : req[r].ver \in Versions
  BY DEF TypeInv, ReqOK, CaseworkTypeOK
<1>1. CASE Decide
  <2> DEFINE T == IF desk = "contracts" THEN BOOLEAN ELSE {FALSE}
  <2>1. PICK r \in Requests : DecisionNext(r, T)
    BY <1>1 DEF Decide
  <2> HIDE DEF T
  <2>2. ASSUME NEW k \in Outcomes, NEW c \in BOOLEAN, NEW t \in T,
               CheckDecision(r, k, c, t)
        PROVE  /\ \A q \in Requests :
                    req'[q] = req[q] \/ req'[q].op \in {"decide", "idle"}
               /\ UNCHANGED <<gate, decided>>
    <3>1. Enter(r, "decide", "CREDIT_APPROVER", caseVersion,
                [kind |-> k, terms |-> t]) /\ UNCHANGED decided
      BY <2>2 DEF CheckDecision, BeginAny
    <3> QED
      BY <1>a, <3>1, Entered
  <2>3. ASSUME RecordDecision(r)
        PROVE  /\ \A q \in Requests :
                    req'[q] = req[q] \/ req'[q].op \in {"decide", "idle"}
               /\ UNCHANGED gate
               /\ \A v \in Versions :
                    /\ decision[v] \in APPROVAL_DECISIONS => decision'[v] = decision[v]
                    /\ v \in terms => v \in terms'
    <3>1. \A v \in Versions :
            /\ decision[v] \in APPROVAL_DECISIONS => decision'[v] = decision[v]
            /\ v \in terms => v \in terms'
      BY <1>a, <2>3
         DEF RecordDecision, TypeInv, TypeOK, DecisionTypeOK, decided,
             APPROVAL_DECISIONS
    <3> QED
      BY <1>a, <2>3, <3>1, Answered DEF RecordDecision
  <2> QED
    BY <1>1, <2>1, <2>2, <2>3
       DEF Decide, DecisionNext, Permits, PermitsContract, decided
<1>2. CASE Around
  <2>1. \A q \in Requests : req'[q] = req[q] \/ req'[q].op = "idle"
    BY <1>2, <1>a, Answered DEF Around, NewVersion, Lost
  <2> QED
    BY <1>2, <2>1
       DEF Around, NewVersion, Lost, Permits, PermitsContract, decided
<1>3. CASE UNCHANGED vars
  BY <1>3 DEF vars, casework, Permits, PermitsContract, decided
<1> QED
  BY <1>1, <1>2, <1>3

\* A gate is satisfied by its own desk only.
LEMMA GatesStep ==
  ASSUME TypeInv, [Next]_vars, NEW g \in GateTypes, NEW v \in Versions,
         gate'[g][v] # gate[g][v]
  PROVE  g \in GatesOf(desk)
<1>a. /\ CaseworkTypeOK
      /\ \A r \in Requests : req[r].ver \in Versions
      /\ \A r \in Requests : req[r].who \in People
  BY DEF TypeInv, ReqOK, CaseworkTypeOK
<1>s. \A r \in Requests, h \in GateTypes :
        Satisfy(h, req[r].ver, req[r].who) => g = h
  BY <1>a, SatisfyTypes
<1>0. ~(Decide \/ Around \/ UNCHANGED vars)
  BY Elsewhere
<1>1. CASE Notify
  BY <1>1, <1>s, GatesAssumption
     DEF Notify, NotificationNext, CheckDraft, CheckApproval, CheckDelivery,
         CreateDraft, ApproveDraft, RecordMockDelivery, Begin, Enter, GatesOf
<1>2. CASE WorkOnConditions
  BY <1>2, <1>s, GatesAssumption
     DEF WorkOnConditions, ConditionsNext, CheckCondition, CheckConfirm,
         CheckTransition, CreateCondition, TransitionCondition,
         ConfirmConditions, Begin, BeginAny, Enter, GatesOf
<1>3. CASE Secure
  <2>1. PICK r \in Requests : PerfectionNext(r)
    BY <1>3 DEF Secure
  <2>2. ConfirmPerfection(r)
    BY <2>1
       DEF PerfectionNext, CheckInterest, CheckPerfection, CreateInterest, AddItem,
           ReadItem, TransitionItem, Begin, BeginAny, Enter, casework
  <2> QED
    BY <1>3, <1>s, <2>2, GatesAssumption DEF Secure, ConfirmPerfection, GatesOf
<1>4. CASE Contract
  BY <1>4, <1>s, GatesAssumption
     DEF Contract, ContractsNext, CheckPackage, CheckApprove, CheckAuthority,
         CheckSign, CheckRedline, CreatePackage, AddRedline, ApprovePackage,
         ConfirmAuthority, RecordSignature, ContractsSigned, BeginAny, Enter,
         GatesOf
<1>5. CASE Monitor
  BY <1>5 DEF Monitor, MonitoringNext, CreateObligations, CreateCovenant,
              RecordObservation, RecordCovenantTest, CheckDisposition, BeginAny,
              Enter, DisposeAlert, casework
<1>6. CASE Collect
  BY <1>6 DEF Collect, RepaymentsNext, CreateFacility, RecordEvent, casework
<1>7. CASE Settle
  BY <1>7, <1>s, GatesAssumption
     DEF Settle, SettlementNext, RecordCheck, CheckSettlement, RecordReceipts,
         ConfirmSettlement, Begin, Enter, casework, GatesOf
<1>8. CASE Recover
  BY <1>8, <1>s, GatesAssumption
     DEF Recover, RecoveryNext, OpenRecovery, CheckStrategy, ApproveStrategy,
         StrategyGate, Begin, Enter, casework, GatesOf
<1> QED
  BY <1>0, <1>1, <1>2, <1>3, <1>4, <1>5, <1>6, <1>7, <1>8 DEF Next

LEMMA OthersStep ==
  ASSUME TypeInv, OthersUntouched, [Next]_vars
  PROVE  OthersUntouched'
<1>0. UNCHANGED desk
  BY DEF Next, Decide, Notify, WorkOnConditions, Secure, Contract, Monitor, Collect,
         Settle, Recover, Around, vars
<1>1. \A g \in GateTypes, v \in Versions : gate'[g][v] # Nobody => g \in GatesOf(desk)'
  <2> SUFFICES ASSUME NEW g \in GateTypes, NEW v \in Versions, gate'[g][v] # Nobody
               PROVE  g \in GatesOf(desk)
    BY <1>0 DEF GatesOf
  <2> QED
    BY GatesStep DEF OthersUntouched
<1>2. /\ desk # "notifications" => UNCHANGED notified
      /\ desk # "contracts" => UNCHANGED contracts
      /\ desk # "monitoring" => UNCHANGED watching
      /\ desk # "settlement" => UNCHANGED receipts
      /\ desk # "recovery" => UNCHANGED recovery
  <2>1. SettlementNext => UNCHANGED recovery
    BY DEF SettlementNext, RecordCheck, CheckSettlement, RecordReceipts,
           ConfirmSettlement, closing
  <2>2. RecoveryNext => UNCHANGED receipts
    BY DEF RecoveryNext, OpenRecovery, CheckStrategy, ApproveStrategy, StrategyGate,
           closing
  <2> QED
    BY <2>1, <2>2
       DEF Next, Decide, Notify, WorkOnConditions, Secure, Contract, Monitor, Collect,
           Settle, Recover, Around, vars, contracting, servicing, closing
<1>3. desk # "notifications" => NotificationInit'
  BY <1>2 DEF OthersUntouched, NotificationInit, notified
<1>4. desk # "contracts" => ContractsInit'
  BY <1>2 DEF OthersUntouched, ContractsInit, contracts
<1>5. desk # "monitoring" => MonitoringInit'
  BY <1>2 DEF OthersUntouched, MonitoringInit, watching
<1>6. /\ desk # "settlement" =>
           \A v \in Versions : \A n \in 1..MaxChecks : \A k \in SettlementReceiptKind :
             receipts'[v][n][k] = Nobody
      /\ desk # "recovery" => \A x \in RecoveryIds : recovery'[x] = NoRecovery
  BY <1>2 DEF OthersUntouched
<1> QED
  BY <1>0, <1>1, <1>3, <1>4, <1>5, <1>6 DEF OthersUntouched

-------------------------------------------------------------------------------
(****************************************************************************)
(* Notifications.                                                           *)
(****************************************************************************)
LEMMA NotificationsStep ==
  ASSUME TypeInv, desk = "notifications", NotificationsHold, [Next]_vars
  PROVE  NotificationsHold'
<1> DEFINE G == "HG_CREDIT_NOTIFICATION_APPROVED"
<1>a. /\ CaseworkTypeOK /\ NotificationTypeOK /\ G \in GateTypes
      /\ \A r \in Requests : req[r].ver \in Versions /\ req[r].who \in People
      /\ \A r \in Requests :
           req[r].op \in {"draft", "approve_draft", "deliver"} => req[r].who \in Actors
      /\ caseVersion \in Versions
  BY GatesAssumption DEF TypeInv, TypeOK, ReqOK, ArgTyped, CaseworkTypeOK
<1>b. /\ \A v \in Versions : draft[v] # Nobody => Permits(v)
      /\ \A r \in Requests : NoteFound(r)
      /\ DeliveredUnderControl
  BY DEF NotificationsHold
<1>k. ASSUME \A v \in Versions : Permits(v) => Permits(v)',
             \A v \in Versions : draft[v] # Nobody => draft'[v] = draft[v],
             \A v \in Versions : gate[G][v] # Nobody => gate'[G][v] # Nobody,
             NEW q \in Requests, NoteFound(q), req'[q] = req[q]
      PROVE  NoteFound(q)'
  BY <1>a, <1>k DEF NoteFound
<1>i. ASSUME NEW q \in Requests, req'[q].op \notin {"draft", "deliver"}
      PROVE  NoteFound(q)'
  BY <1>i DEF NoteFound
<1>1. CASE Decide \/ Around \/ UNCHANGED vars
  <2>1. /\ \A v \in Versions : Permits(v) => Permits(v)'
        /\ UNCHANGED <<gate, draft, receipt>>
    BY <1>1, Elsewhere DEF contracting, notified
  <2>2. \A q \in Requests : NoteFound(q)'
    BY <1>1, <1>b, <1>k, <1>i, <2>1, Elsewhere
  <2> QED
    BY <1>b, <2>1, <2>2 DEF NotificationsHold, DeliveredUnderControl
<1>2. ASSUME NEW r \in Requests, NotificationNext(r)
      PROVE  NotificationsHold'
  <2>p. \A v \in Versions : Permits(v)' <=> Permits(v)
    BY <1>2 DEF NotificationNext, CheckDraft, CheckApproval, CheckDelivery,
                CreateDraft, ApproveDraft, RecordMockDelivery, decided, Permits
  <2>1. ASSUME NEW a \in Actors, CheckDraft(r, a)
        PROVE  NotificationsHold'
    <3>1. /\ Enter(r, "draft", a, caseVersion, Nobody) /\ Permits(caseVersion)
          /\ UNCHANGED <<draft, receipt>>
      BY <2>1 DEF CheckDraft, Begin, notified
    <3>2. /\ req'[r].op = "draft" /\ req'[r].ver = caseVersion
          /\ \A q \in Requests : q # r => req'[q] = req[q]
          /\ UNCHANGED gate
      BY <3>1, <1>a, Entered
    <3>3. NoteFound(r)'
      BY <3>1, <3>2, <2>p, <1>a DEF NoteFound
    <3>4. \A q \in Requests : NoteFound(q)'
      BY <1>b, <1>k, <2>p, <3>1, <3>2, <3>3
    <3> QED
      BY <1>b, <2>p, <3>1, <3>2, <3>4 DEF NotificationsHold, DeliveredUnderControl
  <2>2. ASSUME NEW a \in Actors, NEW v \in Versions, CheckApproval(r, a, v)
        PROVE  NotificationsHold'
    <3>1. /\ Enter(r, "approve_draft", a, v, Nobody) /\ UNCHANGED <<draft, receipt>>
      BY <2>2 DEF CheckApproval, Begin, notified
    <3>2. /\ req'[r].op = "approve_draft"
          /\ \A q \in Requests : q # r => req'[q] = req[q]
          /\ UNCHANGED gate
      BY <3>1, <1>a, Entered
    <3>4. \A q \in Requests : NoteFound(q)'
      BY <1>b, <1>k, <1>i, <2>p, <3>1, <3>2
    <3> QED
      BY <1>b, <2>p, <3>1, <3>2, <3>4 DEF NotificationsHold, DeliveredUnderControl
  <2>3. ASSUME NEW a \in Actors, NEW v \in Versions, CheckDelivery(r, a, v)
        PROVE  NotificationsHold'
    <3>1. /\ Enter(r, "deliver", a, v, Nobody) /\ UNCHANGED <<draft, receipt>>
          /\ draft[v] # Nobody /\ draft[v] # a /\ gate[G][v] # Nobody
      BY <2>3
         DEF CheckDelivery, Begin, notified, LatestDraft, MayDeliver, Approved, GateSeen
    <3>2. /\ req'[r].op = "deliver" /\ req'[r].ver = v /\ req'[r].who = a
          /\ \A q \in Requests : q # r => req'[q] = req[q]
          /\ UNCHANGED gate
      BY <3>1, <1>a, Entered
    <3>3. NoteFound(r)'
      BY <3>1, <3>2 DEF NoteFound
    <3>4. \A q \in Requests : NoteFound(q)'
      BY <1>b, <1>k, <2>p, <3>1, <3>2, <3>3
    <3> QED
      BY <1>b, <2>p, <3>1, <3>2, <3>4 DEF NotificationsHold, DeliveredUnderControl
  <2>4. CASE CreateDraft(r)
    <3> DEFINE v == req[r].ver
    <3>1. /\ Permits(v) /\ v \in Versions /\ Done(r)
          /\ draft' = [draft EXCEPT ![v] = IF draft[v] = Nobody THEN req[r].who
                                                               ELSE draft[v]]
          /\ UNCHANGED <<gate, receipt>>
      BY <2>4, <1>a, <1>b DEF CreateDraft, Doing, NoteFound
    <3>2. \A w \in Versions :
            /\ draft[w] # Nobody => draft'[w] = draft[w]
            /\ draft'[w] # Nobody => draft[w] # Nobody \/ w = v
      <4> HIDE DEF v
      <4> QED
        BY <1>a, <3>1 DEF NotificationTypeOK
    <3>4. \A q \in Requests : NoteFound(q)'
      BY <1>a, <1>b, <1>k, <1>i, <2>p, <3>1, <3>2, Answered
    <3> QED
      BY <1>b, <2>p, <3>1, <3>2, <3>4 DEF NotificationsHold, DeliveredUnderControl
  <2>5. CASE ApproveDraft(r)
    <3>1. /\ Satisfy(G, req[r].ver, req[r].who) /\ Done(r)
          /\ UNCHANGED <<draft, receipt>>
      BY <2>5 DEF ApproveDraft, notified
    <3>2. \A w \in Versions : gate[G][w] # Nobody => gate'[G][w] # Nobody
      BY <1>a, <3>1, SatisfyTypes
    <3>4. \A q \in Requests : NoteFound(q)'
      BY <1>a, <1>b, <1>k, <1>i, <2>p, <3>1, <3>2, Answered
    <3> QED
      BY <1>b, <2>p, <3>1, <3>2, <3>4 DEF NotificationsHold, DeliveredUnderControl
  <2>6. CASE RecordMockDelivery(r)
    <3> DEFINE v == req[r].ver
    <3>1. /\ draft[v] # Nobody /\ draft[v] # req[r].who /\ gate[G][v] # Nobody
          /\ Permits(v) /\ v \in Versions /\ Done(r) /\ UNCHANGED <<gate, draft>>
          /\ receipt' = [receipt EXCEPT ![v] = IF receipt[v] = Nobody THEN req[r].who
                                                                  ELSE receipt[v]]
      BY <2>6, <1>a, <1>b DEF RecordMockDelivery, Doing, NoteFound
    <3>2. \A w \in Versions :
            receipt'[w] = receipt[w] \/ (w = v /\ receipt'[w] = req[r].who)
      <4> HIDE DEF v
      <4> QED
        BY <1>a, <3>1 DEF NotificationTypeOK
    <3>3. DeliveredUnderControl'
      BY <1>b, <2>p, <3>1, <3>2 DEF DeliveredUnderControl
    <3>4. \A q \in Requests : NoteFound(q)'
      BY <1>a, <1>b, <1>k, <1>i, <2>p, <3>1, Answered
    <3> QED
      BY <1>b, <2>p, <3>1, <3>3, <3>4 DEF NotificationsHold
  <2> QED
    BY <1>2, <2>4, <2>5, <2>6, <2>1, <2>2, <2>3 DEF NotificationNext
<1> QED
  BY <1>1, <1>2
     DEF Next, Notify, WorkOnConditions, Secure, Contract, Monitor, Collect, Settle,
         Recover

(****************************************************************************)
(* Conditions.                                                              *)
(****************************************************************************)
\* What is listed stays as the checker found it, whatever is done to conditions.
LEMMA StaysSettled ==
  ASSUME LedgerTypeOK, NEW L \in SUBSET ConditionIds, NEW v \in Versions, NEW a,
         ListSettled(L, v, a),
         \A c \in ConditionIds :
           condition[c].ver # 0 =>
             /\ condition'[c].ver = condition[c].ver
             /\ condition'[c].status = condition[c].status
                  \/ condition'[c].status \in ALLOWED_TRANSITIONS(condition[c].status)
             /\ verifiedBy'[c] = verifiedBy[c]
                  \/ "VERIFIED" \in ALLOWED_TRANSITIONS(condition[c].status)
  PROVE  ListSettled(L, v, a)'
<1> SUFFICES ASSUME NEW c \in L
             PROVE  /\ condition'[c].ver = v
                    /\ condition'[c].status \in CONFIRMABLE_STATUSES \cup {"SUPERSEDED"}
                    /\ a \notin verifiedBy'[c]
  BY DEF ListSettled
<1>1. /\ condition[c].ver = v /\ v # 0 /\ a \notin verifiedBy[c]
      /\ condition[c].status \in CONFIRMABLE_STATUSES \cup {"SUPERSEDED"}
  BY Constants DEF ListSettled
<1>2. ALLOWED_TRANSITIONS(condition[c].status) \subseteq {"SUPERSEDED"}
  BY <1>1 DEF ALLOWED_TRANSITIONS, CONFIRMABLE_STATUSES
<1> QED
  BY <1>1, <1>2

LEMMA ConditionsStep ==
  ASSUME TypeInv, desk = "conditions", ConditionsHold, [Next]_vars
  PROVE  ConditionsHold'
<1> DEFINE G == "HG_DISBURSEMENT_CONDITIONS_CONFIRMED"
<1>a. /\ CaseworkTypeOK /\ LedgerTypeOK /\ G \in GateTypes /\ Nobody \notin Actors
      /\ \A r \in Requests : req[r].ver \in Versions /\ req[r].who \in People
      /\ \A r \in Requests : ArgTyped(req[r].op, req[r].who, req[r].arg)
      /\ caseVersion \in Versions
  BY GatesAssumption, Constants DEF TypeInv, TypeOK, ReqOK, CaseworkTypeOK
<1>b. /\ \A v \in Versions : gate[G][v] # Nobody <=> confirmed[v] # {}
      /\ \A r \in Requests : LedgerFound(r)
      /\ \A v \in Versions :
           gate[G][v] # Nobody => ListSettled(confirmed[v], v, gate[G][v])
  BY DEF ConditionsHold, ConfirmationRests, ListSettled
<1>c. ASSUME \A v \in Versions : gate'[G][v] # Nobody <=> confirmed'[v] # {},
             \A r \in Requests : LedgerFound(r)',
             \A v \in Versions :
               gate'[G][v] # Nobody => ListSettled(confirmed[v], v, gate[G][v])'
      PROVE  ConditionsHold'
  BY <1>c DEF ConditionsHold, ConfirmationRests, ListSettled
<1>t. \A v \in Versions : confirmed[v] \subseteq ConditionIds
  BY <1>a DEF LedgerTypeOK
<1>u. \A r \in Requests :
        req[r].op = "confirm_ledger" => req[r].arg.listed \subseteq ConditionIds
  BY <1>a DEF ArgTyped
\* While nothing is confirmed, it is enough that the rows move along the edges.
<1>m. ASSUME UNCHANGED <<gate, confirmed>>,
             \A c \in ConditionIds :
               condition[c].ver # 0 =>
                 /\ condition'[c].ver = condition[c].ver
                 /\ condition'[c].status = condition[c].status
                     \/ condition'[c].status \in ALLOWED_TRANSITIONS(condition[c].status)
                 /\ verifiedBy'[c] = verifiedBy[c]
                     \/ "VERIFIED" \in ALLOWED_TRANSITIONS(condition[c].status),
             \A q \in Requests :
               req'[q] = req[q] \/ req'[q].op # "confirm_ledger"
      PROVE  ConditionsHold'
  <2>0. \A L \in SUBSET ConditionIds, v \in Versions, a \in People :
          ListSettled(L, v, a) => ListSettled(L, v, a)'
    BY <1>a, <1>m, StaysSettled
  <2>1. ASSUME NEW v \in Versions, gate[G][v] # Nobody
        PROVE  ListSettled(confirmed[v], v, gate[G][v])'
    <3>1. ListSettled(confirmed[v], v, gate[G][v])
      BY <1>b, <2>1
    <3> QED
      <4>1. PICK L \in SUBSET ConditionIds, a \in People :
              L = confirmed[v] /\ a = gate[G][v]
        BY <1>a, <1>t DEF CaseworkTypeOK
      <4>2. ListSettled(L, v, a)'
        BY <2>0, <3>1, <4>1
      <4> QED
        BY <1>m, <4>1, <4>2 DEF ListSettled
  <2>2. ASSUME NEW q \in Requests
        PROVE  LedgerFound(q)'
    <3>1. CASE req'[q].op # "confirm_ledger"
      BY <3>1 DEF LedgerFound
    <3>2. CASE req'[q] = req[q] /\ req[q].op = "confirm_ledger"
      <4>1. ListSettled(req[q].arg.listed, req[q].ver, req[q].who)
        BY <1>b, <3>2 DEF LedgerFound
      <4> QED
        <5>1. PICK L \in SUBSET ConditionIds, v \in Versions, a \in People :
                L = req[q].arg.listed /\ v = req[q].ver /\ a = req[q].who
          BY <1>a, <1>u, <3>2
        <5>2. ListSettled(L, v, a)'
          BY <2>0, <4>1, <5>1
        <5> QED
          BY <3>2, <5>1, <5>2 DEF LedgerFound, ListSettled
    <3> QED
      BY <1>m, <3>1, <3>2
  <2> QED
    BY <1>b, <1>c, <1>m, <2>1, <2>2
<1>1. CASE Decide \/ Around \/ UNCHANGED vars
  BY <1>1, <1>m, Elsewhere DEF contracting, ledger
<1>2. ASSUME NEW r \in Requests, ConditionsNext(r)
      PROVE  ConditionsHold'
  <2>1. CASE CheckCondition(r)
    <3>1. Enter(r, "add_condition", "OPS_OFFICER", caseVersion, Nobody)
            /\ UNCHANGED <<condition, verifiedBy, confirmed>>
      BY <2>1 DEF CheckCondition, BeginAny, ledger
    <3> QED
      BY <1>a, <1>m, <3>1, Entered
  <2>2. ASSUME NEW a \in Actors, NEW c \in ConditionIds, NEW s \in ConditionStatus,
               CheckTransition(r, a, c, s)
        PROVE  ConditionsHold'
    <3>1. Enter(r, "move_condition", a, caseVersion, [condition |-> c, to |-> s])
            /\ UNCHANGED <<condition, verifiedBy, confirmed>>
      BY <2>2 DEF CheckTransition, Begin, ledger
    <3> QED
      BY <1>a, <1>m, <3>1, Entered
  <2>3. ASSUME NEW c \in ConditionIds, CreateCondition(r, c)
        PROVE  ConditionsHold'
    <3>1. /\ condition[c].ver = 0 /\ Done(r)
          /\ condition' = [condition EXCEPT ![c] =
                             [ver |-> req[r].ver, status |-> "PENDING"]]
          /\ UNCHANGED <<gate, verifiedBy, confirmed>>
      BY <2>3 DEF CreateCondition, NoRow
    <3>2. \A d \in ConditionIds : condition[d].ver # 0 => condition'[d] = condition[d]
      BY <1>a, <3>1 DEF LedgerTypeOK
    <3> QED
      BY <1>a, <1>m, <3>1, <3>2, Answered
  <2>4. CASE TransitionCondition(r)
    <3> DEFINE c == req[r].arg.condition
               s == req[r].arg.to
    <3>0. Done(r) /\ UNCHANGED <<gate, confirmed>> /\ c \in ConditionIds
      BY <2>4, <1>a DEF TransitionCondition, Doing, ArgTyped
    <3>1. CASE StillAllowed(c, s)
      <4>1. /\ condition' = [condition EXCEPT ![c].status = s]
            /\ verifiedBy' = [verifiedBy EXCEPT ![c] =
                 IF s = "VERIFIED" THEN @ \cup {req[r].who} ELSE @]
            /\ s \in ALLOWED_TRANSITIONS(condition[c].status)
        BY <2>4, <3>1 DEF TransitionCondition, StillAllowed
      <4> HIDE DEF c, s
      <4>2. \A d \in ConditionIds :
              /\ condition'[d].ver = condition[d].ver
              /\ condition'[d].status = IF d = c THEN s ELSE condition[d].status
        BY <1>a, <3>0, <4>1 DEF LedgerTypeOK
      <4>3. \A d \in ConditionIds :
              verifiedBy'[d] = verifiedBy[d] \/ (d = c /\ s = "VERIFIED")
        BY <1>a, <3>0, <4>1 DEF LedgerTypeOK
      <4> QED
        BY <1>a, <1>m, <3>0, <4>1, <4>2, <4>3, Answered
    <3>2. CASE ~StillAllowed(c, s)
      BY <2>4, <3>0, <3>2, <1>a, <1>m, Answered DEF TransitionCondition
    <3> QED
      BY <3>1, <3>2
  <2>5. ASSUME NEW a \in Actors, CheckConfirm(r, a)
        PROVE  ConditionsHold'
    <3>1. /\ Enter(r, "confirm_ledger", a, caseVersion,
                   [listed |-> Listed(caseVersion)])
          /\ UNCHANGED <<condition, verifiedBy, confirmed>>
      BY <2>5 DEF CheckConfirm, Begin, ledger
    <3>2. ListSettled(Listed(caseVersion), caseVersion, a)
      BY <2>5 DEF CheckConfirm, Confirmable, VerifyingActors, Listed, ListSettled
    <3>3. /\ req'[r].op = "confirm_ledger" /\ req'[r].who = a
          /\ req'[r].ver = caseVersion /\ req'[r].arg.listed = Listed(caseVersion)
          /\ \A q \in Requests : q # r => req'[q] = req[q]
          /\ UNCHANGED gate
      BY <3>1, <1>a, Entered
    <3> HIDE DEF G
    <3>4. LedgerFound(r)'
      BY <3>1, <3>2, <3>3 DEF LedgerFound, ListSettled
    <3>5. \A q \in Requests : q # r => LedgerFound(q)'
      BY <1>b, <3>1, <3>3 DEF LedgerFound, ListSettled
    <3> QED
      BY <1>b, <1>c, <3>1, <3>3, <3>4, <3>5 DEF ListSettled
  <2>6. CASE ConfirmConditions(r)
    <3> DEFINE v == req[r].ver
               L == req[r].arg.listed
    <3>1. /\ Satisfy(G, v, req[r].who) /\ Done(r)
          /\ confirmed' = [confirmed EXCEPT ![v] = IF @ = {} THEN L ELSE @]
          /\ UNCHANGED <<condition, verifiedBy>>
          /\ ListSettled(L, v, req[r].who) /\ v \in Versions /\ req[r].who \in Actors
          /\ L \subseteq ConditionIds
      BY <2>6, <1>a, <1>b DEF ConfirmConditions, Doing, LedgerFound, ArgTyped
    <3>2. \A w \in Versions : gate'[G][w] =
            IF w = v /\ gate[G][w] = Nobody THEN req[r].who ELSE gate[G][w]
      BY <1>a, <3>1 DEF Satisfy, CaseworkTypeOK
    <3>3. \A w \in Versions :
            confirmed'[w] = IF w = v /\ confirmed[w] = {} THEN L ELSE confirmed[w]
      <4> HIDE DEF v, L
      <4> QED
        BY <1>a, <3>1 DEF LedgerTypeOK
    <3>4. L # {} /\ req[r].who # Nobody
      BY <3>1, <1>a DEF ListSettled
    <3>5. \A w \in Versions : gate'[G][w] # Nobody <=> confirmed'[w] # {}
      BY <1>b, <3>2, <3>3, <3>4
    <3>6. ASSUME NEW w \in Versions, gate'[G][w] # Nobody
          PROVE  ListSettled(confirmed[w], w, gate[G][w])'
      <4>1. ListSettled(confirmed'[w], w, gate'[G][w])
        BY <1>b, <3>1, <3>2, <3>3, <3>6
      <4> QED
        BY <3>1, <4>1 DEF ListSettled
    <3>7. \A q \in Requests : LedgerFound(q)'
      BY <1>a, <1>b, <3>1, Answered DEF LedgerFound, ListSettled
    <3> QED
      BY <1>c, <3>5, <3>6, <3>7
  <2> QED
    BY <1>2, <2>4, <2>5, <2>6, <2>1, <2>2, <2>3 DEF ConditionsNext
<1> QED
  BY <1>1, <1>2
     DEF Next, Notify, WorkOnConditions, Secure, Contract, Monitor, Collect, Settle,
         Recover

(****************************************************************************)
(* Security interests.                                                      *)
(****************************************************************************)
\* An interest of a version stays, its items stay its own, and a satisfied item
\* can only expire.
ItemsMoveOn ==
  /\ \A i \in InterestIds : interest[i] # 0 => interest'[i] = interest[i]
  /\ \A k \in ItemIds :
       item[k].of # Nobody =>
         /\ item'[k].of = item[k].of
         /\ item[k].status \in TERMINAL_SATISFIED_STATUSES \cup {"EXPIRED"} =>
              item'[k].status \in TERMINAL_SATISFIED_STATUSES \cup {"EXPIRED"}
  /\ \A k \in ItemIds :
       item'[k].status = "COMPLETED" => item'[k].evidence /\ item'[k].by # Nobody

LEMMA StaysPerfected ==
  ASSUME NEW L \in [interests : SUBSET InterestIds, items : SUBSET ItemIds],
         NEW v \in Versions, ItemsMoveOn, ListPerfected(L, v)
  PROVE  ListPerfected(L, v)'
<1>1. v # 0 /\ L.interests \subseteq InterestIds /\ L.items \subseteq ItemIds
  BY Constants
<1>2. \A i \in L.interests :
        interest'[i] = v /\ \E k \in L.items : item'[k].of = i
  <2> SUFFICES ASSUME NEW i \in L.interests
               PROVE  interest'[i] = v /\ \E k \in L.items : item'[k].of = i
    OBVIOUS
  <2>1. PICK k \in L.items : item[k].of = i
    BY DEF ListPerfected
  <2>2. item[k].of # Nobody /\ interest[i] = v
    BY DEF ListPerfected
  <2> QED
    BY <1>1, <2>1, <2>2 DEF ItemsMoveOn
<1>3. \A k \in L.items :
        /\ item'[k].of # Nobody
        /\ item'[k].status \in TERMINAL_SATISFIED_STATUSES \cup {"EXPIRED"}
  BY <1>1 DEF ItemsMoveOn, ListPerfected
<1>4. L.interests # {}
  BY DEF ListPerfected
<1> QED
  BY <1>2, <1>3, <1>4 DEF ListPerfected

LEMMA PerfectionStep ==
  ASSUME TypeInv, desk = "security", PerfectionHolds, [Next]_vars
  PROVE  PerfectionHolds'
<1> DEFINE G == "HG_SECURITY_PERFECTION_CONFIRMED"
           Lists == [interests : SUBSET InterestIds, items : SUBSET ItemIds]
<1>a. /\ CaseworkTypeOK /\ PerfectionTypeOK /\ G \in GateTypes
      /\ Nobody \notin Actors /\ Nobody \notin InterestIds
      /\ \A r \in Requests : req[r].ver \in Versions /\ req[r].who \in People
      /\ \A r \in Requests : ArgTyped(req[r].op, req[r].who, req[r].arg)
      /\ caseVersion \in Versions /\ \A v \in Versions : v # 0
  BY GatesAssumption, Constants DEF TypeInv, TypeOK, ReqOK, CaseworkTypeOK
<1>b. /\ \A k \in ItemIds :
           item[k].status = "COMPLETED" => item[k].evidence /\ item[k].by # Nobody
      /\ \A r \in Requests : ItemFound(r)
      /\ \A v \in Versions : gate[G][v] # Nobody => ListPerfected(perfected[v], v)
  BY DEF PerfectionHolds
<1>t. /\ \A v \in Versions : perfected[v] \in Lists
      /\ \A r \in Requests : req[r].op = "confirm_perfection" => req[r].arg \in Lists
      /\ \A r \in Requests : req[r].op = "move_item" => req[r].arg.item \in ItemIds
  BY <1>a DEF PerfectionTypeOK, ArgTyped
<1> HIDE DEF G, Lists
<1>k. ASSUME ItemsMoveOn, NEW q \in Requests, req'[q] = req[q]
      PROVE  ItemFound(q)'
  <2>1. ItemFound(q)
    BY <1>b
  <2>2. CASE req[q].op = "confirm_perfection"
    <3>1. PICK L \in Lists, v \in Versions : L = req[q].arg /\ v = req[q].ver
      BY <1>a, <1>t, <2>2
    <3>2. ListPerfected(L, v)'
      BY <1>k, <2>1, <2>2, <3>1, StaysPerfected DEF ItemFound, Lists
    <3> QED
      BY <1>k, <2>2, <3>1, <3>2 DEF ItemFound, ListPerfected
  <2>3. CASE req[q].op # "confirm_perfection"
    BY <1>k, <1>t, <2>1, <2>3 DEF ItemFound, ItemsMoveOn
  <2> QED
    BY <2>2, <2>3
\* While nothing is confirmed, it is enough that the items move on.
<1>m. ASSUME ItemsMoveOn, UNCHANGED <<gate, perfected>>,
             \A q \in Requests : req'[q] = req[q] \/ ItemFound(q)'
      PROVE  PerfectionHolds'
  <2>1. ASSUME NEW v \in Versions, gate[G][v] # Nobody
        PROVE  ListPerfected(perfected[v], v)'
    <3>1. PICK L \in Lists : L = perfected[v]
      BY <1>t
    <3>2. ListPerfected(L, v)'
      BY <1>b, <1>m, <2>1, <3>1, StaysPerfected DEF Lists
    <3> QED
      BY <1>m, <3>1, <3>2 DEF ListPerfected
  <2>2. \A q \in Requests : ItemFound(q)'
    BY <1>k, <1>m
  <2> QED
    BY <1>m, <2>1, <2>2 DEF PerfectionHolds, ItemsMoveOn, G
<1>s. UNCHANGED <<interest, item>> => ItemsMoveOn
  BY <1>b DEF ItemsMoveOn
<1>i. ASSUME NEW q \in Requests, req'[q].op \notin {"move_item", "confirm_perfection"}
      PROVE  ItemFound(q)'
  BY <1>i DEF ItemFound
<1>1. CASE Decide \/ Around \/ UNCHANGED vars
  BY <1>1, <1>m, <1>s, <1>i, Elsewhere DEF contracting, perfection
<1>2. ASSUME NEW r \in Requests, PerfectionNext(r)
      PROVE  PerfectionHolds'
  <2>1. CASE CheckInterest(r)
    <3>1. Enter(r, "add_interest", "WRITER", caseVersion, Nobody)
            /\ UNCHANGED <<interest, item, perfected>>
      BY <2>1 DEF CheckInterest, BeginAny, perfection
    <3> QED
      BY <1>a, <1>m, <1>s, <1>i, <3>1, Entered
  <2>2. ASSUME NEW i \in InterestIds, CreateInterest(r, i)
        PROVE  PerfectionHolds'
    <3>1. /\ interest[i] = 0 /\ Done(r)
          /\ interest' = [interest EXCEPT ![i] = req[r].ver]
          /\ UNCHANGED <<gate, item, perfected>>
      BY <2>2 DEF CreateInterest
    <3>2. ItemsMoveOn
      BY <1>a, <1>b, <3>1 DEF ItemsMoveOn, PerfectionTypeOK
    <3> QED
      BY <1>a, <1>m, <1>i, <3>1, <3>2, Answered
  <2>3. ASSUME NEW a \in Actors, NEW k \in ItemIds, NEW i \in InterestIds,
               NEW e \in BOOLEAN, AddItem(r, a, k, i, e)
        PROVE  PerfectionHolds'
    <3> DEFINE new == [NoItem EXCEPT !.of = i, !.evidence = e]
    <3>1. /\ item[k] = NoItem /\ item' = [item EXCEPT ![k] = new]
          /\ UNCHANGED <<casework, interest, perfected>>
      BY <2>3 DEF AddItem
    <3>2. NoItem.of = Nobody /\ new.status = "PENDING"
      BY DEF NoItem
    <3> HIDE DEF new
    <3>3. \A l \in ItemIds : item'[l] = IF l = k THEN new ELSE item[l]
      BY <1>a, <3>1 DEF PerfectionTypeOK
    <3>4. ItemsMoveOn
      BY <1>a, <1>b, <3>1, <3>2, <3>3 DEF ItemsMoveOn
    <3> QED
      BY <1>m, <3>1, <3>4 DEF casework
  <2>4. ASSUME NEW a \in Actors, NEW k \in ItemIds, NEW s \in PerfectionStatus,
               NEW e \in BOOLEAN, ReadItem(r, a, k, s, e)
        PROVE  PerfectionHolds'
    <3> DEFINE move == [item |-> k, to |-> s, evidence |-> item[k].evidence \/ e]
    <3>1. /\ Enter(r, "move_item", a, 1, move) /\ item[k].of # Nobody
          /\ UNCHANGED <<interest, item, perfected>>
          /\ s = "COMPLETED" => move.evidence
      BY <2>4 DEF ReadItem, Begin, perfection, InputAllowed
    <3>2. /\ req'[r].op = "move_item" /\ req'[r].arg = move
          /\ \A q \in Requests : q # r => req'[q] = req[q]
          /\ UNCHANGED gate
      BY <1>a, <3>1, Entered
    <3>3. ItemFound(r)'
      BY <3>1, <3>2 DEF ItemFound
    <3> QED
      BY <1>m, <1>s, <3>1, <3>2, <3>3
  <2>5. CASE TransitionItem(r)
    <3> DEFINE k == req[r].arg.item
               to == req[r].arg.to
               e == req[r].arg.evidence
               new == Moved(item[k], to, e, req[r].who)
    <3>1. /\ Done(r) /\ UNCHANGED <<gate, interest, perfected>>
          /\ k \in ItemIds /\ to \in PerfectionStatus /\ e \in BOOLEAN
          /\ req[r].who \in Actors /\ item[k].of # Nobody
          /\ to = "COMPLETED" => e
      BY <2>5, <1>a, <1>b DEF TransitionItem, Doing, ArgTyped, ItemFound
    <3>2. CASE TriggerPasses(item[k].status, to)
      <4>1. item' = [item EXCEPT ![k] = new]
        BY <2>5, <3>2 DEF TransitionItem
      <4>2. item[k] \in ItemRows
        BY <1>a, <3>1 DEF PerfectionTypeOK, ItemRows
      <4>3. /\ new.of = item[k].of /\ new.status = to
            /\ to = "COMPLETED" => new.evidence /\ new.by # Nobody
        <5>1. /\ new.of = item[k].of /\ new.status = to /\ new.evidence = e
              /\ new.by = IF to = "COMPLETED" THEN req[r].who ELSE item[k].by
          <6> HIDE DEF k, to, e
          <6> QED
            BY <3>1, <4>2, ItemMoved
        <5> HIDE DEF k, to, e, new
        <5>2. to = "COMPLETED" => new.evidence
          BY <3>1, <5>1, Zenon
        <5>3. to = "COMPLETED" => new.by # Nobody
          BY <1>a, <3>1, <5>1
        <5> QED
          BY <5>1, <5>2, <5>3
      <4>4. item[k].status \in TERMINAL_SATISFIED_STATUSES \cup {"EXPIRED"} =>
              to \in TERMINAL_SATISFIED_STATUSES \cup {"EXPIRED"}
        BY <3>2 DEF TriggerPasses, ALLOWED_ITEM_TRANSITIONS,
                    TERMINAL_SATISFIED_STATUSES
      <4>5. k \in ItemIds
        BY <3>1
      <4> HIDE DEF new, k
      <4>6. \A l \in ItemIds : item'[l] = IF l = k THEN new ELSE item[l]
        BY <1>a, <4>1, <4>5 DEF PerfectionTypeOK
      <4>7. ItemsMoveOn
        <5> HIDE DEF to
        <5>1. \A l \in ItemIds :
                item'[l].status = "COMPLETED" => item'[l].evidence /\ item'[l].by # Nobody
          BY <1>b, <4>3, <4>6
        <5>2. \A l \in ItemIds :
                item[l].of # Nobody =>
                  /\ item'[l].of = item[l].of
                  /\ item[l].status \in TERMINAL_SATISFIED_STATUSES \cup {"EXPIRED"} =>
                       item'[l].status \in TERMINAL_SATISFIED_STATUSES \cup {"EXPIRED"}
          BY <4>3, <4>4, <4>6
        <5> QED
          BY <3>1, <5>1, <5>2 DEF ItemsMoveOn
      <4> QED
        BY <1>a, <1>m, <1>i, <3>1, <4>7, Answered
    <3>3. CASE ~TriggerPasses(item[k].status, to)
      <4>1. UNCHANGED item
        BY <2>5, <3>3 DEF TransitionItem
      <4> QED
        BY <1>a, <1>m, <1>s, <1>i, <3>1, <4>1, Answered
    <3> QED
      BY <3>2, <3>3
  <2>6. ASSUME NEW a \in Actors, CheckPerfection(r, a)
        PROVE  PerfectionHolds'
    <3> DEFINE L == [interests |-> InterestsOf(caseVersion),
                     items |-> UNION {ItemsOf(i) : i \in InterestsOf(caseVersion)}]
    <3>1. /\ Enter(r, "confirm_perfection", a, caseVersion, L)
          /\ UNCHANGED <<interest, item, perfected>>
      BY <2>6 DEF CheckPerfection, Begin, perfection
    <3>2. ListPerfected(L, caseVersion)
      <4>1. L.interests = InterestsOf(caseVersion) /\ L.interests # {}
        BY <2>6 DEF CheckPerfection, NoBlockers
      <4>2. \A i \in L.interests :
              interest[i] = caseVersion /\ \E k \in L.items : item[k].of = i
        BY <2>6, <4>1 DEF CheckPerfection, NoBlockers, InterestsOf, ItemsOf
      <4>3. \A k \in L.items :
              /\ item[k].of # Nobody
              /\ item[k].status \in TERMINAL_SATISFIED_STATUSES \cup {"EXPIRED"}
        BY <2>6, <1>a DEF CheckPerfection, NoBlockers, InterestsOf, ItemsOf
      <4> QED
        BY <4>1, <4>2, <4>3 DEF ListPerfected
    <3> HIDE DEF L
    <3>3. /\ req'[r].op = "confirm_perfection" /\ req'[r].arg = L
          /\ req'[r].ver = caseVersion
          /\ \A q \in Requests : q # r => req'[q] = req[q]
          /\ UNCHANGED gate
      BY <1>a, <3>1, Entered
    <3>4. ItemFound(r)'
      BY <3>1, <3>2, <3>3 DEF ItemFound, ListPerfected
    <3> QED
      BY <1>m, <1>s, <3>1, <3>3, <3>4
  <2>7. CASE ConfirmPerfection(r)
    <3> DEFINE v == req[r].ver
               L == req[r].arg
    <3>1. /\ Satisfy(G, v, req[r].who) /\ Done(r)
          /\ UNCHANGED <<interest, item>>
          /\ perfected' = [perfected EXCEPT ![v] =
               IF gate[G][v] = Nobody THEN L ELSE perfected[v]]
          /\ ListPerfected(L, v) /\ v \in Versions
      BY <2>7, <1>a, <1>b DEF ConfirmPerfection, Doing, ItemFound, G
    <3>2. \A w \in Versions : gate'[G][w] # Nobody => gate[G][w] # Nobody \/ w = v
      BY <1>a, <3>1, SatisfyTypes
    <3>3. \A w \in Versions :
            perfected'[w] = IF w = v /\ gate[G][w] = Nobody THEN L ELSE perfected[w]
      <4> HIDE DEF v, L
      <4> QED
        BY <1>a, <3>1 DEF PerfectionTypeOK
    <3>4. ASSUME NEW w \in Versions, gate'[G][w] # Nobody
          PROVE  ListPerfected(perfected[w], w)'
      <4>1. ListPerfected(perfected'[w], w)
        BY <1>b, <3>4, <3>1, <3>2, <3>3
      <4> QED
        BY <3>1, <4>1 DEF ListPerfected
    <3>5. \A q \in Requests : ItemFound(q)'
      BY <1>a, <1>k, <1>s, <1>i, <3>1, Answered
    <3> QED
      BY <1>b, <3>1, <3>4, <3>5 DEF PerfectionHolds, G
  <2> QED
    BY <1>2, <2>4, <2>5, <2>6, <2>7, <2>1, <2>2, <2>3 DEF PerfectionNext
<1> QED
  BY <1>1, <1>2
     DEF Next, Notify, WorkOnConditions, Secure, Contract, Monitor, Collect, Settle,
         Recover

(****************************************************************************)
(* Contract packages.                                                       *)
(****************************************************************************)
\* Rows, signatures, gates and approved terms: whatever is there stays.
PackagesGrow ==
  \A v \in Versions :
    /\ Len(packages'[v]) \in Nat /\ Len(packages'[v]) >= Len(packages[v])
    /\ \A n \in 1..Len(packages[v]) : packages'[v][n] = packages[v][n]
    /\ HasPackage(v) => HasPackage(v)'
    /\ PermitsContract(v) => PermitsContract(v)'
    /\ signedAs[v] \subseteq signedAs'[v]
    /\ \A g \in {"HG_CONTRACT_PACKAGE_APPROVED", "HG_SIGNATURE_AUTHORITY_CONFIRMED"} :
         gate[g][v] # Nobody => gate'[g][v] # Nobody

\* A row is written behind the others.
LEMMA RowAppended ==
  ASSUME NEW Rows, packages \in [Versions -> Seq(Rows)], NEW v \in Versions,
         NEW row \in Rows, packages' = [packages EXCEPT ![v] = Append(packages[v], row)]
  PROVE  /\ \A u \in Versions :
              /\ Len(packages'[u]) = IF u = v THEN Len(packages[v]) + 1
                                              ELSE Len(packages[u])
              /\ \A n \in 1..Len(packages[u]) : packages'[u][n] = packages[u][n]
              /\ Len(packages[u]) \in Nat
              /\ HasPackage(u) => HasPackage(u)'
         /\ packages'[v][Len(packages[v]) + 1] = row
<1>1. \A u \in Versions :
        packages'[u] = IF u = v THEN Append(packages[v], row) ELSE packages[u]
  OBVIOUS
<1>2. \A u \in Versions : Len(packages[u]) \in Nat
  BY LenProperties
<1>3. /\ Len(Append(packages[v], row)) = Len(packages[v]) + 1
      /\ \A n \in 1..Len(packages[v]) : Append(packages[v], row)[n] = packages[v][n]
      /\ Append(packages[v], row)[Len(packages[v]) + 1] = row
      /\ Append(packages[v], row) # << >>
  BY AppendProperties, <1>2
<1> QED
  BY <1>1, <1>2, <1>3 DEF HasPackage

LEMMA ContractsStep ==
  ASSUME TypeInv, desk = "contracts", ContractsHold, [Next]_vars
  PROVE  ContractsHold'
<1> DEFINE A == "HG_CONTRACT_PACKAGE_APPROVED"
           B == "HG_SIGNATURE_AUTHORITY_CONFIRMED"
           S == "HG_CONTRACTS_SIGNED"
           Rows == [state : ContractPackageState, content : Contents,
                    terms : Versions]
<1>g. A \in GateTypes /\ B \in GateTypes /\ S \in GateTypes /\ A # S /\ B # S /\ A # B
  BY GatesAssumption
<1>a. /\ CaseworkTypeOK /\ packages \in [Versions -> Seq(Rows)]
      /\ approvedAs \in [Versions -> 0..MaxPackages]
      /\ signedAs \in [Versions -> SUBSET (1..MaxPackages)]
      /\ \A r \in Requests : req[r].ver \in Versions /\ req[r].who \in People
      /\ caseVersion \in Versions /\ MaxPackages \in Nat
  BY Constants DEF TypeInv, TypeOK, ReqOK, CaseworkTypeOK, ContractsTypeOK
<1>l. \A v \in Versions : Len(packages[v]) \in Nat
  BY <1>a, LenProperties
<1>b. /\ \A v \in Versions : \A n \in signedAs[v] :
           n \in 1..Len(packages[v]) /\ packages[v][n].state = "READY_FOR_SIGNATURE"
      /\ \A r \in Requests : PackageFound(r)
      /\ SignedInOrder
  BY DEF ContractsHold
<1>k. ASSUME PackagesGrow, NEW q \in Requests, req'[q] = req[q]
      PROVE  PackageFound(q)'
  BY <1>a, <1>b, <1>k DEF PackageFound, PackagesGrow
<1>i. ASSUME NEW q \in Requests, req'[q].op \notin {"sign", "signed"}
      PROVE  PackageFound(q)'
  BY <1>i DEF PackageFound
\* While nothing is signed, it is enough that the rows grow.
<1>m. ASSUME PackagesGrow, UNCHANGED signedAs,
             \A v \in Versions :
               gate'[S][v] # Nobody => gate[S][v] # Nobody \/ signedAs[v] # {},
             \A q \in Requests : req'[q] = req[q] \/ PackageFound(q)'
      PROVE  ContractsHold'
  <2>1. \A v \in Versions : \A n \in signedAs'[v] :
          /\ n \in 1..Len(packages'[v])
          /\ packages'[v][n].state = "READY_FOR_SIGNATURE"
    BY <1>b, <1>l, <1>m DEF PackagesGrow
  <2>2. \A v \in Versions : \A n \in signedAs'[v] :
          /\ n > 1 /\ packages'[v][n].content = packages'[v][n - 1].content
          /\ n - 1 \notin signedAs'[v]
    <3> SUFFICES ASSUME NEW v \in Versions, NEW n \in signedAs[v]
                 PROVE  /\ n > 1
                        /\ packages'[v][n].content = packages'[v][n - 1].content
                        /\ n - 1 \notin signedAs[v]
      BY <1>m
    <3>1. /\ n \in 1..Len(packages[v]) /\ n > 1 /\ n - 1 \notin signedAs[v]
          /\ packages[v][n].content = packages[v][n - 1].content
      BY <1>b DEF SignedInOrder
    <3>2. n - 1 \in 1..Len(packages[v])
      BY <3>1, <1>l
    <3>3. packages'[v][n] = packages[v][n] /\ packages'[v][n - 1] = packages[v][n - 1]
      BY <1>m, <3>1, <3>2 DEF PackagesGrow
    <3> QED
      BY <3>1, <3>3
  <2>3. \A v \in Versions :
          /\ signedAs'[v] # {} =>
               PermitsContract(v)' /\ gate'[A][v] # Nobody /\ gate'[B][v] # Nobody
          /\ gate'[S][v] # Nobody => signedAs'[v] # {}
    BY <1>b, <1>m DEF PackagesGrow, SignedInOrder
  <2>4. \A q \in Requests : PackageFound(q)'
    BY <1>k, <1>m
  <2> QED
    BY <2>4, <2>1, <2>2, <2>3 DEF ContractsHold, SignedInOrder
<1>s. UNCHANGED packages => \A v \in Versions :
        /\ Len(packages'[v]) \in Nat /\ Len(packages'[v]) >= Len(packages[v])
        /\ \A n \in 1..Len(packages[v]) : packages'[v][n] = packages[v][n]
        /\ HasPackage(v) => HasPackage(v)'
  BY <1>l DEF HasPackage
<1>1. CASE Decide \/ Around \/ UNCHANGED vars
  <2>1. UNCHANGED <<gate, packages, signedAs>>
    BY <1>1, Elsewhere DEF contracting, contracts
  <2>2. PackagesGrow
    BY <1>1, <1>s, <2>1, Elsewhere DEF PackagesGrow
  <2> QED
    BY <1>1, <1>m, <1>i, <2>1, <2>2, Elsewhere
<1>2. ASSUME NEW r \in Requests, ContractsNext(r)
      PROVE  ContractsHold'
  <2>p. \A v \in Versions : PermitsContract(v)' <=> PermitsContract(v)
    BY <1>2 DEF ContractsNext, CheckPackage, CheckApprove, CheckAuthority,
                CheckSign, CheckRedline, CreatePackage, AddRedline, ApprovePackage,
                ConfirmAuthority, RecordSignature, ContractsSigned, decided, Permits,
                PermitsContract
  \* The checks.
  <2>0. ASSUME UNCHANGED <<gate, packages, signedAs>>
        PROVE  PackagesGrow
    BY <1>s, <2>p, <2>0 DEF PackagesGrow
  <2>1. ASSUME NEW op \in {"new_package", "authority", "redline", "approve_package"},
               NEW who, NEW x, Enter(r, op, who, caseVersion, x), UNCHANGED contracts
        PROVE  ContractsHold'
    <3>1. /\ req'[r].op = op /\ \A q \in Requests : q # r => req'[q] = req[q]
          /\ UNCHANGED <<gate, packages, signedAs>>
      BY <2>1, <1>a, Entered DEF contracts
    <3> QED
      BY <1>m, <1>i, <2>0, <3>1
  <2>2. CASE CheckPackage(r) \/ CheckAuthority(r) \/ CheckApprove(r)
               \/ \E c \in Redlines : CheckRedline(r, c)
    BY <2>1, <2>2
       DEF CheckPackage, CheckAuthority, CheckApprove, CheckRedline, BeginAny
  <2>3. CASE CheckSign(r)
    <3>1. /\ Enter(r, "sign", "OPS_CHECKER", caseVersion, Nobody)
          /\ UNCHANGED <<packages, signedAs>>
          /\ HasPackage(caseVersion) /\ PermitsContract(caseVersion)
          /\ gate[A][caseVersion] # Nobody /\ gate[B][caseVersion] # Nobody
      BY <2>3 DEF CheckSign, BeginAny, contracts, BothGates, GateSeen
    <3>2. /\ req'[r].op = "sign" /\ req'[r].ver = caseVersion
          /\ \A q \in Requests : q # r => req'[q] = req[q]
          /\ UNCHANGED gate
      BY <3>1, <1>a, Entered
    <3>3. PackageFound(r)'
      BY <1>a, <2>p, <3>1, <3>2 DEF PackageFound, HasPackage
    <3> QED
      BY <1>m, <2>0, <3>1, <3>2, <3>3
  \* The writes.
  <2>4. CASE CreatePackage(r)
    <3> DEFINE v == req[r].ver
               row == [state |-> "DRAFT", content |-> Rendered, terms |-> v]
    <3>1. /\ Done(r) /\ UNCHANGED <<gate, signedAs>> /\ v \in Versions
          /\ packages' = [packages EXCEPT ![v] =
                            IF packages[v] = << >> THEN <<row>> ELSE packages[v]]
      BY <2>4, <1>a DEF CreatePackage
    <3>2. \A u \in Versions :
            packages'[u] = IF u = v /\ packages[u] = << >> THEN <<row>> ELSE packages[u]
      <4> HIDE DEF v, row
      <4> QED
        BY <1>a, <3>1
    <3> HIDE DEF v, row
    <3>3. /\ Len(<<row>>) = 1 /\ <<row>> # << >> /\ Len(<< >>) = 0
      OBVIOUS
    <3>4. ASSUME NEW u \in Versions
          PROVE  /\ Len(packages'[u]) \in Nat /\ Len(packages'[u]) >= Len(packages[u])
                 /\ \A n \in 1..Len(packages[u]) : packages'[u][n] = packages[u][n]
                 /\ HasPackage(u) => HasPackage(u)'
      <4>1. CASE u = v /\ packages[u] = << >>
        BY <3>2, <3>3, <4>1 DEF HasPackage
      <4>2. CASE ~(u = v /\ packages[u] = << >>)
        BY <1>l, <3>2, <4>2 DEF HasPackage
      <4> QED
        BY <4>1, <4>2
    <3>5. PackagesGrow
      BY <2>p, <3>1, <3>4 DEF PackagesGrow
    <3> QED
      BY <1>a, <1>m, <1>i, <3>1, <3>5, Answered
  <2>5. ASSUME NEW v \in Versions, HasPackage(v)
        PROVE  Len(packages[v]) \in 1..Len(packages[v]) /\ Current(v) \in Rows
    <3> HIDE DEF Rows
    <3>1. packages[v] \in Seq(Rows) /\ packages[v] # << >>
      BY <1>a, <2>5 DEF HasPackage
    <3>2. Len(packages[v]) \in 1..Len(packages[v])
      BY <3>1, EmptySeq
    <3> QED
      BY <3>1, <3>2, ElementOfSeq DEF Current
  <2>6. CASE AddRedline(r)
    <3> DEFINE v == req[r].ver
    <3>1. Done(r) /\ UNCHANGED <<gate, signedAs>> /\ v \in Versions
      BY <2>6, <1>a DEF AddRedline
    <3>2. CASE HasPackage(v)
      <4> DEFINE row == [state |-> "REDLINED", content |-> req[r].arg,
                         terms |-> Current(v).terms]
      <4>1. row \in Rows
        <5>1. req[r].arg \in Contents
          BY <2>6 DEF AddRedline, Doing, TypeInv, ReqOK, ArgTyped, Contents
        <5> QED
          BY <2>5, <3>1, <3>2, <5>1 DEF ContractPackageState
      <4>2. packages' = [packages EXCEPT ![v] = Append(packages[v], row)]
        BY <2>6, <3>2 DEF AddRedline, Appended
      <4> HIDE DEF v, row, Rows
      <4>3. \A u \in Versions :
              /\ Len(packages'[u]) \in Nat /\ Len(packages'[u]) >= Len(packages[u])
              /\ \A n \in 1..Len(packages[u]) : packages'[u][n] = packages[u][n]
              /\ HasPackage(u) => HasPackage(u)'
        <5>1. \A u \in Versions :
                /\ Len(packages'[u]) = IF u = v THEN Len(packages[v]) + 1
                                                ELSE Len(packages[u])
                /\ \A n \in 1..Len(packages[u]) : packages'[u][n] = packages[u][n]
                /\ HasPackage(u) => HasPackage(u)'
          BY <1>a, <3>1, <4>1, <4>2, RowAppended
        <5> QED
          BY <1>l, <5>1
      <4>4. PackagesGrow
        BY <2>p, <3>1, <4>3 DEF PackagesGrow
      <4> QED
        BY <1>a, <1>m, <1>i, <3>1, <4>4, Answered
    <3>3. CASE ~HasPackage(v)
      BY <2>6, <2>0, <3>1, <3>3, <1>a, <1>m, <1>i, Answered DEF AddRedline
    <3> QED
      BY <3>2, <3>3
  <2>7. CASE ApprovePackage(r) \/ ConfirmAuthority(r)
    <3>1. /\ Done(r) /\ UNCHANGED <<packages, signedAs>>
          /\ \/ Satisfy(A, req[r].ver, req[r].who)
             \/ Satisfy(B, req[r].ver, req[r].who)
      BY <2>7 DEF ApprovePackage, ConfirmAuthority, contracts
    <3>2. \A g \in GateTypes, v \in Versions :
            /\ gate[g][v] # Nobody => gate'[g][v] # Nobody
            /\ gate'[g][v] # gate[g][v] => g \in {A, B}
      BY <1>a, <1>g, <3>1, SatisfyTypes
    <3>3. PackagesGrow
      BY <1>g, <1>s, <2>p, <3>1, <3>2 DEF PackagesGrow
    <3> QED
      BY <1>a, <1>g, <1>m, <1>i, <3>1, <3>2, <3>3, Answered
  <2>8. CASE ContractsSigned(r)
    <3>1. /\ Done(r) /\ UNCHANGED <<packages, signedAs>>
          /\ Satisfy(S, req[r].ver, req[r].who)
          /\ signedAs[req[r].ver] # {}
      BY <2>8, <1>b DEF ContractsSigned, contracts, Doing, PackageFound
    <3>2. \A g \in GateTypes, v \in Versions :
            /\ gate[g][v] # Nobody => gate'[g][v] # Nobody
            /\ gate'[g][v] # gate[g][v] => v = req[r].ver
      BY <1>a, <1>g, <3>1, SatisfyTypes
    <3>3. PackagesGrow
      BY <1>g, <1>s, <2>p, <3>1, <3>2 DEF PackagesGrow
    <3> QED
      BY <1>a, <1>g, <1>m, <1>i, <3>1, <3>2, <3>3, Answered
  <2>9. CASE RecordSignature(r)
    <3> DEFINE v == req[r].ver
               N == Len(packages[v]) + 1
               row == [state |-> "READY_FOR_SIGNATURE",
                       content |-> Current(v).content, terms |-> Current(v).terms]
    <3>1. /\ HasPackage(v) /\ PermitsContract(v) /\ v \in Versions
          /\ gate[A][v] # Nobody /\ gate[B][v] # Nobody /\ UNCHANGED gate
      BY <2>9, <1>a, <1>b DEF RecordSignature, Doing, PackageFound
    <3>2. CASE ~Signable(v)
      BY <2>9, <2>0, <3>1, <3>2, <1>a, <1>m, <1>i, Answered DEF RecordSignature
    <3>3. CASE Signable(v)
      <4>1. /\ packages' = [packages EXCEPT ![v] = Append(packages[v], row)]
            /\ signedAs' = [signedAs EXCEPT ![v] = signedAs[v] \cup {N}]
            /\ req' = [req EXCEPT ![r].op = "signed"]
        BY <2>9, <3>3 DEF RecordSignature, Appended
      <4>2. row \in Rows /\ Len(packages[v]) \in 1..Len(packages[v])
              /\ packages[v][Len(packages[v])].state # "READY_FOR_SIGNATURE"
        BY <2>5, <3>1, <3>3 DEF ContractPackageState, Signable, Current
      <4>3. Len(packages[v]) \notin signedAs[v]
        BY <1>b, <3>1, <4>2
      <4>4. /\ row.state = "READY_FOR_SIGNATURE"
            /\ row.content = packages[v][Len(packages[v])].content
        BY DEF Current
      <4>5. /\ req'[r].op = "signed" /\ req'[r].ver = v
            /\ \A q \in Requests : q # r => req'[q] = req[q]
        <5>1. req[r] = [op |-> req[r].op, who |-> req[r].who, ver |-> req[r].ver,
                        arg |-> req[r].arg]
          BY DEF TypeInv, ReqOK, ReqShape
        <5>2. /\ [req[r] EXCEPT !.op = "signed"].op = "signed"
              /\ [req[r] EXCEPT !.op = "signed"].ver = req[r].ver
          BY <5>1
        <5> QED
          BY <1>a, <4>1, <5>2 DEF CaseworkTypeOK
      <4> HIDE DEF v, row, Rows
      <4>6. /\ \A u \in Versions :
                 /\ Len(packages'[u]) = IF u = v THEN N ELSE Len(packages[u])
                 /\ \A n \in 1..Len(packages[u]) : packages'[u][n] = packages[u][n]
                 /\ HasPackage(u) => HasPackage(u)'
            /\ packages'[v][N] = row
        BY <1>a, <3>1, <4>1, <4>2, RowAppended
      <4>7. \A u \in Versions :
              signedAs'[u] = IF u = v THEN signedAs[u] \cup {N} ELSE signedAs[u]
        <5> HIDE DEF N
        <5> QED
          BY <1>a, <3>1, <4>1
      <4>8. PackagesGrow
        <5>1. N \in Nat /\ N >= Len(packages[v])
          BY <1>l, <3>1
        <5> HIDE DEF N
        <5>2. \A u \in Versions :
                Len(packages'[u]) \in Nat /\ Len(packages'[u]) >= Len(packages[u])
          BY <1>l, <4>6, <5>1
        <5>3. \A u \in Versions : signedAs[u] \subseteq signedAs'[u]
          BY <4>7
        <5>4. \A u \in Versions : \A n \in 1..Len(packages[u]) :
                packages'[u][n] = packages[u][n]
          BY <4>6
        <5>5. \A u \in Versions : HasPackage(u) => HasPackage(u)'
          BY <4>6
        <5> QED
          BY <2>p, <3>1, <5>2, <5>3, <5>4, <5>5 DEF PackagesGrow
      <4>9. \A u \in Versions : \A n \in signedAs'[u] :
              /\ n \in 1..Len(packages'[u])
              /\ packages'[u][n].state = "READY_FOR_SIGNATURE"
              /\ n > 1 /\ packages'[u][n].content = packages'[u][n - 1].content
              /\ n - 1 \notin signedAs'[u]
        <5> SUFFICES ASSUME NEW u \in Versions, NEW n \in signedAs'[u]
                     PROVE  /\ n \in 1..Len(packages'[u])
                            /\ packages'[u][n].state = "READY_FOR_SIGNATURE"
                            /\ n > 1
                            /\ packages'[u][n].content = packages'[u][n - 1].content
                            /\ n - 1 \notin signedAs'[u]
          OBVIOUS
        <5>1. CASE n \in signedAs[u]
          <6>1. /\ n \in 1..Len(packages[u]) /\ n > 1 /\ n - 1 \notin signedAs[u]
                /\ packages[u][n].content = packages[u][n - 1].content
                /\ packages[u][n].state = "READY_FOR_SIGNATURE"
            BY <1>b, <5>1 DEF SignedInOrder
          <6>2. n - 1 \in 1..Len(packages[u]) /\ (u = v => n - 1 # N)
            BY <1>l, <6>1
          <6>3. /\ packages'[u][n] = packages[u][n]
                /\ packages'[u][n - 1] = packages[u][n - 1]
            BY <4>6, <6>1, <6>2
          <6>4. n - 1 \notin signedAs'[u]
            BY <4>7, <6>1, <6>2
          <6>5. n \in 1..Len(packages'[u])
            BY <1>l, <4>6, <6>1
          <6> QED
            BY <6>1, <6>3, <6>4, <6>5
        <5>2. CASE n \notin signedAs[u]
          <6>1. u = v /\ n = N
            BY <4>7, <5>2
          <6>2. n - 1 = Len(packages[v]) /\ n > 1 /\ n \in 1..N /\ n - 1 # N
            BY <1>l, <3>1, <4>2, <6>1
          <6>3. packages'[v][Len(packages[v])] = packages[v][Len(packages[v])]
            BY <3>1, <4>2, <4>6
          <6>4. n - 1 \notin signedAs'[u]
            BY <3>1, <4>3, <4>7, <6>1, <6>2
          <6>5. Len(packages'[u]) = N
            BY <3>1, <4>6, <6>1
          <6> QED
            BY <4>4, <4>6, <6>4, <6>5, <6>1, <6>2, <6>3
        <5> QED
          BY <5>1, <5>2
      <4>10. \A u \in Versions :
               /\ signedAs'[u] # {} =>
                    PermitsContract(u)' /\ gate'[A][u] # Nobody /\ gate'[B][u] # Nobody
               /\ gate'[S][u] # Nobody => signedAs'[u] # {}
        BY <1>b, <2>p, <3>1, <4>7 DEF SignedInOrder
      <4>11. PackageFound(r)'
        BY <3>1, <4>5, <4>7 DEF PackageFound
      <4>12. \A q \in Requests : PackageFound(q)'
        BY <1>k, <4>5, <4>8, <4>11
      <4> QED
        BY <4>9, <4>10, <4>12 DEF ContractsHold, SignedInOrder
    <3> QED
      BY <3>2, <3>3
  <2> QED
    BY <1>2, <2>2, <2>3, <2>4, <2>6, <2>7, <2>8, <2>9 DEF ContractsNext
<1> QED
  BY <1>1, <1>2
     DEF Next, Notify, WorkOnConditions, Secure, Contract, Monitor, Collect, Settle,
         Recover

(****************************************************************************)
(* Monitoring.                                                              *)
(****************************************************************************)
\* The statuses of an alert: OPEN, then those of its trail.
LEMMA PathOf ==
  ASSUME NEW t \in Seq(AlertStatus)
  PROVE  LET path == <<"OPEN">> \o t IN
         /\ Len(t) \in Nat /\ Len(path) = Len(t) + 1 /\ path[1] = "OPEN"
         /\ \A n \in 1..Len(t) : path[n + 1] = t[n]
         /\ path[Len(path)] \in AlertStatus
<1> DEFINE path == <<"OPEN">> \o t
<1>0. Len(t) \in Nat /\ "OPEN" \in AlertStatus
  BY LenProperties DEF AlertStatus
<1>1. <<"OPEN">> \in Seq(AlertStatus) /\ Len(<<"OPEN">>) = 1 /\ <<"OPEN">>[1] = "OPEN"
  BY <1>0
<1> HIDE DEF path
<1>2. /\ path \in Seq(AlertStatus) /\ Len(path) = 1 + Len(t)
      /\ \A i \in 1..(1 + Len(t)) :
           path[i] = IF i <= 1 THEN <<"OPEN">>[i] ELSE t[i - 1]
  BY <1>1, ConcatProperties DEF path
<1>3. path[1] = "OPEN"
  BY <1>0, <1>1, <1>2
<1>4. \A n \in 1..Len(t) : path[n + 1] = t[n]
  <2> SUFFICES ASSUME NEW n \in 1..Len(t) PROVE path[n + 1] = t[n]
    OBVIOUS
  <2>1. n + 1 \in 1..(1 + Len(t)) /\ ~(n + 1 <= 1) /\ (n + 1) - 1 = n
    BY <1>0
  <2> QED
    BY <1>2, <2>1
<1>5. path[Len(path)] \in AlertStatus
  <2>1. Len(path) \in 1..Len(path)
    BY <1>0, <1>2
  <2> QED
    BY <1>2, <2>1, ElementOfSeq
<1> QED
  BY <1>0, <1>2, <1>3, <1>4, <1>5 DEF path

Fired == ({"due"} \X late) \cup ({"test"} \X failed)
AlertAccounted(s) ==
  LET path == <<"OPEN">> \o trail[s] IN
  IF s \in Fired
    THEN /\ alert[s] = path[Len(path)]
         /\ \A n \in 1..Len(trail[s]) :
              path[n + 1] \in ALLOWED_ALERT_TRANSITIONS(path[n])
    ELSE alert[s] = "NONE" /\ trail[s] = << >>

LEMMA MonitoringStep ==
  ASSUME TypeInv, desk = "monitoring", AlertsAccounted, [Next]_vars
  PROVE  AlertsAccounted'
<1>a. /\ alert \in [AlertSources -> AlertStatus \cup {"NONE"}]
      /\ trail \in [AlertSources -> Seq(AlertStatus)]
      /\ \A r \in Requests : ArgTyped(req[r].op, req[r].who, req[r].arg)
  BY DEF TypeInv, TypeOK, MonitoringTypeOK, ReqOK
<1>b. \A s \in AlertSources : AlertAccounted(s)
  BY DEF AlertsAccounted, AlertAccounted, Fired
<1>c. ASSUME \A s \in AlertSources : AlertAccounted(s)'
      PROVE  AlertsAccounted'
  BY <1>c DEF AlertsAccounted, AlertAccounted, Fired
<1>s. ASSUME UNCHANGED <<late, failed, alert, trail>>
      PROVE  AlertsAccounted'
  BY <1>s DEF AlertsAccounted
\* A source has fired, for the first time or again.
<1>f. ASSUME NEW s \in AlertSources, Fired' = Fired \cup {s}, UNCHANGED trail,
             alert' = Raised(s)
      PROVE  AlertsAccounted'
  <2>1. \A u \in AlertSources : alert'[u] =
          IF u = s /\ alert[u] = "NONE" THEN "OPEN" ELSE alert[u]
    BY <1>a, <1>f DEF Raised
  <2>2. ASSUME NEW u \in AlertSources, u # s
        PROVE  AlertAccounted(u)'
    <3>1. (u \in Fired') <=> (u \in Fired)
      BY <1>f, <2>2
    <3>2. alert'[u] = alert[u] /\ trail'[u] = trail[u] /\ AlertAccounted(u)
      BY <1>b, <1>f, <2>1, <2>2
    <3> QED
      BY <3>1, <3>2 DEF AlertAccounted
  <2>3. AlertAccounted(s)'
    <3> DEFINE path == <<"OPEN">> \o trail[s]
    <3>0. s \in Fired' /\ trail' = trail
      BY <1>f
    <3>1. trail[s] \in Seq(AlertStatus)
      BY <1>a
    <3>2. /\ Len(trail[s]) \in Nat /\ Len(path) = Len(trail[s]) + 1 /\ path[1] = "OPEN"
          /\ path[Len(path)] \in AlertStatus
      BY <3>1, PathOf
    <3>3. CASE s \in Fired
      <4>1. /\ alert[s] = path[Len(path)]
            /\ \A n \in 1..Len(trail[s]) :
                 path[n + 1] \in ALLOWED_ALERT_TRANSITIONS(path[n])
        BY <1>b, <3>3 DEF AlertAccounted
      <4>2. alert'[s] = alert[s]
        BY <2>1, <3>2, <4>1 DEF AlertStatus
      <4> QED
        BY <3>0, <4>1, <4>2 DEF AlertAccounted
    <3>4. CASE s \notin Fired
      <4>1. alert[s] = "NONE" /\ trail[s] = << >>
        BY <1>b, <3>4 DEF AlertAccounted
      <4>2. Len(trail[s]) = 0 /\ alert'[s] = "OPEN" /\ Len(path) = 1
        BY <2>1, <3>2, <4>1
      <4> QED
        BY <3>0, <3>2, <4>2 DEF AlertAccounted
    <3> QED
      BY <3>3, <3>4
  <2> QED
    BY <1>c, <2>2, <2>3
<1>1. CASE Decide \/ Around \/ UNCHANGED vars
  BY <1>1, <1>s, Elsewhere DEF servicing, watching
<1>2. CASE MonitoringNext
  <2>1. ASSUME NEW v, NEW o \in ObligationIds, NEW d, RecordObservation(v, o, d)
        PROVE  AlertsAccounted'
    <3>1. CASE RaisesOverdue(v, o, d)
      <4>1. /\ late' = late \cup {o} /\ alert' = Raised(<<"due", o>>)
            /\ UNCHANGED <<failed, trail>>
        BY <2>1, <3>1 DEF RecordObservation
      <4>2. Fired' = Fired \cup {<<"due", o>>}
        BY <4>1 DEF Fired
      <4>3. <<"due", o>> \in AlertSources
        BY DEF AlertSources
      <4> QED
        BY <1>f, <4>1, <4>2, <4>3
    <3>2. CASE ~RaisesOverdue(v, o, d)
      BY <1>s, <2>1, <3>2 DEF RecordObservation
    <3> QED
      BY <3>1, <3>2
  <2>2. ASSUME NEW v, NEW t \in TestIds, NEW n, NEW d, RecordCovenantTest(v, t, n, d)
        PROVE  AlertsAccounted'
    <3>1. CASE ~Passes(n, d)
      <4>1. /\ failed' = failed \cup {t} /\ alert' = Raised(<<"test", t>>)
            /\ UNCHANGED <<late, trail>>
        BY <2>2, <3>1 DEF RecordCovenantTest
      <4>2. Fired' = Fired \cup {<<"test", t>>}
        BY <4>1 DEF Fired
      <4>3. <<"test", t>> \in AlertSources
        BY DEF AlertSources
      <4> QED
        BY <1>f, <4>1, <4>2, <4>3
    <3>2. CASE Passes(n, d)
      BY <1>s, <2>2, <3>2 DEF RecordCovenantTest
    <3> QED
      BY <3>1, <3>2
  <2>3. ASSUME NEW r \in Requests, DisposeAlert(r)
        PROVE  AlertsAccounted'
    <3>0. PICK s \in AlertSources, to \in AlertStatus :
            s = req[r].arg.source /\ to = req[r].arg.to /\ UNCHANGED <<late, failed>>
      BY <1>a, <2>3 DEF DisposeAlert, Doing, ArgTyped
    <3>1. CASE ~StillDisposable(s, to)
      BY <1>s, <2>3, <3>0, <3>1 DEF DisposeAlert
    <3>2. CASE StillDisposable(s, to)
      <4>1. /\ alert' = [alert EXCEPT ![s] = to]
            /\ trail' = [trail EXCEPT ![s] = Append(trail[s], to)]
            /\ to \in ALLOWED_ALERT_TRANSITIONS(alert[s])
        BY <2>3, <3>0, <3>2 DEF DisposeAlert, StillDisposable
      <4>2. /\ \A u \in AlertSources : u # s => alert'[u] = alert[u] /\ trail'[u] = trail[u]
            /\ alert'[s] = to /\ trail'[s] = Append(trail[s], to)
        BY <1>a, <3>0, <4>1
      <4>3. Fired' = Fired
        BY <3>0 DEF Fired
      <4>4. ASSUME NEW u \in AlertSources, u # s
            PROVE  AlertAccounted(u)'
        <5>1. alert'[u] = alert[u] /\ trail'[u] = trail[u] /\ AlertAccounted(u)
          BY <1>b, <4>2, <4>4
        <5> QED
          BY <4>3, <5>1 DEF AlertAccounted
      <4>5. AlertAccounted(s)'
        <5> DEFINE t == trail[s]
                   u == Append(trail[s], to)
                   path == <<"OPEN">> \o t
                   more == <<"OPEN">> \o u
        <5>1. /\ t \in Seq(AlertStatus) /\ u \in Seq(AlertStatus)
              /\ Len(u) = Len(t) + 1 /\ u[Len(t) + 1] = to
              /\ \A n \in 1..Len(t) : u[n] = t[n]
          <6>1. t \in Seq(AlertStatus)
            BY <1>a, <3>0
          <6>2. Len(t) \in Nat
            BY <6>1, LenProperties
          <6> HIDE DEF t
          <6>3. /\ Append(t, to) \in Seq(AlertStatus)
                /\ Len(Append(t, to)) = Len(t) + 1
                /\ Append(t, to)[Len(t) + 1] = to
                /\ \A n \in 1..Len(t) : Append(t, to)[n] = t[n]
            BY <3>0, <6>1, <6>2, AppendProperties
          <6> QED
            BY <6>1, <6>3 DEF t
        <5>2. s \in Fired
          BY <1>b, <3>0, <4>1 DEF AlertAccounted, ALLOWED_ALERT_TRANSITIONS
        <5>3. /\ alert[s] = path[Len(path)]
              /\ \A n \in 1..Len(t) :
                   path[n + 1] \in ALLOWED_ALERT_TRANSITIONS(path[n])
          BY <1>b, <3>0, <5>2 DEF AlertAccounted
        <5> HIDE DEF t, u
        <5>4. /\ Len(t) \in Nat /\ Len(path) = Len(t) + 1 /\ path[1] = "OPEN"
              /\ \A n \in 1..Len(t) : path[n + 1] = t[n]
          BY <5>1, PathOf
        <5>5. /\ Len(more) = Len(u) + 1 /\ more[1] = "OPEN"
              /\ \A n \in 1..Len(u) : more[n + 1] = u[n]
          BY <5>1, PathOf
        <5> HIDE DEF path, more
        <5>6. \A n \in 1..(Len(t) + 1) : more[n] = path[n]
          <6> SUFFICES ASSUME NEW n \in 1..(Len(t) + 1) PROVE more[n] = path[n]
            OBVIOUS
          <6>1. CASE n = 1
            BY <5>4, <5>5, <6>1
          <6>2. CASE n # 1
            <7>1. n - 1 \in 1..Len(t) /\ n - 1 \in 1..Len(u) /\ (n - 1) + 1 = n
              BY <5>1, <5>4, <6>2
            <7> QED
              BY <5>1, <5>4, <5>5, <7>1
          <6> QED
            BY <6>1, <6>2
        <5>7. more[Len(more)] = to
          BY <5>1, <5>4, <5>5
        <5>8. \A n \in 1..Len(u) : more[n + 1] \in ALLOWED_ALERT_TRANSITIONS(more[n])
          <6> SUFFICES ASSUME NEW n \in 1..Len(u)
                       PROVE  more[n + 1] \in ALLOWED_ALERT_TRANSITIONS(more[n])
            OBVIOUS
          <6>1. CASE n \in 1..Len(t)
            <7>1. n + 1 \in 1..(Len(t) + 1) /\ n \in 1..(Len(t) + 1)
              BY <5>4, <6>1
            <7> QED
              BY <5>3, <5>6, <6>1, <7>1
          <6>2. CASE n = Len(t) + 1
            <7>1. more[n] = alert[s] /\ more[n + 1] = to
              BY <5>1, <5>3, <5>4, <5>5, <5>6, <5>7, <6>2
            <7> QED
              BY <4>1, <7>1
          <6> QED
            BY <5>1, <5>4, <6>1, <6>2
        <5>9. trail'[s] = u /\ s \in Fired' /\ alert'[s] = to
          BY <4>2, <4>3, <5>2 DEF u
        <5> QED
          BY <5>7, <5>8, <5>9 DEF AlertAccounted, more
      <4> QED
        BY <1>c, <4>4, <4>5
    <3> QED
      BY <3>1, <3>2
  <2>4. ASSUME NEW r \in Requests, NEW s, NEW to, CheckDisposition(r, s, to)
        PROVE  AlertsAccounted'
    BY <1>s, <2>4 DEF CheckDisposition, watching
  <2>5. ASSUME NEW v, NEW a, NEW f, NEW n, CreateObligations(v, a, f, n)
        PROVE  AlertsAccounted'
    BY <1>s, <2>5 DEF CreateObligations
  <2>6. ASSUME NEW v, NEW op, NEW t, CreateCovenant(v, op, t)
        PROVE  AlertsAccounted'
    BY <1>s, <2>6 DEF CreateCovenant
  <2> QED
    BY <1>2, <2>4, <2>5, <2>6, <2>1, <2>2, <2>3 DEF MonitoringNext
<1> QED
  BY <1>1, <1>2
     DEF Next, Notify, WorkOnConditions, Secure, Contract, Monitor, Collect, Settle,
         Recover

(****************************************************************************)
(* Settlement and recovery.                                                 *)
(****************************************************************************)
\* Checks and receipts: whatever is there stays.
ClosingGrows ==
  \A v \in Versions :
    /\ Len(checks'[v]) \in Nat /\ Len(checks'[v]) >= Len(checks[v])
    /\ \A n \in 1..Len(checks[v]) : checks'[v][n] = checks[v][n]
    /\ \A n \in 1..MaxChecks, k \in SettlementReceiptKind :
         receipts[v][n][k] # Nobody => receipts'[v][n][k] # Nobody

LEMMA SettlementStep ==
  ASSUME TypeInv, desk = "settlement", SettlementHolds, [Next]_vars
  PROVE  SettlementHolds'
<1> DEFINE G == "HG_SETTLEMENT_CONFIRMED"
           Clean == [outstanding |-> 0, exceptions |-> 0]
           Row == [outstanding : Nat, exceptions : Nat]
<1>a. /\ CaseworkTypeOK /\ G \in GateTypes /\ Nobody \notin Actors
      /\ checks \in [Versions -> Seq(Row)]
      /\ \A v \in Versions : Len(checks[v]) <= MaxChecks
      /\ receipts \in [Versions ->
           [1..MaxChecks -> [SettlementReceiptKind -> Actors \cup {Nobody}]]]
      /\ settledOn \in [Versions -> 0..MaxChecks]
      /\ \A r \in Requests : req[r].ver \in Versions /\ req[r].who \in People
      /\ \A r \in Requests : ArgTyped(req[r].op, req[r].who, req[r].arg)
      /\ caseVersion \in Versions /\ MaxChecks \in Nat
  BY GatesAssumption, Constants
     DEF TypeInv, TypeOK, ReqOK, CaseworkTypeOK, ClosingTypeOK
<1>l. \A v \in Versions : Len(checks[v]) \in Nat
  BY <1>a, LenProperties
<1>b. /\ \A v \in Versions : \A n \in 1..Len(checks[v]) : checks[v][n] = Clean
      /\ \A v \in Versions : gate[G][v] # Nobody <=> settledOn[v] # 0
      /\ \A r \in Requests : CheckFound(r)
      /\ \A v \in Versions : gate[G][v] # Nobody =>
           /\ settledOn[v] \in 1..Len(checks[v])
           /\ \A k \in SettlementReceiptKind : receipts[v][settledOn[v]][k] # Nobody
      /\ \A v \in Versions : \A n \in 1..MaxChecks : \A k, l \in SettlementReceiptKind :
           /\ receipts[v][n][k] = receipts[v][n][l]
           /\ receipts[v][n][k] # Nobody => n <= Len(checks[v])
  BY DEF SettlementHolds, SettledClean
<1>c. ASSUME \A v \in Versions : \A n \in 1..Len(checks'[v]) : checks'[v][n] = Clean,
             \A v \in Versions : gate'[G][v] # Nobody <=> settledOn'[v] # 0,
             \A r \in Requests : CheckFound(r)',
             \A v \in Versions : gate'[G][v] # Nobody =>
               /\ settledOn'[v] \in 1..Len(checks'[v])
               /\ \A k \in SettlementReceiptKind :
                    receipts'[v][settledOn'[v]][k] # Nobody,
             \A v \in Versions : \A n \in 1..MaxChecks :
               \A k, l \in SettlementReceiptKind :
                 /\ receipts'[v][n][k] = receipts'[v][n][l]
                 /\ receipts'[v][n][k] # Nobody => n <= Len(checks'[v])
      PROVE  SettlementHolds'
  BY <1>c DEF SettlementHolds, SettledClean
<1>k. ASSUME ClosingGrows, NEW q \in Requests, req'[q] = req[q]
      PROVE  CheckFound(q)'
  <2>1. CheckFound(q) /\ req[q].ver \in Versions
          /\ (req[q].op \in {"settle", "settle_gate"} => req[q].arg.check \in 1..MaxChecks)
    BY <1>a, <1>b DEF ArgTyped
  <2> QED
    BY <1>k, <1>l, <2>1 DEF CheckFound, ClosingGrows
<1>i. ASSUME NEW q \in Requests, req'[q].op \notin {"settle", "settle_gate"}
      PROVE  CheckFound(q)'
  BY <1>i DEF CheckFound
\* What is confirmed stays confirmed.
<1>g. ASSUME ClosingGrows, NEW v \in Versions, UNCHANGED <<gate, settledOn>>,
             gate'[G][v] # Nobody
      PROVE  /\ settledOn'[v] \in 1..Len(checks'[v])
             /\ \A k \in SettlementReceiptKind :
                  receipts'[v][settledOn'[v]][k] # Nobody
  <2>1. /\ settledOn[v] \in 1..Len(checks[v])
        /\ \A k \in SettlementReceiptKind : receipts[v][settledOn[v]][k] # Nobody
    BY <1>b, <1>g
  <2>2. settledOn[v] \in 1..MaxChecks /\ settledOn[v] \in 1..Len(checks'[v])
    BY <1>a, <1>g, <1>l, <2>1 DEF ClosingGrows
  <2> QED
    BY <1>g, <2>1, <2>2 DEF ClosingGrows
<1>s. UNCHANGED <<checks, receipts>> => ClosingGrows
  BY <1>l DEF ClosingGrows
<1>m. ASSUME UNCHANGED <<gate, checks, receipts, settledOn>>,
             \A q \in Requests : req'[q] = req[q] \/ CheckFound(q)'
      PROVE  SettlementHolds'
  <2>1. \A q \in Requests : CheckFound(q)'
    BY <1>k, <1>m, <1>s
  <2> QED
    BY <1>b, <1>c, <1>m, <2>1
<1>1. CASE Decide \/ Around \/ UNCHANGED vars
  BY <1>1, <1>m, <1>i, Elsewhere DEF servicing, closing
<1>2. ASSUME NEW v \in VersionRead, NEW o \in 0..1, NEW e \in 0..1, RecordCheck(v, o, e)
      PROVE  SettlementHolds'
  <2>0. v \in Versions
    BY <1>a, Constants DEF VersionRead
  <2>1. /\ checks' = [checks EXCEPT ![v] = Append(checks[v], Clean)]
        /\ UNCHANGED <<casework, receipts, settledOn>>
    BY <1>2 DEF RecordCheck, Eligible, NewCheck
  <2> HIDE DEF Clean
  <2>2. /\ Append(checks[v], Clean) \in Seq(Row)
        /\ Len(Append(checks[v], Clean)) = Len(checks[v]) + 1
        /\ \A n \in 1..Len(checks[v]) : Append(checks[v], Clean)[n] = checks[v][n]
        /\ Append(checks[v], Clean)[Len(checks[v]) + 1] = Clean
    <3>1. Clean \in Row
      BY DEF Clean
    <3> QED
      BY <1>a, <1>l, <2>0, <3>1, AppendProperties
  <2>3. \A u \in Versions :
          checks'[u] = IF u = v THEN Append(checks[v], Clean) ELSE checks[u]
    BY <1>a, <2>0, <2>1
  <2>4. ASSUME NEW u \in Versions
        PROVE  /\ Len(checks'[u]) \in Nat /\ Len(checks'[u]) >= Len(checks[u])
               /\ \A n \in 1..Len(checks[u]) : checks'[u][n] = checks[u][n]
               /\ \A n \in 1..Len(checks'[u]) : checks'[u][n] = Clean
    <3>1. CASE u # v
      BY <1>b, <1>l, <2>3, <3>1
    <3>2. CASE u = v
      <4>1. checks'[u] = Append(checks[v], Clean) /\ Len(checks[v]) \in Nat
        BY <1>l, <2>0, <2>3, <3>2
      <4>2. \A n \in 1..(Len(checks[v]) + 1) :
              n \in 1..Len(checks[v]) \/ n = Len(checks[v]) + 1
        BY <4>1
      <4> QED
        BY <1>b, <2>0, <2>2, <3>2, <4>1, <4>2 DEF Clean
    <3> QED
      BY <3>1, <3>2
  <2>5. ClosingGrows
    BY <2>1, <2>4 DEF ClosingGrows
  <2>6. UNCHANGED <<gate, req>>
    BY <2>1 DEF casework
  <2>7. \A u \in Versions : \A n \in 1..MaxChecks : \A k, l \in SettlementReceiptKind :
          /\ receipts'[u][n][k] = receipts'[u][n][l]
          /\ receipts'[u][n][k] # Nobody => n <= Len(checks'[u])
    BY <1>b, <1>l, <2>1, <2>4
  <2>8. \A q \in Requests : CheckFound(q)'
    BY <1>k, <2>5, <2>6
  <2>9. \A u \in Versions : gate'[G][u] # Nobody =>
          /\ settledOn'[u] \in 1..Len(checks'[u])
          /\ \A k \in SettlementReceiptKind : receipts'[u][settledOn'[u]][k] # Nobody
    BY <1>g, <2>1, <2>5, <2>6
  <2> QED
    BY <1>b, <1>c, <2>1, <2>4, <2>6, <2>7, <2>8, <2>9
<1>3. ASSUME NEW r \in Requests, NEW a \in Actors, CheckSettlement(r, a)
      PROVE  SettlementHolds'
  <2> DEFINE n == LatestCheck(caseVersion)
  <2>1. /\ Enter(r, "settle", a, caseVersion, [check |-> n]) /\ n > 0
        /\ UNCHANGED <<checks, receipts, settledOn>>
    BY <1>3 DEF CheckSettlement, Begin, closing
  <2>2. /\ req'[r].op = "settle" /\ req'[r].ver = caseVersion /\ req'[r].arg.check = n
        /\ \A q \in Requests : q # r => req'[q] = req[q]
        /\ UNCHANGED gate
    BY <1>a, <2>1, Entered
  <2>3. CheckFound(r)'
    BY <1>a, <1>l, <2>1, <2>2 DEF CheckFound, LatestCheck
  <2> QED
    BY <1>m, <2>1, <2>2, <2>3
<1>4. ASSUME NEW r \in Requests, RecordReceipts(r)
      PROVE  SettlementHolds'
  <2>0. PICK v \in Versions, n \in 1..MaxChecks, a \in Actors :
          v = req[r].ver /\ n = req[r].arg.check /\ a = req[r].who /\ Doing(r, "settle")
    BY <1>a, <1>4 DEF RecordReceipts, Doing, ArgTyped
  <2> DEFINE new == [k \in SettlementReceiptKind |->
                       IF receipts[v][n][k] = Nobody THEN a ELSE receipts[v][n][k]]
  <2>1. /\ receipts' = [receipts EXCEPT ![v][n] = new]
        /\ req' = [req EXCEPT ![r].op = "settle_gate"]
        /\ UNCHANGED <<gate, checks, settledOn>>
        /\ n <= Len(checks[v])
    <3>1. CheckFound(r) /\ Len(checks[v]) \in Nat
      BY <1>b, <1>l
    <3>2. n \in 1..Len(checks[v])
      BY <2>0, <3>1 DEF Doing, CheckFound
    <3>3. n <= Len(checks[v])
      BY <3>1, <3>2
    <3>4. /\ receipts' = [receipts EXCEPT ![v][n] = new]
          /\ req' = [req EXCEPT ![r].op = "settle_gate"]
          /\ UNCHANGED <<gate, checks, settledOn>>
      BY <1>4, <2>0 DEF RecordReceipts
    <3> QED
      BY <3>3, <3>4
  <2>2. \A k, l \in SettlementReceiptKind : new[k] # Nobody /\ new[k] = new[l]
    <3>1. a # Nobody
      BY <1>a
    <3>2. \A k, l \in SettlementReceiptKind : receipts[v][n][k] = receipts[v][n][l]
      BY <1>b
    <3> QED
      BY <3>1, <3>2
  <2> HIDE DEF new
  <2>3. \A u \in Versions, m \in 1..MaxChecks :
          receipts'[u][m] = IF u = v /\ m = n THEN new ELSE receipts[u][m]
    BY <1>a, <2>1
  <2>4. ClosingGrows
    BY <1>l, <2>1, <2>2, <2>3 DEF ClosingGrows
  <2>5. \A u \in Versions : \A m \in 1..MaxChecks : \A k, l \in SettlementReceiptKind :
          /\ receipts'[u][m][k] = receipts'[u][m][l]
          /\ receipts'[u][m][k] # Nobody => m <= Len(checks'[u])
    BY <1>b, <2>1, <2>2, <2>3
  <2>6. /\ req'[r].op = "settle_gate" /\ req'[r].ver = v /\ req'[r].arg.check = n
        /\ \A q \in Requests : q # r => req'[q] = req[q]
    <3>1. req[r] = [op |-> req[r].op, who |-> req[r].who, ver |-> req[r].ver,
                    arg |-> req[r].arg]
      BY DEF TypeInv, ReqOK, ReqShape
    <3>2. /\ [req[r] EXCEPT !.op = "settle_gate"].op = "settle_gate"
          /\ [req[r] EXCEPT !.op = "settle_gate"].ver = req[r].ver
          /\ [req[r] EXCEPT !.op = "settle_gate"].arg = req[r].arg
      BY <3>1
    <3> QED
      BY <1>a, <2>0, <2>1, <3>2 DEF CaseworkTypeOK
  <2>7. CheckFound(r)'
    BY <1>l, <2>1, <2>2, <2>3, <2>6 DEF CheckFound
  <2>8. \A q \in Requests : CheckFound(q)'
    BY <1>k, <2>4, <2>6, <2>7
  <2>9. \A u \in Versions : gate'[G][u] # Nobody =>
          /\ settledOn'[u] \in 1..Len(checks'[u])
          /\ \A k \in SettlementReceiptKind : receipts'[u][settledOn'[u]][k] # Nobody
    BY <1>g, <2>1, <2>4
  <2> QED
    BY <1>b, <1>c, <2>1, <2>5, <2>8, <2>9
<1>5. ASSUME NEW r \in Requests, ConfirmSettlement(r)
      PROVE  SettlementHolds'
  <2>0. PICK v \in Versions, n \in 1..MaxChecks, a \in Actors :
          /\ v = req[r].ver /\ n = req[r].arg.check /\ a = req[r].who
          /\ Doing(r, "settle_gate")
    BY <1>a, <1>5 DEF ConfirmSettlement, Doing, ArgTyped
  <2>1. /\ Satisfy(G, v, a) /\ Done(r) /\ UNCHANGED <<checks, receipts>>
        /\ settledOn' = [settledOn EXCEPT ![v] = IF settledOn[v] = 0 THEN n
                                                                   ELSE settledOn[v]]
    BY <1>5, <2>0 DEF ConfirmSettlement
  <2>2. /\ n \in 1..Len(checks[v])
        /\ \A k \in SettlementReceiptKind : receipts[v][n][k] # Nobody
    BY <1>b, <2>0 DEF Doing, CheckFound
  <2>3. \A u \in Versions : gate'[G][u] =
          IF u = v /\ gate[G][u] = Nobody THEN a ELSE gate[G][u]
    BY <1>a, <2>1 DEF Satisfy, CaseworkTypeOK
  <2>4. \A u \in Versions :
          settledOn'[u] = IF u = v /\ settledOn[u] = 0 THEN n ELSE settledOn[u]
    BY <1>a, <2>1
  <2>5. n # 0 /\ a # Nobody
    BY <1>a
  <2>6. \A u \in Versions : gate'[G][u] # Nobody <=> settledOn'[u] # 0
    BY <1>b, <2>3, <2>4, <2>5
  <2>7. \A u \in Versions : gate'[G][u] # Nobody =>
          /\ settledOn'[u] \in 1..Len(checks'[u])
          /\ \A k \in SettlementReceiptKind : receipts'[u][settledOn'[u]][k] # Nobody
    BY <1>b, <2>4, <2>1, <2>2, <2>3
  <2>8. \A q \in Requests : CheckFound(q)'
    BY <1>a, <1>k, <1>s, <1>i, <2>1, Answered
  <2> QED
    BY <1>b, <1>c, <2>1, <2>6, <2>7, <2>8
<1> QED
  BY <1>4, <1>5, <1>1, <1>2, <1>3
     DEF Next, Notify, WorkOnConditions, Secure, Contract, Monitor, Collect, Settle,
         Recover, SettlementNext

LEMMA RecoveryStep ==
  ASSUME TypeInv, desk = "recovery", RecoveryHolds, [Next]_vars
  PROVE  RecoveryHolds'
<1> DEFINE G == "HG_RECOVERY_STRATEGY_APPROVED"
           Row == [ver : 0..MaxVersion, by : Actors \cup {Nobody},
                   status : {"PREPARING", "STRATEGY_APPROVED"},
                   approvedBy : Actors \cup {Nobody}]
<1>a. /\ CaseworkTypeOK /\ G \in GateTypes /\ Nobody \notin Actors
      /\ recovery \in [RecoveryIds -> Row]
      /\ \A r \in Requests : req[r].ver \in Versions /\ req[r].who \in People
      /\ \A r \in Requests : ArgTyped(req[r].op, req[r].who, req[r].arg)
      /\ caseVersion \in Versions
  BY GatesAssumption, Constants
     DEF TypeInv, TypeOK, ReqOK, CaseworkTypeOK, ClosingTypeOK
<1>b. /\ \A r \in Requests : RecoveryNamed(r)
      /\ StrategyDual
  BY DEF RecoveryHolds
<1>v. \A v \in Versions : v # 0
  BY Constants
\* A case keeps its version and its opener, and its approval once it is there.
<1> DEFINE Kept ==
      \A x \in RecoveryIds :
        recovery[x].ver # 0 =>
          /\ recovery'[x].ver = recovery[x].ver /\ recovery'[x].by = recovery[x].by
          /\ recovery[x].status = "STRATEGY_APPROVED" => recovery'[x] = recovery[x]
<1>k. ASSUME Kept, NEW q \in Requests, req'[q] = req[q]
      PROVE  RecoveryNamed(q)'
  <2>1. RecoveryNamed(q) /\ req[q].ver \in Versions
          /\ (req[q].op \in {"strategy", "strategy_gate"} =>
                req[q].arg.recovery \in RecoveryIds)
    BY <1>a, <1>b DEF ArgTyped
  <2> QED
    BY <1>k, <1>v, <2>1 DEF RecoveryNamed
<1>i. ASSUME NEW q \in Requests, req'[q].op \notin {"strategy", "strategy_gate"}
      PROVE  RecoveryNamed(q)'
  BY <1>i DEF RecoveryNamed
\* An approved case is approved by somebody else, and the gate keeps its reason.
<1>m. ASSUME Kept, UNCHANGED gate,
             \A x \in RecoveryIds : recovery'[x].status = "STRATEGY_APPROVED" =>
               recovery'[x].approvedBy \notin {Nobody, recovery'[x].by},
             \A q \in Requests : req'[q] = req[q] \/ RecoveryNamed(q)'
      PROVE  RecoveryHolds'
  <2>1. \A q \in Requests : RecoveryNamed(q)'
    BY <1>k, <1>m
  <2>2. ASSUME NEW v \in Versions, gate'[G][v] # Nobody
        PROVE  \E x \in RecoveryIds :
                 /\ recovery'[x].ver = v /\ recovery'[x].status = "STRATEGY_APPROVED"
                 /\ recovery'[x].approvedBy = gate'[G][v]
    <3>1. PICK x \in RecoveryIds :
            /\ recovery[x].ver = v /\ recovery[x].status = "STRATEGY_APPROVED"
            /\ recovery[x].approvedBy = gate[G][v]
      BY <1>b, <1>m, <2>2 DEF StrategyDual
    <3>2. recovery'[x] = recovery[x]
      BY <1>m, <1>v, <3>1
    <3> QED
      BY <1>m, <3>1, <3>2
  <2> QED
    BY <1>m, <2>1, <2>2 DEF RecoveryHolds, StrategyDual
<1>s. ASSUME UNCHANGED <<gate, recovery>>,
             \A q \in Requests : req'[q] = req[q] \/ RecoveryNamed(q)'
      PROVE  RecoveryHolds'
  BY <1>b, <1>m, <1>s DEF StrategyDual
<1>1. CASE Decide \/ Around \/ UNCHANGED vars
  BY <1>1, <1>s, <1>i, Elsewhere DEF servicing, closing
<1>2. ASSUME NEW v \in VersionRead, NEW a \in Actors, NEW x \in RecoveryIds,
             NEW o, NEW n, OpenRecovery(v, a, x, o, n)
      PROVE  RecoveryHolds'
  <2>1. /\ recovery[x].ver = 0 /\ recovery' = [recovery EXCEPT ![x] = Escalated(v, a)]
        /\ UNCHANGED casework
    BY <1>2 DEF OpenRecovery, NoRecovery
  <2>2. Escalated(v, a).status = "PREPARING"
    BY DEF Escalated, NoRecovery
  <2>3. \A y \in RecoveryIds :
          recovery'[y] = IF y = x THEN Escalated(v, a) ELSE recovery[y]
    BY <1>a, <2>1
  <2>4. Kept
    BY <2>1, <2>3
  <2>5. \A y \in RecoveryIds : recovery'[y].status = "STRATEGY_APPROVED" =>
          recovery'[y].approvedBy \notin {Nobody, recovery'[y].by}
    BY <1>b, <2>2, <2>3 DEF StrategyDual
  <2>6. UNCHANGED <<gate, req>>
    BY <2>1 DEF casework
  <2> QED
    BY <1>m, <2>4, <2>5, <2>6
<1>3. ASSUME NEW r \in Requests, NEW a \in Actors, NEW x \in RecoveryIds,
             CheckStrategy(r, a, x)
      PROVE  RecoveryHolds'
  <2>1. /\ Enter(r, "strategy", a, caseVersion, [recovery |-> x])
        /\ recovery[x].ver = caseVersion /\ recovery[x].by # a /\ UNCHANGED recovery
    BY <1>3 DEF CheckStrategy, Begin, closing, RecoveryFound
  <2>2. /\ req'[r].op = "strategy" /\ req'[r].ver = caseVersion /\ req'[r].who = a
        /\ req'[r].arg.recovery = x
        /\ \A q \in Requests : q # r => req'[q] = req[q]
        /\ UNCHANGED gate
    BY <1>a, <2>1, Entered
  <2>3. RecoveryNamed(r)'
    BY <2>1, <2>2 DEF RecoveryNamed
  <2> QED
    BY <1>s, <2>1, <2>2, <2>3
<1>4. ASSUME NEW r \in Requests, ApproveStrategy(r)
      PROVE  RecoveryHolds'
  <2>0. PICK x \in RecoveryIds, a \in Actors, v \in Versions :
          /\ x = req[r].arg.recovery /\ a = req[r].who /\ v = req[r].ver
          /\ recovery[x].ver = v /\ recovery[x].by # a
    <3>1. RecoveryNamed(r) /\ Doing(r, "strategy")
      BY <1>b, <1>4 DEF ApproveStrategy
    <3>2. req[r].arg.recovery \in RecoveryIds /\ req[r].who \in Actors
      BY <1>a, <3>1 DEF Doing, ArgTyped
    <3> QED
      BY <1>a, <3>1, <3>2 DEF Doing, RecoveryNamed
  <2>1. CASE ~StillPreparing(x)
    BY <1>4, <1>a, <1>s, <1>i, <2>0, <2>1, Answered DEF ApproveStrategy
  <2>2. CASE StillPreparing(x)
    <3>1. /\ recovery' = [recovery EXCEPT ![x].status = "STRATEGY_APPROVED",
                                          ![x].approvedBy = a]
          /\ req' = [req EXCEPT ![r].op = "strategy_gate"] /\ UNCHANGED gate
          /\ recovery[x].status = "PREPARING"
      BY <1>4, <2>0, <2>2 DEF ApproveStrategy, StillPreparing
    <3>2. /\ recovery'[x].ver = v /\ recovery'[x].by = recovery[x].by
          /\ recovery'[x].status = "STRATEGY_APPROVED" /\ recovery'[x].approvedBy = a
          /\ \A y \in RecoveryIds : y # x => recovery'[y] = recovery[y]
      BY <1>a, <2>0, <3>1
    <3>3. /\ req'[r].op = "strategy_gate" /\ req'[r].ver = v /\ req'[r].who = a
          /\ req'[r].arg.recovery = x
          /\ \A q \in Requests : q # r => req'[q] = req[q]
      <4>1. req[r] = [op |-> req[r].op, who |-> req[r].who, ver |-> req[r].ver,
                      arg |-> req[r].arg]
        BY DEF TypeInv, ReqOK, ReqShape
      <4>2. /\ [req[r] EXCEPT !.op = "strategy_gate"].op = "strategy_gate"
            /\ [req[r] EXCEPT !.op = "strategy_gate"].ver = req[r].ver
            /\ [req[r] EXCEPT !.op = "strategy_gate"].who = req[r].who
            /\ [req[r] EXCEPT !.op = "strategy_gate"].arg = req[r].arg
        BY <4>1
      <4> QED
        BY <1>a, <2>0, <3>1, <4>2 DEF CaseworkTypeOK
    <3>4. Kept
      BY <2>0, <3>1, <3>2
    <3>5. \A y \in RecoveryIds : recovery'[y].status = "STRATEGY_APPROVED" =>
            recovery'[y].approvedBy \notin {Nobody, recovery'[y].by}
      BY <1>a, <1>b, <2>0, <3>2 DEF StrategyDual
    <3>6. RecoveryNamed(r)'
      BY <3>2, <3>3 DEF RecoveryNamed
    <3> QED
      BY <1>m, <3>1, <3>3, <3>4, <3>5, <3>6
  <2> QED
    BY <2>1, <2>2
<1>5. ASSUME NEW r \in Requests, StrategyGate(r)
      PROVE  RecoveryHolds'
  <2>0. PICK x \in RecoveryIds, a \in Actors, v \in Versions :
          /\ x = req[r].arg.recovery /\ a = req[r].who /\ v = req[r].ver
          /\ recovery[x].ver = v /\ recovery[x].status = "STRATEGY_APPROVED"
          /\ recovery[x].approvedBy = a
    <3>1. RecoveryNamed(r) /\ Doing(r, "strategy_gate")
      BY <1>b, <1>5 DEF StrategyGate
    <3>2. req[r].arg.recovery \in RecoveryIds /\ req[r].who \in Actors
      BY <1>a, <3>1 DEF Doing, ArgTyped
    <3> QED
      BY <1>a, <3>1, <3>2 DEF Doing, RecoveryNamed
  <2>1. Satisfy(G, v, a) /\ Done(r) /\ UNCHANGED recovery
    BY <1>5, <2>0 DEF StrategyGate, closing
  <2>2. \A u \in Versions : gate'[G][u] = gate[G][u] \/ (u = v /\ gate'[G][u] = a)
    BY <1>a, <2>1 DEF Satisfy, CaseworkTypeOK
  <2>3. StrategyDual'
    BY <1>b, <2>0, <2>1, <2>2 DEF StrategyDual
  <2>4. \A q \in Requests : RecoveryNamed(q)'
    BY <1>a, <1>k, <1>i, <2>1, Answered
  <2> QED
    BY <2>3, <2>4 DEF RecoveryHolds
<1> QED
  BY <1>4, <1>5, <1>1, <1>2, <1>3
     DEF Next, Notify, WorkOnConditions, Secure, Contract, Monitor, Collect, Settle,
         Recover, RecoveryNext

-------------------------------------------------------------------------------
(****************************************************************************)
(* The invariant.                                                           *)
(****************************************************************************)
LEMMA InitHolds == Init => IInv
<1> SUFFICES ASSUME Init PROVE IInv
  OBVIOUS
<1> USE DEF Init, CaseworkInit, DecisionInit, NotificationInit, LedgerInit,
            PerfectionInit, ContractsInit, MonitoringInit, RepaymentsInit, ClosingInit
<1>a. /\ 1 \in Versions /\ Nobody \in People /\ 0 \in 0..MaxVersion
      /\ 0 \in 0..MaxPackages /\ 0 \in 0..MaxChecks
      /\ \A v \in Versions : v # 0
  BY Constants
<1>r. \A r \in Requests : req[r] = Idle
  OBVIOUS
<1>g. \A g \in GateTypes, v \in Versions : gate[g][v] = Nobody
  OBVIOUS
<1>1. ReqOK
  <2>1. CaseworkTypeOK
    BY <1>a DEF CaseworkTypeOK, Idle
  <2>2. ReqShape
    BY <1>r DEF ReqShape, Idle
  <2>3. \A r \in Requests : ArgTyped(req[r].op, req[r].who, req[r].arg)
    BY <1>r DEF ArgTyped, Idle
  <2> QED
    BY <2>1, <2>2, <2>3 DEF ReqOK
<1>2. DecisionTypeOK /\ NotificationTypeOK
  BY DEF DecisionTypeOK, NotificationTypeOK
<1>3. LedgerTypeOK
  BY <1>a DEF LedgerTypeOK, NoRow, ConditionStatus
<1>4. PerfectionTypeOK
  BY <1>a DEF PerfectionTypeOK, NoItem, PerfectionStatus
<1>5. ContractsTypeOK
  <2>1. \A R : << >> \in Seq(R) /\ Len(<< >>) = 0
    OBVIOUS
  <2> QED
    BY <1>a, <2>1, Constants DEF ContractsTypeOK
<1>6. MonitoringTypeOK
  <2>1. \A R : << >> \in Seq(R)
    OBVIOUS
  <2> QED
    BY <1>a, <2>1 DEF MonitoringTypeOK, NoCovenant
<1>7. RepaymentsTypeOK
  BY <1>a DEF RepaymentsTypeOK, NoEvent
<1>8. ClosingTypeOK
  <2>1. \A R : << >> \in Seq(R) /\ Len(<< >>) = 0
    OBVIOUS
  <2> QED
    BY <1>a, <2>1, Constants DEF ClosingTypeOK, NoRecovery
<1>9. TypeInv
  BY <1>1, <1>2, <1>3, <1>4, <1>5, <1>6, <1>7, <1>8 DEF TypeInv, TypeOK, ReqOK
<1>10. OthersUntouched
  BY <1>g DEF OthersUntouched
<1>11. NotificationsHold
  BY <1>r DEF NotificationsHold, NoteFound, DeliveredUnderControl, Idle
<1>12. ConditionsHold
  BY <1>r, <1>g, GatesAssumption
     DEF ConditionsHold, LedgerFound, ConfirmationRests, Idle
<1>13. PerfectionHolds
  BY <1>r, <1>g, GatesAssumption DEF PerfectionHolds, ItemFound, NoItem, Idle
<1>14. ContractsHold
  BY <1>r, <1>g, GatesAssumption
     DEF ContractsHold, PackageFound, SignedInOrder, Idle
<1>15. AlertsAccounted
  BY DEF AlertsAccounted
<1>16. SettlementHolds
  <2>1. \A v \in Versions : Len(checks[v]) = 0
    OBVIOUS
  <2> QED
    BY <1>r, <1>g, <2>1, GatesAssumption
       DEF SettlementHolds, CheckFound, SettledClean, Idle
<1>17. RecoveryHolds
  BY <1>r, <1>g, GatesAssumption
     DEF RecoveryHolds, RecoveryNamed, StrategyDual, NoRecovery, Idle
<1> QED
  BY <1>9, <1>10, <1>11, <1>12, <1>13, <1>14, <1>15, <1>16, <1>17 DEF IInv

LEMMA Inductive ==
  ASSUME IInv, [Next]_vars
  PROVE  IInv'
<1> USE DEF IInv
<1>1. TypeInv'
  BY TypeStep
<1>2. OthersUntouched'
  BY OthersStep
<1>3. UNCHANGED desk
  BY DEF Next, Decide, Notify, WorkOnConditions, Secure, Contract, Monitor, Collect,
         Settle, Recover, Around, vars
<1>4. desk = "notifications" => NotificationsHold'
  BY NotificationsStep
<1>5. desk = "conditions" => ConditionsHold'
  BY ConditionsStep
<1>6. desk = "security" => PerfectionHolds'
  BY PerfectionStep
<1>7. desk = "contracts" => ContractsHold'
  BY ContractsStep
<1>8. desk = "monitoring" => AlertsAccounted'
  BY MonitoringStep
<1>9. desk = "settlement" => SettlementHolds'
  BY SettlementStep
<1>10. desk = "recovery" => RecoveryHolds'
  BY RecoveryStep
<1> QED
  BY <1>1, <1>2, <1>3, <1>4, <1>5, <1>6, <1>7, <1>8, <1>9, <1>10

\* Every desk keeps, of what it has read, what its writes rely on.
THEOREM Invariance == Spec => []IInv
<1>1. Init => IInv
  BY InitHolds
<1>2. IInv /\ [Next]_vars => IInv'
  BY Inductive
<1> QED
  BY <1>1, <1>2, PTL DEF Spec

-------------------------------------------------------------------------------
(****************************************************************************)
(* What the desks promise. At a desk that is not at work nothing is written *)
(* and no gate satisfied, so its property holds there as it does at Init.   *)
(****************************************************************************)
\* Every table of the fulfilment desks keeps the types of its columns.
THEOREM TypeCorrect == Spec => []TypeOK
<1>1. IInv => TypeOK
  BY DEF IInv, TypeInv
<1> QED
  BY <1>1, Invariance, PTL

\* A gate of another desk is open.
LEMMA OpenElsewhere ==
  ASSUME IInv, NEW g \in GateTypes, g \notin GatesOf(desk)
  PROVE  \A v \in Versions : gate[g][v] = Nobody
  BY DEF IInv, OthersUntouched

\* Notifications: a receipt stands on a permitting decision, on an approved draft,
\* and on two different people (record_mock_delivery).
THEOREM DeliveryControlled == Spec => []DeliveredUnderControl
<1>1. IInv => DeliveredUnderControl
  BY DEF IInv, OthersUntouched, NotificationsHold, NotificationInit,
         DeliveredUnderControl
<1> QED
  BY <1>1, Invariance, PTL

\* Conditions: a confirmed ledger keeps resting on the conditions that were listed,
\* none of them verified by the confirming checker (confirm_conditions).
THEOREM ConfirmationStands == Spec => []ConfirmationRests
<1>1. ASSUME IInv
      PROVE  ConfirmationRests
  <2>1. CASE desk = "conditions"
    BY <1>1, <2>1 DEF IInv, ConditionsHold
  <2>2. CASE desk # "conditions"
    BY <1>1, <2>2, OpenElsewhere, GatesAssumption DEF GatesOf, ConfirmationRests
  <2> QED
    BY <2>1, <2>2
<1> QED
  BY <1>1, Invariance, PTL

\* Security interests: what a perfection gate was based on stays satisfied or
\* expires, and a completion has its evidence and its completer (transition_item).
THEOREM PerfectionStands == Spec => []PerfectionRests
<1>1. ASSUME IInv
      PROVE  PerfectionRests
  <2>1. CASE desk = "security"
    <3>1. PerfectionHolds /\ PerfectionTypeOK
      BY <1>1, <2>1 DEF IInv, TypeInv, TypeOK
    <3>2. \A v \in Versions : perfected[v].items \subseteq ItemIds
      BY <3>1 DEF PerfectionTypeOK
    <3> QED
      BY <3>1, <3>2 DEF PerfectionHolds, ListPerfected, PerfectionRests
  <2>2. CASE desk # "security"
    BY <1>1, <2>2, OpenElsewhere, GatesAssumption DEF GatesOf, PerfectionRests
  <2> QED
    BY <2>1, <2>2
<1> QED
  BY <1>1, Invariance, PTL

\* Contract packages: a signature stands on approved terms and on both gates, and
\* repeats the text of the row below it (record_signature_evidence).
THEOREM SignaturesInOrder == Spec => []SignedInOrder
<1>1. ASSUME IInv
      PROVE  SignedInOrder
  <2>1. CASE desk = "contracts"
    BY <1>1, <2>1 DEF IInv, ContractsHold
  <2>2. CASE desk # "contracts"
    BY <1>1, <2>2, OpenElsewhere, GatesAssumption
       DEF IInv, OthersUntouched, ContractsInit, GatesOf, SignedInOrder
  <2> QED
    BY <2>1, <2>2
<1> QED
  BY <1>1, Invariance, PTL

\* Monitoring: an alert stands for each late obligation and each failed test, and
\* where its dispositions have led (dispose_alert).
THEOREM AlertsKept == Spec => []AlertsAccounted
<1>1. IInv => AlertsAccounted
  BY DEF IInv, OthersUntouched, MonitoringInit, AlertsAccounted
<1> QED
  BY <1>1, Invariance, PTL

\* Settlement: a settled version rests on a clean check with both receipts, which
\* one person recorded (confirm_settlement).
THEOREM SettlementClean == Spec => []SettledClean
<1>1. ASSUME IInv
      PROVE  SettledClean
  <2>1. CASE desk = "settlement"
    BY <1>1, <2>1 DEF IInv, SettlementHolds
  <2>2. CASE desk # "settlement"
    <3>1. \A v \in Versions : gate["HG_SETTLEMENT_CONFIRMED"][v] = Nobody
      BY <1>1, <2>2, OpenElsewhere, GatesAssumption DEF GatesOf
    <3>2. \A v \in Versions : \A n \in 1..MaxChecks : \A k \in SettlementReceiptKind :
            receipts[v][n][k] = Nobody
      BY <1>1, <2>2 DEF IInv, OthersUntouched
    <3> QED
      BY <3>1, <3>2 DEF SettledClean
  <2> QED
    BY <2>1, <2>2
<1> QED
  BY <1>1, Invariance, PTL

\* Recovery: an approved strategy has an approver who did not escalate it, and the
\* gate names such an approver (approve_strategy).
THEOREM StrategyApproved == Spec => []StrategyDual
<1>1. ASSUME IInv
      PROVE  StrategyDual
  <2>1. CASE desk = "recovery"
    BY <1>1, <2>1 DEF IInv, RecoveryHolds
  <2>2. CASE desk # "recovery"
    BY <1>1, <2>2, OpenElsewhere, GatesAssumption
       DEF IInv, GatesOf, StrategyDual, OthersUntouched, NoRecovery
  <2> QED
    BY <2>1, <2>2
<1> QED
  BY <1>1, Invariance, PTL

-------------------------------------------------------------------------------
(****************************************************************************)
(* The repayment ledger. Any number of events is recorded, a finite number  *)
(* at a time, and a reversal names a payment that is there; the rest is     *)
(* arithmetic, for a schedule of any length.                                *)
(****************************************************************************)
OnFile == {x \in References : event[x] # NoEvent}
HistoryOK ==
  /\ IsFiniteSet(OnFile)
  /\ \A x \in Reversals : event[x].of \in Payments

LEMMA HistoryStep ==
  ASSUME RepaymentsTypeOK, HistoryOK, RepaymentsNext
  PROVE  HistoryOK'
<1>1. ASSUME NEW v \in VersionRead, CreateFacility(v)
      PROVE  HistoryOK'
  BY <1>1 DEF CreateFacility, HistoryOK, OnFile, Reversals, Payments
<1>2. ASSUME NEW x \in References, NEW kind \in {"PAYMENT", "REVERSAL"},
             NEW amount \in Amounts, NEW of \in References \cup {Nobody},
             RecordEvent(x, kind, amount, of)
      PROVE  HistoryOK'
  <2>1. Acceptable(kind, of)
        /\ event' = [event EXCEPT ![x] = IF @ = NoEvent
                       THEN [kind |-> kind, amount |-> amount, of |-> of] ELSE @]
    BY <1>2 DEF RecordEvent, Recorded
  <2>2. \A y \in References : y # x \/ event[y] # NoEvent => event'[y] = event[y]
    BY <2>1 DEF RepaymentsTypeOK
  <2>3. event[x] = NoEvent => event'[x] = [kind |-> kind, amount |-> amount, of |-> of]
    BY <2>1 DEF RepaymentsTypeOK
  <2>4. IsFiniteSet(OnFile')
    <3>1. OnFile' \in SUBSET (OnFile \cup {x})
      BY <2>2 DEF OnFile
    <3>2. IsFiniteSet(OnFile \cup {x})
      BY FS_AddElement DEF HistoryOK
    <3> QED
      BY <3>1, <3>2, FS_Subset
  <2>5. Payments \subseteq Payments'
    BY <2>2 DEF Payments, NoEvent
  <2>6. ASSUME NEW y \in Reversals' PROVE event'[y].of \in Payments'
    <3>1. CASE y # x \/ event[y] # NoEvent
      BY <2>2, <2>5, <3>1 DEF HistoryOK, Reversals
    <3>2. CASE y = x /\ event[y] = NoEvent
      <4>1. event'[y].kind = kind /\ event'[y].of = of
        BY <2>3, <3>2
      <4>2. kind = "REVERSAL"
        BY <2>6, <4>1 DEF Reversals
      <4> QED
        BY <2>1, <2>5, <4>1, <4>2 DEF Acceptable
    <3> QED
      BY <3>1, <3>2
  <2> QED
    BY <2>4, <2>6 DEF HistoryOK
<1> QED
  BY <1>1, <1>2 DEF RepaymentsNext

\* What is taken back is a part of what was paid when no payment is reversed beyond
\* its amount: by adding one payment and its reversals after the other.
LEMMA NetPaidNat ==
  ASSUME RepaymentsTypeOK, HistoryOK
  PROVE  NetPaid \in Int /\ (Foldable => NetPaid >= 0)
<1> DEFINE Of(P) == {y \in Reversals : event[y].of \in P}
           Sum(S) == SumFunctionOnSet(AmountOf, S)
<1>1. \A x \in References : AmountOf[x] \in Nat /\ AmountOf[x] \in Int
  <2> SUFFICES ASSUME NEW x \in References PROVE AmountOf[x] \in Nat
    OBVIOUS
  <2>1. event[x].amount \in Amounts \cup {0}
    BY DEF RepaymentsTypeOK
  <2>2. Amounts \subseteq Nat
    BY RepaymentsAssumption
  <2>3. \A a \in Amounts \cup {0} : a \in Nat
    BY <2>2
  <2>4. event[x].amount \in Nat
    BY <2>1, <2>3
  <2> QED
    BY <2>4 DEF AmountOf
<1>2. Payments \subseteq References /\ Reversals \subseteq References
  BY DEF Payments, Reversals
<1>3. IsFiniteSet(Payments) /\ IsFiniteSet(Reversals)
  <2>1. Payments \in SUBSET OnFile /\ Reversals \in SUBSET OnFile
    BY DEF Payments, Reversals, OnFile, NoEvent
  <2> QED
    BY <2>1, FS_Subset DEF HistoryOK
<1>4. Of(Payments) = Reversals
  BY DEF HistoryOK
<1>5. \A P \in SUBSET Payments : IsFiniteSet(P) /\ IsFiniteSet(Of(P))
  <2> SUFFICES ASSUME NEW P \in SUBSET Payments PROVE IsFiniteSet(P) /\ IsFiniteSet(Of(P))
    OBVIOUS
  <2>1. Of(P) \in SUBSET Reversals
    OBVIOUS
  <2> QED
    BY <1>3, <2>1, FS_Subset
<1>6. \A P \in SUBSET Payments : Sum(P) \in Int /\ Sum(Of(P)) \in Int
  BY <1>1, <1>2, <1>5, SumType
<1>7. NetPaid \in Int
  BY <1>4, <1>6 DEF NetPaid
<1>8. ASSUME Foldable PROVE NetPaid >= 0
  <2> DEFINE D == {P \in SUBSET Payments : Sum(Of(P)) <= Sum(P)}
  <2>1. {} \in D
    <3>1. Of({}) = {}
      OBVIOUS
    <3> QED
      BY <3>1, SumOfNone
  <2>2. ASSUME NEW P \in SUBSET Payments, NEW x \in Payments \ P, P \in D
        PROVE  P \cup {x} \in D
    <3>1. Of(P \cup {x}) = Of(P) \cup ReversalsOf(x) /\ Of(P) \cap ReversalsOf(x) = {}
      BY DEF ReversalsOf
    <3>2. IsFiniteSet(ReversalsOf(x)) /\ ReversalsOf(x) \subseteq References
      <4>1. ReversalsOf(x) \in SUBSET Reversals
        BY DEF ReversalsOf
      <4> QED
        BY <1>2, <1>3, <4>1, FS_Subset
    <3>3. Sum(Of(P) \cup ReversalsOf(x)) = Sum(Of(P)) + Sum(ReversalsOf(x))
      <4>1. \A y \in Of(P) \cup ReversalsOf(x) : AmountOf[y] \in Int
        BY <1>1, <1>2, <3>2
      <4> QED
        BY <1>5, <3>1, <3>2, <4>1, SumOfUnion
    <3>4. Sum(P \cup {x}) = Sum(P) + AmountOf[x]
      BY <1>1, <1>2, <1>5, SumAddOne
    <3>5. Sum(ReversalsOf(x)) <= AmountOf[x]
      BY <1>8 DEF Foldable
    <3>6. Sum(Of(P)) <= Sum(P)
      BY <2>2
    <3>7. AmountOf[x] \in Int /\ Sum(ReversalsOf(x)) \in Int
      BY <1>1, <1>2, <3>2, SumType
    <3> DEFINE a == Sum(P)  b == Sum(Of(P))  c == Sum(ReversalsOf(x))  m == AmountOf[x]
    <3>8. /\ a \in Int /\ b \in Int /\ c \in Int /\ m \in Int /\ c <= m /\ b <= a
          /\ Sum(P \cup {x}) = a + m /\ Sum(Of(P \cup {x})) = b + c
      BY <1>6, <3>1, <3>3, <3>4, <3>5, <3>6, <3>7
    <3> HIDE DEF a, b, c, m
    <3>9. b + c <= a + m
      BY <3>8
    <3>10. P \cup {x} \in SUBSET Payments /\ Sum(Of(P \cup {x})) <= Sum(P \cup {x})
      BY <3>8, <3>9
    <3> QED
      BY <3>10
  <2>3. Payments \in D
    <3> HIDE DEF D
    <3> QED
      BY <1>3, <2>1, <2>2, SetBySet
  <2>4. Sum(Reversals) <= Sum(Payments)
    BY <1>4, <2>3
  <2>5. Sum(Reversals) \in Int /\ Sum(Payments) \in Int
    BY <1>4, <1>6
  <2> DEFINE a == Sum(Payments)  b == Sum(Reversals)
  <2>6. a \in Int /\ b \in Int /\ b <= a /\ NetPaid = a - b
    BY <2>4, <2>5 DEF NetPaid
  <2> HIDE DEF a, b
  <2> QED
    BY <2>6
<1> QED
  BY <1>7, <1>8

\* The buckets of the schedule are those of its installments.
LEMMA BucketFacts ==
  /\ Len(Schedule) \in Nat /\ DOMAIN Schedule = 1..Len(Schedule)
  /\ IsFiniteSet(Buckets)
  /\ \A n \in Buckets : Demand(n) \in Nat /\ Demands[n] = Demand(n)
  /\ \A i \in 1..Len(Schedule) : BucketsOf(i) \subseteq Buckets
  /\ \A n \in Buckets : \E i \in 1..Len(Schedule) : n \in BucketsOf(i)
<1>1. Len(Schedule) \in Nat /\ DOMAIN Schedule = 1..Len(Schedule)
  BY RepaymentsAssumption
<1>2. IsFiniteSet(Buckets)
  BY <1>1, FS_Interval DEF Buckets
<1>3. ASSUME NEW n \in Buckets
      PROVE  (n + 2) \div 3 \in 1..Len(Schedule) /\ n \in BucketsOf((n + 2) \div 3)
  BY <1>1 DEF Buckets, BucketsOf
<1>4. ASSUME NEW n \in Buckets PROVE Demand(n) \in Nat
  <2>1. Schedule[(n + 2) \div 3] \in [fee : Nat, interest : Nat, principal : Nat]
    <3>1. Schedule \in Seq([fee : Nat, interest : Nat, principal : Nat])
      BY RepaymentsAssumption
    <3> QED
      BY <1>3, <3>1, ElementOfSeq
  <2> QED
    BY <2>1 DEF Demand
<1>5. \A i \in 1..Len(Schedule) : BucketsOf(i) \subseteq Buckets
  BY <1>1 DEF Buckets, BucketsOf
<1> QED
  BY <1>1, <1>2, <1>3, <1>4, <1>5 DEF Demands

\* A bucket takes what it demands or what there is.
LEMMA TakeFacts ==
  ASSUME NEW r \in Int, NEW d \in Nat
  PROVE  /\ Take(r, d) \in Int
         /\ r >= 0 => /\ Take(r, d) \in 0..d /\ r - Take(r, d) \in Nat
                      /\ r - Take(r, d) > 0 => Take(r, d) = d
                      /\ Take(r, d) > 0 => r > 0
BY DEF Take

\* The money goes from bucket to bucket.
LEMMA RemainingFacts ==
  ASSUME NetPaid \in Int
  PROVE  /\ Remaining \in [0..(3 * Len(Schedule)) -> Int]
         /\ Remaining[0] = NetPaid
         /\ \A n \in Buckets :
              Remaining[n] = Remaining[n - 1] - Take(Remaining[n - 1], Demand(n))
<1> DEFINE N == 3 * Len(Schedule)
           g == [n \in 1..N |-> [r \in Int |-> r - Take(r, Demand(n))]]
           P(f) == f = [n \in 0..N |-> IF n = 0 THEN NetPaid
                          ELSE f[n - 1] - Take(f[n - 1], Demand(n))]
<1>1. N \in Nat /\ Buckets = 1..N
  BY BucketFacts DEF Buckets
<1>2. \A n \in 1..N : \A r \in Int : g[n][r] = r - Take(r, Demand(n)) /\ g[n][r] \in Int
  <2> SUFFICES ASSUME NEW n \in 1..N, NEW r \in Int PROVE r - Take(r, Demand(n)) \in Int
    OBVIOUS
  <2>1. Demand(n) \in Nat
    BY <1>1, BucketFacts
  <2>2. Take(r, Demand(n)) \in Int
    BY <2>1, TakeFacts
  <2> QED
    BY <2>2
<1>3. PICK f \in [0..N -> Int] : Iterates(f, g, NetPaid, N)
  <2> DEFINE V == Int
  <2>1. Maps(g, N, V)
    BY <1>2 DEF Maps
  <2>2. NetPaid \in V /\ N \in Nat
    BY <1>1
  <2> HIDE DEF N, g, V
  <2>3. \E f \in [0..N -> V] : Iterates(f, g, NetPaid, N)
    BY <2>1, <2>2, RecursionExists
  <2> QED
    BY <2>3 DEF V
<1>4. P(f)
  <2>1. ASSUME NEW n \in 0..N, n # 0
        PROVE  f[n] = f[n - 1] - Take(f[n - 1], Demand(n))
    <3>1. n \in 1..N /\ f[n - 1] \in Int
      BY <1>1, <2>1
    <3> HIDE DEF g
    <3> QED
      BY <1>2, <1>3, <3>1 DEF Iterates
  <2> HIDE DEF N, g
  <2> QED
    BY <1>3, <2>1 DEF Iterates
<1>5. Remaining = CHOOSE h : P(h)
  BY DEF Remaining
<1>6. P(Remaining)
  <2> HIDE DEF P
  <2> QED
    BY <1>4, <1>5, Zenon
<1>7. /\ DOMAIN Remaining = 0..N /\ Remaining[0] = NetPaid
      /\ \A n \in 1..N :
           Remaining[n] = Remaining[n - 1] - Take(Remaining[n - 1], Demand(n))
  <2> HIDE DEF N
  <2> QED
    BY <1>1, <1>6
<1>8. \A n \in 0..N : Remaining[n] \in Int
  <2> DEFINE Fine == {n \in Nat : n <= N => Remaining[n] \in Int}
  <2> HIDE DEF N, P
  <2>1. 0 \in Fine
    BY <1>7
  <2>2. ASSUME NEW n \in Nat, n \in Fine PROVE n + 1 \in Fine
    <3> SUFFICES ASSUME n + 1 <= N PROVE Remaining[n + 1] \in Int
      OBVIOUS
    <3>1. n + 1 \in 1..N /\ (n + 1) - 1 = n /\ Remaining[n] \in Int
      BY <1>1, <2>2
    <3>2. Remaining[n + 1] = Remaining[n] - Take(Remaining[n], Demand(n + 1))
      BY <1>7, <3>1
    <3>3. Take(Remaining[n], Demand(n + 1)) \in Int
      BY <1>1, <3>1, BucketFacts, TakeFacts
    <3> QED
      BY <3>1, <3>2, <3>3
  <2>3. Nat \subseteq Fine
    <3> HIDE DEF Fine
    <3> QED
      BY <2>1, <2>2, SetInduction
  <2> QED
    BY <1>1, <2>3
<1>9. Remaining = [n \in 0..N |-> Remaining[n]]
  <2> HIDE DEF N
  <2> QED
    BY <1>6
<1> QED
  <2> HIDE DEF N, P
  <2>1. Remaining \in [0..N -> Int]
    BY <1>8, <1>9
  <2> QED
    BY <1>1, <1>7, <2>1 DEF N

\* No bucket goes below nothing, and one that is left with money was filled.
LEMMA RemainingNat ==
  ASSUME NetPaid \in Nat
  PROVE  /\ \A n \in 0..(3 * Len(Schedule)) : Remaining[n] \in Nat
         /\ \A n \in 0..(3 * Len(Schedule)) : \A k \in 0..n : Remaining[n] <= Remaining[k]
<1> DEFINE N == 3 * Len(Schedule)
           Fine == {n \in Nat : n <= N =>
                      Remaining[n] \in Nat /\ \A k \in 0..n : Remaining[n] <= Remaining[k]}
<1>1. N \in Nat /\ Buckets = 1..N
  BY BucketFacts DEF Buckets
<1>2. Remaining \in [0..N -> Int] /\ Remaining[0] = NetPaid
  BY RemainingFacts
<1>3. \A n \in 1..N : Remaining[n] = Remaining[n - 1] - Take(Remaining[n - 1], Demand(n))
  BY <1>1, RemainingFacts
<1> HIDE DEF N
<1>4. 0 \in Fine
  BY <1>2
<1>5. ASSUME NEW n \in Nat, n \in Fine PROVE n + 1 \in Fine
  <2> SUFFICES ASSUME n + 1 <= N
               PROVE  Remaining[n + 1] \in Nat
                      /\ \A k \in 0..(n + 1) : Remaining[n + 1] <= Remaining[k]
    OBVIOUS
  <2>1. n + 1 \in 1..N /\ (n + 1) - 1 = n
    BY <1>1
  <2>2. Remaining[n] \in Nat /\ \A k \in 0..n : Remaining[n] <= Remaining[k]
    BY <1>1, <1>5
  <2>3. Remaining[n + 1] = Remaining[n] - Take(Remaining[n], Demand(n + 1))
    BY <1>3, <2>1
  <2>4. Remaining[n + 1] \in Nat /\ Remaining[n + 1] <= Remaining[n]
    <3>1. Demand(n + 1) \in Nat
      BY <1>1, <2>1, BucketFacts
    <3>2. /\ Take(Remaining[n], Demand(n + 1)) \in 0..Demand(n + 1)
          /\ Remaining[n] - Take(Remaining[n], Demand(n + 1)) \in Nat
      <4>1. Remaining[n] \in Int /\ Remaining[n] >= 0
        BY <2>2
      <4> QED
        BY <3>1, <4>1, TakeFacts
    <3> QED
      BY <2>2, <2>3, <3>1, <3>2
  <2>5. \A k \in 0..n : Remaining[k] \in Int
    BY <1>1, <1>2
  <2> QED
    BY <2>2, <2>4, <2>5
<1>6. Nat \subseteq Fine
  <2> HIDE DEF Fine
  <2> QED
    BY <1>4, <1>5, SetInduction
<1>7. \A n \in 0..N : Remaining[n] \in Nat /\ \A k \in 0..n : Remaining[n] <= Remaining[k]
  BY <1>1, <1>6
<1> QED
  BY <1>7 DEF N

\* What the snapshot says of a bucket.
LEMMA SnapshotFacts ==
  ASSUME NetPaid \in Nat
  PROVE  LET s == Snapshot IN
         /\ s.overpayment \in Nat
         /\ \A n \in Buckets : s.allocated[n] \in 0..Demand(n)
         /\ \A n \in Buckets : s.allocated[n] > 0 =>
              \A k \in 1..(n - 1) : s.allocated[k] = Demand(k)
         /\ s.overpayment > 0 => \A n \in Buckets : s.allocated[n] = Demand(n)
         /\ SumFunctionOnSet(s.allocated, Buckets) + s.overpayment = NetPaid
<1> DEFINE N == 3 * Len(Schedule)
           s == Snapshot
           left == Remaining
<1>1. N \in Nat /\ Buckets = 1..N /\ \A n \in 1..N : Demand(n) \in Nat
  BY BucketFacts DEF Buckets
<1>2. /\ \A n \in 1..N : s.allocated[n] = left[n - 1] - left[n]
      /\ s.overpayment = IF left[N] > 0 THEN left[N] ELSE 0
  BY <1>1 DEF Snapshot
<1>3. /\ \A n \in 0..N : left[n] \in Nat
      /\ \A n \in 0..N : \A k \in 0..n : left[n] <= left[k]
  BY RemainingNat
<1>4. left[0] = NetPaid /\ \A n \in 1..N : left[n] = left[n - 1] - Take(left[n - 1], Demand(n))
  BY <1>1, RemainingFacts
<1> HIDE DEF N, s, left
<1>5. ASSUME NEW n \in 1..N
      PROVE  /\ s.allocated[n] \in 0..Demand(n)
             /\ left[n] > 0 => s.allocated[n] = Demand(n)
             /\ s.allocated[n] > 0 => left[n - 1] > 0
  <2> DEFINE p == left[n - 1]
             q == left[n]
             d == Demand(n)
             t == Take(p, d)
  <2>1. p \in Nat /\ q \in Nat /\ d \in Nat /\ q = p - t
    BY <1>1, <1>3, <1>4
  <2>2. t \in 0..d /\ (p - t > 0 => t = d) /\ (t > 0 => p > 0)
    <3>1. p \in Int /\ p >= 0 /\ d \in Nat
      BY <2>1
    <3> HIDE DEF p, d
    <3> QED
      BY <3>1, TakeFacts
  <2>3. s.allocated[n] = p - q
    BY <1>2
  <2> HIDE DEF p, q, d, t
  <2>4. p - q = t
    BY <2>1, <2>2
  <2> QED
    BY <2>1, <2>2, <2>3, <2>4 DEF p, q, d
<1>6. ASSUME NEW n \in 1..N, s.allocated[n] > 0, NEW k \in 1..(n - 1)
      PROVE  s.allocated[k] = Demand(k)
  <2>1. k \in 1..N /\ n - 1 \in 0..N /\ k \in 0..(n - 1)
    BY <1>1
  <2>2. left[n - 1] > 0 /\ left[n - 1] <= left[k] /\ left[k] \in Nat /\ left[n - 1] \in Nat
    BY <1>3, <1>5, <1>6, <2>1
  <2> QED
    BY <1>5, <2>1, <2>2
<1>7. ASSUME s.overpayment > 0, NEW n \in 1..N PROVE s.allocated[n] = Demand(n)
  <2>1. N \in 0..N /\ n \in 0..N
    BY <1>1
  <2>2. left[N] > 0 /\ left[N] <= left[n] /\ left[n] \in Nat /\ left[N] \in Nat
    BY <1>1, <1>2, <1>3, <1>7, <2>1
  <2> QED
    BY <1>5, <2>2
<1>8. s.overpayment \in Nat /\ s.overpayment = left[N]
  <2>1. left[N] \in Nat
    BY <1>1, <1>3
  <2> QED
    BY <1>2, <2>1
<1>9. SumFunctionOnSet(s.allocated, 1..N) + s.overpayment = NetPaid
  <2> DEFINE d == s.allocated
  <2>1. \A n \in 0..N : left[n] \in Int
    BY <1>3
  <2>2. \A n \in 1..N : d[n] = left[n - 1] - left[n]
    BY <1>2
  <2> HIDE DEF d
  <2>3. SumFunctionOnSet(d, 1..N) = left[0] - left[N]
    BY <1>1, <2>1, <2>2, SumTelescopes
  <2> DEFINE total == SumFunctionOnSet(d, 1..N)
             rest == left[N]
  <2>4. total = NetPaid - rest /\ rest \in Nat
    BY <1>4, <1>8, <2>3
  <2> HIDE DEF total, rest
  <2>5. total + rest = NetPaid
    BY <2>4
  <2> QED
    BY <1>8, <2>5 DEF total, rest, d
<1> QED
  BY <1>1, <1>5, <1>6, <1>7, <1>8, <1>9 DEF s

\* The property, from the history.
LEMMA LedgerFollows ==
  ASSUME RepaymentsTypeOK, HistoryOK
  PROVE  LedgerAddsUp
<1> DEFINE s == Snapshot
<1> SUFFICES ASSUME Foldable
             PROVE  /\ NetPaid >= 0
                    /\ SumFunctionOnSet(s.allocated, Buckets) + s.overpayment = NetPaid
                    /\ \A n \in Buckets :
                         /\ s.allocated[n] \in 0..Demand(n)
                         /\ s.allocated[n] > 0 =>
                              \A k \in 1..(n - 1) : s.allocated[k] = Demand(k)
                    /\ s.overpayment > 0 =>
                         \A i \in DOMAIN Schedule : InstallmentPaid(s, i)
                    /\ Exceptions(s, Len(Schedule)) = {}
                         <=> NetPaid = SumFunctionOnSet(Demands, Buckets)
  BY DEF LedgerAddsUp
<1>1. NetPaid \in Nat
  BY NetPaidNat
<1>2. /\ s.overpayment \in Nat
      /\ \A n \in Buckets : s.allocated[n] \in 0..Demand(n)
      /\ \A n \in Buckets : s.allocated[n] > 0 =>
           \A k \in 1..(n - 1) : s.allocated[k] = Demand(k)
      /\ s.overpayment > 0 => \A n \in Buckets : s.allocated[n] = Demand(n)
      /\ SumFunctionOnSet(s.allocated, Buckets) + s.overpayment = NetPaid
  BY <1>1, SnapshotFacts
<1> HIDE DEF s
<1> DEFINE Full == \A n \in Buckets : s.allocated[n] = Demand(n)
           got == SumFunctionOnSet(s.allocated, Buckets)
           due == SumFunctionOnSet(Demands, Buckets)
           over == s.overpayment
<1>3. Full <=> \A i \in 1..Len(Schedule) : InstallmentPaid(s, i)
  BY BucketFacts DEF InstallmentPaid
<1>4. \A n \in Buckets : /\ s.allocated[n] \in Int /\ Demands[n] \in Int
                         /\ s.allocated[n] <= Demands[n] /\ Demands[n] = Demand(n)
  BY <1>2, BucketFacts
<1>5. got \in Int /\ due \in Int /\ got <= due
  <2> DEFINE a == s.allocated
  <2>1. \A n \in Buckets : a[n] \in Int /\ Demands[n] \in Int /\ a[n] <= Demands[n]
    BY <1>4
  <2> HIDE DEF a
  <2>2. /\ SumFunctionOnSet(a, Buckets) \in Int
        /\ SumFunctionOnSet(Demands, Buckets) \in Int
        /\ SumFunctionOnSet(a, Buckets) <= SumFunctionOnSet(Demands, Buckets)
    BY <2>1, BucketFacts, SumType, SumAtMost
  <2> QED
    BY <2>2 DEF a
<1>6. Full <=> got = due
  <2> DEFINE a == s.allocated
  <2>1. \A n \in Buckets : a[n] \in Int /\ Demands[n] \in Int /\ a[n] <= Demands[n]
    BY <1>4
  <2>2. Full <=> \A n \in Buckets : a[n] = Demands[n]
    BY <1>4
  <2> HIDE DEF a, Full
  <2>3. (\A n \in Buckets : a[n] = Demands[n]) =>
          SumFunctionOnSet(a, Buckets) = SumFunctionOnSet(Demands, Buckets)
    BY <2>1, BucketFacts, SumSame
  <2>4. SumFunctionOnSet(a, Buckets) = SumFunctionOnSet(Demands, Buckets) =>
          \A n \in Buckets : a[n] = Demands[n]
    BY <2>1, BucketFacts, SumTight
  <2> QED
    BY <2>2, <2>3, <2>4 DEF a
<1>7. over > 0 => Full
  BY <1>2
<1>8. over \in Nat /\ got + over = NetPaid
  BY <1>2
<1>9. Exceptions(s, Len(Schedule)) = {} <=> Full /\ over = 0
  <2> HIDE DEF Full
  <2>1. (1..over = {}) <=> over = 0
    BY <1>8
  <2>2. Exceptions(s, Len(Schedule)) = {}
          <=> (\A i \in 1..Len(Schedule) : InstallmentPaid(s, i)) /\ 1..over = {}
    BY DEF Exceptions
  <2> QED
    BY <1>3, <2>1, <2>2
<1>10. Full /\ over = 0 <=> NetPaid = due
  <2> HIDE DEF Full, got, due, over
  <2> QED
    BY <1>5, <1>6, <1>7, <1>8
<1>11. over > 0 => \A i \in DOMAIN Schedule : InstallmentPaid(s, i)
  BY <1>3, <1>7, BucketFacts
<1> QED
  BY <1>1, <1>2, <1>9, <1>10, <1>11

\* The ledger accounts for every unit that was paid and not taken back, whatever
\* the schedule and whatever was recorded.
THEOREM LedgerReconciles == Spec => []LedgerAddsUp
<1>1. Init => HistoryOK
  <2> SUFFICES ASSUME Init PROVE HistoryOK
    OBVIOUS
  <2>1. OnFile = {} /\ Reversals = {}
    BY DEF Init, RepaymentsInit, OnFile, Reversals, NoEvent
  <2> QED
    BY <2>1, FS_EmptySet DEF HistoryOK
<1>2. IInv /\ HistoryOK /\ [Next]_vars => HistoryOK'
  <2> SUFFICES ASSUME IInv, HistoryOK, [Next]_vars PROVE HistoryOK'
    OBVIOUS
  <2>1. CASE Collect
    <3>1. RepaymentsTypeOK
      BY DEF IInv, TypeInv, TypeOK
    <3> QED
      BY <2>1, <3>1, HistoryStep DEF Collect
  <2>2. CASE UNCHANGED event
    BY <2>2 DEF HistoryOK, OnFile, Reversals, Payments
  <2>3. ~Collect => UNCHANGED event
    BY DEF Next, Decide, Notify, WorkOnConditions, Secure, Contract, Monitor, Settle,
           Recover, Around, vars, servicing, repayments
  <2> QED
    BY <2>1, <2>2, <2>3
<1>3. IInv /\ HistoryOK => LedgerAddsUp
  BY LedgerFollows DEF IInv, TypeInv, TypeOK
<1> QED
  BY <1>1, <1>2, <1>3, Invariance, PTL DEF Spec
===============================================================================
