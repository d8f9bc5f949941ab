-------------------------- MODULE DisbursementProofs --------------------------
(****************************************************************************)
(* Proofs about Disbursement, for any number of overlapping requests, any   *)
(* actors and roles, any number of case versions and of attempts, and any   *)
(* claim of a human who reconciles, at any moment.                          *)
(****************************************************************************)
EXTENDS Disbursement, FiniteSetTheorems, TLAPS

\* The assumptions on the constants, and the labels.
LEMMA Constants ==
  /\ Nobody \notin Actors
  /\ MaxVersion \in Nat /\ MaxVersion > 0 /\ MaxAttempts \in Nat
  /\ IsFiniteSet(Requests)
  /\ Makers \subseteq Actors /\ Checkers \subseteq Actors
  BY ActorsAssumption, LimitsAssumption, RequestsAssumption DEF Actors

LEMMA Labels ==
  /\ PC = {"create", "validate", "authorize", "execute", "reconcile", "idle",
           "insert", "gate1", "gate2", "request", "adapter", "record"}
  /\ Status = {"NONE", "PROPOSED", "EXECUTION_REQUESTED", "EXECUTION_UNKNOWN",
               "CONFIRMED_EXECUTED", "CONFIRMED_NOT_EXECUTED"}
  /\ Results = {"CONFIRMED_EXECUTED", "EXECUTION_UNKNOWN", "none"}
  BY DEF PC, Operations, Status, Results, Reattemptable, Reconcilable, Outcomes

(****************************************************************************)
(* What each step of a request may rely on, although the gates were read by *)
(* an earlier step: nothing a request has found is ever taken back.         *)
(****************************************************************************)
\* A row has a creator, an approval and the conditions gate; a gate belongs to a
\* row, and the second one to somebody other than the first.
RowsControlled ==
  \A v \in Versions :
    /\ status[v] # "NONE" <=> creator[v] # Nobody
    /\ status[v] # "NONE" => decision[v] = "APPROVAL" /\ v \in conditions
    /\ validator[v] # Nobody => status[v] # "NONE"
    /\ authorizer[v] # Nobody =>
         validator[v] # Nobody /\ validator[v] # authorizer[v]
    /\ moved[v] > 0 => authorizer[v] # Nobody

\* What a request has found is still so.
FoundStillHolds ==
  \A r \in Requests :
    /\ pc[r] # "idle" => who[r] \in Actors
    /\ pc[r] \in {"execute", "request", "adapter", "record"} =>
         who[r] \in Checkers
    /\ pc[r] = "insert" =>
         decision[ver[r]] = "APPROVAL" /\ ver[r] \in conditions
    /\ pc[r] = "gate1" => status[ver[r]] # "NONE"
    /\ pc[r] = "gate2" =>
         validator[ver[r]] # Nobody /\ validator[ver[r]] # who[r]
    /\ pc[r] \in {"request", "adapter", "record"} =>
         authorizer[ver[r]] # Nobody /\ creator[ver[r]] # who[r]

ControlInv == TypeOK /\ RowsControlled /\ FoundStillHolds

\* An answer that the funds have moved is true.
AnswersTrue ==
  \A r \in Requests :
    pc[r] = "record" /\ result[r] = "CONFIRMED_EXECUTED" => moved[ver[r]] > 0

FundsInv == MovementsAccounted /\ ExecutedVouched /\ AnswersTrue

-------------------------------------------------------------------------------
LEMMA TypeInit == Init => TypeOK
<1> SUFFICES ASSUME Init PROVE TypeOK
  OBVIOUS
<1>1. 1 \in Versions /\ 0 \in 0..MaxAttempts
  BY Constants DEF Versions
<1>2. "idle" \in PC /\ "NONE" \in Status /\ "none" \in Results
  BY Labels
<1> QED
  BY <1>1, <1>2 DEF Init, TypeOK

\* Every step keeps the types, whatever outcome a reconciliation claims.
LEMMA TypeStep == TypeOK /\ [Next]_vars => TypeOK'
<1> SUFFICES ASSUME TypeOK, [Next]_vars PROVE TypeOK'
  OBVIOUS
<1> USE Constants DEF TypeOK, gates, funds, reconciled, local, Goto, Answer
<1>a. 1 \in Versions
  BY DEF Versions
<1>1. CASE BumpCaseVersion
  <2>1. caseVersion' \in Versions
    BY <1>1 DEF BumpCaseVersion, Versions
  <2> QED
    BY <1>1, <2>1 DEF BumpCaseVersion
<1>2. ASSUME NEW v \in Versions, NEW d \in {"APPROVAL", "OTHER"},
             RecordDecision(v, d)
      PROVE  TypeOK'
  BY <1>2 DEF RecordDecision
<1>3. ASSUME NEW v \in Versions, ConfirmConditions(v) PROVE TypeOK'
  BY <1>3 DEF ConfirmConditions
<1>4. ASSUME NEW r \in Requests, NEW op \in Operations, NEW x \in Actors,
             Begin(r, op, x)
      PROVE  TypeOK'
  <2>1. op \in PC
    BY DEF PC
  <2> QED
    BY <1>4, <2>1 DEF Begin
<1>5. ASSUME NEW r \in Requests,
             CheckCreate(r) \/ CheckValidate(r) \/ CheckAuthorize(r)
               \/ CheckExecute(r)
      PROVE  TypeOK'
  BY <1>5, <1>a, Labels
     DEF CheckCreate, CheckValidate, CheckAuthorize, CheckExecute, Check
<1>6. ASSUME NEW r \in Requests, CreateAction(r) PROVE TypeOK'
  BY <1>6, <1>a, Labels DEF CreateAction
<1>7. ASSUME NEW r \in Requests, Validate(r) \/ Authorize(r) PROVE TypeOK'
  BY <1>7, <1>a, Labels DEF Validate, Authorize, Satisfied
<1>8. ASSUME NEW r \in Requests, RequestExecution(r) PROVE TypeOK'
  BY <1>8, <1>a, Labels DEF RequestExecution
<1>9. ASSUME NEW r \in Requests, RunAdapter(r) PROVE TypeOK'
  BY <1>9, Labels DEF RunAdapter, AdapterResults
<1>10. ASSUME NEW r \in Requests, RecordExecution(r) PROVE TypeOK'
  BY <1>10, <1>a, Labels
     DEF RecordExecution, Edge, Reattemptable, Reconcilable, Outcomes
<1>11. ASSUME NEW r \in Requests, Reconcile(r) PROVE TypeOK'
  <2>1. CASE UNCHANGED <<status, reconciled>>
    BY <1>11, <2>1, <1>a, Labels DEF Reconcile
  <2>2. ASSUME NEW outcome \in {"CONFIRMED_EXECUTED", "CONFIRMED_NOT_EXECUTED"},
               status' = [status EXCEPT ![ver[r]] = outcome]
        PROVE  TypeOK'
    <3>1. outcome \in Status
      BY Labels
    <3>2. /\ reopened' \in [Versions -> Nat]
          /\ confirmed' \in [Versions -> Nat]
      BY <1>11 DEF Reconcile
    <3> QED
      BY <1>11, <2>2, <3>1, <3>2, <1>a, Labels DEF Reconcile
  <2> QED
    BY <1>11, <2>1, <2>2 DEF Reconcile, Outcomes
<1>12. ASSUME NEW r \in Requests, Crash(r) PROVE TypeOK'
  BY <1>12, <1>a, Labels DEF Crash
<1>13. CASE UNCHANGED vars
  BY <1>13 DEF vars
<1> HIDE DEF TypeOK
<1> QED
  BY <1>1, <1>2, <1>3, <1>4, <1>5, <1>6, <1>7, <1>8, <1>9, <1>10, <1>11, <1>12,
     <1>13 DEF Next, Step
-------------------------------------------------------------------------------
LEMMA ControlInit == Init => RowsControlled /\ FoundStillHolds
  BY DEF Init, RowsControlled, FoundStillHolds

\* Rows, gates and decisions only ever come, with what they rest on.
LEMMA RowsStep == ControlInv /\ [Next]_vars => RowsControlled'
<1> SUFFICES ASSUME ControlInv, [Next]_vars PROVE RowsControlled'
  OBVIOUS
<1> USE Constants
    DEF ControlInv, TypeOK, RowsControlled, gates, funds, reconciled, local,
        Goto, Answer
<1>1. CASE BumpCaseVersion
  BY <1>1 DEF BumpCaseVersion
<1>2. ASSUME NEW v \in Versions, NEW d \in {"APPROVAL", "OTHER"},
             RecordDecision(v, d)
      PROVE  RowsControlled'
  BY <1>2 DEF RecordDecision
<1>3. ASSUME NEW v \in Versions, ConfirmConditions(v) PROVE RowsControlled'
  BY <1>3 DEF ConfirmConditions
<1>4. ASSUME NEW r \in Requests, NEW op \in Operations, NEW x \in Actors,
             Begin(r, op, x)
      PROVE  RowsControlled'
  BY <1>4 DEF Begin
<1>5. ASSUME NEW r \in Requests,
             CheckCreate(r) \/ CheckValidate(r) \/ CheckAuthorize(r)
               \/ CheckExecute(r)
      PROVE  RowsControlled'
  BY <1>5 DEF CheckCreate, CheckValidate, CheckAuthorize, CheckExecute, Check
<1>6. ASSUME NEW r \in Requests, CreateAction(r) PROVE RowsControlled'
  BY <1>6 DEF CreateAction, FoundStillHolds
<1>7. ASSUME NEW r \in Requests, Validate(r) PROVE RowsControlled'
  BY <1>7 DEF Validate, Satisfied, FoundStillHolds
<1>8. ASSUME NEW r \in Requests, Authorize(r) PROVE RowsControlled'
  BY <1>8 DEF Authorize, Satisfied, FoundStillHolds
<1>9. ASSUME NEW r \in Requests, RequestExecution(r) PROVE RowsControlled'
  BY <1>9 DEF RequestExecution, StartsAttempt, Reattemptable
<1>10. ASSUME NEW r \in Requests, RunAdapter(r) PROVE RowsControlled'
  BY <1>10 DEF RunAdapter, FoundStillHolds
<1>11. ASSUME NEW r \in Requests, RecordExecution(r) PROVE RowsControlled'
  BY <1>11 DEF RecordExecution, Edge, Reattemptable, Reconcilable, Outcomes
<1>12. ASSUME NEW r \in Requests, Reconcile(r) PROVE RowsControlled'
  BY <1>12 DEF Reconcile, Reconcilable, Outcomes
<1>13. ASSUME NEW r \in Requests, Crash(r) PROVE RowsControlled'
  BY <1>13 DEF Crash
<1>14. CASE UNCHANGED vars
  BY <1>14 DEF vars
<1> HIDE DEF RowsControlled
<1> QED
  BY <1>1, <1>2, <1>3, <1>4, <1>5, <1>6, <1>7, <1>8, <1>9, <1>10, <1>11, <1>12,
     <1>13, <1>14 DEF Next, Step

\* What a request has found is not taken back by itself or by another.
LEMMA FoundStep == ControlInv /\ [Next]_vars => FoundStillHolds'
<1> SUFFICES ASSUME ControlInv, [Next]_vars PROVE FoundStillHolds'
  OBVIOUS
<1> USE Constants
    DEF ControlInv, TypeOK, FoundStillHolds, gates, funds, reconciled, local,
        Goto, Answer
<1>1. CASE BumpCaseVersion
  BY <1>1 DEF BumpCaseVersion
<1>2. ASSUME NEW v \in Versions, NEW d \in {"APPROVAL", "OTHER"},
             RecordDecision(v, d)
      PROVE  FoundStillHolds'
  BY <1>2 DEF RecordDecision
<1>3. ASSUME NEW v \in Versions, ConfirmConditions(v) PROVE FoundStillHolds'
  BY <1>3 DEF ConfirmConditions
<1>4. ASSUME NEW r \in Requests, NEW op \in Operations, NEW x \in Actors,
             Begin(r, op, x)
      PROVE  FoundStillHolds'
  BY <1>4 DEF Begin, Operations, MayUse
<1>5. ASSUME NEW r \in Requests, CheckCreate(r) PROVE FoundStillHolds'
  BY <1>5 DEF CheckCreate, Check, MayCreate
<1>6. ASSUME NEW r \in Requests, CheckValidate(r) PROVE FoundStillHolds'
  BY <1>6 DEF CheckValidate, Check, Exists
<1>7. ASSUME NEW r \in Requests, CheckAuthorize(r) PROVE FoundStillHolds'
  BY <1>7 DEF CheckAuthorize, Check, MayAuthorize, Seen
<1>8. ASSUME NEW r \in Requests, CheckExecute(r) PROVE FoundStillHolds'
  BY <1>8 DEF CheckExecute, Check, MayExecute, Seen
<1>9. ASSUME NEW r \in Requests, CreateAction(r) PROVE FoundStillHolds'
  BY <1>9 DEF CreateAction, RowsControlled
<1>10. ASSUME NEW r \in Requests, Validate(r) PROVE FoundStillHolds'
  BY <1>10 DEF Validate, Satisfied
<1>11. ASSUME NEW r \in Requests, Authorize(r) PROVE FoundStillHolds'
  BY <1>11 DEF Authorize, Satisfied
<1>12. ASSUME NEW r \in Requests, RequestExecution(r) PROVE FoundStillHolds'
  BY <1>12 DEF RequestExecution
<1>13. ASSUME NEW r \in Requests, RunAdapter(r) PROVE FoundStillHolds'
  BY <1>13 DEF RunAdapter
<1>14. ASSUME NEW r \in Requests, RecordExecution(r) PROVE FoundStillHolds'
  BY <1>14 DEF RecordExecution, Edge, Reattemptable, Reconcilable, Outcomes
<1>15. ASSUME NEW r \in Requests, Reconcile(r) PROVE FoundStillHolds'
  BY <1>15 DEF Reconcile, Outcomes
<1>16. ASSUME NEW r \in Requests, Crash(r) PROVE FoundStillHolds'
  BY <1>16 DEF Crash
<1>17. CASE UNCHANGED vars
  BY <1>17 DEF vars
<1> HIDE DEF FoundStillHolds
<1> QED
  BY <1>1, <1>2, <1>3, <1>4, <1>5, <1>6, <1>7, <1>8, <1>9, <1>10, <1>11, <1>12,
     <1>13, <1>14, <1>15, <1>16, <1>17 DEF Next, Step

LEMMA ControlImplies == ControlInv => DualControl
  BY DEF ControlInv, RowsControlled, FoundStillHolds, DualControl, UnderWay,
         TypeOK

\* The inductive invariant of the dual control, of every behaviour.
THEOREM ControlInductive == Spec => []ControlInv
<1>1. Init => ControlInv
  BY TypeInit, ControlInit DEF ControlInv
<1>2. ControlInv /\ [Next]_vars => ControlInv'
  BY TypeStep, RowsStep, FoundStep DEF ControlInv
<1> QED
  BY <1>1, <1>2, PTL DEF Spec

\* Type correctness: no row, gate or request ever holds a value outside its set,
\* whatever outcome the adapter or a reconciliation brings.
THEOREM TypeCorrect == Spec => []TypeOK
<1>1. ControlInv => TypeOK
  BY DEF ControlInv
<1> QED
  BY ControlInductive, <1>1, PTL

\* Funds move only under an approval, the conditions gate, two gates of two
\* different people and an executor other than the maker, although execute and
\* authorize check the gates in one transaction and act in another.
THEOREM FundsControlled == Spec => []DualControl
  BY ControlInductive, ControlImplies, PTL
-------------------------------------------------------------------------------
(****************************************************************************)
(* The funds. How many adapter calls of a version are running is a number:  *)
(* there are finitely many requests.                                        *)
(****************************************************************************)
LEMMA CallingFinite ==
  ASSUME NEW v \in Versions
  PROVE  /\ IsFiniteSet(Calling(v)) /\ Cardinality(Calling(v)) \in Nat
         /\ IsFiniteSet(Calling(v)') /\ Cardinality(Calling(v)') \in Nat
<1>1. Calling(v) \subseteq Requests /\ Calling(v)' \subseteq Requests
  BY DEF Calling
<1> QED
  BY <1>1, Constants, FS_Subset, FS_CardinalityType

\* A call that ends, by its answer or a crash, is counted no more; only a request
\* on record adds one.
LEMMA CallBegins ==
  ASSUME TypeOK, NEW v \in Versions, NEW r \in Requests,
         pc[r] # "adapter", ver[r] = v,
         pc' = [pc EXCEPT ![r] = "adapter"], UNCHANGED ver
  PROVE  Cardinality(Calling(v)') = Cardinality(Calling(v)) + 1
<1>1. Calling(v)' = Calling(v) \cup {r} /\ r \notin Calling(v)
  BY DEF TypeOK, Calling
<1> QED
  BY <1>1, CallingFinite, FS_AddElement

LEMMA CallAnswered ==
  ASSUME TypeOK, NEW v \in Versions, NEW r \in Requests,
         pc[r] = "adapter", ver[r] = v,
         pc' = [pc EXCEPT ![r] = "record"], UNCHANGED ver
  PROVE  Cardinality(Calling(v)') = Cardinality(Calling(v)) - 1
<1>1. Calling(v)' = Calling(v) \ {r} /\ r \in Calling(v)
  BY DEF TypeOK, Calling
<1> QED
  BY <1>1, CallingFinite, FS_RemoveElement

LEMMA CallsNoMore ==
  ASSUME NEW v \in Versions, Calling(v)' \subseteq Calling(v)
  PROVE  Cardinality(Calling(v)') <= Cardinality(Calling(v))
  BY CallingFinite, FS_Subset

LEMMA FundsInit == Init => FundsInv
<1> SUFFICES ASSUME Init PROVE FundsInv
  OBVIOUS
<1>1. \A v \in Versions : Cardinality(Calling(v)) = 0
  <2> SUFFICES ASSUME NEW v \in Versions PROVE Calling(v) = {}
    BY FS_EmptySet
  <2> QED
    BY DEF Init, Calling
<1> QED
  BY <1>1 DEF Init, FundsInv, MovementsAccounted, ExecutedVouched, AnswersTrue,
              Reattemptable

\* No step but a request adds a call, and none but an answer moves the funds.
LEMMA CallsStep ==
  ASSUME TypeOK, [Next]_vars, NEW v \in Versions,
         moved[v] + Cardinality(Calling(v)) <= requested[v]
  PROVE  (moved[v] + Cardinality(Calling(v)) <= requested[v])'
<1> DEFINE Goal == (moved[v] + Cardinality(Calling(v)) <= requested[v])'
<1>a. moved[v] \in Nat /\ requested[v] \in Nat
  BY Constants DEF TypeOK
<1>b. PICK m, n \in Nat :
        m = Cardinality(Calling(v)) /\ n = Cardinality(Calling(v)')
  BY CallingFinite
<1>c. ASSUME UNCHANGED <<moved, requested>>, Calling(v)' \subseteq Calling(v)
      PROVE  Goal
  BY <1>a, <1>b, <1>c, CallsNoMore
<1>1. ASSUME NEW r \in Requests, RequestExecution(r) PROVE Goal
  <2>1. CASE pc' = [pc EXCEPT ![r] = "adapter"] /\ ver[r] = v
    <3>1. n = m + 1
      BY <1>1, <1>b, <2>1, CallBegins DEF RequestExecution, Goto, Answer, TypeOK
    <3>2. moved'[v] = moved[v] /\ requested'[v] = requested[v] + 1
      BY <1>1, <2>1 DEF RequestExecution, Goto, Answer, TypeOK
    <3> QED
      BY <1>a, <1>b, <3>1, <3>2
  <2>2. CASE ~(pc' = [pc EXCEPT ![r] = "adapter"] /\ ver[r] = v)
    <3>1. Calling(v)' \subseteq Calling(v)
      BY <1>1, <2>2 DEF RequestExecution, Goto, Answer, TypeOK, Calling
    <3>2. moved'[v] = moved[v] /\ requested'[v] = requested[v]
      BY <1>1, <2>2 DEF RequestExecution, Goto, Answer, TypeOK
    <3> QED
      BY <1>a, <1>b, <3>1, <3>2, CallsNoMore
  <2> QED
    BY <2>1, <2>2
<1>2. ASSUME NEW r \in Requests, RunAdapter(r) PROVE Goal
  <2>1. CASE ver[r] = v
    <3>1. n = m - 1
      BY <1>2, <1>b, <2>1, CallAnswered DEF RunAdapter
    <3>2. moved'[v] \in {moved[v], moved[v] + 1} /\ requested'[v] = requested[v]
      BY <1>2, <2>1 DEF RunAdapter, TypeOK
    <3> QED
      BY <1>a, <1>b, <3>1, <3>2
  <2>2. CASE ver[r] # v
    <3>1. Calling(v)' \subseteq Calling(v)
      BY <1>2, <2>2 DEF RunAdapter, TypeOK, Calling
    <3>2. moved'[v] = moved[v] /\ requested'[v] = requested[v]
      BY <1>2, <2>2 DEF RunAdapter, TypeOK
    <3> QED
      BY <1>a, <1>b, <3>1, <3>2, CallsNoMore
  <2> QED
    BY <2>1, <2>2
<1>3. \/ UNCHANGED <<moved, requested>> /\ Calling(v)' \subseteq Calling(v)
      \/ \E r \in Requests : RequestExecution(r) \/ RunAdapter(r)
  <2> USE DEF TypeOK, Calling, gates, funds, reconciled, local, Goto, Answer
  <2>1. CASE UNCHANGED <<moved, requested, pc, ver>>
    BY <2>1
  <2>2. ASSUME NEW r \in Requests, NEW op \in Operations, NEW x \in Actors,
               Begin(r, op, x)
        PROVE  UNCHANGED <<moved, requested>> /\ Calling(v)' \subseteq Calling(v)
    BY <2>2 DEF Begin, Operations
  <2>3. ASSUME NEW r \in Requests,
               \/ CheckCreate(r) \/ CheckValidate(r) \/ CheckAuthorize(r)
               \/ CheckExecute(r) \/ CreateAction(r) \/ Validate(r)
               \/ Authorize(r) \/ RecordExecution(r) \/ Reconcile(r) \/ Crash(r)
        PROVE  UNCHANGED <<moved, requested>> /\ Calling(v)' \subseteq Calling(v)
    BY <2>3 DEF CheckCreate, CheckValidate, CheckAuthorize, CheckExecute, Check,
                CreateAction, Validate, Authorize, RecordExecution, Reconcile,
                Crash
  <2>4. \/ UNCHANGED <<moved, requested, pc, ver>>
        \/ \E r \in Requests : Step(r)
    BY DEF Next, vars, BumpCaseVersion, RecordDecision, ConfirmConditions
  <2> QED
    BY <2>1, <2>2, <2>3, <2>4 DEF Step
<1> QED
  BY <1>1, <1>2, <1>3, <1>c

\* What the row, its receipts and the audit trail say stays in step.
RowInv ==
  /\ \A v \in Versions :
       /\ requested[v] = reopened[v]
            + IF status[v] \in Reattemptable \cup {"NONE"} THEN 0 ELSE 1
       /\ status[v] \in {"NONE", "PROPOSED"} => requested[v] = 0
  /\ ExecutedVouched /\ AnswersTrue

LEMMA RowStep == TypeOK /\ RowInv /\ [Next]_vars => RowInv'
<1> SUFFICES ASSUME TypeOK, RowInv, [Next]_vars PROVE RowInv'
  OBVIOUS
<1> USE Constants
    DEF TypeOK, RowInv, ExecutedVouched, AnswersTrue, Reattemptable, gates,
        funds, reconciled, local, Goto, Answer
<1>1. CASE UNCHANGED <<funds, pc, ver, result>>
  BY <1>1
<1>2. ASSUME NEW r \in Requests, NEW op \in Operations, NEW x \in Actors,
             Begin(r, op, x)
      PROVE  RowInv'
  BY <1>2 DEF Begin, Operations
<1>3. ASSUME NEW r \in Requests,
             CheckCreate(r) \/ CheckValidate(r) \/ CheckAuthorize(r)
               \/ CheckExecute(r)
      PROVE  RowInv'
  BY <1>3 DEF CheckCreate, CheckValidate, CheckAuthorize, CheckExecute, Check
<1>4. ASSUME NEW r \in Requests, CreateAction(r) PROVE RowInv'
  BY <1>4 DEF CreateAction
<1>5. ASSUME NEW r \in Requests, Validate(r) \/ Authorize(r) PROVE RowInv'
  BY <1>5 DEF Validate, Authorize
<1>6. ASSUME NEW r \in Requests, RequestExecution(r) PROVE RowInv'
  <2> DEFINE w == ver[r]
  <2>1. CASE StartsAttempt(status[w])
    <3>1. status[w] \in {"PROPOSED", "CONFIRMED_NOT_EXECUTED"}
      BY <2>1 DEF StartsAttempt
    <3>2. /\ requested' = [requested EXCEPT ![w] = @ + 1]
          /\ status' = [status EXCEPT ![w] = "EXECUTION_REQUESTED"]
          /\ pc' = [pc EXCEPT ![r] = "adapter"]
          /\ UNCHANGED <<moved, receipts, reopened, confirmed, ver, result>>
      BY <1>6, <2>1 DEF RequestExecution
    <3> QED
      BY <3>1, <3>2
  <2>2. CASE ~StartsAttempt(status[w])
    BY <1>6, <2>2 DEF RequestExecution
  <2> QED
    BY <2>1, <2>2
<1>7. ASSUME NEW r \in Requests, RunAdapter(r) PROVE RowInv'
  BY <1>7 DEF RunAdapter
<1>8. ASSUME NEW r \in Requests, RecordExecution(r) PROVE RowInv'
  <2> DEFINE w == ver[r]
  <2>1. CASE Edge(status[w], result[r])
    <3>1. /\ status[w] \in {"EXECUTION_REQUESTED", "EXECUTION_UNKNOWN"}
          /\ result[r] \in {"CONFIRMED_EXECUTED", "EXECUTION_UNKNOWN"}
      BY <1>8, <2>1, Labels DEF RecordExecution, Edge, Reconcilable, Outcomes
    <3>2. /\ status' = [status EXCEPT ![w] = result[r]]
          /\ receipts' = [receipts EXCEPT ![w] =
               IF result[r] = "CONFIRMED_EXECUTED" THEN @ + 1 ELSE @]
          /\ pc[r] = "record" /\ pc' = [pc EXCEPT ![r] = "idle"]
          /\ ver' = [ver EXCEPT ![r] = 1]
          /\ result' = [result EXCEPT ![r] = "none"]
          /\ UNCHANGED <<moved, requested, reopened, confirmed>>
      BY <1>8, <2>1, <3>1 DEF RecordExecution, Edge, Reconcilable, Outcomes
    <3>3. AnswersTrue'
      BY <3>2
    <3>4. CASE result[r] = "CONFIRMED_EXECUTED"
      BY <3>1, <3>2, <3>3, <3>4
    <3>5. CASE result[r] = "EXECUTION_UNKNOWN"
      BY <3>1, <3>2, <3>3, <3>5
    <3> QED
      BY <3>1, <3>4, <3>5
  <2>2. CASE ~Edge(status[w], result[r])
    BY <1>8, <2>2 DEF RecordExecution
  <2> QED
    BY <2>1, <2>2
<1>9. ASSUME NEW r \in Requests, Reconcile(r) PROVE RowInv'
  <2> DEFINE w == ver[r]
  <2>1. CASE UNCHANGED <<status, reconciled>>
    BY <1>9, <2>1 DEF Reconcile
  <2>2. CASE status[w] \in Reconcilable
    <3>1. AnswersTrue'
      BY <1>9 DEF Reconcile
    <3>2. /\ status[w] \in {"EXECUTION_REQUESTED", "EXECUTION_UNKNOWN"}
          /\ UNCHANGED <<moved, receipts, requested>>
      BY <1>9, <2>2 DEF Reconcile, Reconcilable
    <3>3. CASE /\ status' = [status EXCEPT ![w] = "CONFIRMED_EXECUTED"]
               /\ confirmed' = [confirmed EXCEPT ![w] = @ + 1]
               /\ UNCHANGED reopened
      BY <3>1, <3>2, <3>3
    <3>4. CASE /\ status' = [status EXCEPT ![w] = "CONFIRMED_NOT_EXECUTED"]
               /\ reopened' = [reopened EXCEPT ![w] = @ + 1]
               /\ UNCHANGED confirmed
      BY <3>1, <3>2, <3>4
    <3> QED
      BY <1>9, <2>2, <3>3, <3>4 DEF Reconcile
  <2> QED
    BY <1>9, <2>1, <2>2 DEF Reconcile
<1>10. ASSUME NEW r \in Requests, Crash(r) PROVE RowInv'
  BY <1>10 DEF Crash
<1>11. \/ UNCHANGED <<funds, pc, ver, result>>
       \/ \E r \in Requests : Step(r)
  BY DEF Next, vars, BumpCaseVersion, RecordDecision, ConfirmConditions
<1> HIDE DEF RowInv
<1> QED
  BY <1>1, <1>2, <1>3, <1>4, <1>5, <1>6, <1>7, <1>8, <1>9, <1>10, <1>11 DEF Step

\* The inductive invariant of the funds, of every behaviour.
THEOREM FundsInductive == Spec => []FundsInv
<1>1. Init => FundsInv
  BY FundsInit
<1>2. TypeOK /\ FundsInv /\ [Next]_vars => FundsInv'
  <2> SUFFICES ASSUME TypeOK, FundsInv, [Next]_vars PROVE FundsInv'
    OBVIOUS
  <2>1. RowInv'
    BY RowStep DEF FundsInv, MovementsAccounted, RowInv
  <2>2. ASSUME NEW v \in Versions
        PROVE  (moved[v] + Cardinality(Calling(v)) <= requested[v])'
    BY CallsStep DEF FundsInv, MovementsAccounted
  <2> QED
    BY <2>1, <2>2 DEF FundsInv, MovementsAccounted, RowInv
<1> QED
  BY <1>1, <1>2, TypeCorrect, PTL DEF Spec

\* No sequence of executions, crashes, unknown and late results, and no
\* reconciliation, true or not, in time or not, moves funds without a request on
\* record of their own, or starts an attempt after the first without a human's
\* declaration of its own that the one before was not executed.
THEOREM MovementsRecorded == Spec => []MovementsAccounted
<1>1. FundsInv => MovementsAccounted
  BY DEF FundsInv
<1> QED
  BY FundsInductive, <1>1, PTL

\* An executed row has exactly one source, a receipt of a movement or a human,
\* although the result of an attempt may arrive after its reconciliation and
\* after a newer attempt.
THEOREM ExecutedOnce == Spec => []ExecutedVouched
<1>1. FundsInv => ExecutedVouched
  BY DEF FundsInv
<1> QED
  BY FundsInductive, <1>1, PTL
===============================================================================
