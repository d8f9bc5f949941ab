--------------------------- MODULE TaskQueueProofs ---------------------------
(****************************************************************************)
(* Proofs about TaskQueue, for any number of executions, tasks, messages,   *)
(* attempts, case versions and faults, with or without a skewed clock.      *)
(****************************************************************************)
EXTENDS TaskQueue, TLAPS

\* The assumptions on the constants, in one place.
LEMMA Constants ==
  /\ 1 <= MaxVersion
  /\ NoRun \notin Runs /\ Orphan \notin Runs /\ NoRun # Orphan
  /\ NoMsg \notin Msgs
  /\ Target \in [Msgs -> Tasks]
  /\ TaskVersion \in [Tasks -> Nat]
  /\ MaxAttempts \in Nat /\ MaxAttempts > 0
  /\ MaxVersion \in Nat /\ MaxCheckpoints \in Nat /\ MaxFaults \in Nat
<1>1. NoRun # Orphan
  BY DEF NoRun, Orphan
<1>2. NoRun \notin Runs /\ Orphan \notin Runs
  BY RunsAssumption
<1> QED
  BY <1>1, <1>2, MsgsAssumption, TargetAssumption, TaskVersionAssumption,
     MaxAttemptsAssumption, BoundsAssumption

\* Program labels and statuses, so that no proof expands these sets.
LEMMA Labels ==
  /\ PC = {"idle", "release", "reclaim", "read", "claim", "inspect", "archive",
           "claimed", "process", "checkpointed", "load", "commit", "except",
           "exceptRetry"}
  /\ Terminal \subseteq Status
  /\ {"ABSENT", "PENDING", "RUNNING", "RETRY_WAIT", "FAILED_MANUAL_REVIEW"}
       \subseteq Status
  /\ Results \subseteq Status /\ "RETRY_WAIT" \in Results
  BY DEF PC, BeforeMessage, AfterMessage, Holding, Renewing, Handling, Status,
         Results, Claimable, Terminal

\* Type correctness and the message an execution has in hand hold initially.
LEMMA TypeInit == Init => TypeOK /\ MessageInHand
<1> SUFFICES ASSUME Init PROVE TypeOK /\ MessageInHand
  OBVIOUS
<1>1. "idle" \notin AfterMessage \cup Handling
  BY DEF AfterMessage, Holding, Renewing, Handling
<1>2. MessageInHand
  BY <1>1 DEF Init, MessageInHand
<1>3. /\ caseVersion \in 1..MaxVersion
      /\ faults \in 0..MaxFaults
  BY Constants DEF Init
<1>7. slotLive \in BOOLEAN /\ slot \in Runs \cup {NoRun, Orphan}
  BY Zenon DEF Init
<1>4. /\ status \in [Tasks -> Status]
      /\ attempt \in [Tasks -> Nat] /\ saved \in [Tasks -> Nat]
      /\ token \in [Tasks -> Runs \cup {NoRun, Orphan}]
  BY Labels DEF Init
<1>5. /\ pc \in [Runs -> PC]
      /\ beat \in [Runs -> {"task", "slot", "visibility"}]
      /\ msg \in [Runs -> Msgs \cup {NoMsg}]
      /\ latest \in [Runs -> Nat] /\ result \in [Runs -> Results]
  BY Labels DEF Init
<1>6. /\ live \subseteq Tasks /\ ready \subseteq Tasks /\ sent \subseteq Msgs
      /\ visible \subseteq sent /\ archived \subseteq sent
  BY DEF Init
<1> QED
  BY <1>2, <1>3, <1>4, <1>5, <1>6, <1>7 DEF TypeOK

\* Every step keeps the types, given that an execution past read_one has a
\* message in hand.
LEMMA TypeStep == TypeOK /\ MessageInHand /\ [Next]_vars => TypeOK'
<1> SUFFICES ASSUME TypeOK, MessageInHand, [Next]_vars PROVE TypeOK'
  OBVIOUS
<1> USE Constants DEF TypeOK, row, queue, worker, local, Goto
<1>m. \A r \in Runs : pc[r] \in {"claim", "load", "process", "archive"} =>
        msg[r] \in sent /\ TaskOf(r) \in Tasks
  BY DEF MessageInHand, AfterMessage, Holding, Renewing, TaskOf
<1>1. ASSUME NEW t \in Tasks, CreateTask(t) PROVE TypeOK'
  BY <1>1, Labels DEF CreateTask
<1>2. ASSUME NEW m \in Msgs, Send(m) PROVE TypeOK'
  BY <1>2 DEF Send
<1>3. CASE BumpCaseVersion
  BY <1>3 DEF BumpCaseVersion
<1>4. ASSUME NEW t \in Tasks, ExpireTask(t) PROVE TypeOK'
  BY <1>4 DEF ExpireTask
<1>5. ASSUME NEW t \in Tasks, BackoffElapsed(t) PROVE TypeOK'
  BY <1>5 DEF BackoffElapsed
<1>6. CASE ExpireSlot
  BY <1>6 DEF ExpireSlot
<1>7. ASSUME NEW m \in Msgs, MessageVisible(m) PROVE TypeOK'
  BY <1>7 DEF MessageVisible
<1>8. ASSUME NEW r \in Runs, AcquireSlot(r) PROVE TypeOK'
  BY <1>8, Labels DEF AcquireSlot
<1>9. ASSUME NEW r \in Runs, ReclaimStranded(r) PROVE TypeOK'
  BY <1>9, Labels DEF ReclaimStranded, GiveBack, AfterFailure
<1>10. ASSUME NEW r \in Runs, NEW m \in Msgs, Read(r, m) PROVE TypeOK'
  BY <1>10, Labels DEF Read
<1>11. ASSUME NEW r \in Runs, ReadNone(r) PROVE TypeOK'
  BY <1>11, Labels DEF ReadNone
<1>12. ASSUME NEW r \in Runs, Claim(r) PROVE TypeOK'
  BY <1>12, <1>m, Labels DEF Claim
<1>13. ASSUME NEW r \in Runs, ClaimNone(r) PROVE TypeOK'
  BY <1>13, Labels DEF ClaimNone
<1>14. ASSUME NEW r \in Runs, Inspect(r) PROVE TypeOK'
  BY <1>14, Labels DEF Inspect
<1>15. ASSUME NEW r \in Runs, RenewTask(r) PROVE TypeOK'
  BY <1>15, Labels DEF RenewTask
<1>16. ASSUME NEW r \in Runs, RenewSlot(r) PROVE TypeOK'
  BY <1>16, Labels DEF RenewSlot
<1>17. ASSUME NEW r \in Runs, RenewVisibility(r) PROVE TypeOK'
  BY <1>17, Labels DEF RenewVisibility
<1>18. ASSUME NEW r \in Runs, LoadCheckpoint(r) PROVE TypeOK'
  BY <1>18, <1>m, Labels DEF LoadCheckpoint
<1>19. ASSUME NEW r \in Runs, SaveCheckpoint(r) PROVE TypeOK'
  BY <1>19, <1>m, Labels DEF SaveCheckpoint
<1>20. ASSUME NEW r \in Runs, NEW res \in Results, Finish(r, res) PROVE TypeOK'
  BY <1>20, Labels DEF Finish
<1>21. ASSUME NEW r \in Runs, Commit(r) PROVE TypeOK'
  BY <1>21, Labels DEF Commit, TerminalUpdate, RetryOrFail, GiveBack, AfterFailure
<1>22. ASSUME NEW r \in Runs, Archive(r) PROVE TypeOK'
  BY <1>22, <1>m, Labels DEF Archive
<1>23. ASSUME NEW r \in Runs, Except(r) PROVE TypeOK'
  BY <1>23, Labels DEF Except
<1>24. ASSUME NEW r \in Runs, ExceptRetry(r) PROVE TypeOK'
  BY <1>24, Labels DEF ExceptRetry, RetryOrFail, GiveBack, AfterFailure
<1>25. ASSUME NEW r \in Runs, Release(r) PROVE TypeOK'
  BY <1>25, Labels DEF Release, Ended
<1>26. ASSUME NEW r \in Runs, Raise(r) PROVE TypeOK'
  BY <1>26, Labels DEF Raise, Fault
<1>27. ASSUME NEW r \in Runs, Cancel(r) PROVE TypeOK'
  BY <1>27, Labels DEF Cancel, Fault
<1>28. ASSUME NEW r \in Runs, Crash(r) PROVE TypeOK'
  BY <1>28, Labels DEF Crash, Fault, Ended
<1>29. CASE UNCHANGED vars
  BY <1>29 DEF vars
<1> HIDE DEF TypeOK
<1> QED
  BY <1>1, <1>2, <1>3, <1>4, <1>5, <1>6, <1>7, <1>8, <1>9, <1>10, <1>11, <1>12,
     <1>13, <1>14, <1>15, <1>16, <1>17, <1>18, <1>19, <1>20, <1>21, <1>22, <1>23,
     <1>24, <1>25, <1>26, <1>27, <1>28, <1>29
  DEF Next, Produce, Time, RunStep, Faulty

------------------------------------------------------------------------------
\* The invariants that are not types.
Rest ==
  /\ MessageInHand
  /\ LeaseDiscipline
  /\ RetryBudget
  /\ ArchivesFinished
  /\ ArchivedOnlyTerminal
  /\ ResumesFromLatest

\* They hold initially: no row exists, no execution runs, nothing is archived.
LEMMA RestInit == Init => Rest
<1> SUFFICES ASSUME Init PROVE Rest
  OBVIOUS
<1>1. MessageInHand
  BY TypeInit
<1>2. LeaseDiscipline
  BY Constants DEF Init, LeaseDiscipline, Running
<1>3. RetryBudget
  BY Constants DEF Init, RetryBudget, Claimable
<1>4. ArchivesFinished /\ ArchivedOnlyTerminal /\ ResumesFromLatest
  BY DEF Init, ArchivesFinished, ArchivedOnlyTerminal, ResumesFromLatest
<1> QED
  BY <1>1, <1>2, <1>3, <1>4 DEF Rest

\* Every step of the queue keeps them.  A row is written only through the fence
\* (SaveCheckpoint, Commit, ExceptRetry), through claim, which needs a claimable
\* row, or by the sweep of RUNNING rows; a message is archived only by an
\* execution that has seen or made the end of its task.
LEMMA RestStep == IInv /\ [Next]_vars => Rest'
<1> SUFFICES ASSUME IInv, [Next]_vars PROVE Rest'
  OBVIOUS
<1> USE Constants, Labels
    DEF IInv, TypeOK, Rest, MessageInHand, LeaseDiscipline, RetryBudget,
        ArchivesFinished, ArchivedOnlyTerminal, ResumesFromLatest, row, queue,
        worker, local, Goto, TaskOf, Running, Claimable, Terminal,
        AfterMessage, BeforeMessage, Holding, Renewing, Handling
<1>1. ASSUME NEW t \in Tasks, CreateTask(t) PROVE Rest'
  BY <1>1 DEF CreateTask
<1>2. ASSUME NEW m \in Msgs, Send(m) PROVE Rest'
  BY <1>2 DEF Send
<1>3. ASSUME BumpCaseVersion PROVE Rest'
  BY <1>3 DEF BumpCaseVersion
<1>4. ASSUME NEW t \in Tasks, ExpireTask(t) PROVE Rest'
  BY <1>4 DEF ExpireTask
<1>5. ASSUME NEW t \in Tasks, BackoffElapsed(t) PROVE Rest'
  BY <1>5 DEF BackoffElapsed
<1>6. ASSUME ExpireSlot PROVE Rest'
  BY <1>6 DEF ExpireSlot
<1>7. ASSUME NEW m \in Msgs, MessageVisible(m) PROVE Rest'
  BY <1>7 DEF MessageVisible
<1>8. ASSUME NEW r \in Runs, AcquireSlot(r) PROVE Rest'
  BY <1>8 DEF AcquireSlot
<1>9. ASSUME NEW r \in Runs, ReclaimStranded(r) PROVE Rest'
  <2>1. MessageInHand'
    BY <1>9 DEF ReclaimStranded, GiveBack, AfterFailure, Exhausted, Stranded,
           Running
  <2>2. LeaseDiscipline'
    BY <1>9 DEF ReclaimStranded, GiveBack, AfterFailure, Exhausted, Stranded,
           Running
  <2>3. RetryBudget'
    BY <1>9, SMTT(60) DEF ReclaimStranded, GiveBack, AfterFailure, Exhausted, Stranded,
           Running
  <2>4. ArchivesFinished'
    BY <1>9 DEF ReclaimStranded, GiveBack, AfterFailure, Exhausted, Stranded,
           Running
  <2>5. ArchivedOnlyTerminal'
    BY <1>9 DEF ReclaimStranded, GiveBack, AfterFailure, Exhausted, Stranded,
           Running
  <2>6. ResumesFromLatest'
    BY <1>9 DEF ReclaimStranded, GiveBack, AfterFailure, Exhausted, Stranded,
           Running
  <2> HIDE DEF MessageInHand, LeaseDiscipline, RetryBudget,
             ArchivesFinished, ArchivedOnlyTerminal, ResumesFromLatest
  <2> QED
    BY <2>6, <2>1, <2>3, <2>2, <2>5, <2>4 DEF Rest
<1>10. ASSUME NEW r \in Runs, NEW m \in Msgs, Read(r, m) PROVE Rest'
  BY <1>10 DEF Read
<1>11. ASSUME NEW r \in Runs, ReadNone(r) PROVE Rest'
  BY <1>11 DEF ReadNone
<1>12. ASSUME NEW r \in Runs, Claim(r) PROVE Rest'
  BY <1>12 DEF Claim, CanClaim
<1>13. ASSUME NEW r \in Runs, ClaimNone(r) PROVE Rest'
  BY <1>13 DEF ClaimNone
<1>14. ASSUME NEW r \in Runs, Inspect(r) PROVE Rest'
  BY <1>14 DEF Inspect
<1>15. ASSUME NEW r \in Runs, RenewTask(r) PROVE Rest'
  BY <1>15 DEF RenewTask
<1>16. ASSUME NEW r \in Runs, RenewSlot(r) PROVE Rest'
  BY <1>16 DEF RenewSlot
<1>17. ASSUME NEW r \in Runs, RenewVisibility(r) PROVE Rest'
  BY <1>17 DEF RenewVisibility
<1>18. ASSUME NEW r \in Runs, LoadCheckpoint(r) PROVE Rest'
  BY <1>18 DEF LoadCheckpoint
<1>19. ASSUME NEW r \in Runs, SaveCheckpoint(r) PROVE Rest'
  BY <1>19 DEF SaveCheckpoint, MayCheckpoint, RowAccepted, Fence
<1>20. ASSUME NEW r \in Runs, NEW res \in Results, Finish(r, res) PROVE Rest'
  BY <1>20 DEF Finish
<1>21. ASSUME NEW r \in Runs, Commit(r) PROVE Rest'
  <2>1. MessageInHand'
    BY <1>21 DEF Commit, TerminalUpdate, RetryOrFail, GiveBack, AfterFailure,
           Exhausted, Fence
  <2>2. LeaseDiscipline'
    BY <1>21 DEF Commit, TerminalUpdate, RetryOrFail, GiveBack, AfterFailure,
           Exhausted, Fence
  <2>3. RetryBudget'
    BY <1>21, SMTT(60) DEF Commit, TerminalUpdate, RetryOrFail, GiveBack, AfterFailure,
           Exhausted, Fence
  <2>4. ArchivesFinished'
    BY <1>21 DEF Commit, TerminalUpdate, RetryOrFail, GiveBack, AfterFailure,
           Exhausted, Fence
  <2>5. ArchivedOnlyTerminal'
    BY <1>21 DEF Commit, TerminalUpdate, RetryOrFail, GiveBack, AfterFailure,
           Exhausted, Fence
  <2>6. ResumesFromLatest'
    BY <1>21 DEF Commit, TerminalUpdate, RetryOrFail, GiveBack, AfterFailure,
           Exhausted, Fence
  <2> HIDE DEF MessageInHand, LeaseDiscipline, RetryBudget,
             ArchivesFinished, ArchivedOnlyTerminal, ResumesFromLatest
  <2> QED
    BY <2>6, <2>1, <2>3, <2>2, <2>5, <2>4 DEF Rest
<1>22. ASSUME NEW r \in Runs, Archive(r) PROVE Rest'
  BY <1>22 DEF Archive
<1>23. ASSUME NEW r \in Runs, Except(r) PROVE Rest'
  BY <1>23 DEF Except
<1>24. ASSUME NEW r \in Runs, ExceptRetry(r) PROVE Rest'
  <2>1. MessageInHand'
    BY <1>24 DEF ExceptRetry, RetryOrFail, GiveBack, AfterFailure, Exhausted,
           Fence
  <2>2. LeaseDiscipline'
    BY <1>24 DEF ExceptRetry, RetryOrFail, GiveBack, AfterFailure, Exhausted,
           Fence
  <2>3. RetryBudget'
    BY <1>24 DEF ExceptRetry, RetryOrFail, GiveBack, AfterFailure, Exhausted,
           Fence
  <2>4. ArchivesFinished'
    BY <1>24 DEF ExceptRetry, RetryOrFail, GiveBack, AfterFailure, Exhausted,
           Fence
  <2>5. ArchivedOnlyTerminal'
    BY <1>24 DEF ExceptRetry, RetryOrFail, GiveBack, AfterFailure, Exhausted,
           Fence
  <2>6. ResumesFromLatest'
    BY <1>24 DEF ExceptRetry, RetryOrFail, GiveBack, AfterFailure, Exhausted,
           Fence
  <2> HIDE DEF MessageInHand, LeaseDiscipline, RetryBudget,
             ArchivesFinished, ArchivedOnlyTerminal, ResumesFromLatest
  <2> QED
    BY <2>6, <2>1, <2>3, <2>2, <2>5, <2>4 DEF Rest
<1>25. ASSUME NEW r \in Runs, Release(r) PROVE Rest'
  BY <1>25 DEF Release, Ended
<1>26. ASSUME NEW r \in Runs, Raise(r) PROVE Rest'
  BY <1>26 DEF Raise, Fault
<1>27. ASSUME NEW r \in Runs, Cancel(r) PROVE Rest'
  BY <1>27 DEF Cancel, Fault
<1>28. ASSUME NEW r \in Runs, Crash(r) PROVE Rest'
  BY <1>28 DEF Crash, Fault, Ended
<1>29. ASSUME UNCHANGED vars PROVE Rest'
  BY <1>29 DEF vars
<1> HIDE DEF Rest
<1> QED
  BY <1>1, <1>2, <1>3, <1>4, <1>5, <1>6, <1>7, <1>8, <1>9, <1>10, <1>11, <1>12,
     <1>13, <1>14, <1>15, <1>16, <1>17, <1>18, <1>19, <1>20, <1>21, <1>22,
     <1>23, <1>24, <1>25, <1>26, <1>27, <1>28, <1>29
  DEF Next, Produce, Time, RunStep, Faulty

\* The inductive invariant holds in every reachable state.
THEOREM Inductive == Spec => []IInv
<1>1. Init => IInv
  BY TypeInit, RestInit DEF IInv, Rest
<1>2. IInv /\ [Next]_vars => IInv'
  <2> SUFFICES ASSUME IInv, [Next]_vars PROVE IInv'
    OBVIOUS
  <2>1. TypeOK'
    BY TypeStep DEF IInv
  <2>2. Rest'
    BY RestStep
  <2> QED
    BY <2>1, <2>2 DEF IInv, Rest
<1> QED
  BY <1>1, <1>2, PTL DEF Spec

\* Every variable keeps its type, whatever the number of executions, tasks,
\* messages and faults.
THEOREM TypeCorrect == Spec => []TypeOK
<1>1. IInv => TypeOK
  BY DEF IInv
<1> QED
  BY <1>1, Inductive, PTL

\* run_once never archives the message of a task that is not finished for good.
THEOREM ArchiveSafe == Spec => []ArchivedOnlyTerminal
<1>1. IInv => ArchivedOnlyTerminal
  BY DEF IInv
<1> QED
  BY <1>1, Inductive, PTL

\* No task is claimed with its attempts used up, although claim does not look
\* at attempt_count; manual review is reached with the last attempt only.
THEOREM AttemptsBounded == Spec => []RetryBudget
<1>1. IInv => RetryBudget
  BY DEF IInv
<1> QED
  BY <1>1, Inductive, PTL

\* A row carries the token of exactly the execution that works on it, and only
\* while it is RUNNING.
THEOREM LeasesDisciplined == Spec => []LeaseDiscipline
<1>1. IInv => LeaseDiscipline
  BY DEF IInv
<1> QED
  BY <1>1, Inductive, PTL

\* A leaseholder numbers its checkpoints after the last one stored.
THEOREM CheckpointsInOrder == Spec => []ResumesFromLatest
<1>1. IInv => ResumesFromLatest
  BY DEF IInv
<1> QED
  BY <1>1, Inductive, PTL
------------------------------------------------------------------------------
\* Every step of the queue is a step of the life cycle it promises, or changes
\* nothing the life cycle mentions: claim starts an attempt that is left, the
\* sweep and retry_or_fail write attempts off, the terminal updates end a RUNNING
\* task, archive settles the message of an ended one.
LEMMA LifecycleStep == IInv /\ [Next]_vars => [Lifecycle!Next]_(Lifecycle!vars)
<1> SUFFICES ASSUME IInv, [Next]_vars
             PROVE  Lifecycle!Next \/ UNCHANGED <<Phase, attempt, archived>>
  BY DEF Lifecycle!vars
<1> DEFINE Goal == Lifecycle!Next \/ UNCHANGED <<Phase, attempt, archived>>
<1> USE DEF row, queue, worker, local, Phase
<1>m. \A r \in Runs : pc[r] \in AfterMessage \cup Handling =>
        msg[r] \in Msgs /\ TaskOf(r) \in Tasks
  BY Constants DEF IInv, TypeOK, MessageInHand, TaskOf
<1>w. ASSUME NEW S \in SUBSET Running, GiveBack(S), UNCHANGED archived
      PROVE  Goal
  <2>1. Lifecycle!WriteOff(S)
    BY <1>w, Constants
    DEF IInv, TypeOK, RetryBudget, GiveBack, AfterFailure, Exhausted, Running,
        Lifecycle!WriteOff
  <2>2. S \in SUBSET Tasks
    BY DEF Running
  <2> QED
    BY <2>1, <2>2 DEF Lifecycle!Next
<1>1. ASSUME NEW t \in Tasks, CreateTask(t) PROVE Goal
  <2>0. status' = [status EXCEPT ![t] = "PENDING"] /\ status \in [Tasks -> Status]
    BY <1>1 DEF CreateTask, IInv, TypeOK
  <2>2. Phase[t] = "ABSENT" /\ UNCHANGED <<attempt, archived>>
    BY <1>1 DEF CreateTask
  <2>3. Phase' = [Phase EXCEPT ![t] = "WAITING"]
    BY <2>0
  <2>1. Lifecycle!Create(t)
    BY <2>2, <2>3 DEF Lifecycle!Create
  <2> QED
    BY <2>1 DEF Lifecycle!Next
<1>2. ASSUME NEW m \in Msgs, Send(m) PROVE Goal
  BY <1>2 DEF Send
<1>3. ASSUME BumpCaseVersion PROVE Goal
  BY <1>3 DEF BumpCaseVersion
<1>4. ASSUME NEW t \in Tasks, ExpireTask(t) PROVE Goal
  BY <1>4 DEF ExpireTask
<1>5. ASSUME NEW t \in Tasks, BackoffElapsed(t) PROVE Goal
  BY <1>5 DEF BackoffElapsed
<1>6. ASSUME ExpireSlot PROVE Goal
  BY <1>6 DEF ExpireSlot
<1>7. ASSUME NEW m \in Msgs, MessageVisible(m) PROVE Goal
  BY <1>7 DEF MessageVisible
<1>8. ASSUME NEW r \in Runs, AcquireSlot(r) PROVE Goal
  BY <1>8 DEF AcquireSlot
<1>9. ASSUME NEW r \in Runs, ReclaimStranded(r) PROVE Goal
  <2>1. PICK S \in Stranded : GiveBack(S)
    BY <1>9 DEF ReclaimStranded
  <2>2. S \in SUBSET Running /\ UNCHANGED archived
    BY <1>9 DEF ReclaimStranded, Stranded
  <2> QED
    BY <2>1, <2>2, <1>w
<1>10. ASSUME NEW r \in Runs, NEW m \in Msgs, Read(r, m) PROVE Goal
  BY <1>10 DEF Read
<1>11. ASSUME NEW r \in Runs, ReadNone(r) PROVE Goal
  BY <1>11 DEF ReadNone
<1>12. ASSUME NEW r \in Runs, Claim(r) PROVE Goal
  <2>1. TaskOf(r) \in Tasks
    BY <1>12, <1>m DEF Claim, AfterMessage
  <2> DEFINE t == TaskOf(r)
  <2>2. /\ status[t] \in {"PENDING", "RETRY_WAIT"} /\ attempt[t] < MaxAttempts
        /\ status' = [status EXCEPT ![t] = "RUNNING"] /\ status \in [Tasks -> Status]
        /\ attempt' = [attempt EXCEPT ![t] = @ + 1] /\ UNCHANGED archived
    BY <1>12, <2>1 DEF IInv, TypeOK, RetryBudget, Claim, CanClaim, Claimable
  <2>3. Phase[t] = "WAITING" /\ Phase' = [Phase EXCEPT ![t] = "RUNNING"]
    BY <2>1, <2>2
  <2> HIDE DEF Phase
  <2>4. Lifecycle!Start(t)
    BY <2>2, <2>3 DEF Lifecycle!Start
  <2> QED
    BY <2>1, <2>4 DEF Lifecycle!Next
<1>13. ASSUME NEW r \in Runs, ClaimNone(r) PROVE Goal
  BY <1>13 DEF ClaimNone
<1>14. ASSUME NEW r \in Runs, Inspect(r) PROVE Goal
  BY <1>14 DEF Inspect
<1>15. ASSUME NEW r \in Runs, RenewTask(r) PROVE Goal
  BY <1>15 DEF RenewTask
<1>16. ASSUME NEW r \in Runs, RenewSlot(r) PROVE Goal
  BY <1>16 DEF RenewSlot
<1>17. ASSUME NEW r \in Runs, RenewVisibility(r) PROVE Goal
  BY <1>17 DEF RenewVisibility
<1>18. ASSUME NEW r \in Runs, LoadCheckpoint(r) PROVE Goal
  BY <1>18 DEF LoadCheckpoint
<1>19. ASSUME NEW r \in Runs, SaveCheckpoint(r) PROVE Goal
  BY <1>19 DEF SaveCheckpoint
<1>20. ASSUME NEW r \in Runs, NEW res \in Results, Finish(r, res) PROVE Goal
  BY <1>20 DEF Finish
<1>21. ASSUME NEW r \in Runs, Commit(r) PROVE Goal
  <2> DEFINE t == TaskOf(r)
  <2>1. t \in Tasks /\ UNCHANGED archived
    BY <1>21, <1>m DEF Commit, AfterMessage, Holding
  <2>2. CASE Fence(r, t) /\ TerminalUpdate(t, result[r])
              /\ result[r] \in {"SUCCEEDED", "SUPERSEDED"}
    <3> DEFINE s == result[r]
    <3>1. /\ status[t] = "RUNNING" /\ status' = [status EXCEPT ![t] = s]
          /\ status \in [Tasks -> Status] /\ UNCHANGED <<attempt, archived>>
      BY <2>1, <2>2 DEF Fence, TerminalUpdate, IInv, TypeOK
    <3>4. s \in {"SUCCEEDED", "SUPERSEDED"}
      BY <2>2
    <3> HIDE DEF s, t
    <3>2. Phase[t] = "RUNNING" /\ Phase' = [Phase EXCEPT ![t] = s]
      BY <2>1, <3>1, <3>4
    <3> HIDE DEF Phase
    <3>3. Lifecycle!End(t, s)
      BY <3>1, <3>2, <3>4 DEF Lifecycle!End
    <3> QED
      BY <2>1, <3>3, <3>4 DEF Lifecycle!Next, Lifecycle!Ended
  <2>3. CASE Fence(r, t) /\ RetryOrFail(r, t)
    BY <2>1, <2>3, <1>w DEF Fence, RetryOrFail, Running
  <2>4. CASE UNCHANGED row
    BY <2>1, <2>4
  <2> QED
    BY <1>21, <2>2, <2>3, <2>4 DEF Commit
<1>22. ASSUME NEW r \in Runs, Archive(r) PROVE Goal
  <2>1. msg[r] \in Msgs /\ status[Target[msg[r]]] \in Terminal
    BY <1>22, <1>m DEF Archive, AfterMessage, IInv, ArchivesFinished, TaskOf
  <2>2. CASE UNCHANGED archived
    BY <1>22, <2>2 DEF Archive
  <2>3. CASE archived' = archived \cup {msg[r]}
    <3>2. Phase[Target[msg[r]]] \in Lifecycle!Ended /\ Phase' = Phase /\ UNCHANGED attempt
      BY <1>22, <2>1, Constants DEF Archive, Terminal, Lifecycle!Ended
    <3> HIDE DEF Phase
    <3>1. Lifecycle!Settle(msg[r])
      BY <2>3, <3>2 DEF Lifecycle!Settle
    <3> QED
      BY <2>1, <3>1 DEF Lifecycle!Next
  <2> QED
    BY <1>22, <2>2, <2>3 DEF Archive
<1>23. ASSUME NEW r \in Runs, Except(r) PROVE Goal
  BY <1>23 DEF Except
<1>24. ASSUME NEW r \in Runs, ExceptRetry(r) PROVE Goal
  <2> DEFINE t == TaskOf(r)
  <2>1. t \in Tasks /\ UNCHANGED archived
    BY <1>24, <1>m DEF ExceptRetry, Handling
  <2>2. CASE Fence(r, t) /\ RetryOrFail(r, t)
    BY <2>1, <2>2, <1>w DEF Fence, RetryOrFail, Running
  <2>3. CASE UNCHANGED row
    BY <2>1, <2>3
  <2> QED
    BY <1>24, <2>2, <2>3 DEF ExceptRetry
<1>25. ASSUME NEW r \in Runs, Release(r) PROVE Goal
  BY <1>25 DEF Release, Ended
<1>26. ASSUME NEW r \in Runs, Raise(r) PROVE Goal
  BY <1>26 DEF Raise
<1>27. ASSUME NEW r \in Runs, Cancel(r) PROVE Goal
  BY <1>27 DEF Cancel
<1>28. ASSUME NEW r \in Runs, Crash(r) PROVE Goal
  BY <1>28 DEF Crash, Ended
<1>29. ASSUME UNCHANGED vars PROVE Goal
  BY <1>29 DEF vars
<1> HIDE DEF Goal
<1>g. Goal
  BY <1>1, <1>2, <1>3, <1>4, <1>5, <1>6, <1>7, <1>8, <1>9, <1>10, <1>11, <1>12,
     <1>13, <1>14, <1>15, <1>16, <1>17, <1>18, <1>19, <1>20, <1>21, <1>22,
     <1>23, <1>24, <1>25, <1>26, <1>27, <1>28, <1>29
  DEF Next, Produce, Time, RunStep, Faulty
<1> QED
  BY <1>g DEF Goal

\* The queue, with its leases, overlapping executions, clock skew and faults,
\* implements TaskLifecycle.
THEOREM QueueImplementsLifecycle == Spec => ImplementsLifecycle
<1>1. Init => Lifecycle!Init
  BY DEF Init, Lifecycle!Init, Phase
<1> QED
  BY <1>1, LifecycleStep, Inductive, PTL DEF Spec, ImplementsLifecycle, Lifecycle!Spec
------------------------------------------------------------------------------
\* A task with a document: the database refuses none of its leaseholder's
\* checkpoints, whatever earlier executions of the task are still running.
THEOREM DocumentCheckpointsAccepted ==
  ASSUME DocumentTasks = Tasks PROVE Spec => CheckpointsAccepted
<1>1. IInv /\ [Next]_vars =>
        [\A r \in Runs :
           pc[r] = "process" /\ pc'[r] = "except" => faults' # faults]_vars
  <2> SUFFICES ASSUME IInv, Next, NEW q \in Runs,
                      pc[q] = "process", pc'[q] = "except", faults' = faults
               PROVE  FALSE
    OBVIOUS
  <2> USE DEF Goto, IInv, TypeOK
  <2>1. ASSUME NEW r \in Runs, SaveCheckpoint(r) PROVE FALSE
    <3>1. q = r
      BY <2>1 DEF SaveCheckpoint
    <3>2. TaskOf(q) \in Tasks
      BY Constants DEF MessageInHand, AfterMessage, Holding, Renewing, TaskOf
    <3>3. MayCheckpoint(q, TaskOf(q)) /\ ~RowAccepted(q, TaskOf(q))
      BY <2>1, <3>1 DEF SaveCheckpoint
    <3>4. latest[q] = saved[TaskOf(q)]
      BY <3>3 DEF MayCheckpoint, Fence, ResumesFromLatest
    <3>5. RowAccepted(q, TaskOf(q))
      BY <3>2, <3>4 DEF RowAccepted, ColumnsFilled
    <3> QED
      BY <3>3, <3>5
  <2>2. ASSUME NEW r \in Runs, Faulty(r) PROVE FALSE
    BY <2>2 DEF Faulty, Raise, Cancel, Crash, Fault
  <2>3. ASSUME Produce \/ Time PROVE FALSE
    BY <2>3
    DEF Produce, Time, CreateTask, Send, BumpCaseVersion, ExpireTask,
        BackoffElapsed, ExpireSlot, MessageVisible
  <2>4. ASSUME NEW r \in Runs, AcquireSlot(r) PROVE FALSE
    BY <2>4 DEF AcquireSlot
  <2>5. ASSUME NEW r \in Runs, RunStep(r), ~SaveCheckpoint(r) PROVE FALSE
    BY <2>5
    DEF RunStep, ReclaimStranded, Read, ReadNone, Claim, ClaimNone, Inspect,
        RenewTask, RenewSlot, RenewVisibility, LoadCheckpoint, Finish, Commit,
        RetryOrFail, Archive, Except, ExceptRetry, Release, Ended
  <2> QED
    BY <2>5, <2>4, <2>1, <2>2, <2>3 DEF Next
<1> QED
  BY <1>1, Inductive, PTL DEF Spec, CheckpointsAccepted

\* With synchronised clocks nobody but its holder takes a row out of an
\* unexpired lease.
THEOREM LiveLeases ==
  ASSUME SkewedClock = FALSE PROVE Spec => LiveLeaseRespected
<1> DEFINE Respected ==
      \A t \in live : status'[t] # status[t] =>
        /\ token[t] \in Runs
        /\ pc[token[t]] \in {"commit", "exceptRetry"}
        /\ pc'[token[t]] # pc[token[t]]
<1>1. IInv /\ [Next]_vars => [Respected]_vars
  <2> SUFFICES ASSUME IInv, Next, NEW t \in live, status'[t] # status[t]
               PROVE  /\ token[t] \in Runs
                      /\ pc[token[t]] \in {"commit", "exceptRetry"}
                      /\ pc'[token[t]] # pc[token[t]]
    OBVIOUS
  <2> USE DEF Goto, IInv, TypeOK, row
  <2>0. t \in Tasks /\ status[t] = "RUNNING"
    BY DEF LeaseDiscipline, Running
  <2>1. ASSUME NEW r \in Runs, Commit(r) \/ ExceptRetry(r)
        PROVE  /\ token[t] = r
               /\ pc[r] \in {"commit", "exceptRetry"}
               /\ pc'[r] # pc[r]
    BY <2>0, <2>1
    DEF Commit, ExceptRetry, TerminalUpdate, RetryOrFail, GiveBack, Fence
  <2>2. ASSUME NEW r \in Runs, ReclaimStranded(r) PROVE FALSE
    BY <2>0, <2>2 DEF ReclaimStranded, Stranded, GiveBack, Running
  <2>3. ASSUME Produce \/ Time PROVE FALSE
    BY <2>0, <2>3
    DEF Produce, Time, CreateTask, Send, BumpCaseVersion, ExpireTask,
        BackoffElapsed, ExpireSlot, MessageVisible
  <2>4. ASSUME NEW r \in Runs, AcquireSlot(r) \/ Faulty(r) PROVE FALSE
    BY <2>0, <2>4 DEF AcquireSlot, Faulty, Raise, Cancel, Crash
  <2>5. ASSUME NEW r \in Runs, Claim(r) PROVE FALSE
    BY <2>0, <2>5 DEF Claim, CanClaim, Claimable
  <2>6. ASSUME NEW r \in Runs, RunStep(r), ~Commit(r), ~ExceptRetry(r),
               ~ReclaimStranded(r), ~Claim(r)
        PROVE  FALSE
    BY <2>0, <2>6
    DEF RunStep, Read, ReadNone, ClaimNone, Inspect, RenewTask, RenewSlot,
        RenewVisibility, LoadCheckpoint, SaveCheckpoint, Finish, Archive,
        Except, Release
  <2> QED
    BY <2>5, <2>6, <2>1, <2>3, <2>2, <2>4 DEF Next, RunStep
<1> QED
  BY <1>1, Inductive, PTL DEF Spec, LiveLeaseRespected
==============================================================================
