------------------------------ MODULE TaskQueue ------------------------------
(****************************************************************************)
(* The durable task queue of one credit case: worker executions             *)
(* (application/use_cases/run_worker_once.py) that take turns on the single *)
(* global worker slot, read one pgmq message each, and drive one row of     *)
(* processing_tasks under a lease (infrastructure/postgres/tasks.py).       *)
(*                                                                          *)
(* Every database or queue call of the code is a transaction of its own,    *)
(* hence an action of its own; other executions, the passing of time, a     *)
(* crash and a bump of the case version happen between any two of them.     *)
(*                                                                          *)
(* Time is abstract. A lease is in "live" until the environment expires it, *)
(* a message is in "visible" once its visibility timeout has run out, a     *)
(* task is in "ready" once its available_at has passed.                     *)
(*                                                                          *)
(* A lease token is the identity of the execution that drew it (uuid4 per   *)
(* run_once). When that execution is over, the rows that still carry its    *)
(* token carry a value no running execution has: Orphan.                    *)
(****************************************************************************)
EXTENDS Naturals, FiniteSets

CONSTANTS
  Runs,            \* worker executions that may overlap (identities are reused)
  Tasks,           \* rows of processing_tasks of the case
  Msgs,            \* pgmq messages; two with one target are a duplicated send
  Target,          \* [Msgs -> Tasks], the task_id of the message's envelope
  DocumentTasks,   \* the tasks with a document_version_id (DOCUMENT_INGESTION);
                   \* the others are agent tasks of the case
  TaskVersion,     \* [Tasks -> Nat], the case_version the task is bound to
  MaxAttempts,     \* processing_tasks.max_attempts
  MaxVersion,      \* bound on the case version
  MaxCheckpoints,  \* bound on the checkpoints a processor saves for one task
  MaxFaults,       \* bound on crashes, cancellations and raised exceptions
  SkewedClock      \* TRUE: reclaim_stranded's clock may disagree with Postgres

NoRun == "none"      \* SQL null in a lease_token column
Orphan == "orphan"   \* the token of an execution that is over
NoMsg == "no message"

ASSUME RunsAssumption == {NoRun, Orphan} \cap Runs = {}
ASSUME MsgsAssumption == NoMsg \notin Msgs
ASSUME TargetAssumption == Target \in [Msgs -> Tasks]
ASSUME DocumentTasksAssumption == DocumentTasks \subseteq Tasks
ASSUME TaskVersionAssumption == TaskVersion \in [Tasks -> Nat]
ASSUME MaxAttemptsAssumption == MaxAttempts \in Nat \ {0}
ASSUME BoundsAssumption ==
  /\ MaxVersion \in Nat \ {0}
  /\ MaxCheckpoints \in Nat
  /\ MaxFaults \in Nat
  /\ SkewedClock \in BOOLEAN

VARIABLES
  caseVersion,  \* credit_cases.case_version
  status,       \* processing_tasks.status, "ABSENT" before the row is inserted
  attempt,      \* processing_tasks.attempt_count
  token,        \* processing_tasks.lease_token
  live,         \* tasks whose lease_until is in the future
  ready,        \* tasks whose available_at has passed
  saved,        \* highest sequence_no in task_checkpoints of the task
  sent,         \* messages pgmq.send has stored
  visible,      \* messages pgmq.read may return
  archived,     \* messages moved to the archive table
  slot,         \* worker_slots.lease_token of slot 1
  slotLive,     \* worker_slots.lease_until is in the future
  pc,           \* where each execution is in run_once
  beat,         \* the statement of _renew each execution is at
  msg,          \* the local variable message
  latest,       \* the local variable latest: its sequence_no, 0 for None
  result,       \* the status of the processor's StageResult
  faults        \* crashes, cancellations and exceptions so far

row == <<status, attempt, token, live, ready>>
queue == <<sent, visible, archived>>
worker == <<slot, slotLive>>
local == <<beat, msg, latest, result>>
vars == <<caseVersion, row, saved, queue, worker, pc, local, faults>>

Claimable == {"PENDING", "RETRY_WAIT"}
Terminal == {"SUCCEEDED", "SUPERSEDED", "FAILED_MANUAL_REVIEW"}
Status == Claimable \cup Terminal \cup {"ABSENT", "RUNNING"}
Results == Terminal \cup {"RETRY_WAIT"}

\* Program points inside the try block of run_once, before and after a message
\* was received, and inside its "except Exception" block.
BeforeMessage == {"reclaim", "read"}
Renewing == {"claimed", "process", "checkpointed"}
Holding == Renewing \cup {"load", "commit"}
AfterMessage == Holding \cup {"claim", "inspect", "archive"}
Handling == {"except", "exceptRetry"}
PC == {"idle", "release"} \cup BeforeMessage \cup AfterMessage \cup Handling

TaskOf(r) == Target[msg[r]]
Running == {t \in Tasks : status[t] = "RUNNING"}
Current(t) == caseVersion = TaskVersion[t]
\* Mutant of Fence: the row is found by its id alone.
FenceById(r, t) == status[t] # "ABSENT"

\* The fence of every write to a leased row: RUNNING, own token, unexpired.
Fence(r, t) == status[t] = "RUNNING" /\ token[t] = r /\ t \in live

TypeOK ==
  /\ caseVersion \in 1..MaxVersion
  /\ status \in [Tasks -> Status]
  /\ attempt \in [Tasks -> Nat]
  /\ token \in [Tasks -> Runs \cup {NoRun, Orphan}]
  /\ live \subseteq Tasks
  /\ ready \subseteq Tasks
  /\ saved \in [Tasks -> Nat]
  /\ sent \subseteq Msgs
  /\ visible \subseteq sent
  /\ archived \subseteq sent
  /\ slot \in Runs \cup {NoRun, Orphan}
  /\ slotLive \in BOOLEAN
  /\ pc \in [Runs -> PC]
  /\ beat \in [Runs -> {"task", "slot", "visibility"}]
  /\ msg \in [Runs -> Msgs \cup {NoMsg}]
  /\ latest \in [Runs -> Nat]
  /\ result \in [Runs -> Results]
  /\ faults \in 0..MaxFaults
------------------------------------------------------------------------------
Init ==
  /\ caseVersion = 1
  /\ status = [t \in Tasks |-> "ABSENT"]
  /\ attempt = [t \in Tasks |-> 0]
  /\ token = [t \in Tasks |-> NoRun]
  /\ live = {}
  /\ ready = {}
  /\ saved = [t \in Tasks |-> 0]
  /\ sent = {} /\ visible = {} /\ archived = {}
  /\ slot = NoRun /\ slotLive = FALSE
  /\ pc = [r \in Runs |-> "idle"]
  /\ beat = [r \in Runs |-> "task"]
  /\ msg = [r \in Runs |-> NoMsg]
  /\ latest = [r \in Runs |-> 0]
  /\ result = [r \in Runs |-> "RETRY_WAIT"]
  /\ faults = 0

Goto(r, label) == pc' = [pc EXCEPT ![r] = label]
------------------------------------------------------------------------------
(****************************************************************************)
(* Producers: a task row is inserted for the case version its creator read, *)
(* which may be an old one by then; the outbox dispatcher sends its         *)
(* envelope, possibly more than once.                                       *)
(****************************************************************************)
CreateTask(t) ==
  /\ status[t] = "ABSENT"
  /\ TaskVersion[t] <= caseVersion
  /\ status' = [status EXCEPT ![t] = "PENDING"]
  /\ ready' = ready \cup {t}
  /\ UNCHANGED <<caseVersion, attempt, token, live, saved, queue, worker, pc,
                 local, faults>>

Send(m) ==
  /\ m \notin sent
  /\ status[Target[m]] # "ABSENT"
  /\ sent' = sent \cup {m}
  /\ visible' = visible \cup {m}
  /\ UNCHANGED <<caseVersion, row, saved, archived, worker, pc, local, faults>>

BumpCaseVersion ==
  /\ caseVersion < MaxVersion
  /\ caseVersion' = caseVersion + 1
  /\ UNCHANGED <<row, saved, queue, worker, pc, local, faults>>
------------------------------------------------------------------------------
(****************************************************************************)
(* The passing of time, as Postgres and pgmq see it.                        *)
(****************************************************************************)
ExpireTask(t) ==
  /\ t \in live
  /\ live' = live \ {t}
  /\ UNCHANGED <<caseVersion, status, attempt, token, ready, saved, queue,
                 worker, pc, local, faults>>

ExpireSlot ==
  /\ slotLive
  /\ slotLive' = FALSE
  /\ UNCHANGED <<caseVersion, row, saved, queue, slot, pc, local, faults>>

MessageVisible(m) ==
  /\ m \in sent \ (visible \cup archived)
  /\ visible' = visible \cup {m}
  /\ UNCHANGED <<caseVersion, row, saved, sent, archived, worker, pc, local,
                 faults>>

BackoffElapsed(t) ==
  /\ status[t] = "RETRY_WAIT"
  /\ t \notin ready
  /\ ready' = ready \cup {t}
  /\ UNCHANGED <<caseVersion, status, attempt, token, live, saved, queue,
                 worker, pc, local, faults>>
------------------------------------------------------------------------------
(****************************************************************************)
(* One execution of run_once.                                               *)
(****************************************************************************)
\* try_acquire_worker_slot; an execution that gets no slot exits at once and
\* leaves no trace (NO_SLOT).
SlotFree == slot = NoRun \/ ~slotLive

AcquireSlot(r) ==
  /\ pc[r] = "idle"
  /\ SlotFree
  /\ slot' = r /\ slotLive' = TRUE
  /\ Goto(r, "reclaim")
  /\ UNCHANGED <<caseVersion, row, saved, queue, local, faults>>

\* The policy of retry_or_fail and reclaim_stranded: the attempt that was
\* counted by claim decides between another try and manual review.
Exhausted(t) == attempt[t] >= MaxAttempts

\* Mutant of AfterFailure: a status that is not one of TaskStatus.
AfterFailureUnknown(t) == IF Exhausted(t) THEN "FAILED" ELSE "RETRY_WAIT"

AfterFailure(t) == IF Exhausted(t) THEN "FAILED_MANUAL_REVIEW" ELSE "RETRY_WAIT"

\* Every task of S gives up its lease under that policy.
GiveBack(S) ==
  /\ status' = [t \in Tasks |-> IF t \in S THEN AfterFailure(t) ELSE status[t]]
  /\ token' = [t \in Tasks |-> IF t \in S THEN NoRun ELSE token[t]]
  /\ live' = live \ S
  /\ ready' = ready \ {t \in S : ~Exhausted(t)}
  /\ UNCHANGED attempt

\* Mutant of Stranded: the sweep takes every RUNNING row.
StrandedAll == {Running}

\* The rows reclaim_stranded may find expired: it compares with the clock of
\* the execution, every other fence with the clock of Postgres.
Stranded == IF SkewedClock THEN SUBSET Running ELSE {Running \ live}

\* Mutant of ReclaimStranded: the execution starts without the recovery sweep.
SkipReclaim(r) ==
  /\ pc[r] = "reclaim"
  /\ Goto(r, "read")
  /\ UNCHANGED <<caseVersion, row, saved, queue, worker, local, faults>>

ReclaimStranded(r) ==
  /\ pc[r] = "reclaim"
  /\ \E S \in Stranded : GiveBack(S)
  /\ Goto(r, "read")
  /\ UNCHANGED <<caseVersion, saved, queue, worker, local, faults>>

Read(r, m) ==
  /\ pc[r] = "read"
  /\ m \in visible
  /\ visible' = visible \ {m}
  /\ msg' = [msg EXCEPT ![r] = m]
  /\ Goto(r, "claim")
  /\ UNCHANGED <<caseVersion, row, saved, sent, archived, worker, beat, latest,
                 result, faults>>

ReadNone(r) ==
  /\ pc[r] = "read"
  /\ visible = {}
  /\ Goto(r, "release")
  /\ UNCHANGED <<caseVersion, row, saved, queue, worker, local, faults>>

CanClaim(t) ==
  /\ status[t] \in Claimable
  /\ t \in ready
  /\ t \notin live
  /\ Current(t)

Claim(r) ==
  LET t == TaskOf(r) IN
  /\ pc[r] = "claim"
  /\ CanClaim(t)
  /\ status' = [status EXCEPT ![t] = "RUNNING"]
  /\ attempt' = [attempt EXCEPT ![t] = @ + 1]
  /\ token' = [token EXCEPT ![t] = r]
  /\ live' = live \cup {t}
  /\ Goto(r, "claimed")
  /\ UNCHANGED <<caseVersion, ready, saved, queue, worker, local, faults>>

ClaimNone(r) ==
  /\ pc[r] = "claim"
  /\ ~CanClaim(TaskOf(r))
  /\ Goto(r, "inspect")
  /\ UNCHANGED <<caseVersion, row, saved, queue, worker, local, faults>>

\* Mutants of Inspect: a delivery that cannot be claimed is always archived,
\* and never archived.
InspectArchives(r) ==
  /\ pc[r] = "inspect"
  /\ Goto(r, "archive")
  /\ UNCHANGED <<caseVersion, row, saved, queue, worker, local, faults>>

InspectIgnores(r) ==
  /\ pc[r] = "inspect"
  /\ Goto(r, "release")
  /\ UNCHANGED <<caseVersion, row, saved, queue, worker, local, faults>>

\* A second delivery of a finished task is archived, any other one is left to
\* be delivered again.
Inspect(r) ==
  /\ pc[r] = "inspect"
  /\ Goto(r, IF status[TaskOf(r)] \in Terminal THEN "archive" ELSE "release")
  /\ UNCHANGED <<caseVersion, row, saved, queue, worker, local, faults>>
------------------------------------------------------------------------------
(****************************************************************************)
(* _renew: three statements, after the claim, after every checkpoint and,   *)
(* by the heartbeat, at any time while the processor works.  The first two  *)
(* are fenced; a refusal raises TaskLeaseLost, which ends the run as STALE. *)
(****************************************************************************)
RenewTask(r) ==
  /\ pc[r] \in Renewing
  /\ beat[r] = "task"
  /\ \/ /\ Fence(r, TaskOf(r))
        /\ beat' = [beat EXCEPT ![r] = "slot"]
        /\ UNCHANGED pc
     \/ /\ ~Fence(r, TaskOf(r))
        /\ Goto(r, "release")
        /\ UNCHANGED beat
  /\ UNCHANGED <<caseVersion, row, saved, queue, worker, msg, latest, result,
                 faults>>

RenewSlot(r) ==
  /\ pc[r] \in Renewing
  /\ beat[r] = "slot"
  /\ \/ /\ slot = r /\ slotLive
        /\ beat' = [beat EXCEPT ![r] = "visibility"]
        /\ UNCHANGED pc
     \/ /\ ~(slot = r /\ slotLive)
        /\ Goto(r, "release")
        /\ UNCHANGED beat
  /\ UNCHANGED <<caseVersion, row, saved, queue, worker, msg, latest, result,
                 faults>>

RenewVisibility(r) ==
  /\ pc[r] \in Renewing
  /\ beat[r] = "visibility"
  /\ visible' = visible \ {msg[r]}
  /\ beat' = [beat EXCEPT ![r] = "task"]
  /\ Goto(r, IF pc[r] = "claimed" THEN "load" ELSE "process")
  /\ UNCHANGED <<caseVersion, row, saved, sent, archived, worker, msg, latest,
                 result, faults>>

LoadCheckpoint(r) ==
  /\ pc[r] = "load"
  /\ latest' = [latest EXCEPT ![r] = saved[TaskOf(r)]]
  /\ Goto(r, "process")
  /\ UNCHANGED <<caseVersion, row, saved, queue, worker, beat, msg, result,
                 faults>>

\* Mutant of MayCheckpoint: the insert does not compare the lease token.
MayCheckpointUnfenced(r, t) == Current(t) /\ status[t] = "RUNNING"

\* The condition of the insert into task_checkpoints.
MayCheckpoint(r, t) == Current(t) /\ Fence(r, t)

\* The insert selects the task's own document_version_id.  The column is NOT
\* NULL in the table, so the row of an agent task is refused.
ColumnsFilled(t) == t \in DocumentTasks

\* The constraints of task_checkpoints: unique (task_id, sequence_no), where
\* save_checkpoint numbers with latest + 1, and NOT NULL.
RowAccepted(r, t) == latest[r] + 1 > saved[t] /\ ColumnsFilled(t)

\* save_checkpoint: a refused row is an exception like any other, a lost fence
\* (no row to insert) raises StaleTaskError.
SaveCheckpoint(r) ==
  LET t == TaskOf(r) IN
  /\ pc[r] = "process"
  /\ latest[r] < MaxCheckpoints
  /\ \/ /\ MayCheckpoint(r, t)
        /\ RowAccepted(r, t)
        /\ saved' = [saved EXCEPT ![t] = latest[r] + 1]
        /\ latest' = [latest EXCEPT ![r] = @ + 1]
        /\ beat' = [beat EXCEPT ![r] = "task"]
        /\ Goto(r, "checkpointed")
     \/ /\ MayCheckpoint(r, t)
        /\ ~RowAccepted(r, t)
        /\ Goto(r, "except")
        /\ UNCHANGED <<saved, latest, beat>>
     \/ /\ ~MayCheckpoint(r, t)
        /\ Goto(r, "release")
        /\ UNCHANGED <<saved, latest, beat>>
  /\ UNCHANGED <<caseVersion, row, queue, worker, msg, result, faults>>

\* The processor returns.  It reports SUPERSEDED only when it read a case
\* version other than the one the task is bound to.
Finish(r, res) ==
  /\ pc[r] = "process"
  /\ res = "SUPERSEDED" => ~Current(TaskOf(r))
  /\ result' = [result EXCEPT ![r] = res]
  /\ Goto(r, "commit")
  /\ UNCHANGED <<caseVersion, row, saved, queue, worker, beat, msg, latest,
                 faults>>
------------------------------------------------------------------------------
\* Mutant of TerminalUpdate: the lease is not cleared.
TerminalUpdateKeepsLease(t, s) ==
  /\ status' = [status EXCEPT ![t] = s]
  /\ UNCHANGED <<attempt, token, live, ready>>

\* succeed and mark_superseded
TerminalUpdate(t, s) ==
  /\ status' = [status EXCEPT ![t] = s]
  /\ token' = [token EXCEPT ![t] = NoRun]
  /\ live' = live \ {t}
  /\ UNCHANGED <<attempt, ready>>

\* retry_or_fail, and the archive that follows it for manual review only
RetryOrFail(r, t) ==
  /\ GiveBack({t})
  /\ Goto(r, IF Exhausted(t) THEN "archive" ELSE "release")

\* The durable transition for the processor's result.  Both RETRY_WAIT and
\* FAILED_MANUAL_REVIEW go through retry_or_fail.
Commit(r) ==
  LET t == TaskOf(r) IN
  /\ pc[r] = "commit"
  /\ \/ /\ Fence(r, t)
        /\ result[r] \in {"SUCCEEDED", "SUPERSEDED"}
        /\ TerminalUpdate(t, result[r])
        /\ Goto(r, "archive")
     \/ /\ Fence(r, t)
        /\ result[r] \notin {"SUCCEEDED", "SUPERSEDED"}
        /\ RetryOrFail(r, t)
     \/ /\ ~Fence(r, t)
        /\ Goto(r, "release")
        /\ UNCHANGED row
  /\ UNCHANGED <<caseVersion, saved, queue, worker, local, faults>>

\* pgmq.archive answers false for a message that is no longer in the queue,
\* which the adapter turns into a QueueError.
Archive(r) ==
  /\ pc[r] = "archive"
  /\ \/ /\ msg[r] \notin archived
        /\ archived' = archived \cup {msg[r]}
        /\ visible' = visible \ {msg[r]}
        /\ Goto(r, "release")
     \/ /\ msg[r] \in archived
        /\ Goto(r, "except")
        /\ UNCHANGED <<archived, visible>>
  /\ UNCHANGED <<caseVersion, row, saved, sent, worker, local, faults>>

\* "except Exception": look whether the row still carries this run's token,
\* then retry_or_fail in a second transaction.
Except(r) ==
  /\ pc[r] = "except"
  /\ Goto(r, IF token[TaskOf(r)] = r THEN "exceptRetry" ELSE "release")
  /\ UNCHANGED <<caseVersion, row, saved, queue, worker, local, faults>>

ExceptRetry(r) ==
  LET t == TaskOf(r) IN
  /\ pc[r] = "exceptRetry"
  /\ \/ Fence(r, t) /\ RetryOrFail(r, t)
     \/ ~Fence(r, t) /\ Goto(r, "release") /\ UNCHANGED row
  /\ UNCHANGED <<caseVersion, saved, queue, worker, local, faults>>

\* The execution is over: nobody knows its token any more.
Ended(r) ==
  /\ token' = [t \in Tasks |-> IF token[t] = r THEN Orphan ELSE token[t]]
  /\ pc' = [pc EXCEPT ![r] = "idle"]
  /\ beat' = [beat EXCEPT ![r] = "task"]
  /\ msg' = [msg EXCEPT ![r] = NoMsg]
  /\ latest' = [latest EXCEPT ![r] = 0]
  /\ result' = [result EXCEPT ![r] = "RETRY_WAIT"]

\* The finally block: release_worker_slot, fenced on the token.
Release(r) ==
  /\ pc[r] = "release"
  /\ slot' = IF slot = r THEN NoRun ELSE slot
  /\ slotLive' = (slotLive /\ slot # r)
  /\ Ended(r)
  /\ UNCHANGED <<caseVersion, status, attempt, live, ready, saved, queue,
                 faults>>
------------------------------------------------------------------------------
(****************************************************************************)
(* Faults.  An exception of a call, before or after its effect; a           *)
(* cancellation; a crash, which releases nothing.                           *)
(****************************************************************************)
Fault == faults < MaxFaults /\ faults' = faults + 1

Raise(r) ==
  /\ Fault
  /\ \/ pc[r] \in AfterMessage /\ Goto(r, "except")
     \/ pc[r] \in BeforeMessage \cup Handling /\ Goto(r, "release")
  /\ UNCHANGED <<caseVersion, row, saved, queue, worker, local>>

Cancel(r) ==
  /\ Fault
  /\ pc[r] \in AfterMessage
  /\ Goto(r, "release")
  /\ UNCHANGED <<caseVersion, row, saved, queue, worker, local>>

Crash(r) ==
  /\ Fault
  /\ pc[r] # "idle"
  /\ slot' = IF slot = r THEN Orphan ELSE slot
  /\ Ended(r)
  /\ UNCHANGED <<caseVersion, status, attempt, live, ready, saved, queue,
                 slotLive>>
------------------------------------------------------------------------------
\* The steps of an execution that is past the slot.
RunStep(r) ==
  \/ ReclaimStranded(r)
  \/ \E m \in Msgs : Read(r, m)
  \/ ReadNone(r)
  \/ Claim(r) \/ ClaimNone(r) \/ Inspect(r)
  \/ RenewTask(r) \/ RenewSlot(r) \/ RenewVisibility(r)
  \/ LoadCheckpoint(r) \/ SaveCheckpoint(r)
  \/ \E res \in Results : Finish(r, res)
  \/ Commit(r) \/ Archive(r)
  \/ Except(r) \/ ExceptRetry(r) \/ Release(r)

Faulty(r) == Raise(r) \/ Cancel(r) \/ Crash(r)

Time ==
  \/ \E t \in Tasks : ExpireTask(t) \/ BackoffElapsed(t)
  \/ ExpireSlot
  \/ \E m \in Msgs : MessageVisible(m)

Produce ==
  \/ \E t \in Tasks : CreateTask(t)
  \/ \E m \in Msgs : Send(m)
  \/ BumpCaseVersion

Next ==
  \/ Produce
  \/ Time
  \/ \E r \in Runs : AcquireSlot(r) \/ RunStep(r) \/ Faulty(r)

Spec == Init /\ [][Next]_vars

(****************************************************************************)
(* Fairness.  Every call of an execution returns and the processor          *)
(* terminates; Cloud Scheduler starts an execution every minute; a lease,   *)
(* a visibility timeout or a backoff that nobody renews runs out.  A worker  *)
(* reads each message again and again: a message that was read is hidden    *)
(* for five minutes, so the others get their turn (strong fairness).        *)
(****************************************************************************)
Fairness ==
  /\ \A r \in Runs : WF_vars(RunStep(r))
  /\ \A r \in Runs : WF_vars(\E res \in Results : Finish(r, res))
  /\ WF_vars(\E r \in Runs : AcquireSlot(r))
  /\ \A m \in Msgs : SF_vars(\E r \in Runs : Read(r, m))
  /\ \A m \in Msgs : WF_vars((\A r \in Runs : msg[r] # m) /\ MessageVisible(m))
  /\ \A t \in Tasks : WF_vars(token[t] \notin Runs /\ ExpireTask(t))
  /\ \A t \in Tasks : WF_vars(BackoffElapsed(t))
  /\ WF_vars(slot \notin Runs /\ ExpireSlot)

FairSpec == Spec /\ Fairness
------------------------------------------------------------------------------
(****************************************************************************)
(* Properties                                                               *)
(****************************************************************************)
\* run_once, class docstring: the queue message is never archived before the
\* corresponding durable task transition.  Whatever executions overlap, an
\* archived message belongs to a task that is finished for good.
ArchivedOnlyTerminal == \A m \in archived : status[Target[m]] \in Terminal

\* Between the durable transition and the archive of the message: the task has
\* already ended.  What makes ArchivedOnlyTerminal inductive.
ArchivesFinished ==
  \A r \in Runs : pc[r] = "archive" => status[TaskOf(r)] \in Terminal

\* An execution past read_one has a message that was sent.
MessageInHand ==
  \A r \in Runs : pc[r] \in AfterMessage \cup Handling => msg[r] \in sent

\* claim does not look at attempt_count; retry_or_fail and reclaim_stranded
\* alone keep a task with no attempt left out of the claimable states.  A task
\* goes to manual review exactly with its last attempt.
RetryBudget ==
  \A t \in Tasks :
    /\ attempt[t] <= MaxAttempts
    /\ status[t] \in Claimable \cup {"ABSENT"} => attempt[t] < MaxAttempts
    /\ status[t] = "FAILED_MANUAL_REVIEW" => attempt[t] = MaxAttempts

\* A row carries a lease exactly while it is RUNNING, so that claim never
\* meets the lease of a claimable row and reclaim_stranded finds every row a
\* dead execution left behind; and the execution whose token a row carries is
\* one that read a message of that very task and has not returned yet.
LeaseDiscipline ==
  /\ \A t \in Tasks : token[t] # NoRun <=> status[t] = "RUNNING"
  /\ live \subseteq Running
  /\ \A t \in Tasks, r \in Runs : token[t] = r =>
       /\ pc[r] \in Holding \cup Handling \cup {"release"}
       /\ msg[r] \in Msgs
       /\ TaskOf(r) = t

\* The processor that holds the lease resumes from, and numbers its next
\* checkpoint after, the last checkpoint anyone stored: unique (task_id,
\* sequence_no) never refuses a leaseholder's checkpoint, even when an earlier
\* execution of the same task is still running.
ResumesFromLatest ==
  \A r \in Runs :
    pc[r] \in {"process", "checkpointed", "commit"} =>
      (token[TaskOf(r)] = r => latest[r] = saved[TaskOf(r)])

\* The inductive invariant of the proofs.
IInv ==
  /\ TypeOK
  /\ MessageInHand
  /\ LeaseDiscipline
  /\ RetryBudget
  /\ ArchivesFinished
  /\ ArchivedOnlyTerminal
  /\ ResumesFromLatest

\* The database accepts every checkpoint the leaseholder of a current task
\* writes.  tasks.py says so of document-less agent tasks too: the insert allows
\* "a document-less agent-task checkpoint through".
CheckpointsAccepted ==
  [][\A r \in Runs :
       pc[r] = "process" /\ pc'[r] = "except" => faults' # faults]_vars

\* With synchronised clocks, a row whose lease is unexpired is finished or
\* given back only by the execution that holds the lease.
LiveLeaseRespected ==
  [][\A t \in live : status'[t] # status[t] =>
       /\ token[t] \in Runs
       /\ pc[token[t]] \in {"commit", "exceptRetry"}
       /\ pc'[token[t]] # pc[token[t]]]_vars

\* Whoever crashed, a row does not stay RUNNING forever: the recovery sweep of
\* a later execution takes it back.
NoStrandedTask == \A t \in Tasks : status[t] = "RUNNING" ~> status[t] # "RUNNING"

\* Every delivered message of a task of the current case version is archived
\* in the end, hence its task is finished: no fault, duplicate or lost lease
\* makes it circulate forever.
EventuallyArchived ==
  \A m \in Msgs : m \in sent ~> (m \in archived \/ ~Current(Target[m]))

\* The queue with its leases, executions and faults implements the promise of
\* TaskLifecycle: bounded attempts, one final end per task, no message archived
\* before the end.
Phase ==
  [t \in Tasks |-> IF status[t] \in {"PENDING", "RETRY_WAIT"} THEN "WAITING" ELSE status[t]]
Lifecycle == INSTANCE TaskLifecycle WITH phase <- Phase, attempts <- attempt, settled <- archived
ImplementsLifecycle == Lifecycle!Spec
===============================================================================
