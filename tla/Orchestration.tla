---------------------------- MODULE Orchestration ----------------------------
(****************************************************************************)
(* The case orchestrator of one credit case: the ticks that human requests  *)
(* and finished tasks fire (application/orchestration/kickoff.py), the      *)
(* advance a tick runs (advance.py, readiness.py, gates.py), the            *)
(* transactional outbox between the two (dispatch_outbox.py), and the       *)
(* revision that moves the case to its next version                         *)
(* (use_cases/request_maker_revision.py).                                   *)
(*                                                                          *)
(* API requests and worker executions are processes. Every repository call  *)
(* is a transaction of its own, hence an action of its own.                 *)
(*                                                                          *)
(* How a task is leased, retried and archived is TaskQueue's subject. Here  *)
(* a message in "sent" lets a process start the task, and a process that    *)
(* crashes or outlives its lease loses the task to Reclaim.                 *)
(****************************************************************************)
EXTENDS Naturals, FiniteSets

CONSTANTS
  Procs,       \* API requests and worker executions that may overlap
  Nodes,       \* the task types of the dependency template
  Gates,       \* the human gates
  Preds,       \* [Nodes -> SUBSET Nodes], TaskNode.predecessors
  GateOf,      \* [Nodes -> Gates], TaskNode.required_gate
  IntakeGate,  \* G1_INTAKE_COMPLETE, the gate the engine itself derives
  Reviewed,    \* [Gates -> SUBSET Nodes], the task type whose assessment the
               \* human who satisfies the gate disposes of (G3); {} for G2
  GapNodes,    \* the task types that may leave a BLOCKING evidence gap
  MaxVersion,  \* bound on the case version
  MaxRequests, \* bound on the human requests
  MaxFaults    \* bound on crashes, exceptions, lost leases and queue errors

Plan == "ORCHESTRATOR_PLAN"

ASSUME TemplateAssumption ==
  /\ Plan \notin Nodes
  /\ IntakeGate \in Gates
  /\ Preds \in [Nodes -> SUBSET Nodes]
  /\ GateOf \in [Nodes -> Gates]
  /\ Reviewed \in [Gates -> SUBSET Nodes]
  /\ GapNodes \subseteq Nodes
ASSUME IntakeAssumption ==
  \A n \in Nodes : Preds[n] # {} \/ GateOf[n] = IntakeGate
ASSUME BoundsAssumption ==
  MaxVersion \in Nat \ {0} /\ MaxRequests \in Nat /\ MaxFaults \in Nat

Versions == 1..MaxVersion

\* What fires a tick (trigger_ref): nothing in particular, or an event and the
\* version of the row it names: TASK, G2, G3, HANDOFF and REVISE.
KickoffRef == <<"KICKOFF", 0>>
EventRefs == (Nodes \cup Gates \cup {"HANDOFF", "REVISE"}) \X Versions
Refs == EventRefs \cup {KickoffRef}
NodeRef == <<"NODE", 0>>

\* A row of processing_tasks, identified by its idempotency key.
NodeKeys == [type : Nodes, ref : {NodeRef}, version : Versions]
PlanKeys == [type : {Plan}, ref : Refs, version : Versions]
Keys == NodeKeys \cup PlanKeys
NoTask == [type |-> "none", ref |-> NodeRef, version |-> 0]
NodeKey(n, v) == [type |-> n, ref |-> NodeRef, version |-> v]

\* Mutant of PlanKey: one plan task per version, whatever fires the tick.
PlanKeyPerVersion(r, v) == [type |-> Plan, ref |-> KickoffRef, version |-> v]

\* _plan_idempotency_key: at most one plan task per version and trigger_ref.
PlanKey(r, v) == [type |-> Plan, ref |-> r, version |-> v]

VARIABLES
  caseVersion,  \* credit_cases.case_version
  handoff,      \* versions with a READY_FOR_SPECIALIST_REVIEW handoff
  gate,         \* [Versions -> SUBSET Gates], the SATISFIED rows of human_gates
  gap,          \* node keys with an unresolved BLOCKING evidence gap
  status,       \* processing_tasks.status, "ABSENT" before the row is inserted
  outbox,       \* TASK_READY events with dispatched_at null
  sent,         \* tasks with a message in the agent queue
  requests,     \* human requests so far
  faults,       \* crashes, exceptions, lost leases and queue errors so far
  pc,           \* where each process is
  task,         \* the task a worker execution holds the lease of
  ref,          \* trigger_ref of the tick a process fires
  ver,          \* the case version a process has read
  handed,       \* has_intake_handoff of the snapshot
  done,         \* task types SUCCEEDED in the snapshot
  held,         \* task types with a live task, or a gap, in the snapshot
  gates,        \* the gates _refresh_gates found SATISFIED
  todo,         \* what a loop of a process still has to visit
  batch,        \* outbox events a dispatch still has to send
  event         \* the event it has sent and has yet to mark

shared == <<caseVersion, handoff, gate, gap>>
tasks == <<status, outbox, sent>>
snapshot == <<handed, done, held, gates>>
local == <<task, ref, ver, snapshot, todo, batch, event>>
counters == <<requests, faults>>
vars == <<shared, tasks, counters, pc, local>>

InFlight == {"PENDING", "RUNNING", "RETRY_WAIT"}
Terminal == {"SUCCEEDED", "SUPERSEDED", "FAILED_MANUAL_REVIEW"}
Status == InFlight \cup Terminal \cup {"ABSENT"}
Kicking == {"kick", "plan"}
Reading == {"case", "tasks"}
Advancing == Reading \cup {"refresh", "schedule"}
Dispatching == {"load", "send", "mark"}
PC ==
  {"idle", "gate", "bump", "work"} \cup Kicking \cup Advancing \cup Dispatching

TypeOK ==
  /\ caseVersion \in Versions
  /\ handoff \subseteq Versions
  /\ gate \in [Versions -> SUBSET Gates]
  /\ gap \subseteq NodeKeys
  /\ status \in [Keys -> Status]
  /\ outbox \subseteq Keys /\ sent \subseteq Keys
  /\ requests \in 0..MaxRequests /\ faults \in 0..MaxFaults
  /\ pc \in [Procs -> PC]
  /\ task \in [Procs -> Keys \cup {NoTask}]
  /\ ref \in [Procs -> Refs]
  /\ ver \in [Procs -> Versions]
  /\ handed \in [Procs -> BOOLEAN]
  /\ done \in [Procs -> SUBSET Nodes] /\ held \in [Procs -> SUBSET Nodes]
  /\ gates \in [Procs -> SUBSET Gates]
  /\ todo \in [Procs -> SUBSET (Nodes \cup Gates)]
  /\ batch \in [Procs -> SUBSET Keys]
  /\ event \in [Procs -> Keys \cup {NoTask}]

Init ==
  /\ caseVersion = 1
  /\ handoff = {}
  /\ gate = [v \in Versions |-> {}]
  /\ gap = {}
  /\ status = [k \in Keys |-> "ABSENT"]
  /\ outbox = {} /\ sent = {}
  /\ requests = 0 /\ faults = 0
  /\ pc = [p \in Procs |-> "idle"]
  /\ task = [p \in Procs |-> NoTask]
  /\ ref = [p \in Procs |-> KickoffRef]
  /\ ver = [p \in Procs |-> 1]
  /\ handed = [p \in Procs |-> FALSE]
  /\ done = [p \in Procs |-> {}] /\ held = [p \in Procs |-> {}]
  /\ gates = [p \in Procs |-> {}]
  /\ todo = [p \in Procs |-> {}]
  /\ batch = [p \in Procs |-> {}]
  /\ event = [p \in Procs |-> NoTask]
------------------------------------------------------------------------------
Goto(p, l) == pc' = [pc EXCEPT ![p] = l]

\* Local variables that are no longer read are given their first values back.
Forget(p) ==
  /\ handed' = [handed EXCEPT ![p] = FALSE]
  /\ done' = [done EXCEPT ![p] = {}] /\ held' = [held EXCEPT ![p] = {}]
  /\ gates' = [gates EXCEPT ![p] = {}]

Exit(p) ==
  /\ Goto(p, "idle")
  /\ task' = [task EXCEPT ![p] = NoTask]
  /\ ref' = [ref EXCEPT ![p] = KickoffRef]
  /\ ver' = [ver EXCEPT ![p] = 1]
  /\ Forget(p)
  /\ todo' = [todo EXCEPT ![p] = {}]
  /\ batch' = [batch EXCEPT ![p] = {}]
  /\ event' = [event EXCEPT ![p] = NoTask]

\* Has the task type left an assessment at the version?  It is persisted while
\* the task runs, so a task that was started once may have left one.
Assessed(n, v) == status[NodeKey(n, v)] \notin {"ABSENT", "PENDING"}
------------------------------------------------------------------------------
(****************************************************************************)
(* Human requests.                                                          *)
(****************************************************************************)
Request == requests < MaxRequests /\ requests' = requests + 1

\* POST /orchestration/advance: the base tick, one idempotency key per version.
Advance(p) ==
  /\ pc[p] = "idle"
  /\ ref' = [ref EXCEPT ![p] = KickoffRef]
  /\ Request
  /\ Goto(p, "kick")
  /\ UNCHANGED <<shared, tasks, faults, task, ver, snapshot, todo, batch,
                 event>>

\* CompleteIntake.execute: at most one handoff per version.
CompleteIntake(p) ==
  /\ pc[p] = "idle"
  /\ caseVersion \notin handoff
  /\ handoff' = handoff \cup {caseVersion}
  /\ ref' = [ref EXCEPT ![p] = <<"HANDOFF", caseVersion>>]
  /\ Request
  /\ Goto(p, "kick")
  /\ UNCHANGED <<caseVersion, gate, gap, tasks, faults, task, ver, snapshot,
                 todo, batch, event>>

\* A human starts to satisfy gate g.  G2 is decided on the version of the case,
\* G3 on the version of the assessment that is disposed of.
Review(p, g) ==
  /\ pc[p] = "idle"
  /\ g # IntakeGate
  /\ \E v \in Versions :
       /\ IF Reviewed[g] = {} THEN v = caseVersion
                              ELSE \A n \in Reviewed[g] : Assessed(n, v)
       /\ ver' = [ver EXCEPT ![p] = v]
       /\ ref' = [ref EXCEPT ![p] = <<g, v>>]
  /\ Request
  /\ Goto(p, "gate")
  /\ UNCHANGED <<shared, tasks, faults, task, snapshot, todo, batch, event>>

\* ensure_gate(status = SATISFIED) of the version that was read, then the tick.
SatisfyGate(p) ==
  /\ pc[p] = "gate"
  /\ gate' = [gate EXCEPT ![ver[p]] = @ \cup {ref[p][1]}]
  /\ Goto(p, "kick")
  /\ UNCHANGED <<caseVersion, handoff, gap, tasks, counters, local>>

\* A MAKER_MUST_REVISE disposition of an assessment: its version is the one
\* the bump will expect.
RequestRevision(p, n) ==
  /\ pc[p] = "idle"
  /\ n \in UNION {Reviewed[g] : g \in Gates}
  /\ \E v \in Versions :
       /\ Assessed(n, v)
       /\ v < MaxVersion
       /\ ver' = [ver EXCEPT ![p] = v]
       /\ ref' = [ref EXCEPT ![p] = <<"REVISE", v>>]
  /\ Request
  /\ Goto(p, "bump")
  /\ UNCHANGED <<shared, tasks, faults, task, snapshot, todo, batch, event>>

\* Mutant of CarryHandoff: the handoff stays behind at the old version.
LeaveHandoff(v) == handoff

\* Mutant of CarryHandoff: the clone skips a version.
CarryHandoffTwice(v) ==
  IF v \in handoff THEN handoff \cup {v + 2} ELSE handoff

\* bump_case_version clones the handoff of the old version to the new one.
CarryHandoff(v) == IF v \in handoff THEN handoff \cup {v + 1} ELSE handoff

\* bump_case_version, guarded by the expected version.  StaleCaseVersionError
\* ends the request.
BumpCaseVersion(p) ==
  /\ pc[p] = "bump"
  /\ \/ /\ caseVersion = ver[p]
        /\ caseVersion' = ver[p] + 1
        /\ handoff' = CarryHandoff(ver[p])
        /\ Goto(p, "kick")
        /\ UNCHANGED local
     \/ /\ caseVersion # ver[p]
        /\ Exit(p)
        /\ UNCHANGED <<caseVersion, handoff>>
  /\ UNCHANGED <<gate, gap, tasks, counters>>
------------------------------------------------------------------------------
\* Mutant of CreateTask: the event is not part of the transaction.
CreateTaskOnly(k) ==
  /\ status' = [status EXCEPT ![k] = IF @ = "ABSENT" THEN "PENDING" ELSE @]
  /\ UNCHANGED <<outbox, sent>>

\* create_task: one transaction inserts the row, unless its idempotency key
\* exists, and its TASK_READY event.
CreateTask(k) ==
  /\ status' = [status EXCEPT ![k] = IF @ = "ABSENT" THEN "PENDING" ELSE @]
  /\ outbox' = IF status[k] = "ABSENT" THEN outbox \cup {k} ELSE outbox
  /\ UNCHANGED sent

\* KickoffOrchestration.execute: load_snapshot, of which it uses the version,
Kick(p) ==
  /\ pc[p] = "kick"
  /\ ver' = [ver EXCEPT ![p] = caseVersion]
  /\ Goto(p, "plan")
  /\ UNCHANGED <<shared, tasks, counters, task, ref, snapshot, todo, batch,
                 event>>

\* and create_task of the plan task.  The dispatch follows.
CreatePlan(p) ==
  /\ pc[p] = "plan"
  /\ CreateTask(PlanKey(ref[p], ver[p]))
  /\ ref' = [ref EXCEPT ![p] = KickoffRef]
  /\ ver' = [ver EXCEPT ![p] = 1]
  /\ Goto(p, "load")
  /\ UNCHANGED <<shared, counters, task, snapshot, todo, batch, event>>
------------------------------------------------------------------------------
(****************************************************************************)
(* A worker execution claims a task of the current version whose message    *)
(* was delivered, and runs its processor.                                   *)
(****************************************************************************)
Claimable(k) ==
  k.version = caseVersion /\ status[k] \in {"PENDING", "RETRY_WAIT"}

StartTask(p, k) ==
  /\ pc[p] = "idle"
  /\ k \in sent
  /\ Claimable(k)
  /\ status' = [status EXCEPT ![k] = "RUNNING"]
  /\ task' = [task EXCEPT ![p] = k]
  /\ Goto(p, IF k.type = Plan THEN "case" ELSE "work")
  /\ UNCHANGED <<shared, outbox, sent, counters, ref, ver, snapshot, todo,
                 batch, event>>

\* The terminal status of a task and the archive of its message.
End(k, s) ==
  /\ status' = [status EXCEPT ![k] = s]
  /\ sent' = sent \ {k}

\* A specialist processor succeeds, with or without a blocking gap, and the
\* worker fires the tick of the task.
Succeed(p) ==
  LET k == task[p] IN
  /\ pc[p] = "work"
  /\ k # NoTask
  /\ End(k, "SUCCEEDED")
  /\ gap' \in {gap} \cup {gap \cup {k} : n \in GapNodes \cap {k.type}}
  /\ ref' = [ref EXCEPT ![p] = <<k.type, k.version>>]
  /\ task' = [task EXCEPT ![p] = NoTask]
  /\ Goto(p, "kick")
  /\ UNCHANGED <<caseVersion, handoff, gate, outbox, counters, ver, snapshot,
                 todo, batch, event>>

\* A specialist processor finds that the case has moved past its version.
Overtaken(k) == k.version # caseVersion

Supersede(p) ==
  LET k == task[p] IN
  /\ pc[p] = "work"
  /\ k # NoTask
  /\ Overtaken(k)
  /\ End(k, "SUPERSEDED")
  /\ Exit(p)
  /\ UNCHANGED <<shared, outbox, counters>>

\* The lease is gone, or the case has moved on: a checkpoint is refused and the
\* execution ends, its row still RUNNING.
Refused(p) ==
  /\ pc[p] = "work"
  /\ task[p] = NoTask \/ Overtaken(task[p])
  /\ Exit(p)
  /\ UNCHANGED <<shared, tasks, counters>>
------------------------------------------------------------------------------
(****************************************************************************)
(* AdvanceCase.execute, the processor of a plan task.                        *)
(****************************************************************************)
\* load_snapshot reads with one statement per table.  Two actions stand for
\* them: the handoff of the version that was read can only appear, and only
\* while that is the version of the case, so a later look at both says the same;
ReadCase(p) ==
  /\ pc[p] = "case"
  /\ ver' = [ver EXCEPT ![p] = caseVersion]
  /\ handed' = [handed EXCEPT ![p] = caseVersion \in handoff]
  /\ Goto(p, "tasks")
  /\ UNCHANGED <<shared, tasks, counters, task, ref, done, held, gates, todo,
                 batch, event>>

Completed(n, v) == status[NodeKey(n, v)] = "SUCCEEDED"

\* current_task: the live task of the version, if any.  SUPERSEDED is void.
Live(n, v) == status[NodeKey(n, v)] \notin {"ABSENT", "SUPERSEDED"}

\* a gap belongs to a task of its own version, which is live before the gap is
\* there; and of the gates only _refresh_gates' answers are used.
ReadTasks(p) ==
  /\ pc[p] = "tasks"
  /\ done' = [done EXCEPT ![p] = {n \in Nodes : Completed(n, ver[p])}]
  /\ held' = [held EXCEPT ![p] =
       {n \in Nodes : Live(n, ver[p]) \/ NodeKey(n, ver[p]) \in gap}]
  /\ todo' = [todo EXCEPT ![p] = Gates]
  /\ Goto(p, "refresh")
  /\ UNCHANGED <<shared, tasks, counters, task, ref, ver, handed, gates,
                 batch, event>>

\* derive_effective_gates: the engine derives G1 alone.
Derived(p, g) == g = IntakeGate /\ handed[p]

\* _refresh_gates: one ensure_gate per gate, whose answer is the stored row.
RefreshGate(p, g) ==
  /\ pc[p] = "refresh"
  /\ g \in todo[p]
  /\ gate' = [gate EXCEPT ![ver[p]] = IF Derived(p, g) THEN @ \cup {g} ELSE @]
  /\ gates' = [gates EXCEPT ![p] = @ \cup (gate'[ver[p]] \cap {g})]
  /\ todo' = [todo EXCEPT ![p] = @ \ {g}]
  /\ UNCHANGED <<caseVersion, handoff, gap, tasks, counters, pc, task, ref,
                 ver, handed, done, held, batch, event>>

\* Mutant of Ready: the predecessors only have to be scheduled.
ReadyEarly(p, n) ==
  n \notin held[p] /\ GateOf[n] \in gates[p] /\ Preds[n] \subseteq held[p]

\* _assess_node: READY
Ready(p, n) ==
  /\ n \notin held[p]
  /\ GateOf[n] \in gates[p]
  /\ Preds[n] \subseteq done[p]

\* evaluate_readiness and the planner.  A proposal, accepted or rejected, orders
\* the READY nodes and neither adds nor drops one.
EvaluateReadiness(p) ==
  /\ pc[p] = "refresh"
  /\ todo[p] = {}
  /\ todo' = [todo EXCEPT ![p] = {n \in Nodes : Ready(p, n)}]
  /\ Forget(p)
  /\ Goto(p, "schedule")
  /\ UNCHANGED <<shared, tasks, counters, task, ref, ver, batch, event>>

\* _schedule: one create_task per step of the plan, in any order.
Schedule(p, n) ==
  /\ pc[p] = "schedule"
  /\ n \in todo[p]
  /\ CreateTask(NodeKey(n, ver[p]))
  /\ todo' = [todo EXCEPT ![p] = @ \ {n}]
  /\ UNCHANGED <<shared, counters, pc, task, ref, ver, snapshot, batch,
                 event>>

\* The checkpoints PLAN_BUILT and TASKS_CREATED, then the dispatch.  Without the
\* lease, or at an old version, they are refused and the execution ends.
Scheduled(p) ==
  /\ pc[p] = "schedule"
  /\ todo[p] = {}
  /\ \/ /\ task[p] # NoTask /\ ~Overtaken(task[p])
        /\ ver' = [ver EXCEPT ![p] = 1]
        /\ Goto(p, "load")
        /\ UNCHANGED <<task, ref, snapshot, todo, batch, event>>
     \/ /\ task[p] = NoTask \/ Overtaken(task[p])
        /\ Exit(p)
  /\ UNCHANGED <<shared, tasks, counters>>
------------------------------------------------------------------------------
(****************************************************************************)
(* DispatchOutbox.run: load the undispatched events, then send and mark one  *)
(* after the other.                                                          *)
(****************************************************************************)
LoadOutbox(p) ==
  /\ pc[p] = "load"
  /\ batch' = [batch EXCEPT ![p] = outbox]
  /\ Goto(p, "send")
  /\ UNCHANGED <<shared, tasks, counters, task, ref, ver, snapshot, todo,
                 event>>

\* queue.send of one event of the batch.
SendEvent(p, k) ==
  /\ pc[p] = "send"
  /\ k \in batch[p]
  /\ sent' = sent \cup {k}
  /\ event' = [event EXCEPT ![p] = k]
  /\ batch' = [batch EXCEPT ![p] = @ \ {k}]
  /\ Goto(p, "mark")
  /\ UNCHANGED <<shared, status, outbox, counters, task, ref, ver, snapshot,
                 todo>>

\* queue.send raises QueueError: the event stays undispatched.
SendFails(p, k) ==
  /\ pc[p] = "send"
  /\ k \in batch[p]
  /\ faults < MaxFaults
  /\ faults' = faults + 1 /\ UNCHANGED requests
  /\ batch' = [batch EXCEPT ![p] = @ \ {k}]
  /\ UNCHANGED <<shared, tasks, pc, task, ref, ver, snapshot, todo, event>>

\* mark_outbox_dispatched
Marked(p) == outbox \ {event[p]}

MarkEvent(p) ==
  /\ pc[p] = "mark"
  /\ outbox' = Marked(p)
  /\ event' = [event EXCEPT ![p] = NoTask]
  /\ Goto(p, "send")
  /\ UNCHANGED <<shared, status, sent, counters, task, ref, ver, snapshot,
                 todo, batch>>

\* The dispatch is over, and with it the request or the plan task.  A plan task
\* that still has its lease succeeds and fires no tick, unless the checkpoint
\* ENQUEUED is refused because the case has moved on.
Dispatched(p) ==
  /\ pc[p] = "send"
  /\ batch[p] = {}
  /\ \/ /\ task[p] # NoTask
        /\ End(task[p], "SUCCEEDED")
     \/ /\ task[p] = NoTask \/ Overtaken(task[p])
        /\ UNCHANGED <<status, sent>>
  /\ Exit(p)
  /\ UNCHANGED <<shared, outbox, counters>>
------------------------------------------------------------------------------
(****************************************************************************)
(* Faults.  A failed attempt waits for its retry, or was the last one.       *)
(****************************************************************************)
AfterFailure == {"RETRY_WAIT", "FAILED_MANUAL_REVIEW"}

\* The process is killed; the row it held stays RUNNING.
Crash(p) ==
  /\ pc[p] # "idle"
  /\ faults < MaxFaults
  /\ faults' = faults + 1 /\ UNCHANGED requests
  /\ Exit(p)
  /\ UNCHANGED <<shared, tasks>>

\* A call raises.  A request logs it and ends; a worker gives the task back.
Raise(p) ==
  /\ pc[p] # "idle"
  /\ faults < MaxFaults
  /\ faults' = faults + 1 /\ UNCHANGED requests
  /\ \/ /\ task[p] = NoTask
        /\ UNCHANGED status
     \/ /\ task[p] # NoTask
        /\ \E s \in AfterFailure : status' = [status EXCEPT ![task[p]] = s]
  /\ Exit(p)
  /\ UNCHANGED <<shared, outbox, sent>>

\* reclaim_stranded gives back a row whose execution is gone.
Reclaim(k) ==
  /\ status[k] = "RUNNING"
  /\ \A p \in Procs : task[p] # k
  /\ \E s \in AfterFailure : status' = [status EXCEPT ![k] = s]
  /\ UNCHANGED <<shared, outbox, sent, counters, pc, local>>

\* A lease runs out under a live execution, which goes on without it.
LoseLease(p) ==
  /\ task[p] # NoTask
  /\ faults < MaxFaults
  /\ faults' = faults + 1 /\ UNCHANGED requests
  /\ \E s \in AfterFailure : status' = [status EXCEPT ![task[p]] = s]
  /\ task' = [task EXCEPT ![p] = NoTask]
  /\ UNCHANGED <<shared, outbox, sent, pc, ref, ver, snapshot, todo, batch,
                 event>>
------------------------------------------------------------------------------
Human(p) ==
  \/ Advance(p)
  \/ CompleteIntake(p)
  \/ \E g \in Gates : Review(p, g)
  \/ \E n \in Nodes : RequestRevision(p, n)

\* The steps a process takes by itself once it has begun.
Step(p) ==
  \/ SatisfyGate(p) \/ BumpCaseVersion(p) \/ Kick(p) \/ CreatePlan(p)
  \/ Succeed(p) \/ Supersede(p) \/ Refused(p)
  \/ ReadCase(p) \/ ReadTasks(p)
  \/ \E g \in Gates : RefreshGate(p, g)
  \/ EvaluateReadiness(p)
  \/ \E n \in Nodes : Schedule(p, n)
  \/ Scheduled(p)
  \/ LoadOutbox(p)
  \/ \E k \in batch[p] : SendEvent(p, k)
  \/ MarkEvent(p) \/ Dispatched(p)

Fault(p) ==
  \/ Crash(p) \/ Raise(p) \/ LoseLease(p)
  \/ \E k \in batch[p] : SendFails(p, k)

Next ==
  \/ \E p \in Procs : Human(p) \/ Step(p) \/ Fault(p)
  \/ \E p \in Procs : \E k \in sent : StartTask(p, k)
  \/ \E k \in Keys : Reclaim(k)

Spec == Init /\ [][Next]_vars

\* A process that has begun goes on, the sweep gives back what it may, and the
\* worker executions keep coming to the delivered messages.  No human is bound
\* to act.
Fairness ==
  /\ \A p \in Procs : WF_vars(Step(p))
  /\ WF_vars(\E k \in Keys : Reclaim(k))
  /\ SF_vars(\E p \in Procs : \E k \in sent : StartTask(p, k))

FairSpec == Spec /\ Fairness
------------------------------------------------------------------------------
(****************************************************************************)
(* What holds.                                                              *)
(****************************************************************************)
Created(n, v) == status[NodeKey(n, v)] # "ABSENT"

\* The dependency order and the human gates hold for every task there is, at
\* the task's own version, however old the snapshot the advance decided on:
\* _assess_node's READY stays true once it was true.  And at most one process runs
\* a task with its lease.
WorkGated ==
  /\ \A n \in Nodes, v \in Versions : Created(n, v) =>
       /\ GateOf[n] \in gate[v]
       /\ \A m \in Preds[n] : status[NodeKey(m, v)] = "SUCCEEDED"
  /\ \A p, q \in Procs : task[p] = task[q] /\ task[p] # NoTask => p = q

\* The outbox closes the dual write: a task that was never started is either
\* waiting in the outbox or has its message, whatever crashed in between.
OutboxCovers ==
  \A k \in Keys : status[k] = "PENDING" => k \in outbox \cup sent

\* A revision carries the intake: work, and so a review and its revision, exists
\* only at versions with a handoff, hence every later version has one too and
\* G1 is derived again after bump_case_version.  What is superseded is of an older
\* version: _assess_node would schedule a SUPERSEDED task of the current one again,
\* which its idempotency key would prevent.
HandoffCarried ==
  /\ \A n \in Nodes, v \in Versions : Created(n, v) => v \in handoff
  /\ caseVersion > 1 => caseVersion \in handoff
  /\ \A k \in Keys : status[k] = "SUPERSEDED" => k.version < caseVersion

\* The readiness the code would compute now, in one atomic look.
ReadyNow(n) ==
  LET v == caseVersion IN
  /\ ~Live(n, v)
  /\ GateOf[n] \in gate[v] \/ (GateOf[n] = IntakeGate /\ v \in handoff)
  /\ \A m \in Preds[n] : Completed(m, v)

\* No tick and no event is lost when nothing fails: a node that has become ready
\* is scheduled, dispatched and started, or the case moves to its next version.
ReadyStarted ==
  \A n \in Nodes, v \in Versions :
    (caseVersion = v /\ ReadyNow(n)) ~> (caseVersion # v \/ Assessed(n, v))
==============================================================================
