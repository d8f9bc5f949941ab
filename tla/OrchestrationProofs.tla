-------------------------- MODULE OrchestrationProofs --------------------------
(****************************************************************************)
(* Proofs about Orchestration, for any dependency template in which a task  *)
(* type without predecessors waits for the intake gate, any number of       *)
(* processes and of case versions, and any number of crashes, exceptions,   *)
(* lost leases and queue errors.                                            *)
(****************************************************************************)
EXTENDS Orchestration, TLAPS

\* The assumptions on the constants, and the sets of labels.
LEMMA Constants ==
  /\ Plan \notin Nodes /\ IntakeGate \in Gates
  /\ Preds \in [Nodes -> SUBSET Nodes] /\ GateOf \in [Nodes -> Gates]
  /\ Reviewed \in [Gates -> SUBSET Nodes] /\ GapNodes \subseteq Nodes
  /\ \A n \in Nodes : Preds[n] # {} \/ GateOf[n] = IntakeGate
  /\ MaxVersion \in Nat /\ MaxVersion > 0
  /\ MaxRequests \in Nat /\ MaxFaults \in Nat
  BY TemplateAssumption, IntakeAssumption, BoundsAssumption

LEMMA Labels ==
  /\ PC = {"idle", "gate", "bump", "work", "kick", "plan", "case", "tasks",
           "refresh", "schedule", "load", "send", "mark"}
  /\ Status = {"PENDING", "RUNNING", "RETRY_WAIT", "SUCCEEDED", "SUPERSEDED",
               "FAILED_MANUAL_REVIEW", "ABSENT"}
  BY DEF PC, Kicking, Advancing, Reading, Dispatching, Status, InFlight, Terminal

\* Keys: a task of the template is never a plan task, and NoTask is neither.
LEMMA KeyFacts ==
  /\ NoTask \notin Keys
  /\ \A k \in Keys : k.version \in Versions
  /\ \A n \in Nodes, v \in Versions :
       /\ NodeKey(n, v) \in NodeKeys \cap Keys
       /\ NodeKey(n, v).version = v
  /\ \A r \in Refs, v \in Versions :
       /\ PlanKey(r, v) \in PlanKeys \cap Keys
       /\ PlanKey(r, v).version = v
  /\ NodeKeys \cap PlanKeys = {}
  /\ \A k \in Keys : k.type # Plan => k \in NodeKeys
  /\ \A k \in NodeKeys :
       k.type \in Nodes /\ k = NodeKey(k.type, k.version)
  /\ \A n, m \in Nodes, v, w \in Versions :
       NodeKey(n, v) = NodeKey(m, w) => n = m /\ v = w
<1>1. NoTask \notin Keys /\ \A k \in Keys : k.version \in Versions
  BY Constants DEF NoTask, Keys, NodeKeys, PlanKeys, Versions
<1>2. /\ \A n \in Nodes, v \in Versions :
           /\ NodeKey(n, v) \in NodeKeys \cap Keys
           /\ NodeKey(n, v).version = v
      /\ \A r \in Refs, v \in Versions :
           /\ PlanKey(r, v) \in PlanKeys \cap Keys
           /\ PlanKey(r, v).version = v
  BY DEF NodeKey, PlanKey, NodeKeys, PlanKeys, Keys
<1>3. /\ NodeKeys \cap PlanKeys = {}
      /\ \A k \in Keys : k.type # Plan => k \in NodeKeys
  BY Constants DEF Keys, NodeKeys, PlanKeys
<1>4. \A k \in NodeKeys : k.type \in Nodes /\ k = NodeKey(k.type, k.version)
  BY DEF NodeKeys, NodeKey
<1>5. \A n, m \in Nodes, v, w \in Versions :
        NodeKey(n, v) = NodeKey(m, w) => n = m /\ v = w
  BY DEF NodeKey
<1> QED
  BY <1>1, <1>2, <1>3, <1>4, <1>5

(****************************************************************************)
(* The inductive invariant.                                                 *)
(****************************************************************************)
\* What a process has read fits the step it is about to take.
Prepared ==
  \A p \in Procs :
    /\ pc[p] = "gate" => ref[p][1] \in Gates \ {IntakeGate}
    /\ pc[p] = "bump" => ver[p] < MaxVersion
    /\ pc[p] = "work" => task[p] \in NodeKeys \cup {NoTask}
    /\ pc[p] = "schedule" => todo[p] \subseteq Nodes

\* A task held with its lease is RUNNING, and one process holds it.
Holding ==
  /\ \A p \in Procs : task[p] # NoTask => status[task[p]] = "RUNNING"
  /\ \A p, q \in Procs : task[p] = task[q] /\ task[p] # NoTask => p = q

\* No task, and no process, is ahead of the case.
NotAhead ==
  /\ \A p \in Procs : ver[p] <= caseVersion
  /\ \A k \in Keys : status[k] # "ABSENT" => k.version <= caseVersion

\* The derived gate stands on a handoff of its version, and every version but the
\* first has one; so has every version with a task.
IntakeRests ==
  /\ \A v \in Versions : IntakeGate \in gate[v] => v \in handoff
  /\ caseVersion > 1 => caseVersion \in handoff
  /\ \A n \in Nodes, v \in Versions : Created(n, v) => v \in handoff

\* What an advance has found out is still so, however long ago it looked.
Looked(p) ==
  /\ pc[p] = "bump" => ver[p] \in handoff
  /\ handed[p] => pc[p] \in {"tasks", "refresh"} /\ ver[p] \in handoff
  /\ done[p] # {} \/ gates[p] # {} => pc[p] = "refresh"
  /\ \A n \in done[p] : Completed(n, ver[p])
  /\ gates[p] \subseteq gate[ver[p]]
  /\ pc[p] = "schedule" =>
       \A n \in todo[p] :
         /\ GateOf[n] \in gate[ver[p]]
         /\ \A m \in Preds[n] : Completed(m, ver[p])
SnapshotHolds == \A p \in Procs : Looked(p)

\* Every task is where the template and its gates allow it.
Gated ==
  \A n \in Nodes, v \in Versions : Created(n, v) =>
    /\ GateOf[n] \in gate[v]
    /\ \A m \in Preds[n] : Completed(m, v)

\* Events are of tasks there are, and one is marked once its message was sent.
EventsCover ==
  /\ \A k \in outbox : status[k] # "ABSENT"
  /\ \A p \in Procs :
       /\ \A k \in batch[p] : status[k] # "ABSENT"
       /\ pc[p] = "mark" => event[p] \in Keys /\ status[event[p]] # "ABSENT"
       /\ pc[p] = "mark" /\ status[event[p]] = "PENDING" => event[p] \in sent
  /\ OutboxCovers

\* What has been superseded is of an earlier version.
SupersededOld == \A k \in Keys : status[k] = "SUPERSEDED" => k.version < caseVersion

TypeInv == TypeOK /\ Prepared
IInv ==
  TypeInv /\ Holding /\ NotAhead /\ IntakeRests /\ SnapshotHolds /\ Gated
    /\ EventsCover /\ SupersededOld

\* What no step takes back, however many processes and faults: the version of the
\* case, an intake handoff, a satisfied gate, a task and its success.  Nor does a
\* task that was started become PENDING again.
Kept ==
  /\ caseVersion' >= caseVersion
  /\ handoff \subseteq handoff'
  /\ \A v \in Versions : gate[v] \subseteq gate'[v]
  /\ \A k \in Keys :
       /\ status[k] # "ABSENT" => status'[k] # "ABSENT"
       /\ status[k] = "SUCCEEDED" => status'[k] = "SUCCEEDED"
       /\ status'[k] = "PENDING" => status[k] \in {"ABSENT", "PENDING"}
-------------------------------------------------------------------------------
\* Every step keeps the types, given that what a process has read fits it.
LEMMA TypeStep == TypeInv /\ [Next]_vars => TypeOK'
<1> SUFFICES ASSUME TypeInv, [Next]_vars PROVE TypeOK'
  OBVIOUS
<1> USE Constants DEF TypeInv, TypeOK, Prepared, shared, tasks, snapshot, local,
                       counters, Goto, Forget, Exit, Request
<1>a. 1 \in Versions /\ KickoffRef \in Refs
  BY DEF Versions, Refs
<1>b. \A p \in Procs : pc[p] = "bump" => ver[p] + 1 \in Versions
  BY DEF Versions
<1>1. ASSUME NEW p \in Procs, Advance(p) PROVE TypeOK'
  BY <1>1, <1>a, Labels DEF Advance
<1>2. ASSUME NEW p \in Procs, Kick(p) PROVE TypeOK'
  BY <1>2, <1>a, Labels DEF Kick
<1>3. ASSUME NEW p \in Procs, ReadCase(p) PROVE TypeOK'
  BY <1>3, <1>a, Labels DEF ReadCase
<1>4. ASSUME NEW p \in Procs, CompleteIntake(p) PROVE TypeOK'
  BY <1>4, <1>a, Labels DEF CompleteIntake, EventRefs, Refs
<1>5. ASSUME NEW p \in Procs, NEW g \in Gates, Review(p, g) PROVE TypeOK'
  BY <1>5, <1>a, Labels DEF Review, EventRefs, Refs
<1>6. ASSUME NEW p \in Procs, NEW n \in Nodes,
             RequestRevision(p, n)
      PROVE  TypeOK'
  BY <1>6, <1>a, Labels DEF RequestRevision, EventRefs, Refs
<1>7. ASSUME NEW p \in Procs, SatisfyGate(p) PROVE TypeOK'
  BY <1>7, <1>a, Labels DEF SatisfyGate
<1>8. ASSUME NEW p \in Procs, BumpCaseVersion(p) PROVE TypeOK'
  <2>1. CASE caseVersion = ver[p]
    <3>1. handoff' \subseteq Versions
      BY <1>8, <2>1, <1>b DEF BumpCaseVersion, CarryHandoff
    <3> QED
      BY <1>8, <2>1, <3>1, <1>b, Labels, SMTT(60) DEF BumpCaseVersion
  <2>2. CASE caseVersion # ver[p]
    <3>1. Exit(p) /\ UNCHANGED <<shared, tasks, counters>>
      BY <1>8, <2>2 DEF BumpCaseVersion
    <3> QED
      BY <3>1, <1>a, Labels
  <2> QED
    BY <2>1, <2>2
<1>9. ASSUME NEW p \in Procs, CreatePlan(p) PROVE TypeOK'
  BY <1>9, <1>a, Labels, KeyFacts DEF CreatePlan, CreateTask, Keys
<1>10. ASSUME NEW p \in Procs, Succeed(p) PROVE TypeOK'
  <2>1. task[p] \in NodeKeys /\ <<task[p].type, task[p].version>> \in Refs
    BY <1>10, KeyFacts DEF Succeed, Refs, EventRefs, Keys
  <2> QED
    BY <1>10, <2>1, <1>a, Labels DEF Succeed, End
<1>11. ASSUME NEW p \in Procs, Supersede(p) PROVE TypeOK'
  BY <1>11, <1>a, Labels DEF Supersede, End
<1>12. ASSUME NEW p \in Procs, Refused(p) PROVE TypeOK'
  BY <1>12, <1>a, Labels DEF Refused
<1>13. ASSUME NEW p \in Procs, LoadOutbox(p) PROVE TypeOK'
  BY <1>13, <1>a, Labels DEF LoadOutbox
<1>14. ASSUME NEW p \in Procs, ReadTasks(p) PROVE TypeOK'
  BY <1>14, <1>a, Labels DEF ReadTasks
<1>15. ASSUME NEW p \in Procs, NEW g \in Gates, RefreshGate(p, g) PROVE TypeOK'
  BY <1>15, <1>a, Labels DEF RefreshGate
<1>16. ASSUME NEW p \in Procs, EvaluateReadiness(p) PROVE TypeOK'
  BY <1>16, <1>a, Labels DEF EvaluateReadiness
<1>17. ASSUME NEW p \in Procs, NEW n \in Nodes, Schedule(p, n) PROVE TypeOK'
  BY <1>17, <1>a, Labels, KeyFacts DEF Schedule, CreateTask, Keys
<1>18. ASSUME NEW p \in Procs, Scheduled(p) PROVE TypeOK'
  <2>1. CASE Exit(p)
    BY <1>18, <2>1, <1>a, Labels DEF Scheduled
  <2>2. CASE ~Exit(p)
    BY <1>18, <2>2, <1>a, Labels DEF Scheduled
  <2> QED
    BY <2>1, <2>2
<1>19. ASSUME NEW p \in Procs, NEW k \in batch[p], SendEvent(p, k) PROVE TypeOK'
  BY <1>19, <1>a, Labels DEF SendEvent
<1>20. ASSUME NEW p \in Procs, MarkEvent(p) PROVE TypeOK'
  BY <1>20, <1>a, Labels DEF MarkEvent, Marked
<1>21. ASSUME NEW p \in Procs, Dispatched(p) PROVE TypeOK'
  BY <1>21, <1>a, Labels DEF Dispatched, End
<1>22. ASSUME NEW p \in Procs, Crash(p) PROVE TypeOK'
  BY <1>22, <1>a, Labels DEF Crash
<1>23. ASSUME NEW p \in Procs, Raise(p) PROVE TypeOK'
  BY <1>23, <1>a, Labels DEF Raise, AfterFailure
<1>24. ASSUME NEW p \in Procs, LoseLease(p) PROVE TypeOK'
  BY <1>24, <1>a, Labels DEF LoseLease, AfterFailure
<1>25. ASSUME NEW p \in Procs, NEW k \in batch[p], SendFails(p, k) PROVE TypeOK'
  BY <1>25, <1>a, Labels DEF SendFails
<1>26. ASSUME NEW p \in Procs, NEW k \in sent, StartTask(p, k) PROVE TypeOK'
  BY <1>26, <1>a, Labels DEF StartTask
<1>27. ASSUME NEW k \in Keys, Reclaim(k) PROVE TypeOK'
  BY <1>27, <1>a, Labels DEF Reclaim, AfterFailure
<1>28. CASE UNCHANGED vars
  BY <1>28 DEF vars
<1> HIDE DEF TypeInv, TypeOK, Prepared
<1> QED
  BY <1>1, <1>2, <1>3, <1>4, <1>5, <1>6, <1>7, <1>8, <1>9, <1>10, <1>11,
     <1>12, <1>13, <1>14, <1>15, <1>16, <1>17, <1>18, <1>19, <1>20, <1>21,
     <1>22, <1>23, <1>24, <1>25, <1>26, <1>27, <1>28
     DEF Next, Human, Step, Fault

\* What a process reads fits the step it takes next.
LEMMA PreparedStep == TypeInv /\ [Next]_vars => Prepared'
<1> SUFFICES ASSUME TypeInv, [Next]_vars PROVE Prepared'
  OBVIOUS
<1> USE DEF TypeInv, TypeOK, Prepared, tasks, snapshot, local, counters, Goto, Exit
<1>1. ASSUME NEW p \in Procs,
             Advance(p) \/ CompleteIntake(p) \/ Kick(p) \/ CreatePlan(p)
               \/ ReadCase(p) \/ ReadTasks(p) \/ LoadOutbox(p) \/ MarkEvent(p)
      PROVE  Prepared'
  BY <1>1
     DEF Advance, CompleteIntake, Kick, CreatePlan, ReadCase, ReadTasks,
         LoadOutbox, MarkEvent
<1>2. ASSUME NEW p \in Procs, NEW g \in Gates, Review(p, g) PROVE Prepared'
  BY <1>2 DEF Review
<1>3. ASSUME NEW p \in Procs, NEW n \in Nodes,
             RequestRevision(p, n)
      PROVE  Prepared'
  BY <1>3 DEF RequestRevision
<1>4. ASSUME NEW p \in Procs,
             SatisfyGate(p) \/ BumpCaseVersion(p) \/ Succeed(p) \/ Supersede(p)
               \/ Refused(p)
      PROVE  Prepared'
  BY <1>4 DEF SatisfyGate, BumpCaseVersion, Succeed, Supersede, Refused
<1>5. ASSUME NEW p \in Procs, NEW g \in Gates, RefreshGate(p, g) PROVE Prepared'
  BY <1>5 DEF RefreshGate
<1>6. ASSUME NEW p \in Procs, EvaluateReadiness(p) PROVE Prepared'
  BY <1>6 DEF EvaluateReadiness, Ready
<1>7. ASSUME NEW p \in Procs, NEW n \in Nodes, Schedule(p, n) PROVE Prepared'
  BY <1>7 DEF Schedule
<1>8. ASSUME NEW p \in Procs,
             Scheduled(p) \/ Dispatched(p) \/ Crash(p) \/ Raise(p)
               \/ LoseLease(p)
      PROVE  Prepared'
  BY <1>8 DEF Scheduled, Dispatched, Crash, Raise, LoseLease
<1>9. ASSUME NEW p \in Procs, NEW k \in batch[p],
             SendEvent(p, k)
      PROVE  Prepared'
  BY <1>9 DEF SendEvent
<1>10. ASSUME NEW p \in Procs, NEW k \in batch[p],
              SendFails(p, k)
       PROVE  Prepared'
  BY <1>10 DEF SendFails
<1>11. ASSUME NEW p \in Procs, NEW k \in sent, StartTask(p, k) PROVE Prepared'
  BY <1>11, KeyFacts DEF StartTask
<1>12. ASSUME NEW k \in Keys, Reclaim(k) PROVE Prepared'
  BY <1>12 DEF Reclaim
<1>13. CASE UNCHANGED vars
  BY <1>13 DEF vars
<1> HIDE DEF TypeInv, TypeOK, Prepared
<1> QED
  BY <1>1, <1>2, <1>3, <1>4, <1>5, <1>6, <1>7, <1>8, <1>9, <1>10, <1>11,
     <1>12, <1>13
     DEF Next, Human, Step, Fault

\* A task is leased to one execution.
LEMMA HoldingStep == TypeInv /\ Holding /\ [Next]_vars => Holding'
<1> SUFFICES ASSUME TypeInv, Holding, [Next]_vars PROVE Holding'
  OBVIOUS
<1> USE DEF TypeInv, TypeOK, Holding, tasks, snapshot, local, counters, Exit
<1>1. ASSUME NEW p \in Procs,
             Advance(p) \/ CompleteIntake(p) \/ SatisfyGate(p)
               \/ BumpCaseVersion(p) \/ Kick(p) \/ Refused(p) \/ ReadCase(p)
               \/ ReadTasks(p) \/ EvaluateReadiness(p) \/ Scheduled(p)
               \/ LoadOutbox(p) \/ MarkEvent(p) \/ Crash(p)
      PROVE  Holding'
  BY <1>1
     DEF Advance, CompleteIntake, SatisfyGate, BumpCaseVersion, Kick,
         Refused, ReadCase, ReadTasks, EvaluateReadiness, Scheduled,
         LoadOutbox, MarkEvent, Crash
<1>2. ASSUME NEW p \in Procs, CreatePlan(p) PROVE Holding'
  BY <1>2, KeyFacts DEF CreatePlan, CreateTask
<1>3. ASSUME NEW p \in Procs, NEW n \in Nodes, Schedule(p, n) PROVE Holding'
  BY <1>3, KeyFacts DEF Schedule, CreateTask
<1>4. ASSUME NEW p \in Procs, NEW g \in Gates, Review(p, g) PROVE Holding'
  BY <1>4 DEF Review
<1>5. ASSUME NEW p \in Procs, NEW n \in Nodes,
             RequestRevision(p, n)
      PROVE  Holding'
  BY <1>5 DEF RequestRevision
<1>6. ASSUME NEW p \in Procs,
             Succeed(p) \/ Supersede(p) \/ Dispatched(p)
      PROVE  Holding'
  BY <1>6 DEF Succeed, Supersede, Dispatched, End
<1>7. ASSUME NEW p \in Procs, NEW g \in Gates, RefreshGate(p, g) PROVE Holding'
  BY <1>7 DEF RefreshGate
<1>8. ASSUME NEW p \in Procs, Raise(p) PROVE Holding'
  BY <1>8 DEF Raise
<1>9. ASSUME NEW p \in Procs, LoseLease(p) PROVE Holding'
  BY <1>9 DEF LoseLease
<1>10. ASSUME NEW p \in Procs, NEW k \in batch[p],
              SendEvent(p, k)
       PROVE  Holding'
  BY <1>10 DEF SendEvent
<1>11. ASSUME NEW p \in Procs, NEW k \in batch[p],
              SendFails(p, k)
       PROVE  Holding'
  BY <1>11 DEF SendFails
<1>12. ASSUME NEW p \in Procs, NEW k \in sent, StartTask(p, k) PROVE Holding'
  BY <1>12, KeyFacts DEF StartTask, Claimable
<1>13. ASSUME NEW k \in Keys, Reclaim(k) PROVE Holding'
  BY <1>13 DEF Reclaim
<1>14. CASE UNCHANGED vars
  BY <1>14 DEF vars
<1> HIDE DEF TypeInv, TypeOK, Holding
<1> QED
  BY <1>1, <1>2, <1>3, <1>4, <1>5, <1>6, <1>7, <1>8, <1>9, <1>10, <1>11,
     <1>12, <1>13, <1>14
     DEF Next, Human, Step, Fault

\* No step takes anything back: a terminal status is set on a RUNNING row.
LEMMA KeptStep == TypeInv /\ Holding /\ [Next]_vars => Kept
<1> SUFFICES ASSUME TypeInv, Holding, [Next]_vars PROVE Kept
  OBVIOUS
<1> USE Constants DEF TypeInv, TypeOK, Holding, Kept, shared, tasks, Versions
<1>1. ASSUME NEW p \in Procs,
             Advance(p) \/ Kick(p) \/ Refused(p) \/ ReadCase(p) \/ ReadTasks(p)
               \/ EvaluateReadiness(p) \/ Scheduled(p) \/ LoadOutbox(p)
               \/ MarkEvent(p) \/ Crash(p)
      PROVE  Kept
  BY <1>1
     DEF Advance, Kick, Refused, ReadCase, ReadTasks, EvaluateReadiness,
         Scheduled, LoadOutbox, MarkEvent, Crash
<1>2. ASSUME NEW p \in Procs, CompleteIntake(p) PROVE Kept
  BY <1>2 DEF CompleteIntake
<1>3. ASSUME NEW p \in Procs, SatisfyGate(p) PROVE Kept
  BY <1>3 DEF SatisfyGate
<1>4. ASSUME NEW p \in Procs, BumpCaseVersion(p) PROVE Kept
  BY <1>4 DEF BumpCaseVersion, CarryHandoff
<1>5. ASSUME NEW p \in Procs, CreatePlan(p) PROVE Kept
  BY <1>5, KeyFacts DEF CreatePlan, CreateTask
<1>6. ASSUME NEW p \in Procs, NEW n \in Nodes, Schedule(p, n) PROVE Kept
  BY <1>6, KeyFacts DEF Schedule, CreateTask
<1>7. ASSUME NEW p \in Procs, NEW g \in Gates, Review(p, g) PROVE Kept
  BY <1>7 DEF Review
<1>8. ASSUME NEW p \in Procs, NEW n \in Nodes, RequestRevision(p, n) PROVE Kept
  BY <1>8 DEF RequestRevision
<1>9. ASSUME NEW p \in Procs,
             Succeed(p) \/ Supersede(p) \/ Dispatched(p)
      PROVE  Kept
  BY <1>9 DEF Succeed, Supersede, Dispatched, End
<1>10. ASSUME NEW p \in Procs, NEW g \in Gates, RefreshGate(p, g) PROVE Kept
  BY <1>10 DEF RefreshGate
<1>11. ASSUME NEW p \in Procs, Raise(p) \/ LoseLease(p) PROVE Kept
  BY <1>11 DEF Raise, LoseLease, AfterFailure
<1>12. ASSUME NEW p \in Procs, NEW k \in batch[p], SendEvent(p, k) PROVE Kept
  BY <1>12 DEF SendEvent
<1>13. ASSUME NEW p \in Procs, NEW k \in batch[p], SendFails(p, k) PROVE Kept
  BY <1>13 DEF SendFails
<1>14. ASSUME NEW p \in Procs, NEW k \in sent, StartTask(p, k) PROVE Kept
  BY <1>14 DEF StartTask, Claimable
<1>15. ASSUME NEW k \in Keys, Reclaim(k) PROVE Kept
  BY <1>15 DEF Reclaim, AfterFailure
<1>16. CASE UNCHANGED vars
  BY <1>16 DEF vars
<1> HIDE DEF TypeInv, TypeOK, Holding, Kept
<1> QED
  BY <1>1, <1>2, <1>3, <1>4, <1>5, <1>6, <1>7, <1>8, <1>9, <1>10, <1>11,
     <1>12, <1>13, <1>14, <1>15, <1>16
     DEF Next, Human, Step, Fault

\* Versions only grow, and a process reads the one the case is at.
LEMMA NotAheadStep ==
  TypeInv /\ Holding /\ NotAhead /\ Kept /\ [Next]_vars => NotAhead'
<1> SUFFICES ASSUME TypeInv, Holding, NotAhead, Kept, [Next]_vars
             PROVE  NotAhead'
  OBVIOUS
<1> USE DEF TypeInv, TypeOK, NotAhead, Kept, shared, tasks, snapshot, local,
             counters
<1>a. \A v \in Versions : v \in Nat /\ v >= 1
  BY DEF Versions
<1>e. ASSUME NEW p \in Procs, Exit(p), UNCHANGED <<shared, tasks>>
      PROVE  NotAhead'
  BY <1>e, <1>a DEF Exit
<1>1. ASSUME NEW p \in Procs,
             Advance(p) \/ CompleteIntake(p) \/ SatisfyGate(p)
      PROVE  NotAhead'
  BY <1>1, <1>a, KeyFacts DEF Advance, CompleteIntake, SatisfyGate
<1>2. ASSUME NEW p \in Procs, Kick(p) PROVE NotAhead'
  BY <1>2, <1>a, KeyFacts DEF Kick
<1>3. ASSUME NEW p \in Procs, ReadCase(p) PROVE NotAhead'
  BY <1>3, <1>a, KeyFacts DEF ReadCase
<1>4. ASSUME NEW p \in Procs, Refused(p) PROVE NotAhead'
  BY <1>4, <1>e DEF Refused
<1>5. ASSUME NEW p \in Procs,
             ReadTasks(p) \/ EvaluateReadiness(p)
      PROVE  NotAhead'
  BY <1>5, <1>a, KeyFacts DEF ReadTasks, EvaluateReadiness
<1>6. ASSUME NEW p \in Procs, NEW g \in Gates, Review(p, g) PROVE NotAhead'
  <2>1. PICK v \in Versions :
          /\ IF Reviewed[g] = {} THEN v = caseVersion
                                ELSE \A n \in Reviewed[g] : Assessed(n, v)
          /\ ver' = [ver EXCEPT ![p] = v]
    BY <1>6 DEF Review
  <2>2. v <= caseVersion
    <3>1. CASE Reviewed[g] = {}
      BY <2>1, <3>1, <1>a
    <3>2. CASE Reviewed[g] # {}
      <4>1. PICK n \in Nodes : status[NodeKey(n, v)] # "ABSENT"
        BY <2>1, <3>2, Constants DEF Assessed
      <4>2. NodeKey(n, v) \in Keys /\ NodeKey(n, v).version = v
        BY KeyFacts
      <4> QED
        BY <4>1, <4>2
    <3> QED
      BY <3>1, <3>2
  <2> QED
    BY <1>6, <2>1, <2>2 DEF Review
<1>7. ASSUME NEW p \in Procs, NEW n \in Nodes,
             RequestRevision(p, n)
      PROVE  NotAhead'
  <2>1. PICK v \in Versions : /\ status[NodeKey(n, v)] # "ABSENT"
                             /\ ver' = [ver EXCEPT ![p] = v]
    BY <1>7 DEF RequestRevision, Assessed
  <2>2. NodeKey(n, v) \in Keys /\ NodeKey(n, v).version = v
    BY KeyFacts
  <2>3. v <= caseVersion
    BY <2>1, <2>2
  <2> QED
    BY <1>7, <2>1, <2>3 DEF RequestRevision
<1>8. ASSUME NEW p \in Procs, BumpCaseVersion(p) PROVE NotAhead'
  <2>1. CASE caseVersion = ver[p]
    BY <1>8, <2>1, <1>a, KeyFacts DEF BumpCaseVersion
  <2>2. CASE caseVersion # ver[p]
    <3>1. Exit(p) /\ UNCHANGED <<shared, tasks>>
      BY <1>8, <2>2 DEF BumpCaseVersion
    <3> QED
      BY <3>1, <1>e
  <2> QED
    BY <2>1, <2>2
<1>9. ASSUME NEW p \in Procs, CreatePlan(p) PROVE NotAhead'
  BY <1>9, <1>a, KeyFacts DEF CreatePlan, CreateTask
<1>10. ASSUME NEW p \in Procs, NEW n \in Nodes, Schedule(p, n) PROVE NotAhead'
  BY <1>10, <1>a, KeyFacts DEF Schedule, CreateTask
<1>11. ASSUME NEW p \in Procs, Succeed(p) PROVE NotAhead'
  BY <1>11, <1>a, KeyFacts DEF Succeed, End, Holding
<1>12. ASSUME NEW p \in Procs, Supersede(p) PROVE NotAhead'
  BY <1>12, <1>a, KeyFacts DEF Supersede, Exit, End, Holding
<1>13. ASSUME NEW p \in Procs, Dispatched(p) PROVE NotAhead'
  BY <1>13, <1>a, KeyFacts DEF Dispatched, Exit, End, Holding
<1>14. ASSUME NEW p \in Procs, NEW g \in Gates,
              RefreshGate(p, g)
       PROVE  NotAhead'
  BY <1>14, <1>a, KeyFacts DEF RefreshGate
<1>15. ASSUME NEW p \in Procs, Scheduled(p) PROVE NotAhead'
  <2>1. CASE Exit(p)
    BY <1>15, <2>1, <1>e DEF Scheduled
  <2>2. CASE ~Exit(p)
    BY <1>15, <2>2, <1>a DEF Scheduled
  <2> QED
    BY <2>1, <2>2
<1>16. ASSUME NEW p \in Procs, LoadOutbox(p) \/ MarkEvent(p) PROVE NotAhead'
  BY <1>16, <1>a, KeyFacts DEF LoadOutbox, MarkEvent
<1>17. ASSUME NEW p \in Procs, Crash(p) PROVE NotAhead'
  BY <1>17, <1>e DEF Crash
<1>18. ASSUME NEW p \in Procs, Raise(p) PROVE NotAhead'
  BY <1>18, <1>a, KeyFacts DEF Raise, Exit, AfterFailure, Holding
<1>19. ASSUME NEW p \in Procs, LoseLease(p) PROVE NotAhead'
  BY <1>19, <1>a, KeyFacts DEF LoseLease, AfterFailure, Holding
<1>20. ASSUME NEW p \in Procs, NEW k \in batch[p],
              SendEvent(p, k)
       PROVE  NotAhead'
  BY <1>20, <1>a, KeyFacts DEF SendEvent
<1>21. ASSUME NEW p \in Procs, NEW k \in batch[p],
              SendFails(p, k)
       PROVE  NotAhead'
  BY <1>21, <1>a, KeyFacts DEF SendFails
<1>22. ASSUME NEW p \in Procs, NEW k \in sent, StartTask(p, k) PROVE NotAhead'
  BY <1>22, <1>a, KeyFacts DEF StartTask, Claimable
<1>23. ASSUME NEW k \in Keys, Reclaim(k) PROVE NotAhead'
  BY <1>23, <1>a, KeyFacts DEF Reclaim, AfterFailure
<1>24. CASE UNCHANGED vars
  BY <1>24, <1>a DEF vars
<1> HIDE DEF TypeInv, TypeOK, NotAhead, Kept
<1> QED
  BY <1>1, <1>2, <1>3, <1>4, <1>5, <1>6, <1>7, <1>8, <1>9, <1>10, <1>11,
     <1>12, <1>13, <1>14, <1>15, <1>16, <1>17, <1>18, <1>19, <1>20, <1>21,
     <1>22, <1>23, <1>24
     DEF Next, Human, Step, Fault

\* What the reads of an advance have found stays true: nothing is taken back.
LEMMA SnapshotStep ==
  TypeInv /\ IntakeRests /\ SnapshotHolds /\ Kept /\ [Next]_vars =>
    SnapshotHolds'
<1> SUFFICES ASSUME TypeInv, IntakeRests, SnapshotHolds, Kept, [Next]_vars
             PROVE  SnapshotHolds'
  OBVIOUS
<1> USE DEF TypeInv, TypeOK, SnapshotHolds, Kept, shared, tasks, snapshot, local,
             counters, Goto
<1>f. ASSUME NEW q \in Procs,
             pc'[q] = pc[q], ver'[q] = ver[q], handed'[q] = handed[q],
             done'[q] = done[q], gates'[q] = gates[q], todo'[q] \subseteq todo[q]
      PROVE  Looked(q)'
  BY <1>f, KeyFacts, Constants DEF Looked, Completed, Prepared
<1>e. ASSUME NEW q \in Procs, pc'[q] \notin {"bump", "schedule"},
             handed'[q] = FALSE, done'[q] = {}, gates'[q] = {}
      PROVE  Looked(q)'
  BY <1>e, Constants DEF Looked
<1>x. ASSUME NEW p \in Procs, Exit(p) PROVE SnapshotHolds'
  BY <1>x, <1>f, <1>e DEF Exit, Forget
<1>i. ASSUME NEW q \in Procs, pc[q] # "refresh"
      PROVE  /\ done[q] = {} /\ gates[q] = {}
             /\ pc[q] # "tasks" => handed[q] = FALSE
  BY <1>i DEF Looked
<1>1. ASSUME NEW p \in Procs,
             Advance(p) \/ CompleteIntake(p)
      PROVE  SnapshotHolds'
  BY <1>1, <1>f, <1>e, <1>i DEF Advance, CompleteIntake
<1>2. ASSUME NEW p \in Procs, NEW g \in Gates, Review(p, g) PROVE SnapshotHolds'
  BY <1>2, <1>f, <1>e, <1>i DEF Review
<1>3. ASSUME NEW p \in Procs, NEW n \in Nodes,
             RequestRevision(p, n)
      PROVE  SnapshotHolds'
  BY <1>3, <1>f, <1>i, KeyFacts, Constants
     DEF RequestRevision, IntakeRests, Assessed, Created, Looked
<1>4. ASSUME NEW p \in Procs,
             SatisfyGate(p) \/ Kick(p) \/ CreatePlan(p)
      PROVE  SnapshotHolds'
  BY <1>4, <1>f, <1>e, <1>i, ZenonT(60) DEF SatisfyGate, Kick, CreatePlan
<1>5. ASSUME NEW p \in Procs, BumpCaseVersion(p) PROVE SnapshotHolds'
  BY <1>5, <1>f, <1>e, <1>i, <1>x DEF BumpCaseVersion
<1>6. ASSUME NEW p \in Procs, Succeed(p) PROVE SnapshotHolds'
  BY <1>6, <1>f, <1>e, <1>i DEF Succeed
<1>7. ASSUME NEW p \in Procs, Supersede(p) \/ Refused(p) PROVE SnapshotHolds'
  BY <1>7, <1>x DEF Supersede, Refused
<1>8. ASSUME NEW p \in Procs, ReadCase(p) PROVE SnapshotHolds'
  BY <1>8, <1>f, <1>i, KeyFacts, Constants DEF ReadCase, Looked
<1>9. ASSUME NEW p \in Procs, ReadTasks(p) PROVE SnapshotHolds'
  BY <1>9, <1>f, <1>i, KeyFacts, Constants DEF ReadTasks, Looked, Completed
<1>10. ASSUME NEW p \in Procs, NEW g \in Gates,
              RefreshGate(p, g)
       PROVE  SnapshotHolds'
  BY <1>10, <1>f, <1>i, KeyFacts, Constants DEF RefreshGate, Looked, Completed
<1>11. ASSUME NEW p \in Procs, EvaluateReadiness(p) PROVE SnapshotHolds'
  BY <1>11, <1>f, <1>i, KeyFacts, Constants
     DEF EvaluateReadiness, Forget, Looked, Ready, Completed
<1>12. ASSUME NEW p \in Procs, NEW n \in Nodes,
              Schedule(p, n)
       PROVE  SnapshotHolds'
  BY <1>12, <1>f DEF Schedule
<1>13. ASSUME NEW p \in Procs, Scheduled(p) PROVE SnapshotHolds'
  <2>1. CASE Exit(p)
    BY <2>1, <1>x
  <2>2. CASE ~Exit(p)
    BY <1>13, <2>2, <1>f, <1>e, <1>i DEF Scheduled
  <2> QED
    BY <2>1, <2>2
<1>14. ASSUME NEW p \in Procs,
              LoadOutbox(p) \/ MarkEvent(p)
       PROVE  SnapshotHolds'
  BY <1>14, <1>f, <1>e, <1>i DEF LoadOutbox, MarkEvent
<1>15. ASSUME NEW p \in Procs,
              Dispatched(p) \/ Crash(p) \/ Raise(p)
       PROVE  SnapshotHolds'
  BY <1>15, <1>x DEF Dispatched, Crash, Raise
<1>16. ASSUME NEW p \in Procs, LoseLease(p) PROVE SnapshotHolds'
  BY <1>16, <1>f DEF LoseLease
<1>17. ASSUME NEW p \in Procs, NEW k \in batch[p],
              SendEvent(p, k)
       PROVE  SnapshotHolds'
  BY <1>17, <1>f, <1>e, <1>i DEF SendEvent
<1>18. ASSUME NEW p \in Procs, NEW k \in batch[p],
              SendFails(p, k)
       PROVE  SnapshotHolds'
  BY <1>18, <1>f DEF SendFails
<1>19. ASSUME NEW p \in Procs, NEW k \in sent,
              StartTask(p, k)
       PROVE  SnapshotHolds'
  BY <1>19, <1>f, <1>e, <1>i DEF StartTask
<1>20. ASSUME NEW k \in Keys, Reclaim(k) PROVE SnapshotHolds'
  BY <1>20, <1>f DEF Reclaim
<1>21. CASE UNCHANGED vars
  BY <1>21, <1>f DEF vars
<1> HIDE DEF TypeInv, TypeOK, SnapshotHolds, Kept
<1> QED
  BY <1>1, <1>2, <1>3, <1>4, <1>5, <1>6, <1>7, <1>8, <1>9, <1>10, <1>11,
     <1>12, <1>13, <1>14, <1>15, <1>16, <1>17, <1>18, <1>19, <1>20, <1>21
     DEF Next, Human, Step, Fault

\* So a task is created where the gates and the predecessors allow it.
LEMMA GatedStep ==
  TypeInv /\ Holding /\ SnapshotHolds /\ Gated /\ Kept /\ [Next]_vars => Gated'
<1> SUFFICES ASSUME TypeInv, Holding, SnapshotHolds, Gated, Kept, [Next]_vars
             PROVE  Gated'
  OBVIOUS
<1> USE DEF TypeInv, TypeOK, Gated, Kept, Created, Completed, tasks
<1>1. ASSUME NEW p \in Procs,
             Advance(p) \/ CompleteIntake(p) \/ SatisfyGate(p)
               \/ BumpCaseVersion(p) \/ Kick(p) \/ Refused(p) \/ ReadCase(p)
               \/ ReadTasks(p) \/ EvaluateReadiness(p) \/ Scheduled(p)
               \/ LoadOutbox(p) \/ MarkEvent(p) \/ Crash(p)
      PROVE  Gated'
  BY <1>1, KeyFacts, Constants
     DEF Advance, CompleteIntake, SatisfyGate, BumpCaseVersion, Kick,
         Refused, ReadCase, ReadTasks, EvaluateReadiness, Scheduled,
         LoadOutbox, MarkEvent, Crash
<1>2. ASSUME NEW p \in Procs, CreatePlan(p) PROVE Gated'
  BY <1>2, KeyFacts, Constants DEF CreatePlan, CreateTask
<1>3. ASSUME NEW p \in Procs, NEW n \in Nodes, Schedule(p, n) PROVE Gated'
  BY <1>3, KeyFacts, Constants DEF Schedule, CreateTask, SnapshotHolds, Looked
<1>4. ASSUME NEW p \in Procs, NEW g \in Gates, Review(p, g) PROVE Gated'
  BY <1>4, KeyFacts, Constants DEF Review
<1>5. ASSUME NEW p \in Procs, NEW n \in Nodes,
             RequestRevision(p, n)
      PROVE  Gated'
  BY <1>5, KeyFacts, Constants DEF RequestRevision
<1>6. ASSUME NEW p \in Procs,
             Succeed(p) \/ Supersede(p) \/ Dispatched(p)
      PROVE  Gated'
  BY <1>6, KeyFacts, Constants DEF Succeed, Supersede, Dispatched, End, Holding
<1>7. ASSUME NEW p \in Procs, NEW g \in Gates, RefreshGate(p, g) PROVE Gated'
  BY <1>7, KeyFacts, Constants DEF RefreshGate
<1>8. ASSUME NEW p \in Procs, Raise(p) \/ LoseLease(p) PROVE Gated'
  BY <1>8, KeyFacts, Constants DEF Raise, LoseLease, Holding
<1>9. ASSUME NEW p \in Procs, NEW k \in batch[p], SendEvent(p, k) PROVE Gated'
  BY <1>9, KeyFacts, Constants DEF SendEvent
<1>10. ASSUME NEW p \in Procs, NEW k \in batch[p], SendFails(p, k) PROVE Gated'
  BY <1>10, KeyFacts, Constants DEF SendFails
<1>11. ASSUME NEW p \in Procs, NEW k \in sent, StartTask(p, k) PROVE Gated'
  BY <1>11, KeyFacts, Constants DEF StartTask, Claimable
<1>12. ASSUME NEW k \in Keys, Reclaim(k) PROVE Gated'
  BY <1>12, KeyFacts, Constants DEF Reclaim
<1>13. CASE UNCHANGED vars
  BY <1>13, KeyFacts, Constants DEF vars
<1> HIDE DEF TypeInv, TypeOK, Gated, Kept
<1> QED
  BY <1>1, <1>2, <1>3, <1>4, <1>5, <1>6, <1>7, <1>8, <1>9, <1>10, <1>11,
     <1>12, <1>13
     DEF Next, Human, Step, Fault

\* And the intake gate, from which all work follows, rests on a handoff.
LEMMA IntakeStep ==
  TypeInv /\ Holding /\ IntakeRests /\ SnapshotHolds /\ Kept /\ [Next]_vars =>
    IntakeRests'
<1> SUFFICES ASSUME TypeInv, Holding, IntakeRests, SnapshotHolds, Kept,
                    [Next]_vars
             PROVE  IntakeRests'
  OBVIOUS
<1> USE DEF TypeInv, TypeOK, IntakeRests, Kept, Created, shared, tasks
<1>1. ASSUME NEW p \in Procs,
             Advance(p) \/ Kick(p) \/ Refused(p) \/ ReadCase(p) \/ ReadTasks(p)
               \/ EvaluateReadiness(p) \/ Scheduled(p) \/ LoadOutbox(p)
               \/ MarkEvent(p) \/ Crash(p)
      PROVE  IntakeRests'
  BY <1>1, KeyFacts, Constants
     DEF Advance, Kick, Refused, ReadCase, ReadTasks, EvaluateReadiness,
         Scheduled, LoadOutbox, MarkEvent, Crash
<1>2. ASSUME NEW p \in Procs, CompleteIntake(p) PROVE IntakeRests'
  BY <1>2, KeyFacts, Constants DEF CompleteIntake
<1>3. ASSUME NEW p \in Procs, SatisfyGate(p) PROVE IntakeRests'
  BY <1>3, KeyFacts, Constants DEF SatisfyGate, Prepared
<1>4. ASSUME NEW p \in Procs, BumpCaseVersion(p) PROVE IntakeRests'
  <2>1. CASE caseVersion = ver[p]
    <3>1. ver[p] \in handoff
      BY <1>4 DEF BumpCaseVersion, SnapshotHolds, Looked
    <3>2. /\ caseVersion' = ver[p] + 1 /\ handoff' = handoff \cup {ver[p] + 1}
          /\ UNCHANGED <<gate, status>>
      BY <1>4, <2>1, <3>1 DEF BumpCaseVersion, CarryHandoff
    <3> QED
      BY <3>2
  <2>2. CASE caseVersion # ver[p]
    BY <1>4, <2>2 DEF BumpCaseVersion
  <2> QED
    BY <2>1, <2>2
<1>5. ASSUME NEW p \in Procs, CreatePlan(p) PROVE IntakeRests'
  BY <1>5, KeyFacts, Constants DEF CreatePlan, CreateTask
<1>6. ASSUME NEW p \in Procs, NEW n \in Nodes, Schedule(p, n) PROVE IntakeRests'
  <2>1. /\ GateOf[n] \in gate[ver[p]]
        /\ \A m \in Preds[n] : Completed(m, ver[p])
    BY <1>6 DEF Schedule, SnapshotHolds, Looked
  <2>2. ver[p] \in handoff
    <3>1. CASE GateOf[n] = IntakeGate
      BY <2>1, <3>1
    <3>2. CASE Preds[n] # {}
      BY <2>1, <3>2, Constants DEF Completed
    <3> QED
      BY <3>1, <3>2, Constants
  <2> QED
    BY <1>6, <2>2, KeyFacts, Constants DEF Schedule, CreateTask
<1>7. ASSUME NEW p \in Procs, NEW g \in Gates, Review(p, g) PROVE IntakeRests'
  BY <1>7, KeyFacts, Constants DEF Review
<1>8. ASSUME NEW p \in Procs, NEW n \in Nodes,
             RequestRevision(p, n)
      PROVE  IntakeRests'
  BY <1>8, KeyFacts, Constants DEF RequestRevision
<1>9. ASSUME NEW p \in Procs,
             Succeed(p) \/ Supersede(p) \/ Dispatched(p)
      PROVE  IntakeRests'
  BY <1>9, KeyFacts, Constants DEF Succeed, Supersede, Dispatched, End, Holding
<1>10. ASSUME NEW p \in Procs, NEW g \in Gates,
              RefreshGate(p, g)
       PROVE  IntakeRests'
  BY <1>10, KeyFacts, Constants DEF RefreshGate, SnapshotHolds, Looked, Derived
<1>11. ASSUME NEW p \in Procs, Raise(p) \/ LoseLease(p) PROVE IntakeRests'
  BY <1>11, KeyFacts, Constants DEF Raise, LoseLease, Holding
<1>12. ASSUME NEW p \in Procs, NEW k \in batch[p],
              SendEvent(p, k)
       PROVE  IntakeRests'
  BY <1>12, KeyFacts, Constants DEF SendEvent
<1>13. ASSUME NEW p \in Procs, NEW k \in batch[p],
              SendFails(p, k)
       PROVE  IntakeRests'
  BY <1>13, KeyFacts, Constants DEF SendFails
<1>14. ASSUME NEW p \in Procs, NEW k \in sent,
              StartTask(p, k)
       PROVE  IntakeRests'
  BY <1>14, KeyFacts, Constants DEF StartTask, Claimable
<1>15. ASSUME NEW k \in Keys, Reclaim(k) PROVE IntakeRests'
  BY <1>15, KeyFacts, Constants DEF Reclaim
<1>16. CASE UNCHANGED vars
  BY <1>16, KeyFacts, Constants DEF vars
<1> HIDE DEF TypeInv, TypeOK, IntakeRests, Kept
<1> QED
  BY <1>1, <1>2, <1>3, <1>4, <1>5, <1>6, <1>7, <1>8, <1>9, <1>10, <1>11,
     <1>12, <1>13, <1>14, <1>15, <1>16
     DEF Next, Human, Step, Fault

\* A new task has its event, and the event goes only after the message.
LEMMA EventsStep ==
  TypeInv /\ Holding /\ EventsCover /\ Kept /\ [Next]_vars => EventsCover'
<1> SUFFICES ASSUME TypeInv, Holding, EventsCover, Kept, [Next]_vars
             PROVE  EventsCover'
  OBVIOUS
<1> USE DEF TypeInv, TypeOK, EventsCover, OutboxCovers, Kept, tasks, snapshot, local,
             counters, Goto, Forget, Exit
<1>e. ASSUME NEW p \in Procs, NEW l, Goto(p, l), l # "mark", UNCHANGED tasks,
             Exit(p) \/ UNCHANGED <<batch, event>>
      PROVE  EventsCover'
  <2>1. \A q \in Procs : /\ pc'[q] = "mark" => pc[q] = "mark" /\ event'[q] = event[q]
                        /\ batch'[q] \subseteq batch[q]
    BY <1>e
  <2>2. UNCHANGED <<status, outbox, sent>>
    BY <1>e
  <2> HIDE DEF Exit, Goto, TypeOK
  <2> QED
    BY <2>1, <2>2
<1>1. ASSUME NEW p \in Procs,
             Advance(p) \/ CompleteIntake(p) \/ SatisfyGate(p) \/ Kick(p)
      PROVE  EventsCover'
  BY <1>1, KeyFacts DEF Advance, CompleteIntake, SatisfyGate, Kick
<1>2. ASSUME NEW p \in Procs, BumpCaseVersion(p) PROVE EventsCover'
  BY <1>2, <1>e DEF BumpCaseVersion
<1>3. ASSUME NEW p \in Procs, Refused(p) \/ Crash(p) PROVE EventsCover'
  BY <1>3, <1>e DEF Refused, Crash
<1>4. ASSUME NEW p \in Procs,
             ReadCase(p) \/ ReadTasks(p) \/ EvaluateReadiness(p)
      PROVE  EventsCover'
  BY <1>4, KeyFacts DEF ReadCase, ReadTasks, EvaluateReadiness
<1>5. ASSUME NEW p \in Procs, Scheduled(p) PROVE EventsCover'
  BY <1>5, <1>e DEF Scheduled
<1>6. ASSUME NEW p \in Procs, CreatePlan(p) PROVE EventsCover'
  BY <1>6, KeyFacts DEF CreatePlan, CreateTask
<1>7. ASSUME NEW p \in Procs, NEW n \in Nodes, Schedule(p, n) PROVE EventsCover'
  BY <1>7, KeyFacts DEF Schedule, CreateTask
<1>8. ASSUME NEW p \in Procs, NEW g \in Gates, Review(p, g) PROVE EventsCover'
  BY <1>8, KeyFacts DEF Review
<1>9. ASSUME NEW p \in Procs, NEW n \in Nodes,
             RequestRevision(p, n)
      PROVE  EventsCover'
  BY <1>9, KeyFacts DEF RequestRevision
<1>10. ASSUME NEW p \in Procs, Succeed(p) PROVE EventsCover'
  BY <1>10, KeyFacts DEF Succeed, End, Holding
<1>11. ASSUME NEW p \in Procs, Supersede(p) PROVE EventsCover'
  BY <1>11, KeyFacts DEF Supersede, End, Holding
<1>12. ASSUME NEW p \in Procs, Dispatched(p) PROVE EventsCover'
  <2>1. CASE task[p] # NoTask /\ End(task[p], "SUCCEEDED")
    BY <1>12, <2>1, KeyFacts DEF Dispatched, End, Holding
  <2>2. CASE UNCHANGED <<status, sent>>
    BY <1>12, <2>2, KeyFacts DEF Dispatched
  <2> QED
    BY <1>12, <2>1, <2>2 DEF Dispatched
<1>13. ASSUME NEW p \in Procs, NEW g \in Gates,
              RefreshGate(p, g)
       PROVE  EventsCover'
  BY <1>13, KeyFacts DEF RefreshGate
<1>14. ASSUME NEW p \in Procs, LoadOutbox(p) PROVE EventsCover'
  BY <1>14, KeyFacts DEF LoadOutbox
<1>15. ASSUME NEW p \in Procs, NEW k \in batch[p],
              SendEvent(p, k)
       PROVE  EventsCover'
  BY <1>15, KeyFacts DEF SendEvent
<1>16. ASSUME NEW p \in Procs, NEW k \in batch[p],
              SendFails(p, k)
       PROVE  EventsCover'
  BY <1>16, KeyFacts DEF SendFails
<1>17. ASSUME NEW p \in Procs, MarkEvent(p) PROVE EventsCover'
  BY <1>17, KeyFacts DEF MarkEvent, Marked
<1>18. ASSUME NEW p \in Procs, Raise(p) PROVE EventsCover'
  BY <1>18, KeyFacts DEF Raise, Holding, AfterFailure
<1>19. ASSUME NEW p \in Procs, LoseLease(p) PROVE EventsCover'
  BY <1>19, KeyFacts DEF LoseLease, Holding, AfterFailure
<1>20. ASSUME NEW p \in Procs, NEW k \in sent,
              StartTask(p, k)
       PROVE  EventsCover'
  BY <1>20, KeyFacts DEF StartTask, Claimable
<1>21. ASSUME NEW k \in Keys, Reclaim(k) PROVE EventsCover'
  BY <1>21, KeyFacts DEF Reclaim, AfterFailure
<1>22. CASE UNCHANGED vars
  BY <1>22 DEF vars
<1> HIDE DEF TypeInv, TypeOK, EventsCover, Kept
<1> QED
  BY <1>1, <1>2, <1>3, <1>4, <1>5, <1>6, <1>7, <1>8, <1>9, <1>10, <1>11,
     <1>12, <1>13, <1>14, <1>15, <1>16, <1>17, <1>18, <1>19, <1>20, <1>21,
     <1>22
     DEF Next, Human, Step, Fault

\* A processor supersedes a task only when the case has moved past it.
LEMMA SupersededStep ==
  TypeInv /\ Holding /\ NotAhead /\ SupersededOld /\ [Next]_vars =>
    SupersededOld'
<1> SUFFICES ASSUME TypeInv, Holding, NotAhead, SupersededOld, [Next]_vars
             PROVE  SupersededOld'
  OBVIOUS
<1> USE DEF TypeInv, TypeOK, SupersededOld, Versions, tasks
<1>1. ASSUME NEW p \in Procs,
             Advance(p) \/ CompleteIntake(p) \/ SatisfyGate(p) \/ Kick(p)
               \/ Refused(p) \/ ReadCase(p) \/ ReadTasks(p)
               \/ EvaluateReadiness(p) \/ Scheduled(p) \/ LoadOutbox(p)
               \/ MarkEvent(p) \/ Crash(p)
      PROVE  SupersededOld'
  BY <1>1, KeyFacts
     DEF Advance, CompleteIntake, SatisfyGate, Kick, Refused, ReadCase,
         ReadTasks, EvaluateReadiness, Scheduled, LoadOutbox, MarkEvent,
         Crash, shared
<1>2. ASSUME NEW p \in Procs, BumpCaseVersion(p) PROVE SupersededOld'
  BY <1>2, KeyFacts DEF BumpCaseVersion
<1>3. ASSUME NEW p \in Procs, CreatePlan(p) PROVE SupersededOld'
  BY <1>3, KeyFacts DEF CreatePlan, CreateTask, shared
<1>4. ASSUME NEW p \in Procs, NEW n \in Nodes,
             Schedule(p, n)
      PROVE  SupersededOld'
  BY <1>4, KeyFacts DEF Schedule, CreateTask, shared
<1>5. ASSUME NEW p \in Procs, NEW g \in Gates, Review(p, g) PROVE SupersededOld'
  BY <1>5, KeyFacts DEF Review, shared
<1>6. ASSUME NEW p \in Procs, NEW n \in Nodes,
             RequestRevision(p, n)
      PROVE  SupersededOld'
  BY <1>6, KeyFacts DEF RequestRevision, shared
<1>7. ASSUME NEW p \in Procs, Succeed(p) \/ Dispatched(p) PROVE SupersededOld'
  BY <1>7, KeyFacts DEF Succeed, Dispatched, End, shared
<1>8. ASSUME NEW p \in Procs, Supersede(p) PROVE SupersededOld'
  <2>1. task[p] \in Keys /\ task[p].version \in Versions
    BY <1>8, KeyFacts DEF Supersede
  <2>2. task[p].version # caseVersion /\ task[p].version <= caseVersion
    BY <1>8, <2>1 DEF Supersede, Overtaken, NotAhead, Holding
  <2> QED
    BY <1>8, <2>1, <2>2, KeyFacts DEF Supersede, End, shared
<1>9. ASSUME NEW p \in Procs, NEW g \in Gates,
             RefreshGate(p, g)
      PROVE  SupersededOld'
  BY <1>9, KeyFacts DEF RefreshGate
<1>10. ASSUME NEW p \in Procs, NEW k \in batch[p],
              SendEvent(p, k)
       PROVE  SupersededOld'
  BY <1>10, KeyFacts DEF SendEvent, shared
<1>11. ASSUME NEW p \in Procs, NEW k \in batch[p],
              SendFails(p, k)
       PROVE  SupersededOld'
  BY <1>11, KeyFacts DEF SendFails, shared
<1>12. ASSUME NEW p \in Procs, Raise(p) \/ LoseLease(p) PROVE SupersededOld'
  BY <1>12, KeyFacts DEF Raise, LoseLease, AfterFailure, shared
<1>13. ASSUME NEW p \in Procs, NEW k \in sent,
              StartTask(p, k)
       PROVE  SupersededOld'
  BY <1>13, KeyFacts DEF StartTask, shared
<1>14. ASSUME NEW k \in Keys, Reclaim(k) PROVE SupersededOld'
  BY <1>14, KeyFacts DEF Reclaim, AfterFailure, shared
<1>15. CASE UNCHANGED vars
  BY <1>15 DEF vars, shared
<1> HIDE DEF TypeInv, TypeOK, SupersededOld
<1> QED
  BY <1>1, <1>2, <1>3, <1>4, <1>5, <1>6, <1>7, <1>8, <1>9, <1>10, <1>11,
     <1>12, <1>13, <1>14, <1>15
     DEF Next, Human, Step, Fault

-------------------------------------------------------------------------------
(****************************************************************************)
(* The theorems.                                                            *)
(****************************************************************************)
LEMMA InitHolds == Init => IInv
<1> SUFFICES ASSUME Init PROVE IInv
  OBVIOUS
<1> USE Constants DEF Init
<1>1. TypeOK
  BY Labels DEF TypeOK, Versions, Refs
<1>2. Prepared /\ Holding
  BY DEF Prepared, Holding
<1>3. NotAhead /\ SupersededOld
  BY DEF NotAhead, SupersededOld
<1>4. IntakeRests /\ Gated
  BY KeyFacts DEF IntakeRests, Gated, Created
<1>5. SnapshotHolds
  BY DEF SnapshotHolds, Looked
<1>6. EventsCover
  BY DEF EventsCover, OutboxCovers
<1> QED
  BY <1>1, <1>2, <1>3, <1>4, <1>5, <1>6 DEF IInv, TypeInv

LEMMA Inductive == IInv /\ [Next]_vars => IInv' /\ Kept
<1> SUFFICES ASSUME IInv, [Next]_vars PROVE IInv' /\ Kept
  OBVIOUS
<1>1. Kept
  BY KeptStep DEF IInv
<1>2. TypeInv'
  BY TypeStep, PreparedStep DEF IInv, TypeInv
<1>3. Holding' /\ NotAhead' /\ SupersededOld'
  BY <1>1, HoldingStep, NotAheadStep, SupersededStep DEF IInv
<1>4. IntakeRests' /\ SnapshotHolds' /\ Gated' /\ EventsCover'
  BY <1>1, IntakeStep, SnapshotStep, GatedStep, EventsStep DEF IInv
<1> QED
  BY <1>1, <1>2, <1>3, <1>4 DEF IInv

LEMMA Invariance == Spec => []IInv
  BY InitHolds, Inductive, PTL DEF Spec

\* What the invariant says of WorkGated and of HandoffCarried.
LEMMA Consequences == IInv => WorkGated /\ HandoffCarried
<1> SUFFICES ASSUME IInv PROVE WorkGated /\ HandoffCarried
  OBVIOUS
<1>1. WorkGated
  BY DEF IInv, Gated, Holding, WorkGated, Completed
<1>2. HandoffCarried
  BY DEF IInv, IntakeRests, SupersededOld, HandoffCarried
<1> QED
  BY <1>1, <1>2

\* Every variable keeps its type: a process holds a task of the template or of a
\* tick, or none, and no revision passes the last version.
THEOREM TypeCorrect == Spec => []TypeOK
  BY Invariance, PTL DEF IInv, TypeInv

\* KickoffOrchestration and AdvanceCase: however old the snapshot an advance
\* decided on, a task exists only behind its satisfied gate and its succeeded
\* predecessors, and one execution at most runs it with its lease.
THEOREM WorkIsGated == Spec => []WorkGated
  BY Invariance, Consequences, PTL

\* create_task and DispatchOutbox: whatever crashes, a task that was never
\* started is in the outbox or has its message.
THEOREM NothingUndispatched == Spec => []OutboxCovers
  BY Invariance, PTL DEF IInv, EventsCover

\* bump_case_version clones the handoff: every version with work, and every
\* version but the first, has an intake handoff; what is superseded is old.
THEOREM IntakeCarried == Spec => []HandoffCarried
  BY Invariance, Consequences, PTL

\* No step of any process, and no fault, takes back a version, a handoff, a gate,
\* a task or a success: the reason an advance may decide on an old snapshot.
THEOREM NothingTakenBack == Spec => [][Kept]_vars
  BY Invariance, Inductive, PTL DEF Spec
===============================================================================
