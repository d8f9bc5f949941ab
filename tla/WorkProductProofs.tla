--------------------------- MODULE WorkProductProofs ---------------------------
(****************************************************************************)
(* Proofs about the work of the specialists: how it is recorded, for any    *)
(* number of runners, opinions and gaps, and any number of leases lost;     *)
(* what their tools compute; what their drafts cite; and what a retrieval   *)
(* answers them.  What is proved of initial states and steps is used where  *)
(* Preparation has a desk at work.                                          *)
(*                                                                          *)
(* Recording comes first.  Checkpoints are fenced by the lease and          *)
(* persisting is not.  The argument is that whoever may still persist has   *)
(* the draft of the checkpoint, and whoever could replace that checkpoint   *)
(* has lost the lease.                                                      *)
(****************************************************************************)
EXTENDS Specialists, Calculators, CollateralChecklist, Drafting, Retrieval, FoldFacts,
        TLAPS

LEMMA AgentFacts ==
  /\ Agents = {"UNDERWRITING", "LEGAL", "RISK", "OPERATIONS"}
  /\ Upstream["UNDERWRITING"] = {} /\ Upstream["LEGAL"] = {}
  /\ \A a \in Agents : Upstream[a] \subseteq Agents
  /\ \A a \in Agents : a \notin {"RISK", "OPERATIONS"} => Upstream[a] = {}
  /\ DOMAIN Computed = Agents
  /\ \A a \in Agents : Computed[a] \subseteq Gap /\ ModelGaps[a] \subseteq Gap
<1>1. /\ Agents = {"UNDERWRITING", "LEGAL", "RISK", "OPERATIONS"}
      /\ Upstream["UNDERWRITING"] = {} /\ Upstream["LEGAL"] = {}
  BY DEF Agents, Upstream
<1>2. \A a \in Agents : Upstream[a] \subseteq Agents
  BY DEF Agents, Upstream
<1>3. \A a \in Agents : Computed[a] \subseteq Gap /\ ModelGaps[a] \subseteq Gap
  BY DEF Computed, Gap
<1> QED
  BY <1>1, <1>2, <1>3 DEF Computed

(****************************************************************************)
(* The inductive invariant.                                                 *)
(****************************************************************************)
\* What a runner has in memory.
Memory(agent, step, seen, from, blind, open, draft) ==
  [agent |-> agent, step |-> step, seen |-> seen, from |-> from, blind |-> blind,
   open |-> open, draft |-> draft]
Recalls(m, a, s, e, f, b, o, d) ==
  /\ m = Memory(m.agent, m.step, m.seen, m.from, m.blind, m.open, m.draft)
  /\ m.agent = a /\ m.step = s /\ m.seen = e /\ m.from = f
  /\ m.blind = b /\ m.open = o /\ m.draft = d
  /\ s # "off" => m # Off
Shaped(x) == x = Memory(x.agent, x.step, x.seen, x.from, x.blind, x.open, x.draft)
Steps ==
  {"start", "blind", "persist blind", "save blind", "gaps", "draft",
   "persist", "persisted", "finish"}
AtWork(x) ==
  /\ Shaped(x)
  /\ x.agent \in Agents /\ x.step \in Steps
  /\ x.blind \in Opinions \cup {Nobody} /\ x.open \subseteq Agents \X Gap

\* The steps between the first read and the draft, and the checkpoints that may be
\* there by then.
Preparing == {"blind", "persist blind", "save blind", "gaps", "draft"}
Undrafted == {"NONE", "PROGRESS", "BLIND"}

\* A draft is the one that its checkpoint, or the row after it, keeps.
DraftStands(a, d) ==
  \/ task[a].point.type = "DRAFT" /\ task[a].point.data = d
  \/ task[a].point.type = "PERSISTED" /\ output[a] = <<d>>

\* A draft was made from the stored ones, with their gaps open and the computed
\* ones declared.
Grounded(a, d) ==
  /\ IsDraft(a, d) /\ Computed[a] \subseteq d.gaps
  /\ \A u \in Upstream[a] :
       /\ output[u] # <<>> /\ d.from[u] = output[u][1].gaps
       /\ {u} \X output[u][1].gaps \subseteq d.open

\* The holder of a lease is up to date with its checkpoint.
InTime(w) ==
  LET x == runner[w] IN
  task[x.agent].lease = w =>
    /\ x.step = "start" => x.seen = task[x.agent].point
    /\ x.step \in Preparing => task[x.agent].point.type \in Undrafted

RunnerHolds(w) ==
  LET x == runner[w]
      a == x.agent IN
  x # Off =>
    /\ AtWork(x) /\ InTime(w)
    /\ \A u \in Upstream[a] : output[u] # <<>>
    /\ x.step \in Preparing => x.from = [u \in Upstream[a] |-> output[u][1].gaps]
    /\ x.step = "persist blind" => x.blind \in Opinions
    /\ x.step = "save blind" => blindRow # <<>>
    /\ x.step = "draft" => \A u \in Upstream[a] : {u} \X output[u][1].gaps \subseteq x.open
    /\ x.step = "start" /\ x.seen.type = "DRAFT" => DraftStands(a, x.seen.data)
    /\ x.step = "start" /\ x.seen.type = "PERSISTED" => output[a] # <<>>
    /\ x.step = "persist" => DraftStands(a, x.draft)
    /\ x.step \in {"persisted", "finish"} => output[a] # <<>>

TaskTyped(t) ==
  /\ t = [outcome |-> t.outcome, lease |-> t.lease, point |-> t.point]
  /\ t.outcome \in {"open", "SUCCEEDED", "SUPERSEDED", "FAILED_MANUAL_REVIEW"}
  /\ t.lease \in Runners \cup {Nobody}
  /\ t.point.type \in Undrafted \cup {"DRAFT", "PERSISTED"}

TaskHolds(a) ==
  LET point == task[a].point IN
  /\ TaskTyped(task[a])
  /\ output[a] # <<>> =>
       /\ output[a] = <<output[a][1]>> /\ Grounded(a, output[a][1])
       /\ point.type \in {"DRAFT", "PERSISTED"}
  /\ point.type = "DRAFT" =>
       Grounded(a, point.data) /\ output[a] \in {<<>>, <<point.data>>}
  /\ point.type = "PERSISTED" => output[a] # <<>>
  /\ task[a].outcome = "SUCCEEDED" => output[a] # <<>>

Tables ==
  /\ DOMAIN runner = Runners /\ DOMAIN task = Agents /\ DOMAIN output = Agents
  /\ blindRow = <<>> \/ blindRow[1] \in Opinions
  /\ gapRows \subseteq Agents \X Gap
  /\ losses \in 0..MaxLosses

OpenGapsStored ==
  gapRows = UNION {{a} \X output[a][1].gaps : a \in {b \in Agents : output[b] # <<>>}}

SpecialistsInv ==
  /\ Tables
  /\ \A w \in Runners : RunnerHolds(w)
  /\ \A a \in Agents : TaskHolds(a)
  /\ OpenGapsStored
--------------------------------------------------------------------------------
(****************************************************************************)
(* What a step leaves alone.                                                *)
(****************************************************************************)
LEMMA MemoryFields ==
  ASSUME NEW a, NEW s, NEW e, NEW f, NEW b, NEW o, NEW d, NEW m,
         m = Memory(a, s, e, f, b, o, d)
  PROVE  Recalls(m, a, s, e, f, b, o, d)
<1>1. /\ m.agent = a /\ m.step = s /\ m.seen = e /\ m.from = f
      /\ m.blind = b /\ m.open = o /\ m.draft = d
  BY DEF Memory
<1>2. s # "off" => m # Off
  BY <1>1 DEF Off
<1> QED
  BY <1>1, <1>2 DEF Recalls, Shaped

\* A runner that a step leaves alone.
LEMMA RunnerKept ==
  ASSUME NEW w \in Runners, RunnerHolds(w), runner'[w] = runner[w],
         \A a \in Agents : output[a] # <<>> => output'[a] = output[a],
         blindRow # <<>> => blindRow' # <<>>,
         \A a \in Agents : \A d : DraftStands(a, d) => DraftStands(a, d)',
         \A a \in Agents : task'[a].lease = w =>
           task[a].lease = w /\ task'[a].point = task[a].point
  PROVE  RunnerHolds(w)'
<1> SUFFICES ASSUME runner[w] # Off
             PROVE  RunnerHolds(w)'
  BY DEF RunnerHolds
<1> DEFINE x == runner[w]
           a == x.agent
<1>1. /\ AtWork(x) /\ InTime(w)
      /\ \A u \in Upstream[a] : output[u] # <<>>
      /\ x.step \in Preparing => x.from = [u \in Upstream[a] |-> output[u][1].gaps]
      /\ x.step = "persist blind" => x.blind \in Opinions
      /\ x.step = "save blind" => blindRow # <<>>
      /\ x.step = "draft" => \A u \in Upstream[a] : {u} \X output[u][1].gaps \subseteq x.open
      /\ x.step = "start" /\ x.seen.type = "DRAFT" => DraftStands(a, x.seen.data)
      /\ x.step = "start" /\ x.seen.type = "PERSISTED" => output[a] # <<>>
      /\ x.step = "persist" => DraftStands(a, x.draft)
      /\ x.step \in {"persisted", "finish"} => output[a] # <<>>
  BY DEF RunnerHolds
<1>2. a \in Agents /\ Upstream[a] \subseteq Agents
  BY <1>1, AgentFacts DEF AtWork
<1>3. \A u \in Upstream[a] : output'[u] = output[u]
  BY <1>1, <1>2
<1>4. output[a] # <<>> => output'[a] # <<>>
  BY <1>2
<1>5. AtWork(x)' /\ InTime(w)'
  BY <1>1, <1>2 DEF InTime, AtWork, Shaped, Memory
<1>6. /\ DraftStands(a, x.seen.data) => DraftStands(a, x.seen.data)'
      /\ DraftStands(a, x.draft) => DraftStands(a, x.draft)'
  <2> PICK b, e, f : b = a /\ e = x.seen.data /\ f = x.draft
    OBVIOUS
  <2>1. /\ DraftStands(b, e) => DraftStands(b, e)'
        /\ DraftStands(b, f) => DraftStands(b, f)'
    BY <1>2
  <2>2. a' = a /\ x.seen.data' = x.seen.data /\ x.draft' = x.draft
    OBVIOUS
  <2> QED
    BY <2>1, <2>2 DEF DraftStands
<1>7. [u \in Upstream[a] |-> output'[u][1].gaps] = [u \in Upstream[a] |-> output[u][1].gaps]
  BY <1>3
<1>8. a' = a /\ x' = x
  OBVIOUS
<1> QED
  BY <1>1, <1>3, <1>4, <1>5, <1>6, <1>7, <1>8 DEF RunnerHolds

\* A grounded draft stays so, since what is stored is never replaced.
LEMMA GroundedKept ==
  ASSUME NEW a \in Agents, NEW d, Grounded(a, d),
         \A b \in Agents : output[b] # <<>> => output'[b] = output[b]
  PROVE  Grounded(a, d)'
<1>1. \A u \in Upstream[a] : output'[u] = output[u]
  BY AgentFacts DEF Grounded
<1> QED
  BY <1>1 DEF Grounded, IsDraft

\* A task whose checkpoint and output a step leaves alone.
LEMMA TaskKept ==
  ASSUME NEW a \in Agents, TaskHolds(a), TaskTyped(task'[a]),
         task'[a].point = task[a].point, output'[a] = output[a],
         task'[a].outcome = "SUCCEEDED" => output[a] # <<>>,
         \A b \in Agents : output[b] # <<>> => output'[b] = output[b]
  PROVE  TaskHolds(a)'
<1>1. PICK d, e : d = output[a][1] /\ e = task[a].point.data
  OBVIOUS
<1>2. /\ Grounded(a, d) => Grounded(a, d)'
      /\ Grounded(a, e) => Grounded(a, e)'
  BY GroundedKept
<1>3. /\ output[a] # <<>> => Grounded(a, d)
      /\ task[a].point.type = "DRAFT" => Grounded(a, e)
  BY <1>1 DEF TaskHolds
<1>4. /\ output'[a] # <<>> => Grounded(a, output[a][1])'
      /\ task'[a].point.type = "DRAFT" => Grounded(a, task[a].point.data)'
  <2>1. output'[a][1] = d /\ task'[a].point.data = e
    BY <1>1
  <2> QED
    BY <1>2, <1>3, <2>1 DEF Grounded, IsDraft
<1> QED
  BY <1>4 DEF TaskHolds, TaskTyped

\* A step of one runner that writes no row.
LEMMA RunnerAlone ==
  ASSUME SpecialistsInv, NEW w \in Runners, DOMAIN runner' = Runners,
         \A q \in Runners \ {w} : runner'[q] = runner[q],
         UNCHANGED <<task, output, gapRows, blindRow, losses>>, RunnerHolds(w)'
  PROVE  SpecialistsInv'
<1> USE DEF SpecialistsInv
<1>1. Tables' /\ OpenGapsStored'
  BY DEF Tables, OpenGapsStored
<1>2. \A a \in Agents : TaskHolds(a)'
  BY DEF TaskHolds, Grounded, IsDraft
<1>3. \A a \in Agents : \A d : DraftStands(a, d) => DraftStands(a, d)'
  BY DEF DraftStands
<1>4. \A q \in Runners : RunnerHolds(q)'
  <2> SUFFICES ASSUME NEW q \in Runners \ {w}
               PROVE  RunnerHolds(q)'
    OBVIOUS
  <2> QED
    BY <1>3, RunnerKept
<1> QED
  BY <1>1, <1>2, <1>4

\* A step that writes the task of one agent, and no other row.
LEMMA TaskAlone ==
  ASSUME SpecialistsInv, NEW w \in Runners, NEW a \in Agents,
         DOMAIN runner' = Runners, \A q \in Runners \ {w} : runner'[q] = runner[q],
         DOMAIN task' = Agents, \A b \in Agents \ {a} : task'[b] = task[b],
         UNCHANGED <<output, gapRows, blindRow>>, losses' \in 0..MaxLosses,
         \A d : DraftStands(a, d) => DraftStands(a, d)',
         \A q \in Runners \ {w} : task'[a].lease = q =>
           task[a].lease = q /\ task'[a].point = task[a].point,
         RunnerHolds(w)', TaskHolds(a)'
  PROVE  SpecialistsInv'
<1> USE DEF SpecialistsInv
<1>1. Tables' /\ OpenGapsStored'
  BY DEF Tables, OpenGapsStored
<1>2. \A b \in Agents \ {a} : TaskHolds(b)'
  BY TaskKept DEF TaskHolds
<1>3. \A b \in Agents : \A d : DraftStands(b, d) => DraftStands(b, d)'
  BY DEF DraftStands
<1>4. ASSUME NEW q \in Runners \ {w}
      PROVE  RunnerHolds(q)'
  <2>1. \A b \in Agents : task'[b].lease = q =>
          task[b].lease = q /\ task'[b].point = task[b].point
    OBVIOUS
  <2> QED
    BY <1>3, <2>1, RunnerKept
<1> QED
  BY <1>1, <1>2, <1>4

LEMMA OffHolds == ASSUME NEW w \in Runners, runner'[w] = Off PROVE RunnerHolds(w)'
  BY DEF RunnerHolds

\* What a task is after a write.
LEMMA TaskMade ==
  ASSUME NEW o \in {"open", "SUCCEEDED", "SUPERSEDED", "FAILED_MANUAL_REVIEW"},
         NEW l \in Runners \cup {Nobody}, NEW p,
         p.type \in Undrafted \cup {"DRAFT", "PERSISTED"}
  PROVE  LET t == [outcome |-> o, lease |-> l, point |-> p] IN
         TaskTyped(t) /\ t.outcome = o /\ t.lease = l /\ t.point = p
  BY DEF TaskTyped

\* What a runner at work is known to have.
LEMMA AtItsStep ==
  ASSUME SpecialistsInv, NEW w \in Runners, runner[w].step # "off"
  PROVE  LET x == runner[w]
             a == x.agent IN
         /\ x # Off /\ AtWork(x) /\ InTime(w) /\ a \in Agents
         /\ \A u \in Upstream[a] : output[u] # <<>>
         /\ x.step \in Preparing => x.from = [u \in Upstream[a] |-> output[u][1].gaps]
         /\ x.step = "persist blind" => x.blind \in Opinions
         /\ x.step = "save blind" => blindRow # <<>>
         /\ x.step = "draft" => \A u \in Upstream[a] : {u} \X output[u][1].gaps \subseteq x.open
         /\ x.step = "start" /\ x.seen.type = "DRAFT" => DraftStands(a, x.seen.data)
         /\ x.step = "start" /\ x.seen.type = "PERSISTED" => output[a] # <<>>
         /\ x.step = "persist" => DraftStands(a, x.draft)
         /\ x.step \in {"persisted", "finish"} => output[a] # <<>>
         /\ TaskHolds(a) /\ runner[w].agent # "none"
         /\ x = Memory(a, x.step, x.seen, x.from, x.blind, x.open, x.draft)
<1>1. runner[w] # Off
  BY DEF Off
<1>2. RunnerHolds(w)
  BY DEF SpecialistsInv
<1>3. AtWork(runner[w])
  BY <1>1, <1>2 DEF RunnerHolds
<1>4. runner[w].agent \in Agents /\ Shaped(runner[w])
  BY <1>3 DEF AtWork
<1>5. TaskHolds(runner[w].agent) /\ runner[w].agent # "none"
  BY <1>4, AgentFacts DEF SpecialistsInv
<1> QED
  BY <1>4, <1>5, <1>1, <1>2, <1>3 DEF RunnerHolds, Shaped
--------------------------------------------------------------------------------
(****************************************************************************)
(* One lemma for each action.                                               *)
(****************************************************************************)
LEMMA InitHolds == SpecialistsInit => SpecialistsInv
<1> SUFFICES ASSUME SpecialistsInit
             PROVE  SpecialistsInv
  OBVIOUS
<1> USE DEF SpecialistsInit
<1>1. Tables
  BY RunnersAssumption DEF Tables
<1>2. \A w \in Runners : RunnerHolds(w)
  BY DEF RunnerHolds
<1>3. \A a \in Agents : TaskHolds(a)
  BY DEF TaskHolds, TaskTyped, NoPoint, Undrafted
<1>4. OpenGapsStored
  BY DEF OpenGapsStored
<1> QED
  BY <1>4, <1>1, <1>2, <1>3 DEF SpecialistsInv

LEMMA LeaveStep ==
  ASSUME SpecialistsInv, NEW w \in Runners, Leave(w)
  PROVE  SpecialistsInv'
<1>1. DOMAIN runner = Runners
  BY DEF SpecialistsInv, Tables
<1> QED
  BY <1>1, RunnerAlone, OffHolds DEF Leave

LEMMA LoseLeaseStep ==
  ASSUME SpecialistsInv, NEW a \in Agents, LoseLease(a)
  PROVE  SpecialistsInv'
<1> USE DEF LoseLease
<1>1. DOMAIN runner = Runners /\ DOMAIN task = Agents /\ losses \in 0..MaxLosses
  BY DEF SpecialistsInv, Tables
<1>2. TaskTyped(task[a]) /\ TaskHolds(a)
  BY DEF SpecialistsInv, TaskHolds
<1>3. task' = [task EXCEPT ![a].lease = Nobody] /\ UNCHANGED <<runner, output, gapRows, blindRow>>
  OBVIOUS
<1>4. task'[a] = [outcome |-> task[a].outcome, lease |-> Nobody, point |-> task[a].point]
  <2>1. task[a] = [outcome |-> task[a].outcome, lease |-> task[a].lease,
                   point |-> task[a].point]
    BY <1>2 DEF TaskTyped
  <2>2. [task[a] EXCEPT !.lease = Nobody] =
          [outcome |-> task[a].outcome, lease |-> Nobody, point |-> task[a].point]
    BY <2>1
  <2> QED
    BY <1>1, <1>3, <2>2
<1>5. DOMAIN task' = Agents /\ \A b \in Agents \ {a} : task'[b] = task[b]
  BY <1>1, <1>3
<1>6. TaskHolds(a)'
  <2>1. TaskTyped(task'[a])
    BY <1>2, <1>4 DEF TaskTyped
  <2>2. task'[a].outcome = "SUCCEEDED" => output[a] # <<>>
    BY <1>2, <1>4 DEF TaskHolds
  <2> QED
    BY <1>2, <1>3, <1>4, <2>1, <2>2, TaskKept
<1>7. \A b \in Agents : \A d : DraftStands(b, d) => DraftStands(b, d)'
  <2>1. \A b \in Agents : task'[b].point = task[b].point
    BY <1>4, <1>5
  <2> QED
    BY <1>3, <2>1 DEF DraftStands
<1>8. \A b \in Agents : TaskHolds(b)'
  <2> SUFFICES ASSUME NEW b \in Agents \ {a}
               PROVE  TaskHolds(b)'
    BY <1>6
  <2> QED
    BY <1>3, <1>5, TaskKept DEF SpecialistsInv, TaskHolds
<1>9. \A q \in Runners : RunnerHolds(q)'
  <2> SUFFICES ASSUME NEW q \in Runners
               PROVE  RunnerHolds(q)'
    OBVIOUS
  <2>1. \A b \in Agents : task'[b].lease = q =>
          task[b].lease = q /\ task'[b].point = task[b].point
    BY <1>4, <1>5, RunnersAssumption
  <2> QED
    BY <1>3, <1>7, <2>1, RunnerKept DEF SpecialistsInv
<1>10. losses' \in 0..MaxLosses
  BY <1>1, RunnersAssumption
<1>11. Tables' /\ OpenGapsStored'
  BY <1>3, <1>5, <1>10 DEF SpecialistsInv, Tables, OpenGapsStored
<1> QED
  BY <1>8, <1>9, <1>11 DEF SpecialistsInv

\* The outcome of a task; a success has its output in place.
LEMMA EndStep ==
  ASSUME SpecialistsInv, NEW w \in Runners, runner[w].step # "off",
         NEW outcome \in {"SUCCEEDED", "SUPERSEDED", "FAILED_MANUAL_REVIEW"},
         outcome = "SUCCEEDED" => output[runner[w].agent] # <<>>,
         End(w, outcome)
  PROVE  SpecialistsInv'
<1> USE DEF End
<1>1. PICK a \in Agents : a = runner[w].agent
  BY AtItsStep
<1>2. DOMAIN runner = Runners /\ DOMAIN task = Agents /\ losses \in 0..MaxLosses
  BY DEF SpecialistsInv, Tables
<1>3. TaskTyped(task[a]) /\ TaskHolds(a)
  BY DEF SpecialistsInv, TaskHolds
<1>4. /\ task' = [task EXCEPT ![a].outcome = outcome, ![a].lease = Nobody]
      /\ runner' = [runner EXCEPT ![w] = Off]
      /\ UNCHANGED <<output, gapRows, blindRow, losses>>
  BY <1>1
<1>5. task'[a] = [outcome |-> outcome, lease |-> Nobody, point |-> task[a].point]
  <2>1. task[a] = [outcome |-> task[a].outcome, lease |-> task[a].lease,
                   point |-> task[a].point]
    BY <1>3 DEF TaskTyped
  <2>2. [task[a] EXCEPT !.outcome = outcome] =
          [outcome |-> outcome, lease |-> task[a].lease, point |-> task[a].point]
    BY <2>1
  <2>3. [[outcome |-> outcome, lease |-> task[a].lease, point |-> task[a].point]
           EXCEPT !.lease = Nobody] =
          [outcome |-> outcome, lease |-> Nobody, point |-> task[a].point]
    OBVIOUS
  <2>4. [[task[a] EXCEPT !.outcome = outcome] EXCEPT !.lease = Nobody] =
          [outcome |-> outcome, lease |-> Nobody, point |-> task[a].point]
    BY <2>2, <2>3, Zenon
  <2>5. task'[a] = [[task[a] EXCEPT !.outcome = outcome] EXCEPT !.lease = Nobody]
    BY <1>2, <1>4
  <2> QED
    BY <2>4, <2>5
<1>6. /\ DOMAIN task' = Agents /\ \A b \in Agents \ {a} : task'[b] = task[b]
      /\ DOMAIN runner' = Runners /\ \A q \in Runners \ {w} : runner'[q] = runner[q]
      /\ runner'[w] = Off
  BY <1>2, <1>4
<1>7. TaskHolds(a)'
  <2>1. PICK p : p = task[a].point
    OBVIOUS
  <2>2. p.type \in Undrafted \cup {"DRAFT", "PERSISTED"}
    BY <1>3, <2>1 DEF TaskTyped
  <2>3. PICK t : t = [outcome |-> outcome, lease |-> Nobody, point |-> p]
    OBVIOUS
  <2>4. TaskTyped(t) /\ t.outcome = outcome /\ t.point = p
    BY <2>2, <2>3, TaskMade
  <2>5. task'[a] = t
    BY <1>5, <2>1, <2>3
  <2> QED
    BY <1>1, <1>3, <1>4, <2>1, <2>4, <2>5, TaskKept
<1>8. \A d : DraftStands(a, d) => DraftStands(a, d)'
  <2>1. PICK p : p = task[a].point
    OBVIOUS
  <2>2. task'[a].point = p /\ output'[a] = output[a]
    BY <1>4, <1>5, <2>1
  <2> HIDE DEF End
  <2> QED
    BY <2>1, <2>2 DEF DraftStands
<1>9. \A q \in Runners : task'[a].lease # q
  BY <1>5, RunnersAssumption
<1>10. RunnerHolds(w)'
  BY <1>6, OffHolds
<1> QED
  BY <1>2, <1>4, <1>6, <1>7, <1>8, <1>9, <1>10, TaskAlone

LEMMA ClaimStep ==
  ASSUME SpecialistsInv, NEW w \in Runners, NEW a \in Agents, Claim(w, a)
  PROVE  SpecialistsInv'
<1> USE DEF Claim
<1>1. DOMAIN runner = Runners /\ DOMAIN task = Agents /\ losses \in 0..MaxLosses
  BY DEF SpecialistsInv, Tables
<1>2. TaskTyped(task[a]) /\ TaskHolds(a)
  BY DEF SpecialistsInv, TaskHolds
<1>3. task'[a] = [outcome |-> task[a].outcome, lease |-> w, point |-> task[a].point]
  <2>1. task[a] = [outcome |-> task[a].outcome, lease |-> task[a].lease,
                   point |-> task[a].point]
    BY <1>2 DEF TaskTyped
  <2>2. [task[a] EXCEPT !.lease = w] =
          [outcome |-> task[a].outcome, lease |-> w, point |-> task[a].point]
    BY <2>1
  <2> QED
    BY <1>1, <2>2
<1>4. /\ DOMAIN task' = Agents /\ \A b \in Agents \ {a} : task'[b] = task[b]
      /\ DOMAIN runner' = Runners /\ \A q \in Runners \ {w} : runner'[q] = runner[q]
      /\ runner'[w] = Memory(a, "start", task[a].point, <<>>, Nobody, {}, <<>>)
  BY <1>1 DEF Memory
<1>5. TaskHolds(a)'
  <2>1. TaskTyped(task'[a])
    BY <1>2, <1>3 DEF TaskTyped
  <2>2. task'[a].outcome = "SUCCEEDED" => output[a] # <<>>
    BY <1>2, <1>3 DEF TaskHolds
  <2> QED
    BY <1>2, <1>3, <2>1, <2>2, TaskKept
<1>6. \A d : DraftStands(a, d) => DraftStands(a, d)'
  BY <1>3 DEF DraftStands
<1>7. RunnerHolds(w)'
  <2>1. PICK x : x = runner'[w]
    OBVIOUS
  <2>2. /\ x.agent = a /\ x.step = "start" /\ x.seen = task[a].point
        /\ x.blind = Nobody /\ x.open = {} /\ Shaped(x)
    BY <1>4, <2>1, MemoryFields DEF Recalls, Shaped
  <2>3. AtWork(x)
    BY <2>2 DEF AtWork, Steps
  <2>4. task'[a].point = task[a].point /\ task'[a].point = x.seen
    BY <1>3, <2>2
  <2>5. x.seen.type = "DRAFT" => DraftStands(a, x.seen.data)'
    BY <2>1, <2>4 DEF DraftStands
  <2>6. x.seen.type = "PERSISTED" => output'[a] # <<>>
    BY <1>2, <2>2 DEF TaskHolds
  <2> QED
    BY <2>4, <2>5, <2>6, <2>1, <2>2, <2>3 DEF RunnerHolds, InTime, Preparing, DraftStands
<1>8. \A q \in Runners \ {w} : task'[a].lease # q
  BY <1>3
<1> QED
  BY <1>1, <1>4, <1>5, <1>6, <1>7, <1>8, TaskAlone

\* A runner goes on with what it has, or with one more thing.
LEMMA StepSet ==
  ASSUME SpecialistsInv, NEW w \in Runners, NEW x, runner[w] = x, x.step # "off",
         NEW s, runner' = [runner EXCEPT ![w].step = s]
  PROVE  Recalls(runner'[w], x.agent, s, x.seen, x.from, x.blind, x.open, x.draft)
<1>1. DOMAIN runner = Runners
  BY DEF SpecialistsInv, Tables
<1>2. x = Memory(x.agent, x.step, x.seen, x.from, x.blind, x.open, x.draft)
  BY AtItsStep
<1>3. runner'[w] = [x EXCEPT !.step = s]
  BY <1>1
<1>4. [x EXCEPT !.step = s] =
        Memory(x.agent, s, x.seen, x.from, x.blind, x.open, x.draft)
  BY <1>2 DEF Memory
<1> QED
  BY <1>3, <1>4, MemoryFields

LEMMA FromSet ==
  ASSUME SpecialistsInv, NEW w \in Runners, NEW x, runner[w] = x, x.step # "off",
         NEW s, NEW y, runner' = [runner EXCEPT ![w].from = y, ![w].step = s]
  PROVE  Recalls(runner'[w], x.agent, s, x.seen, y, x.blind, x.open, x.draft)
<1>1. DOMAIN runner = Runners
  BY DEF SpecialistsInv, Tables
<1>2. x = Memory(x.agent, x.step, x.seen, x.from, x.blind, x.open, x.draft)
  BY AtItsStep
<1>3. runner'[w] = [[x EXCEPT !.from = y] EXCEPT !.step = s]
  BY <1>1
<1>4. [x EXCEPT !.from = y] = Memory(x.agent, x.step, x.seen, y, x.blind, x.open, x.draft)
  BY <1>2 DEF Memory
<1>5. [Memory(x.agent, x.step, x.seen, y, x.blind, x.open, x.draft) EXCEPT !.step = s]
        = Memory(x.agent, s, x.seen, y, x.blind, x.open, x.draft)
  BY DEF Memory
<1>6. runner'[w] = Memory(x.agent, s, x.seen, y, x.blind, x.open, x.draft)
  BY <1>3, <1>4, <1>5, Zenon
<1> QED
  BY <1>6, MemoryFields

LEMMA BlindSet ==
  ASSUME SpecialistsInv, NEW w \in Runners, NEW x, runner[w] = x, x.step # "off",
         NEW s, NEW y, runner' = [runner EXCEPT ![w].blind = y, ![w].step = s]
  PROVE  Recalls(runner'[w], x.agent, s, x.seen, x.from, y, x.open, x.draft)
<1>1. DOMAIN runner = Runners
  BY DEF SpecialistsInv, Tables
<1>2. x = Memory(x.agent, x.step, x.seen, x.from, x.blind, x.open, x.draft)
  BY AtItsStep
<1>3. runner'[w] = [[x EXCEPT !.blind = y] EXCEPT !.step = s]
  BY <1>1
<1>4. [x EXCEPT !.blind = y] = Memory(x.agent, x.step, x.seen, x.from, y, x.open, x.draft)
  BY <1>2 DEF Memory
<1>5. [Memory(x.agent, x.step, x.seen, x.from, y, x.open, x.draft) EXCEPT !.step = s]
        = Memory(x.agent, s, x.seen, x.from, y, x.open, x.draft)
  BY DEF Memory
<1>6. runner'[w] = Memory(x.agent, s, x.seen, x.from, y, x.open, x.draft)
  BY <1>3, <1>4, <1>5, Zenon
<1> QED
  BY <1>6, MemoryFields

LEMMA OpenSet ==
  ASSUME SpecialistsInv, NEW w \in Runners, NEW x, runner[w] = x, x.step # "off",
         NEW s, NEW y, runner' = [runner EXCEPT ![w].open = y, ![w].step = s]
  PROVE  Recalls(runner'[w], x.agent, s, x.seen, x.from, x.blind, y, x.draft)
<1>1. DOMAIN runner = Runners
  BY DEF SpecialistsInv, Tables
<1>2. x = Memory(x.agent, x.step, x.seen, x.from, x.blind, x.open, x.draft)
  BY AtItsStep
<1>3. runner'[w] = [[x EXCEPT !.open = y] EXCEPT !.step = s]
  BY <1>1
<1>4. [x EXCEPT !.open = y] = Memory(x.agent, x.step, x.seen, x.from, x.blind, y, x.draft)
  BY <1>2 DEF Memory
<1>5. [Memory(x.agent, x.step, x.seen, x.from, x.blind, y, x.draft) EXCEPT !.step = s]
        = Memory(x.agent, s, x.seen, x.from, x.blind, y, x.draft)
  BY DEF Memory
<1>6. runner'[w] = Memory(x.agent, s, x.seen, x.from, x.blind, y, x.draft)
  BY <1>3, <1>4, <1>5, Zenon
<1> QED
  BY <1>6, MemoryFields

LEMMA DraftSet ==
  ASSUME SpecialistsInv, NEW w \in Runners, NEW x, runner[w] = x, x.step # "off",
         NEW s, NEW y, runner' = [runner EXCEPT ![w].draft = y, ![w].step = s]
  PROVE  Recalls(runner'[w], x.agent, s, x.seen, x.from, x.blind, x.open, y)
<1>1. DOMAIN runner = Runners
  BY DEF SpecialistsInv, Tables
<1>2. x = Memory(x.agent, x.step, x.seen, x.from, x.blind, x.open, x.draft)
  BY AtItsStep
<1>3. runner'[w] = [[x EXCEPT !.draft = y] EXCEPT !.step = s]
  BY <1>1
<1>4. [x EXCEPT !.draft = y] = Memory(x.agent, x.step, x.seen, x.from, x.blind, x.open, y)
  BY <1>2 DEF Memory
<1>5. [Memory(x.agent, x.step, x.seen, x.from, x.blind, x.open, y) EXCEPT !.step = s]
        = Memory(x.agent, s, x.seen, x.from, x.blind, x.open, y)
  BY DEF Memory
<1>6. runner'[w] = Memory(x.agent, s, x.seen, x.from, x.blind, x.open, y)
  BY <1>3, <1>4, <1>5, Zenon
<1> QED
  BY <1>6, MemoryFields

LEMMA DraftTaken ==
  ASSUME SpecialistsInv, NEW w \in Runners, NEW x, runner[w] = x, x.step # "off",
         NEW s, NEW y, runner' = [runner EXCEPT ![w].step = s, ![w].draft = y]
  PROVE  Recalls(runner'[w], x.agent, s, x.seen, x.from, x.blind, x.open, y)
<1>1. DOMAIN runner = Runners
  BY DEF SpecialistsInv, Tables
<1>2. x = Memory(x.agent, x.step, x.seen, x.from, x.blind, x.open, x.draft)
  BY AtItsStep
<1>3. runner'[w] = [[x EXCEPT !.step = s] EXCEPT !.draft = y]
  BY <1>1
<1>4. [x EXCEPT !.step = s] = Memory(x.agent, s, x.seen, x.from, x.blind, x.open, x.draft)
  BY <1>2 DEF Memory
<1>5. [Memory(x.agent, s, x.seen, x.from, x.blind, x.open, x.draft) EXCEPT !.draft = y]
        = Memory(x.agent, s, x.seen, x.from, x.blind, x.open, y)
  BY DEF Memory
<1>6. runner'[w] = Memory(x.agent, s, x.seen, x.from, x.blind, x.open, y)
  BY <1>3, <1>4, <1>5, Zenon
<1> QED
  BY <1>6, MemoryFields

\* A runner that prepares its draft.
LEMMA PreparingHolds ==
  ASSUME NEW w \in Runners, NEW m, m = runner'[w], AtWork(m), m.step \in Preparing,
         UNCHANGED output, \A u \in Upstream[m.agent] : output[u] # <<>>,
         m.from = [u \in Upstream[m.agent] |-> output[u][1].gaps],
         m.step = "persist blind" => m.blind \in Opinions,
         m.step = "save blind" => blindRow' # <<>>,
         m.step = "draft" =>
           \A u \in Upstream[m.agent] : {u} \X output[u][1].gaps \subseteq m.open,
         task'[m.agent].lease = w => task'[m.agent].point.type \in Undrafted
  PROVE  RunnerHolds(w)'
<1>1. InTime(w)'
  BY DEF InTime, Preparing
<1>2. m.step \notin {"start", "persist", "persisted", "finish"}
  BY DEF Preparing
<1>3. [u \in Upstream[m.agent] |-> output'[u][1].gaps] =
        [u \in Upstream[m.agent] |-> output[u][1].gaps]
  OBVIOUS
<1> QED
  BY <1>1, <1>2, <1>3 DEF RunnerHolds

LEMMA ResumeStep ==
  ASSUME SpecialistsInv, NEW w \in Runners, Resume(w)
  PROVE  SpecialistsInv'
<1> USE DEF Resume
<1>1. PICK x, y : x = runner[w] /\ y = x.seen.data
  OBVIOUS
<1>2. DOMAIN runner = Runners /\ x.step = "start"
  BY <1>1 DEF SpecialistsInv, Tables
<1>3. /\ AtWork(x) /\ x.agent \in Agents
      /\ \A u \in Upstream[x.agent] : output[u] # <<>>
      /\ x.seen.type = "DRAFT" => DraftStands(x.agent, y)
      /\ x.seen.type = "PERSISTED" => output[x.agent] # <<>>
  BY <1>1, <1>2, AtItsStep
<1>4a. PICK s \in {"finish", "persist", "persisted"} :
         \E z :
           /\ Recalls(runner'[w], x.agent, s, x.seen, x.from, x.blind, x.open, z)
           /\ s = "persist" => z = y /\ x.seen.type = "DRAFT"
           /\ s \in {"finish", "persisted"} => output[x.agent] # <<>>
  <2>1. CASE x.seen.type = "PERSISTED" /\ runner' = [runner EXCEPT ![w].step = "finish"]
    BY <1>1, <1>2, <1>3, <2>1, StepSet
  <2>2. CASE /\ x.seen.type = "DRAFT"
             /\ runner' = [runner EXCEPT ![w].step = "persist", ![w].draft = y]
    BY <1>1, <1>2, <1>3, <2>2, DraftTaken, ZenonT(60)
  <2>3. CASE output[x.agent] # <<>> /\ runner' = [runner EXCEPT ![w].step = "persisted"]
    BY <1>1, <1>2, <1>3, <2>3, StepSet
  <2> QED
    BY <1>1, <2>1, <2>2, <2>3
<1>4. PICK z :
        /\ Recalls(runner'[w], x.agent, s, x.seen, x.from, x.blind, x.open, z)
        /\ s = "persist" => z = y /\ x.seen.type = "DRAFT"
        /\ s \in {"finish", "persisted"} => output[x.agent] # <<>>
  BY <1>4a
<1>5. RunnerHolds(w)'
  <2>1. PICK m : m = runner'[w]
    OBVIOUS
  <2>2. /\ m.agent = x.agent /\ m.step = s /\ m.blind = x.blind /\ m.open = x.open
        /\ m.draft = z /\ Shaped(m)
    BY <1>4, <2>1 DEF Recalls, Shaped
  <2>3. AtWork(m)
    BY <1>3, <2>2 DEF AtWork, Steps
  <2>4. s = "persist" => DraftStands(x.agent, z)
    BY <1>3, <1>4
  <2> QED
    BY <1>1, <1>3, <1>4, <2>4, <2>1, <2>2, <2>3
       DEF RunnerHolds, InTime, Preparing, DraftStands
<1> QED
  BY <1>1, <1>2, <1>5, RunnerAlone

LEMMA KnownBlindStep ==
  ASSUME SpecialistsInv, NEW w \in Runners, NEW b \in Opinions, KnownBlind(w, b)
  PROVE  SpecialistsInv'
<1> USE DEF KnownBlind, AtStep
<1>1. PICK x : x = runner[w]
  OBVIOUS
<1>2. DOMAIN runner = Runners /\ x.step = "blind" /\ x.agent = "RISK"
  BY <1>1 DEF SpecialistsInv, Tables
<1>3. /\ AtWork(x) /\ x.agent \in Agents /\ InTime(w)
      /\ \A u \in Upstream[x.agent] : output[u] # <<>>
      /\ x.from = [u \in Upstream[x.agent] |-> output[u][1].gaps]
  BY <1>1, <1>2, AtItsStep DEF Preparing
<1>4. PICK m : m = runner'[w]
  OBVIOUS
<1>5. Recalls(m, x.agent, "gaps", x.seen, x.from, b, x.open, x.draft)
  BY <1>1, <1>2, <1>4, BlindSet
<1>6. AtWork(m)
  BY <1>3, <1>5 DEF AtWork, Steps, Recalls, Shaped
<1>7. task[x.agent].lease = w => task[x.agent].point.type \in Undrafted
  BY <1>1, <1>2, <1>3 DEF InTime, Preparing
<1>8. UNCHANGED <<task, output, gapRows, blindRow, losses>>
  OBVIOUS
<1>9. RunnerHolds(w)'
  BY <1>3, <1>4, <1>5, <1>6, <1>7, <1>8, PreparingHolds DEF Recalls, Preparing
<1> QED
  BY <1>1, <1>2, <1>8, <1>9, RunnerAlone

LEMMA InferBlindStep ==
  ASSUME SpecialistsInv, NEW w \in Runners, NEW b \in Opinions, InferBlind(w, b)
  PROVE  SpecialistsInv'
<1> USE DEF InferBlind, AtStep
<1>1. PICK x : x = runner[w]
  OBVIOUS
<1>2. DOMAIN runner = Runners /\ x.step = "blind" /\ x.agent = "RISK"
  BY <1>1 DEF SpecialistsInv, Tables
<1>3. /\ AtWork(x) /\ x.agent \in Agents /\ InTime(w)
      /\ \A u \in Upstream[x.agent] : output[u] # <<>>
      /\ x.from = [u \in Upstream[x.agent] |-> output[u][1].gaps]
  BY <1>1, <1>2, AtItsStep DEF Preparing
<1>4. PICK m : m = runner'[w]
  OBVIOUS
<1>5. Recalls(m, x.agent, "persist blind", x.seen, x.from, b, x.open, x.draft)
  BY <1>1, <1>2, <1>4, BlindSet
<1>6. AtWork(m)
  BY <1>3, <1>5 DEF AtWork, Steps, Recalls, Shaped
<1>7. task[x.agent].lease = w => task[x.agent].point.type \in Undrafted
  BY <1>1, <1>2, <1>3 DEF InTime, Preparing
<1>8. UNCHANGED <<task, output, gapRows, blindRow, losses>>
  OBVIOUS
<1>9. RunnerHolds(w)'
  BY <1>3, <1>4, <1>5, <1>6, <1>7, <1>8, PreparingHolds DEF Recalls, Preparing
<1> QED
  BY <1>1, <1>2, <1>8, <1>9, RunnerAlone

LEMMA PersistBlindStep ==
  ASSUME SpecialistsInv, NEW w \in Runners, PersistBlind(w)
  PROVE  SpecialistsInv'
<1> USE DEF PersistBlind, AtStep
<1>1. PICK x : x = runner[w]
  OBVIOUS
<1>2. DOMAIN runner = Runners /\ x.step = "persist blind" /\ x.agent = "RISK"
  BY <1>1 DEF SpecialistsInv, Tables
<1>3. /\ AtWork(x) /\ x.agent \in Agents /\ InTime(w)
      /\ \A u \in Upstream[x.agent] : output[u] # <<>>
      /\ x.from = [u \in Upstream[x.agent] |-> output[u][1].gaps]
  BY <1>1, <1>2, AtItsStep DEF Preparing
<1>4. PICK m : m = runner'[w]
  OBVIOUS
<1>5. Recalls(m, x.agent, "save blind", x.seen, x.from, x.blind, x.open, x.draft)
  BY <1>1, <1>2, <1>4, StepSet
<1>6. AtWork(m)
  BY <1>3, <1>5 DEF AtWork, Steps, Recalls, Shaped
<1>7. task[x.agent].lease = w => task[x.agent].point.type \in Undrafted
  BY <1>1, <1>2, <1>3 DEF InTime, Preparing
<1>8. UNCHANGED <<task, output, gapRows, losses>> /\ blindRow' # <<>>
  OBVIOUS
<1>9. RunnerHolds(w)'
  BY <1>3, <1>4, <1>5, <1>6, <1>7, <1>8, PreparingHolds DEF Recalls, Preparing
<1>10. \A q \in Runners : RunnerHolds(q)'
  <2> SUFFICES ASSUME NEW q \in Runners \ {w}
               PROVE  RunnerHolds(q)'
    BY <1>9
  <2>1. runner'[q] = runner[q]
    BY <1>2
  <2>2. \A a \in Agents : \A d : DraftStands(a, d) => DraftStands(a, d)'
    BY <1>8 DEF DraftStands
  <2> QED
    BY <1>8, <2>1, <2>2, RunnerKept DEF SpecialistsInv
<1>11. Tables'
  <2>1. blindRow' = <<x.blind>> \/ blindRow' = blindRow
    BY <1>1
  <2>2. x.blind \in Opinions
    BY <1>1, <1>2, AtItsStep
  <2> QED
    BY <1>2, <1>8, <2>1, <2>2 DEF SpecialistsInv, Tables
<1>12. \A a \in Agents : TaskHolds(a)'
  BY <1>8, TaskKept DEF SpecialistsInv, TaskHolds
<1>13. OpenGapsStored'
  BY <1>8 DEF SpecialistsInv, OpenGapsStored
<1> QED
  BY <1>10, <1>11, <1>12, <1>13 DEF SpecialistsInv

\* A checkpoint: its writer holds the lease, so nobody else is in time for it.
LEMMA PointWritten ==
  ASSUME SpecialistsInv, NEW w \in Runners, NEW a \in Agents, NEW type, NEW data,
         task[a].lease = w, Point(a, type, data),
         type \in Undrafted \cup {"DRAFT", "PERSISTED"}
  PROVE  /\ DOMAIN task' = Agents
         /\ \A b \in Agents \ {a} : task'[b] = task[b]
         /\ TaskTyped(task'[a]) /\ task'[a].lease = w
         /\ task'[a].outcome = task[a].outcome
         /\ task'[a].point = [type |-> type, data |-> data]
<1>1. DOMAIN task = Agents /\ TaskTyped(task[a])
  BY DEF SpecialistsInv, Tables, TaskHolds
<1>2. PICK p : p = [type |-> type, data |-> data]
  OBVIOUS
<1>3. task' = [task EXCEPT ![a].point = p] /\ p.type = type
  BY <1>2 DEF Point
<1>4. PICK t : t = [outcome |-> task[a].outcome, lease |-> w, point |-> p]
  OBVIOUS
<1>5. task[a] = [outcome |-> task[a].outcome, lease |-> w, point |-> task[a].point]
  BY <1>1 DEF TaskTyped
<1>6. [task[a] EXCEPT !.point = p] = t
  BY <1>4, <1>5
<1>7. task'[a] = t
  BY <1>1, <1>3, <1>6
<1>8. TaskTyped(t) /\ t.outcome = task[a].outcome /\ t.lease = w /\ t.point = p
  BY <1>1, <1>3, <1>4, TaskMade DEF TaskTyped
<1>9. DOMAIN task' = Agents /\ \A b \in Agents \ {a} : task'[b] = task[b]
  BY <1>1, <1>3
<1> QED
  BY <1>2, <1>7, <1>8, <1>9

\* A checkpoint on the way to the draft.
LEMMA ProgressSaved ==
  ASSUME SpecialistsInv, NEW w \in Runners, NEW a \in Agents, NEW type, NEW data,
         task[a].lease = w, task[a].point.type \in Undrafted,
         Point(a, type, data), type \in Undrafted,
         DOMAIN runner' = Runners, \A q \in Runners \ {w} : runner'[q] = runner[q],
         UNCHANGED <<output, gapRows, blindRow, losses>>,
         task'[a].point.type \in Undrafted => RunnerHolds(w)'
  PROVE  SpecialistsInv'
<1>1. /\ DOMAIN task' = Agents
      /\ \A b \in Agents \ {a} : task'[b] = task[b]
      /\ TaskTyped(task'[a]) /\ task'[a].lease = w
      /\ task'[a].outcome = task[a].outcome
      /\ task'[a].point = [type |-> type, data |-> data]
  BY PointWritten
<1>2. task'[a].point.type = type
  BY <1>1
<1>3. type \notin {"DRAFT", "PERSISTED"} /\ task[a].point.type \notin {"DRAFT", "PERSISTED"}
  BY DEF Undrafted
<1>4. TaskHolds(a)
  BY DEF SpecialistsInv
<1>5. TaskHolds(a)'
  BY <1>4, <1>1, <1>2, <1>3 DEF TaskHolds
<1>6. \A d : DraftStands(a, d) => DraftStands(a, d)'
  BY <1>3 DEF DraftStands
<1>7. losses' \in 0..MaxLosses
  BY DEF SpecialistsInv, Tables
<1> QED
  BY <1>1, <1>2, <1>5, <1>6, <1>7, TaskAlone

LEMMA ReadStep ==
  ASSUME SpecialistsInv, NEW w \in Runners, Read(w)
  PROVE  SpecialistsInv'
<1>1. PICK x : x = runner[w]
  OBVIOUS
<1>2. /\ DOMAIN runner = Runners /\ x.step = "start"
      /\ x.seen.type \notin {"PERSISTED", "DRAFT"} /\ output[x.agent] = <<>>
      /\ task[x.agent].lease = w /\ Point(x.agent, "PROGRESS", <<>>)
      /\ UNCHANGED <<output, gapRows, blindRow, losses>>
  BY <1>1 DEF SpecialistsInv, Tables, Read, Anew, Held
<1>3. /\ AtWork(x) /\ x.agent \in Agents /\ InTime(w) /\ TaskHolds(x.agent)
      /\ \A u \in Upstream[x.agent] : output[u] # <<>>
  BY <1>1, <1>2, AtItsStep
<1>4. task[x.agent].point.type \in Undrafted
  BY <1>1, <1>2, <1>3 DEF InTime, TaskHolds, TaskTyped
<1>5. PICK m : m = runner'[w]
  OBVIOUS
<1>6. PICK from, s :
        /\ from = [u \in Upstream[x.agent] |-> output[u][1].gaps]
        /\ s = CASE x.agent = "RISK" -> "blind" [] x.agent = "OPERATIONS" -> "gaps"
                 [] OTHER -> "draft"
  OBVIOUS
<1>7. runner' = [runner EXCEPT ![w].from = from, ![w].step = s]
  BY <1>1, <1>6 DEF Read
<1>8. Recalls(m, x.agent, s, x.seen, from, x.blind, x.open, x.draft)
  BY <1>1, <1>2, <1>5, <1>7, FromSet
<1>9. /\ s \in {"blind", "gaps", "draft"}
      /\ s = "draft" => x.agent \notin {"RISK", "OPERATIONS"}
  BY <1>6
<1>10. s = "draft" => Upstream[x.agent] = {}
  BY <1>3, <1>9, AgentFacts
<1>11. AtWork(m)
  BY <1>3, <1>8, <1>9 DEF AtWork, Steps, Recalls, Shaped
<1>12. task'[x.agent].point.type \in Undrafted => RunnerHolds(w)'
  BY <1>2, <1>3, <1>5, <1>6, <1>8, <1>9, <1>10, <1>11, PreparingHolds, ZenonT(60) DEF Recalls, Preparing
<1>13. DOMAIN runner' = Runners /\ \A q \in Runners \ {w} : runner'[q] = runner[q]
  BY <1>2, <1>7
<1> QED
  BY <1>2, <1>3, <1>4, <1>12, <1>13, ProgressSaved DEF Undrafted

LEMMA SaveBlindStep ==
  ASSUME SpecialistsInv, NEW w \in Runners, SaveBlind(w)
  PROVE  SpecialistsInv'
<1>1. PICK x : x = runner[w]
  OBVIOUS
<1>2. /\ DOMAIN runner = Runners /\ x.step = "save blind" /\ x.agent = "RISK"
      /\ task[x.agent].lease = w /\ Point(x.agent, "BLIND", x.blind)
      /\ UNCHANGED <<output, gapRows, blindRow, losses>>
      /\ blindRow = <<>> \/ blindRow[1] \in Opinions
  BY <1>1 DEF SpecialistsInv, Tables, SaveBlind, AtStep, Held
<1>3. /\ AtWork(x) /\ x.agent \in Agents /\ InTime(w) /\ TaskHolds(x.agent)
      /\ \A u \in Upstream[x.agent] : output[u] # <<>>
      /\ x.from = [u \in Upstream[x.agent] |-> output[u][1].gaps]
      /\ blindRow # <<>>
  BY <1>1, <1>2, AtItsStep DEF Preparing
<1>4. task[x.agent].point.type \in Undrafted
  BY <1>1, <1>2, <1>3 DEF InTime, Preparing
<1>5. PICK m, b : m = runner'[w] /\ b = blindRow[1]
  OBVIOUS
<1>6. runner' = [runner EXCEPT ![w].blind = b, ![w].step = "gaps"]
  BY <1>5 DEF SaveBlind
<1>7. Recalls(m, x.agent, "gaps", x.seen, x.from, b, x.open, x.draft)
  BY <1>1, <1>2, <1>5, <1>6, BlindSet
<1>8. AtWork(m)
  BY <1>2, <1>3, <1>5, <1>7 DEF AtWork, Steps, Recalls, Shaped
<1>9. task'[x.agent].point.type \in Undrafted => RunnerHolds(w)'
  BY <1>2, <1>3, <1>5, <1>7, <1>8, PreparingHolds, ZenonT(60) DEF Recalls, Preparing
<1>10. DOMAIN runner' = Runners /\ \A q \in Runners \ {w} : runner'[q] = runner[q]
  BY <1>2, <1>6
<1> QED
  BY <1>2, <1>3, <1>4, <1>9, <1>10, ProgressSaved DEF Undrafted

LEMMA ReadGapsStep ==
  ASSUME SpecialistsInv, NEW w \in Runners, ReadGaps(w)
  PROVE  SpecialistsInv'
<1>1. PICK x : x = runner[w]
  OBVIOUS
<1>2. /\ DOMAIN runner = Runners /\ x.step = "gaps"
      /\ task[x.agent].lease = w /\ Point(x.agent, "PROGRESS", <<>>)
      /\ UNCHANGED <<output, gapRows, blindRow, losses>>
      /\ gapRows \subseteq Agents \X Gap
  BY <1>1 DEF SpecialistsInv, Tables, ReadGaps, Held
<1>3. /\ AtWork(x) /\ x.agent \in Agents /\ InTime(w) /\ TaskHolds(x.agent)
      /\ \A u \in Upstream[x.agent] : output[u] # <<>>
      /\ x.from = [u \in Upstream[x.agent] |-> output[u][1].gaps]
  BY <1>1, <1>2, AtItsStep DEF Preparing
<1>4. task[x.agent].point.type \in Undrafted
  BY <1>1, <1>2, <1>3 DEF InTime, Preparing
<1>5. PICK m, open : m = runner'[w] /\ open = gapRows
  OBVIOUS
<1>6. runner' = [runner EXCEPT ![w].open = open, ![w].step = "draft"]
  BY <1>5 DEF ReadGaps
<1>7. Recalls(m, x.agent, "draft", x.seen, x.from, x.blind, open, x.draft)
  BY <1>1, <1>2, <1>5, <1>6, OpenSet
<1>8. AtWork(m)
  BY <1>2, <1>3, <1>5, <1>7 DEF AtWork, Steps, Recalls, Shaped
<1>9. \A u \in Upstream[x.agent] : {u} \X output[u][1].gaps \subseteq open
  <2> SUFFICES ASSUME NEW u \in Upstream[x.agent]
               PROVE  {u} \X output[u][1].gaps \subseteq open
    OBVIOUS
  <2>1. u \in {b \in Agents : output[b] # <<>>}
    BY <1>3, AgentFacts
  <2>2. open = UNION {{a} \X output[a][1].gaps : a \in {b \in Agents : output[b] # <<>>}}
    BY <1>5 DEF SpecialistsInv, OpenGapsStored
  <2> QED
    BY <2>1, <2>2
<1>10. task'[x.agent].point.type \in Undrafted => RunnerHolds(w)'
  BY <1>2, <1>3, <1>5, <1>7, <1>8, <1>9, PreparingHolds, ZenonT(60) DEF Recalls, Preparing
<1>11. DOMAIN runner' = Runners /\ \A q \in Runners \ {w} : runner'[q] = runner[q]
  BY <1>2, <1>6
<1> QED
  BY <1>2, <1>3, <1>4, <1>10, <1>11, ProgressSaved DEF Undrafted

LEMMA DraftStep ==
  ASSUME SpecialistsInv, NEW w \in Runners,
         NEW gaps \in SUBSET ModelGaps[runner[w].agent], NEW from, Draft(w, gaps, from)
  PROVE  SpecialistsInv'
<1>1. PICK x : x = runner[w]
  OBVIOUS
<1>2. PICK d : d = [gaps |-> Merged(x.agent, gaps), from |-> from,
                    blind |-> x.blind, open |-> x.open]
  OBVIOUS
<1>3. /\ DOMAIN runner = Runners /\ x.step = "draft"
      /\ task[x.agent].lease = w /\ Point(x.agent, "DRAFT", d)
      /\ from = x.from
      /\ runner' = [runner EXCEPT ![w].draft = d, ![w].step = "persist"]
      /\ UNCHANGED <<output, gapRows, blindRow, losses>>
  BY <1>1, <1>2 DEF SpecialistsInv, Tables, Draft, Held, Accepted
<1>4. PICK a \in Agents : a = x.agent
  BY <1>1, <1>3, AtItsStep
<1>5. /\ AtWork(x) /\ InTime(w) /\ TaskHolds(a)
      /\ \A u \in Upstream[a] : output[u] # <<>>
      /\ x.from = [u \in Upstream[a] |-> output[u][1].gaps]
      /\ \A u \in Upstream[a] : {u} \X output[u][1].gaps \subseteq x.open
  BY <1>1, <1>3, <1>4, AtItsStep DEF Preparing
<1>6. task[a].point.type \in Undrafted
  BY <1>1, <1>3, <1>4, <1>5 DEF InTime, Preparing
<1>7. output[a] = <<>> /\ ~(\E e : DraftStands(a, e))
  BY <1>5, <1>6 DEF TaskHolds, DraftStands, Undrafted
<1>8. /\ d.gaps = Computed[a] \cup gaps /\ d.from = x.from
      /\ d.blind = x.blind /\ d.open = x.open
  BY <1>2, <1>3, <1>4 DEF Merged
<1>9. Grounded(a, d)
  <2>1. gaps \subseteq Gap /\ Computed[a] \subseteq Gap
    BY <1>1, <1>4, AgentFacts
  <2>2. IsDraft(a, d)
    BY <1>5, <1>8, <2>1 DEF IsDraft, AtWork
  <2> QED
    BY <1>5, <1>8, <2>2 DEF Grounded
<1>10. /\ DOMAIN task' = Agents
       /\ \A b \in Agents \ {a} : task'[b] = task[b]
       /\ TaskTyped(task'[a]) /\ task'[a].lease = w
       /\ task'[a].outcome = task[a].outcome
       /\ task'[a].point = [type |-> "DRAFT", data |-> d]
  BY <1>3, <1>4, PointWritten
<1>11. task'[a].point.type = "DRAFT" /\ task'[a].point.data = d
  BY <1>10
<1>12. TaskHolds(a)'
  <2>1. Grounded(a, d)'
    BY <1>3, <1>9, GroundedKept
  <2>2. PICK e : e = task'[a].point.data
    OBVIOUS
  <2>3. Grounded(a, task[a].point.data)'
    BY <1>11, <2>1 DEF Grounded, IsDraft
  <2> QED
    BY <1>3, <1>5, <1>7, <1>10, <1>11, <2>3 DEF TaskHolds
<1>13. PICK m : m = runner'[w]
  OBVIOUS
<1>14. Recalls(m, a, "persist", x.seen, x.from, x.blind, x.open, d)
  BY <1>1, <1>3, <1>4, <1>13, DraftSet
<1>15. AtWork(m)
  BY <1>4, <1>5, <1>14 DEF AtWork, Steps, Recalls, Shaped
<1>16. DraftStands(a, d)'
  BY <1>11 DEF DraftStands
<1>17. RunnerHolds(w)'
  BY <1>3, <1>5, <1>11, <1>13, <1>14, <1>15
     DEF RunnerHolds, InTime, Preparing, Recalls, DraftStands
<1>18. /\ DOMAIN runner' = Runners /\ \A q \in Runners \ {w} : runner'[q] = runner[q]
       /\ losses' \in 0..MaxLosses
  BY <1>3 DEF SpecialistsInv, Tables
<1>19. \A q \in Runners \ {w} : task'[a].lease # q
  BY <1>10
<1>20. \A e : DraftStands(a, e) => DraftStands(a, e)'
  BY <1>7
<1> QED
  BY <1>3, <1>10, <1>12, <1>17, <1>18, <1>19, <1>20, TaskAlone

LEMMA SavePersistedStep ==
  ASSUME SpecialistsInv, NEW w \in Runners, SavePersisted(w)
  PROVE  SpecialistsInv'
<1>1. PICK x : x = runner[w]
  OBVIOUS
<1>2. /\ DOMAIN runner = Runners /\ x.step = "persisted"
      /\ task[x.agent].lease = w /\ Point(x.agent, "PERSISTED", <<>>)
      /\ runner' = [runner EXCEPT ![w].step = "finish"]
      /\ UNCHANGED <<output, gapRows, blindRow, losses>>
  BY <1>1 DEF SpecialistsInv, Tables, SavePersisted, Held
<1>3. PICK a \in Agents : a = x.agent
  BY <1>1, <1>2, AtItsStep
<1>4. /\ AtWork(x) /\ TaskHolds(a) /\ output[a] # <<>>
      /\ \A u \in Upstream[a] : output[u] # <<>>
  BY <1>1, <1>2, <1>3, AtItsStep
<1>5. PICK d : output[a] = <<d>> /\ Grounded(a, d)
  <2>1. output[a] = <<output[a][1]>> /\ Grounded(a, output[a][1])
    BY <1>4 DEF TaskHolds
  <2> QED
    BY <2>1
<1>6. /\ DOMAIN task' = Agents
      /\ \A b \in Agents \ {a} : task'[b] = task[b]
      /\ TaskTyped(task'[a]) /\ task'[a].lease = w
      /\ task'[a].outcome = task[a].outcome
      /\ task'[a].point = [type |-> "PERSISTED", data |-> <<>>]
  BY <1>2, <1>3, PointWritten
<1>7. task'[a].point.type = "PERSISTED"
  BY <1>6
<1>8. TaskHolds(a)'
  <2>1. Grounded(a, output[a][1])'
    BY <1>2, <1>4 DEF TaskHolds, Grounded, IsDraft
  <2> QED
    BY <1>2, <1>4, <1>6, <1>7, <2>1 DEF TaskHolds
<1>9. \A e : DraftStands(a, e) => DraftStands(a, e)'
  BY <1>2, <1>4, <1>7 DEF DraftStands, TaskHolds
<1>10. PICK m : m = runner'[w]
  OBVIOUS
<1>11. Recalls(m, a, "finish", x.seen, x.from, x.blind, x.open, x.draft)
  BY <1>1, <1>2, <1>3, <1>10, StepSet
<1>12. AtWork(m)
  BY <1>3, <1>4, <1>11 DEF AtWork, Steps, Recalls, Shaped
<1>13. RunnerHolds(w)'
  BY <1>2, <1>4, <1>10, <1>11, <1>12 DEF RunnerHolds, InTime, Preparing, Recalls
<1>14. /\ DOMAIN runner' = Runners /\ \A q \in Runners \ {w} : runner'[q] = runner[q]
       /\ losses' \in 0..MaxLosses
  BY <1>2 DEF SpecialistsInv, Tables
<1>15. \A q \in Runners \ {w} : task'[a].lease # q
  BY <1>6
<1> QED
  BY <1>2, <1>6, <1>8, <1>9, <1>13, <1>14, <1>15, TaskAlone

\* A runner persists what it was to persist: nothing is stored yet, and its draft is
\* that of the checkpoint, or the stored one is the same.
LEMMA PersistStep ==
  ASSUME SpecialistsInv, NEW w \in Runners, Persist(w)
  PROVE  SpecialistsInv'
<1>1. PICK x : x = runner[w]
  OBVIOUS
<1>2. /\ DOMAIN runner = Runners /\ x.step = "persist" /\ DOMAIN output = Agents
      /\ runner' = [runner EXCEPT ![w].step = "persisted"]
      /\ UNCHANGED <<task, blindRow, losses>>
  BY <1>1 DEF SpecialistsInv, Tables, Persist
<1>3. PICK a \in Agents : a = x.agent
  BY <1>1, <1>2, AtItsStep
<1>4. PICK d : d = x.draft
  OBVIOUS
<1>5. /\ AtWork(x) /\ TaskHolds(a) /\ DraftStands(a, d)
      /\ \A u \in Upstream[a] : output[u] # <<>>
  BY <1>4, <1>1, <1>2, <1>3, AtItsStep
<1>6. IF output[a] = <<>>
        THEN output' = [output EXCEPT ![a] = <<d>>] /\ gapRows' = gapRows \cup ({a} \X d.gaps)
        ELSE UNCHANGED <<output, gapRows>>
  BY <1>1, <1>3, <1>4 DEF Persist
<1>7. output[a] = <<>> => Grounded(a, d) /\ task[a].point.type = "DRAFT" /\ task[a].point.data = d
  BY <1>5 DEF DraftStands, TaskHolds
<1>8. /\ DOMAIN output' = Agents
      /\ \A b \in Agents : output[b] # <<>> => output'[b] = output[b]
      /\ \A b \in Agents \ {a} : output'[b] = output[b]
      /\ output[a] = <<>> => output'[a] = <<d>>
      /\ output'[a] # <<>>
  BY <1>2, <1>6
<1>9. TaskHolds(a)'
  <2>1. CASE output[a] # <<>>
    BY <1>2, <1>5, <1>6, <2>1, TaskKept DEF TaskHolds
  <2>2. CASE output[a] = <<>>
    <3>1. Grounded(a, d)'
      BY <1>7, <1>8, <2>2, GroundedKept
    <3>2. output'[a][1] = d /\ output'[a] = <<d>> /\ task'[a] = task[a]
      BY <1>2, <1>8, <2>2
    <3>3. Grounded(a, output[a][1])' /\ Grounded(a, task[a].point.data)'
      BY <1>7, <2>2, <3>1, <3>2 DEF Grounded, IsDraft
    <3> QED
      BY <1>5, <1>7, <2>2, <3>2, <3>3 DEF TaskHolds, TaskTyped
  <2> QED
    BY <2>1, <2>2
<1>10. \A b \in Agents : TaskHolds(b)'
  <2> SUFFICES ASSUME NEW b \in Agents \ {a}
               PROVE  TaskHolds(b)'
    BY <1>9
  <2> QED
    BY <1>2, <1>8, TaskKept DEF SpecialistsInv, TaskHolds
<1>11. \A b \in Agents : \A e : DraftStands(b, e) => DraftStands(b, e)'
  <2> SUFFICES ASSUME NEW b \in Agents, NEW e, DraftStands(b, e)
               PROVE  DraftStands(b, e)'
    OBVIOUS
  <2>1. output[b] = <<e>> => output[b] # <<>>
    OBVIOUS
  <2> QED
    BY <1>2, <1>8, <2>1 DEF DraftStands
<1>12. PICK m : m = runner'[w]
  OBVIOUS
<1>13. Recalls(m, a, "persisted", x.seen, x.from, x.blind, x.open, x.draft)
  BY <1>1, <1>2, <1>3, <1>12, StepSet
<1>14. AtWork(m)
  BY <1>3, <1>5, <1>13 DEF AtWork, Steps, Recalls, Shaped
<1>15. \A u \in Upstream[a] : output'[u] # <<>>
  BY <1>3, <1>5, <1>8, AgentFacts
<1>16. RunnerHolds(w)'
  BY <1>8, <1>12, <1>13, <1>14, <1>15 DEF RunnerHolds, InTime, Preparing, Recalls
<1>17. \A q \in Runners : RunnerHolds(q)'
  <2> SUFFICES ASSUME NEW q \in Runners \ {w}
               PROVE  RunnerHolds(q)'
    BY <1>16
  <2>1. runner'[q] = runner[q]
    BY <1>2
  <2> QED
    BY <1>2, <1>8, <1>11, <2>1, RunnerKept DEF SpecialistsInv
<1>18. output[a] = <<>> => d.gaps \subseteq Gap
  BY <1>7 DEF Grounded, IsDraft
<1>19. Tables'
  BY <1>2, <1>6, <1>8, <1>18 DEF SpecialistsInv, Tables
<1>20. OpenGapsStored'
  <2>1. CASE output[a] # <<>>
    BY <1>6, <2>1 DEF SpecialistsInv, OpenGapsStored
  <2>2. CASE output[a] = <<>>
    <3> DEFINE S == {b \in Agents : output[b] # <<>>}
               T == {b \in Agents : output'[b] # <<>>}
               F(c) == {c} \X output[c][1].gaps
               G(c) == {c} \X output'[c][1].gaps
    <3>1. gapRows = UNION {F(c) : c \in S}
      BY DEF SpecialistsInv, OpenGapsStored
    <3>2. gapRows' = gapRows \cup G(a)
      BY <1>6, <1>8, <2>2
    <3>3. T = S \cup {a}
      BY <1>8
    <3>4. \A c \in S : G(c) = F(c)
      BY <1>8
    <3>5. gapRows' = UNION {G(c) : c \in T}
      <4> HIDE DEF S, T, F, G
      <4> QED
        BY <3>4, <3>1, <3>2, <3>3
    <3> QED
      BY <3>5 DEF OpenGapsStored
  <2> QED
    BY <2>1, <2>2
<1> QED
  BY <1>10, <1>17, <1>19, <1>20 DEF SpecialistsInv
--------------------------------------------------------------------------------
(****************************************************************************)
(* All steps, and what the invariant says.                                  *)
(****************************************************************************)
LEMMA SpecialistsStep == SpecialistsInv /\ SpecialistsNext => SpecialistsInv'
<1> SUFFICES ASSUME SpecialistsInv, SpecialistsNext
             PROVE  SpecialistsInv'
  OBVIOUS
<1>1. CASE \E a \in Agents : LoseLease(a)
  BY <1>1, LoseLeaseStep
<1>2. CASE \E a \in Agents, w \in Runners : Claim(w, a)
  BY <1>2, ClaimStep
<1>3. ASSUME NEW w \in Runners,
             \/ Leave(w) \/ Resume(w) \/ Read(w) \/ PersistBlind(w) \/ SaveBlind(w)
             \/ ReadGaps(w) \/ Persist(w) \/ SavePersisted(w)
             \/ \E b \in Opinions : KnownBlind(w, b) \/ InferBlind(w, b)
      PROVE  SpecialistsInv'
  BY <1>3, LeaveStep, ResumeStep, ReadStep, PersistBlindStep, SaveBlindStep, ReadGapsStep,
     PersistStep, SavePersistedStep, KnownBlindStep, InferBlindStep
<1>4. ASSUME NEW w \in Runners, Unavailable(w)
      PROVE  SpecialistsInv'
  BY <1>4, EndStep DEF Unavailable
<1>5. ASSUME NEW w \in Runners, Outdated(w)
      PROVE  SpecialistsInv'
  BY <1>5, EndStep DEF Outdated, Anew, AtStep
<1>6. ASSUME NEW w \in Runners, Succeed(w)
      PROVE  SpecialistsInv'
  <2>1. runner[w].step = "finish" /\ End(w, "SUCCEEDED")
    BY <1>6 DEF Succeed
  <2>2. output[runner[w].agent] # <<>>
    BY <2>1, AtItsStep
  <2> QED
    BY <2>1, <2>2, EndStep
<1>7. ASSUME NEW w \in Runners, NEW gaps \in SUBSET ModelGaps[runner[w].agent],
             NEW from, Draft(w, gaps, from)
      PROVE  SpecialistsInv'
  BY <1>7, DraftStep
<1> QED
  BY <1>4, <1>5, <1>6, <1>7, <1>1, <1>2, <1>3 DEF SpecialistsNext

\* Another desk at work leaves this one as it is.
LEMMA SpecialistsRest == SpecialistsInv /\ UNCHANGED specialists => SpecialistsInv'
<1> USE DEF SpecialistsInv, specialists
<1> SUFFICES ASSUME SpecialistsInv, UNCHANGED specialists
             PROVE  SpecialistsInv'
  OBVIOUS
<1>1. Tables' /\ OpenGapsStored'
  BY DEF Tables, OpenGapsStored
<1>2. \A a \in Agents : TaskHolds(a)'
  BY DEF TaskHolds, Grounded, IsDraft
<1>3. \A w \in Runners : RunnerHolds(w)'
  BY ZenonT(60) DEF RunnerHolds, InTime, DraftStands
<1> QED
  BY <1>1, <1>2, <1>3

LEMMA SpecialistsTyped == SpecialistsInv => SpecialistsTypeOK
<1> SUFFICES ASSUME SpecialistsInv
             PROVE  SpecialistsTypeOK
  OBVIOUS
<1>1. \A w \in Runners : runner[w] = Off \/ runner[w].agent \in Agents
  BY DEF SpecialistsInv, RunnerHolds, AtWork
<1>2. ASSUME NEW a \in Agents
      PROVE  /\ task[a].outcome \in {"open", "SUCCEEDED", "SUPERSEDED", "FAILED_MANUAL_REVIEW"}
             /\ task[a].lease \in Runners \cup {Nobody}
             /\ task[a].point.type \in {"NONE", "PROGRESS", "BLIND", "DRAFT", "PERSISTED"}
             /\ output[a] = <<>> \/ IsDraft(a, output[a][1])
  BY DEF SpecialistsInv, TaskHolds, TaskTyped, Undrafted, Grounded
<1> QED
  BY <1>1, <1>2 DEF SpecialistsInv, Tables, SpecialistsTypeOK

LEMMA CitesFollow == SpecialistsInv => CitesWhatIsThere
<1> SUFFICES ASSUME SpecialistsInv
             PROVE  CitesWhatIsThere
  OBVIOUS
<1>1. ASSUME NEW a \in Agents
      PROVE  /\ task[a].outcome = "SUCCEEDED" => output[a] # <<>>
             /\ output[a] # <<>> =>
                  \A u \in Upstream[a] :
                    output[u] # <<>> /\ output[a][1].from[u] = output[u][1].gaps
  BY DEF SpecialistsInv, TaskHolds, Grounded
<1>2. ASSUME NEW w \in Runners, runner[w].step = "persist"
      PROVE  output[runner[w].agent] \in {<<>>, <<runner[w].draft>>}
  <2>1. PICK a, d : a = runner[w].agent /\ d = runner[w].draft
    OBVIOUS
  <2>2. DraftStands(a, d) /\ TaskHolds(a)
    BY <1>2, <2>1, AtItsStep
  <2> QED
    BY <2>1, <2>2 DEF DraftStands, TaskHolds
<1> QED
  BY <1>1, <1>2 DEF CitesWhatIsThere

LEMMA GapsFollow == SpecialistsInv => GapsCarried
<1> SUFFICES ASSUME SpecialistsInv
             PROVE  GapsCarried
  OBVIOUS
<1>1. ASSUME NEW a \in Agents, output[a] # <<>>
      PROVE  /\ Computed[a] \subseteq output[a][1].gaps
             /\ \A u \in Upstream[a] : {u} \X output[u][1].gaps \subseteq output[a][1].open
  BY <1>1 DEF SpecialistsInv, TaskHolds, Grounded
<1> QED
  BY <1>1 DEF SpecialistsInv, OpenGapsStored, GapsCarried

(****************************************************************************)
(* The figures: a composed result is known exactly if what it is composed   *)
(* of is known, down to the confirmed figures, and no divisor is zero.      *)
(****************************************************************************)
LEMMA ComposedKnown ==
  /\ \A n, d, scale : Known(Ratio(n, d, scale)) <=> Known(n) /\ Known(d) /\ d[1] # 0
  /\ \A l, r : Known(Less(l, r)) <=> Known(l) /\ Known(r)
  /\ \A a, b, c : Known(CashConversionCycle(a, b, c)) <=> Known(a) /\ Known(b) /\ Known(c)
  /\ \A a, b : Known(WorkingCapitalNeed(a, b)) <=> Known(a) /\ Known(b)
  /\ \A a, b, c : Known(WorkingCapitalGap(a, b, c)) <=> Known(a) /\ Known(b) /\ Known(c)
  /\ \A p, c : Known(Delta(p, c)) <=> Known(p) /\ Known(c)
  /\ \A p, c : Known(GrowthRate(p, c)) <=> Known(p) /\ Known(c) /\ p[1] # 0
<1>1. \A x : <<x>> # <<>>
  OBVIOUS
<1>2. /\ \A a, b : AllKnown({a, b}) <=> Known(a) /\ Known(b)
      /\ \A a, b, c : AllKnown({a, b, c}) <=> Known(a) /\ Known(b) /\ Known(c)
  BY DEF AllKnown
<1>3. \A n, d, scale : Known(Ratio(n, d, scale)) <=> Known(n) /\ Known(d) /\ d[1] # 0
  BY <1>1, <1>2 DEF Ratio, Known
<1>4. \A l, r : Known(Less(l, r)) <=> Known(l) /\ Known(r)
  BY <1>1, <1>2 DEF Less, Known
<1>5. \A a, b, c : Known(CashConversionCycle(a, b, c)) <=> Known(a) /\ Known(b) /\ Known(c)
  BY <1>1, <1>2 DEF CashConversionCycle, Known
<1>6. \A a, b : Known(WorkingCapitalNeed(a, b)) <=> Known(a) /\ Known(b)
  BY <1>1, <1>2 DEF WorkingCapitalNeed, Known
<1>7. \A a, b, c : Known(WorkingCapitalGap(a, b, c)) <=> Known(a) /\ Known(b) /\ Known(c)
  BY <1>1, <1>2 DEF WorkingCapitalGap, Known
<1>8. \A p, c : Known(Delta(p, c)) <=> Known(p) /\ Known(c)
  BY <1>1, <1>2 DEF Delta, Known
<1>9. \A p, c : Known(GrowthRate(p, c)) <=> Known(p) /\ Known(c) /\ p[1] # 0
  BY <1>1, <1>2 DEF GrowthRate, Known
<1> QED
  BY <1>3, <1>4, <1>5, <1>6, <1>7, <1>8, <1>9

\* What a result is known from.
Rests(r) == \A k \in Leaves[r] : Known(figures[k]) /\ (k \in Divisors[r] => figures[k][1] # 0)

LEMMA ResultsKnown == \A r \in DOMAIN Leaves : Known(Suite(figures)[r]) <=> Rests(r)
<1> DEFINE F == figures
           Cycle == CashConversionCycle(
             Ratio(F.accounts_receivable, F.revenue, DAYS_PER_YEAR),
             Ratio(F.inventory, F.cost_of_goods_sold, DAYS_PER_YEAR),
             Ratio(F.accounts_payable, F.cost_of_goods_sold, DAYS_PER_YEAR))
           Need == WorkingCapitalNeed(F.cost_of_goods_sold, Cycle)
<1>1. Known(Cycle) <=>
        /\ Known(F.accounts_receivable) /\ Known(F.revenue) /\ F.revenue[1] # 0
        /\ Known(F.inventory) /\ Known(F.accounts_payable)
        /\ Known(F.cost_of_goods_sold) /\ F.cost_of_goods_sold[1] # 0
  BY ComposedKnown
<1>2. Known(Need) <=> Known(F.cost_of_goods_sold) /\ Known(Cycle)
  BY ComposedKnown
<1>3. Known(Suite(figures)["current_ratio"]) <=> Rests("current_ratio")
  BY ComposedKnown DEF Suite, Rests, Leaves, Divisors
<1>4. Known(Suite(figures)["quick_ratio"]) <=> Rests("quick_ratio")
  BY ComposedKnown DEF Suite, Rests, Leaves, Divisors
<1>5. Known(Suite(figures)["receivable_days"]) <=> Rests("receivable_days")
  BY ComposedKnown DEF Suite, Rests, Leaves, Divisors
<1>6. Known(Suite(figures)["inventory_days"]) <=> Rests("inventory_days")
  BY ComposedKnown DEF Suite, Rests, Leaves, Divisors
<1>7. Known(Suite(figures)["payable_days"]) <=> Rests("payable_days")
  BY ComposedKnown DEF Suite, Rests, Leaves, Divisors
<1>8. Known(Suite(figures)["cash_conversion_cycle"]) <=> Rests("cash_conversion_cycle")
  BY <1>1 DEF Suite, Rests, Leaves, Divisors
<1>9. Known(Suite(figures)["working_capital_need"]) <=> Rests("working_capital_need")
  BY <1>1, <1>2 DEF Suite, Rests, Leaves, Divisors
<1>10. Known(Suite(figures)["working_capital_gap"]) <=> Rests("working_capital_gap")
  BY <1>1, <1>2, ComposedKnown DEF Suite, Rests, Leaves, Divisors
<1>11. Known(Suite(figures)["revenue_trend"]) <=> Rests("revenue_trend")
  BY ComposedKnown DEF Suite, Rests, Leaves, Divisors
<1>12. Known(Suite(figures)["revenue_growth"]) <=> Rests("revenue_growth")
  BY ComposedKnown DEF Suite, Rests, Leaves, Divisors
<1>13. DOMAIN Leaves =
         {"current_ratio", "quick_ratio", "receivable_days", "inventory_days", "payable_days",
          "cash_conversion_cycle", "working_capital_need", "working_capital_gap",
          "revenue_trend", "revenue_growth"}
  BY DEF Leaves
<1> QED
  BY <1>3, <1>4, <1>5, <1>6, <1>7, <1>8, <1>9, <1>10, <1>11, <1>12, <1>13

LEMMA LeavesAreKeys ==
  \A r \in DOMAIN Leaves : Leaves[r] \subseteq FieldKeys /\ Divisors[r] \subseteq Leaves[r]
  BY DEF Leaves, Divisors, FieldKeys, CANONICAL_FIELD_KEYS, PRIOR_PERIOD_FIELD_KEYS

LEMMA FiguresFollow == SheetTypeOK => NothingGuessed
<1> SUFFICES ASSUME SheetTypeOK, NEW r \in DOMAIN Leaves
             PROVE  /\ Known(Suite(figures)[r]) <=> Rests(r)
                    /\ \/ Known(Suite(figures)[r])
                       \/ Leaves[r] \cap MissingEvidence(figures) # {}
                       \/ \E k \in Divisors[r] : figures[k] = <<0>>
  BY DEF NothingGuessed, Rests
<1>1. Known(Suite(figures)[r]) <=> Rests(r)
  BY ResultsKnown
<1>2. \A k \in FieldKeys : figures[k] = <<>> \/ \E x \in Amounts : figures[k] = <<x>>
  BY DEF SheetTypeOK, MaybeAmount
<1>3. ASSUME ~Rests(r), Leaves[r] \cap MissingEvidence(figures) = {}
      PROVE  \E k \in Divisors[r] : figures[k] = <<0>>
  <2>1. \A k \in Leaves[r] : Known(figures[k])
    BY <1>3, LeavesAreKeys DEF MissingEvidence
  <2>2. PICK k \in Leaves[r] : k \in Divisors[r] /\ figures[k][1] = 0
    BY <1>3, <2>1 DEF Rests
  <2>3. PICK x : figures[k] = <<x>>
    BY <1>2, <2>1, <2>2, LeavesAreKeys DEF Known
  <2> QED
    BY <2>2, <2>3
<1> QED
  BY <1>1, <1>3

LEMMA SheetBegins == SheetInit => SheetTypeOK
  BY DEF SheetInit, SheetTypeOK, NoFigures, NoTerms, NoPlan, MaybeAmount

LEMMA SheetStep ==
  ASSUME SheetTypeOK, CalculatorsNext \/ UNCHANGED sheet
  PROVE  SheetTypeOK'
<1>1. ASSUME NEW k \in Confirmable, NEW x \in Amounts, ConfirmFigure(k, x)
      PROVE  SheetTypeOK'
  <2>1. PICK y : y = <<x>>
    OBVIOUS
  <2>2. y \in MaybeAmount(Amounts)
    BY <2>1 DEF MaybeAmount
  <2>3. /\ figures' = [figures EXCEPT ![k] = y] /\ UNCHANGED <<terms, plan>>
        /\ figures \in [FieldKeys -> MaybeAmount(Amounts)]
    BY <1>1, <2>1 DEF ConfirmFigure, SheetTypeOK
  <2>4. figures' \in [FieldKeys -> MaybeAmount(Amounts)]
    BY <2>2, <2>3
  <2> QED
    BY <2>3, <2>4 DEF SheetTypeOK
<1>2. ASSUME NEW t \in [principal : Principals, rate : Rates, term : Terms,
                        style : {"BALLOON", "EQUAL_PRINCIPAL"}], ProposeTerms(t)
      PROVE  SheetTypeOK'
  BY <1>2 DEF ProposeTerms, SheetTypeOK
<1>3. ASSUME NEW p \in [Drivers \cup Funding -> MaybeAmount(DriverAmounts)], ProposePlan(p)
      PROVE  SheetTypeOK'
  BY <1>3 DEF ProposePlan, SheetTypeOK
<1>4. CASE UNCHANGED sheet
  BY <1>4 DEF sheet, SheetTypeOK
<1> QED
  BY <1>4, <1>1, <1>2, <1>3 DEF CalculatorsNext
--------------------------------------------------------------------------------
(****************************************************************************)
(* The checklist.                                                           *)
(****************************************************************************)
ChecklistHolds ==
  collateral \in
    [status : [Required -> StatusFacts \cup {Unconfirmed}],
     expiry : [Required -> ExpiryFacts \cup {Undated}], today : Days]

LEMMA ChecklistBegins == ChecklistInit => ChecklistHolds
  BY DaysAssumption DEF ChecklistInit, ChecklistHolds, Blank, Days

LEMMA ChecklistStep ==
  ASSUME ChecklistHolds, ChecklistNext \/ UNCHANGED collateral
  PROVE  ChecklistHolds'
<1>1. ASSUME NEW d \in Required, NEW s \in StatusFacts, ConfirmStatus(d, s)
      PROVE  ChecklistHolds'
  BY <1>1 DEF ConfirmStatus, ChecklistHolds
<1>2. ASSUME NEW d \in Required, NEW x \in ExpiryFacts, ConfirmExpiry(d, x)
      PROVE  ChecklistHolds'
  BY <1>2 DEF ConfirmExpiry, ChecklistHolds
<1>3. CASE NextDay
  <2>1. collateral.today + 1 \in Days
    BY <1>3, DaysAssumption DEF NextDay, ChecklistHolds, Days
  <2> QED
    BY <1>3, <2>1 DEF NextDay, ChecklistHolds
<1> QED
  BY <1>1, <1>2, <1>3 DEF ChecklistNext, ChecklistHolds

LEMMA ExpiryKnown ==
  ASSUME NEW d \in Required
  PROVE  COLLATERAL_CHECKLIST[d].expires \in BOOLEAN
<1>1. Required = {"giay_chung_nhan_qsdd", "hop_dong_the_chap", "bien_ban_dinh_gia"}
  BY DEF Required, COLLATERAL_CHECKLIST
<1>2. CASE d = "giay_chung_nhan_qsdd"
  BY <1>2 DEF COLLATERAL_CHECKLIST
<1>3. CASE d = "hop_dong_the_chap"
  BY <1>3 DEF COLLATERAL_CHECKLIST
<1>4. CASE d = "bien_ban_dinh_gia"
  BY <1>4 DEF COLLATERAL_CHECKLIST
<1> QED
  BY <1>4, <1>1, <1>2, <1>3

\* What the level of a gap is, case by case.
LEMMA LevelOf ==
  ASSUME NEW c, NEW d
  PROVE  /\ c.status[d] \in {Unconfirmed, "MISSING"} =>
              GapLevel(c, d) = {COLLATERAL_CHECKLIST[d].missing}
         /\ c.status[d] \notin {Unconfirmed, "MISSING", "PRESENT"} =>
              GapLevel(c, d) = {"CLARIFICATION"}
         /\ c.status[d] = "PRESENT" /\ Item(c, d) = {"EXPIRED"} =>
              GapLevel(c, d) = {COLLATERAL_CHECKLIST[d].expired}
         /\ /\ c.status[d] = "PRESENT" /\ Item(c, d) # {"EXPIRED"}
            /\ COLLATERAL_CHECKLIST[d].expires /\ ~Dated(c.expiry[d])
            => GapLevel(c, d) = {"CLARIFICATION"}
         /\ /\ c.status[d] = "PRESENT" /\ Item(c, d) # {"EXPIRED"}
            /\ ~(COLLATERAL_CHECKLIST[d].expires /\ ~Dated(c.expiry[d]))
            => GapLevel(c, d) = {}
<1>1. CASE c.status[d] \in {Unconfirmed, "MISSING"}
  BY <1>1 DEF GapLevel, Unconfirmed
<1>2. CASE c.status[d] \notin {Unconfirmed, "MISSING"}
  BY <1>2 DEF GapLevel
<1> QED
  BY <1>1, <1>2 DEF Unconfirmed

LEMMA ChecklistFollows == ChecklistHolds => ChecklistSound
<1> SUFFICES ASSUME ChecklistHolds, NEW d \in Required
             PROVE  LET s == collateral.status[d]
                        x == collateral.expiry[d]
                    IN
                    /\ GapLevel(collateral, d) = {} <=>
                         /\ s = "PRESENT"
                         /\ COLLATERAL_CHECKLIST[d].expires => x \in collateral.today..LastDay
                    /\ Item(collateral, d) = {} => s \notin {"PRESENT", "MISSING"}
                    /\ s = Unconfirmed =>
                         GapLevel(collateral, d) =
                           GapLevel([collateral EXCEPT !.status[d] = "MISSING"], d)
  BY DEF ChecklistSound
<1>1. PICK s, x, today :
        s = collateral.status[d] /\ x = collateral.expiry[d] /\ today = collateral.today
  OBVIOUS
<1>2. x \in ExpiryFacts \cup {Undated} /\ today \in Days /\ LastDay \in Nat
  BY <1>1, DaysAssumption DEF ChecklistHolds
<1>3. PICK expires \in BOOLEAN : expires = COLLATERAL_CHECKLIST[d].expires
  BY ExpiryKnown
<1>4. x \in today..LastDay <=> Dated(x) /\ ~Past(x, today)
  BY <1>2 DEF Dated, Past, Days, ExpiryFacts, NoDate, Undated
<1>5. /\ s = "MISSING" => Item(collateral, d) = {"MISSING"}
      /\ s = "PRESENT" /\ expires /\ Dated(x) /\ Past(x, today) =>
           Item(collateral, d) = {"EXPIRED"}
      /\ s = "PRESENT" /\ ~(expires /\ Dated(x) /\ Past(x, today)) =>
           Item(collateral, d) = {"PRESENT"}
  BY <1>1, <1>3 DEF Item
<1>6. {"EXPIRED"} # {"PRESENT"} /\ {"MISSING"} # {"EXPIRED"} /\ {"CLARIFICATION"} # {}
  OBVIOUS
<1>7. GapLevel(collateral, d) = {} <=> s = "PRESENT" /\ (expires => x \in today..LastDay)
  <2>1. CASE s \in {Unconfirmed, "MISSING"}
    BY <1>1, <2>1, LevelOf, SMTT(60) DEF Unconfirmed
  <2>2. CASE s \notin {Unconfirmed, "MISSING", "PRESENT"}
    BY <1>1, <2>2, LevelOf, ZenonT(60)
  <2>3. CASE s = "PRESENT" /\ expires /\ Dated(x) /\ Past(x, today)
    <3>1. GapLevel(collateral, d) = {COLLATERAL_CHECKLIST[d].expired}
      BY <1>1, <1>5, <2>3, LevelOf
    <3>2. ~(expires => x \in today..LastDay)
      BY <1>4, <2>3
    <3> QED
      BY <3>1, <3>2
  <2>4. CASE s = "PRESENT" /\ ~(expires /\ Dated(x) /\ Past(x, today))
    <3>1. Item(collateral, d) # {"EXPIRED"}
      BY <1>5, <1>6, <2>4
    <3>2. CASE expires /\ ~Dated(x)
      <4>1. GapLevel(collateral, d) = {"CLARIFICATION"}
        BY <1>1, <1>3, <2>4, <3>1, <3>2, LevelOf
      <4> QED
        BY <1>4, <3>2, <4>1
    <3>3. CASE ~(expires /\ ~Dated(x))
      <4>1. GapLevel(collateral, d) = {}
        BY <1>1, <1>3, <2>4, <3>1, <3>3, LevelOf
      <4> QED
        BY <1>4, <2>4, <3>3, <4>1
    <3> QED
      BY <3>2, <3>3
  <2> QED
    BY <2>4, <2>1, <2>2, <2>3
<1>8. Item(collateral, d) = {} => s \notin {"PRESENT", "MISSING"}
  BY <1>5
<1>9. s = Unconfirmed =>
        GapLevel(collateral, d) = GapLevel([collateral EXCEPT !.status[d] = "MISSING"], d)
  <2>1. PICK c : c = [collateral EXCEPT !.status[d] = "MISSING"]
    OBVIOUS
  <2>2. c.status[d] = "MISSING"
    BY <2>1 DEF ChecklistHolds
  <2> QED
    BY <1>1, <2>1, <2>2, LevelOf
<1> QED
  BY <1>1, <1>3, <1>7, <1>8, <1>9

--------------------------------------------------------------------------------
(****************************************************************************)
(* The drafts: what an author may cite only grows, as a fact stays          *)
(* confirmed and an assessment that is kept stays as it is, so what was     *)
(* accepted once can always be traced.                                      *)
(****************************************************************************)
Challenged == {i.about : i \in In(kept["RISK"].items, "challenges")}

\* Who reads an assessment found it written.
InTurn ==
  /\ Written("RISK") => Written("UNDERWRITING") /\ Written("LEGAL")
  /\ Written("OPERATIONS") => Written("RISK")

CitesHold ==
  /\ \A a \in DOMAIN Sections : \A i \in kept[a].items : i.cites \subseteq Citable(a)
  /\ Challenged \subseteq ReviewUniverse

AmountFound ==
  kept["UNDERWRITING"].amount # Nothing => kept["UNDERWRITING"].amount \in offered.facts

ChallengesMade == Written("RISK") => LowConfidence \cup Unaddressed \subseteq Challenged

GapsRequested ==
  Written("OPERATIONS") =>
    \A g \in OpenGaps :
      g \in package.requests /\ <<"PREPARE_DOCUMENT_REQUEST", g>> \in package.actions

DraftingHolds ==
  /\ offered \in [facts : SUBSET Needed, hits : SUBSET Clauses, checks : SUBSET Checks]
  /\ DOMAIN kept = DOMAIN Sections
  /\ InTurn /\ CitesHold /\ AmountFound /\ ChallengesMade /\ GapsRequested

LEMMA Authors == DOMAIN Sections = {"UNDERWRITING", "LEGAL", "RISK", "OPERATIONS"}
  BY DEF Sections

LEMMA DraftingBegins == DraftingInit => DraftingHolds
<1> SUFFICES ASSUME DraftingInit
             PROVE  DraftingHolds
  OBVIOUS
<1>1. /\ offered \in [facts : SUBSET Needed, hits : SUBSET Clauses, checks : SUBSET Checks]
      /\ DOMAIN kept = DOMAIN Sections
  BY DEF DraftingInit
<1>2. \A a \in DOMAIN Sections : kept[a] = NoAssessment /\ ~Written(a)
  BY DEF DraftingInit, Written
<1>3. NoAssessment.items = {} /\ NoAssessment.amount = Nothing
  BY DEF NoAssessment
<1>4. CitesHold /\ AmountFound
  BY <1>2, <1>3, Authors DEF CitesHold, Challenged, In, AmountFound
<1> QED
  BY <1>1, <1>2, <1>4, Authors DEF DraftingHolds, InTurn, ChallengesMade, GapsRequested

\* What an author may cite, when nothing is taken back.
LEMMA CitableGrows ==
  ASSUME offered.facts \subseteq offered'.facts,
         offered.hits \subseteq offered'.hits,
         offered.checks \subseteq offered'.checks,
         \A a \in DOMAIN Sections :
           kept[a].items \subseteq kept'[a].items /\ kept[a].gaps \subseteq kept'[a].gaps
  PROVE  /\ \A a \in DOMAIN Sections : Citable(a) \subseteq Citable(a)'
         /\ ReviewUniverse \subseteq ReviewUniverse'
<1>1. \A a \in DOMAIN Sections : PathsOf(a) \subseteq PathsOf(a)'
  BY DEF PathsOf
<1>2. ReviewUniverse \subseteq ReviewUniverse' /\ MemoUniverse \subseteq MemoUniverse'
  BY <1>1, Authors DEF ReviewUniverse, MemoUniverse
<1>3. {Fact(f) : f \in offered.facts} \subseteq {Fact(f) : f \in offered'.facts}
  OBVIOUS
<1>4. Figures \subseteq Figures'
  BY <1>3 DEF Figures, Result, Fact
<1>5. Law \subseteq Law'
  BY DEF Law, Clause, Check
<1>6. ASSUME NEW a \in DOMAIN Sections
      PROVE  Citable(a) \subseteq Citable(a)'
  BY <1>2, <1>3, <1>4, <1>5 DEF Citable, Fact
<1> QED
  BY <1>2, <1>6

\* A fact is confirmed, or the legal review has retrieved.
LEMMA OfferedStep ==
  ASSUME DraftingHolds,
         (\E f \in Needed : ConfirmFact(f))
           \/ \E hits \in SUBSET Clauses, checks \in SUBSET Checks : Retrieve(hits, checks)
  PROVE  DraftingHolds'
<1>1. UNCHANGED <<kept, package>>
  BY DEF ConfirmFact, Retrieve
<1>2. /\ offered' \in [facts : SUBSET Needed, hits : SUBSET Clauses, checks : SUBSET Checks]
      /\ offered.facts \subseteq offered'.facts
      /\ offered.hits \subseteq offered'.hits
      /\ offered.checks \subseteq offered'.checks
  <2>1. CASE \E f \in Needed : ConfirmFact(f)
    BY <2>1 DEF DraftingHolds, ConfirmFact
  <2>2. CASE \E hits \in SUBSET Clauses, checks \in SUBSET Checks : Retrieve(hits, checks)
    BY <2>2 DEF DraftingHolds, Retrieve
  <2> QED
    BY <2>1, <2>2
<1>3. CitesHold'
  BY <1>1, <1>2, CitableGrows DEF DraftingHolds, CitesHold, Challenged, In
<1>4. InTurn' /\ AmountFound' /\ ChallengesMade' /\ GapsRequested'
  BY <1>1, <1>2 DEF DraftingHolds, InTurn, AmountFound, ChallengesMade, GapsRequested, Written,
     LowConfidence, MakerItems, Unaddressed, In, Challenged, OpenGaps
<1> QED
  BY <1>4, <1>1, <1>2, <1>3 DEF DraftingHolds

\* What is added beside the answer of the review are challenges of what makers wrote.
LEMMA AddedAre ==
  ASSUME NEW a, NEW i \in AddedBeside(a)
  PROVE  /\ a = "RISK" /\ i.at = "challenges"
         /\ i.cites = {i.about} /\ i.about \in MakerItems
<1>1. a = "RISK"
  BY DEF AddedBeside
<1>2. PICK x \in LowConfidence \cup Ungrounded \cup Unaddressed :
        i = Entry("challenges", {x}, FALSE, x)
  BY <1>1 DEF AddedBeside
<1>3. x \in MakerItems
  BY DEF LowConfidence, Ungrounded, Unaddressed, MakerItems, In
<1>4. i.at = "challenges" /\ i.cites = {x} /\ i.about = x
  BY <1>2 DEF Entry
<1> QED
  BY <1>1, <1>3, <1>4

\* An assessment is kept: the author had none, and whoever reads it has none either.
LEMMA WriteStep ==
  ASSUME DraftingHolds, NEW a \in DOMAIN Sections, Write(a)
  PROVE  DraftingHolds'
<1>1. PICK items, amount : Keep(a, items, amount)
  BY DEF Write
<1>2. PICK new : new = [items |-> KeptItems(a, items), gaps |-> ComputedGaps(a), amount |-> amount]
  OBVIOUS
<1>3. /\ new.items = items \cup AddedBeside(a) /\ new.gaps = ComputedGaps(a)
      /\ new.amount = amount
  BY <1>2 DEF KeptItems
<1>4. /\ Acceptable(a, items, amount) /\ UNCHANGED offered
      /\ kept' = [kept EXCEPT ![a] = new]
  BY <1>1, <1>2 DEF Keep
<1>5. /\ DOMAIN kept = DOMAIN Sections /\ DOMAIN kept' = DOMAIN Sections
      /\ kept'[a] = new /\ \A b \in DOMAIN Sections : b # a => kept'[b] = kept[b]
  BY <1>4 DEF DraftingHolds
<1>6. /\ ~Written(a) /\ kept[a].items = {} /\ kept[a].gaps = {}
      /\ a \in {"RISK", "OPERATIONS"} => Written("UNDERWRITING") /\ Written("LEGAL")
      /\ a = "OPERATIONS" => Written("RISK")
  BY DEF Write, Turn, Written, NoAssessment
<1>7. \A b \in DOMAIN Sections :
        kept[b].items \subseteq kept'[b].items /\ kept[b].gaps \subseteq kept'[b].gaps
  BY <1>5, <1>6
<1>8. /\ \A b \in DOMAIN Sections : Citable(b) \subseteq Citable(b)'
      /\ ReviewUniverse \subseteq ReviewUniverse'
  BY <1>4, <1>7, CitableGrows
<1>9. MakerItems \subseteq ReviewUniverse
  <2>1. \A b \in DOMAIN Sections : {<<b, i>> : i \in kept[b].items} \subseteq PathsOf(b)
    BY DEF PathsOf
  <2> QED
    BY <2>1, Authors DEF MakerItems, ReviewUniverse
<1>10. \A b \in DOMAIN Sections : b # a => (Written(b)' <=> Written(b))
  BY <1>5 DEF Written, NoAssessment
<1>11. InTurn'
  BY <1>6, <1>10, Authors DEF DraftingHolds, InTurn
<1>12. \A b \in DOMAIN Sections : \A i \in kept'[b].items : i.cites \subseteq Citable(b)'
  <2> SUFFICES ASSUME NEW b \in DOMAIN Sections, NEW i \in kept'[b].items
               PROVE  i.cites \subseteq Citable(b)'
    OBVIOUS
  <2>1. CASE b # a
    BY <1>5, <1>8, <2>1 DEF DraftingHolds, CitesHold
  <2>2. CASE b = a /\ i \in items
    BY <1>4, <1>8, <2>2 DEF Acceptable, WellCited
  <2>3. CASE b = a /\ i \in AddedBeside(a)
    <3>1. a = "RISK" /\ i.cites \subseteq ReviewUniverse
      BY <1>9, <2>3, AddedAre
    <3>2. ReviewUniverse' \subseteq Citable("RISK")'
      BY DEF Citable
    <3> QED
      BY <1>8, <2>3, <3>1, <3>2
  <2> QED
    BY <1>3, <1>5, <2>1, <2>2, <2>3
<1>13. Challenged' \subseteq ReviewUniverse'
  <2>1. CASE a # "RISK"
    <3>1. Challenged' = Challenged
      BY <1>5, <2>1, Authors DEF Challenged, In
    <3> QED
      BY <1>8, <3>1 DEF DraftingHolds, CitesHold
  <2>2. CASE a = "RISK"
    <3>1. ASSUME NEW i \in kept'["RISK"].items, i.at = "challenges"
          PROVE  i.about \in ReviewUniverse
      <4>1. CASE i \in items
        BY <1>4, <2>2, <3>1, <4>1 DEF Acceptable, TargetsGiven, Universe, In
      <4>2. CASE i \in AddedBeside(a)
        BY <1>9, <4>2, AddedAre
      <4> QED
        BY <1>3, <1>5, <2>2, <4>1, <4>2
    <3> QED
      BY <1>8, <3>1 DEF Challenged, In
  <2> QED
    BY <2>1, <2>2
<1>14. AmountFound'
  <2>1. CASE a = "UNDERWRITING"
    BY <1>3, <1>4, <1>5, <2>1 DEF Acceptable, AmountHolds, AmountFound
  <2>2. CASE a # "UNDERWRITING"
    BY <1>4, <1>5, <2>2, Authors DEF DraftingHolds, AmountFound
  <2> QED
    BY <2>1, <2>2
<1>15. ChallengesMade'
  <2>1. CASE a \in {"UNDERWRITING", "LEGAL"}
    BY <1>6, <1>10, <2>1, Authors DEF DraftingHolds, InTurn, ChallengesMade
  <2>2. CASE a \in {"RISK", "OPERATIONS"}
    <3>1. UNCHANGED <<kept["UNDERWRITING"], kept["LEGAL"]>>
      BY <1>5, <2>2, Authors
    <3>2. LowConfidence' = LowConfidence /\ Unaddressed' = Unaddressed
      <4>1. MakerItems' = MakerItems
        BY <3>1 DEF MakerItems
      <4> QED
        BY <3>1, <4>1 DEF LowConfidence, Unaddressed, In
    <3>3. CASE a = "RISK"
      <4>1. ASSUME NEW x \in LowConfidence \cup Unaddressed
            PROVE  x \in Challenged'
        <5>1. Entry("challenges", {x}, FALSE, x) \in AddedBeside(a)
          BY <3>3 DEF AddedBeside
        <5>2. Entry("challenges", {x}, FALSE, x) \in kept'["RISK"].items
          BY <1>3, <1>5, <3>3, <5>1
        <5> QED
          BY <5>2 DEF Challenged, In, Entry
      <4> QED
        BY <3>2, <4>1 DEF ChallengesMade
    <3>4. CASE a = "OPERATIONS"
      <4>1. Challenged' = Challenged /\ (Written("RISK")' <=> Written("RISK"))
        BY <1>5, <1>10, <3>4, Authors DEF Challenged, In
      <4> QED
        BY <3>2, <4>1 DEF DraftingHolds, ChallengesMade
    <3> QED
      BY <2>2, <3>3, <3>4
  <2> QED
    BY <2>1, <2>2, Authors
<1>16. GapsRequested'
  <2>1. CASE a # "OPERATIONS"
    BY <1>6, <1>10, <2>1, Authors DEF DraftingHolds, InTurn, GapsRequested
  <2>2. CASE a = "OPERATIONS"
    <3>1. PICK intake : package' = Assembled(intake)
      BY <1>1, <2>2 DEF Keep
    <3>2. kept'[a].gaps = kept[a].gaps
      BY <1>3, <1>5, <1>6, <2>2 DEF ComputedGaps
    <3>3. \A b \in DOMAIN Sections : kept'[b].gaps = kept[b].gaps
      BY <1>5, <3>2
    <3>4. OpenGaps' = OpenGaps
      BY <1>5, <3>3 DEF OpenGaps
    <3>5. /\ package'.requests = OpenGaps
          /\ \A g \in OpenGaps : <<"PREPARE_DOCUMENT_REQUEST", g>> \in package'.actions
      BY <3>1 DEF Assembled
    <3> QED
      BY <3>4, <3>5 DEF GapsRequested
  <2> QED
    BY <2>1, <2>2
<1> QED
  BY <1>4, <1>5, <1>11, <1>12, <1>13, <1>14, <1>15, <1>16 DEF DraftingHolds, CitesHold

LEMMA DraftingStep ==
  ASSUME DraftingHolds, DraftingNext \/ UNCHANGED drafting
  PROVE  DraftingHolds'
<1>1. CASE UNCHANGED drafting
  <2>1. UNCHANGED <<offered, kept, package>>
    BY <1>1 DEF drafting
  <2>2. CitesHold'
    BY <2>1, CitableGrows DEF DraftingHolds, CitesHold, Challenged, In
  <2>3. InTurn' /\ AmountFound' /\ ChallengesMade' /\ GapsRequested'
    BY <2>1 DEF DraftingHolds, InTurn, AmountFound, ChallengesMade, GapsRequested, Written,
       LowConfidence, MakerItems, Unaddressed, In, Challenged, OpenGaps
  <2> QED
    BY <2>1, <2>2, <2>3 DEF DraftingHolds
<1> QED
  BY <1>1, OfferedStep, WriteStep DEF DraftingNext

LEMMA DraftingFollows == DraftingHolds => Traceable
<1> SUFFICES ASSUME DraftingHolds
             PROVE  Traceable
  OBVIOUS
<1>1. ASSUME NEW a \in DOMAIN kept, NEW i \in kept[a].items, NEW c \in i.cites
      PROVE  \/ c \in Figures \cup Law
             \/ \E b \in DOMAIN kept : b # a /\ c \in PathsOf(b)
  <2>1. a \in DOMAIN Sections /\ c \in Citable(a)
    BY DEF DraftingHolds, CitesHold
  <2>2. CASE a \in {"UNDERWRITING", "LEGAL"}
    BY <2>1, <2>2 DEF Citable, Figures
  <2>3. CASE a = "RISK"
    BY <2>1, <2>3, Authors DEF Citable, ReviewUniverse, DraftingHolds
  <2>4. CASE a = "OPERATIONS"
    BY <2>1, <2>4, Authors DEF Citable, ReviewUniverse, MemoUniverse, DraftingHolds
  <2> QED
    BY <2>4, <2>1, <2>2, <2>3, Authors
<1>2. Ungrounded = {}
  <2> SUFFICES ASSUME NEW x \in Ungrounded
               PROVE  FALSE
    OBVIOUS
  <2>1. PICK a \in {"UNDERWRITING", "LEGAL"} : \E i \in kept[a].items : x = <<a, i>>
    BY DEF Ungrounded, MakerItems
  <2>2. PICK i \in kept[a].items : x = <<a, i>>
    BY <2>1
  <2>3. PICK c \in i.cites : c[1] = "CONFIRMED_FACT" /\ c[2] \notin offered.facts
    BY <2>2 DEF Ungrounded
  <2>4. c \in Citable(a)
    BY Authors DEF DraftingHolds, CitesHold
  <2>5. c \in Figures \cup Law
    BY <2>4 DEF Citable, Figures
  <2> QED
    BY <2>3, <2>5 DEF Figures, Law, Fact, Result, Clause, Check
<1>3. Challenged = {i.about : i \in In(kept["RISK"].items, "challenges")}
  BY DEF Challenged
<1> QED
  BY <1>1, <1>2, <1>3 DEF DraftingHolds, CitesHold, AmountFound, ChallengesMade, GapsRequested,
     Traceable

--------------------------------------------------------------------------------
(****************************************************************************)
(* The scenarios: a shock leaves a missing driver missing, and rounding is  *)
(* monotone, so nothing is gained by waiting longer for the receivables.    *)
(****************************************************************************)
LEMMA HalfUpInteger ==
  ASSUME NEW n \in Int, NEW d \in Nat \ {0}
  PROVE  HalfUp(n, d) \in Int
<1>1. Abs(n) \in Int
  BY DEF Abs
<1>2. (2 * Abs(n) + d) \div (2 * d) \in Int
  BY <1>1
<1> QED
  BY <1>2 DEF HalfUp

\* Rounding to quanta of tenths of days.
LEMMA HalfUpGrows ==
  ASSUME NEW n \in Nat, NEW m \in Nat, n <= m
  PROVE  HalfUp(n, 10 * DAYS_PER_YEAR) <= HalfUp(m, 10 * DAYS_PER_YEAR)
<1>1. Abs(n) = n /\ Abs(m) = m
  BY DEF Abs
<1>2. (2 * n + 3650) \div 7300 <= (2 * m + 3650) \div 7300
  OBVIOUS
<1> QED
  BY <1>1, <1>2 DEF HalfUp, DAYS_PER_YEAR

LEMMA ProductGrows ==
  ASSUME NEW i \in Nat, NEW j \in Nat, NEW k \in Nat, i <= j
  PROVE  i * k \in Nat /\ i * k <= j * k
  OBVIOUS

\* What a plan says is a natural number.
LEMMA PlanKnown ==
  ASSUME SheetTypeOK
  PROVE  /\ DOMAIN plan = Drivers \cup Funding
         /\ \A k \in Drivers \cup Funding : Known(plan[k]) => plan[k][1] \in Nat
<1> SUFFICES ASSUME NEW k \in Drivers \cup Funding, Known(plan[k])
             PROVE  plan[k][1] \in Nat
  BY DEF SheetTypeOK
<1>1. PICK x \in DriverAmounts : plan[k] = <<x>>
  BY DEF SheetTypeOK, MaybeAmount, Known
<1> QED
  BY <1>1, ScenariosAssumption

LEMMA ShockedAre ==
  ASSUME SheetTypeOK, NEW spec
  PROVE  LET p == Shocked(plan, spec) IN
         /\ p.projected_revenue = Shock(plan.projected_revenue, 10 - spec.revenue_down, 0)
         /\ p.cogs_ratio = Shock(plan.cogs_ratio, 10 + spec.cost_up, 0)
         /\ p.receivable_days = Shock(plan.receivable_days, 1, spec.receivable_days_up)
         /\ p.inventory_days = plan.inventory_days /\ p.payable_days = plan.payable_days
  BY PlanKnown DEF Shocked, Drivers

LEMMA ShockKnown ==
  ASSUME NEW x, NEW f, NEW c
  PROVE  /\ Known(Shock(x, f, c)) <=> Known(x)
         /\ Known(x) => Shock(x, f, c)[1] = x[1] * f + c
<1>1. PICK y : y = x[1] * f + c
  OBVIOUS
<1>2. <<y>> # <<>>
  OBVIOUS
<1> QED
  BY <1>1, <1>2 DEF Shock, Known

\* A scenario is computed exactly if the base case is.
LEMMA ShockedKnown ==
  ASSUME SheetTypeOK, NEW spec
  PROVE  AllKnown({Shocked(plan, spec)[k] : k \in Drivers}) <=> AllKnown({plan[k] : k \in Drivers})
<1>1. PICK p : p = Shocked(plan, spec)
  OBVIOUS
<1>2. /\ p.projected_revenue = Shock(plan.projected_revenue, 10 - spec.revenue_down, 0)
      /\ p.cogs_ratio = Shock(plan.cogs_ratio, 10 + spec.cost_up, 0)
      /\ p.receivable_days = Shock(plan.receivable_days, 1, spec.receivable_days_up)
      /\ p.inventory_days = plan.inventory_days /\ p.payable_days = plan.payable_days
  BY <1>1, ShockedAre
<1>3. /\ Known(p.projected_revenue) <=> Known(plan.projected_revenue)
      /\ Known(p.cogs_ratio) <=> Known(plan.cogs_ratio)
      /\ Known(p.receivable_days) <=> Known(plan.receivable_days)
  BY <1>2, ShockKnown
<1>4. \A k \in Drivers : Known(p[k]) <=> Known(plan[k])
  BY <1>2, <1>3 DEF Drivers
<1> QED
  BY <1>1, <1>4 DEF AllKnown

\* What the need of a scenario adds up.
LEMMA NeedIs ==
  ASSUME SheetTypeOK, AllKnown({plan[k] : k \in Drivers}),
         NEW spec \in [revenue_down : 0..10, cost_up : Nat, receivable_days_up : Nat]
  PROVE  LET revenue == plan.projected_revenue[1] * (10 - spec.revenue_down)
             cogs == revenue * (plan.cogs_ratio[1] * (10 + spec.cost_up))
             days == plan.receivable_days[1] + spec.receivable_days_up
             Of(n, d) == HalfUp(n * Quanta, d * DAYS_PER_YEAR)
         IN
         /\ revenue \in Nat /\ cogs \in Nat /\ days \in Nat
         /\ Scenario(plan, spec).need =
              <<Of(days * revenue, 10) + Of(plan.inventory_days[1] * cogs, 1000)
                  - Of(plan.payable_days[1] * cogs, 1000)>>
<1>1. PICK p : p = Shocked(plan, spec)
  OBVIOUS
<1>2. \A k \in Drivers : Known(plan[k]) /\ plan[k][1] \in Nat
  BY PlanKnown DEF AllKnown
<1>3. 10 - spec.revenue_down \in Nat /\ 10 + spec.cost_up \in Nat /\ spec.receivable_days_up \in Nat
  OBVIOUS
<1>4. /\ p.projected_revenue[1] = plan.projected_revenue[1] * (10 - spec.revenue_down) + 0
      /\ p.cogs_ratio[1] = plan.cogs_ratio[1] * (10 + spec.cost_up) + 0
      /\ p.receivable_days[1] = plan.receivable_days[1] * 1 + spec.receivable_days_up
      /\ p.inventory_days = plan.inventory_days /\ p.payable_days = plan.payable_days
  <2>1. /\ p.projected_revenue = Shock(plan.projected_revenue, 10 - spec.revenue_down, 0)
        /\ p.cogs_ratio = Shock(plan.cogs_ratio, 10 + spec.cost_up, 0)
        /\ p.receivable_days = Shock(plan.receivable_days, 1, spec.receivable_days_up)
        /\ p.inventory_days = plan.inventory_days /\ p.payable_days = plan.payable_days
    BY <1>1, ShockedAre
  <2>2. /\ Known(plan.projected_revenue) /\ Known(plan.cogs_ratio)
        /\ Known(plan.receivable_days)
    BY <1>2 DEF Drivers
  <2> QED
    BY <2>1, <2>2, ShockKnown
<1>5. PICK revenue, ratio, days :
        /\ revenue = plan.projected_revenue[1] * (10 - spec.revenue_down)
        /\ ratio = plan.cogs_ratio[1] * (10 + spec.cost_up)
        /\ days = plan.receivable_days[1] + spec.receivable_days_up
  OBVIOUS
<1>6. revenue \in Nat /\ ratio \in Nat /\ days \in Nat
  BY <1>2, <1>3, <1>5 DEF Drivers
<1>7. p.projected_revenue[1] = revenue /\ p.cogs_ratio[1] = ratio /\ p.receivable_days[1] = days
  BY <1>2, <1>4, <1>5, <1>6 DEF Drivers
<1>8. AllKnown({p[k] : k \in Drivers})
  BY <1>1, ShockedKnown
<1>9. revenue * ratio \in Nat
  BY <1>6
<1>10. Scenario(plan, spec).need = Requirement(p)
  BY <1>1 DEF Scenario
<1> QED
  BY <1>4, <1>5, <1>6, <1>7, <1>8, <1>9, <1>10 DEF Requirement

LEMMA ScenariosFollow == SheetTypeOK => ScenariosReconcile
<1> SUFFICES ASSUME SheetTypeOK, NEW spec \in Downsides
             PROVE  LET s == Scenario(plan, spec)
                        base == Scenario(plan, NoSpec)
                    IN
                    /\ Known(s.need) <=> AllKnown({plan[k] : k \in Drivers})
                    /\ Known(s.gap.implied) <=> AllKnown({plan[k] : k \in DOMAIN plan})
                    /\ Known(s.gap.implied) =>
                         plan.requested_amount[1] * Quanta - s.gap.difference[1]
                           + (plan.own_funds[1] + plan.existing_facilities[1]) * Quanta = s.need[1]
                    /\ Known(s.need) /\ spec.revenue_down = 0 /\ spec.cost_up = 0 =>
                         s.need[1] >= base.need[1]
  BY DEF ScenariosReconcile
<1>1. PICK need : need = Scenario(plan, spec).need
  OBVIOUS
<1>2. PICK gap : gap = Scenario(plan, spec).gap
  OBVIOUS
<1>3. gap = FinancingGap(need, plan)
  BY <1>1, <1>2 DEF Scenario
<1>4. spec \in [revenue_down : 0..10, cost_up : Nat, receivable_days_up : Nat]
  BY ScenariosAssumption
<1>5. /\ NoSpec \in [revenue_down : 0..10, cost_up : Nat, receivable_days_up : Nat]
      /\ NoSpec.revenue_down = 0 /\ NoSpec.cost_up = 0 /\ NoSpec.receivable_days_up = 0
  BY DEF NoSpec
<1>6. Quanta \in Nat
  BY ScenariosAssumption
<1>7. \A n : Known(<<n>>) /\ <<n>>[1] = n
  BY DEF Known
<1>8. \A n \in Int : /\ HalfUp(n, 10 * DAYS_PER_YEAR) \in Int
                    /\ HalfUp(n, 1000 * DAYS_PER_YEAR) \in Int
  <2>1. 10 * DAYS_PER_YEAR \in Nat \ {0} /\ 1000 * DAYS_PER_YEAR \in Nat \ {0}
    BY DEF DAYS_PER_YEAR
  <2> QED
    BY <2>1, HalfUpInteger, SMTT(60)
<1>9. Known(need) <=> AllKnown({plan[k] : k \in Drivers})
  <2>1. need = Requirement(Shocked(plan, spec))
    BY <1>1 DEF Scenario
  <2> QED
    BY <1>7, <2>1, ShockedKnown DEF Requirement, Known
<1>10. Known(need) => need[1] \in Int
  <2> SUFFICES ASSUME Known(need)
               PROVE  need[1] \in Int
    OBVIOUS
  <2>1. \A k \in Drivers : plan[k][1] \in Nat
    BY <1>9, PlanKnown DEF AllKnown
  <2>2. PICK revenue, cogs, days :
          /\ revenue = plan.projected_revenue[1] * (10 - spec.revenue_down)
          /\ cogs = revenue * (plan.cogs_ratio[1] * (10 + spec.cost_up))
          /\ days = plan.receivable_days[1] + spec.receivable_days_up
    OBVIOUS
  <2>3. revenue \in Nat /\ cogs \in Nat /\ days \in Nat
    BY <1>4, <1>9, <2>2, NeedIs
  <2>4. PICK r, i, o :
          /\ r = HalfUp(days * revenue * Quanta, 10 * DAYS_PER_YEAR)
          /\ i = HalfUp(plan.inventory_days[1] * cogs * Quanta, 1000 * DAYS_PER_YEAR)
          /\ o = HalfUp(plan.payable_days[1] * cogs * Quanta, 1000 * DAYS_PER_YEAR)
    OBVIOUS
  <2>5. need = <<r + i - o>>
    BY <1>1, <1>4, <1>9, <2>2, <2>4, NeedIs
  <2>6. /\ days * revenue * Quanta \in Int
        /\ plan.inventory_days[1] * cogs * Quanta \in Int
        /\ plan.payable_days[1] * cogs * Quanta \in Int
    BY <1>6, <2>1, <2>3 DEF Drivers
  <2>7. r \in Int /\ i \in Int /\ o \in Int
    <3>1. /\ HalfUp(days * revenue * Quanta, 10 * DAYS_PER_YEAR) \in Int
          /\ HalfUp(plan.inventory_days[1] * cogs * Quanta, 1000 * DAYS_PER_YEAR) \in Int
          /\ HalfUp(plan.payable_days[1] * cogs * Quanta, 1000 * DAYS_PER_YEAR) \in Int
      BY <1>8, <2>6
    <3> QED
      BY <2>4, <3>1
  <2> QED
    BY <2>5, <2>7
<1>11. PICK own, asked :
         /\ own = (plan.own_funds[1] + plan.existing_facilities[1]) * Quanta
         /\ asked = plan.requested_amount[1] * Quanta
  OBVIOUS
<1>12. Known(gap.implied) <=> Known(need) /\ AllKnown({plan[k] : k \in Funding})
  BY <1>3, <1>7 DEF FinancingGap, Known
<1>13. Known(gap.implied) => gap.difference = <<asked - (need[1] - own)>>
  BY <1>3, <1>11, <1>12 DEF FinancingGap
<1>14. Known(gap.implied) <=> AllKnown({plan[k] : k \in DOMAIN plan})
  BY <1>9, <1>12, PlanKnown DEF AllKnown
<1>15. Known(gap.implied) => asked - gap.difference[1] + own = need[1]
  <2> SUFFICES ASSUME Known(gap.implied)
               PROVE  asked - gap.difference[1] + own = need[1]
    OBVIOUS
  <2>1. \A k \in Funding : plan[k][1] \in Nat
    BY <1>12, PlanKnown DEF AllKnown
  <2>2. own \in Int /\ asked \in Int
    BY <1>6, <1>11, <2>1 DEF Funding
  <2> QED
    BY <1>10, <1>12, <1>13, <2>2
<1>16. ASSUME Known(need), spec.revenue_down = 0, spec.cost_up = 0
       PROVE  need[1] >= Scenario(plan, NoSpec).need[1]
  <2>1. \A k \in Drivers : plan[k][1] \in Nat
    BY <1>9, <1>16, PlanKnown DEF AllKnown
  <2>2. PICK revenue, cogs, days, later :
          /\ revenue = plan.projected_revenue[1] * (10 - 0)
          /\ cogs = revenue * (plan.cogs_ratio[1] * (10 + 0))
          /\ days = plan.receivable_days[1] + 0
          /\ later = plan.receivable_days[1] + spec.receivable_days_up
    OBVIOUS
  <2>3. revenue \in Nat /\ cogs \in Nat /\ days \in Nat /\ later \in Nat /\ days <= later
    BY <1>4, <1>5, <1>9, <1>16, <2>1, <2>2, NeedIs DEF Drivers
  <2>4. PICK r, l, i, o :
          /\ r = HalfUp(days * revenue * Quanta, 10 * DAYS_PER_YEAR)
          /\ l = HalfUp(later * revenue * Quanta, 10 * DAYS_PER_YEAR)
          /\ i = HalfUp(plan.inventory_days[1] * cogs * Quanta, 1000 * DAYS_PER_YEAR)
          /\ o = HalfUp(plan.payable_days[1] * cogs * Quanta, 1000 * DAYS_PER_YEAR)
    OBVIOUS
  <2>5. need = <<l + i - o>>
    BY <1>1, <1>4, <1>9, <1>16, <2>2, <2>4, NeedIs
  <2>6. Scenario(plan, NoSpec).need = <<r + i - o>>
    BY <1>5, <1>9, <1>16, <2>2, <2>4, NeedIs
  <2>7. /\ days * revenue \in Nat /\ later * revenue \in Nat
        /\ days * revenue <= later * revenue
    BY <2>3, ProductGrows
  <2>8. /\ days * revenue * Quanta \in Nat /\ later * revenue * Quanta \in Nat
        /\ days * revenue * Quanta <= later * revenue * Quanta
    BY <1>6, <2>7, ProductGrows
  <2>9. r <= l
    BY <2>4, <2>8, HalfUpGrows
  <2>10. /\ plan.inventory_days[1] * cogs * Quanta \in Int
         /\ plan.payable_days[1] * cogs * Quanta \in Int
    BY <1>6, <2>1, <2>3 DEF Drivers
  <2>11. days * revenue * Quanta \in Int /\ later * revenue * Quanta \in Int
    BY <2>8
  <2>12. r \in Int /\ l \in Int /\ i \in Int /\ o \in Int
    <3>1. /\ HalfUp(days * revenue * Quanta, 10 * DAYS_PER_YEAR) \in Int
          /\ HalfUp(later * revenue * Quanta, 10 * DAYS_PER_YEAR) \in Int
          /\ HalfUp(plan.inventory_days[1] * cogs * Quanta, 1000 * DAYS_PER_YEAR) \in Int
          /\ HalfUp(plan.payable_days[1] * cogs * Quanta, 1000 * DAYS_PER_YEAR) \in Int
      BY <1>8, <2>10, <2>11
    <3> QED
      BY <2>4, <3>1
  <2> QED
    BY <2>5, <2>6, <2>9, <2>12
<1> QED
  BY <1>1, <1>2, <1>9, <1>11, <1>14, <1>15, <1>16

(****************************************************************************)
(* A debt-service schedule, of any principal, rate and term. Openings are   *)
(* an arithmetic progression, so two that are as far from the ends add up   *)
(* to nothing negative, and rounding keeps order and sign: that is why the  *)
(* interest of all the rows is nothing negative either.                     *)
(****************************************************************************)
\* Rounding is off by half a unit at most.
LEMMA HalfUpRounds ==
  ASSUME NEW n \in Int, NEW d \in Nat \ {0}
  PROVE  /\ HalfUp(n, d) \in Int
         /\ 2 * d * HalfUp(n, d) <= 2 * n + d
         /\ 2 * n <= 2 * d * HalfUp(n, d) + d
         /\ n >= 0 => HalfUp(n, d) >= 0
BY DEF HalfUp, Abs

\* Rounding keeps the order and the sign.
LEMMA HalfUpOdd ==
  ASSUME NEW n \in Int
  PROVE  HalfUp(-n, 1200) = -HalfUp(n, 1200)
BY DEF HalfUp, Abs
LEMMA HalfUpKeepsOrder ==
  ASSUME NEW m \in Int, NEW n \in Int, m <= n
  PROVE  HalfUp(m, 1200) <= HalfUp(n, 1200)
BY DEF HalfUp, Abs

\* Two openings that do not owe together earn no more interest than they bear.
LEMMA InterestOfPair ==
  ASSUME NEW a \in Int, NEW b \in Int, a + b >= 0, NEW r \in Nat
  PROVE  /\ Interest(a, r) \in Int /\ Interest(b, r) \in Int
         /\ Interest(a, r) + Interest(b, r) >= 0
<1>1. a * r \in Int /\ b * r \in Int /\ -(a * r) <= b * r
  OBVIOUS
<1> DEFINE x == a * r
           y == b * r
           i == HalfUp(x, 1200)
           j == HalfUp(y, 1200)
<1>2. x \in Int /\ y \in Int /\ -x \in Int /\ -x <= y
  BY <1>1
<1> HIDE DEF x, y
<1>3. HalfUp(-x, 1200) = -i /\ HalfUp(-x, 1200) <= j /\ i \in Int /\ j \in Int
  BY <1>2, HalfUpOdd, HalfUpKeepsOrder, HalfUpRounds
<1>4. Interest(a, r) = i /\ Interest(b, r) = j
  BY DEF Interest, x, y
<1> HIDE DEF i, j
<1> QED
  BY <1>3, <1>4

LEMMA BalancesFacts ==
  ASSUME NEW P \in Nat, NEW T \in Nat \ {0}, NEW style
  PROVE  LET b == Balances(P, T, style) IN
         /\ b \in [0..T -> Int]
         /\ b[0] = P
         /\ \A n \in 1..T :
              b[n] = b[n - 1] - PrincipalPaid(style, b[n - 1], HalfUp(P, T), n = T)
<1> DEFINE i == HalfUp(P, T)
           g == [n \in 1..T |-> [x \in Int |-> x - PrincipalPaid(style, x, i, n = T)]]
           Q(f) == f = [n \in 0..T |-> IF n = 0 THEN P
                          ELSE f[n - 1] - PrincipalPaid(style, f[n - 1], i, n = T)]
           B == Balances(P, T, style)
<1>1. i \in Int
  BY HalfUpRounds
<1> HIDE DEF i
<1>2. \A x \in Int : \A n \in 1..T : x - PrincipalPaid(style, x, i, n = T) \in Int
  BY <1>1 DEF PrincipalPaid
<1>3. PICK f \in [0..T -> Int] : Iterates(f, g, P, T)
  <2> DEFINE V == Int
  <2>1. Maps(g, T, V)
    BY <1>2 DEF Maps
  <2>2. P \in V
    OBVIOUS
  <2> HIDE DEF g, V
  <2>3. \E f \in [0..T -> V] : Iterates(f, g, P, T)
    BY <2>1, <2>2, RecursionExists
  <2> QED
    BY <2>3 DEF V
<1>4. Q(f)
  <2>1. ASSUME NEW n \in 0..T, n # 0
        PROVE  f[n] = f[n - 1] - PrincipalPaid(style, f[n - 1], i, n = T)
    <3>1. n \in 1..T /\ f[n - 1] \in Int
      BY <2>1
    <3>2. f[n] = g[n][f[n - 1]]
      BY <1>3, <3>1 DEF Iterates
    <3> QED
      BY <3>1, <3>2
  <2> QED
    BY <1>3, <2>1 DEF Iterates
<1>5. B = CHOOSE h : Q(h)
  BY DEF Balances, i
<1>6. Q(B)
  <2> HIDE DEF Q, B
  <2> QED
    BY <1>4, <1>5, Zenon
<1> HIDE DEF B
<1>7. /\ B[0] = P /\ B = [n \in 0..T |-> B[n]]
      /\ \A n \in 1..T : B[n] = B[n - 1] - PrincipalPaid(style, B[n - 1], i, n = T)
  BY <1>6, SMTT(60)
<1>8. \A n \in 0..T : B[n] \in Int
  <2> DEFINE Fine == {n \in Nat : n <= T => B[n] \in Int}
  <2> HIDE DEF Q
  <2>1. 0 \in Fine
    BY <1>7
  <2>2. ASSUME NEW n \in Nat, n \in Fine PROVE n + 1 \in Fine
    <3> SUFFICES ASSUME n + 1 <= T PROVE B[n + 1] \in Int
      OBVIOUS
    <3>1. n + 1 \in 1..T /\ (n + 1) - 1 = n /\ B[n] \in Int
      BY <2>2
    <3>2. B[n + 1] = B[n] - PrincipalPaid(style, B[n], i, n + 1 = T)
      BY <1>7, <3>1
    <3>3. B[n] - PrincipalPaid(style, B[n], i, n + 1 = T) \in Int
      BY <1>2, <3>1
    <3> QED
      BY <3>2, <3>3
  <2>3. Nat \subseteq Fine
    <3> HIDE DEF Fine
    <3> QED
      BY <2>1, <2>2, SetInduction
  <2> QED
    BY <2>3
<1>9. B \in [0..T -> Int]
  <2> HIDE DEF Q
  <2> QED
    BY <1>7, <1>8
<1> QED
  BY <1>7, <1>9 DEF B, i

\* Before the last row the balance is the principal, or the principal less as many
\* instalments as there were rows.
LEMMA BalanceIs ==
  ASSUME NEW P \in Nat, NEW T \in Nat \ {0}, NEW style
  PROVE  LET b == Balances(P, T, style)
             i == IF style = "BALLOON" THEN 0 ELSE HalfUp(P, T) IN
         /\ i \in Nat /\ (i > 0 => 2 * T * i <= 2 * P + T)
         /\ b[T] = 0
         /\ \A n \in 0..(T - 1) : b[n] = P - n * i
<1> DEFINE b == Balances(P, T, style)
           i == IF style = "BALLOON" THEN 0 ELSE HalfUp(P, T)
<1>1. i \in Nat /\ (i > 0 => 2 * T * i <= 2 * P + T)
  BY HalfUpRounds
<1>2. /\ b \in [0..T -> Int] /\ b[0] = P
      /\ \A n \in 1..T :
           b[n] = b[n - 1] - PrincipalPaid(style, b[n - 1], HalfUp(P, T), n = T)
  BY BalancesFacts
<1>3. b[T] = 0
  <2>1. T \in 1..T /\ T - 1 \in 0..T
    OBVIOUS
  <2>2. b[T] = b[T - 1] - b[T - 1] /\ b[T - 1] \in Int
    BY <1>2, <2>1 DEF PrincipalPaid
  <2> HIDE DEF b
  <2> QED
    BY <2>2
<1> HIDE DEF b
<1>4. \A n \in 1..(T - 1) : b[n] = b[n - 1] - i
  BY <1>2 DEF PrincipalPaid
<1> HIDE DEF i
<1> DEFINE Fine == {n \in Nat : n <= T - 1 => b[n] = P - n * i}
<1>5. 0 \in Fine
  BY <1>1, <1>2
<1>6. ASSUME NEW n \in Nat, n \in Fine PROVE n + 1 \in Fine
  <2> SUFFICES ASSUME n + 1 <= T - 1 PROVE b[n + 1] = P - (n + 1) * i
    OBVIOUS
  <2>1. b[n] = P - n * i
    BY <1>6
  <2>2. n + 1 \in 1..(T - 1) /\ (n + 1) - 1 = n
    OBVIOUS
  <2>3. b[n + 1] = (P - n * i) - i
    BY <1>4, <2>1, <2>2
  <2>4. (P - n * i) - i = P - (n + 1) * i
    BY <1>1
  <2> QED
    BY <2>3, <2>4
<1>7. Nat \subseteq Fine
  <2> HIDE DEF Fine
  <2> QED
    BY <1>5, <1>6, SetInduction
<1>8. \A n \in 0..(T - 1) : b[n] = P - n * i
  BY <1>7
<1> QED
  BY <1>1, <1>3, <1>8 DEF b, i

\* Openings that are as far from the two ends do not owe together.
LEMMA OpeningsPair ==
  ASSUME NEW P \in Nat, NEW T \in Nat \ {0}, NEW style, NEW n \in 1..T
  PROVE  LET b == Balances(P, T, style) IN
         /\ b[n - 1] \in Int /\ b[T - n] \in Int
         /\ b[n - 1] + b[T - n] >= 0
<1> DEFINE b == Balances(P, T, style)
           i == IF style = "BALLOON" THEN 0 ELSE HalfUp(P, T)
<1>1. /\ i \in Nat /\ (i > 0 => 2 * T * i <= 2 * P + T)
      /\ \A k \in 0..(T - 1) : b[k] = P - k * i
  BY BalanceIs
<1> HIDE DEF b, i
<1>2. b[n - 1] = P - (n - 1) * i /\ b[T - n] = P - (T - n) * i
  <2>1. n - 1 \in 0..(T - 1) /\ T - n \in 0..(T - 1)
    OBVIOUS
  <2> QED
    BY <1>1, <2>1
<1>3. b[n - 1] \in Int /\ b[T - n] \in Int
  BY <1>1, <1>2
<1>4. (P - (n - 1) * i) + (P - (T - n) * i) = 2 * P - (T - 1) * i
  BY <1>1
<1>5. 2 * P - (T - 1) * i >= 0
  <2>1. CASE i = 0
    BY <2>1
  <2>2. CASE i > 0
    <3> DEFINE t == T * i
    <3>1. t \in Nat /\ t >= T /\ 2 * t <= 2 * P + T /\ (T - 1) * i = t - i
      BY <1>1, <2>2
    <3> HIDE DEF t
    <3> QED
      BY <1>1, <2>2, <3>1
  <2> QED
    BY <1>1, <2>1, <2>2
<1> QED
  BY <1>2, <1>3, <1>4, <1>5 DEF b

\* What balances past zero earn back is no more than what was due before.
LEMMA InterestNotNegative ==
  ASSUME NEW P \in Nat, NEW T \in Nat \ {0}, NEW style, NEW rate \in Nat
  PROVE  SumFunctionOnSet(InterestDue(Balances(P, T, style), rate, T), 1..T) \in Nat
<1> DEFINE b == Balances(P, T, style)
           due == InterestDue(b, rate, T)
           back == [n \in 1..T |-> due[T + 1 - n]]
           both == [n \in 1..T |-> due[n] + back[n]]
<1>1. ASSUME NEW n \in 1..T
      PROVE  due[n] \in Int /\ back[n] \in Int /\ due[n] + back[n] >= 0
  <2>1. b[n - 1] \in Int /\ b[T - n] \in Int /\ b[n - 1] + b[T - n] >= 0
    BY OpeningsPair
  <2>2. T + 1 - n \in 1..T /\ T + 1 - n - 1 = T - n
    OBVIOUS
  <2>3. due[n] = Interest(b[n - 1], rate) /\ back[n] = Interest(b[T - n], rate)
    BY <2>2 DEF InterestDue
  <2> HIDE DEF b, due, back
  <2> QED
    BY <2>1, <2>3, InterestOfPair
<1> HIDE DEF b, due
<1>2. IsFiniteSet(1..T)
  BY FS_Interval
<1>3. SumFunctionOnSet(back, 1..T) = SumFunctionOnSet(due, 1..T)
  BY <1>1, SumFromEnd
<1>4. SumFunctionOnSet(both, 1..T) = SumFunctionOnSet(due, 1..T) + SumFunctionOnSet(back, 1..T)
  <2> HIDE DEF back
  <2> QED
    BY <1>1, <1>2, SumOfSums
<1>5. \A n \in 1..T : both[n] \in Nat
  <2> SUFFICES ASSUME NEW n \in 1..T PROVE due[n] + back[n] \in Nat
    OBVIOUS
  <2> HIDE DEF back
  <2> QED
    BY <1>1
<1> HIDE DEF back, both
<1>6. SumFunctionOnSet(both, 1..T) \in Nat
  BY <1>2, <1>5, SumNotNegative
<1>7. SumFunctionOnSet(due, 1..T) \in Int
  BY <1>1, <1>2, SumType
<1> DEFINE a == SumFunctionOnSet(due, 1..T)
           c == SumFunctionOnSet(both, 1..T)
<1>8. a \in Int /\ c \in Nat /\ c = a + a
  BY <1>3, <1>4, <1>6, <1>7
<1> HIDE DEF a, c
<1>9. a \in Nat
  BY <1>8
<1> QED
  BY <1>9 DEF a, due, b

\* The coverage of a cash flow that misses the service by one, meets it, or exceeds it
\* by one.
LEMMA CoverageAgrees ==
  ASSUME NEW service \in Nat, NEW c \in (service - 1)..(service + 1),
         Known(Coverage(<<c>>, <<service>>))
  PROVE  /\ Coverage(<<c>>, <<service>>)[1] < Quanta => Shortfall(<<c>>, <<service>>)
         /\ Shortfall(<<c>>, <<service>>) => Coverage(<<c>>, <<service>>)[1] <= Quanta
<1>1. service > 0 /\ Coverage(<<c>>, <<service>>) = <<HalfUp(c * Quanta, service)>>
  BY DEF Known, Coverage, AllKnown
<1>2. Shortfall(<<c>>, <<service>>) <=> c < service
  BY DEF Shortfall
<1>3. Quanta \in Nat \ {0} /\ c \in Nat
  BY <1>1, ScenariosAssumption
<1> DEFINE q == HalfUp(c * Quanta, service)
<1>4. /\ q \in Int /\ 2 * service * q <= 2 * (c * Quanta) + service
      /\ 2 * (c * Quanta) <= 2 * service * q + service
  <2>1. c * Quanta \in Int /\ service \in Nat \ {0}
    BY <1>1, <1>3
  <2> QED
    BY <2>1, HalfUpRounds
<1> HIDE DEF q
<1>5. ASSUME c >= service PROVE q >= Quanta
  <2>1. service * Quanta <= c * Quanta
    BY <1>3, <1>5
  <2>2. 2 * (service * Quanta) <= 2 * service * q + service
    BY <1>3, <1>4, <2>1
  <2>3. SUFFICES ASSUME q <= Quanta - 1 PROVE FALSE
    BY <1>3, <1>4
  <2>4. service * q <= service * (Quanta - 1)
    BY <1>3, <1>4, <2>3
  <2>5. service * (Quanta - 1) = service * Quanta - service
    BY <1>3
  <2> QED
    BY <1>1, <1>3, <1>4, <2>2, <2>4, <2>5
<1>6. ASSUME c < service PROVE q <= Quanta
  <2>1. c * Quanta <= service * Quanta
    BY <1>3, <1>6
  <2>2. 2 * service * q <= 2 * (service * Quanta) + service
    BY <1>3, <1>4, <2>1
  <2>3. SUFFICES ASSUME q >= Quanta + 1 PROVE FALSE
    BY <1>3, <1>4
  <2>4. service * q >= service * (Quanta + 1)
    BY <1>3, <1>4, <2>3
  <2>5. service * (Quanta + 1) = service * Quanta + service
    BY <1>3
  <2> QED
    BY <1>1, <1>3, <1>4, <2>2, <2>4, <2>5
<1> QED
  BY <1>1, <1>2, <1>3, <1>4, <1>5, <1>6 DEF q

LEMMA ScheduleFollows == SheetTypeOK => ScheduleReconciles
<1> SUFFICES ASSUME SheetTypeOK PROVE ScheduleReconciles
  OBVIOUS
<1> DEFINE P == terms.principal
           T == terms.term
           b == Balances(P, T, terms.style)
           paid == SumFunctionOnSet(Paid(b, T), 1..T)
           due == SumFunctionOnSet(InterestDue(b, terms.rate, T), 1..T)
           service == DebtService(P, terms.rate, T, terms.style)
<1>1. P \in Nat /\ T \in Nat \ {0} /\ terms.rate \in Nat
  <2>1. /\ P \in Principals \cup {0} /\ T \in Terms \cup {1}
        /\ terms.rate \in Rates \cup {0}
    BY DEF SheetTypeOK
  <2>2. /\ \A x \in Principals \cup {0} : x \in Nat
        /\ \A x \in Rates \cup {0} : x \in Nat
        /\ \A x \in Terms \cup {1} : x \in Nat \ {0}
    BY TermsAssumption
  <2> HIDE DEF P, T
  <2> QED
    BY <2>1, <2>2
<1> HIDE DEF P, T
<1>2. b \in [0..T -> Int] /\ b[0] = P
  BY <1>1, BalancesFacts
<1>3. b[T] = 0
  BY <1>1, BalanceIs
<1>4. due \in Nat
  BY <1>1, InterestNotNegative
<1>5. ASSUME NEW n \in 1..T PROVE 2 * b[n] >= -T
  <2> DEFINE i == IF terms.style = "BALLOON" THEN 0 ELSE HalfUp(P, T)
  <2>1. /\ i \in Nat /\ (i > 0 => 2 * T * i <= 2 * P + T)
        /\ \A k \in 0..(T - 1) : b[k] = P - k * i
    BY <1>1, BalanceIs, ZenonT(60)
  <2> HIDE DEF i, b
  <2>2. CASE n = T
    BY <1>1, <1>3, <2>2
  <2>3. CASE n # T
    <3>1. b[n] = P - n * i
      BY <1>1, <2>1, <2>3
    <3>2. n * i <= T * i /\ n * i \in Nat /\ T * i \in Nat
      BY <1>1, <2>1
    <3>3. i = 0 => n * i = 0
      BY <1>1
    <3> DEFINE x == n * i  t == T * i
    <3>4. /\ x \in Nat /\ t \in Nat /\ x <= t /\ b[n] = P - x
          /\ i > 0 => 2 * t <= 2 * P + T
          /\ i = 0 => x = 0
      BY <1>1, <2>1, <3>1, <3>2, <3>3
    <3> HIDE DEF x, t
    <3> QED
      BY <1>1, <2>1, <3>4
  <2> QED
    BY <2>2, <2>3
<1>6. paid = P
  <2> DEFINE d == Paid(b, T)
  <2>1. \A n \in 0..T : b[n] \in Int
    BY <1>2
  <2>2. \A n \in 1..T : d[n] = b[n - 1] - b[n]
    BY DEF Paid
  <2> HIDE DEF b, d
  <2>3. SumFunctionOnSet(d, 1..T) = b[0] - b[T]
    BY <1>1, <2>1, <2>2, SumTelescopes
  <2>4. SumFunctionOnSet(d, 1..T) = P
    BY <1>1, <1>2, <1>3, <2>3
  <2> QED
    BY <2>4 DEF d
<1>7. service = paid + due
  BY DEF DebtService
<1> HIDE DEF b, paid, due
<1>8. service \in Nat /\ service >= P
  <2> HIDE DEF service
  <2> QED
    BY <1>1, <1>4, <1>6, <1>7
<1> HIDE DEF service
<1>9. \A c \in (service - 1)..(service + 1) :
        Known(Coverage(<<c>>, <<service>>)) =>
          /\ Coverage(<<c>>, <<service>>)[1] < Quanta => Shortfall(<<c>>, <<service>>)
          /\ Shortfall(<<c>>, <<service>>) => Coverage(<<c>>, <<service>>)[1] <= Quanta
  BY <1>8, CoverageAgrees
<1> QED
  BY <1>3, <1>5, <1>6, <1>8, <1>9
     DEF ScheduleReconciles, P, T, b, paid, due, service
--------------------------------------------------------------------------------
(****************************************************************************)
(* Retrieval: what is ranked is put in a strict total order, so that it has *)
(* one sequence; what is packed is a beginning of what is still there of    *)
(* it, so that each passage ranked is a hit or excluded, and for one reason.*)
(****************************************************************************)
\* What both searches found, and the order in which it is ranked, of any two rankings.
AllOf(l, v) == Among(l) \cup Among(v)
BeforeIn(l, v, p, q) ==
  LET best(x) ==
        IF Position(l, x) < Position(v, x) THEN Position(l, x) ELSE Position(v, x)
      seen(x) ==
        IF x \in Among(l) THEN Position(l, x) ELSE Len(l) + Position(v, x) IN
  best(p) < best(q) \/ (best(p) = best(q) /\ seen(p) < seen(q))
InOrderIn(l, v, S) ==
  CHOOSE s \in Rankings(S) :
    Len(s) = Cardinality(S) /\ \A i, j \in DOMAIN s : i < j => BeforeIn(l, v, s[i], s[j])

LEMMA OrderIs ==
  /\ \A S : InOrder(S) = InOrderIn(run.lexical, run.vector, S)
  /\ MergedRanking = InOrderIn(run.lexical, run.vector, AllOf(run.lexical, run.vector))
  BY DEF InOrder, InOrderIn, Before, BeforeIn, MergedRanking, AllOf

\* A ranking names a passage once.
Ranking(s, S) == s \in Seq(S) /\ \A i, j \in 1..Len(s) : s[i] = s[j] => i = j

LEMMA PositionFacts ==
  ASSUME NEW s, Ranking(s, Passages)
  PROVE  /\ Len(s) \in Nat /\ DOMAIN s = 1..Len(s)
         /\ Among(s) \subseteq Passages
         /\ \A i \in 1..Len(s) : s[i] \in Among(s) /\ Position(s, s[i]) = i
         /\ \A p \in Among(s) : Position(s, p) \in 1..Len(s) /\ s[Position(s, p)] = p
         /\ \A p : Position(s, p) \in Nat
<1>1. Len(s) \in Nat /\ DOMAIN s = 1..Len(s) /\ s \in [1..Len(s) -> Passages]
  BY DEF Ranking
<1>2. Among(s) \subseteq Passages
  BY <1>1 DEF Among
<1>3. \A i \in 1..Len(s) : s[i] \in Among(s)
  BY <1>1 DEF Among
<1>4. ASSUME NEW p \in Among(s) PROVE Position(s, p) \in 1..Len(s) /\ s[Position(s, p)] = p
  <2>1. \E i \in 1..Len(s) : s[i] = p
    BY <1>1 DEF Among
  <2>2. Position(s, p) = CHOOSE i \in 1..Len(s) : s[i] = p
    BY <1>1 DEF Position
  <2> QED
    BY <2>1, <2>2
<1>5. \A i \in 1..Len(s) : Position(s, s[i]) = i
  BY <1>3, <1>4 DEF Ranking
<1>6. Never \in Nat
  BY RetrievalAssumption, FS_CardinalityType DEF Never
<1>7. ASSUME NEW p PROVE Position(s, p) \in Nat
  <2>1. CASE p \in Among(s)
    BY <1>1, <1>4, <2>1
  <2>2. CASE p \notin Among(s)
    BY <1>6, <2>2 DEF Position
  <2> QED
    BY <2>1, <2>2
<1> QED
  BY <1>1, <1>2, <1>3, <1>4, <1>5, <1>7

\* The ranking of both searches is a strict total order of what they found.
LEMMA BeforeOrders ==
  ASSUME NEW l, NEW v, Ranking(l, Passages), Ranking(v, Passages),
         NEW S \in SUBSET AllOf(l, v)
  PROVE  Orders({x \in S \X S : BeforeIn(l, v, x[1], x[2])}, S)
<1> DEFINE best(x) ==
             IF Position(l, x) < Position(v, x) THEN Position(l, x) ELSE Position(v, x)
           seen(x) ==
             IF x \in Among(l) THEN Position(l, x) ELSE Len(l) + Position(v, x)
           R == {x \in S \X S : BeforeIn(l, v, x[1], x[2])}
<1>1. ASSUME NEW p \in S PROVE best(p) \in Int /\ seen(p) \in Int
  BY PositionFacts
<1>2. ASSUME NEW p \in S, NEW q \in S
      PROVE  <<p, q>> \in R <=> best(p) < best(q) \/ (best(p) = best(q) /\ seen(p) < seen(q))
  BY DEF BeforeIn
<1>3. ASSUME NEW p \in S, NEW q \in S, p # q PROVE seen(p) # seen(q)
  <2>1. CASE p \in Among(l) /\ q \in Among(l)
    BY <1>3, <2>1, PositionFacts
  <2>2. CASE p \notin Among(l) /\ q \notin Among(l)
    <3>1. p \in Among(v) /\ q \in Among(v)
      BY <2>2 DEF AllOf
    <3>2. Position(v, p) # Position(v, q)
      BY <1>3, <3>1, PositionFacts
    <3> QED
      BY <2>2, <3>2, PositionFacts
  <2>3. ASSUME NEW x \in S, NEW y \in S, x \in Among(l), y \notin Among(l)
        PROVE  seen(x) < seen(y)
    <3>1. y \in Among(v)
      BY <2>3 DEF AllOf
    <3>2. Position(l, x) \in 1..Len(l) /\ Position(v, y) \in 1..Len(v)
      BY <2>3, <3>1, PositionFacts
    <3> QED
      BY <2>3, <3>2, PositionFacts
  <2> QED
    BY <1>1, <2>1, <2>2, <2>3
<1> HIDE DEF best, seen, R
<1>4. \A x \in S : <<x, x>> \notin R
  BY <1>1, <1>2
<1>5. ASSUME NEW x \in S, NEW y \in S, NEW z \in S, <<x, y>> \in R, <<y, z>> \in R
      PROVE  <<x, z>> \in R
  BY <1>1, <1>2, <1>5
<1>6. \A x, y \in S : x # y => <<x, y>> \in R \/ <<y, x>> \in R
  BY <1>1, <1>2, <1>3
<1>7. Orders(R, S)
  BY <1>4, <1>5, <1>6 DEF Orders
<1> QED
  BY <1>7 DEF R

LEMMA InOrderFacts ==
  ASSUME NEW l, NEW v, Ranking(l, Passages), Ranking(v, Passages),
         NEW S \in SUBSET AllOf(l, v), NEW s, s = InOrderIn(l, v, S)
  PROVE  /\ IsFiniteSet(S) /\ S \subseteq Passages
         /\ Ranking(s, Passages) /\ Among(s) = S
         /\ Len(s) = Cardinality(S)
         /\ \A i, j \in 1..Len(s) : i < j => BeforeIn(l, v, s[i], s[j])
<1> DEFINE N == Cardinality(S)
           R == {x \in S \X S : BeforeIn(l, v, x[1], x[2])}
<1>1. S \subseteq Passages /\ IsFiniteSet(S)
  <2>1. S \in SUBSET Passages
    BY PositionFacts DEF AllOf
  <2> QED
    BY <2>1, RetrievalAssumption, FS_Subset
<1>2. N \in Nat
  BY <1>1, FS_CardinalityType
<1>3. Orders(R, S)
  BY BeforeOrders
<1> HIDE DEF N
<1>4. PICK t \in [1..N -> S] : \A i, j \in 1..N : i < j => <<t[i], t[j]>> \in R
  BY <1>1, <1>3, SequenceOfSet DEF N
<1>5. ASSUME NEW u \in [1..N -> S], \A i, j \in 1..N : i < j => <<u[i], u[j]>> \in R
      PROVE  /\ \A i, j \in 1..N : u[i] = u[j] => i = j
             /\ {u[i] : i \in 1..N} = S
  <2>1. ASSUME NEW i \in 1..N, NEW j \in 1..N, u[i] = u[j], i # j PROVE FALSE
    <3>1. i < j \/ j < i
      BY <1>2, <2>1
    <3>2. u[i] \in S /\ <<u[i], u[i]>> \in R
      BY <1>5, <2>1, <3>1
    <3> QED
      BY <1>3, <3>2 DEF Orders
  <2>2. u \in Injection(1..N, S)
    BY <2>1 DEF Injection, IsInjective
  <2>3. IsFiniteSet(1..N) /\ Cardinality(1..N) = N
    BY <1>2, FS_Interval
  <2>4. u \in Surjection(1..N, S)
    BY <1>1, <2>2, <2>3, FS_Injection DEF N
  <2> QED
    BY <2>1, <2>4 DEF Surjection
<1>6. t \in Seq(S) /\ Len(t) = N /\ DOMAIN t = 1..N
  BY <1>2, <1>4
<1> DEFINE Fine(u) == /\ Len(u) = N
                      /\ \A i, j \in DOMAIN u : i < j => BeforeIn(l, v, u[i], u[j])
<1>7. t \in Rankings(S)
  BY <1>2, <1>4, <1>5 DEF Rankings, N
<1>8. Fine(t)
  BY <1>4, <1>6
<1>9. s = CHOOSE u \in Rankings(S) : Fine(u)
  BY DEF InOrderIn, N
<1> HIDE DEF Fine
<1>10. s \in Rankings(S) /\ Fine(s)
  BY <1>7, <1>8, <1>9
<1>11. PICK n \in 0..N : s \in [1..n -> S] /\ \A i, j \in 1..n : s[i] = s[j] => i = j
  BY <1>10 DEF Rankings, N
<1>12. n = N
  BY <1>2, <1>10, <1>11 DEF Fine
<1>13. \A i, j \in 1..N : i < j => <<s[i], s[j]>> \in R
  BY <1>10, <1>11, <1>12 DEF Fine
<1>14. s \in Seq(S) /\ Len(s) = N /\ DOMAIN s = 1..N
  BY <1>2, <1>11, <1>12
<1>15. Among(s) = S
  <2>1. s \in [1..N -> S]
    BY <1>11, <1>12
  <2>2. {s[i] : i \in 1..N} = S
    BY <1>5, <1>13, <2>1
  <2> QED
    BY <1>14, <2>2 DEF Among
<1>16. Ranking(s, Passages)
  BY <1>1, <1>11, <1>12, <1>14 DEF Ranking
<1> QED
  BY <1>1, <1>10, <1>14, <1>15, <1>16 DEF Fine, N

\* Who comes first in a ranking stands first in it.
LEMMA PositionOrders ==
  ASSUME NEW l, NEW v, Ranking(l, Passages), Ranking(v, Passages),
         NEW S \in SUBSET AllOf(l, v), NEW s, s = InOrderIn(l, v, S),
         NEW p \in S, NEW q \in S
  PROVE  BeforeIn(l, v, p, q) <=> Position(s, p) < Position(s, q)
<1> DEFINE i == Position(s, p)
           j == Position(s, q)
           R == {x \in S \X S : BeforeIn(l, v, x[1], x[2])}
<1>1. /\ Ranking(s, Passages) /\ Among(s) = S
      /\ \A a, b \in 1..Len(s) : a < b => BeforeIn(l, v, s[a], s[b])
  BY InOrderFacts
<1>2. /\ Len(s) \in Nat /\ i \in 1..Len(s) /\ j \in 1..Len(s) /\ s[i] = p /\ s[j] = q
  BY <1>1, PositionFacts
<1>3. Orders(R, S)
  BY BeforeOrders
<1> HIDE DEF i, j
<1>4. i < j => <<p, q>> \in R
  BY <1>1, <1>2
<1>5. j < i => <<q, p>> \in R
  BY <1>1, <1>2
<1>6. i = j => p = q
  BY <1>2
<1>7. <<p, q>> \in R => i < j
  <2>1. ~(<<p, q>> \in R /\ <<q, p>> \in R)
    BY <1>3 DEF Orders
  <2>2. p = q => <<p, q>> \notin R
    BY <1>3 DEF Orders
  <2> QED
    BY <1>2, <1>5, <1>6, <2>1, <2>2
<1> QED
  BY <1>4, <1>7 DEF i, j

LEMMA TokensFacts ==
  ASSUME NEW s \in Seq(Passages), NEW k \in 0..Len(s)
  PROVE  /\ Tokens(s, k) \in Nat
         /\ Tokens(s, 0) = 0
         /\ k < Len(s) => Tokens(s, k + 1) = Tokens(s, k) + s[k + 1].cost
<1> DEFINE c == [i \in 1..k |-> s[i].cost]
           d == [i \in 1..(k + 1) |-> s[i].cost]
<1>1. \A i \in 1..Len(s) : s[i] \in Passages /\ s[i].cost \in Nat
  BY RetrievalAssumption
<1>2. IsFiniteSet(1..k)
  BY FS_Interval
<1>3. \A i \in 1..k : c[i] \in Nat
  BY <1>1
<1>4. Tokens(s, k) = SumFunctionOnSet(c, 1..k)
  BY DEF Tokens
<1>5. Tokens(s, k) \in Nat
  BY <1>2, <1>3, <1>4, SumNotNegative
<1>6. Tokens(s, 0) = 0
  <2>1. 1..0 = {}
    OBVIOUS
  <2> QED
    BY <2>1, SumOfNone DEF Tokens
<1>7. ASSUME k < Len(s) PROVE Tokens(s, k + 1) = Tokens(s, k) + s[k + 1].cost
  <2>1. Tokens(s, k + 1) = SumFunctionOnSet(d, 1..(k + 1))
    BY DEF Tokens
  <2>2. 1..(k + 1) = (1..k) \cup {k + 1} /\ k + 1 \notin 1..k
    OBVIOUS
  <2>3. \A i \in 1..(k + 1) : d[i] \in Int
    BY <1>1, <1>7
  <2>4. d[k + 1] = s[k + 1].cost /\ \A i \in 1..k : d[i] = c[i] /\ c[i] \in Int
    BY <1>3
  <2> HIDE DEF c, d
  <2>5. SumFunctionOnSet(d, (1..k) \cup {k + 1}) = SumFunctionOnSet(d, 1..k) + d[k + 1]
    BY <1>2, <2>2, <2>3, SumAddOne
  <2>6. SumFunctionOnSet(c, 1..k) = SumFunctionOnSet(d, 1..k)
    BY <1>2, <2>4, SumSame
  <2> QED
    BY <1>4, <2>1, <2>2, <2>4, <2>5, <2>6
<1> QED
  BY <1>5, <1>6, <1>7

\* What is packed is a beginning that fits, and one passage more would not.
LEMMA PackedFacts ==
  ASSUME NEW s \in Seq(Passages), NEW budget \in Nat
  PROVE  \E k \in 0..Len(s) :
           /\ Packed(s, budget) = SubSeq(s, 1, k)
           /\ Tokens(s, k) <= budget
           /\ k = Len(s) \/ Tokens(s, k + 1) > budget
<1> DEFINE Fits(k) == Tokens(s, k) <= budget /\ (k = Len(s) \/ Tokens(s, k + 1) > budget)
           All == {k \in Nat : k <= Len(s) => Tokens(s, k) <= budget}
<1>1. Len(s) \in Nat
  OBVIOUS
<1>2. \E k \in 0..Len(s) : Fits(k)
  <2> SUFFICES ASSUME \A k \in 0..Len(s) : ~Fits(k) PROVE FALSE
    OBVIOUS
  <2>1. 0 \in All
    BY <1>1, TokensFacts
  <2>2. ASSUME NEW n \in Nat, n \in All PROVE n + 1 \in All
    <3> SUFFICES ASSUME n + 1 <= Len(s) PROVE Tokens(s, n + 1) <= budget
      OBVIOUS
    <3>1. n \in 0..Len(s) /\ n + 1 \in 0..Len(s) /\ n # Len(s) /\ Tokens(s, n) <= budget
      BY <1>1, <2>2
    <3>2. Tokens(s, n + 1) \in Nat
      BY <3>1, TokensFacts
    <3> QED
      BY <3>1, <3>2
  <2> HIDE DEF All
  <2>3. Nat \subseteq All
    BY <2>1, <2>2, SetInduction
  <2>4. Tokens(s, Len(s)) <= budget
    BY <1>1, <2>3 DEF All
  <2> QED
    BY <1>1, <2>4
<1> DEFINE k == CHOOSE n \in 0..Len(s) : Fits(n)
<1>3. Packed(s, budget) = SubSeq(s, 1, k)
  BY DEF Packed
<1> HIDE DEF Fits
<1>4. k \in 0..Len(s) /\ Fits(k)
  BY <1>2
<1> QED
  BY <1>3, <1>4 DEF Fits

\* h has the first k passages of s.
Begins(h, s, k) ==
  /\ Ranking(h, Passages) /\ Len(h) = k
  /\ Among(h) = {s[i] : i \in 1..k}
  /\ Among(h) \subseteq Among(s)
  /\ Tokens(h, k) = Tokens(s, k)

LEMMA BeginningFacts ==
  ASSUME NEW s, Ranking(s, Passages), NEW k \in 0..Len(s)
  PROVE  Begins(SubSeq(s, 1, k), s, k)
<1> DEFINE h == SubSeq(s, 1, k)
<1>1. s \in Seq(Passages) /\ Len(s) \in Nat
  BY DEF Ranking
<1>2. h \in Seq(Passages) /\ Len(h) = k /\ \A i \in 1..k : h[i] = s[i]
  BY <1>1
<1>3. DOMAIN h = 1..k
  BY <1>2
<1>4. Among(h) = {s[i] : i \in 1..k}
  BY <1>2, <1>3 DEF Among
<1>5. Among(h) \subseteq Among(s)
  BY <1>1, <1>4 DEF Among
<1>6. Ranking(h, Passages)
  BY <1>1, <1>2 DEF Ranking
<1>7. [i \in 1..k |-> h[i].cost] = [i \in 1..k |-> s[i].cost]
  BY <1>2
<1>8. Tokens(h, k) = Tokens(s, k)
  BY <1>7 DEF Tokens
<1> QED
  BY <1>2, <1>4, <1>5, <1>6, <1>8 DEF Begins

\* AnswerAccounted, as far as it speaks of what was ranked, packed and excluded.
Accounted(l, v, hits, excluded, budget) ==
  LET merged == InOrderIn(l, v, AllOf(l, v))
      top(k) == {p \in Among(merged) : Position(l, p) <= k \/ Position(v, p) <= k}
      out == {x \in excluded : x[2] = "OUT_OF_BUDGET"} IN
  /\ \A k \in 1..LegLimit :
       \A p \in top(k) : \A q \in Among(merged) \ top(k) : Position(merged, p) < Position(merged, q)
  /\ Among(hits) \cup {x[1] : x \in excluded} = Among(merged)
  /\ Len(hits) + Cardinality(excluded) = Len(merged)
  /\ Tokens(hits, Len(hits)) <= budget
  /\ \A x \in out, p \in Among(hits) : Position(merged, p) < Position(merged, x[1])
  /\ out # {} => \E x \in out : Tokens(hits, Len(hits)) + x[1].cost > budget

\* Neither search starves the other.
LEMMA TopsFirst ==
  ASSUME NEW l, NEW v, Ranking(l, Passages), Ranking(v, Passages),
         NEW m, m = InOrderIn(l, v, AllOf(l, v)), NEW k \in Nat,
         NEW p \in AllOf(l, v), Position(l, p) <= k \/ Position(v, p) <= k,
         NEW q \in AllOf(l, v), ~(Position(l, q) <= k \/ Position(v, q) <= k)
  PROVE  Position(m, p) < Position(m, q)
<1>1. /\ Position(l, p) \in Nat /\ Position(v, p) \in Nat
      /\ Position(l, q) \in Nat /\ Position(v, q) \in Nat
  BY PositionFacts
<1>2. BeforeIn(l, v, p, q)
  BY <1>1 DEF BeforeIn
<1> QED
  BY <1>2, PositionOrders

LEMMA PackingAccounts ==
  ASSUME NEW l, NEW v, Ranking(l, Passages), Ranking(v, Passages),
         NEW fresh \in SUBSET AllOf(l, v), NEW s, s = InOrderIn(l, v, fresh),
         NEW budget \in Nat, NEW hits, hits = Packed(s, budget),
         NEW excluded,
         excluded = {<<p, "STALE">> : p \in AllOf(l, v) \ fresh}
                      \cup {<<p, "OUT_OF_BUDGET">> : p \in Among(s) \ Among(hits)}
  PROVE  /\ Ranking(hits, Passages) /\ Among(hits) \subseteq fresh
         /\ Accounted(l, v, hits, excluded, budget)
<1> DEFINE all == AllOf(l, v)
           m == InOrderIn(l, v, all)
           H == Among(hits)
           out == {x \in excluded : x[2] = "OUT_OF_BUDGET"}
<1>1. /\ Ranking(m, Passages) /\ Among(m) = all /\ Len(m) = Cardinality(all)
      /\ IsFiniteSet(all) /\ all \subseteq Passages
  BY InOrderFacts
<1>2. /\ Ranking(s, Passages) /\ Among(s) = fresh
      /\ \A i, j \in 1..Len(s) : i < j => BeforeIn(l, v, s[i], s[j])
  BY InOrderFacts
<1>3. s \in Seq(Passages) /\ Len(s) \in Nat /\ \A i \in 1..Len(s) : s[i] \in fresh
  BY <1>2, PositionFacts DEF Ranking
<1>4. PICK k \in 0..Len(s) :
        /\ hits = SubSeq(s, 1, k) /\ Tokens(s, k) <= budget
        /\ k = Len(s) \/ Tokens(s, k + 1) > budget
  BY <1>3, PackedFacts
<1>5. /\ Ranking(hits, Passages) /\ Len(hits) = k /\ H = {s[i] : i \in 1..k}
      /\ H \subseteq fresh /\ Tokens(hits, k) = Tokens(s, k)
  <2>1. Begins(hits, s, k)
    BY <1>2, <1>4, BeginningFacts
  <2> QED
    BY <1>2, <2>1 DEF Begins
<1>6. out = {<<p, "OUT_OF_BUDGET">> : p \in fresh \ H}
  BY <1>2
<1>7. ASSUME NEW p \in fresh \ H
      PROVE  \E j \in (k + 1)..Len(s) : s[j] = p
  <2>1. \E j \in 1..Len(s) : s[j] = p
    BY <1>2, PositionFacts
  <2> QED
    BY <1>3, <1>5, <2>1
<1> DEFINE rest == all \ H
           f == [p \in rest |-> IF p \in fresh THEN <<p, "OUT_OF_BUDGET">> ELSE <<p, "STALE">>]
<1>8. f \in Bijection(rest, excluded) /\ \A p \in rest : f[p][1] = p
  <2>1. excluded = {<<p, "STALE">> : p \in all \ fresh}
                     \cup {<<p, "OUT_OF_BUDGET">> : p \in fresh \ H}
    BY <1>2
  <2>2. \A p \in rest : f[p] \in excluded /\ f[p][1] = p
    BY <2>1
  <2>3. \A x \in excluded : \E p \in rest : f[p] = x
    BY <1>5, <2>1
  <2>4. f \in [rest -> excluded] /\ IsInjective(f)
    BY <2>2 DEF IsInjective
  <2> HIDE DEF f
  <2> QED
    BY <2>2, <2>3, <2>4 DEF Bijection, Injection, Surjection
<1>9. /\ H \cup {x[1] : x \in excluded} = all
      /\ Len(hits) + Cardinality(excluded) = Len(m)
  <2>1. {x[1] : x \in excluded} = rest
    <3>1. f \in [rest -> excluded] /\ \A x \in excluded : \E p \in rest : f[p] = x
      BY <1>8 DEF Bijection, Surjection
    <3> HIDE DEF f, rest
    <3> QED
      BY <1>8, <3>1
  <2>2. H \subseteq all
    BY <1>5
  <2>3. IsFiniteSet(rest) /\ Cardinality(rest) = Cardinality(all) - Cardinality(all \cap H)
    BY <1>1, FS_Difference
  <2>4. Cardinality(excluded) = Cardinality(rest)
    BY <1>8, <2>3, FS_Bijection DEF ExistsBijection
  <2>5. all \cap H = H
    BY <2>2
  <2>6. Cardinality(H) = k
    <3> DEFINE g == [i \in 1..k |-> s[i]]
    <3>1. g \in [1..k -> H] /\ \A x \in H : \E i \in 1..k : g[i] = x
      BY <1>5
    <3>2. IsInjective(g)
      BY <1>2, <1>3 DEF IsInjective, Ranking
    <3> HIDE DEF g
    <3>3. g \in Bijection(1..k, H)
      BY <3>1, <3>2 DEF Bijection, Injection, Surjection
    <3>4. IsFiniteSet(1..k) /\ Cardinality(1..k) = k
      BY FS_Interval
    <3> QED
      BY <3>3, <3>4, FS_Bijection DEF ExistsBijection
  <2>7. Cardinality(all) \in Nat
    BY <1>1, FS_CardinalityType
  <2>8. Len(hits) = k /\ Len(m) = Cardinality(all)
    BY <1>1, <1>5
  <2>9. H \cup rest = all
    BY <2>2
  <2> HIDE DEF all, H, rest, m
  <2>10. H \cup {x[1] : x \in excluded} = all
    BY <2>1, <2>9
  <2>11. Len(hits) + Cardinality(excluded) = Len(m)
    <3> DEFINE a == Cardinality(all)
               e == Cardinality(excluded)
    <3>1. e = a - k
      BY <2>3, <2>4, <2>5, <2>6, Zenon
    <3>2. a \in Nat /\ k \in Nat
      BY <1>3, <2>7
    <3>3. Len(hits) = k /\ Len(m) = a
      BY <2>8
    <3> HIDE DEF a, e
    <3>4. k + e = a
      BY <3>1, <3>2
    <3> QED
      BY <3>3, <3>4 DEF e
  <2> QED
    BY <2>10, <2>11
<1>10. Tokens(hits, Len(hits)) <= budget
  BY <1>4, <1>5
<1>11. ASSUME NEW x \in out, NEW p \in H PROVE Position(m, p) < Position(m, x[1])
  <2>1. x[1] \in fresh \ H
    BY <1>6
  <2>2. PICK j \in (k + 1)..Len(s) : s[j] = x[1]
    BY <1>7, <2>1
  <2>3. PICK i \in 1..k : s[i] = p
    BY <1>5
  <2>4. BeforeIn(l, v, p, x[1])
    BY <1>2, <1>3, <2>2, <2>3
  <2>5. p \in all /\ x[1] \in all
    BY <1>5, <2>1
  <2> QED
    BY <2>4, <2>5, PositionOrders
<1>12. out # {} => \E x \in out : Tokens(hits, Len(hits)) + x[1].cost > budget
  <2> SUFFICES ASSUME out # {}
               PROVE  \E x \in out : Tokens(hits, Len(hits)) + x[1].cost > budget
    OBVIOUS
  <2>1. k < Len(s)
    BY <1>3, <1>6, <1>7
  <2>2. s[k + 1] \notin H
    BY <1>2, <1>5, <2>1 DEF Ranking
  <2>3. <<s[k + 1], "OUT_OF_BUDGET">> \in out
    BY <1>3, <1>6, <2>1, <2>2
  <2>4. Tokens(s, k + 1) = Tokens(s, k) + s[k + 1].cost
    BY <1>3, <2>1, TokensFacts
  <2>5. Tokens(hits, Len(hits)) + s[k + 1].cost > budget
    BY <1>3, <1>4, <1>5, <2>1, <2>4
  <2> QED
    BY <2>3, <2>5
<1>13. \A n \in 1..LegLimit :
         \A p \in {q \in all : Position(l, q) <= n \/ Position(v, q) <= n} :
           \A q \in all \ {r \in all : Position(l, r) <= n \/ Position(v, r) <= n} :
             Position(m, p) < Position(m, q)
  BY TopsFirst
<1> HIDE DEF m
<1>14. Accounted(l, v, hits, excluded, budget)
  BY <1>1, <1>9, <1>10, <1>11, <1>12, <1>13 DEF Accounted, m
<1> QED
  BY <1>5, <1>14

\* A seed names the document of the passage, itself or through a fact.
SeedLeadsTo(seeds, p) ==
  \/ Source(p.doc) \in seeds
  \/ \E f \in Facts : FactNode(f) \in seeds /\ p.doc = f.doc

Early == {"idle", "traversed", "searched", "ranked"}
Late == {"packed", "answered"}
Runs ==
  [at : Early \cup Late, seeds : SUBSET Seeds, candidates : SUBSET Passages,
   lexical : Seq(Passages), vector : Seq(Passages), budget : 0..MaxBudget,
   hits : Seq(Passages), excluded : SUBSET (Passages \X {"STALE", "OUT_OF_BUDGET"})]

\* What a run may be, given what is stale.
RunHolds(x, gone) ==
  /\ x \in Runs
  /\ Ranking(x.lexical, x.candidates) /\ Ranking(x.vector, x.candidates)
  /\ \A p \in x.candidates : SeedLeadsTo(x.seeds, p)
  /\ x.at \in {"idle", "traversed"} => x.lexical = <<>>
  /\ x.at \in {"idle", "traversed", "searched"} => x.vector = <<>>
  /\ x.at \in Early => x.hits = <<>> /\ x.excluded = {} /\ x.budget = 0
  /\ x.at \in Late => Accounted(x.lexical, x.vector, x.hits, x.excluded, x.budget)
  /\ \A y \in x.excluded : y[2] = "STALE" => Passage(y[1]) \in gone

RetrievalHolds ==
  /\ stale \subseteq Ageing /\ traced \in Seq(Passages)
  /\ RunHolds(run, stale)
  /\ run.at = "answered" => traced = run.hits

LEMMA RankingGrows ==
  ASSUME NEW s, NEW S, NEW T, Ranking(s, S), S \subseteq T
  PROVE  Ranking(s, T) /\ Among(s) \subseteq T
<1>1. Ranking(s, T)
  BY DEF Ranking
<1>2. DOMAIN s = 1..Len(s) /\ \A i \in 1..Len(s) : s[i] \in S
  BY DEF Ranking
<1> QED
  BY <1>1, <1>2 DEF Among

LEMMA NothingRanked ==
  ASSUME NEW S
  PROVE  Ranking(<<>>, S) /\ Len(<<>>) = 0 /\ Among(<<>>) = {}
  BY DEF Ranking, Among

LEMMA NothingAccounts == Accounted(<<>>, <<>>, <<>>, {}, 0)
<1> DEFINE m == InOrderIn(<<>>, <<>>, AllOf(<<>>, <<>>))
<1>1. Ranking(<<>>, Passages) /\ Len(<<>>) = 0 /\ Among(<<>>) = {}
  BY NothingRanked
<1>2. AllOf(<<>>, <<>>) = {}
  BY <1>1 DEF AllOf
<1>3. Among(m) = {} /\ Len(m) = 0
  <2>1. {} \in SUBSET AllOf(<<>>, <<>>) /\ m = InOrderIn(<<>>, <<>>, {})
    BY <1>2
  <2> HIDE DEF m
  <2>2. Among(m) = {} /\ Len(m) = Cardinality({})
    BY <1>1, <2>1, InOrderFacts
  <2> QED
    BY <2>2, FS_EmptySet
<1>4. Tokens(<<>>, 0) = 0
  <2>1. 1..0 = {}
    OBVIOUS
  <2> QED
    BY <2>1, SumOfNone DEF Tokens
<1>5. Cardinality({}) = 0
  BY FS_EmptySet
<1> HIDE DEF m
<1> QED
  BY <1>1, <1>3, <1>4, <1>5 DEF Accounted, m

LEMMA RankingsFacts ==
  ASSUME NEW S \in SUBSET Passages, NEW s \in Rankings(S)
  PROVE  Ranking(s, S)
<1>1. IsFiniteSet(S)
  BY RetrievalAssumption, FS_Subset
<1>2. Cardinality(S) \in Nat
  BY <1>1, FS_CardinalityType
<1>3. PICK n \in 0..Cardinality(S) :
        s \in [1..n -> S] /\ \A i, j \in 1..n : s[i] = s[j] => i = j
  BY DEF Rankings
<1>4. s \in Seq(S) /\ Len(s) = n
  BY <1>2, <1>3
<1> QED
  BY <1>3, <1>4 DEF Ranking

\* One hop leads from a seed to the passages of the documents it names.
LEMMA HopFacts ==
  ASSUME NEW seeds \in SUBSET Seeds, NEW visited \in SUBSET Reachable(seeds),
         NEW p \in LedTo(visited)
  PROVE  p \in Passages /\ SeedLeadsTo(seeds, p)
<1>1. ASSUME NEW x \in visited
      PROVE  x \in seeds \/ \E f \in Facts : FactNode(f) \in seeds /\ x \in EdgesOf(f)
  BY DEF Reachable
<1>2. ASSUME NEW x \in seeds
      PROVE  (\E f \in Facts : x = FactNode(f)) \/ (\E d \in Sources : x = Source(d))
  BY DEF Seeds
<1>3. p \in Passages
  BY DEF LedTo
<1>4. CASE Source(p.doc) \in visited
  <2>1. CASE Source(p.doc) \in seeds
    BY <1>3, <2>1 DEF SeedLeadsTo
  <2>2. ASSUME NEW f \in Facts, FactNode(f) \in seeds, Source(p.doc) \in EdgesOf(f)
        PROVE  SeedLeadsTo(seeds, p)
    <3>1. p.doc = f.doc
      BY <2>2 DEF EdgesOf, Source
    <3> QED
      BY <2>2, <3>1 DEF SeedLeadsTo
  <2> QED
    BY <1>1, <1>3, <1>4, <2>1, <2>2
<1>5. CASE <<"PAGE_REGION", p.region>> \in visited
  <2>1. <<"PAGE_REGION", p.region>> \notin seeds
    BY <1>2 DEF FactNode, Source
  <2>2. PICK f \in Facts : FactNode(f) \in seeds /\ <<"PAGE_REGION", p.region>> \in EdgesOf(f)
    BY <1>1, <1>5, <2>1
  <2>3. p.region = f.region
    BY <2>2 DEF EdgesOf, Source
  <2> QED
    BY <1>3, <2>2, <2>3, RetrievalAssumption DEF SeedLeadsTo
<1>6. ASSUME NEW f \in Facts, FactNode(f) \in visited, f.region = p.region
      PROVE  SeedLeadsTo(seeds, p)
  <2>1. \A g \in Facts : FactNode(f) \notin EdgesOf(g)
    BY DEF EdgesOf, Source, FactNode
  <2>2. FactNode(f) \in seeds
    BY <1>1, <1>6, <2>1
  <2> QED
    BY <1>3, <1>6, <2>2, RetrievalAssumption DEF SeedLeadsTo
<1> QED
  BY <1>3, <1>4, <1>5, <1>6 DEF LedTo

LEMMA RetrievalStarts == RetrievalInit => RetrievalHolds
<1> SUFFICES ASSUME RetrievalInit PROVE RetrievalHolds
  OBVIOUS
<1>1. run \in Runs
  BY RetrievalAssumption DEF RetrievalInit, NoRun, Runs, Early
<1>2. Ranking(run.lexical, run.candidates) /\ Ranking(run.vector, run.candidates)
  BY NothingRanked DEF RetrievalInit, NoRun
<1> QED
  BY <1>1, <1>2 DEF RetrievalInit, NoRun, RetrievalHolds, RunHolds, Late

LEMMA RetrievalFollows == RetrievalHolds /\ RetrievalNext => RetrievalHolds'
<1> SUFFICES ASSUME RetrievalHolds, RetrievalNext PROVE RetrievalHolds'
  OBVIOUS
<1>1. /\ stale \subseteq Ageing /\ traced \in Seq(Passages)
      /\ RunHolds(run, stale) /\ run \in Runs
      /\ run.at = "answered" => traced = run.hits
  BY DEF RetrievalHolds, RunHolds
<1>2. ASSUME NEW x \in Ageing, GoStale(x) PROVE RetrievalHolds'
  <2>1. RunHolds(run, stale')
    BY <1>1, <1>2 DEF RunHolds, GoStale
  <2> QED
    BY <1>1, <1>2, <2>1 DEF RetrievalHolds, GoStale
<1>3. ASSUME NEW seeds \in SUBSET Seeds, NEW cap, Traverse(seeds, cap) PROVE RetrievalHolds'
  <2>1. PICK visited \in Visits(seeds, cap) :
          run' = [run EXCEPT !.at = IF {p \in LedTo(visited) : StillThere(p)} = {}
                                      THEN "packed" ELSE "traversed",
                             !.seeds = seeds,
                             !.candidates = {p \in LedTo(visited) : StillThere(p)}]
    BY <1>3 DEF Traverse
  <2> DEFINE found == {p \in LedTo(visited) : StillThere(p)}
  <2>2. visited \in SUBSET Reachable(seeds)
    BY <2>1 DEF Visits
  <2>3. found \in SUBSET Passages /\ \A p \in found : SeedLeadsTo(seeds, p)
    BY <2>2, HopFacts
  <2>4. /\ run.at = "idle" /\ run.lexical = <<>> /\ run.vector = <<>>
        /\ run.hits = <<>> /\ run.excluded = {} /\ run.budget = 0
    BY <1>1, <1>3 DEF Traverse, RunHolds, Early
  <2>5. /\ run'.at \in {"packed", "traversed"} /\ run'.seeds = seeds /\ run'.candidates = found
        /\ run'.lexical = <<>> /\ run'.vector = <<>>
        /\ run'.hits = <<>> /\ run'.excluded = {} /\ run'.budget = 0
    BY <1>1, <2>1, <2>4 DEF Runs
  <2>6. run' \in Runs
    BY <1>1, <2>1, <2>3 DEF Runs, Early, Late
  <2>7. Ranking(<<>>, found)
    BY NothingRanked
  <2> HIDE DEF found
  <2>8. RunHolds(run', stale)
    BY <2>3, <2>5, <2>6, <2>7, NothingAccounts DEF RunHolds
  <2> QED
    BY <1>1, <1>3, <2>5, <2>8 DEF RetrievalHolds, Traverse
<1>4. CASE SearchLexical
  <2>1. PICK ranking \in Rankings(Searchable) :
          run' = [run EXCEPT !.at = "searched", !.lexical = ranking]
    BY <1>4 DEF SearchLexical
  <2>2. Searchable \in SUBSET run.candidates /\ run.candidates \in SUBSET Passages
    BY <1>1 DEF Searchable, Runs
  <2>3. Ranking(ranking, run.candidates) /\ ranking \in Seq(Passages)
    BY <2>2, RankingsFacts, RankingGrows DEF Ranking
  <2>4. /\ run.at = "traversed" /\ run.vector = <<>>
        /\ run.hits = <<>> /\ run.excluded = {} /\ run.budget = 0
    BY <1>1, <1>4 DEF SearchLexical, RunHolds, Early
  <2>5. /\ run'.at = "searched" /\ run'.lexical = ranking
        /\ run'.seeds = run.seeds /\ run'.candidates = run.candidates
        /\ run'.vector = <<>> /\ run'.hits = <<>> /\ run'.excluded = {} /\ run'.budget = 0
    BY <1>1, <2>1, <2>4 DEF Runs
  <2>6. run' \in Runs
    BY <1>1, <2>1, <2>3 DEF Runs, Early
  <2>7. RunHolds(run', stale)
    BY <1>1, <2>3, <2>5, <2>6, NothingRanked DEF RunHolds, Late
  <2> QED
    BY <1>1, <1>4, <2>5, <2>7 DEF RetrievalHolds, SearchLexical
<1>5. CASE SearchVector
  <2>1. PICK ranking \in Rankings(Searchable) :
          run' = [run EXCEPT !.vector = ranking,
                    !.at = IF run.lexical = <<>> /\ ranking = <<>> THEN "packed" ELSE "ranked"]
    BY <1>5 DEF SearchVector
  <2>2. Searchable \in SUBSET run.candidates /\ run.candidates \in SUBSET Passages
    BY <1>1 DEF Searchable, Runs
  <2>3. Ranking(ranking, run.candidates) /\ ranking \in Seq(Passages)
    BY <2>2, RankingsFacts, RankingGrows DEF Ranking
  <2>4. run.at = "searched" /\ run.hits = <<>> /\ run.excluded = {} /\ run.budget = 0
    BY <1>1, <1>5 DEF SearchVector, RunHolds, Early
  <2>5. /\ \/ run'.at = "ranked"
           \/ run'.at = "packed" /\ run.lexical = <<>> /\ ranking = <<>>
        /\ run'.vector = ranking /\ run'.lexical = run.lexical
        /\ run'.seeds = run.seeds /\ run'.candidates = run.candidates
        /\ run'.hits = <<>> /\ run'.excluded = {} /\ run'.budget = 0
    BY <1>1, <2>1, <2>4 DEF Runs
  <2>6. run' \in Runs
    BY <1>1, <2>1, <2>3 DEF Runs, Early, Late
  <2>7. RunHolds(run', stale)
    BY <1>1, <2>3, <2>5, <2>6, NothingAccounts DEF RunHolds, Late
  <2> QED
    BY <1>1, <1>5, <2>5, <2>7 DEF RetrievalHolds, SearchVector
<1>6. ASSUME NEW budget \in 1..MaxBudget, Hydrate(budget) PROVE RetrievalHolds'
  <2> DEFINE l == run.lexical
             v == run.vector
             all == AllOf(l, v)
             fresh == {p \in all : StillThere(p)}
             s == InOrderIn(l, v, fresh)
             hits == Packed(s, budget)
             excluded == {<<p, "STALE">> : p \in all \ fresh}
                           \cup {<<p, "OUT_OF_BUDGET">> : p \in Among(s) \ Among(hits)}
  <2>1. Ranking(l, Passages) /\ Ranking(v, Passages) /\ run.candidates \in SUBSET Passages
    BY <1>1, RankingGrows DEF RunHolds, Runs
  <2>2. budget \in Nat /\ budget \in 0..MaxBudget
    BY RetrievalAssumption
  <2>3. Among(MergedRanking) = all
    BY <2>1, OrderIs, InOrderFacts
  <2>4. InOrder(fresh) = s
    BY OrderIs
  <2>5. /\ Ranking(hits, Passages) /\ Among(hits) \subseteq fresh
        /\ Accounted(l, v, hits, excluded, budget)
    BY <2>1, <2>2, PackingAccounts
  <2>6. Among(s) = fresh /\ fresh \subseteq Passages
    <3>1. fresh \in SUBSET AllOf(l, v) /\ s = InOrderIn(l, v, fresh)
      OBVIOUS
    <3> HIDE DEF fresh, s
    <3>2. Among(s) = fresh
      BY <2>1, <3>1, InOrderFacts
    <3>3. fresh \subseteq Passages
      BY <2>1, <3>1, InOrderFacts
    <3> QED
      BY <3>2, <3>3
  <2>7. all \subseteq Passages
    BY <2>1, InOrderFacts
  <2>8. /\ excluded \in SUBSET (Passages \X {"STALE", "OUT_OF_BUDGET"})
        /\ \A y \in excluded : y[2] = "STALE" => Passage(y[1]) \in stale
    <3>1. \A p \in all \ fresh : Passage(p) \in stale
      BY DEF StillThere
    <3> HIDE DEF all, fresh, s, hits
    <3>2. ASSUME NEW y \in excluded
          PROVE  /\ y \in Passages \X {"STALE", "OUT_OF_BUDGET"}
                 /\ y[2] = "STALE" => Passage(y[1]) \in stale
      BY <2>6, <2>7, <3>1
    <3> QED
      BY <3>2
  <2>9. run' = [run EXCEPT !.at = "packed", !.budget = budget, !.hits = hits,
                  !.excluded = excluded]
    BY <1>6, <2>3, <2>4 DEF Hydrate
  <2>10. hits \in Seq(Passages)
    BY <2>5 DEF Ranking
  <2> HIDE DEF hits, excluded
  <2>11. /\ run'.at = "packed" /\ run'.lexical = l /\ run'.vector = v
         /\ run'.seeds = run.seeds /\ run'.candidates = run.candidates
         /\ run'.hits = hits /\ run'.excluded = excluded /\ run'.budget = budget
    BY <1>1, <2>9 DEF Runs
  <2>12. run' \in Runs
    BY <1>1, <2>2, <2>8, <2>9, <2>10 DEF Runs, Late
  <2>13. RunHolds(run', stale)
    BY <1>1, <2>5, <2>8, <2>11, <2>12 DEF RunHolds, Early
  <2> QED
    BY <1>1, <1>6, <2>11, <2>13 DEF RetrievalHolds, Hydrate
<1>7. CASE RecordHits
  <2>1. /\ run.at = "packed" /\ run' = [run EXCEPT !.at = "answered"] /\ run.hits \in Seq(Passages)
    BY <1>1, <1>7 DEF RecordHits, Runs
  <2>2. /\ run'.at = "answered" /\ run'.lexical = run.lexical /\ run'.vector = run.vector
        /\ run'.seeds = run.seeds /\ run'.candidates = run.candidates
        /\ run'.hits = run.hits /\ run'.excluded = run.excluded /\ run'.budget = run.budget
    BY <1>1, <2>1 DEF Runs
  <2>3. run' \in Runs
    BY <1>1, <2>1 DEF Runs, Late
  <2>4. RunHolds(run', stale)
    BY <1>1, <2>1, <2>2, <2>3 DEF RunHolds, Early, Late
  <2> QED
    BY <1>1, <1>7, <2>1, <2>2, <2>4 DEF RetrievalHolds, RecordHits
<1>8. CASE Abandon
  <2>1. run' = NoRun /\ stale' = stale /\ traced' = traced
    BY <1>8 DEF Abandon
  <2>2. NoRun \in Runs
    BY RetrievalAssumption DEF NoRun, Runs, Early
  <2>3. RunHolds(NoRun, stale)
    BY <2>2, NothingRanked DEF NoRun, RunHolds, Late
  <2> QED
    BY <1>1, <2>1, <2>3 DEF RetrievalHolds, NoRun
<1> QED
  BY <1>2, <1>3, <1>4, <1>5, <1>6, <1>7, <1>8 DEF RetrievalNext

LEMMA RetrievalStep ==
  ASSUME RetrievalHolds, RetrievalNext \/ UNCHANGED retrieval
  PROVE  RetrievalHolds'
<1>1. CASE UNCHANGED retrieval
  BY <1>1 DEF retrieval, RetrievalHolds, RunHolds
<1> QED
  BY <1>1, RetrievalFollows

\* What the invariant says of an answer.
LEMMA AnswersFollow == RetrievalHolds => RetrievalTypeOK /\ AnswerAccounted
<1> SUFFICES ASSUME RetrievalHolds PROVE RetrievalTypeOK /\ AnswerAccounted
  OBVIOUS
<1>1. /\ stale \subseteq Ageing /\ traced \in Seq(Passages)
      /\ RunHolds(run, stale) /\ run \in Runs
      /\ run.at = "answered" => traced = run.hits
  BY DEF RetrievalHolds, RunHolds
<1>2. RetrievalTypeOK
  BY <1>1 DEF RetrievalTypeOK, Runs, Early, Late
<1>3. ASSUME run.at = "answered" PROVE AnswerAccounted
  <2> DEFINE l == run.lexical
             v == run.vector
             m == InOrderIn(l, v, AllOf(l, v))
  <2>1. MergedRanking = m
    BY OrderIs
  <2>2. Accounted(l, v, run.hits, run.excluded, run.budget)
    BY <1>1, <1>3 DEF RunHolds, Late
  <2>3. Ranking(l, run.candidates) /\ Ranking(v, run.candidates)
    BY <1>1 DEF RunHolds
  <2>4. Among(m) \subseteq run.candidates
    <3>1. Ranking(l, Passages) /\ Ranking(v, Passages)
      BY <1>1, <2>3, RankingGrows DEF Runs
    <3>2. Among(m) = AllOf(l, v)
      BY <3>1, InOrderFacts
    <3> QED
      BY <2>3, <3>2, RankingGrows DEF AllOf
  <2>5. ASSUME NEW p \in Among(run.hits) PROVE SeedLeadsTo(run.seeds, p)
    <3>1. p \in Among(m)
      BY <2>2 DEF Accounted
    <3> QED
      BY <1>1, <2>4, <3>1 DEF RunHolds
  <2>6. \A x \in run.excluded : x[2] = "STALE" => Passage(x[1]) \in stale
    BY <1>1 DEF RunHolds
  <2> HIDE DEF m
  <2> QED
    BY <1>1, <1>3, <2>1, <2>2, <2>5, <2>6 DEF AnswerAccounted, Accounted, SeedLeadsTo, m
<1> QED
  BY <1>2, <1>3 DEF AnswerAccounted
================================================================================
