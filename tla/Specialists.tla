------------------------------ MODULE Specialists ------------------------------
(****************************************************************************)
(* The four specialist agents of a case version: underwriting and legal     *)
(* draft an assessment from the confirmed facts, the independent risk       *)
(* review challenges both, operations assembles the package. Each is one    *)
(* durable task whose processor resumes from its last checkpoint. The       *)
(* writes of checkpoints and of the outcome are fenced by the lease; what a *)
(* processor persists is not, so a runner that has lost its lease may still *)
(* persist, next to the one that holds it now.                              *)
(****************************************************************************)
EXTENDS Casework

CONSTANTS
  Runners,      \* worker processes
  Opinions,     \* what the blind pass of the risk review may find
  ModelGaps,    \* evidence gaps that each agent may add to those computed
  MaxLosses     \* bound on the leases lost

ASSUME RunnersAssumption == Nobody \notin Runners /\ MaxLosses \in Nat

\* Whose output an agent reads.  The drafting agents of a version are its makers.
Upstream ==
  [UNDERWRITING |-> {}, LEGAL |-> {}, RISK |-> {"UNDERWRITING", "LEGAL"},
   OPERATIONS |-> {"UNDERWRITING", "LEGAL", "RISK"}]

Agents == DOMAIN Upstream

\* The BLOCKING gap that a maker's calculators or its checklist computes.
Computed == [a \in Agents |-> IF Upstream[a] = {} THEN {"computed"} ELSE {}]

Gap == {"computed"} \cup UNION {ModelGaps[a] : a \in Agents}

VARIABLES
  runner,   \* what each worker process has in memory
  task,     \* the task of each agent: its outcome, its lease, its last checkpoint
  output,   \* the assessments (the package) persisted: <<>> or <<a draft>>
  gapRows,  \* evidence_gaps: by whom, and which
  blindRow, \* risk_pre_analyses: <<>> or <<an opinion>>
  losses    \* leases lost, for the bound

specialists == <<runner, task, output, gapRows, blindRow, losses>>

Off == [agent |-> "none", step |-> "off"]
NoPoint == [type |-> "NONE", data |-> <<>>]

SpecialistsInit ==
  /\ runner = [w \in Runners |-> Off]
  /\ task = [a \in Agents |-> [outcome |-> "open", lease |-> Nobody, point |-> NoPoint]]
  /\ output = [a \in Agents |-> <<>>]
  /\ gapRows = {}
  /\ blindRow = <<>>
  /\ losses = 0

\* A draft names the drafts it was made from, the open gaps and the blind
\* analysis that were its input, and the gaps it declares.
IsDraft(a, d) ==
  /\ DOMAIN d.from = Upstream[a]
  /\ d.gaps \subseteq Gap
  /\ d.open \subseteq Agents \X Gap
  /\ d.blind \in Opinions \cup {Nobody}

SpecialistsTypeOK ==
  /\ \A w \in Runners : runner[w] = Off \/ runner[w].agent \in Agents
  /\ \A a \in Agents :
       /\ task[a].outcome \in {"open", "SUCCEEDED", "SUPERSEDED", "FAILED_MANUAL_REVIEW"}
       /\ task[a].lease \in Runners \cup {Nobody}
       /\ task[a].point.type \in {"NONE", "PROGRESS", "BLIND", "DRAFT", "PERSISTED"}
       /\ output[a] = <<>> \/ IsDraft(a, output[a][1])
  /\ gapRows \subseteq Agents \X Gap
  /\ blindRow = <<>> \/ blindRow[1] \in Opinions
  /\ losses \in 0..MaxLosses
--------------------------------------------------------------------------------
\* Mutant of Held: a checkpoint is taken from whoever brings it.
HeldOnce(w) == TRUE

\* The lease of the task is still the runner's.
Held(w) == task[runner[w].agent].lease = w
AtStep(w, a, step) == runner[w].agent = a /\ runner[w].step = step

Point(a, type, data) ==
  task' = [task EXCEPT ![a].point = [type |-> type, data |-> data]]

\* The outcome ends the task and frees the worker; it is fenced like a checkpoint.
End(w, outcome) ==
  /\ Held(w)
  /\ task' = [task EXCEPT ![runner[w].agent].outcome = outcome,
                          ![runner[w].agent].lease = Nobody]
  /\ runner' = [runner EXCEPT ![w] = Off]
  /\ UNCHANGED <<output, gapRows, blindRow, losses>>

\* A task is ready once the outputs it reads are there (the gates between them
\* are of Orchestration); the runner gets the last checkpoint with it.
Claim(w, a) ==
  /\ runner[w] = Off
  /\ task[a].outcome = "open" /\ task[a].lease = Nobody
  /\ \A u \in Upstream[a] : output[u] # <<>>
  /\ task' = [task EXCEPT ![a].lease = w]
  /\ runner' = [runner EXCEPT ![w] =
       [agent |-> a, step |-> "start", seen |-> task[a].point, from |-> <<>>,
        blind |-> Nobody, open |-> {}, draft |-> <<>>]]
  /\ UNCHANGED <<output, gapRows, blindRow, losses>>

\* The lease expires; the runner goes on until a heartbeat or a fenced write fails.
LoseLease(a) ==
  /\ task[a].lease # Nobody
  /\ losses < MaxLosses /\ losses' = losses + 1
  /\ task' = [task EXCEPT ![a].lease = Nobody]
  /\ UNCHANGED <<runner, output, gapRows, blindRow>>

\* A crash, a fenced write without the lease, or a draft that is rejected in full
\* because it cites something the agent was not shown: the task is delivered again.
Leave(w) ==
  /\ runner[w] # Off
  /\ runner' = [runner EXCEPT ![w] = Off]
  /\ UNCHANGED <<task, output, gapRows, blindRow, losses>>

\* The endpoint is not configured, or not available.
Unavailable(w) ==
  /\ runner[w].step \in {"start", "blind", "draft"}
  /\ End(w, "FAILED_MANUAL_REVIEW")

\* The terminal checkpoint, and the outcome after it, succeed.
Succeed(w) ==
  /\ runner[w].step = "finish"
  /\ End(w, "SUCCEEDED")

\* What the last checkpoint or a persisted output makes unnecessary is skipped.
Resume(w) ==
  LET a == runner[w].agent
      seen == runner[w].seen
  IN
  /\ runner[w].step = "start"
  /\ \/ /\ seen.type = "PERSISTED"
        /\ runner' = [runner EXCEPT ![w].step = "finish"]
     \/ /\ seen.type = "DRAFT"
        /\ runner' = [runner EXCEPT ![w].step = "persist", ![w].draft = seen.data]
     \/ /\ seen.type \notin {"PERSISTED", "DRAFT"} /\ output[a] # <<>>
        /\ runner' = [runner EXCEPT ![w].step = "persisted"]
  /\ UNCHANGED <<task, output, gapRows, blindRow, losses>>

Anew(w) ==
  /\ runner[w].step = "start"
  /\ runner[w].seen.type \notin {"PERSISTED", "DRAFT"}
  /\ output[runner[w].agent] = <<>>

\* The case has left the version of the task.
Outdated(w) ==
  /\ caseVersion # 1
  /\ Anew(w) \/ (AtStep(w, "RISK", "blind") /\ runner[w].seen.type # "BLIND" /\ blindRow = <<>>)
  /\ End(w, "SUPERSEDED")

\* The evidence view and the outputs of the others are loaded; the checkpoint
\* says only that they were.
Read(w) ==
  LET a == runner[w].agent IN
  /\ Anew(w) /\ Held(w) /\ caseVersion = 1
  /\ Point(a, "PROGRESS", <<>>)
  /\ runner' = [runner EXCEPT
       ![w].from = [u \in Upstream[a] |-> output[u][1].gaps],
       ![w].step = CASE a = "RISK" -> "blind" [] a = "OPERATIONS" -> "gaps" [] OTHER -> "draft"]
  /\ UNCHANGED <<output, gapRows, blindRow, losses>>
--------------------------------------------------------------------------------
\* Pass A of the risk review, which sees the confirmed facts only: it is taken
\* from the checkpoint that was delivered, or from the stored row.
KnownBlind(w, b) ==
  /\ AtStep(w, "RISK", "blind")
  /\ IF runner[w].seen.type = "BLIND" THEN b = runner[w].seen.data ELSE <<b>> = blindRow
  /\ runner' = [runner EXCEPT ![w].blind = b, ![w].step = "gaps"]
  /\ UNCHANGED <<task, output, gapRows, blindRow, losses>>

InferBlind(w, b) ==
  /\ AtStep(w, "RISK", "blind") /\ caseVersion = 1
  /\ runner[w].seen.type # "BLIND" /\ blindRow = <<>>
  /\ runner' = [runner EXCEPT ![w].blind = b, ![w].step = "persist blind"]
  /\ UNCHANGED <<task, output, gapRows, blindRow, losses>>

\* persist_pre_analysis keeps the first row.
PersistBlind(w) ==
  /\ AtStep(w, "RISK", "persist blind")
  /\ blindRow' = IF blindRow = <<>> THEN <<runner[w].blind>> ELSE blindRow
  /\ runner' = [runner EXCEPT ![w].step = "save blind"]
  /\ UNCHANGED <<task, output, gapRows, losses>>

\* The checkpoint gets what this runner inferred, the pass that follows the row.
SaveBlind(w) ==
  /\ AtStep(w, "RISK", "save blind") /\ Held(w)
  /\ Point("RISK", "BLIND", runner[w].blind)
  /\ runner' = [runner EXCEPT ![w].blind = blindRow[1], ![w].step = "gaps"]
  /\ UNCHANGED <<output, gapRows, blindRow, losses>>

\* load_open_gaps, from which the visibility checks of the risk review and the
\* document requests of the package are computed; then a checkpoint.
ReadGaps(w) ==
  /\ runner[w].step = "gaps" /\ Held(w)
  /\ Point(runner[w].agent, "PROGRESS", <<>>)
  /\ runner' = [runner EXCEPT ![w].open = gapRows, ![w].step = "draft"]
  /\ UNCHANGED <<output, gapRows, blindRow, losses>>

\* A reference has to resolve in the universe built from what was read.
Accepted(w, from) == from = runner[w].from

\* Mutant of Merged: what the model declares replaces what was computed.
MergedModel(a, gaps) == gaps

\* The gaps computed are always part of the assessment.
Merged(a, gaps) == Computed[a] \cup gaps

\* The model answers, and the draft is saved before anything is persisted.
Draft(w, gaps, from) ==
  LET a == runner[w].agent
      draft == [gaps |-> Merged(a, gaps), from |-> from,
                blind |-> runner[w].blind, open |-> runner[w].open]
  IN
  /\ runner[w].step = "draft" /\ Held(w)
  /\ Accepted(w, from)
  /\ Point(a, "DRAFT", draft)
  /\ runner' = [runner EXCEPT ![w].draft = draft, ![w].step = "persist"]
  /\ UNCHANGED <<output, gapRows, blindRow, losses>>

\* One transaction: the assessment, unless the task has one, with its gaps and
\* its handoff.
Persist(w) ==
  LET a == runner[w].agent
      draft == runner[w].draft
  IN
  /\ runner[w].step = "persist"
  /\ IF output[a] = <<>>
       THEN /\ output' = [output EXCEPT ![a] = <<draft>>]
            /\ gapRows' = gapRows \cup ({a} \X draft.gaps)
       ELSE UNCHANGED <<output, gapRows>>
  /\ runner' = [runner EXCEPT ![w].step = "persisted"]
  /\ UNCHANGED <<task, blindRow, losses>>

SavePersisted(w) ==
  /\ runner[w].step = "persisted" /\ Held(w)
  /\ Point(runner[w].agent, "PERSISTED", <<>>)
  /\ runner' = [runner EXCEPT ![w].step = "finish"]
  /\ UNCHANGED <<output, gapRows, blindRow, losses>>

SpecialistsNext ==
  \/ /\ \/ \E a \in Agents : LoseLease(a) \/ \E w \in Runners : Claim(w, a)
        \/ \E w \in Runners :
             \/ Leave(w) \/ Unavailable(w) \/ Succeed(w) \/ Resume(w) \/ Outdated(w) \/ Read(w)
             \/ (\E b \in Opinions : KnownBlind(w, b) \/ InferBlind(w, b))
             \/ PersistBlind(w) \/ SaveBlind(w) \/ ReadGaps(w)
             \/ /\ runner[w].step = "draft"
                /\ \E gaps \in SUBSET ModelGaps[runner[w].agent] :
                     \E from \in [Upstream[runner[w].agent] -> SUBSET Gap] : Draft(w, gaps, from)
             \/ Persist(w) \/ SavePersisted(w)
     /\ UNCHANGED casework
--------------------------------------------------------------------------------
\* What an agent's output says about another's can be looked up: it was made
\* from the very assessments that are stored.  A draft is settled once its checkpoint
\* is saved: although a runner persists without asking for its lease, none of them
\* ever brings another draft than the one that is stored.  And a task succeeds only
\* with its output in place.
CitesWhatIsThere ==
  /\ \A a \in Agents :
       /\ task[a].outcome = "SUCCEEDED" => output[a] # <<>>
       /\ output[a] # <<>> =>
            \A u \in Upstream[a] :
              output[u] # <<>> /\ output[a][1].from[u] = output[u][1].gaps
  /\ \A w \in Runners :
       runner[w].step = "persist" =>
         output[runner[w].agent] \in {<<>>, <<runner[w].draft>>}

\* No gap gets lost between the agents, and none comes from a draft that was not
\* kept: the open gaps are those of the stored assessments, with all that were
\* computed, and every gap of an assessment was open to those who read it: to the
\* visibility checks of the risk review and in the requests of the package.
GapsCarried ==
  /\ gapRows = UNION {{a} \X output[a][1].gaps : a \in {b \in Agents : output[b] # <<>>}}
  /\ \A a \in Agents :
       output[a] # <<>> =>
         /\ Computed[a] \subseteq output[a][1].gaps
         /\ \A u \in Upstream[a] : {u} \X output[u][1].gaps \subseteq output[a][1].open

================================================================================
