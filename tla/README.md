# CreditOps: a TLA+ verification project

CreditOps prepares and reviews working-capital credit cases. A case has a
version; documents are ingested, specialist agents (underwriting, legal, risk,
operations) analyse it, humans satisfy gates, and after a human credit decision
come conditions, contracts, disbursement, repayment and recovery. The code is
Python (`services/api/src/creditops`) over PostgreSQL (`supabase/migrations`);
the web application is a client.

Concurrency is between API requests and worker executions (Cloud Run jobs).
They share nothing but the database and a pgmq queue, and every repository call
is one transaction. Everything that is hard about the system lies between two
such calls.

## 1. Inventory

| Component | State | Operations | What makes it correct |
|---|---|---|---|
| Worker and task queue | `processing_tasks`, `task_checkpoints`, `worker_slots`, pgmq messages | acquire slot, sweep, read, claim, renew, checkpoint, finish, archive | a message is archived only when its task has ended; one holder; bounded attempts; every task ends |
| Case orchestrator | `human_gates`, task rows by idempotency key | kickoff, plan task, snapshot, derive gates, readiness, schedule | a task exists only past its gate and predecessors; no ready node is forgotten |
| Outbox | `outbox_events` | create with the task, read a batch, send, mark | no task is both unstarted and invisible |
| Maker revision | `credit_cases.case_version`, `handoffs` | bump the version, issue the handoff again, fire a tick | only on demand; nothing of the old version counts for the new one |
| Uploads | upload intents, idempotency records, document versions, Storage | create intent, complete in two phases | one document per intent and per content; a replay answers the same |
| Ingestion, evidence review, intake (G1) | stages, candidates, confirmations, confirmed facts, handoffs | advance a stage, extract, confirm a batch, hand off | a handoff freezes what the officers decided, all of it |
| Prospects, financing requests | numbered versions | append, confirm the need, decide a contact | each number once; the gate names a version on record |
| Calculators, checklist | none, functions of the confirmed facts | compute, schedule, project, shock, evaluate | nothing is guessed; what is computed in two ways agrees |
| Specialists, drafts, model gateway | checkpoints, assessments, gaps, pre-analyses, packages | read, infer, build, persist, save, succeed | what is kept cites what was there; no gap is lost |
| Retrieval | retrieval traces | walk, search, merge, pack, hydrate, record | an answer is led to by a seed, fits its budget, and accounts for what it dropped |
| Gap requests (G2), reviews, risk dispositions (G3), operations (G4) | batches, reviews, dispositions, packages, authorizations, gates | assemble, dispose, review, submit, authorize, derive a gate | whoever satisfied a gate had the evidence for it |
| Credit decision, notifications, conditions, security interests, contracts | one decision per version, versioned rows, ledgers, gates | decide, draft, approve, deliver, transition, confirm, redline, sign | a gate keeps resting on what it was decided on; two people where two are asked for |
| Disbursement | actions, receipts, two gates | create, validate, authorize, execute, reconcile | four-eyes control at every movement; every movement has a recorded request, every new request a human's declaration; an executed row has one source |
| Monitoring, repayments, settlement, recovery | obligations, tests, alerts, events, checks, receipts, recovery cases | observe, test, dispose, record, check, confirm, approve | alerts follow events; the ledger adds up; a settlement was clean |
| Governance, dispatch, reporting, authentication, web | none that the others depend on | reads, remote calls | not modelled, see section 8 |

`PROJECT.json` lists every component with its status, and the hazards with the
line where each one bites. The hard behaviours, in order of weight:

1. executions that overlap, die, are cancelled, outlive their lease, or see a
   message twice (worker and queue, ingestion, specialists);
2. decisions taken on a state that is stale when they are carried out
   (orchestrator, intake, every gate that is derived in one transaction and
   written in another);
3. a crash between two durable steps (outbox, disbursement adapter, uploads);
4. work that nothing is bound to restart (lost ticks, undispatched events);
5. a case version that moves on below a request, a task or a reader.

Components interact through rows only. An upload creates a document task; its
ingestion leaves candidates; the officers' confirmations become facts; a
completed intake is a handoff, from which the orchestrator derives G1 and
schedules the makers; their gaps feed G2, their assessments the risk review,
its dispositions G3 or a revision, the package of the operations G4; the credit
decision follows, then the desks of its fulfilment, whose gates the
disbursement reads.

## 2. Modules

| Module | Models |
|---|---|
| `TaskQueue` | `run_worker_once.py`, `postgres/tasks.py`, `supabase/queue.py`, migration 0005: one action per repository or queue call |
| `TaskLifecycle` | the abstract promise of the queue, refined by `TaskQueue` |
| `Orchestration` | `application/orchestration/*`, `dispatch_outbox.py`, `request_maker_revision.py`, `postgres/orchestration.py`; uses the queue through its promise only |
| `Uploads` | `create_upload_intent.py`, `complete_upload_intent.py`, `api/uploads.py`, `postgres/repositories.py`, `supabase/storage.py`, migration 0010 |
| `Disbursement` | `api/disbursements.py`, `postgres/disbursements.py`, migration 0021, the mock adapter; decision and conditions gate are inputs |
| `Casework` | what every human operation shares: case version, gates, requests that check and then write |
| `Preparation` | composes the desks before the decision: `Origination`; `Ingestion`, `EvidenceReview` and `Intake`; `Calculators`; `CollateralChecklist`; `Specialists`; `Retrieval`; `Drafting`; `GapRequests`; `MakerReviews`; `RiskDispositions`; `Operations` |
| `Fulfilment` | composes the desks after it: `CreditDecision` with `Notifications`, `Conditions`, `ContractPackages` and `Repayments`; `SecurityInterests`; `Monitoring`; `SettlementRecovery` |
| `TaskQueueProofs`, `OrchestrationProofs`, `DisbursementProofs`, `UploadsProofs`, `FulfilmentProofs`, `PreparationProofs` | theorems about these modules |
| `WorkProductProofs` | lemmas for `PreparationProofs`: the specialists' tasks; what they compute, retrieve and write |
| `FoldFacts` | sums over a finite set and recursive functions on numbers: what the ledger, the schedules, the packing and the counts are proved from |
| `MC*` | instances for TLC |

### TaskQueue

A *run* is a worker execution, from `acquire_worker_slot` to
`release_worker_slot`; `pc` says where it is in `run_once`. A task row has
`status`, `attempt`, `token` (the lease token: the run that wrote it) and is in
`live` while its lease has not expired. Messages are `sent`, `visible` and
`archived`. A run's heartbeat renews task lease, slot and visibility in that
order (`beat`), each a transaction that may find the lease lost. `Crash`,
`Cancel` and `Raise` may hit any step; `Orphan` is the token of a dead
execution. Time is three actions: a lease, the slot or a visibility timeout
expires, a backoff elapses. `SkewedClock` lets `reclaim_stranded` take a lease
that is alive by the database clock, because it compares with the clock of the
worker. `DocumentTasks` are the tasks that have a document version.

`TaskLifecycle` has no leases, executions or clocks: a task waits, runs, ends at
most once, and a message is settled only after that. The mapping sends `status`
to `phase` (a wait for the first attempt and for another one are both a wait),
`attempt` to `attempts` and `archived` to `settled`; claims, terminal writes and
archives are its steps, all the rest stutters.

### Orchestration

A *process* is an API request or an execution that runs a task. A human request
(`Advance`, `CompleteIntake`, `Review`, `RequestRevision`) or the success of a
task fires a tick: `Kick` reads the version, `CreatePlan` inserts the plan task
under its idempotency key with its outbox event, then the outbox is dispatched
(`LoadOutbox`, `SendEvent`, `MarkEvent`). A plan task, once started, reads the
case, then its tasks (`ReadCase`, `ReadTasks`: two statements), derives and
writes the intake gate (`RefreshGate`), evaluates readiness and schedules. Rows
are identified by their idempotency key, so `Keys` is finite. A message in
`sent` lets a process start its task; what happens to the lease is
`TaskQueue`'s subject, and `Reclaim` and `LoseLease` stand for it here.

The other APIs that satisfy gates (legal, notifications, conditions, contracts,
disbursement and so on) also fire ticks, with trigger references of their own.
Such a tick creates one more plan task and reads the same state, so it adds
nothing to what `Advance` and `Review` do.

### Disbursement

A *request* is one API call of an actor; `pc` is the next repository call. It
reads the case version first and uses it to the end, although the case may move
on (`BumpCaseVersion`). The check of an operation (`CheckAuthorize`,
`CheckExecute`) and its effect are different transactions. `moved` is a ghost
variable: how often the adapter has moved the funds. After a timeout the result
is `EXECUTION_UNKNOWN` and the funds may or may not have moved. `Edge` is the
trigger `enforce_disbursement_execution_transition`; when it refuses the second
transaction the receipt is rolled back with it. `requested`, `reopened` and
`confirmed` count audit events that the same transactions write.

`Reconcile` has the guard of the code and no other: the row is
EXECUTION_REQUESTED or EXECUTION_UNKNOWN. The first is also the status of an
attempt whose adapter call is running, so an action can be reconciled and
requested again while the first call is under way, and its result may arrive
after that. The outcome in the body is not verified by anything: it is either one,
true or not.

### Uploads

A *request* is one completion; its identity is also the `lease_owner` it draws
(a fresh UUID in the code). It reads the clock (`Receive`) before it waits for a
row, so `start` may be older than the database's time. Phase 1 is `Replay` or
`Reserve`; `VerifyObject` and `CopyImmutable` are the Storage calls; phase 2 is
`BeginRegistration`, which locks the intent and the key and looks for a
duplicate, and `Register` or `RecordDuplicate`, which commit. Between the two,
another intent may commit the same bytes; the unique index then refuses the
insert (`Insertable`). `Publish` is the queue send after the commit. Every
refusal, error and crash is `Fail`: it rolls back the open transaction and leaves
what was committed, copied or leased. A document, its version and its task carry
one identity, the request that inserts them. An idempotency record is bound to
its intent by `request_sha256`, which is the field `intent` here.

### Casework and the desks

An operation of a person is two actions: the check leaves in `req` what the
handler has read, and the write comes later, after other requests may have
committed. A refused request never gets past its check; `Lost` is a crash or an
error between the two. `gate[g][v]` is who satisfied a gate, since the rules are
about who. `NewVersion` is a revision: requests under way keep the version they
have read. Where what a handler reads can never change (rows written once), read
and write are one action, and the module says so.

`Preparation` and `Fulfilment` choose one desk at the start of a behaviour
(`desk`), because the desks share the case version, the gates and the requests
but none reads what another one writes while it is at work. What a desk gets from
another one (a review, a package, new gaps) arrives as an action of its own
module, at any moment the other could have produced it. So the composition costs
the sum of the desks, not their product. `Desks` restricts it for the small runs.

- **Origination.** The number of a version or a snapshot is max + 1, read before
  the insert; `Taken` is the unique constraint. After a refused insert a financing
  version is numbered anew, up to eight times (two requests never need as many);
  a snapshot fails.
- **Ingestion, EvidenceReview, Intake.** Workers advance a document by guarded
  moves (`CanAdvance`), each followed by a fenced checkpoint; `Deliver` gives the
  task to another worker while the old one may still run, and a second extraction
  adds its candidates. A review is read at one moment and recorded at another. The
  completion reads candidates, then confirmations, then rechecks and inserts.
  `ready` in a handoff is a ghost: the documents that were ready when it began.
- **Calculators.** Arithmetic in quanta (`Quanta` in one unit), half-up as
  `_quantize` does it: ratios, cycle, needs and gap, trends, the debt-service
  schedule, coverage, shocks, the funding gap. `<<>>` is an absent figure.
- **CollateralChecklist.** Facts get confirmed while the days go by.
- **Specialists.** A runner takes a task, resumes from the last checkpoint, reads,
  drafts, persists and saves. Checkpoints and outcomes are fenced by the lease
  (`Held`), what is persisted is not, so a
  runner that lost its lease may still persist. `Persist` stores one output for a
  task; that it is everybody's draft is due to the fenced DRAFT checkpoint.
- **Drafting.** A model answers with items of sections that cite; the builder
  keeps, drops or rejects, adds what the code computes, and asks once more.
- **Retrieval.** Between the statements of a run passages, documents and edges
  may go stale. Scores are an arbitrary ranking; the merge keeps the earlier of
  two positions, and the packing stops at the first passage that does not fit.
  The component is complete in the code but not wired into the API or the worker.
- **GapRequests, MakerReviews, RiskDispositions, Operations.** Rows only
  appended, a gate derived from all of them in one transaction and written in the
  next. `interrupted` is a ghost: packages for which a request was lost.
- **CreditDecision, Notifications, Conditions, SecurityInterests,
  ContractPackages.** `confirmed`, `perfected` and `approvedAs` record what a
  gate was decided on. Two transitions of one security item may both start from
  the same read; `TriggerPasses` is the trigger that refuses the second.
- **Monitoring, Repayments, SettlementRecovery.** The ledger is a function of the
  events: allocations to fees, interest and principal of the oldest installment
  first. `settledOn` is the check a confirmation was based on.

## 3. Runs

| Run | Checks | Bounds |
|---|---|---|
| `task_queue_safety` | types, archive after the end, lease discipline, checkpoint numbering | 2 runs, 1 task, 2 messages of it, 2 attempts, 1 version bump, 1 fault, skewed clock |
| `task_queue_liveness` | refinement of `TaskLifecycle`, live leases, nothing stays RUNNING, every message of a current task is archived | 2 runs, 1 task, 1 message, 2 attempts, 1 bump, 1 fault, true clock |
| `orchestration_safety` | types, gates and order with one holder, outbox, handoff and superseded tasks | 2 processes, a node and its gated successor, 2 versions, 2 human requests, 1 fault |
| `orchestration_liveness` | a ready node is started | the same without faults |
| `uploads_safety` | types, one registration, equal answers, replayable registrations, true duplicates | 3 requests, 2 keys, 2 intents, 2 contents, a lease of 1 and an intent of 2 ticks, 3 ticks, any failure |
| `preparation_safety` | types and eight properties of eleven desks | 2 requests or runners, 2 people, 2 versions (3 at the risk desk), see below |
| `fulfilment_safety` | types and eight properties of eight desks | 2 requests, 2 people, 2 versions, see below |
| `disbursement_safety` | types, dual control, movements and requests accounted for, executed rows vouched for once | 2 requests, a maker who is also a checker and another checker, 2 versions, 2 attempts of each, any crash, any outcome of a reconciliation at any moment |
| `task_queue_agent_checkpoint`, `revision_evidence`, `case_lost`, `repayments_reversals` | what a comment or document says and the code does not do, see section 6 | smallest instance that shows it |

What the runs of `Preparation` and `Fulfilment` show, desk by desk:

| Property | Says |
|---|---|
| `NeedConfirmed` | overlapping appends number versions and snapshots without gaps or repeats; the gate names a version on record |
| `HandoffHolds` | over overlapping workers, reviews and completions a handoff keeps telling what the officers decided |
| `EvidenceNotGuessed` | a figure exists exactly if its facts are confirmed and no divisor is zero; a document is settled exactly if present and not expired |
| `FiguresReconcile` | rounding loses no principal, verdict and rounded coverage agree, scenarios agree with funding, request and base case |
| `CitesResolve` | specialists keep one draft, made from the stored ones; an answer of the retrieval accounts for what it has and what it dropped; whatever is kept of a model's answer resolves |
| `GapsCarried` | the open gaps are exactly those of the stored assessments, and their readers saw them |
| `GatesVouch` | G2, G3, the reviews and the submission rest on evidence of their own version; a version is left only on demand |
| `G4Follows` | G4 and the authorizations imply each other, up to requests under way or lost |
| `DeliveredUnderControl` | a delivery rests on a decision, a draft and its approval at its version, and on two people |
| `ConfirmationRests`, `PerfectionRests` | what a confirmation was based on does not fall back |
| `SignedInOrder` | a signature stands on both gates and repeats the text before it |
| `AlertsAccounted` | every late obligation and failed test has one alert, where its dispositions led it |
| `LedgerAddsUp` | while it can be computed, the ledger accounts for every unit paid and not taken back, oldest bucket first |
| `SettledClean`, `StrategyDual` | a settlement rests on its own clean check; a strategy was approved by another person |

Why the bounds are enough to be interesting. Every race in the queue needs an
old holder and a new one (two runs), a second delivery (two messages), and an
attempt that is not the last (two attempts). The orchestrator's races need two
ticks (two processes), an edge of the graph with a human gate on it (two nodes)
and an old version (two versions). The disbursement's need a check and the
effect of another request (two requests), a stale version and a second attempt,
which may start while the call of the first is running; two people are the fewest
who can pass the dual control, so every rule about who did what is tight.
The uploads need a holder, a request that takes its lease over and a competitor
with another key or intent (three requests, two keys, two intents), equal and
different bytes (two contents), and time for a lease to run out twice and for an
intent to expire (three ticks). A desk's need a check, another request's write in
between (two requests) and two people; a new version below a request (two
versions), and a third one where two revisions of one version must not both
count (risk). A candidate field may be extracted by one worker
after another one has left it out; two gaps, two actions and two conditions let the
set grow between a read and a write; two dispositions let a latest one be
overruled; three references let a payment be reversed twice; three package
versions leave room for a redline and a signature. The schedules of the
calculators contain terms and principals that do not divide, a rate of zero and
one that rounds. The proofs remove the bounds where they exist: that
a handoff of several fields and documents holds, or that a gate stands after any
number of dispositions, is what section 5 is for.

Named bounds: `MaxAttempts` (in `TaskQueue` the code's own limit), `MaxVersion`,
`LatestVersion` (the version a desk of the preparation is taken to by a revision
from outside it), `MaxCheckpoints`, `MaxFaults`, `MaxRequests`, `MaxAttempts` of
`Disbursement` (the executions requested for a version), `MaxTime` of `Uploads`, `MaxNeeds` and
`MaxSnapshots` (versions appended), `MaxLosses` (leases lost), `MaxItems` (the
optional items of all drafts), `MaxBudget`, `LegLimit` and `MaxStale` of
`Retrieval`, `MaxDispositions`, `MaxRecorded`, `MaxPackages`, `MaxCount` (the
obligations of a schedule), `MaxChecks`, `LastDay`. The gap desk stays at one
version, since gaps, batch, dispositions and gate are all of one version.

Deadlock is checked in the queue and disbursement runs; everywhere else the
system may really stop, when no human acts or every request has been answered.

Symmetry is used in the safety runs only: runs, messages, processes and requests
are interchangeable, and in the uploads also intents, keys and contents. In the
runs of `Preparation` and `Fulfilment` one desk is at work, so the desks draw on
the same few model values: the runners of the specialists are requests, the workers
of the ingestion are people, and a gap, an opinion and an action are each an `x`.

## 4. Fairness

`TaskQueue!Fairness`: a run that has begun goes on unless it is killed (its
steps are awaits that return or raise); a processor ends (its calls have
timeouts); Cloud Scheduler keeps starting executions, so the slot is taken
again; leases, slots, visibility timeouts and backoffs are durations, so they
end once nobody renews them. Reading is strongly fair per message: `read_one`
hides a message for minutes, during which the others are read.

`Orchestration!Fairness`: a process that has begun goes on, the sweep gives back
what it may, executions keep coming to delivered messages. No human is bound to
act, and no fairness is assumed for dispatching: whatever dispatches is a step
of a process that has begun.

`orchestration_liveness` has no faults on purpose. With a fault a tick or an
event may be lost and nothing restarts it (section 6).

No liveness is stated about the desks: no human is bound to act, and no
background process finishes what a lost request left behind.

## 5. Proofs

The proofs hold for every value of the constants that satisfies the assumptions
named in the modules. The sets of runs, messages, processes, people, requests,
intents, keys, documents, gaps and so on are arbitrary, finite or not. What is
assumed: limits are naturals, markers such as `Nobody` are none of the values they
stand beside, the roles and the gates the code names are among `Staff` and
`GateTypes`, a task type without predecessors waits for the intake gate
(`IntakeAssumption`: the template in `dependencies.py` is like that), and the
drivers and shocks of a scenario are not negative (`ScenariosAssumption`:
`_reject_negative` and the bounds of `ScenarioSpec`). Principals, rates and terms
are naturals and a term is at least one (`TermsAssumption`), installments have
natural parts and an event an amount above zero (`RepaymentsAssumption`),
there are finitely many passages, each with a natural cost, and a region is of one
document (`RetrievalAssumption`: a foreign key).
What an input may be drawn from is part of what the code's types allow
(`ReviewAssumption`, `BatchAssumption`, `RiskAssumption`).

One argument recurs. Handlers read in one transaction and write in another, so an
invariant about rows is not inductive by itself: the write relies on something
found earlier. The strengthening says, for every request or process under way and
wherever it is, that *what it has found is still so*. That is inductive because
records are only added, or frozen once somebody has looked at them, and because a
unique index or a guarded update refuses the write where they are not.

The other argument is about sums and recursions, which the code has wherever it
computes. An operator of the provers' library that folds over a set says nothing by
itself; `FoldFacts` proves that there is one additive function on the subsets of a
finite set, and from that what a sum is when an element is taken out, that equal
and smaller terms give equal and smaller sums, and that differences telescope.
Induction is over the set of numbers for which something holds (`SetInduction`),
which needs no operator parameter; the same gives the recursive functions
(`RecursionExists`) and the sequence of a finite set under an order
(`SequenceOfSet`).

**TaskQueue.** `IInv` is types, `MessageInHand` (an execution past `read_one`
has a message that was sent), `LeaseDiscipline` (a row carries a token exactly
while RUNNING, and the run it names is at work on that task), `RetryBudget`,
`ArchivesFinished` (between the durable transition and the archive the task has
already ended), `ArchivedOnlyTerminal` and `ResumesFromLatest`. The archive
property is not inductive alone: the step that archives needs
`ArchivesFinished`, whose step needs that a terminal status is never left, which
needs that a write is fenced by the token and that a token means RUNNING. From
`IInv` follow its invariants, the refinement of `TaskLifecycle`
(`QueueImplementsLifecycle`: every step is a step of the life cycle or a
stutter), `DocumentCheckpointsAccepted` (if every task has a document version)
and `LiveLeases` (if the clocks agree).

**Disbursement.** `ControlInv` is types, `RowsControlled` (what a row and its
gates rest on) and `FoundStillHolds` (what a request found when it checked still
holds when it acts). The point is the second: `execute` and `authorize` check in
one transaction and act in another, and the dual control survives because
decisions, gates and creators are written once.

`FundsInv` is `MovementsAccounted`, `ExecutedVouched` and `AnswersTrue` (a request
that carries CONFIRMED_EXECUTED has moved the funds). It assumes nothing of what a
human claims in a reconciliation, or when. The movements cannot be compared with
the requests alone: a running adapter call has yet to move the funds, so the
invariant counts the calls under way, a cardinality that a request raises by one
and an answer or a crash lowers (`CallBegins`, `CallAnswered`, `CallsNoMore`).
From it follows `moved <= 1 + reopened`: funds move again only after a human has
declared in writing that they did not. That they move at most once does not
follow, and is false (section 6).

**Uploads.** `UploadInv` is types, `RequestInv` (what a request verified and
copied stays so while it holds no row), `LedgerInv` (completed records and
consumed intents point at each other), `HolderInv` (an open phase 2 is alone with
its intent and its key), `AnswerInv` (an answer is the response in the record of
its intent) and `DocumentInv`. `OneRegistration` rests on the unique indexes and
on `InsertedInv`; `AnswersAgree` is not inductive alone: it needs that an intent
has one completed record (`LedgerInv`), which needs that nobody else commits for
an intent whose phase 2 is open (`HolderInv`). `SettledForever` and
`LeaseRespected` are action properties that follow from the same invariant.

**Orchestration.** `IInv` is types, `Holding` (a held task is RUNNING and has one
holder), `NotAhead`, `IntakeRests` (a derived intake gate, a version with work and
every version but the first have a handoff), `SnapshotHolds`, `Gated`,
`EventsCover` (a task that was never started has an unsent event or a message) and
`SupersededOld`. `WorkGated` needs `SnapshotHolds`: an advance schedules from gates
and successes it has read two statements earlier, and what it found still holds
because nothing is taken back. That is a theorem of its own (`NothingTakenBack`):
no step takes back a version, a handoff, a gate, a task or a success.

**Fulfilment.** `IInv` is types, `OthersUntouched` (a desk that is not at work has
written nothing, and its gates are open) and one invariant for each desk. Each says
what a request has found and still finds: the decision and draft of a delivery
(`NoteFound`), a settled list of conditions (`LedgerFound`) or of perfection items
(`ItemFound`), the package a signature repeats (`PackageFound`), the alert a
disposition moves, the clean check of a settlement (`CheckFound`), the recovery
case that is approved (`RecoveryNamed`). `ConfirmationRests` and `PerfectionRests`
need in addition that settled rows have no way back but the ones the property
allows.

`LedgerAddsUp` is about every history that can be computed (`LedgerReconciles`): the
net amount is not negative, because each payment is at least its reversals
(`NetPaidNat`, one payment after the other); what remains after a bucket goes down by what the
bucket took (`RemainingFacts`) and stays a natural, so the allocations telescope to
the net amount; a bucket that took something left nothing owing before it, which
is an induction from there down; and the allocations equal the demands as a whole
exactly if they do one by one (`SumTight`). What a history needs for that
(`HistoryStep`) is that it is finite and that a reversal names a recorded payment.

**Preparation.** `IInv` is again `OthersUntouched` and one invariant for each desk
(`DeskHolds`, `SpecialistsInv`, `WorkHolds`).

- `NeedConfirmed`: a request has a number that is at most the next one
  (`NumberFound`), so the unique constraint leaves only the next number.
- `HandoffHolds`: a document at review keeps its candidates and a candidate its
  confirmation, so what a completion read before its recheck is what it freezes.
- `GapsCarried` and the first part of `CitesResolve`: whoever
  may persist has the draft of the checkpoint (`DraftStands`), and whoever could
  replace that checkpoint has lost the lease (`InTime`). So runners that persist
  without a lease persist the same draft.
- `GatesVouch` and `G4Follows`: batches, reviews, dispositions, packages and
  authorizations are only added, so what a gate was derived from has at most grown;
  at G3 a request that would revise finds its demand still on record.
- `EvidenceNotGuessed`: a composed result is known exactly if its parts are
  (`ComposedKnown`), down to the confirmed figures; the checklist by its cases.
- The scenarios (`ScenariosExact`): rounding is monotone (`HalfUpGrows`), a shock
  keeps a missing driver missing, and the gap is an exact difference.
- The schedules (`ScheduleReconciles`, with the scenarios `FiguresReconcile`): the
  balance after a row is the principal less the rows so far (`BalanceIs`), so the
  last row closes it exactly and the principal parts telescope. That interest is
  not negative needs more than that a balance is not: with equal parts a rounded
  balance may pass below zero, and then interest is owed backwards. The openings
  of row n and row term + 1 - n together never owe less than nothing (`OpeningsPair`,
  `InterestOfPair`), and a sum is the same from its end (`SumFromEnd`).
- The retrieval (`AnswerAccounted`): the merged order is total on what was ranked
  (`BeforeOrders`: two passages of one rank differ in who was seen first), so the
  ranking of a finite set exists and has its passages once (`InOrderFacts`); the
  better rank puts the first k of either search before the rest (`TopsFirst`); the
  tokens grow with the passages, so the packing is one beginning of the ranking
  (`PackedFacts`), and what is left of the ranking is excluded as one set.
  Staleness is never taken back, so an exclusion keeps its reason.
- The drafts (`Traceable`): what an author may cite only grows
  (`CitableGrows`), nobody writes twice, and who reads an assessment found it
  written, so the challenges and requests computed from it stay complete.
- `TypeOK` has parts that need an argument: the numbers of needs and snapshots stay
  within what a request checked before others appended (`NumberFound`), one
  assessment is stored for a version and maker, the dispositions recorded are
  counted by a sum (`OneMoreRecorded`), and what is authorized, approved or
  interrupted is of a package that proposed it, though the request found the
  package two transactions earlier (`AuthorizationFound`).

The inductive invariants were also checked with TLC, on the instances of section 3.
What the proofs changed in the models: in `CollateralChecklist` two cases of a
document's gap overlapped (which one counts was left to TLC), the limits that the
proofs rest on became named assumptions, and recursive operators became recursive
functions and sums.

Every invariant and every action property that a run checks has a theorem. Only
model-checked are

- liveness (`NoStrandedTask`, `EventuallyArchived`, `ReadyStarted`): the prover
  handles neither fairness nor ENABLED;
- the disagreements of section 6, each shown by a violation.

Proved and not in a run: `RetryBudget`, `OriginalsKept`, `Settled`, `LeaseKept` and
`Kept` of `Orchestration`, which were checked with TLC before they were proved.

## 6. Where the code and its documentation disagree

| Run | What TLC shows |
|---|---|
| `task_queue_agent_checkpoint` | the checkpoint of an agent task is refused by a NOT NULL column |
| `revision_evidence` | after a revision the makers are shown none of the facts the handoff names |
| `case_lost` | after a revision the case is not found by its own assignees |
| `repayments_reversals` | two reversals of one payment are recorded, and the ledger cannot be computed any more |

`PROJECT.json` quotes the sentence each one contradicts. The agent-checkpoint
finding means that with the migrated schema a specialist task fails at its first
checkpoint; `Orchestration` and `Specialists` describe the system with that
repaired. `case_lost` means that what the desks do at a later version presupposes
a financing request put on record outside the API, as the service role can and as
`supabase/tests/financing_requests_test.sql` does.

Further disagreements, seen while modelling and not kept as runs:

- *Old tasks.* `request_maker_revision.py:22-25` says that AdvanceCase "fences the
  old-version tasks as superseded". It only lists their ids in an audit event
  (`advance.py:145`). `claim` refuses such a task, nothing ends it, and its message
  is delivered again and again.
- *Manual advance.* A lost tick is logged with "the task result is durable and the
  case can be advanced manually" (`worker/main.py:273-274` and three APIs). The
  manual advance has no trigger reference, so its key is one per version
  (`kickoff.py:53-54`): once that plan task exists, it creates nothing.
- *Stranded events.* Migration 0007 says that "a crash between commit and send can
  never strand invisible work"; nothing sweeps the outbox. The event waits for the
  next human request or task success.
- *Blocking gaps.* `readiness.py:72-73` says that "a candidate whose inputs have a
  blocking gap is never started (property b)". A gap is mapped to the type of the
  task it was raised by, which already runs, and not to its successors.
- *Funds moved twice.* Migration 0021 (`:31-33`) and `domain/disbursements.py:257`
  say that the idempotency key of an attempt means "a duplicate delivery can never
  move money twice". Each execution draws a key of its own (`api/disbursements.py:609`),
  so only the status of the row keeps two attempts apart, and `reconcile_action`
  (`postgres/disbursements.py:322`) takes EXECUTION_REQUESTED too, the status of a
  call that is running. A human who reports truly that nothing has moved yet reopens
  the action; a second execution starts, and both calls move the funds. With
  `moved[v] <= 1` as an invariant TLC shows it in 22 steps. From the same reopening
  a row may say CONFIRMED_NOT_EXECUTED although the funds have moved since; and
  though `domain/disbursements.py:24` says that "only a human reconciliation may
  resolve" an EXECUTION_UNKNOWN, the late result of the first attempt then resolves
  that of the second. So neither is claimed: `MovementsAccounted` and
  `ExecutedVouched` are what holds with all of this happening.
- *Unknown tasks.* `run_worker_once.py:59` says that an unknown task "fails closed
  (FAILED_MANUAL_REVIEW with audit)"; it is retried until its attempts are used up.
- *Blind pre-analysis.* Of two runners that persist one, the loser goes on with its
  own opinion although the row is the other's (`risk_review/processor.py:396`,
  `:416-417`).

And what a reader of the models may find surprising, though no sentence of the
repository denies it:

- A redline may be added after the approval gate and is then what gets signed
  (`postgres/contract_packages.py:448`). `MATERIAL_CHANGE_DETECTED` cannot be
  answered: every path to it is refused earlier.
- After a crash between the signature evidence and its gate, or between the
  approval of a recovery strategy and its gate, the retry is refused as already
  done and the gate stays open.
- A condition superseded by hand blocks the confirmation of its version for good.
- A persisted gap batch may be older than the gaps that are open; the hash refuses
  to satisfy G2 from it, but it is the current batch.
- An assessment persisted late by an old version is the latest of the case; reviews
  answer STALE_ASSESSMENT until another one is persisted.
- A repeated confirmation of the financing need answers with the new reference
  while the gate keeps the first (`api/financing.py:362-396`).
- The recommended amount may cite any calculator result, whatever it computes
  (`domain/underwriting.py:140-163`); a memo statement may cite the path of a gap.
- A visibility challenge of the risk review never fires; its distinct citation count
  is a plain sum.
- Confirmed facts never go stale: nothing sets `stale_at`. In the retrieval a
  document that goes stale between search and hydration still yields a hit, against
  `postgres/retrieval.py:4-6`; a passage that goes stale before the search is
  dropped without a record; `max_nodes` limits a walk that has no order.
- With equal principal parts the rounded balance of a schedule may pass below zero
  before the last row corrects it.

## 7. Abstractions

- A repository call is atomic: each is one transaction with row locks or one
  statement. Read-only calls between two checks are merged only when what they
  read never changes back.
- Payloads, texts, audit events and HTTP bodies are left out, and amounts where no
  rule computes with them. A refusal of a body is the request ending.
- What a model, a parser or a classifier answers is a choice from a small set; what
  the code does with the answer is modelled.
- Times are left to nondeterminism except for what orders them: an expiry is an
  action, and the fairness says that it comes.
- Access checks are a role (`Staff`). In the instances everybody holds every role,
  so only the rules about who did what keep people apart.
- The adapter of the disbursement is a mock in the repository. The model gives it
  the result set of the code and, for an unknown result, both possibilities. It runs
  in the process of the request: a call whose process dies has moved the funds
  already or never will.
- Rows are ordered by the commit that inserts them; the code reads them by
  `created_at`, which is drawn within the transaction. That matters where a latest
  row governs: the dispositions of the risk review and the latest assessment.
- A worker may persist a review of the risk late, for a version the case has left,
  and the latest review is then of that version (`latestReview`). It does not
  happen: a version is left only by a disposition on its own review, which is
  stored once.
- A dispatcher of the outbox reads all unsent events; the code reads the first 32,
  and leaves the rest to the next dispatch.
- `document_versions.stale_at` is read by `claim` but no code sets it, so the
  condition is left out of `TaskQueue`; `Retrieval` lets it be set.
- Retrieval stays within one case version; its branch UNAUTHORIZED_SCOPE is
  unreachable, since both searches filter by the case, and is left out.

## 8. Not modelled

Governance manifests (constants compared at start), reporting, audit search and
work items (reads only), authentication and demo sessions (roles are inputs), the
dispatch call that starts an execution, the web client, benchmarks and deployment.
Of the model gateway: HTTP, streaming and the extraction of JSON from text; the one
repeated request after an invalid answer is in `Drafting`. Of the orchestrator:
the planner's proposed ordering, which never changes what is scheduled.
Of the specialists: prompts and wording. Of the calculators: precision below the
quantum.

## 9. Plan

Done: all the modules of section 2, and a theorem for every safety property that a
run checks.

What would come next:

1. That `Specialists` implements an abstract agent that drafts once, and `Uploads`
   an abstract register of documents.
2. The branch of the blind pre-analysis (section 6) as a property of `Specialists`.
3. Two desks at work at once, where a later change to the code lets one read what
   another one writes.
