------------------------------- MODULE Ingestion -------------------------------
(****************************************************************************)
(* What a worker does to a registered document                              *)
(* (application/stages/ingestion_processor.py): it moves the row through    *)
(* the stages one by one, each move a guarded write of its own, sometimes   *)
(* together with what the stage produced, and each followed by a            *)
(* checkpoint. A task whose lease ran out is delivered again, while the     *)
(* worker that had it may still be running.                                 *)
(****************************************************************************)
EXTENDS Casework

CONSTANTS
  Documents,  \* what the officers register
  Fields,     \* what an extraction may propose for a document
  Workers

VARIABLES
  document,   \* document_versions: the case version of a row, 0 before it, and its stage
  extracted,  \* candidate_facts: the fields proposed for a document
  job,        \* what a worker is doing: the document, the stage it is at, and
              \* whether the move out of that stage awaits its checkpoint
  holder,     \* the worker whose lease on the document's task counts
  ingestion   \* the document's task: "open", "done", or "review" by hand

files == <<document, extracted, job, holder, ingestion>>

\* The stages by their rank, REGISTERED being 0.
SECURITY_VALIDATED == 1
PARSED == 2
CLASSIFIED == 3
EXTRACTED == 4
INDEXED == 5
READY_FOR_OFFICER_REVIEW == 6
Stages == 0..READY_FOR_OFFICER_REVIEW

NoJob == [doc |-> Nobody, at |-> 0, saving |-> FALSE]

IngestionInit ==
  /\ document = [d \in Documents |-> [ver |-> 0, stage |-> 0]]
  /\ extracted = [d \in Documents |-> {}]
  /\ job = [w \in Workers |-> NoJob]
  /\ holder = [d \in Documents |-> Nobody]
  /\ ingestion = [d \in Documents |-> "open"]

IngestionTypeOK ==
  /\ document \in [Documents -> [ver : 0..MaxVersion, stage : Stages]]
  /\ extracted \in [Documents -> SUBSET Fields]
  /\ job \in [Workers -> [doc : Documents \cup {Nobody}, at : Stages, saving : BOOLEAN]]
  /\ holder \in [Documents -> Workers \cup {Nobody}]
  /\ ingestion \in [Documents -> {"open", "done", "review"}]

Registered(v) == {d \in Documents : document[d].ver = v}
Ready(v) == {d \in Registered(v) : document[d].stage = READY_FOR_OFFICER_REVIEW}

\* An upload finishes: the row and its task are there, at the case version for
\* which the upload was begun.
Register(d, v) ==
  /\ document[d].ver = 0
  /\ v <= caseVersion
  /\ document' = [document EXCEPT ![d].ver = v]
  /\ UNCHANGED <<extracted, job, holder, ingestion>>

\* A delivery of the task takes the lease from whoever had it.  The worker goes
\* on from the row or the checkpoint, whichever is further; that is the row, for
\* it is written first and never goes back.
Deliver(w, d) ==
  /\ document[d].ver # 0 /\ ingestion[d] = "open"
  /\ job[w] = NoJob
  /\ job' = [job EXCEPT ![w] = [doc |-> d, at |-> document[d].stage, saving |-> FALSE]]
  /\ holder' = [holder EXCEPT ![d] = w]
  /\ UNCHANGED <<document, extracted, ingestion>>

At(w, S) == job[w].doc # Nobody /\ ~job[w].saving /\ job[w].at \in S

\* _advance_stage: the row is where the move starts, or was moved before.
CanAdvance(d, s) == document[d].stage \in {s, s + 1}

\* A guarded move; a row found elsewhere raises, and the attempt is over.
Move(w, fields) ==
  LET d == job[w].doc
      s == job[w].at IN
  /\ IF CanAdvance(d, s)
       THEN /\ document' = [document EXCEPT ![d].stage = s + 1]
            /\ extracted' = [extracted EXCEPT ![d] = @ \cup fields]
            /\ job' = [job EXCEPT ![w].saving = TRUE]
       ELSE /\ job' = [job EXCEPT ![w] = NoJob]
            /\ UNCHANGED <<document, extracted>>
  /\ UNCHANGED <<holder, ingestion>>

\* Validate, parse or classify, index (with or without embeddings), hand over.
Advance(w) ==
  /\ At(w, Stages \ {CLASSIFIED, READY_FOR_OFFICER_REVIEW})
  /\ Move(w, {})

\* Another run of the model may propose other fields; their rows are added.
Extract(w, fields) == At(w, {CLASSIFIED}) /\ Move(w, fields)

\* save_checkpoint is refused to a worker that lost its lease.
SaveCheckpoint(w) ==
  LET d == job[w].doc
      s == job[w].at + 1 IN
  /\ job[w].saving
  /\ IF holder[d] = w
       THEN job' = [job EXCEPT ![w] = [doc |-> d, at |-> s, saving |-> FALSE]]
       ELSE job' = [job EXCEPT ![w] = NoJob]
  /\ UNCHANGED <<document, extracted, holder, ingestion>>

\* The attempt ends, and so does the task if the lease is still the worker's.
Finish(w, outcome) ==
  LET d == job[w].doc IN
  /\ ingestion' = [ingestion EXCEPT ![d] = IF holder[d] = w THEN outcome ELSE @]
  /\ job' = [job EXCEPT ![w] = NoJob]
  /\ UNCHANGED <<document, extracted, holder>>

Complete(w) == At(w, {READY_FOR_OFFICER_REVIEW}) /\ Finish(w, "done")

\* An original that is missing, unsafe or unreadable, or no attempt left.
ManualReview(w) == At(w, 0..EXTRACTED) /\ Finish(w, "review")

\* A crash, a conflict or RETRY_WAIT: the task stays open.
GiveUp(w) ==
  /\ job[w] # NoJob
  /\ job' = [job EXCEPT ![w] = NoJob]
  /\ UNCHANGED <<document, extracted, holder, ingestion>>

IngestionNext ==
  \/ \E d \in Documents, v \in Versions : Register(d, v)
  \/ \E w \in Workers :
       \/ \E d \in Documents : Deliver(w, d)
       \/ Advance(w) \/ (\E fields \in SUBSET Fields : Extract(w, fields))
       \/ SaveCheckpoint(w) \/ Complete(w) \/ ManualReview(w) \/ GiveUp(w)
================================================================================
