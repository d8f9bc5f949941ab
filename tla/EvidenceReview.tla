----------------------------- MODULE EvidenceReview -----------------------------
(****************************************************************************)
(* The officer's review of what was extracted from a document               *)
(* (api/evidence_review.py): a batch disposes of every candidate that the   *)
(* handler finds, and is recorded if the document is then ready for review. *)
(****************************************************************************)
EXTENDS Ingestion

CONSTANT Dispositions

VARIABLES
  confirmation, \* fact_confirmations: the disposition of a candidate, or "none"
  facts         \* confirmed_facts, by their candidate

confirmations == <<confirmation, facts>>

\* A candidate is a field proposed for a document.
Candidates == Documents \X Fields

FactDisposition == {"ACCEPTED", "CORRECTED", "ABSENT", "UNREADABLE"}
DERIVES_CONFIRMED_FACT == {"ACCEPTED", "CORRECTED"}

ASSUME ReviewAssumption == Dispositions \subseteq FactDisposition

CandidatesOf(D) == {c \in D \X Fields : c[2] \in extracted[c[1]]}

Confirmed == {c \in Candidates : confirmation[c] # "none"}

ReviewInit ==
  /\ confirmation = [c \in Candidates |-> "none"]
  /\ facts = {}

ReviewTypeOK ==
  /\ confirmation \in [Candidates -> Dispositions \cup {"none"}]
  /\ facts \subseteq Candidates

\* A batch names each candidate of the review the handler loaded exactly once.
\* The review does not say that the document is ready for it.
CheckConfirmations(r, d, batch) ==
  /\ document[d].ver # 0
  /\ DOMAIN batch = CandidatesOf({d})
  /\ BeginAny(r, "confirm", "INTAKE_OFFICER", document[d].ver,
              [doc |-> d, batch |-> batch])
  /\ UNCHANGED <<files, confirmations>>

\* on conflict (candidate_fact_id) do nothing
New(batch) == {c \in DOMAIN batch : confirmation[c] = "none"}

\* The row is locked and its stage checked; the candidates are not read again.
\* The facts that follow from new confirmations are written with them.
RecordConfirmations(r) ==
  /\ Doing(r, "confirm")
  /\ LET batch == req[r].arg.batch IN
     IF document[req[r].arg.doc].stage = READY_FOR_OFFICER_REVIEW
       THEN /\ confirmation' =
                 [c \in Candidates |-> IF c \in New(batch) THEN batch[c]
                                       ELSE confirmation[c]]
            /\ facts' =
                 facts \cup {c \in New(batch) : batch[c] \in DERIVES_CONFIRMED_FACT}
       ELSE UNCHANGED confirmations
  /\ Done(r)
  /\ UNCHANGED <<caseVersion, gate, files>>

ReviewNext(r) ==
  \/ \E d \in Documents : \E batch \in [CandidatesOf({d}) -> Dispositions] :
       CheckConfirmations(r, d, batch)
  \/ RecordConfirmations(r)
================================================================================
