--------------------------------- MODULE Intake ---------------------------------
(****************************************************************************)
(* The completion of the intake (use_cases/complete_intake.py): when every  *)
(* candidate of the case version is disposed of, the evidence is frozen in  *)
(* a handoff, from which G1 is derived and the specialists are started. The *)
(* evidence is read by one query after the other, and nothing serialises    *)
(* the insert with another completion's.                                    *)
(****************************************************************************)
EXTENDS EvidenceReview

\* handoffs: the case version, the candidates and facts of the snapshot; and,
\* for the properties, which documents of the version were ready for review
\* when the completion began.
VARIABLE handoffs

HandoffInit == handoffs = {}

HandoffTypeOK ==
  \A h \in handoffs :
    /\ h.ver \in Versions
    /\ h.candidates \subseteq Candidates /\ h.facts \subseteq h.candidates
    /\ h.ready \subseteq Documents

Handoffs(v) == {h \in handoffs : h.ver = v}

\* No handoff of the version yet; the candidates are read.
CheckCompletion(r) ==
  LET v == caseVersion IN
  /\ Handoffs(v) = {}
  /\ BeginAny(r, "complete", "INTAKE_OFFICER", v,
              [candidates |-> CandidatesOf(Registered(v)), ready |-> Ready(v)])
  /\ UNCHANGED <<files, confirmations, handoffs>>

\* Mutant of Supported: a candidate without a confirmation is let through.
SupportedSoFar(S, v) == {c \in Confirmed : document[c[1]].ver = v} \subseteq S

\* _check_handoff: each candidate has its confirmation, and none is unknown.
Supported(S, v) == {c \in Confirmed : document[c[1]].ver = v} = S

\* The confirmations and the facts are read, and the artifact validated.
ReadConfirmations(r) ==
  LET a == req[r].arg IN
  /\ Doing(r, "complete")
  /\ req' = [req EXCEPT ![r] =
       IF Supported(a.candidates, @.ver)
         THEN [@ EXCEPT !.op = "hand off",
                        !.arg = [candidates |-> a.candidates,
                                 facts |-> facts \cap a.candidates,
                                 ready |-> a.ready]]
         ELSE Idle]
  /\ UNCHANGED <<caseVersion, gate, files, confirmations, handoffs>>

\* persist_handoff looks again for a handoff of the version, and for a task to
\* name as its source: there is one for every registered document.
RecheckHandoff(r) ==
  LET v == req[r].ver IN
  /\ Doing(r, "hand off")
  /\ req' = [req EXCEPT ![r] =
       IF Handoffs(v) = {} /\ Registered(v) # {} THEN [@ EXCEPT !.op = "insert"] ELSE Idle]
  /\ UNCHANGED <<caseVersion, gate, files, confirmations, handoffs>>

InsertHandoff(r) ==
  LET a == req[r].arg IN
  /\ Doing(r, "insert")
  /\ handoffs' = handoffs \cup
       {[ver |-> req[r].ver, candidates |-> a.candidates, facts |-> a.facts,
         ready |-> a.ready]}
  /\ Done(r)
  /\ UNCHANGED <<caseVersion, gate, files, confirmations>>

\* A maker revision issues the latest handoff again at the new version.
ReissueHandoff(h) ==
  /\ h \in Handoffs(caseVersion)
  /\ NewVersion
  /\ handoffs' = handoffs \cup {[h EXCEPT !.ver = caseVersion']}
  /\ UNCHANGED <<files, confirmations>>

IntakeNext(r) ==
  CheckCompletion(r) \/ ReadConfirmations(r) \/ RecheckHandoff(r) \/ InsertHandoff(r)
--------------------------------------------------------------------------------
\* A handoff keeps telling what the officers decided: of the documents that were
\* ready when the completion began every candidate is in it, each has its
\* confirmation, and its facts are those of the confirmations that accept or
\* correct a value, although workers, reviews and completions overlap.
HandoffHolds ==
  \A h \in handoffs :
    /\ CandidatesOf(h.ready) \subseteq h.candidates
    /\ h.candidates \subseteq Confirmed
    /\ h.facts = {c \in h.candidates : confirmation[c] \in DERIVES_CONFIRMED_FACT}

\* load_evidence_view: the facts of the documents registered at a version.
EvidenceView(v) == {c \in facts : document[c[1]].ver = v}

\* "so the maker analysis reruns on the new version while the evidence base carries
\* forward unchanged" (use_cases/request_maker_revision.py): what a handoff froze
\* is what the makers of its version are shown.
EvidenceCarried == \A h \in handoffs : h.facts \subseteq EvidenceView(h.ver)
================================================================================
