---------------------------- MODULE RiskDispositions ----------------------------
(****************************************************************************)
(* The disposition of the independent risk review and gate G3               *)
(* (api/risk_review.py). A disposition is recorded on the latest review;    *)
(* then all of them are read, G3 is derived and satisfied, and a maker who  *)
(* must revise starts the next case version: each in a transaction of its   *)
(* own, while other reviewers record theirs.                                *)
(****************************************************************************)
EXTENDS Casework, Sequences, Functions

CONSTANTS
  Challenges,   \* the challenges of a review
  ReviewTypes,  \* the types of disposition under study
  MaxRecorded   \* bound on the dispositions recorded

VARIABLES
  review,       \* risk_review_assessments: <<>>, or <<the severe challenges>>
  latestReview, \* the version of the review stored last, 0 before the first
  recorded      \* challenge_dispositions of a version, in the order they were recorded

riskDispositions == <<review, latestReview, recorded>>

DispositionType == {"ACCEPTED_RISK", "MAKER_MUST_REVISE", "ESCALATED", "NOTED"}
G3_CONTINUE_DISPOSITION_TYPES == {"ACCEPTED_RISK", "NOTED"}

ASSUME RiskAssumption == ReviewTypes \subseteq DispositionType /\ MaxRecorded \in Nat

\* The target of a disposition that is about the whole assessment.
AssessmentLevel == "assessment"

RiskDispositionsInit ==
  /\ review = [v \in Versions |-> <<>>] /\ latestReview = 0
  /\ recorded = [v \in Versions |-> <<>>]

\* All dispositions of the case.
AllRecorded == SumFunctionOnSet([v \in Versions |-> Len(recorded[v])], Versions)

RiskDispositionsTypeOK ==
  /\ latestReview \in Versions \cup {0} /\ AllRecorded <= MaxRecorded
  /\ \A v \in Versions :
       /\ review[v] = <<>> \/ \E severe \in SUBSET Challenges : review[v] = <<severe>>
       /\ \A i \in DOMAIN recorded[v] :
            /\ recorded[v][i].on \in Challenges \cup {AssessmentLevel}
            /\ recorded[v][i].type \in ReviewTypes /\ recorded[v][i].who \in Actors

\* A worker persists the checker's output, once for a version; the task may be one
\* of a version that the case has left since.
PersistReview(v, severe) ==
  /\ review[v] = <<>>
  /\ review' = [review EXCEPT ![v] = <<severe>>] /\ latestReview' = v
  /\ UNCHANGED <<casework, recorded>>

Reviewed == {v \in Versions : review[v] # <<>>}

\* load_latest_assessment: of the case, whichever version it belongs to.  On the
\* assessment itself only NOTED is admitted.
CheckDisposition(r, a, v, on, type) ==
  /\ v \in Reviewed /\ v = latestReview
  /\ on = AssessmentLevel => type = "NOTED"
  /\ Begin(r, "dispose", a, "RISK_REVIEWER", v, [on |-> on, type |-> type])
  /\ UNCHANGED riskDispositions

RecordDisposition(r) ==
  LET v == req[r].ver IN
  /\ Doing(r, "dispose")
  /\ AllRecorded < MaxRecorded
  /\ recorded' = [recorded EXCEPT ![v] =
       Append(@, [on |-> req[r].arg.on, type |-> req[r].arg.type, who |-> req[r].who])]
  /\ req' = [req EXCEPT ![r].op = "derive G3"]
  /\ UNCHANGED <<caseVersion, gate, review, latestReview>>

\* The dispositions of a target among the first n.
About(s, n, on) == {i \in 1..n : s[i].on = on}

\* Mutant of Continues: some disposition of the target, not the latest, lets it go on.
ContinuesOnce(s, n, on) ==
  \E i \in About(s, n, on) : s[i].type \in G3_CONTINUE_DISPOSITION_TYPES

\* The latest disposition of the target governs.
Continues(s, n, on) ==
  \E i \in About(s, n, on) :
    /\ \A j \in About(s, n, on) : j <= i
    /\ s[i].type \in G3_CONTINUE_DISPOSITION_TYPES

\* derive_g3_status: every severe challenge, or the assessment if there is none.
G3Derived(v, n) ==
  LET severe == review[v][1]
      targets == IF severe = {} THEN {AssessmentLevel} ELSE severe
  IN \A on \in targets : Continues(recorded[v], n, on)

MustRevise(x) == x.on # AssessmentLevel /\ x.type = "MAKER_MUST_REVISE"

\* What a request still has to do once G3 is out of the way.
AfterG3(q) == IF MustRevise(q.arg) THEN [q EXCEPT !.op = "revise"] ELSE Idle

DeriveG3(r) ==
  LET v == req[r].ver IN
  /\ Doing(r, "derive G3")
  /\ req' = [req EXCEPT ![r] =
       IF G3Derived(v, Len(recorded[v])) THEN [@ EXCEPT !.op = "satisfy G3"] ELSE AfterG3(@)]
  /\ UNCHANGED <<caseVersion, gate, riskDispositions>>

SatisfyG3(r) ==
  /\ Doing(r, "satisfy G3")
  /\ Satisfy("G3_RISK_DISPOSITION", req[r].ver, req[r].who)
  /\ req' = [req EXCEPT ![r] = AfterG3(@)]
  /\ UNCHANGED <<caseVersion, riskDispositions>>

\* RequestMakerRevision: the case is still at the version of the disposition.
Expected(v) == caseVersion = v

\* A StaleCaseVersionError is swallowed; the disposition stays.
Revise(r) ==
  /\ Doing(r, "revise")
  /\ IF Expected(req[r].ver)
       THEN caseVersion < MaxVersion /\ caseVersion' = caseVersion + 1
       ELSE UNCHANGED caseVersion
  /\ Done(r)
  /\ UNCHANGED <<gate, riskDispositions>>

RiskDispositionsNext ==
  \/ \E v \in VersionRead, severe \in SUBSET Challenges : PersistReview(v, severe)
  \/ \E r \in Requests :
       \/ (\E a \in Actors, v \in Versions, on \in Challenges \cup {AssessmentLevel},
              type \in ReviewTypes : CheckDisposition(r, a, v, on, type))
       \/ RecordDisposition(r) \/ DeriveG3(r) \/ SatisfyG3(r) \/ Revise(r)
--------------------------------------------------------------------------------
\* Whoever satisfied G3 had recorded a disposition on the review of that version,
\* and there was a moment after it at which the latest disposition of every
\* severe challenge (of the assessment, if there is none) let the case go on.
G3Knowing ==
  \A v \in Versions :
    LET a == gate["G3_RISK_DISPOSITION"][v]
        severe == review[v][1]
        s == recorded[v]
    IN
    a # Nobody =>
      /\ v \in Reviewed
      /\ \E n \in DOMAIN s :
           /\ \E i \in 1..n : s[i].who = a
           /\ \A on \in IF severe = {} THEN {AssessmentLevel} ELSE severe :
                \E i \in 1..n :
                  /\ s[i].on = on /\ s[i].type \in {"ACCEPTED_RISK", "NOTED"}
                  /\ \A j \in (i + 1)..n : s[j].on # on

\* A version is left only because a maker must revise it, however many reviewers
\* ask for a revision of the same version and however late their requests arrive.
RevisedOnDemand ==
  \A v \in 1..(caseVersion - 1) : \E i \in DOMAIN recorded[v] : MustRevise(recorded[v][i])
================================================================================
