------------------------------ MODULE MakerReviews ------------------------------
(****************************************************************************)
(* The human review of the makers' assessments and the submission of the    *)
(* proposal (api/legal.py, api/underwriting.py). What is reviewed is the    *)
(* assessment stored last for the case, whichever version it belongs to,    *)
(* and it must belong to the version the handler has loaded.                *)
(****************************************************************************)
EXTENDS Casework, Sequences

Makers == {"UNDERWRITING", "LEGAL"}

\* The role that reviews a maker's assessment, and the gate of its review.
Reviewer == [UNDERWRITING |-> "UNDERWRITER", LEGAL |-> "LEGAL_REVIEWER"]
ReviewGate ==
  [UNDERWRITING |-> "HG_UNDERWRITING_ASSESSMENT_REVIEWED",
   LEGAL |-> "HG_LEGAL_ASSESSMENT_REVIEWED"]

\* The versions of a maker's assessments, in the order they were stored.
VARIABLE assessed

MakerReviewsInit == assessed = [m \in Makers |-> <<>>]

MakerReviewsTypeOK ==
  \A m \in Makers :
    /\ \A i \in DOMAIN assessed[m] : assessed[m][i] \in Versions
    /\ \A i, j \in DOMAIN assessed[m] : assessed[m][i] = assessed[m][j] => i = j

Assessed(m, v) == \E i \in DOMAIN assessed[m] : assessed[m][i] = v

\* Mutant of PersistAssessment: a second delivery stores it once more.
PersistAssessmentAgain(m, v) ==
  /\ Len(assessed[m]) < MaxVersion
  /\ assessed' = [assessed EXCEPT ![m] = Append(@, v)]
  /\ UNCHANGED casework

\* A worker persists the output of the task of a version; the task may be one
\* of a version that the case has left since.
PersistAssessment(m, v) ==
  /\ ~Assessed(m, v)
  /\ assessed' = [assessed EXCEPT ![m] = Append(@, v)]
  /\ UNCHANGED casework

\* _require_current_assessment
Reviewable(m, v) == assessed[m] # <<>> /\ assessed[m][Len(assessed[m])] = v

CheckReview(r, m, a, v) ==
  /\ Reviewable(m, v)
  /\ Begin(r, "review", a, Reviewer[m], v, ReviewGate[m])
  /\ UNCHANGED assessed

\* Submission never leapfrogs the review of the version.
CheckSubmission(r, a, v) ==
  /\ Reviewable("UNDERWRITING", v)
  /\ GateSeen(ReviewGate["UNDERWRITING"], v)
  /\ Begin(r, "submit", a, "UNDERWRITER", v, "HG_MAKER_SUBMISSION_CONFIRMED")
  /\ UNCHANGED assessed

SatisfyReviewGate(r) ==
  /\ req[r].op \in {"review", "submit"}
  /\ Satisfy(req[r].arg, req[r].ver, req[r].who)
  /\ Done(r)
  /\ UNCHANGED <<caseVersion, assessed>>

MakerReviewsNext ==
  \/ \E m \in Makers, v \in VersionRead : PersistAssessment(m, v)
  \/ \E r \in Requests, a \in Actors, v \in VersionRead :
       \/ (\E m \in Makers : CheckReview(r, m, a, v))
       \/ CheckSubmission(r, a, v)
  \/ \E r \in Requests : SatisfyReviewGate(r)
--------------------------------------------------------------------------------
\* A gate of a version vouches for an assessment of that very version, and a
\* proposal is submitted at a version whose assessment was reviewed at it.
ReviewsVouch ==
  \A v \in Versions :
    /\ \A m \in Makers : gate[ReviewGate[m]][v] # Nobody => Assessed(m, v)
    /\ gate["HG_MAKER_SUBMISSION_CONFIRMED"][v] # Nobody =>
         gate[ReviewGate["UNDERWRITING"]][v] # Nobody

================================================================================
