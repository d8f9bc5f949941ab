------------------------------- MODULE Preparation -------------------------------
(****************************************************************************)
(* From the prospect and the registered documents to the gates in front of  *)
(* the credit decision. As in Fulfilment, a behaviour has one desk at work: *)
(* the origination, the intake, the specialists' tasks with what they       *)
(* compute, retrieve and write, and the operations behind each of the       *)
(* gates. What a desk gets from another one (a review, a package, new gaps) *)
(* arrives in its own module as an action of a worker.                      *)
(****************************************************************************)
EXTENDS Origination, Intake, Calculators, CollateralChecklist, Specialists,
        Retrieval, Drafting, GapRequests, MakerReviews, RiskDispositions, Operations

CONSTANTS
  Desks,         \* the desks under study
  LatestVersion  \* bound on the version a desk is taken to by a revision

ASSUME DesksAssumption ==
  Desks \subseteq {"origination", "intake", "figures", "checklist", "assessment",
                  "retrieval", "drafts", "gaps", "reviews", "risk", "operations"}

ASSUME RolesAssumption ==
  {"INTAKE_OFFICER", "UNDERWRITER", "LEGAL_REVIEWER", "RISK_REVIEWER", "OPS_OFFICER"}
    \subseteq DOMAIN Staff

ASSUME GatesAssumption ==
  {"HG_FINANCING_NEED_CONFIRMED", "G2_GAP_REQUEST_APPROVAL", "G3_RISK_DISPOSITION",
   "G4_OPS_AUTHORIZATION", "HG_LEGAL_ASSESSMENT_REVIEWED",
   "HG_UNDERWRITING_ASSESSMENT_REVIEWED", "HG_MAKER_SUBMISSION_CONFIRMED"}
    \subseteq GateTypes

VARIABLE desk

intake == <<files, confirmations, handoffs>>

\* The variables by the part of the work they belong to.
beginnings == <<origination, intake>>
computed == <<sheet, collateral>>
agents == <<specialists, retrieval, drafting>>
gateWork == <<gapRequests, assessed, riskDispositions, operations>>

vars == <<casework, beginnings, computed, agents, gateWork, desk>>

Init ==
  /\ CaseworkInit /\ OriginationInit
  /\ IngestionInit /\ ReviewInit /\ HandoffInit
  /\ SheetInit /\ ChecklistInit /\ SpecialistsInit
  /\ RetrievalInit /\ DraftingInit
  /\ GapRequestsInit /\ MakerReviewsInit /\ RiskDispositionsInit /\ OperationsInit
  /\ desk \in Desks

TypeOK ==
  /\ CaseworkTypeOK /\ OriginationTypeOK
  /\ IngestionTypeOK /\ ReviewTypeOK /\ HandoffTypeOK
  /\ SheetTypeOK /\ ChecklistTypeOK /\ SpecialistsTypeOK
  /\ RetrievalTypeOK /\ DraftingTypeOK
  /\ GapRequestsTypeOK /\ MakerReviewsTypeOK /\ RiskDispositionsTypeOK /\ OperationsTypeOK
  /\ desk \in Desks

Originate ==
  /\ desk = "origination"
  /\ OriginationNext
  /\ UNCHANGED <<intake, computed, agents, gateWork, desk>>

Prepare ==
  /\ desk = "intake"
  /\ \/ IngestionNext /\ UNCHANGED <<casework, confirmations, handoffs>>
     \/ \E r \in Requests :
          \/ ReviewNext(r) /\ UNCHANGED handoffs
          \/ IntakeNext(r)
     \/ caseVersion < LatestVersion /\ \E h \in handoffs : ReissueHandoff(h)
  /\ UNCHANGED <<origination, computed, agents, gateWork, desk>>

Compute ==
  /\ \/ desk = "figures" /\ CalculatorsNext /\ UNCHANGED collateral
     \/ desk = "checklist" /\ ChecklistNext /\ UNCHANGED sheet
  /\ UNCHANGED <<casework, beginnings, agents, gateWork, desk>>

Assess ==
  /\ desk = "assessment"
  /\ SpecialistsNext
  /\ UNCHANGED <<beginnings, computed, retrieval, drafting, gateWork, desk>>

RetrieveEvidence ==
  /\ desk = "retrieval"
  /\ RetrievalNext
  /\ UNCHANGED <<casework, beginnings, computed, specialists, drafting, gateWork, desk>>

DraftAssessments ==
  /\ desk = "drafts"
  /\ DraftingNext
  /\ UNCHANGED <<casework, beginnings, computed, specialists, retrieval, gateWork, desk>>

RequestEvidence ==
  /\ desk = "gaps"
  /\ GapRequestsNext
  /\ UNCHANGED <<beginnings, computed, agents, assessed, riskDispositions, operations, desk>>

ReviewAssessments ==
  /\ desk = "reviews"
  /\ MakerReviewsNext
  /\ UNCHANGED <<beginnings, computed, agents, gapRequests, riskDispositions, operations, desk>>

DisposeOfRisks ==
  /\ desk = "risk"
  /\ RiskDispositionsNext
  /\ UNCHANGED <<beginnings, computed, agents, gapRequests, assessed, operations, desk>>

Authorize ==
  /\ desk = "operations"
  /\ OperationsNext
  /\ UNCHANGED <<beginnings, computed, agents, gapRequests, assessed, riskDispositions, desk>>

\* The risk desk starts a version itself, the intake issues its handoff again, and
\* the operations desk keeps track of the requests it loses.  The gaps, a batch, its
\* dispositions and its gate are all of one version: that desk stays at it.
Around ==
  /\ \/ /\ desk \in {"origination", "assessment", "reviews", "operations"}
        /\ caseVersion < LatestVersion /\ NewVersion
     \/ desk # "operations" /\ \E r \in Requests : Lost(r)
  /\ UNCHANGED <<beginnings, computed, agents, gateWork, desk>>

Next ==
  \/ Originate \/ Prepare \/ Compute \/ Assess \/ RetrieveEvidence \/ DraftAssessments
  \/ RequestEvidence \/ ReviewAssessments \/ DisposeOfRisks \/ Authorize
  \/ Around

Spec == Init /\ [][Next]_vars
--------------------------------------------------------------------------------
\* What the confirmed facts do not say is a gap and never a figure, a scenario or a
\* document of the checklist.
EvidenceNotGuessed ==
  /\ desk = "figures" => NothingGuessed
  /\ desk = "checklist" => ChecklistSound

\* What is computed in several ways agrees: a schedule with its principal, each
\* scenario with its funding, its request and the base case.
FiguresReconcile == desk = "figures" => ScheduleReconciles /\ ScenariosReconcile

\* A gate of the preparation was satisfied by somebody who had the evidence for it:
\* the gap requests that were open, the dispositions of the review, an assessment
\* of the version; and at the risk desk a version is left only on demand.
GatesVouch ==
  /\ G2Knowing /\ G3Knowing /\ ReviewsVouch
  /\ desk = "risk" => RevisedOnDemand

\* What is written cites what was there: where the drafts are produced, across runs
\* and versions, in what a retrieval answers, and in what is kept of an answer.
CitesResolve ==
  /\ CitesWhatIsThere
  /\ desk = "retrieval" => AnswerAccounted
  /\ desk = "drafts" => Traceable
==================================================================================
