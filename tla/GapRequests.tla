------------------------------ MODULE GapRequests ------------------------------
(****************************************************************************)
(* The requests for missing evidence and gate G2 (api/gap_requests.py): the *)
(* open gaps of the case version are drawn up as a batch, an officer        *)
(* disposes of the current batch, and G2 is satisfied if the batch still    *)
(* names the gaps that are open. Reading the gaps, persisting the batch,    *)
(* recording the disposition, reading the gaps again and satisfying the     *)
(* gate are calls of their own.                                             *)
(****************************************************************************)
EXTENDS Casework, Sequences

CONSTANTS
  Gaps,             \* evidence gaps that may be open on a case version
  DispositionTypes, \* the types of disposition under study
  MaxDispositions   \* bound on the dispositions recorded

VARIABLES
  openGaps,     \* evidence_gaps: those that are open on a case version
  batches,      \* gap_request_batches, in the order of their creation
  dispositions  \* their dispositions, each with the gaps open when it was recorded

gapRequests == <<openGaps, batches, dispositions>>

BatchDispositionType ==
  {"APPROVED_ALL", "APPROVED_WITH_CHANGES", "REJECTED", "NO_OUTBOUND_REQUESTS"}
SATISFYING_DISPOSITIONS == BatchDispositionType \ {"REJECTED"}

ASSUME BatchAssumption == DispositionTypes \subseteq BatchDispositionType

GapRequestsInit ==
  /\ openGaps = [v \in Versions |-> {}]
  /\ batches = <<>>
  /\ dispositions = {}

GapRequestsTypeOK ==
  /\ openGaps \in [Versions -> SUBSET Gaps]
  /\ \A i \in DOMAIN batches :
       batches[i].ver \in Versions /\ batches[i].gaps \subseteq Gaps
  /\ \A d \in dispositions :
       /\ d.batch \in DOMAIN batches /\ d.type \in DispositionTypes
       /\ d.who \in Actors /\ d.open \subseteq Gaps

\* A specialist's output is persisted with its gaps; nothing closes them.
RaiseGaps(v, new) ==
  /\ new # {} /\ new \cap openGaps[v] = {}
  /\ openGaps' = [openGaps EXCEPT ![v] = @ \cup new]
  /\ UNCHANGED <<casework, batches, dispositions>>

\* load_open_gaps: the request has the snapshot it will draw up.
ReadOpenGaps(r) ==
  /\ BeginAny(r, "assemble", "INTAKE_OFFICER", caseVersion, [gaps |-> openGaps[caseVersion]])
  /\ UNCHANGED gapRequests

\* persist_batch: one batch per snapshot; a second one gets the first.
PersistBatch(r) ==
  LET batch == [ver |-> req[r].ver, gaps |-> req[r].arg.gaps] IN
  /\ Doing(r, "assemble")
  /\ batches' = IF \E i \in DOMAIN batches : batches[i] = batch THEN batches
                ELSE Append(batches, batch)
  /\ Done(r)
  /\ UNCHANGED <<caseVersion, gate, openGaps, dispositions>>

BatchesOf(v) == {i \in DOMAIN batches : batches[i].ver = v}

\* load_current_batch: the one created last.
Current(v) == {i \in BatchesOf(v) : \A j \in BatchesOf(v) : j <= i}

\* assert_disposition_matches_batch, as far as an empty batch is concerned.
Matches(type, gaps) ==
  CASE type = "NO_OUTBOUND_REQUESTS" -> gaps = {}
    [] type \in {"APPROVED_ALL", "APPROVED_WITH_CHANGES"} -> gaps # {}
    [] OTHER -> TRUE

CheckBatchDisposition(r, a, i, type) ==
  /\ i \in Current(caseVersion)
  /\ Matches(type, batches[i].gaps)
  /\ Begin(r, "dispose batch", a, "INTAKE_OFFICER", caseVersion, [batch |-> i, type |-> type])
  /\ UNCHANGED gapRequests

RecordBatchDisposition(r) ==
  LET d == req[r].arg IN
  /\ Doing(r, "dispose batch")
  /\ Cardinality(dispositions) < MaxDispositions
  /\ dispositions' = dispositions \cup
       {[batch |-> d.batch, type |-> d.type, who |-> req[r].who,
         open |-> openGaps[req[r].ver]]}
  /\ req' = [req EXCEPT ![r].op = "derive G2"]
  /\ UNCHANGED <<caseVersion, gate, openGaps, batches>>

\* The hash of the batch is the hash of the gaps that are open now.
Fresh(i, v) == batches[i].gaps = openGaps[v]

\* derive_g2_from_batch, for the request's own disposition.
DeriveG2(r) ==
  LET d == req[r].arg IN
  /\ Doing(r, "derive G2")
  /\ req' = [req EXCEPT ![r] =
       IF d.type \in SATISFYING_DISPOSITIONS /\ Fresh(d.batch, @.ver)
         THEN [@ EXCEPT !.op = "satisfy G2"] ELSE Idle]
  /\ UNCHANGED <<caseVersion, gate, gapRequests>>

SatisfyG2(r) ==
  /\ Doing(r, "satisfy G2")
  /\ Satisfy("G2_GAP_REQUEST_APPROVAL", req[r].ver, req[r].who)
  /\ Done(r)
  /\ UNCHANGED <<caseVersion, gapRequests>>

GapRequestsNext ==
  \/ \E new \in SUBSET Gaps : RaiseGaps(caseVersion, new)
  \/ \E r \in Requests :
       \/ ReadOpenGaps(r) \/ PersistBatch(r)
       \/ (\E a \in Actors, i \in DOMAIN batches, type \in DispositionTypes :
             CheckBatchDisposition(r, a, i, type))
       \/ RecordBatchDisposition(r) \/ DeriveG2(r) \/ SatisfyG2(r)
--------------------------------------------------------------------------------
\* Whoever satisfied G2 had disposed of a batch that named every gap then open
\* on the version, whatever specialists, other batches and other dispositions
\* came in between; it may have been rejected by somebody else meanwhile.
G2Knowing ==
  \A v \in Versions :
    LET a == gate["G2_GAP_REQUEST_APPROVAL"][v] IN
    a # Nobody =>
      \E d \in dispositions :
        /\ d.who = a /\ d.type \in SATISFYING_DISPOSITIONS
        /\ batches[d.batch].ver = v /\ batches[d.batch].gaps = d.open

================================================================================
