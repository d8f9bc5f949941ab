----------------------------- MODULE Notifications -----------------------------
(****************************************************************************)
(* The credit notification (api/notifications.py): an officer drafts it     *)
(* from a permitting decision, an officer approves the draft, and another   *)
(* officer records its delivery.                                            *)
(*                                                                          *)
(* load_draft finds the draft of the highest version that has one, which is *)
(* not always the current version of the case.                              *)
(****************************************************************************)
EXTENDS CreditDecision

VARIABLES
  draft,    \* created_by of the draft of a version, Nobody before
  receipt   \* recorded_by of its communication receipt, Nobody before

notified == <<draft, receipt>>

NotificationInit ==
  /\ draft = [v \in Versions |-> Nobody]
  /\ receipt = [v \in Versions |-> Nobody]

NotificationTypeOK ==
  /\ draft \in [Versions -> Actors \cup {Nobody}]
  /\ receipt \in [Versions -> Actors \cup {Nobody}]

LatestDraft(v) ==
  draft[v] # Nobody /\ \A w \in Versions : w > v => draft[w] = Nobody

\* _load_permitting_decision, before the transaction of the insert.
CheckDraft(r, a) ==
  /\ Permits(caseVersion)
  /\ Begin(r, "draft", a, "OPS_OFFICER", caseVersion, Nobody)
  /\ UNCHANGED <<decided, notified>>

CreateDraft(r) ==
  LET v == req[r].ver IN
  /\ Doing(r, "draft")
  /\ draft' = [draft EXCEPT ![v] = IF @ = Nobody THEN req[r].who ELSE @]
  /\ Done(r)
  /\ UNCHANGED <<caseVersion, gate, decided, receipt>>

\* The draft the request names must be the one load_draft finds.
CheckApproval(r, a, v) ==
  /\ LatestDraft(v)
  /\ Begin(r, "approve_draft", a, "OPS_OFFICER", v, Nobody)
  /\ UNCHANGED <<decided, notified>>

ApproveDraft(r) ==
  /\ Doing(r, "approve_draft")
  /\ Satisfy("HG_CREDIT_NOTIFICATION_APPROVED", req[r].ver, req[r].who)
  /\ Done(r)
  /\ UNCHANGED <<caseVersion, decided, notified>>

\* Mutant of MayDeliver: the approver may not deliver, the drafter may.
MayDeliverOwn(a, v) == gate["HG_CREDIT_NOTIFICATION_APPROVED"][v] # a

\* The maker of the draft may not deliver it.
MayDeliver(a, v) == draft[v] # a

\* The approval gate is looked up at the version of the draft.
Approved(v) == GateSeen("HG_CREDIT_NOTIFICATION_APPROVED", v)

CheckDelivery(r, a, v) ==
  /\ LatestDraft(v) /\ MayDeliver(a, v) /\ Approved(v)
  /\ Begin(r, "deliver", a, "OPS_OFFICER", v, Nobody)
  /\ UNCHANGED <<decided, notified>>

\* One receipt per draft; the first one stays.
RecordMockDelivery(r) ==
  LET v == req[r].ver IN
  /\ Doing(r, "deliver")
  /\ receipt' = [receipt EXCEPT ![v] = IF @ = Nobody THEN req[r].who ELSE @]
  /\ Done(r)
  /\ UNCHANGED <<caseVersion, gate, decided, draft>>

NotificationNext(r) ==
  \/ \E a \in Actors : CheckDraft(r, a)
  \/ \E a \in Actors, v \in Versions :
       CheckApproval(r, a, v) \/ CheckDelivery(r, a, v)
  \/ CreateDraft(r) \/ ApproveDraft(r) \/ RecordMockDelivery(r)
--------------------------------------------------------------------------------
\* What has been delivered rests, at its own version, on an approval decision, a
\* draft, the approval of that draft, and two different people; overlapping
\* requests and revisions of the case in between do not change that.
DeliveredUnderControl ==
  \A v \in Versions : receipt[v] # Nobody =>
    /\ Permits(v)
    /\ draft[v] # Nobody /\ draft[v] # receipt[v]
    /\ gate["HG_CREDIT_NOTIFICATION_APPROVED"][v] # Nobody
================================================================================
