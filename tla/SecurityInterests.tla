--------------------------- MODULE SecurityInterests ---------------------------
(****************************************************************************)
(* The security-perfection ledger (api/security_interests.py): an interest  *)
(* per asset, requirements ("items") per interest, and the gate by which a  *)
(* checker confirms that every interest is perfected.                       *)
(*                                                                          *)
(* transition_item reads the item without a lock and updates it later in    *)
(* its transaction; what stands between two such transactions is the        *)
(* trigger on the table.                                                    *)
(****************************************************************************)
EXTENDS Casework

CONSTANTS InterestIds, ItemIds

ASSUME InterestsAssumption == Nobody \notin InterestIds

VARIABLES
  interest,   \* case version of each interest, 0 before it is created
  item,       \* interest, status, whether evidence is attached, and completed_by
  perfected   \* the interests and items a confirmation was based on

perfection == <<interest, item, perfected>>

PerfectionStatus ==
  {"PENDING", "EVIDENCE_ATTACHED", "COMPLETED", "NOT_REQUIRED_BY_HUMAN", "EXPIRED"}

NoItem == [of |-> Nobody, status |-> "PENDING", evidence |-> FALSE, by |-> Nobody]

\* The edges, in the domain and again in the trigger of the table.
ALLOWED_ITEM_TRANSITIONS(s) ==
  CASE s = "PENDING" -> {"EVIDENCE_ATTACHED", "NOT_REQUIRED_BY_HUMAN"}
    [] s = "EVIDENCE_ATTACHED" -> {"COMPLETED"}
    [] s = "COMPLETED" -> {"EXPIRED"}
    [] OTHER -> {}

TERMINAL_SATISFIED_STATUSES == {"COMPLETED", "NOT_REQUIRED_BY_HUMAN"}

PerfectionInit ==
  /\ interest = [i \in InterestIds |-> 0]
  /\ item = [k \in ItemIds |-> NoItem]
  /\ perfected = [v \in Versions |-> [interests |-> {}, items |-> {}]]

PerfectionTypeOK ==
  /\ interest \in [InterestIds -> 0..MaxVersion]
  /\ item \in [ItemIds -> [of : InterestIds \cup {Nobody},
                           status : PerfectionStatus, evidence : BOOLEAN,
                           by : Actors \cup {Nobody}]]
  /\ perfected \in [Versions ->
       [interests : SUBSET InterestIds, items : SUBSET ItemIds]]

\* LEGAL_REVIEWER and OPS_OFFICER share the writer role.
CheckInterest(r) ==
  /\ BeginAny(r, "add_interest", "WRITER", caseVersion, Nobody)
  /\ UNCHANGED perfection

CreateInterest(r, i) ==
  /\ Doing(r, "add_interest")
  /\ interest[i] = 0
  /\ interest' = [interest EXCEPT ![i] = req[r].ver]
  /\ Done(r)
  /\ UNCHANGED <<caseVersion, gate, item, perfected>>

\* An item is added to an interest of the case, of whatever version it is, in
\* the one transaction that locates the interest; it may bring evidence along.
AddItem(r, a, k, i, e) ==
  /\ req[r] = Idle /\ a \in Staff["WRITER"]
  /\ item[k] = NoItem /\ interest[i] # 0
  /\ item' = [item EXCEPT ![k] = [NoItem EXCEPT !.of = i, !.evidence = e]]
  /\ UNCHANGED <<casework, interest, perfected>>

\* The input rules: a completion needs evidence, old or new.  The rationale of
\* NOT_REQUIRED_BY_HUMAN is a field of the body that may be refused.
InputAllowed(k, s, e) == s = "COMPLETED" => item[k].evidence \/ e

\* The first half of transition_item: the unlocked read and the checks on it.
ReadItem(r, a, k, s, e) ==
  /\ item[k].of # Nobody
  /\ s \in ALLOWED_ITEM_TRANSITIONS(item[k].status)
  /\ InputAllowed(k, s, e)
  /\ Begin(r, "move_item", a, "WRITER", 1,
           [item |-> k, to |-> s, evidence |-> item[k].evidence \/ e])
  /\ UNCHANGED perfection

\* Mutant of TriggerPasses: the table has no transition guard.
TriggerPassesAll(s, t) == TRUE

\* enforce_security_perfection_item_transition: the same status passes.
TriggerPasses(s, t) == t = s \/ t \in ALLOWED_ITEM_TRANSITIONS(s)

\* The row is overwritten with what was computed from the read.
Moved(old, to, e, a) ==
  [old EXCEPT !.status = to, !.evidence = e,
              !.by = IF to = "COMPLETED" THEN a ELSE @]

\* The second half of transition_item.
TransitionItem(r) ==
  LET m == req[r].arg IN
  /\ Doing(r, "move_item")
  /\ IF TriggerPasses(item[m.item].status, m.to)
       THEN item' = [item EXCEPT ![m.item] =
                       Moved(@, m.to, m.evidence, req[r].who)]
       ELSE UNCHANGED item
  /\ Done(r)
  /\ UNCHANGED <<caseVersion, gate, interest, perfected>>

InterestsOf(v) == {i \in InterestIds : interest[i] = v}
ItemsOf(i) == {k \in ItemIds : item[k].of = i}

\* derive_perfection_blockers leaves nothing: no interest, an interest without
\* requirements and an unsatisfied requirement all block.
NoBlockers(v) ==
  /\ InterestsOf(v) # {}
  /\ \A i \in InterestsOf(v) :
       /\ ItemsOf(i) # {}
       /\ \A k \in ItemsOf(i) : item[k].status \in TERMINAL_SATISFIED_STATUSES

CheckPerfection(r, a) ==
  /\ NoBlockers(caseVersion)
  /\ Begin(r, "confirm_perfection", a, "OPS_CHECKER", caseVersion,
           [interests |-> InterestsOf(caseVersion),
            items |-> UNION {ItemsOf(i) : i \in InterestsOf(caseVersion)}])
  /\ UNCHANGED perfection

ConfirmPerfection(r) ==
  LET v == req[r].ver IN
  /\ Doing(r, "confirm_perfection")
  /\ Satisfy("HG_SECURITY_PERFECTION_CONFIRMED", v, req[r].who)
  /\ perfected' = [perfected EXCEPT ![v] =
       IF gate["HG_SECURITY_PERFECTION_CONFIRMED"][v] = Nobody
         THEN req[r].arg ELSE @]
  /\ Done(r)
  /\ UNCHANGED <<caseVersion, interest, item>>

PerfectionNext(r) ==
  \/ CheckInterest(r)
  \/ \E a \in Actors : CheckPerfection(r, a)
  \/ \E i \in InterestIds : CreateInterest(r, i)
  \/ \E a \in Actors, k \in ItemIds, i \in InterestIds, e \in BOOLEAN :
       AddItem(r, a, k, i, e)
  \/ \E a \in Actors, k \in ItemIds, s \in PerfectionStatus, e \in BOOLEAN :
       ReadItem(r, a, k, s, e)
  \/ TransitionItem(r) \/ ConfirmPerfection(r)
--------------------------------------------------------------------------------
\* What a confirmation was based on never falls back into an open requirement,
\* although two transitions of an item may both start from the same read: every
\* interest listed has a listed requirement, and each of these is satisfied or
\* has expired since.  A completed one has its evidence and its completer.
PerfectionRests ==
  \A v \in Versions :
    gate["HG_SECURITY_PERFECTION_CONFIRMED"][v] # Nobody =>
      /\ perfected[v].interests # {}
      /\ \A i \in perfected[v].interests :
           interest[i] = v /\ \E k \in perfected[v].items : item[k].of = i
      /\ \A k \in perfected[v].items :
           /\ item[k].status \in TERMINAL_SATISFIED_STATUSES \cup {"EXPIRED"}
           /\ item[k].status = "COMPLETED" => item[k].evidence /\ item[k].by # Nobody
================================================================================
