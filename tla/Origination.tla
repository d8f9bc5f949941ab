------------------------------ MODULE Origination ------------------------------
(****************************************************************************)
(* Prospects with their screening snapshots, and the financing need of a    *)
(* case: both kept as numbered versions that are only appended. The next    *)
(* number is read in one statement and written in another, without a lock;  *)
(* the unique constraint on the number decides who gets it.                 *)
(*                                                                          *)
(* A request about a case first looks the case up, and finds it if the      *)
(* current version of the case has a financing request.                     *)
(****************************************************************************)
EXTENDS Casework, Sequences

CONSTANTS
  MaxNeeds,        \* bound on the versions of the financing request
  MaxSnapshots     \* bound on the screening snapshots

ASSUME OriginationAssumption == MaxNeeds \in Nat \ {0} /\ MaxSnapshots \in Nat

VARIABLES
  needs,      \* the versions of the financing request: number and case version
  snapshots,  \* the numbers of the prospect's snapshots
  contacts,   \* the decisions to contact the prospect
  confirmed   \* the version of the financing request each gate names, 0 for none

origination == <<needs, snapshots, contacts, confirmed>>

\* The case is created together with the first version of its financing request.
OriginationInit ==
  /\ needs = <<[n |-> 1, ver |-> 1]>>
  /\ snapshots = <<>>
  /\ contacts = {}
  /\ confirmed = [v \in Versions |-> 0]

OriginationTypeOK ==
  /\ needs \in Seq([n : 1..MaxNeeds, ver : Versions])
  /\ snapshots \in Seq(1..MaxSnapshots)
  /\ contacts \subseteq {"CONTACT", "DO_NOT_CONTACT", "DEFER"}
  /\ confirmed \in [Versions -> 0..MaxNeeds]

NeedNumbers == {needs[i].n : i \in DOMAIN needs}
SnapshotNumbers == {snapshots[i] : i \in DOMAIN snapshots}
Latest(numbers) == CHOOSE m \in numbers \cup {0} : \A k \in numbers : k <= m

\* Mutant of Taken: the number is written without the constraint.
NeverTaken(n, numbers) == FALSE

\* unique (case_id, request_version), unique (prospect_id, version)
Taken(n, numbers) == n \in numbers

\* get_assigned joins the case with its financing request of the current version.
Found(v) == v \in VersionRead /\ \E i \in DOMAIN needs : needs[i].ver = v
--------------------------------------------------------------------------------
\* An officer edits the need.
AppendNeed(r, v) ==
  /\ Found(v)
  /\ Latest(NeedNumbers) < MaxNeeds
  /\ BeginAny(r, "append_version", "INTAKE_OFFICER", v, Nobody)
  /\ UNCHANGED origination

\* select coalesce(max(request_version), 0) + 1
NumberNeed(r) ==
  /\ Doing(r, "append_version") /\ Latest(NeedNumbers) < MaxNeeds
  /\ req' = [req EXCEPT ![r].op = "insert_version", ![r].arg = Latest(NeedNumbers) + 1]
  /\ UNCHANGED <<caseVersion, gate, origination>>

\* A row of another case version than the current one is refused; a number that was
\* taken meanwhile is read anew.
InsertNeed(r) ==
  /\ Doing(r, "insert_version")
  /\ \/ /\ req[r].ver # caseVersion
        /\ Done(r) /\ UNCHANGED needs
     \/ /\ req[r].ver = caseVersion /\ Taken(req[r].arg, NeedNumbers)
        /\ req' = [req EXCEPT ![r].op = "append_version", ![r].arg = Nobody]
        /\ UNCHANGED needs
     \/ /\ req[r].ver = caseVersion /\ ~Taken(req[r].arg, NeedNumbers)
        /\ needs' = Append(needs, [n |-> req[r].arg, ver |-> req[r].ver])
        /\ Done(r)
  /\ UNCHANGED <<caseVersion, gate, snapshots, contacts, confirmed>>

\* An officer confirms the need at the number seen, which has to be the latest one.
ConfirmNeed(r, v) ==
  /\ Found(v)
  /\ BeginAny(r, "confirm", "INTAKE_OFFICER", v, Latest(NeedNumbers))
  /\ UNCHANGED origination

\* The gate keeps the number it was satisfied with first.
SatisfyNeed(r) ==
  /\ Doing(r, "confirm")
  /\ LET v == req[r].ver IN
     /\ Satisfy("HG_FINANCING_NEED_CONFIRMED", v, req[r].who)
     /\ confirmed' = [confirmed EXCEPT ![v] = IF @ = 0 THEN req[r].arg ELSE @]
  /\ Done(r)
  /\ UNCHANGED <<caseVersion, needs, snapshots, contacts>>
--------------------------------------------------------------------------------
\* Mutant of AppendSnapshot: the first snapshot is numbered 0.
AppendSnapshotFromZero(r) ==
  /\ Latest(SnapshotNumbers) < MaxSnapshots
  /\ BeginAny(r, "append_snapshot", "INTAKE_OFFICER", 1, Latest(SnapshotNumbers))
  /\ UNCHANGED origination

\* The owner of a prospect screens it, and decides whether to contact it.
AppendSnapshot(r) ==
  /\ Latest(SnapshotNumbers) < MaxSnapshots
  /\ BeginAny(r, "append_snapshot", "INTAKE_OFFICER", 1, Latest(SnapshotNumbers) + 1)
  /\ UNCHANGED origination

\* The constraint raises, and the request fails with it.
InsertSnapshot(r) ==
  /\ Doing(r, "append_snapshot")
  /\ snapshots' = IF Taken(req[r].arg, SnapshotNumbers) THEN snapshots
                  ELSE Append(snapshots, req[r].arg)
  /\ Done(r)
  /\ UNCHANGED <<caseVersion, gate, needs, contacts, confirmed>>

RecordContactDecision(d) ==
  /\ Staff["INTAKE_OFFICER"] # {}
  /\ contacts' = contacts \cup {d}
  /\ UNCHANGED <<casework, needs, snapshots, confirmed>>

OriginationNext ==
  \/ \E r \in Requests :
       \/ \E v \in VersionRead : AppendNeed(r, v) \/ ConfirmNeed(r, v)
       \/ NumberNeed(r) \/ InsertNeed(r) \/ SatisfyNeed(r)
       \/ AppendSnapshot(r) \/ InsertSnapshot(r)
  \/ \E d \in {"CONTACT", "DEFER"} : RecordContactDecision(d)
--------------------------------------------------------------------------------
\* The versions of the need and of the screening are numbered one after the other,
\* each number once, whoever appended at the same time; and a gate that says the
\* need is confirmed names a version of it that is on record.
NeedConfirmed ==
  /\ \A i \in DOMAIN needs : needs[i].n = i
  /\ \A i \in DOMAIN snapshots : snapshots[i] = i
  /\ \A v \in Versions :
       /\ gate["HG_FINANCING_NEED_CONFIRMED"][v] # Nobody <=> confirmed[v] # 0
       /\ confirmed[v] <= Len(needs)

\* api/cases.py: "any non-revoked assignee (intake or otherwise) may read their own
\* capability map", and whatever else starts by looking the case up.
CaseReachable == Found(caseVersion)
================================================================================
