--------------------------- MODULE PreparationProofs ---------------------------
(****************************************************************************)
(* Proofs about Preparation, for any number of overlapping requests, any    *)
(* people, documents, gaps, challenges and actions, whatever desk is at     *)
(* work. As in FulfilmentProofs, the invariant of a desk says what every    *)
(* request under way still finds true of what it has read.                  *)
(****************************************************************************)
EXTENDS Preparation, WorkProductProofs, SequenceTheorems

LEMMA Constants ==
  /\ Nobody \notin Actors /\ Nobody \notin DOMAIN Staff
  /\ MaxVersion \in Nat /\ 1 \in Versions
  /\ \A v \in Versions : v \in Nat /\ 1..v \subseteq Versions
  /\ Actors \subseteq People /\ DOMAIN Staff \subseteq People /\ Nobody \in People
  /\ {"INTAKE_OFFICER", "UNDERWRITER", "LEGAL_REVIEWER", "RISK_REVIEWER", "OPS_OFFICER"}
       \subseteq DOMAIN Staff
  BY CaseworkAssumption, RolesAssumption DEF People, Versions

(****************************************************************************)
(* The casework: requests and gates.                                        *)
(****************************************************************************)
RequestTyped(q) ==
  /\ q = [op |-> q.op, who |-> q.who, ver |-> q.ver, arg |-> q.arg]
  /\ q.who \in People /\ q.ver \in Versions
CaseTyped ==
  /\ caseVersion \in Versions
  /\ gate \in [GateTypes -> [Versions -> People]]
  /\ DOMAIN req = Requests
  /\ \A r \in Requests : RequestTyped(req[r])

\* Only request r is written, and goes on as q.
Writes(r, q) == req'[r] = q /\ \A s \in Requests : s # r => req'[s] = req[s]
Recasts(r, op, who, v, x) ==
  /\ req'[r].op = op /\ req'[r].who = who /\ req'[r].ver = v /\ req'[r].arg = x
  /\ \A s \in Requests : s # r => req'[s] = req[s]

LEMMA RequestWritten ==
  ASSUME CaseTyped, NEW r \in Requests, NEW q, RequestTyped(q),
         req' = [req EXCEPT ![r] = q], caseVersion' \in Versions,
         gate' \in [GateTypes -> [Versions -> People]]
  PROVE  CaseTyped' /\ Writes(r, q)
<1>1. DOMAIN req' = Requests /\ Writes(r, q)
  BY DEF CaseTyped, Writes
<1>2. \A s \in Requests : RequestTyped(req'[s])
  BY <1>1 DEF CaseTyped, Writes
<1> QED
  BY <1>1, <1>2 DEF CaseTyped, RequestTyped

LEMMA RequestMade ==
  ASSUME NEW op, NEW who \in People, NEW v \in Versions, NEW x
  PROVE  LET q == [op |-> op, who |-> who, ver |-> v, arg |-> x] IN
         RequestTyped(q) /\ q.op = op /\ q.who = who /\ q.ver = v /\ q.arg = x
  BY DEF RequestTyped

LEMMA Entered ==
  ASSUME CaseTyped, NEW r \in Requests, NEW op, NEW who \in People, NEW v \in Versions,
         NEW x, Enter(r, op, who, v, x)
  PROVE  /\ CaseTyped' /\ Recasts(r, op, who, v, x) /\ req[r].op = "idle"
         /\ UNCHANGED <<caseVersion, gate>>
<1>1. PICK q : q = [op |-> op, who |-> who, ver |-> v, arg |-> x]
  OBVIOUS
<1>2. RequestTyped(q) /\ q.op = op /\ q.who = who /\ q.ver = v /\ q.arg = x
  BY <1>1, RequestMade
<1>3. req' = [req EXCEPT ![r] = q] /\ UNCHANGED <<caseVersion, gate>> /\ req[r].op = "idle"
  BY <1>1 DEF Enter, Idle
<1>4. CaseTyped' /\ Writes(r, q)
  BY <1>2, <1>3, RequestWritten DEF CaseTyped
<1> QED
  BY <1>2, <1>3, <1>4 DEF Writes, Recasts

LEMMA Answered ==
  ASSUME CaseTyped, NEW r \in Requests, Done(r), caseVersion' \in Versions,
         gate' \in [GateTypes -> [Versions -> People]]
  PROVE  /\ CaseTyped' /\ req'[r].op = "idle" /\ req'[r] = Idle
         /\ \A s \in Requests : s # r => req'[s] = req[s]
<1>1. RequestTyped(Idle) /\ Idle.op = "idle"
  BY Constants DEF RequestTyped, Idle
<1>2. CaseTyped' /\ Writes(r, Idle)
  BY <1>1, RequestWritten DEF Done
<1> QED
  BY <1>1, <1>2 DEF Writes

LEMMA WentOn ==
  ASSUME CaseTyped, NEW r \in Requests, NEW op, req' = [req EXCEPT ![r].op = op],
         caseVersion' \in Versions, gate' \in [GateTypes -> [Versions -> People]]
  PROVE  CaseTyped' /\ Recasts(r, op, req[r].who, req[r].ver, req[r].arg)
<1>1. PICK x : x = req[r]
  OBVIOUS
<1>2. PICK q : q = [op |-> op, who |-> x.who, ver |-> x.ver, arg |-> x.arg]
  OBVIOUS
<1>3. x = [op |-> x.op, who |-> x.who, ver |-> x.ver, arg |-> x.arg]
      /\ x.who \in People /\ x.ver \in Versions
  BY <1>1 DEF CaseTyped, RequestTyped
<1>4. [x EXCEPT !.op = op] = q
  BY <1>2, <1>3
<1>5. req' = [req EXCEPT ![r] = q]
  BY <1>1, <1>4 DEF CaseTyped
<1>6. RequestTyped(q) /\ q.op = op /\ q.who = x.who /\ q.ver = x.ver /\ q.arg = x.arg
  BY <1>2, <1>3, RequestMade
<1>7. CaseTyped' /\ Writes(r, q)
  BY <1>5, <1>6, RequestWritten
<1> QED
  BY <1>1, <1>6, <1>7 DEF Writes, Recasts

\* A request that goes on if something holds, and is answered otherwise.
LEMMA WentOnIf ==
  ASSUME CaseTyped, NEW r \in Requests, NEW op, NEW P \in BOOLEAN,
         req' = [req EXCEPT ![r] = IF P THEN [@ EXCEPT !.op = op] ELSE Idle],
         caseVersion' \in Versions, gate' \in [GateTypes -> [Versions -> People]]
  PROVE  /\ CaseTyped'
         /\ P => Recasts(r, op, req[r].who, req[r].ver, req[r].arg)
         /\ ~P => req'[r].op = "idle" /\ req'[r] = Idle
         /\ \A s \in Requests : s # r => req'[s] = req[s]
<1>1. CASE P
  <2>1. req' = [req EXCEPT ![r].op = op]
    BY <1>1
  <2> QED
    BY <1>1, <2>1, WentOn DEF Recasts
<1>2. CASE ~P
  <2>1. Done(r)
    BY <1>2 DEF Done
  <2> QED
    BY <1>2, <2>1, Answered
<1> QED
  BY <1>1, <1>2

\* The gate of a request and a version, as whoever the request is of.
LEMMA GateWritten ==
  ASSUME CaseTyped, NEW r \in Requests, NEW g \in GateTypes,
         Satisfy(g, req[r].ver, req[r].who)
  PROVE  /\ gate' \in [GateTypes -> [Versions -> People]]
         /\ \A h \in GateTypes : h # g => gate'[h] = gate[h]
         /\ \A w \in Versions :
              /\ gate[g][w] # Nobody => gate'[g][w] = gate[g][w]
              /\ w # req[r].ver => gate'[g][w] = gate[g][w]
         /\ gate[g][req[r].ver] = Nobody => gate'[g][req[r].ver] = req[r].who
<1>1. PICK v \in Versions, a \in People : v = req[r].ver /\ a = req[r].who
  BY DEF CaseTyped, RequestTyped
<1>2. gate' = [gate EXCEPT ![g][v] = IF @ = Nobody THEN a ELSE @]
  BY <1>1 DEF Satisfy
<1>3. gate \in [GateTypes -> [Versions -> People]]
  BY DEF CaseTyped
<1>4. gate' \in [GateTypes -> [Versions -> People]]
  BY <1>2, <1>3
<1>5. \A h \in GateTypes : h # g => gate'[h] = gate[h]
  BY <1>2, <1>3
<1>6. gate'[g] = [gate[g] EXCEPT ![v] = IF gate[g][v] = Nobody THEN a ELSE gate[g][v]]
  BY <1>2, <1>3
<1>7. /\ \A w \in Versions : w # v => gate'[g][w] = gate[g][w]
      /\ gate'[g][v] = IF gate[g][v] = Nobody THEN a ELSE gate[g][v]
  BY <1>3, <1>6
<1> QED
  BY <1>1, <1>4, <1>5, <1>7

LEMMA RequestLost ==
  ASSUME CaseTyped, NEW r \in Requests, Lost(r)
  PROVE  /\ CaseTyped' /\ req'[r].op = "idle" /\ req'[r] = Idle /\ UNCHANGED <<caseVersion, gate>>
         /\ \A s \in Requests : s # r => req'[s] = req[s]
  BY Answered DEF Lost, CaseTyped

LEMMA VersionStarted ==
  ASSUME CaseTyped, NewVersion
  PROVE  CaseTyped' /\ UNCHANGED <<gate, req>> /\ caseVersion' = caseVersion + 1
  BY Constants DEF NewVersion, CaseTyped, RequestTyped, Versions

\* Any step that leaves the casework alone, also a stuttering one.
LEMMA CaseKept ==
  ASSUME CaseTyped, UNCHANGED casework
  PROVE  CaseTyped'
  BY DEF CaseTyped, casework, RequestTyped

\* A request in an operation is of an actor or a role.
LEMMA BegunBy ==
  ASSUME NEW r, NEW op, NEW v, NEW x
  PROVE  /\ \A role : \A a \in Actors : Begin(r, op, a, role, v, x) =>
              Enter(r, op, a, v, x) /\ a \in People /\ a # Nobody
         /\ \A role \in DOMAIN Staff : BeginAny(r, op, role, v, x) =>
              Enter(r, op, role, v, x) /\ role \in People /\ role # Nobody
  BY Constants DEF Begin, BeginAny
--------------------------------------------------------------------------------
(****************************************************************************)
(* Operations: an authorization is of an action of its package, the version *)
(* of a request is that of its package, and what a request found of the     *)
(* actions stays so, since an authorization is never withdrawn.             *)
(****************************************************************************)
AtG4 == {"derive G4", "satisfy G4"}
AuthorizationFound(r) ==
  LET i == req[r].arg.package IN
  /\ req[r] = Idle \/ req[r].op \in {"authorize"} \cup AtG4
  /\ req[r].op \in {"authorize"} \cup AtG4 =>
       /\ req[r].who # Nobody /\ i \in DOMAIN packages /\ req[r].ver = packages[i].ver
  /\ req[r].op = "authorize" => req[r].arg.action \in packages[i].actions
  /\ req[r].op = "satisfy G4" => G4Derived(i)
PackagesHold ==
  /\ \E n \in Nat : DOMAIN packages = 1..n
  /\ \A i \in DOMAIN packages : packages[i].ver \in Versions /\ packages[i].actions # {}
  /\ \A i, j \in DOMAIN packages : packages[i].ver = packages[j].ver => i = j
  /\ \A x \in authorized :
       x.package \in DOMAIN packages /\ x.action \in packages[x.package].actions
  /\ approved \cup interrupted \subseteq DOMAIN packages
GateHasPackage ==
  \A v \in Versions : gate["G4_OPS_AUTHORIZATION"][v] # Nobody =>
    \E i \in DOMAIN packages : packages[i].ver = v
G4FollowsFor(i) ==
  LET G4 == gate["G4_OPS_AUTHORIZATION"][packages[i].ver] # Nobody IN
  /\ G4 => G4Derived(i)
  /\ G4Derived(i) =>
       \/ G4 \/ i \in interrupted
       \/ \E r \in Requests : req[r].op \in AtG4 /\ req[r].arg.package = i
OperationsHold ==
  /\ packages \in Seq([ver : Versions, actions : SUBSET ProposedActions])
  /\ PackagesHold /\ GateHasPackage
  /\ \A r \in Requests : AuthorizationFound(r)
  /\ \A i \in DOMAIN packages : G4FollowsFor(i)

\* A step that leaves the packages, and in which requests and gate change as said.
LEMMA OperationsKept ==
  ASSUME OperationsHold, UNCHANGED packages,
         authorized \subseteq authorized', interrupted \subseteq interrupted',
         \A x \in authorized' :
           x.package \in DOMAIN packages /\ x.action \in packages[x.package].actions,
         approved' \cup interrupted' \subseteq DOMAIN packages,
         \A r \in Requests : AuthorizationFound(r)', GateHasPackage',
         \A i \in DOMAIN packages : G4FollowsFor(i)'
  PROVE  OperationsHold'
  BY DEF OperationsHold, PackagesHold

LEMMA DerivedKept ==
  ASSUME UNCHANGED packages, authorized \subseteq authorized', NEW i, G4Derived(i)
  PROVE  G4Derived(i)'
  BY DEF G4Derived, AuthorizedActions

\* What a request has found is still so when another one is served.
LEMMA AuthorizationKept ==
  ASSUME NEW r \in Requests, AuthorizationFound(r), req'[r] = req[r],
         UNCHANGED packages, authorized \subseteq authorized'
  PROVE  AuthorizationFound(r)'
<1>1. PICK i : i = req[r].arg.package
  OBVIOUS
<1>2. G4Derived(i) => G4Derived(i)'
  BY DerivedKept
<1>3. req'[r].arg.package = i
  BY <1>1
<1> QED
  BY <1>1, <1>2, <1>3 DEF AuthorizationFound, G4Derived, AuthorizedActions

LEMMA PersistPackageStep ==
  ASSUME OperationsHold, NEW v \in Versions, NEW actions \in SUBSET ProposedActions,
         PersistPackage(v, actions)
  PROVE  OperationsHold'
<1> USE DEF PersistPackage
<1>1. PICK p : p = [ver |-> v, actions |-> actions]
  OBVIOUS
<1>2. /\ p \in [ver : Versions, actions : SUBSET ProposedActions]
      /\ p.ver = v /\ p.actions = actions /\ actions # {}
      /\ UNCHANGED approved
  BY <1>1
<1>3. /\ packages' = Append(packages, p) /\ UNCHANGED <<casework, authorized, interrupted>>
      /\ packages \in Seq([ver : Versions, actions : SUBSET ProposedActions])
      /\ \A i \in DOMAIN packages : packages[i].ver # v
      /\ PackagesHold /\ GateHasPackage
  BY <1>1 DEF OperationsHold
<1>4. PICK n \in Nat : DOMAIN packages = 1..n /\ Len(packages) = n
  BY <1>3
<1>5. /\ packages' \in Seq([ver : Versions, actions : SUBSET ProposedActions])
      /\ DOMAIN packages' = 1..(n + 1)
      /\ \A i \in 1..n : packages'[i] = packages[i]
      /\ packages'[n + 1] = p
  BY <1>2, <1>3, <1>4, AppendProperties
<1>6. UNCHANGED <<gate, req>>
  BY <1>3 DEF casework
<1>7. PackagesHold'
  <2>1. \A i \in 1..(n + 1) : i \in 1..n \/ i = n + 1
    BY <1>4
  <2>2. \A i \in 1..(n + 1) : packages'[i].ver \in Versions /\ packages'[i].actions # {}
    BY <1>2, <1>3, <1>4, <1>5, <2>1 DEF PackagesHold
  <2>3. \A i, j \in 1..(n + 1) : packages'[i].ver = packages'[j].ver => i = j
    BY <1>2, <1>3, <1>4, <1>5, <2>1 DEF PackagesHold
  <2>4. \A x \in authorized' : x.package \in 1..(n + 1) /\ x.action \in packages'[x.package].actions
    BY <1>3, <1>4, <1>5 DEF PackagesHold
  <2>5. approved' \cup interrupted' \subseteq 1..(n + 1)
    BY <1>2, <1>3, <1>4 DEF PackagesHold
  <2> QED
    BY <1>4, <1>5, <2>2, <2>3, <2>4, <2>5 DEF PackagesHold
<1>8. \A i \in 1..n : packages'[i].ver = packages[i].ver /\ G4Derived(i)' = G4Derived(i)
  BY <1>3, <1>5 DEF G4Derived, AuthorizedActions
<1>9. GateHasPackage'
  BY <1>3, <1>4, <1>5, <1>6, <1>8 DEF GateHasPackage
<1>10. ASSUME NEW r \in Requests
       PROVE  AuthorizationFound(r)'
  <2>1. AuthorizationFound(r)
    BY DEF OperationsHold
  <2>2. PICK i : i = req[r].arg.package
    OBVIOUS
  <2>3. i \in 1..n => packages'[i] = packages[i] /\ G4Derived(i)' = G4Derived(i)
    BY <1>5, <1>8
  <2>4. /\ req[r].op \in {"authorize"} \cup AtG4 => i \in 1..n
        /\ req[r].op = "satisfy G4" => G4Derived(i)
    BY <1>4, <2>1, <2>2 DEF AuthorizationFound
  <2>5. req[r].op = "satisfy G4" => req[r].op \in AtG4
    BY DEF AtG4
  <2>6. req[r].op = "satisfy G4" => G4Derived(i)'
    BY <2>3, <2>4, <2>5
  <2>7. req'[r] = req[r] /\ req'[r].arg.package = i
    BY <1>6, <2>2
  <2>8. req[r].op \in {"authorize"} \cup AtG4 =>
          req[r].who # Nobody /\ i \in DOMAIN packages' /\ req[r].ver = packages'[i].ver
    <3>1. req[r].op \in {"authorize"} \cup AtG4 =>
            req[r].who # Nobody /\ i \in 1..n /\ req[r].ver = packages[i].ver
      BY <1>4, <2>1, <2>2 DEF AuthorizationFound
    <3>2. i \in 1..n => i \in DOMAIN packages' /\ packages'[i] = packages[i]
      BY <1>4, <1>5
    <3> QED
      BY <3>1, <3>2
  <2>9. /\ req'[r] = Idle \/ req'[r].op \in {"authorize"} \cup AtG4
        /\ req'[r].op = "authorize" => req'[r].arg.action \in packages'[i].actions
    BY <1>4, <2>1, <2>2, <2>3, <2>7 DEF AuthorizationFound
  <2> QED
    BY <2>6, <2>7, <2>8, <2>9 DEF AuthorizationFound, G4Derived, AuthorizedActions
<1>11. ASSUME NEW i \in 1..n
       PROVE  G4FollowsFor(i)'
  BY <1>3, <1>4, <1>6, <1>8 DEF OperationsHold, G4FollowsFor
<1>12. G4FollowsFor(n + 1)'
  <2>1. \A x \in authorized' : x.package # n + 1
    BY <1>3, <1>4 DEF PackagesHold
  <2>2. ~G4Derived(n + 1)'
    BY <1>2, <1>5, <2>1 DEF G4Derived, AuthorizedActions
  <2>3. gate["G4_OPS_AUTHORIZATION"][v] = Nobody
    BY <1>3 DEF GateHasPackage
  <2> QED
    BY <1>2, <1>5, <1>6, <2>2, <2>3 DEF G4FollowsFor
<1>13. \A i \in DOMAIN packages' : G4FollowsFor(i)'
  <2>1. \A i \in 1..(n + 1) : i \in 1..n \/ i = n + 1
    BY <1>4
  <2> QED
    BY <1>5, <1>11, <1>12, <2>1
<1> QED
  BY <1>5, <1>7, <1>9, <1>10, <1>13 DEF OperationsHold

LEMMA OperationsSteps ==
  ASSUME CaseTyped, OperationsHold, NEW r \in Requests,
         \/ \E x \in ProposedActions : CheckAuthorization(r, x)
         \/ RecordAuthorization(r) \/ DeriveG4(r) \/ SatisfyG4(r) \/ Interrupt(r)
  PROVE  CaseTyped' /\ OperationsHold'
<1> DEFINE i == req[r].arg.package
<1>1. /\ caseVersion \in Versions /\ gate \in [GateTypes -> [Versions -> People]]
      /\ req[r].who \in People /\ req[r].ver \in Versions
      /\ AuthorizationFound(r) /\ GateHasPackage /\ PackagesHold
      /\ packages \in Seq([ver : Versions, actions : SUBSET ProposedActions])
      /\ approved \cup interrupted \subseteq DOMAIN packages
  BY DEF CaseTyped, RequestTyped, OperationsHold, PackagesHold
<1>2. ASSUME UNCHANGED packages, authorized \subseteq authorized',
             \A s \in Requests : s # r => req'[s] = req[s]
      PROVE  \A s \in Requests : s # r => AuthorizationFound(s)'
  BY <1>2, AuthorizationKept DEF OperationsHold
<1>3. ASSUME NEW x \in ProposedActions, CheckAuthorization(r, x)
      PROVE  CaseTyped' /\ OperationsHold'
  <2>1. PICK n \in Nat : n = Len(packages) /\ n \in DOMAIN packages
    BY <1>1, <1>3 DEF CheckAuthorization
  <2>2a. PICK v \in Versions : v = packages[n].ver
    BY <1>1, <2>1 DEF PackagesHold
  <2>2. PICK arg : v = packages[n].ver /\ arg = [package |-> n, action |-> x]
    BY <2>2a
  <2>3. Enter(r, "authorize", "OPS_OFFICER", v, arg) /\ UNCHANGED operations
        /\ "OPS_OFFICER" \in People /\ "OPS_OFFICER" # Nobody
    BY <1>3, <2>1, <2>2, BegunBy, Constants DEF CheckAuthorization, LatestPackage
  <2>4. /\ CaseTyped' /\ Recasts(r, "authorize", "OPS_OFFICER", v, arg)
        /\ req[r].op = "idle" /\ UNCHANGED <<caseVersion, gate>>
    BY <2>3, Entered
  <2>5. UNCHANGED <<packages, authorized, approved, interrupted>>
    BY <2>3 DEF operations
  <2>6. arg.package = n /\ arg.action = x /\ x \in packages[n].actions
    BY <1>3, <2>1, <2>2 DEF CheckAuthorization, LatestPackage
  <2>7. AuthorizationFound(r)'
    BY <2>4, <2>5, <2>6, <2>1, <2>2, <2>3 DEF AuthorizationFound, Recasts, AtG4
  <2>8. \A s \in Requests : AuthorizationFound(s)'
    BY <1>2, <2>4, <2>5, <2>7 DEF Recasts
  <2>9. \A s \in Requests : req[s].op \in AtG4 => req'[s] = req[s]
    BY <2>4 DEF Recasts, AtG4
  <2>10. \A j \in DOMAIN packages : G4FollowsFor(j)'
    BY <2>4, <2>5, <2>9 DEF OperationsHold, G4FollowsFor, G4Derived, AuthorizedActions
  <2>11. GateHasPackage'
    BY <1>1, <2>4, <2>5 DEF GateHasPackage
  <2> QED
    BY <1>1, <2>4, <2>5, <2>8, <2>10, <2>11, OperationsKept DEF PackagesHold
<1>4. CASE RecordAuthorization(r)
  <2>1. /\ req' = [req EXCEPT ![r].op = "derive G4"]
        /\ authorized' = authorized \cup {req[r].arg}
        /\ UNCHANGED <<caseVersion, gate, packages, approved, interrupted>>
        /\ req[r].op = "authorize"
    BY <1>4 DEF RecordAuthorization, Doing
  <2>2. CaseTyped' /\ Recasts(r, "derive G4", req[r].who, req[r].ver, req[r].arg)
    BY <1>1, <2>1, WentOn
  <2>3. i \in DOMAIN packages /\ req[r].arg.action \in packages[i].actions
    BY <1>1, <2>1 DEF AuthorizationFound
  <2>4. \A x \in authorized' :
          x.package \in DOMAIN packages /\ x.action \in packages[x.package].actions
    BY <1>1, <2>1, <2>3 DEF PackagesHold
  <2>5. AuthorizationFound(r)'
    BY <1>1, <2>1, <2>2 DEF AuthorizationFound, Recasts, AtG4
  <2>6. \A s \in Requests : AuthorizationFound(s)'
    BY <1>2, <2>1, <2>2, <2>5 DEF Recasts
  <2>7. ASSUME NEW j \in DOMAIN packages
        PROVE  G4FollowsFor(j)'
    <3>1. G4FollowsFor(j)
      BY DEF OperationsHold
    <3>2. G4Derived(j) => G4Derived(j)'
      BY <2>1, DerivedKept
    <3>3. j # i => AuthorizedActions(j)' = AuthorizedActions(j)
      BY <2>1 DEF AuthorizedActions
    <3>4. j # i => G4Derived(j)' = G4Derived(j)
      BY <2>1, <3>3 DEF G4Derived
    <3>5. req'[r].op \in AtG4 /\ req'[r].arg.package = i
      BY <2>2 DEF Recasts, AtG4
    <3>6. \A s \in Requests : req[s].op \in AtG4 => req'[s] = req[s]
      BY <2>1, <2>2 DEF Recasts, AtG4
    <3> QED
      BY <2>1, <3>1, <3>2, <3>4, <3>5, <3>6 DEF G4FollowsFor
  <2>8. GateHasPackage'
    BY <1>1, <2>1 DEF GateHasPackage
  <2> QED
    BY <1>1, <2>1, <2>2, <2>4, <2>6, <2>7, <2>8, OperationsKept
<1>5. CASE DeriveG4(r)
  <2>1. PICK P \in BOOLEAN : P = G4Derived(i)
    BY DEF G4Derived
  <2>2. /\ req' = [req EXCEPT ![r] = IF P THEN [@ EXCEPT !.op = "satisfy G4"] ELSE Idle]
        /\ UNCHANGED <<caseVersion, gate, operations>> /\ req[r].op = "derive G4"
    BY <1>5, <2>1 DEF DeriveG4, Doing
  <2>3. /\ CaseTyped'
        /\ P => Recasts(r, "satisfy G4", req[r].who, req[r].ver, req[r].arg)
        /\ ~P => req'[r].op = "idle" /\ req'[r] = Idle
        /\ \A s \in Requests : s # r => req'[s] = req[s]
    BY <1>1, <2>2, WentOnIf
  <2>4. UNCHANGED <<packages, authorized, approved, interrupted>>
    BY <2>2 DEF operations
  <2>5. AuthorizationFound(r)'
    BY <1>1, <2>4, <2>1, <2>2, <2>3
       DEF AuthorizationFound, Recasts, AtG4, G4Derived, AuthorizedActions
  <2>6. \A s \in Requests : AuthorizationFound(s)'
    BY <1>2, <2>3, <2>4, <2>5
  <2>7. ASSUME NEW j \in DOMAIN packages
        PROVE  G4FollowsFor(j)'
    <3>1. G4FollowsFor(j) /\ G4Derived(j)' = G4Derived(j)
      BY <2>4 DEF OperationsHold, G4Derived, AuthorizedActions
    <3>2. j = i /\ G4Derived(j) => req'[r].op \in AtG4 /\ req'[r].arg.package = j
      BY <2>1, <2>3 DEF Recasts, AtG4
    <3> QED
      BY <2>2, <2>3, <2>4, <3>1, <3>2 DEF G4FollowsFor
  <2>8. GateHasPackage'
    BY <1>1, <2>2, <2>4 DEF GateHasPackage
  <2> QED
    BY <1>1, <2>3, <2>4, <2>6, <2>7, <2>8, OperationsKept DEF PackagesHold
<1>6. CASE SatisfyG4(r)
  <2>1. /\ Satisfy("G4_OPS_AUTHORIZATION", req[r].ver, req[r].who) /\ Done(r)
        /\ UNCHANGED <<caseVersion, operations>> /\ req[r].op = "satisfy G4"
    BY <1>6 DEF SatisfyG4, Doing
  <2>2. /\ gate' \in [GateTypes -> [Versions -> People]]
        /\ \A w \in Versions :
             /\ gate["G4_OPS_AUTHORIZATION"][w] # Nobody =>
                  gate'["G4_OPS_AUTHORIZATION"][w] # Nobody
             /\ w # req[r].ver =>
                  gate'["G4_OPS_AUTHORIZATION"][w] = gate["G4_OPS_AUTHORIZATION"][w]
        /\ gate["G4_OPS_AUTHORIZATION"][req[r].ver] = Nobody =>
             gate'["G4_OPS_AUTHORIZATION"][req[r].ver] = req[r].who
    <3>1. "G4_OPS_AUTHORIZATION" \in GateTypes
      BY GatesAssumption
    <3> QED
      BY <1>1, <2>1, <3>1, GateWritten, ZenonT(60)
  <2>3. /\ CaseTyped' /\ req'[r].op = "idle" /\ req'[r] = Idle
        /\ \A s \in Requests : s # r => req'[s] = req[s]
    BY <1>1, <2>1, <2>2, Answered
  <2>4. UNCHANGED <<packages, authorized, approved, interrupted>>
    BY <2>1 DEF operations
  <2>5. /\ req[r].who # Nobody /\ i \in DOMAIN packages /\ req[r].ver = packages[i].ver
        /\ G4Derived(i)
    BY <1>1, <2>1 DEF AuthorizationFound, AtG4
  <2>6. \A s \in Requests : AuthorizationFound(s)'
    <3>1. AuthorizationFound(r)'
      BY <2>3 DEF AuthorizationFound, AtG4
    <3> QED
      BY <1>2, <2>3, <2>4, <3>1
  <2>7. ASSUME NEW j \in DOMAIN packages
        PROVE  G4FollowsFor(j)'
    <3>1. G4FollowsFor(j) /\ G4Derived(j)' = G4Derived(j) /\ packages[j].ver \in Versions
      BY <1>1, <2>4 DEF OperationsHold, G4Derived, AuthorizedActions, PackagesHold
    <3>2. j # i => packages[j].ver # req[r].ver
      BY <1>1, <2>5 DEF PackagesHold
    <3>3. CASE j = i
      BY <2>2, <2>4, <2>5, <3>1, <3>3 DEF G4FollowsFor
    <3>4. CASE j # i
      BY <2>2, <2>3, <2>4, <3>1, <3>2, <3>4 DEF G4FollowsFor
    <3> QED
      BY <3>3, <3>4
  <2>8. GateHasPackage'
    BY <1>1, <2>2, <2>4, <2>5 DEF GateHasPackage
  <2> QED
    BY <1>1, <2>3, <2>4, <2>6, <2>7, <2>8, OperationsKept DEF PackagesHold
<1>7. CASE Interrupt(r)
  <2>1. /\ Lost(r) /\ UNCHANGED <<packages, authorized, approved>>
        /\ req[r].op \in AtG4 => i \in interrupted'
        /\ interrupted \subseteq interrupted'
    BY <1>7 DEF Interrupt, AtG4
  <2>i. interrupted' \subseteq DOMAIN packages
    BY <1>1, <1>7 DEF Interrupt, Lost, AuthorizationFound
  <2>2. /\ CaseTyped' /\ req'[r].op = "idle" /\ req'[r] = Idle
        /\ UNCHANGED <<caseVersion, gate>>
        /\ \A s \in Requests : s # r => req'[s] = req[s]
    BY <2>1, RequestLost
  <2>3. \A s \in Requests : AuthorizationFound(s)'
    <3>1. AuthorizationFound(r)'
      BY <2>2 DEF AuthorizationFound, AtG4
    <3> QED
      BY <1>2, <2>1, <2>2, <3>1
  <2>4. \A j \in DOMAIN packages : G4FollowsFor(j)'
    BY <2>1, <2>2 DEF OperationsHold, G4FollowsFor, G4Derived, AuthorizedActions
  <2>5. GateHasPackage'
    BY <1>1, <2>1, <2>2 DEF GateHasPackage
  <2> QED
    BY <1>1, <2>4, <2>5, <2>1, <2>i, <2>2, <2>3, OperationsKept DEF PackagesHold
<1> QED
  BY <1>3, <1>4, <1>5, <1>6, <1>7

\* No request and no gate changes, nor what the authorizations are made of.
LEMMA OperationsRest ==
  ASSUME OperationsHold, UNCHANGED <<gate, req, packages, authorized, interrupted>>,
         approved' \subseteq DOMAIN packages
  PROVE  OperationsHold'
<1>1. \A r \in Requests : AuthorizationFound(r)'
  BY DEF OperationsHold, AuthorizationFound, G4Derived, AuthorizedActions
<1>2. \A i \in DOMAIN packages : G4FollowsFor(i)'
  BY DEF OperationsHold, G4FollowsFor, G4Derived, AuthorizedActions
<1> QED
  BY <1>1, <1>2 DEF OperationsHold, PackagesHold, GateHasPackage

LEMMA OperationsStep ==
  ASSUME CaseTyped, OperationsHold, OperationsNext
  PROVE  CaseTyped' /\ OperationsHold'
<1>1. ASSUME NEW v \in VersionRead, NEW actions \in SUBSET ProposedActions,
             PersistPackage(v, actions)
      PROVE  CaseTyped' /\ OperationsHold'
  <2>1. v \in Versions
    BY Constants DEF VersionRead, CaseTyped
  <2> QED
    BY <1>1, <2>1, PersistPackageStep, CaseKept DEF PersistPackage
<1>2. CASE ApproveDocumentRequest
  <2>1. approved' \subseteq DOMAIN packages
    BY <1>2 DEF ApproveDocumentRequest, LatestPackage, OperationsHold, PackagesHold
  <2> QED
    BY <1>2, <2>1, OperationsRest, CaseKept DEF ApproveDocumentRequest, casework
<1> QED
  BY <1>1, <1>2, OperationsSteps DEF OperationsNext

--------------------------------------------------------------------------------
(****************************************************************************)
(* Reviews: what a request vouches for was stored when it was checked, and  *)
(* neither an assessment nor a review is taken back.                        *)
(****************************************************************************)
ReviewFound(r) ==
  /\ req[r].op \in {"review", "submit"} => req[r].who # Nobody
  /\ req[r].op = "review" =>
       \E m \in Makers : req[r].arg = ReviewGate[m] /\ Assessed(m, req[r].ver)
  /\ req[r].op = "submit" =>
       /\ req[r].arg = "HG_MAKER_SUBMISSION_CONFIRMED"
       /\ gate[ReviewGate["UNDERWRITING"]][req[r].ver] # Nobody
AssessedOnce ==
  \A m \in Makers : \A i, j \in DOMAIN assessed[m] : assessed[m][i] = assessed[m][j] => i = j
ReviewsHold ==
  /\ assessed \in [Makers -> Seq(Versions)] /\ AssessedOnce
  /\ \A r \in Requests : ReviewFound(r)
  /\ ReviewsVouch

LEMMA ReviewGates ==
  /\ \A m \in Makers : ReviewGate[m] \in GateTypes /\ Reviewer[m] \in DOMAIN Staff
  /\ \A m, k \in Makers : ReviewGate[m] = ReviewGate[k] => m = k
  /\ "UNDERWRITING" \in Makers
  /\ \A m \in Makers : ReviewGate[m] # "HG_MAKER_SUBMISSION_CONFIRMED"
  BY GatesAssumption, RolesAssumption DEF Makers, ReviewGate, Reviewer

\* What holds of a version is not taken back.
LEMMA ReviewsKept ==
  ASSUME CaseTyped, ReviewsHold, assessed' \in [Makers -> Seq(Versions)], AssessedOnce',
         \A m \in Makers, v \in Versions : Assessed(m, v) => Assessed(m, v)',
         UNCHANGED gate, NEW r, \A s \in Requests : s # r => req'[s] = req[s],
         r \in Requests => ReviewFound(r)'
  PROVE  ReviewsHold'
<1>1. ASSUME NEW s \in Requests, s # r
      PROVE  ReviewFound(s)'
  <2>1. req'[s] = req[s] /\ req[s].ver \in Versions
    BY <1>1 DEF CaseTyped, RequestTyped
  <2>2. PICK v \in Versions : v = req[s].ver
    BY <2>1
  <2>3. \A m \in Makers : Assessed(m, v) => Assessed(m, v)'
    OBVIOUS
  <2> QED
    BY <2>1, <2>2, <2>3, SMTT(60) DEF ReviewsHold, ReviewFound, Assessed
<1>2. ReviewsVouch'
  BY DEF ReviewsHold, ReviewsVouch
<1> QED
  BY <1>1, <1>2 DEF ReviewsHold

LEMMA PersistAssessmentStep ==
  ASSUME CaseTyped, ReviewsHold, NEW m \in Makers, NEW v \in Versions, PersistAssessment(m, v)
  PROVE  CaseTyped' /\ ReviewsHold'
<1> USE DEF PersistAssessment
<1>1. assessed \in [Makers -> Seq(Versions)]
  BY DEF ReviewsHold
<1>2. assessed' = [assessed EXCEPT ![m] = Append(assessed[m], v)]
  OBVIOUS
<1>3. /\ Append(assessed[m], v) \in Seq(Versions)
      /\ \A i \in DOMAIN assessed[m] :
           i \in DOMAIN Append(assessed[m], v) /\ Append(assessed[m], v)[i] = assessed[m][i]
  <2>1. assessed[m] \in Seq(Versions)
    BY <1>1
  <2> QED
    BY <2>1, AppendProperties
<1>4. assessed' \in [Makers -> Seq(Versions)]
  BY <1>1, <1>2, <1>3
<1>5. ASSUME NEW k \in Makers, NEW w \in Versions, Assessed(k, w)
      PROVE  Assessed(k, w)'
  <2>1. assessed'[k] = IF k = m THEN Append(assessed[m], v) ELSE assessed[k]
    BY <1>1, <1>2
  <2> QED
    BY <1>3, <1>5, <2>1 DEF Assessed
<1>6. UNCHANGED <<gate, req>>
  BY DEF casework
<1>7. \A s \in Requests : ReviewFound(s)'
  <2> SUFFICES ASSUME NEW s \in Requests
               PROVE  ReviewFound(s)'
    OBVIOUS
  <2>1. req'[s] = req[s] /\ req[s].ver \in Versions
    BY <1>6 DEF CaseTyped, RequestTyped
  <2>2. PICK w \in Versions : w = req[s].ver
    BY <2>1
  <2>3. \A k \in Makers : Assessed(k, w) => Assessed(k, w)'
    BY <1>5
  <2> QED
    BY <1>6, <2>1, <2>2, <2>3, SMTT(60) DEF ReviewsHold, ReviewFound, Assessed
<1>8. ReviewsVouch'
  BY <1>5, <1>6 DEF ReviewsHold, ReviewsVouch
<1>9. AssessedOnce'
  <2>1. PICK n \in Nat : DOMAIN assessed[m] = 1..n /\ Len(assessed[m]) = n
    BY <1>1
  <2>2. /\ DOMAIN Append(assessed[m], v) = 1..(n + 1)
        /\ Append(assessed[m], v)[n + 1] = v
        /\ \A i \in 1..(n + 1) : i \in 1..n \/ i = n + 1
    BY <1>1, <2>1, AppendProperties
  <2>3. /\ \A i \in 1..n : assessed[m][i] # v
        /\ \A k \in Makers : \A i, j \in DOMAIN assessed[k] : assessed[k][i] = assessed[k][j] => i = j
    BY <2>1 DEF Assessed, ReviewsHold, AssessedOnce
  <2>4. \A i, j \in 1..(n + 1) :
          Append(assessed[m], v)[i] = Append(assessed[m], v)[j] => i = j
    BY <1>3, <2>1, <2>2, <2>3
  <2>5. \A k \in Makers : assessed'[k] = IF k = m THEN Append(assessed[m], v) ELSE assessed[k]
    BY <1>1, <1>2
  <2> QED
    BY <2>2, <2>3, <2>4, <2>5 DEF AssessedOnce
<1> QED
  BY <1>4, <1>7, <1>8, <1>9, CaseKept DEF ReviewsHold

LEMMA ReviewChecked ==
  ASSUME CaseTyped, ReviewsHold, NEW r \in Requests, NEW a \in Actors, NEW v \in Versions,
         \/ \E m \in Makers : CheckReview(r, m, a, v)
         \/ CheckSubmission(r, a, v)
  PROVE  CaseTyped' /\ ReviewsHold'
<1>a. assessed \in [Makers -> Seq(Versions)]
  BY DEF ReviewsHold
<1>b. \A m \in Makers : Reviewable(m, v) => Assessed(m, v)
  <2> SUFFICES ASSUME NEW m \in Makers, Reviewable(m, v)
               PROVE  Assessed(m, v)
    OBVIOUS
  <2>1. assessed[m] \in Seq(Versions) /\ assessed[m] # <<>>
    BY <1>a DEF Reviewable
  <2>2. Len(assessed[m]) \in DOMAIN assessed[m]
    BY <2>1
  <2> QED
    BY <2>2 DEF Reviewable, Assessed
<1>1. ASSUME NEW m \in Makers, CheckReview(r, m, a, v)
      PROVE  CaseTyped' /\ ReviewsHold'
  <2>1. PICK g : g = ReviewGate[m]
    OBVIOUS
  <2>2. Enter(r, "review", a, v, g) /\ a \in People /\ a # Nobody /\ UNCHANGED assessed
    BY <1>1, <2>1, BegunBy DEF CheckReview
  <2>3. /\ CaseTyped' /\ Recasts(r, "review", a, v, g) /\ UNCHANGED <<caseVersion, gate>>
    BY <2>2, Entered
  <2>4. Assessed(m, v)
    BY <1>1, <1>b DEF CheckReview
  <2>5. ReviewFound(r)'
    BY <2>4, <2>1, <2>2, <2>3 DEF ReviewFound, Recasts, Assessed
  <2>6. ReviewsHold'
    BY <1>a, <2>2, <2>3, <2>5, ReviewsKept DEF Recasts, Assessed, AssessedOnce, ReviewsHold
  <2> QED
    BY <2>3, <2>6
<1>2. CASE CheckSubmission(r, a, v)
  <2>1. PICK g : g = "HG_MAKER_SUBMISSION_CONFIRMED"
    OBVIOUS
  <2>2. Enter(r, "submit", a, v, g) /\ a \in People /\ a # Nobody /\ UNCHANGED assessed
    BY <1>2, <2>1, BegunBy DEF CheckSubmission
  <2>3. /\ CaseTyped' /\ Recasts(r, "submit", a, v, g) /\ UNCHANGED <<caseVersion, gate>>
    BY <2>2, Entered
  <2>4. gate[ReviewGate["UNDERWRITING"]][v] # Nobody
    BY <1>2 DEF CheckSubmission, GateSeen
  <2>5. ReviewFound(r)'
    BY <2>4, <2>1, <2>2, <2>3 DEF ReviewFound, Recasts
  <2>6. ReviewsHold'
    BY <1>a, <2>2, <2>3, <2>5, ReviewsKept DEF Recasts, Assessed, AssessedOnce, ReviewsHold
  <2> QED
    BY <2>3, <2>6
<1> QED
  BY <1>1, <1>2

LEMMA ReviewSatisfied ==
  ASSUME CaseTyped, ReviewsHold, NEW r \in Requests, SatisfyReviewGate(r)
  PROVE  CaseTyped' /\ ReviewsHold'
<1> USE DEF SatisfyReviewGate
<1>1. ReviewFound(r) /\ req[r].op \in {"review", "submit"}
  BY DEF ReviewsHold
<1>2. PICK v \in Versions : v = req[r].ver
  BY DEF CaseTyped, RequestTyped
<1>g. PICK g : g = req[r].arg
  OBVIOUS
<1>3. g \in GateTypes
  BY <1>1, <1>2, <1>g, ReviewGates, GatesAssumption DEF ReviewFound
<1>4. /\ gate' \in [GateTypes -> [Versions -> People]]
      /\ \A h \in GateTypes : h # g => gate'[h] = gate[h]
      /\ \A w \in Versions :
           /\ gate[g][w] # Nobody => gate'[g][w] = gate[g][w]
           /\ w # v => gate'[g][w] = gate[g][w]
  BY <1>2, <1>g, <1>3, GateWritten
<1>5. /\ CaseTyped' /\ req'[r].op = "idle" /\ \A s \in Requests : s # r => req'[s] = req[s]
  BY <1>4, Answered DEF CaseTyped
<1>6. \A h \in GateTypes, w \in Versions : gate[h][w] # Nobody => gate'[h][w] # Nobody
  BY <1>4
<1>7. ASSUME NEW s \in Requests
      PROVE  ReviewFound(s)'
  <2>1. req[s].ver \in Versions /\ ReviewFound(s) /\ UNCHANGED assessed
    BY DEF CaseTyped, RequestTyped, ReviewsHold
  <2>2. ReviewGate["UNDERWRITING"] \in GateTypes
    BY ReviewGates
  <2> QED
    BY <1>5, <1>6, <2>1, <2>2 DEF ReviewFound, Assessed
<1>8. ASSUME NEW w \in Versions
      PROVE  /\ \A m \in Makers : gate'[ReviewGate[m]][w] # Nobody => Assessed(m, w)
             /\ gate'["HG_MAKER_SUBMISSION_CONFIRMED"][w] # Nobody =>
                  gate'[ReviewGate["UNDERWRITING"]][w] # Nobody
  <2>1. /\ \A m \in Makers : gate[ReviewGate[m]][w] # Nobody => Assessed(m, w)
        /\ gate["HG_MAKER_SUBMISSION_CONFIRMED"][w] # Nobody =>
             gate[ReviewGate["UNDERWRITING"]][w] # Nobody
    BY DEF ReviewsHold, ReviewsVouch
  <2>2. \A h \in GateTypes : h # g \/ w # v => gate'[h][w] = gate[h][w]
    BY <1>4
  <2>3. "HG_MAKER_SUBMISSION_CONFIRMED" \in GateTypes
    BY GatesAssumption
  <2> QED
    BY <1>1, <1>2, <1>g, <1>6, <2>1, <2>2, <2>3, ReviewGates DEF ReviewFound
<1>9. ReviewsVouch'
  BY <1>8 DEF ReviewsVouch, Assessed
<1> QED
  BY <1>5, <1>7, <1>9 DEF ReviewsHold, AssessedOnce

LEMMA ReviewsStep ==
  ASSUME CaseTyped, ReviewsHold, MakerReviewsNext
  PROVE  CaseTyped' /\ ReviewsHold'
<1>1. \A v \in VersionRead : v \in Versions
  BY Constants DEF VersionRead, CaseTyped
<1> QED
  BY <1>1, PersistAssessmentStep, ReviewChecked, ReviewSatisfied DEF MakerReviewsNext

\* A version starts, a request is lost, or nothing happens.
LEMMA ReviewsRest ==
  ASSUME ReviewsHold, UNCHANGED <<gate, assessed>>,
         \A r \in Requests : req'[r] = req[r] \/ req'[r].op = "idle"
  PROVE  ReviewsHold'
<1>1. \A r \in Requests : ReviewFound(r)'
  BY DEF ReviewsHold, ReviewFound, Assessed
<1> QED
  BY <1>1 DEF ReviewsHold, ReviewsVouch, Assessed, AssessedOnce

--------------------------------------------------------------------------------
(****************************************************************************)
(* Gap requests: a batch, and a disposition of it, name gaps that were open *)
(* by then, and gaps stay open. So a batch that still names all open gaps   *)
(* named all that were open when it was disposed of.                        *)
(****************************************************************************)
BatchFound(r) ==
  LET i == req[r].arg.batch
      v == req[r].ver IN
  /\ req[r].op = "assemble" =>
       req[r].arg.gaps \subseteq Gaps /\ req[r].arg.gaps \subseteq openGaps[v]
  /\ req[r].op = "dispose batch" =>
       /\ req[r].who \in Actors /\ req[r].arg.type \in DispositionTypes
       /\ i \in DOMAIN batches /\ batches[i].ver = v
  /\ req[r].op = "derive G2" =>
       /\ req[r].who # Nobody
       /\ \E d \in dispositions :
            d.who = req[r].who /\ d.type = req[r].arg.type /\ d.batch = i /\ batches[i].ver = v
  /\ req[r].op = "satisfy G2" =>
       /\ req[r].who # Nobody
       /\ \E d \in dispositions :
            /\ d.who = req[r].who /\ d.type \in SATISFYING_DISPOSITIONS
            /\ d.batch \in DOMAIN batches
            /\ batches[d.batch].ver = v /\ batches[d.batch].gaps = d.open
BatchesHold ==
  /\ batches \in Seq([ver : Versions, gaps : SUBSET Gaps])
  /\ openGaps \in [Versions -> SUBSET Gaps]
  /\ \A i \in DOMAIN batches : batches[i].gaps \subseteq openGaps[batches[i].ver]
  /\ \A d \in dispositions :
       /\ d.batch \in DOMAIN batches
       /\ batches[d.batch].gaps \subseteq d.open
       /\ d.open \subseteq openGaps[batches[d.batch].ver]
       /\ d.type \in DispositionTypes /\ d.who \in Actors
GapsHold == BatchesHold /\ (\A r \in Requests : BatchFound(r)) /\ G2Knowing

\* Batches are appended, gaps opened and dispositions recorded.
MoreGaps ==
  /\ \A i \in DOMAIN batches : i \in DOMAIN batches' /\ batches'[i] = batches[i]
  /\ \A v \in Versions : openGaps[v] \subseteq openGaps'[v]
  /\ dispositions \subseteq dispositions'

LEMMA BatchKept ==
  ASSUME CaseTyped, BatchesHold, NEW r \in Requests, BatchFound(r), req'[r] = req[r], MoreGaps
  PROVE  BatchFound(r)'
<1>1. PICK v \in Versions : v = req[r].ver
  BY DEF CaseTyped, RequestTyped
<1>2. PICK i : i = req[r].arg.batch
  OBVIOUS
<1>3. openGaps[v] \subseteq openGaps'[v]
  BY DEF MoreGaps
<1>4. i \in DOMAIN batches => i \in DOMAIN batches' /\ batches'[i] = batches[i]
  BY DEF MoreGaps
<1>5. \A d \in dispositions :
        d \in dispositions' /\ d.batch \in DOMAIN batches
          /\ d.batch \in DOMAIN batches' /\ batches'[d.batch] = batches[d.batch]
  BY DEF MoreGaps, BatchesHold
<1> QED
  BY <1>4, <1>5, <1>1, <1>2, <1>3 DEF BatchFound

LEMMA KnowingKept ==
  ASSUME BatchesHold, G2Knowing, MoreGaps, UNCHANGED gate
  PROVE  G2Knowing'
<1>1. \A d \in dispositions : d \in dispositions' /\ batches'[d.batch] = batches[d.batch]
  BY DEF MoreGaps, BatchesHold
<1> QED
  BY <1>1 DEF G2Knowing

LEMMA RaiseGapsStep ==
  ASSUME CaseTyped, GapsHold, NEW v \in Versions, NEW new \in SUBSET Gaps, RaiseGaps(v, new)
  PROVE  CaseTyped' /\ GapsHold'
<1> USE DEF RaiseGaps
<1>1. BatchesHold /\ openGaps \in [Versions -> SUBSET Gaps] /\ UNCHANGED <<gate, req>>
  BY DEF GapsHold, BatchesHold, casework
<1>2. /\ openGaps' \in [Versions -> SUBSET Gaps]
      /\ \A w \in Versions : openGaps[w] \subseteq openGaps'[w]
  BY <1>1
<1>3. MoreGaps
  BY <1>2 DEF MoreGaps
<1>4. BatchesHold'
  <2>1. \A i \in DOMAIN batches : batches[i].ver \in Versions
    <3> SUFFICES ASSUME NEW i \in DOMAIN batches
                 PROVE  batches[i].ver \in Versions
      OBVIOUS
    <3>1. PICK T : T = [ver : Versions, gaps : SUBSET Gaps]
      OBVIOUS
    <3>2. batches \in Seq(T)
      BY <1>1, <3>1 DEF BatchesHold
    <3>3. batches[i] \in T
      BY <3>2
    <3> QED
      BY <3>1, <3>3
  <2> QED
    BY <1>1, <1>2, <2>1 DEF BatchesHold
<1> QED
  BY <1>1, <1>3, <1>4, BatchKept, KnowingKept, CaseKept DEF GapsHold

LEMMA ReadOpenGapsStep ==
  ASSUME CaseTyped, GapsHold, NEW r \in Requests, ReadOpenGaps(r)
  PROVE  CaseTyped' /\ GapsHold'
<1> USE DEF ReadOpenGaps
<1>1a. PICK v \in Versions : v = caseVersion
  BY DEF CaseTyped
<1>1. PICK arg : v = caseVersion /\ arg = [gaps |-> openGaps[v]]
  BY <1>1a
<1>2. Enter(r, "assemble", "INTAKE_OFFICER", v, arg) /\ "INTAKE_OFFICER" \in People
      /\ UNCHANGED <<openGaps, batches, dispositions>>
  BY <1>1, BegunBy, Constants DEF gapRequests
<1>3. /\ CaseTyped' /\ Recasts(r, "assemble", "INTAKE_OFFICER", v, arg)
      /\ UNCHANGED <<caseVersion, gate>>
  BY <1>2, Entered
<1>4. arg.gaps = openGaps[v] /\ openGaps[v] \subseteq Gaps
  BY <1>1 DEF GapsHold, BatchesHold
<1>5. BatchFound(r)'
  BY <1>2, <1>3, <1>4 DEF BatchFound, Recasts
<1>6. MoreGaps
  BY <1>2 DEF MoreGaps
<1>7. BatchesHold'
  BY <1>2 DEF GapsHold, BatchesHold
<1> QED
  BY <1>3, <1>5, <1>6, <1>7, BatchKept, KnowingKept DEF GapsHold, Recasts

LEMMA PersistBatchStep ==
  ASSUME CaseTyped, GapsHold, NEW r \in Requests, PersistBatch(r)
  PROVE  CaseTyped' /\ GapsHold'
<1> USE DEF PersistBatch
<1>1. /\ BatchesHold /\ BatchFound(r) /\ req[r].op = "assemble" /\ Done(r)
      /\ UNCHANGED <<caseVersion, gate, openGaps, dispositions>>
  BY DEF GapsHold, Doing
<1>2a. PICK v \in Versions : v = req[r].ver
  BY DEF CaseTyped, RequestTyped
<1>2. PICK b : v = req[r].ver /\ b = [ver |-> v, gaps |-> req[r].arg.gaps]
  BY <1>2a
<1>3. b \in [ver : Versions, gaps : SUBSET Gaps] /\ b.ver = v /\ b.gaps \subseteq openGaps[v]
  BY <1>1, <1>2 DEF BatchFound
<1>4. CaseTyped' /\ req'[r].op = "idle" /\ \A s \in Requests : s # r => req'[s] = req[s]
  BY <1>1, Answered DEF CaseTyped
<1>5. batches' = batches \/ batches' = Append(batches, b)
  BY <1>2
<1>6. /\ batches' \in Seq([ver : Versions, gaps : SUBSET Gaps])
      /\ \A i \in DOMAIN batches : i \in DOMAIN batches' /\ batches'[i] = batches[i]
      /\ \A i \in DOMAIN batches' : i \in DOMAIN batches \/ batches'[i] = b
  <2>1. batches \in Seq([ver : Versions, gaps : SUBSET Gaps])
    BY <1>1 DEF BatchesHold
  <2>2. CASE batches' = batches
    BY <2>1, <2>2
  <2>3. CASE batches' = Append(batches, b)
    <3>1. PICK T : T = [ver : Versions, gaps : SUBSET Gaps]
      OBVIOUS
    <3>2. batches \in Seq(T) /\ b \in T
      BY <1>3, <2>1, <3>1
    <3>3. PICK n \in Nat : n = Len(batches) /\ DOMAIN batches = 1..n
      BY <3>2
    <3>4. /\ batches' \in Seq(T) /\ DOMAIN batches' = 1..(n + 1)
          /\ \A i \in 1..n : batches'[i] = batches[i]
          /\ batches'[n + 1] = b
      BY <2>3, <3>2, <3>3, AppendProperties
    <3> QED
      BY <3>1, <3>3, <3>4
  <2> QED
    BY <1>5, <2>2, <2>3
<1>7. MoreGaps
  BY <1>1, <1>6 DEF MoreGaps
<1>8. BatchesHold'
  <2>1. \A i \in DOMAIN batches' : batches'[i].gaps \subseteq openGaps[batches'[i].ver]
    BY <1>1, <1>3, <1>6 DEF BatchesHold
  <2> QED
    BY <1>1, <1>6, <2>1 DEF BatchesHold
<1>9. BatchFound(r)'
  BY <1>4 DEF BatchFound
<1> QED
  BY <1>1, <1>4, <1>7, <1>8, <1>9, BatchKept, KnowingKept DEF GapsHold

LEMMA CheckBatchStep ==
  ASSUME CaseTyped, GapsHold, NEW r \in Requests, NEW a \in Actors, NEW i \in DOMAIN batches,
         NEW type \in DispositionTypes, CheckBatchDisposition(r, a, i, type)
  PROVE  CaseTyped' /\ GapsHold'
<1> USE DEF CheckBatchDisposition
<1>1a. PICK v \in Versions : v = caseVersion
  BY DEF CaseTyped
<1>1. PICK arg : v = caseVersion /\ arg = [batch |-> i, type |-> type]
  BY <1>1a
<1>2. Enter(r, "dispose batch", a, v, arg) /\ a \in People /\ a # Nobody
      /\ UNCHANGED <<openGaps, batches, dispositions>>
  BY <1>1, BegunBy DEF gapRequests
<1>3. /\ CaseTyped' /\ Recasts(r, "dispose batch", a, v, arg) /\ UNCHANGED <<caseVersion, gate>>
  BY <1>2, Entered
<1>4. arg.batch = i /\ arg.type = type /\ batches[i].ver = v
  BY <1>1 DEF Current, BatchesOf
<1>5. BatchFound(r)'
  BY <1>2, <1>3, <1>4 DEF BatchFound, Recasts
<1>6. MoreGaps
  BY <1>2 DEF MoreGaps
<1>7. BatchesHold'
  BY <1>2 DEF GapsHold, BatchesHold
<1> QED
  BY <1>3, <1>5, <1>6, <1>7, BatchKept, KnowingKept DEF GapsHold, Recasts

LEMMA RecordBatchStep ==
  ASSUME CaseTyped, GapsHold, NEW r \in Requests, RecordBatchDisposition(r)
  PROVE  CaseTyped' /\ GapsHold'
<1> USE DEF RecordBatchDisposition
<1>1. /\ BatchesHold /\ BatchFound(r) /\ req[r].op = "dispose batch"
      /\ req' = [req EXCEPT ![r].op = "derive G2"]
      /\ UNCHANGED <<caseVersion, gate, openGaps, batches>>
  BY DEF GapsHold, Doing
<1>2a. PICK v \in Versions, who \in People : v = req[r].ver /\ who = req[r].who
  BY DEF CaseTyped, RequestTyped
<1>2. PICK arg : v = req[r].ver /\ who = req[r].who /\ arg = req[r].arg
  BY <1>2a
<1>3. PICK d : d = [batch |-> arg.batch, type |-> arg.type, who |-> who, open |-> openGaps[v]]
  OBVIOUS
<1>4. dispositions' = dispositions \cup {d}
  BY <1>2, <1>3
<1>5. /\ d.batch = arg.batch /\ d.type = arg.type /\ d.who = who /\ d.open = openGaps[v]
      /\ who \in Actors /\ who # Nobody /\ arg.type \in DispositionTypes
      /\ arg.batch \in DOMAIN batches /\ batches[arg.batch].ver = v
  BY <1>1, <1>2, <1>3, Constants DEF BatchFound
<1>6. CaseTyped' /\ Recasts(r, "derive G2", who, v, arg)
  BY <1>1, <1>2, WentOn DEF CaseTyped
<1>7. BatchFound(r)'
  BY <1>1, <1>4, <1>5, <1>6 DEF BatchFound, Recasts
<1>8. MoreGaps
  BY <1>1, <1>4 DEF MoreGaps
<1>9. BatchesHold'
  <2>1. batches[arg.batch].gaps \subseteq openGaps[v]
    BY <1>1, <1>5 DEF BatchesHold
  <2> QED
    BY <1>1, <1>4, <1>5, <2>1 DEF BatchesHold
<1> QED
  BY <1>1, <1>6, <1>7, <1>8, <1>9, BatchKept, KnowingKept DEF GapsHold, Recasts

LEMMA DeriveG2Step ==
  ASSUME CaseTyped, GapsHold, NEW r \in Requests, DeriveG2(r)
  PROVE  CaseTyped' /\ GapsHold'
<1> USE DEF DeriveG2
<1>1a. PICK v \in Versions, who \in People : v = req[r].ver /\ who = req[r].who
  BY DEF CaseTyped, RequestTyped
<1>1. PICK arg, i : v = req[r].ver /\ who = req[r].who /\ arg = req[r].arg /\ i = arg.batch
  BY <1>1a
<1>2. PICK P \in BOOLEAN : P = (arg.type \in SATISFYING_DISPOSITIONS /\ Fresh(i, v))
  BY DEF Fresh
<1>3. /\ req' = [req EXCEPT ![r] = IF P THEN [@ EXCEPT !.op = "satisfy G2"] ELSE Idle]
      /\ UNCHANGED <<caseVersion, gate, openGaps, batches, dispositions>>
      /\ req[r].op = "derive G2" /\ BatchesHold /\ BatchFound(r)
  BY <1>1, <1>2 DEF Doing, gapRequests, GapsHold
<1>4. /\ CaseTyped'
      /\ P => Recasts(r, "satisfy G2", who, v, arg)
      /\ ~P => req'[r].op = "idle"
      /\ \A s \in Requests : s # r => req'[s] = req[s]
  BY <1>1, <1>3, WentOnIf DEF CaseTyped
<1>5. PICK d \in dispositions :
        d.who = who /\ d.type = arg.type /\ d.batch = i /\ batches[i].ver = v /\ who # Nobody
  BY <1>1, <1>3 DEF BatchFound
<1>6. d.batch \in DOMAIN batches /\ batches[i].gaps \subseteq d.open /\ d.open \subseteq openGaps[v]
  BY <1>3, <1>5 DEF BatchesHold
<1>7. P => batches[i].gaps = d.open /\ d.type \in SATISFYING_DISPOSITIONS
  BY <1>2, <1>5, <1>6 DEF Fresh
<1>8. BatchFound(r)'
  <2>1. CASE P
    BY <1>3, <1>4, <1>5, <1>6, <1>7, <2>1 DEF BatchFound, Recasts
  <2>2. CASE ~P
    BY <1>4, <2>2 DEF BatchFound
  <2> QED
    BY <2>1, <2>2
<1>9. MoreGaps /\ BatchesHold'
  BY <1>3 DEF MoreGaps, BatchesHold
<1> QED
  BY <1>3, <1>4, <1>8, <1>9, BatchKept, KnowingKept DEF GapsHold

LEMMA SatisfyG2Step ==
  ASSUME CaseTyped, GapsHold, NEW r \in Requests, SatisfyG2(r)
  PROVE  CaseTyped' /\ GapsHold'
<1> USE DEF SatisfyG2
<1>1. PICK g \in GateTypes : g = "G2_GAP_REQUEST_APPROVAL"
  BY GatesAssumption
<1>2. /\ Satisfy(g, req[r].ver, req[r].who) /\ Done(r)
      /\ UNCHANGED <<caseVersion, openGaps, batches, dispositions>>
      /\ req[r].op = "satisfy G2" /\ BatchesHold /\ BatchFound(r)
  BY <1>1 DEF Doing, gapRequests, GapsHold
<1>3. /\ gate' \in [GateTypes -> [Versions -> People]]
      /\ \A w \in Versions :
           /\ gate[g][w] # Nobody => gate'[g][w] = gate[g][w]
           /\ w # req[r].ver => gate'[g][w] = gate[g][w]
      /\ gate[g][req[r].ver] = Nobody => gate'[g][req[r].ver] = req[r].who
  BY <1>2, GateWritten
<1>4. CaseTyped' /\ req'[r].op = "idle" /\ \A s \in Requests : s # r => req'[s] = req[s]
  BY <1>2, <1>3, Answered DEF CaseTyped
<1>5. BatchFound(r)'
  BY <1>4 DEF BatchFound
<1>6. MoreGaps /\ BatchesHold'
  BY <1>2 DEF MoreGaps, BatchesHold
<1>7. G2Knowing'
  <2> SUFFICES ASSUME NEW w \in Versions, gate'[g][w] # Nobody
               PROVE  \E d \in dispositions :
                        /\ d.who = gate'[g][w] /\ d.type \in SATISFYING_DISPOSITIONS
                        /\ batches[d.batch].ver = w /\ batches[d.batch].gaps = d.open
    BY <1>1, <1>2 DEF G2Knowing
  <2>1. CASE gate'[g][w] = gate[g][w]
    <3>1. gate[g][w] # Nobody /\ G2Knowing
      BY <2>1 DEF GapsHold
    <3>2. PICK d \in dispositions :
            /\ d.who = gate[g][w] /\ d.type \in SATISFYING_DISPOSITIONS
            /\ batches[d.batch].ver = w /\ batches[d.batch].gaps = d.open
      <4> HIDE DEF SatisfyG2
      <4> QED
        BY <1>1, <3>1 DEF G2Knowing
    <3> QED
      BY <2>1, <3>2
  <2>2. CASE gate'[g][w] # gate[g][w]
    <3>1. w = req[r].ver /\ gate'[g][w] = req[r].who
      BY <1>3, <2>2
    <3> QED
      BY <1>2, <3>1 DEF BatchFound
  <2> QED
    BY <2>1, <2>2
<1> QED
  BY <1>4, <1>5, <1>6, <1>7, <1>2, BatchKept DEF GapsHold

LEMMA GapsStep ==
  ASSUME CaseTyped, GapsHold, GapRequestsNext
  PROVE  CaseTyped' /\ GapsHold'
<1>1. caseVersion \in Versions
  BY DEF CaseTyped
<1> QED
  BY <1>1, RaiseGapsStep, ReadOpenGapsStep, PersistBatchStep, CheckBatchStep, RecordBatchStep,
     DeriveG2Step, SatisfyG2Step DEF GapRequestsNext

\* A request is lost, or nothing happens.
LEMMA GapsRest ==
  ASSUME CaseTyped, GapsHold, UNCHANGED <<gate, gapRequests>>,
         \A r \in Requests : req'[r] = req[r] \/ req'[r].op = "idle"
  PROVE  GapsHold'
<1>1. MoreGaps /\ BatchesHold'
  BY DEF GapsHold, gapRequests, MoreGaps, BatchesHold
<1>2. ASSUME NEW r \in Requests
      PROVE  BatchFound(r)'
  <2>1. CASE req'[r] = req[r]
    BY <1>1, <2>1, BatchKept DEF GapsHold
  <2>2. CASE req'[r].op = "idle"
    BY <2>2 DEF BatchFound
  <2> QED
    BY <2>1, <2>2
<1> QED
  BY <1>1, <1>2, KnowingKept DEF GapsHold

--------------------------------------------------------------------------------
(****************************************************************************)
(* Risk: dispositions are appended and a review is stored once, so whoever  *)
(* knew at some moment that the case may go on, knew it ever since.         *)
(****************************************************************************)
ReviewTargets == Challenges \cup {AssessmentLevel}
DispositionRecord == [on : ReviewTargets, type : ReviewTypes, who : Actors]
Targets(severe) == IF severe = {} THEN {AssessmentLevel} ELSE severe
GoesOn(s, n, on) ==
  \E i \in 1..n :
    /\ s[i].on = on /\ s[i].type \in {"ACCEPTED_RISK", "NOTED"}
    /\ \A j \in (i + 1)..n : s[j].on # on
KnownAt(s, n, targets, a) ==
  (\E i \in 1..n : s[i].who = a) /\ \A on \in targets : GoesOn(s, n, on)
G3Known(v, a) ==
  /\ v \in Reviewed
  /\ \E n \in DOMAIN recorded[v] : KnownAt(recorded[v], n, Targets(review[v][1]), a)
G3GateKnown(v) ==
  gate["G3_RISK_DISPOSITION"][v] # Nobody => G3Known(v, gate["G3_RISK_DISPOSITION"][v])
RecordedAs(v, x, a) ==
  \E i \in DOMAIN recorded[v] :
    recorded[v][i].on = x.on /\ recorded[v][i].type = x.type /\ recorded[v][i].who = a
RiskFound(r) ==
  LET v == req[r].ver
      a == req[r].who
      x == req[r].arg IN
  /\ req[r].op = "dispose" =>
       a \in Actors /\ v \in Reviewed /\ x.on \in ReviewTargets /\ x.type \in ReviewTypes
  /\ req[r].op \in {"derive G3", "satisfy G3", "revise"} =>
       a # Nobody /\ v \in Reviewed /\ RecordedAs(v, x, a)
  /\ req[r].op = "satisfy G3" => G3Known(v, a)
  /\ req[r].op = "revise" => MustRevise(x)
RiskCounted ==
  /\ \A v \in Versions :
       review[v] = <<>> \/ \E severe \in SUBSET Challenges : review[v] = <<severe>>
  /\ latestReview \in Versions \cup {0} /\ AllRecorded <= MaxRecorded
RiskHold ==
  /\ DOMAIN review = Versions
  /\ RiskCounted
  /\ recorded \in [Versions -> Seq(DispositionRecord)]
  /\ \A r \in Requests : RiskFound(r)
  /\ \A v \in Versions : G3GateKnown(v)
  /\ RevisedOnDemand

MoreRecorded ==
  /\ \A v \in Versions : \A i \in DOMAIN recorded[v] :
       i \in DOMAIN recorded'[v] /\ recorded'[v][i] = recorded[v][i]
  /\ \A v \in Reviewed : v \in Reviewed' /\ review'[v] = review[v]

LEMMA KnowledgeKept ==
  ASSUME recorded \in [Versions -> Seq(DispositionRecord)], MoreRecorded,
         NEW v \in Versions, NEW a
  PROVE  /\ G3Known(v, a) => G3Known(v, a)'
         /\ \A x : RecordedAs(v, x, a) => RecordedAs(v, x, a)'
         /\ \A i \in DOMAIN recorded[v] : MustRevise(recorded[v][i]) =>
              i \in DOMAIN recorded'[v] /\ MustRevise(recorded'[v][i])
         /\ v \in Reviewed => v \in Reviewed'
<1>1. PICK n \in Nat : DOMAIN recorded[v] = 1..n
  <2>1. PICK T : T = DispositionRecord
    OBVIOUS
  <2>2. recorded[v] \in Seq(T)
    BY <2>1
  <2> QED
    BY <2>2
<1>2. \A i \in 1..n : i \in DOMAIN recorded'[v] /\ recorded'[v][i] = recorded[v][i]
  BY <1>1 DEF MoreRecorded
<1>3. v \in Reviewed => v \in Reviewed' /\ review'[v] = review[v]
  BY DEF MoreRecorded
<1>4. ASSUME G3Known(v, a)
      PROVE  G3Known(v, a)'
  <2>1. v \in Reviewed' /\ review'[v] = review[v]
    BY <1>3, <1>4 DEF G3Known
  <2>2. PICK k \in DOMAIN recorded[v] : KnownAt(recorded[v], k, Targets(review[v][1]), a)
    BY <1>4 DEF G3Known
  <2>3. /\ k \in DOMAIN recorded'[v]
        /\ \A i \in 1..k : recorded'[v][i] = recorded[v][i]
        /\ \A i \in 1..k : (i + 1)..k \subseteq 1..k
    BY <1>1, <1>2, <2>2
  <2>4. KnownAt(recorded'[v], k, Targets(review[v][1]), a)
    BY <2>2, <2>3, SMTT(60) DEF KnownAt, GoesOn
  <2>5. \E m \in DOMAIN recorded'[v] : KnownAt(recorded'[v], m, Targets(review'[v][1]), a)
    BY <2>1, <2>3, <2>4
  <2> QED
    BY <2>1, <2>5 DEF G3Known, KnownAt, GoesOn, Targets
<1>5. ASSUME NEW x, RecordedAs(v, x, a)
      PROVE  RecordedAs(v, x, a)'
  BY <1>1, <1>2, <1>5 DEF RecordedAs
<1> QED
  BY <1>4, <1>5, <1>1, <1>2, <1>3

LEMMA FiniteVersions == IsFiniteSet(Versions)
<1>1. 1 \in Int /\ MaxVersion \in Int
  BY CaseworkAssumption
<1> QED
  BY <1>1, FS_Interval DEF Versions

\* What was recorded last counts once.
LEMMA OneMoreRecorded ==
  ASSUME recorded \in [Versions -> Seq(DispositionRecord)],
         recorded' \in [Versions -> Seq(DispositionRecord)], NEW v \in Versions,
         Len(recorded'[v]) = Len(recorded[v]) + 1,
         \A w \in Versions : w # v => recorded'[w] = recorded[w]
  PROVE  AllRecorded \in Int /\ AllRecorded' = AllRecorded + 1
<1> DEFINE f == [w \in Versions |-> Len(recorded[w])]
           g == [w \in Versions |-> Len(recorded'[w])]
           rest == SumFunctionOnSet(f, Versions \ {v})
           all == SumFunctionOnSet(f, Versions)
           now == SumFunctionOnSet(g, Versions)
<1>1. /\ \A w \in Versions : f[w] \in Int /\ g[w] \in Int
      /\ \A w \in Versions \ {v} : g[w] = f[w]
      /\ g[v] = f[v] + 1
  <2>1. PICK T : T = DispositionRecord
    OBVIOUS
  <2>2. \A w \in Versions : recorded[w] \in Seq(T) /\ recorded'[w] \in Seq(T)
    BY <2>1
  <2> QED
    BY <2>2
<1>2. IsFiniteSet(Versions) /\ IsFiniteSet(Versions \ {v})
  BY FiniteVersions, FS_Subset
<1>3. AllRecorded = all /\ AllRecorded' = now
  BY DEF AllRecorded
<1> HIDE DEF f, g
<1>4. all = f[v] + rest /\ now = g[v] + SumFunctionOnSet(g, Versions \ {v})
  BY <1>1, <1>2, SumTakeOut, ZenonT(60)
<1>5. rest = SumFunctionOnSet(g, Versions \ {v}) /\ rest \in Int
  BY <1>1, <1>2, SumSame, SumType
<1>6. now = g[v] + rest
  BY <1>4, <1>5
<1> HIDE DEF rest, all, now
<1> QED
  BY <1>1, <1>3, <1>4, <1>5, <1>6

LEMMA RiskFoundKept ==
  ASSUME CaseTyped, recorded \in [Versions -> Seq(DispositionRecord)], MoreRecorded,
         NEW r \in Requests, RiskFound(r), req'[r] = req[r]
  PROVE  RiskFound(r)'
<1>1a. PICK v \in Versions : v = req[r].ver
  BY DEF CaseTyped, RequestTyped
<1>1. PICK a, x : v = req[r].ver /\ a = req[r].who /\ x = req[r].arg
  BY <1>1a
<1>2. /\ G3Known(v, a) => G3Known(v, a)'
      /\ RecordedAs(v, x, a) => RecordedAs(v, x, a)'
      /\ v \in Reviewed => v \in Reviewed'
  BY KnowledgeKept
<1>3. /\ req[r].op = "dispose" =>
           a \in Actors /\ v \in Reviewed /\ x.on \in ReviewTargets /\ x.type \in ReviewTypes
      /\ req[r].op \in {"derive G3", "satisfy G3", "revise"} =>
           a # Nobody /\ v \in Reviewed /\ RecordedAs(v, x, a)
      /\ req[r].op = "satisfy G3" => G3Known(v, a)
      /\ req[r].op = "revise" => MustRevise(x)
  BY <1>1 DEF RiskFound
<1>4. req'[r].ver = v /\ req'[r].who = a /\ req'[r].arg = x /\ req'[r].op = req[r].op
  BY <1>1
<1> QED
  BY <1>2, <1>3, <1>4 DEF RiskFound

LEMMA G3KnowingIs == G3Knowing <=> \A v \in Versions : G3GateKnown(v)
  BY DEF G3Knowing, G3GateKnown, G3Known, KnownAt, GoesOn, Targets, Reviewed

LEMMA G3Kept ==
  ASSUME recorded \in [Versions -> Seq(DispositionRecord)], MoreRecorded, UNCHANGED gate,
         \A v \in Versions : G3GateKnown(v)
  PROVE  \A v \in Versions : G3GateKnown(v)'
<1> SUFFICES ASSUME NEW v \in Versions, gate'["G3_RISK_DISPOSITION"][v] # Nobody
             PROVE  G3Known(v, gate["G3_RISK_DISPOSITION"][v])'
  BY DEF G3GateKnown
<1>1. PICK a : a = gate["G3_RISK_DISPOSITION"][v]
  OBVIOUS
<1>2. G3Known(v, a)
  BY <1>1 DEF G3GateKnown
<1>3. G3Known(v, a)'
  BY <1>2, KnowledgeKept
<1> QED
  BY <1>1, <1>3 DEF G3Known

LEMMA DemandKept ==
  ASSUME CaseTyped, recorded \in [Versions -> Seq(DispositionRecord)], MoreRecorded,
         UNCHANGED caseVersion, RevisedOnDemand
  PROVE  RevisedOnDemand'
<1> SUFFICES ASSUME NEW v \in 1..(caseVersion - 1)
             PROVE  \E i \in DOMAIN recorded'[v] : MustRevise(recorded'[v][i])
  BY DEF RevisedOnDemand, MustRevise
<1>1. v \in Versions
  BY Constants DEF CaseTyped, Versions
<1>2. PICK i \in DOMAIN recorded[v] : MustRevise(recorded[v][i])
  BY DEF RevisedOnDemand
<1> QED
  BY <1>1, <1>2, KnowledgeKept

LEMMA PersistReviewStep ==
  ASSUME CaseTyped, RiskHold, NEW v \in Versions, NEW severe \in SUBSET Challenges,
         PersistReview(v, severe)
  PROVE  CaseTyped' /\ RiskHold'
<1> USE DEF PersistReview
<1>1. PICK x : x = <<severe>>
  OBVIOUS
<1>2. /\ review[v] = <<>> /\ review' = [review EXCEPT ![v] = x]
      /\ DOMAIN review = Versions /\ UNCHANGED <<caseVersion, gate, req, recorded>>
  BY <1>1 DEF casework, RiskHold
<1>3. x # <<>>
  BY <1>1
<1>4. DOMAIN review' = Versions /\ MoreRecorded
  BY <1>2, <1>3 DEF MoreRecorded, Reviewed
<1>5. recorded \in [Versions -> Seq(DispositionRecord)] /\ (\A w \in Versions : G3GateKnown(w)) /\ RevisedOnDemand
      /\ \A r \in Requests : RiskFound(r)
  BY DEF RiskHold
<1>6. (\A w \in Versions : G3GateKnown(w)') /\ RevisedOnDemand' /\ (\A r \in Requests : RiskFound(r)')
  <2> HIDE DEF PersistReview
  <2> QED
    BY <1>2, <1>4, <1>5, G3Kept, DemandKept, RiskFoundKept
<1>7. RiskCounted'
  BY <1>1, <1>2 DEF RiskHold, RiskCounted, AllRecorded
<1> QED
  BY <1>2, <1>4, <1>5, <1>6, <1>7, CaseKept DEF RiskHold

LEMMA CheckDispositionStep ==
  ASSUME CaseTyped, RiskHold, NEW r \in Requests, NEW a \in Actors, NEW v \in Versions,
         NEW on \in ReviewTargets, NEW type \in ReviewTypes, CheckDisposition(r, a, v, on, type)
  PROVE  CaseTyped' /\ RiskHold'
<1> USE DEF CheckDisposition
<1>1. PICK x : x = [on |-> on, type |-> type]
  OBVIOUS
<1>2. Enter(r, "dispose", a, v, x) /\ a \in People /\ a # Nobody /\ v \in Reviewed
      /\ UNCHANGED <<review, latestReview, recorded>>
  BY <1>1, BegunBy DEF riskDispositions
<1>3. CaseTyped' /\ Recasts(r, "dispose", a, v, x) /\ UNCHANGED <<caseVersion, gate>>
  BY <1>2, Entered
<1>4. x.on = on /\ x.type = type
  BY <1>1
<1>5. RiskFound(r)'
  BY <1>2, <1>3, <1>4 DEF RiskFound, Recasts, Reviewed
<1>6. MoreRecorded
  BY <1>2 DEF MoreRecorded, Reviewed
<1>7. recorded \in [Versions -> Seq(DispositionRecord)] /\ (\A w \in Versions : G3GateKnown(w)) /\ RevisedOnDemand
      /\ \A s \in Requests : RiskFound(s)
  BY DEF RiskHold
<1>8. (\A w \in Versions : G3GateKnown(w)') /\ RevisedOnDemand' /\ (\A s \in Requests : s # r => RiskFound(s)')
  <2> HIDE DEF CheckDisposition
  <2> QED
    BY <1>3, <1>6, <1>7, G3Kept, DemandKept, RiskFoundKept DEF Recasts
<1>9. RiskCounted'
  BY <1>2 DEF RiskHold, RiskCounted, AllRecorded
<1> QED
  BY <1>2, <1>3, <1>5, <1>7, <1>8, <1>9 DEF RiskHold

LEMMA RecordDispositionStep ==
  ASSUME CaseTyped, RiskHold, NEW r \in Requests, RecordDisposition(r)
  PROVE  CaseTyped' /\ RiskHold'
<1> USE DEF RecordDisposition
<1>1a. PICK v \in Versions, a \in People : v = req[r].ver /\ a = req[r].who
  BY DEF CaseTyped, RequestTyped
<1>1. PICK x : v = req[r].ver /\ a = req[r].who /\ x = req[r].arg
  BY <1>1a
<1>2. PICK e : e = [on |-> x.on, type |-> x.type, who |-> a]
  OBVIOUS
<1>3. /\ recorded' = [recorded EXCEPT ![v] = Append(recorded[v], e)]
      /\ req' = [req EXCEPT ![r].op = "derive G3"]
      /\ UNCHANGED <<caseVersion, gate, review, latestReview>> /\ req[r].op = "dispose"
  BY <1>1, <1>2 DEF Doing
<1>4. recorded \in [Versions -> Seq(DispositionRecord)] /\ (\A w \in Versions : G3GateKnown(w)) /\ RevisedOnDemand
      /\ DOMAIN review = Versions /\ \A s \in Requests : RiskFound(s)
  BY DEF RiskHold
<1>5. /\ a \in Actors /\ a # Nobody /\ v \in Reviewed
      /\ x.on \in ReviewTargets /\ x.type \in ReviewTypes
  BY <1>1, <1>3, <1>4, Constants, ZenonT(60) DEF RiskFound
<1>6. e \in DispositionRecord /\ e.on = x.on /\ e.type = x.type /\ e.who = a
  BY <1>2, <1>5 DEF DispositionRecord
<1>7. /\ Append(recorded[v], e) \in Seq(DispositionRecord)
      /\ \A i \in DOMAIN recorded[v] :
           i \in DOMAIN Append(recorded[v], e) /\ Append(recorded[v], e)[i] = recorded[v][i]
      /\ \E i \in DOMAIN Append(recorded[v], e) : Append(recorded[v], e)[i] = e
      /\ Len(Append(recorded[v], e)) = Len(recorded[v]) + 1
  <2>1. PICK T : T = DispositionRecord
    OBVIOUS
  <2>2. recorded[v] \in Seq(T) /\ e \in T
    BY <1>4, <1>6, <2>1
  <2> HIDE DEF RecordDisposition
  <2>3. PICK n \in Nat : n = Len(recorded[v]) /\ DOMAIN recorded[v] = 1..n
    BY <2>2
  <2>4. PICK s : s = Append(recorded[v], e)
    OBVIOUS
  <2>5. s \in Seq(T) /\ DOMAIN s = 1..(n + 1) /\ s[n + 1] = e
        /\ \A i \in 1..n : s[i] = recorded[v][i]
    BY <2>2, <2>3, <2>4, AppendProperties
  <2> QED
    BY <2>1, <2>3, <2>4, <2>5
<1>8. /\ recorded' \in [Versions -> Seq(DispositionRecord)]
      /\ recorded'[v] = Append(recorded[v], e)
      /\ \A w \in Versions : w # v => recorded'[w] = recorded[w]
  <2> HIDE DEF RecordDisposition
  <2> QED
    BY <1>3, <1>4, <1>7
<1>9. MoreRecorded
  BY <1>3, <1>7, <1>8 DEF MoreRecorded, Reviewed
<1>10. CaseTyped' /\ Recasts(r, "derive G3", a, v, x)
  <2> HIDE DEF RecordDisposition
  <2>1. caseVersion' \in Versions /\ gate' \in [GateTypes -> [Versions -> People]]
    BY <1>3 DEF CaseTyped
  <2> QED
    BY <1>1, <1>3, <2>1, WentOn
<1>11. RiskFound(r)'
  <2>1. RecordedAs(v, x, a)'
    BY <1>6, <1>7, <1>8 DEF RecordedAs
  <2>2. v \in Reviewed'
    BY <1>5, <1>9 DEF MoreRecorded
  <2> QED
    BY <1>5, <1>10, <2>1, <2>2 DEF RiskFound, Recasts
<1>12. (\A w \in Versions : G3GateKnown(w)') /\ RevisedOnDemand' /\ (\A s \in Requests : s # r => RiskFound(s)')
  <2> HIDE DEF RecordDisposition
  <2> QED
    BY <1>3, <1>4, <1>9, <1>10, G3Kept, DemandKept, RiskFoundKept DEF Recasts
<1>13. RiskCounted'
  <2>1. AllRecorded \in Int /\ AllRecorded' = AllRecorded + 1
    BY <1>4, <1>7, <1>8, OneMoreRecorded
  <2>2. AllRecorded < MaxRecorded
    OBVIOUS
  <2> HIDE DEF RecordDisposition
  <2>3. AllRecorded' <= MaxRecorded
    <3>1. PICK n \in Int, m \in Int : n = AllRecorded /\ m = AllRecorded'
      BY <2>1
    <3>2. MaxRecorded \in Int /\ m = n + 1 /\ n < MaxRecorded
      BY <2>1, <2>2, <3>1, RiskAssumption
    <3> QED
      BY <3>1, <3>2
  <2> QED
    BY <1>3, <2>3 DEF RiskHold, RiskCounted
<1> QED
  BY <1>3, <1>4, <1>8, <1>10, <1>11, <1>12, <1>13 DEF RiskHold

\* The latest disposition of each target, as it is derived, is what was known.
LEMMA DerivedIsKnown ==
  ASSUME NEW v \in Reviewed, recorded \in [Versions -> Seq(DispositionRecord)], NEW a, NEW x,
         RecordedAs(v, x, a), G3Derived(v, Len(recorded[v]))
  PROVE  G3Known(v, a)
<1>1. v \in Versions
  BY DEF Reviewed
<1>2. PICK n \in Nat : n = Len(recorded[v]) /\ DOMAIN recorded[v] = 1..n
  <2>1. PICK T : T = DispositionRecord
    OBVIOUS
  <2>2. recorded[v] \in Seq(T)
    BY <1>1, <2>1
  <2> QED
    BY <2>2
<1>3. n \in DOMAIN recorded[v] /\ \E i \in 1..n : recorded[v][i].who = a
  BY <1>2 DEF RecordedAs
<1>4. ASSUME NEW on \in Targets(review[v][1])
      PROVE  GoesOn(recorded[v], n, on)
  <2>1. Continues(recorded[v], n, on)
    BY <1>2, <1>4 DEF G3Derived, Targets
  <2>2. PICK i \in About(recorded[v], n, on) :
          /\ \A j \in About(recorded[v], n, on) : j <= i
          /\ recorded[v][i].type \in G3_CONTINUE_DISPOSITION_TYPES
    BY <2>1 DEF Continues
  <2>3. i \in 1..n /\ recorded[v][i].on = on
    BY <2>2 DEF About
  <2>4. ASSUME NEW j \in (i + 1)..n
        PROVE  recorded[v][j].on # on
    <3>1. j \in 1..n /\ ~(j <= i)
      BY <1>2, <2>3
    <3> QED
      BY <2>2, <3>1 DEF About
  <2> QED
    BY <2>2, <2>3, <2>4 DEF GoesOn, G3_CONTINUE_DISPOSITION_TYPES
<1> QED
  BY <1>1, <1>3, <1>4 DEF G3Known, KnownAt

\* A request whose answer leaves the dispositions and the version alone.
LEMMA RiskServed ==
  ASSUME CaseTyped, RiskHold, CaseTyped', NEW r, UNCHANGED <<caseVersion, review, latestReview, recorded>>,
         \A s \in Requests : s # r => req'[s] = req[s], r \in Requests => RiskFound(r)',
         \A v \in Versions : G3GateKnown(v)'
  PROVE  RiskHold'
<1>1. MoreRecorded
  BY DEF MoreRecorded, Reviewed
<1>2. recorded \in [Versions -> Seq(DispositionRecord)] /\ RevisedOnDemand
      /\ DOMAIN review = Versions /\ \A s \in Requests : RiskFound(s)
  BY DEF RiskHold
<1>3. RevisedOnDemand' /\ (\A s \in Requests : s # r => RiskFound(s)')
  BY <1>1, <1>2, DemandKept, RiskFoundKept
<1>4. RiskCounted'
  BY DEF RiskHold, RiskCounted, AllRecorded
<1> QED
  BY <1>2, <1>3, <1>4 DEF RiskHold

\* A request that has nothing left to do but perhaps a revision.
LEMMA AfterG3Found ==
  ASSUME CaseTyped, NEW r \in Requests, RiskFound(r),
         req[r].op \in {"derive G3", "satisfy G3"},
         req' = [req EXCEPT ![r] = AfterG3(@)], UNCHANGED <<caseVersion, review, latestReview, recorded>>,
         gate' \in [GateTypes -> [Versions -> People]]
  PROVE  CaseTyped' /\ RiskFound(r)' /\ \A s \in Requests : s # r => req'[s] = req[s]
<1>1. PICK P \in BOOLEAN : P = MustRevise(req[r].arg)
  BY DEF MustRevise
<1>2. req' = [req EXCEPT ![r] = IF P THEN [@ EXCEPT !.op = "revise"] ELSE Idle]
  BY <1>1 DEF AfterG3
<1>3. /\ CaseTyped'
      /\ P => Recasts(r, "revise", req[r].who, req[r].ver, req[r].arg)
      /\ ~P => req'[r].op = "idle"
      /\ \A s \in Requests : s # r => req'[s] = req[s]
  BY <1>2, WentOnIf DEF CaseTyped
<1>4. RiskFound(r)'
  BY <1>1, <1>3, ZenonT(60) DEF RiskFound, Recasts, RecordedAs, Reviewed, MustRevise
<1> QED
  BY <1>3, <1>4

LEMMA DeriveG3Step ==
  ASSUME CaseTyped, RiskHold, NEW r \in Requests, DeriveG3(r)
  PROVE  CaseTyped' /\ RiskHold'
<1>1a. PICK v \in Versions : v = req[r].ver
  BY DEF CaseTyped, RequestTyped
<1>1. PICK a, x : v = req[r].ver /\ a = req[r].who /\ x = req[r].arg
  BY <1>1a
<1>2. PICK P \in BOOLEAN : P = G3Derived(v, Len(recorded[v]))
  BY DEF G3Derived
<1>3. /\ req' = [req EXCEPT ![r] = IF P THEN [@ EXCEPT !.op = "satisfy G3"] ELSE AfterG3(@)]
      /\ UNCHANGED <<caseVersion, gate, review, latestReview, recorded>> /\ req[r].op = "derive G3"
  BY <1>1, <1>2 DEF DeriveG3, Doing, riskDispositions
<1>4. RiskFound(r) /\ recorded \in [Versions -> Seq(DispositionRecord)]
      /\ caseVersion' \in Versions /\ gate' \in [GateTypes -> [Versions -> People]]
  BY <1>3 DEF RiskHold, CaseTyped
<1>5. CaseTyped' /\ RiskFound(r)' /\ \A s \in Requests : s # r => req'[s] = req[s]
  <2>1. CASE P
    <3>1. a # Nobody /\ v \in Reviewed /\ RecordedAs(v, x, a)
      BY <1>1, <1>3, <1>4 DEF RiskFound
    <3>2. G3Known(v, a)
      BY <1>2, <1>4, <2>1, <3>1, DerivedIsKnown
    <3>3. req' = [req EXCEPT ![r].op = "satisfy G3"]
      BY <1>3, <2>1
    <3>4. CaseTyped' /\ Recasts(r, "satisfy G3", a, v, x)
      BY <1>1, <1>4, <3>3, WentOn
    <3>5. G3Known(v, a)' /\ RecordedAs(v, x, a)' /\ v \in Reviewed'
      BY <1>3, <3>1, <3>2 DEF G3Known, RecordedAs, Reviewed
    <3> QED
      BY <3>1, <3>4, <3>5 DEF RiskFound, Recasts
  <2>2. CASE ~P
    <3>1. req' = [req EXCEPT ![r] = AfterG3(@)]
      BY <1>3, <2>2
    <3> QED
      BY <1>3, <1>4, <3>1, AfterG3Found
  <2> QED
    BY <2>1, <2>2
<1>6. \A w \in Versions : G3GateKnown(w)'
  BY <1>3 DEF RiskHold, G3GateKnown, G3Known, Reviewed
<1> QED
  BY <1>3, <1>5, <1>6, RiskServed

LEMMA SatisfyG3Step ==
  ASSUME CaseTyped, RiskHold, NEW r \in Requests, SatisfyG3(r)
  PROVE  CaseTyped' /\ RiskHold'
<1>1. PICK g \in GateTypes : g = "G3_RISK_DISPOSITION"
  BY GatesAssumption
<1>2. /\ Satisfy(g, req[r].ver, req[r].who) /\ req' = [req EXCEPT ![r] = AfterG3(@)]
      /\ UNCHANGED <<caseVersion, review, latestReview, recorded>> /\ req[r].op = "satisfy G3"
      /\ RiskFound(r) /\ (\A w \in Versions : G3GateKnown(w))
  BY <1>1 DEF SatisfyG3, Doing, riskDispositions, RiskHold
<1>3. /\ gate' \in [GateTypes -> [Versions -> People]]
      /\ \A w \in Versions :
           /\ gate[g][w] # Nobody => gate'[g][w] = gate[g][w]
           /\ w # req[r].ver => gate'[g][w] = gate[g][w]
      /\ gate[g][req[r].ver] = Nobody => gate'[g][req[r].ver] = req[r].who
  BY <1>2, GateWritten
<1>4. CaseTyped' /\ RiskFound(r)' /\ \A s \in Requests : s # r => req'[s] = req[s]
  BY <1>2, <1>3, AfterG3Found
<1>5. ASSUME NEW w \in Versions, gate'[g][w] # Nobody
      PROVE  G3Known(w, gate[g][w])'
  <2>1. PICK a : a = gate'[g][w]
    OBVIOUS
  <2>2. G3Known(w, a)
    <3>1. CASE gate'[g][w] = gate[g][w]
      BY <1>1, <1>2, <1>5, <2>1, <3>1 DEF G3GateKnown
    <3>2. CASE gate'[g][w] # gate[g][w]
      <4>1. w = req[r].ver /\ a = req[r].who
        BY <1>3, <2>1, <3>2
      <4> QED
        BY <1>2, <4>1 DEF RiskFound
    <3> QED
      BY <3>1, <3>2
  <2> QED
    BY <1>2, <2>1, <2>2 DEF G3Known, Reviewed
<1>6. \A w \in Versions : G3GateKnown(w)'
  BY <1>1, <1>5 DEF G3GateKnown, G3Known
<1> QED
  BY <1>2, <1>4, <1>6, RiskServed

LEMMA ReviseStep ==
  ASSUME CaseTyped, RiskHold, NEW r \in Requests, Revise(r)
  PROVE  CaseTyped' /\ RiskHold'
<1>1a. PICK v \in Versions : v = req[r].ver
  BY DEF CaseTyped, RequestTyped
<1>1. PICK x : v = req[r].ver /\ x = req[r].arg
  BY <1>1a
<1>2. /\ Done(r) /\ UNCHANGED <<gate, review, latestReview, recorded>> /\ req[r].op = "revise"
      /\ \/ caseVersion = v /\ caseVersion < MaxVersion /\ caseVersion' = caseVersion + 1
         \/ UNCHANGED caseVersion
  BY <1>1 DEF Revise, Doing, riskDispositions, Expected
<1>3. /\ recorded \in [Versions -> Seq(DispositionRecord)] /\ RevisedOnDemand
      /\ DOMAIN review = Versions /\ (\A s \in Requests : RiskFound(s))
      /\ (\A w \in Versions : G3GateKnown(w))
  BY DEF RiskHold
<1>4. caseVersion \in Versions /\ caseVersion' \in Versions
      /\ gate' \in [GateTypes -> [Versions -> People]]
  BY <1>2, Constants DEF CaseTyped, Versions
<1>5. CaseTyped' /\ req'[r].op = "idle" /\ \A s \in Requests : s # r => req'[s] = req[s]
  BY <1>2, <1>4, Answered
<1>6. \A s \in Requests : RiskFound(s)'
  <2>1. MoreRecorded
    BY <1>2 DEF MoreRecorded, Reviewed
  <2>2. RiskFound(r)'
    BY <1>5 DEF RiskFound
  <2> QED
    BY <1>3, <1>5, <2>1, <2>2, RiskFoundKept
<1>7. \A w \in Versions : G3GateKnown(w)'
  BY <1>2, <1>3 DEF G3GateKnown, G3Known, Reviewed
<1>8. \E a : RecordedAs(v, x, a) /\ MustRevise(x)
  BY <1>1, <1>2, <1>3 DEF RiskFound
<1>9. \E i \in DOMAIN recorded[v] : MustRevise(recorded[v][i])
  BY <1>8 DEF RecordedAs, MustRevise
<1>10. RevisedOnDemand'
  <2> SUFFICES ASSUME NEW w \in 1..(caseVersion' - 1)
               PROVE  \E i \in DOMAIN recorded[w] : MustRevise(recorded[w][i])
    BY <1>2 DEF RevisedOnDemand, MustRevise
  <2>1. w \in 1..(caseVersion - 1) \/ w = v
    BY <1>2, <1>4 DEF Versions
  <2> QED
    BY <1>3, <1>9, <2>1 DEF RevisedOnDemand
<1>11. RiskCounted'
  BY <1>2 DEF RiskHold, RiskCounted, AllRecorded
<1> QED
  BY <1>2, <1>3, <1>5, <1>6, <1>7, <1>10, <1>11 DEF RiskHold

LEMMA RiskStep ==
  ASSUME CaseTyped, RiskHold, RiskDispositionsNext
  PROVE  CaseTyped' /\ RiskHold'
<1>1. VersionRead \subseteq Versions
  BY Constants DEF VersionRead, CaseTyped, Versions
<1> QED
  BY <1>1, PersistReviewStep, CheckDispositionStep, RecordDispositionStep, DeriveG3Step,
     SatisfyG3Step, ReviseStep DEF RiskDispositionsNext, ReviewTargets

\* A request is lost, or nothing happens.
LEMMA RiskRest ==
  ASSUME CaseTyped, RiskHold, UNCHANGED <<caseVersion, gate, review, latestReview, recorded>>,
         \A r \in Requests : req'[r] = req[r] \/ req'[r].op = "idle"
  PROVE  RiskHold'
<1>1. MoreRecorded
  BY DEF MoreRecorded, Reviewed
<1>2. recorded \in [Versions -> Seq(DispositionRecord)] /\ RevisedOnDemand
      /\ DOMAIN review = Versions /\ (\A s \in Requests : RiskFound(s))
      /\ (\A w \in Versions : G3GateKnown(w))
  BY DEF RiskHold
<1>3. ASSUME NEW r \in Requests
      PROVE  RiskFound(r)'
  <2>1. CASE req'[r] = req[r]
    BY <1>1, <1>2, <2>1, RiskFoundKept
  <2>2. CASE req'[r].op = "idle"
    BY <2>2 DEF RiskFound
  <2> QED
    BY <2>1, <2>2
<1>4. RevisedOnDemand' /\ \A w \in Versions : G3GateKnown(w)'
  BY <1>1, <1>2, DemandKept, G3Kept
<1>5. RiskCounted'
  BY DEF RiskHold, RiskCounted, AllRecorded
<1> QED
  BY <1>2, <1>3, <1>4, <1>5 DEF RiskHold

--------------------------------------------------------------------------------
(****************************************************************************)
(* Origination: the numbers on record are 1 to their count, and a number a  *)
(* request has read is one of them or the next; the constraint refuses the  *)
(* former, so what is inserted is the next one.                             *)
(****************************************************************************)
NeedGate == "HG_FINANCING_NEED_CONFIRMED"
NumberFound(r) ==
  /\ req[r].op = "insert_version" =>
       req[r].arg \in 1..(Len(needs) + 1) /\ req[r].arg <= MaxNeeds
  /\ req[r].op = "confirm" => req[r].who # Nobody /\ req[r].arg \in 1..Len(needs)
  /\ req[r].op = "append_snapshot" =>
       req[r].arg \in 1..(Len(snapshots) + 1) /\ req[r].arg <= MaxSnapshots
ConfirmedHolds ==
  /\ confirmed \in [Versions -> Nat]
  /\ \A v \in Versions :
       (gate[NeedGate][v] # Nobody <=> confirmed[v] # 0) /\ confirmed[v] <= Len(needs)
OriginationHold ==
  /\ needs \in Seq([n : Nat, ver : Versions]) /\ snapshots \in Seq(Nat)
  /\ \A i \in DOMAIN needs : needs[i].n = i
  /\ \A i \in DOMAIN snapshots : snapshots[i] = i
  /\ Len(needs) <= MaxNeeds /\ Len(snapshots) <= MaxSnapshots
  /\ contacts \subseteq {"CONTACT", "DO_NOT_CONTACT", "DEFER"}
  /\ ConfirmedHolds
  /\ \A r \in Requests : NumberFound(r)

LEMMA LatestOfFirst ==
  ASSUME NEW n \in Nat
  PROVE  Latest(1..n) = n
<1> DEFINE P(m) == \A k \in 1..n : k <= m
<1>1. n \in 1..n \cup {0} /\ P(n)
  OBVIOUS
<1>2. \A m \in 1..n \cup {0} : P(m) => m = n
  OBVIOUS
<1>3. Latest(1..n) \in 1..n \cup {0} /\ P(Latest(1..n))
  BY <1>1 DEF Latest
<1> QED
  BY <1>2, <1>3

LEMMA Numbered ==
  ASSUME OriginationHold
  PROVE  /\ Len(needs) \in Nat /\ NeedNumbers = 1..Len(needs)
         /\ Latest(NeedNumbers) = Len(needs)
         /\ Len(snapshots) \in Nat /\ SnapshotNumbers = 1..Len(snapshots)
         /\ Latest(SnapshotNumbers) = Len(snapshots)
<1>1. PICK T : T = [n : Nat, ver : Versions]
  OBVIOUS
<1>2. PICK n \in Nat, k \in Nat :
        /\ n = Len(needs) /\ DOMAIN needs = 1..n
        /\ k = Len(snapshots) /\ DOMAIN snapshots = 1..k
  BY <1>1 DEF OriginationHold
<1>3. NeedNumbers = 1..n /\ SnapshotNumbers = 1..k
  BY <1>2 DEF OriginationHold, NeedNumbers, SnapshotNumbers
<1> QED
  BY <1>2, <1>3, LatestOfFirst

\* Nothing is taken off the record, and only request r changes.
LEMMA OriginationServed ==
  ASSUME CaseTyped, OriginationHold, NEW r, \A s \in Requests : s # r => req'[s] = req[s],
         r \in Requests => NumberFound(r)', ConfirmedHolds',
         needs' \in Seq([n : Nat, ver : Versions]), snapshots' \in Seq(Nat),
         Len(needs) <= Len(needs'), Len(snapshots) <= Len(snapshots'),
         Len(needs') <= MaxNeeds, Len(snapshots') <= MaxSnapshots,
         UNCHANGED contacts, \A i \in DOMAIN needs' : needs'[i].n = i,
         \A i \in DOMAIN snapshots' : snapshots'[i] = i
  PROVE  OriginationHold'
<1>1. PICK a \in Nat, b \in Nat, c \in Nat, d \in Nat :
        /\ a = Len(needs) /\ b = Len(needs') /\ c = Len(snapshots) /\ d = Len(snapshots')
        /\ a <= b /\ c <= d
  BY DEF OriginationHold
<1>2. ASSUME NEW s \in Requests, s # r
      PROVE  NumberFound(s)'
  <2>1. NumberFound(s) /\ req'[s] = req[s]
    BY <1>2 DEF OriginationHold
  <2>2. PICK x : x = req[s].arg
    OBVIOUS
  <2>3. /\ x \in 1..(a + 1) => x \in 1..(b + 1)
        /\ x \in 1..a => x \in 1..b
        /\ x \in 1..(c + 1) => x \in 1..(d + 1)
    BY <1>1
  <2> QED
    BY <1>1, <2>1, <2>2, <2>3 DEF NumberFound
<1> QED
  BY <1>2 DEF OriginationHold

\* A request that goes on with something else to write.
LEMMA WentOnWith ==
  ASSUME CaseTyped, NEW r \in Requests, NEW op, NEW x,
         \/ req' = [req EXCEPT ![r].op = op, ![r].arg = x]
         \/ req' = [req EXCEPT ![r] = [@ EXCEPT !.op = op, !.arg = x]],
         caseVersion' \in Versions, gate' \in [GateTypes -> [Versions -> People]]
  PROVE  CaseTyped' /\ Recasts(r, op, req[r].who, req[r].ver, x)
<1>1. PICK y : y = req[r]
  OBVIOUS
<1>2. PICK q : q = [op |-> op, who |-> y.who, ver |-> y.ver, arg |-> x]
  OBVIOUS
<1>3. y = [op |-> y.op, who |-> y.who, ver |-> y.ver, arg |-> y.arg]
      /\ y.who \in People /\ y.ver \in Versions
  BY <1>1 DEF CaseTyped, RequestTyped
<1>4. [[y EXCEPT !.op = op] EXCEPT !.arg = x] = q
  <2>1. PICK z : z = [op |-> op, who |-> y.who, ver |-> y.ver, arg |-> y.arg]
    OBVIOUS
  <2>2. [y EXCEPT !.op = op] = z
    BY <1>3, <2>1
  <2>3. [z EXCEPT !.arg = x] = q
    BY <1>2, <2>1
  <2> QED
    BY <2>2, <2>3
<1>5. req' = [req EXCEPT ![r] = q]
  BY <1>1, <1>4 DEF CaseTyped
<1>6. RequestTyped(q) /\ q.op = op /\ q.who = y.who /\ q.ver = y.ver /\ q.arg = x
  BY <1>2, <1>3, RequestMade
<1>7. CaseTyped' /\ Writes(r, q)
  BY <1>5, <1>6, RequestWritten
<1> QED
  BY <1>1, <1>6, <1>7 DEF Writes, Recasts

LEMMA NeedRequested ==
  ASSUME CaseTyped, OriginationHold, NEW r \in Requests, NEW v \in Versions,
         \/ AppendNeed(r, v) \/ ConfirmNeed(r, v) \/ NumberNeed(r) \/ AppendSnapshot(r)
  PROVE  CaseTyped' /\ OriginationHold'
<1>1. /\ UNCHANGED <<caseVersion, gate, needs, snapshots, contacts, confirmed>>
      /\ caseVersion' \in Versions /\ gate' \in [GateTypes -> [Versions -> People]]
  BY DEF AppendNeed, ConfirmNeed, NumberNeed, AppendSnapshot, BeginAny, Enter, origination,
         CaseTyped
<1>2. PICK n \in Nat, k \in Nat :
        /\ n = Len(needs) /\ Latest(NeedNumbers) = n
        /\ k = Len(snapshots) /\ Latest(SnapshotNumbers) = k
  BY Numbered
<1>3. CaseTyped' /\ NumberFound(r)' /\ \A s \in Requests : s # r => req'[s] = req[s]
  <2>1. "INTAKE_OFFICER" \in DOMAIN Staff /\ 1 \in Versions
    BY Constants
  <2>2. CASE AppendNeed(r, v)
    <3>1. Enter(r, "append_version", "INTAKE_OFFICER", v, Nobody)
          /\ "INTAKE_OFFICER" \in People
      BY <2>1, <2>2, BegunBy DEF AppendNeed
    <3> QED
      BY <3>1, Entered DEF Recasts, NumberFound
  <2>3. CASE ConfirmNeed(r, v)
    <3>1. Enter(r, "confirm", "INTAKE_OFFICER", v, n)
          /\ "INTAKE_OFFICER" \in People /\ "INTAKE_OFFICER" # Nobody
      BY <1>2, <2>1, <2>3, BegunBy DEF ConfirmNeed
    <3>2. n \in 1..n
      BY <1>2, <2>3 DEF ConfirmNeed, Found, OriginationHold
    <3>3. CaseTyped' /\ Recasts(r, "confirm", "INTAKE_OFFICER", v, n)
      BY <3>1, Entered
    <3> QED
      BY <1>1, <1>2, <3>1, <3>2, <3>3 DEF Recasts, NumberFound
  <2>4. CASE NumberNeed(r)
    <3>1. req' = [req EXCEPT ![r].op = "insert_version", ![r].arg = n + 1]
      BY <1>2, <2>4 DEF NumberNeed
    <3>2. CaseTyped' /\ Recasts(r, "insert_version", req[r].who, req[r].ver, n + 1)
      BY <1>1, <3>1, WentOnWith
    <3>3. n + 1 \in 1..(n + 1) /\ n + 1 <= MaxNeeds
      BY <1>2, <2>4, OriginationAssumption DEF NumberNeed
    <3> QED
      BY <1>1, <1>2, <3>2, <3>3 DEF Recasts, NumberFound
  <2>5. CASE AppendSnapshot(r)
    <3>1. Enter(r, "append_snapshot", "INTAKE_OFFICER", 1, k + 1) /\ "INTAKE_OFFICER" \in People
      BY <1>2, <2>1, <2>5, BegunBy DEF AppendSnapshot
    <3>2. CaseTyped' /\ Recasts(r, "append_snapshot", "INTAKE_OFFICER", 1, k + 1)
      BY <2>1, <3>1, Entered
    <3>3. k + 1 \in 1..(k + 1) /\ k + 1 <= MaxSnapshots
      BY <1>2, <2>5, OriginationAssumption DEF AppendSnapshot
    <3> QED
      BY <1>1, <1>2, <3>2, <3>3 DEF Recasts, NumberFound
  <2> QED
    BY <2>2, <2>3, <2>4, <2>5
<1>4. ConfirmedHolds'
  BY <1>1 DEF OriginationHold, ConfirmedHolds
<1>5. /\ needs' \in Seq([n : Nat, ver : Versions]) /\ snapshots' \in Seq(Nat)
      /\ (\A i \in DOMAIN needs' : needs'[i].n = i)
      /\ (\A i \in DOMAIN snapshots' : snapshots'[i] = i)
      /\ Len(needs) <= Len(needs') /\ Len(snapshots) <= Len(snapshots')
      /\ Len(needs') <= MaxNeeds /\ Len(snapshots') <= MaxSnapshots /\ UNCHANGED contacts
  BY <1>1, <1>2 DEF OriginationHold
<1> QED
  BY <1>3, <1>4, <1>5, OriginationServed

LEMMA InsertNeedStep ==
  ASSUME CaseTyped, OriginationHold, NEW r \in Requests, InsertNeed(r)
  PROVE  CaseTyped' /\ OriginationHold'
<1>1a. PICK v \in Versions : v = req[r].ver
  BY DEF CaseTyped, RequestTyped
<1>1. PICK x : v = req[r].ver /\ x = req[r].arg
  BY <1>1a
<1>2. /\ UNCHANGED <<caseVersion, gate, snapshots, contacts, confirmed>>
      /\ req[r].op = "insert_version"
      /\ caseVersion' \in Versions /\ gate' \in [GateTypes -> [Versions -> People]]
  BY DEF InsertNeed, Doing, CaseTyped
<1>3. PICK n \in Nat, k \in Nat :
        /\ n = Len(needs) /\ NeedNumbers = 1..n /\ k = Len(snapshots)
        /\ x \in 1..(n + 1) /\ x <= MaxNeeds
  BY <1>1, <1>2, Numbered DEF OriginationHold, NumberFound
<1>4. \/ UNCHANGED needs /\ Done(r)
      \/ UNCHANGED needs /\ req' = [req EXCEPT ![r].op = "append_version", ![r].arg = Nobody]
      \/ x \notin NeedNumbers /\ needs' = Append(needs, [n |-> x, ver |-> v]) /\ Done(r)
  BY <1>1 DEF InsertNeed, Taken
<1>5. CaseTyped' /\ NumberFound(r)' /\ \A s \in Requests : s # r => req'[s] = req[s]
  <2>1. CASE Done(r)
    BY <1>2, <2>1, Answered DEF NumberFound
  <2>2. CASE req' = [req EXCEPT ![r].op = "append_version", ![r].arg = Nobody]
    <3>1. CaseTyped' /\ Recasts(r, "append_version", req[r].who, req[r].ver, Nobody)
      BY <1>2, <2>2, WentOnWith
    <3> QED
      BY <3>1 DEF NumberFound, Recasts
  <2> QED
    BY <1>4, <2>1, <2>2
<1>6. /\ needs' \in Seq([n : Nat, ver : Versions]) /\ n <= Len(needs')
      /\ Len(needs') <= MaxNeeds /\ \A i \in DOMAIN needs' : needs'[i].n = i
  <2>1. CASE UNCHANGED needs
    BY <1>3, <2>1 DEF OriginationHold
  <2>2. CASE x \notin NeedNumbers /\ needs' = Append(needs, [n |-> x, ver |-> v])
    <3>1. x = n + 1
      BY <1>3, <2>2
    <3>2. PICK T, e : T = [n : Nat, ver : Versions] /\ e = [n |-> x, ver |-> v]
      OBVIOUS
    <3>3. e \in T /\ e.n = n + 1
      BY <3>1, <3>2
    <3>s. needs \in Seq(T) /\ \A i \in DOMAIN needs : needs[i].n = i
      BY <3>2 DEF OriginationHold
    <3>4. needs \in Seq(T) /\ DOMAIN needs = 1..n /\ \A i \in 1..n : needs[i].n = i
      BY <1>3, <3>s
    <3>5. needs' = Append(needs, e)
      BY <2>2, <3>2
    <3>6. /\ needs' \in Seq(T) /\ Len(needs') = n + 1 /\ DOMAIN needs' = 1..(n + 1)
          /\ needs'[n + 1] = e /\ \A i \in 1..n : needs'[i] = needs[i]
      BY <1>3, <3>3, <3>4, <3>5, AppendProperties
    <3>7. \A i \in 1..(n + 1) : i \in 1..n \/ i = n + 1
      BY <1>3
    <3> QED
      BY <1>3, <3>1, <3>2, <3>3, <3>4, <3>6, <3>7, SMTT(60)
  <2> QED
    BY <1>4, <2>1, <2>2
<1>7. ConfirmedHolds'
  <2>1. PICK m \in Nat : m = Len(needs') /\ n <= m
    BY <1>6
  <2> QED
    BY <1>2, <1>3, <2>1 DEF OriginationHold, ConfirmedHolds
<1>8. /\ snapshots' \in Seq(Nat) /\ (\A i \in DOMAIN snapshots' : snapshots'[i] = i)
      /\ Len(needs) <= Len(needs') /\ Len(snapshots) <= Len(snapshots')
      /\ Len(snapshots') <= MaxSnapshots /\ UNCHANGED contacts
  BY <1>2, <1>3, <1>6, Numbered DEF OriginationHold
<1> QED
  BY <1>5, <1>6, <1>7, <1>8, OriginationServed

LEMMA SatisfyNeedStep ==
  ASSUME CaseTyped, OriginationHold, NEW r \in Requests, SatisfyNeed(r)
  PROVE  CaseTyped' /\ OriginationHold'
<1>1a. PICK v \in Versions : v = req[r].ver
  BY DEF CaseTyped, RequestTyped
<1>1. PICK x : v = req[r].ver /\ x = req[r].arg
  BY <1>1a
<1>2. PICK n \in Nat : n = Len(needs)
  BY Numbered
<1>3. /\ Satisfy(NeedGate, v, req[r].who) /\ Done(r)
      /\ confirmed' = [confirmed EXCEPT ![v] = IF confirmed[v] = 0 THEN x ELSE confirmed[v]]
      /\ UNCHANGED <<caseVersion, needs, snapshots, contacts>>
      /\ req[r].op = "confirm" /\ req[r].who # Nobody /\ x \in 1..n /\ NeedGate \in GateTypes
  BY <1>1, <1>2, GatesAssumption DEF SatisfyNeed, Doing, OriginationHold, NumberFound, NeedGate
<1>4. /\ gate' \in [GateTypes -> [Versions -> People]]
      /\ \A w \in Versions :
           /\ gate[NeedGate][w] # Nobody => gate'[NeedGate][w] = gate[NeedGate][w]
           /\ w # v => gate'[NeedGate][w] = gate[NeedGate][w]
      /\ gate[NeedGate][v] = Nobody => gate'[NeedGate][v] = req[r].who
  BY <1>1, <1>3, GateWritten
<1>5. CaseTyped' /\ NumberFound(r)' /\ \A s \in Requests : s # r => req'[s] = req[s]
  BY <1>3, <1>4, Answered DEF CaseTyped, NumberFound
<1>6. ConfirmedHolds'
  <2>1. confirmed \in [Versions -> Nat]
    BY DEF OriginationHold, ConfirmedHolds
  <2>2. /\ \A w \in Versions : w # v => confirmed'[w] = confirmed[w]
        /\ confirmed'[v] = IF confirmed[v] = 0 THEN x ELSE confirmed[v]
        /\ confirmed' \in [Versions -> Nat]
    BY <1>3, <2>1
  <2>3. \A w \in Versions :
          (gate[NeedGate][w] # Nobody <=> confirmed[w] # 0) /\ confirmed[w] <= n
    BY <1>2 DEF OriginationHold, ConfirmedHolds
  <2>4. \A w \in Versions :
          (gate'[NeedGate][w] # Nobody <=> confirmed'[w] # 0) /\ confirmed'[w] <= n
    <3>1. \A w \in Versions : w = v \/ w # v
      OBVIOUS
    <3>2. (gate'[NeedGate][v] # Nobody <=> confirmed'[v] # 0) /\ confirmed'[v] <= n
      BY <1>2, <1>3, <1>4, <2>2, <2>3
    <3> QED
      BY <1>4, <2>2, <2>3, <3>2
  <2> QED
    BY <1>2, <1>3, <2>2, <2>4 DEF ConfirmedHolds
<1>7. /\ needs' \in Seq([n : Nat, ver : Versions]) /\ snapshots' \in Seq(Nat)
      /\ (\A i \in DOMAIN needs' : needs'[i].n = i)
      /\ (\A i \in DOMAIN snapshots' : snapshots'[i] = i)
      /\ Len(needs) <= Len(needs') /\ Len(snapshots) <= Len(snapshots')
      /\ Len(needs') <= MaxNeeds /\ Len(snapshots') <= MaxSnapshots /\ UNCHANGED contacts
  BY <1>3, Numbered DEF OriginationHold
<1> QED
  BY <1>5, <1>6, <1>7, OriginationServed

LEMMA InsertSnapshotStep ==
  ASSUME CaseTyped, OriginationHold, NEW r \in Requests, InsertSnapshot(r)
  PROVE  CaseTyped' /\ OriginationHold'
<1>1. PICK x : x = req[r].arg
  OBVIOUS
<1>2. /\ UNCHANGED <<caseVersion, gate, needs, contacts, confirmed>> /\ Done(r)
      /\ req[r].op = "append_snapshot"
      /\ \/ snapshots' = snapshots
         \/ x \notin SnapshotNumbers /\ snapshots' = Append(snapshots, x)
  <2>1. snapshots' = IF x \in SnapshotNumbers THEN snapshots ELSE Append(snapshots, x)
    BY <1>1 DEF InsertSnapshot, Taken
  <2>2. /\ UNCHANGED <<caseVersion, gate, needs, contacts, confirmed>> /\ Done(r)
        /\ req[r].op = "append_snapshot"
    BY DEF InsertSnapshot, Doing
  <2>3. \/ snapshots' = snapshots
        \/ x \notin SnapshotNumbers /\ snapshots' = Append(snapshots, x)
    BY <2>1
  <2> QED
    BY <2>2, <2>3
<1>3. PICK n \in Nat, k \in Nat :
        /\ n = Len(needs) /\ k = Len(snapshots) /\ SnapshotNumbers = 1..k
        /\ x \in 1..(k + 1) /\ x <= MaxSnapshots
  BY <1>1, <1>2, Numbered DEF OriginationHold, NumberFound
<1>4. CaseTyped' /\ NumberFound(r)' /\ \A s \in Requests : s # r => req'[s] = req[s]
  BY <1>2, Answered DEF CaseTyped, NumberFound
<1>5. /\ snapshots' \in Seq(Nat) /\ k <= Len(snapshots') /\ Len(snapshots') <= MaxSnapshots
      /\ \A i \in DOMAIN snapshots' : snapshots'[i] = i
  <2>1. CASE snapshots' = snapshots
    BY <1>3, <2>1 DEF OriginationHold
  <2>2. CASE x \notin SnapshotNumbers /\ snapshots' = Append(snapshots, x)
    <3>1. x = k + 1
      BY <1>3, <2>2
    <3>2. snapshots \in Seq(Nat) /\ DOMAIN snapshots = 1..k /\ \A i \in 1..k : snapshots[i] = i
      BY <1>3 DEF OriginationHold
    <3>3. /\ snapshots' \in Seq(Nat) /\ Len(snapshots') = k + 1
          /\ DOMAIN snapshots' = 1..(k + 1)
          /\ snapshots'[k + 1] = k + 1 /\ \A i \in 1..k : snapshots'[i] = snapshots[i]
      BY <1>3, <2>2, <3>1, <3>2, AppendProperties
    <3>4. \A i \in 1..(k + 1) : i \in 1..k \/ i = k + 1
      BY <1>3
    <3> QED
      BY <1>3, <3>1, <3>2, <3>3, <3>4, SMTT(60)
  <2> QED
    BY <1>2, <2>1, <2>2
<1>6. ConfirmedHolds'
  BY <1>2 DEF OriginationHold, ConfirmedHolds
<1>7. /\ needs' \in Seq([n : Nat, ver : Versions]) /\ (\A i \in DOMAIN needs' : needs'[i].n = i)
      /\ Len(needs) <= Len(needs') /\ Len(snapshots) <= Len(snapshots')
      /\ Len(needs') <= MaxNeeds /\ UNCHANGED contacts
  BY <1>2, <1>3, <1>5, Numbered DEF OriginationHold
<1> QED
  BY <1>4, <1>5, <1>6, <1>7, OriginationServed

\* A version starts, a request is lost, or nothing happens.
LEMMA OriginationRest ==
  ASSUME OriginationHold, UNCHANGED <<gate, needs, snapshots, confirmed>>,
         contacts' \subseteq {"CONTACT", "DO_NOT_CONTACT", "DEFER"},
         \A r \in Requests : req'[r] = req[r] \/ req'[r].op = "idle"
  PROVE  OriginationHold'
<1>1. ConfirmedHolds' /\ \A r \in Requests : NumberFound(r)'
  BY DEF OriginationHold, ConfirmedHolds, NumberFound
<1> QED
  BY <1>1 DEF OriginationHold

LEMMA OriginationStep ==
  ASSUME CaseTyped, OriginationHold, OriginationNext
  PROVE  CaseTyped' /\ OriginationHold'
<1>1. \A v \in VersionRead : v \in Versions
  BY Constants DEF VersionRead, CaseTyped
<1>2. 1 \in Versions
  BY Constants
<1>3. ASSUME NEW d \in {"CONTACT", "DEFER"}, RecordContactDecision(d)
      PROVE  CaseTyped' /\ OriginationHold'
  <2>1. contacts' \subseteq {"CONTACT", "DO_NOT_CONTACT", "DEFER"}
    BY <1>3 DEF RecordContactDecision, OriginationHold
  <2> QED
    BY <1>3, <2>1, CaseKept, OriginationRest DEF RecordContactDecision, casework
<1> QED
  BY <1>1, <1>2, <1>3, NeedRequested, InsertNeedStep, SatisfyNeedStep, InsertSnapshotStep
     DEF OriginationNext

--------------------------------------------------------------------------------
(****************************************************************************)
(* Intake: a document that is ready for review keeps its candidates, and a  *)
(* candidate its confirmation, so what was frozen of them stays as it was.  *)
(****************************************************************************)
AtReview == {d \in Documents : document[d].stage = READY_FOR_OFFICER_REVIEW}
DerivedOf(S) == {c \in S : confirmation[c] \in DERIVES_CONFIRMED_FACT}
Froze(x) ==
  /\ x.ready \subseteq AtReview /\ CandidatesOf(x.ready) \subseteq x.candidates
  /\ x.candidates \subseteq Confirmed /\ x.facts = DerivedOf(x.candidates)
EvidenceFound(r) ==
  LET x == req[r].arg IN
  /\ req[r].op = "confirm" =>
       DOMAIN x.batch \subseteq Candidates /\ \A c \in DOMAIN x.batch : x.batch[c] \in Dispositions
  /\ req[r].op = "complete" =>
       /\ x.ready \subseteq AtReview /\ CandidatesOf(x.ready) \subseteq x.candidates
       /\ x.candidates \subseteq Candidates
  /\ req[r].op \in {"hand off", "insert"} => Froze(x)
IngestionHolds ==
  IngestionTypeOK /\ \A w \in Workers : job[w].saving => job[w].at # READY_FOR_OFFICER_REVIEW
Handoff ==
  [ver : Versions, candidates : SUBSET Candidates, facts : SUBSET Candidates,
   ready : SUBSET Documents]
IntakeHold ==
  /\ IngestionHolds /\ ReviewTypeOK
  /\ facts = DerivedOf(Candidates)
  /\ handoffs \subseteq Handoff
  /\ \A h \in handoffs : Froze(h)
  /\ \A r \in Requests : EvidenceFound(r)

MoreEvidence ==
  /\ \A d \in AtReview : d \in AtReview' /\ extracted'[d] = extracted[d]
  /\ \A c \in Confirmed : c \in Confirmed' /\ confirmation'[c] = confirmation[c]

LEMMA FrozenKept ==
  ASSUME MoreEvidence, NEW x
  PROVE  /\ x.ready \subseteq AtReview =>
              x.ready \subseteq AtReview' /\ CandidatesOf(x.ready)' = CandidatesOf(x.ready)
         /\ Froze(x) => Froze(x)'
<1>1. ASSUME x.ready \subseteq AtReview
      PROVE  x.ready \subseteq AtReview' /\ CandidatesOf(x.ready)' = CandidatesOf(x.ready)
  BY <1>1 DEF MoreEvidence, CandidatesOf
<1>2. ASSUME Froze(x)
      PROVE  Froze(x)'
  <2>1. x.candidates \subseteq Confirmed' /\ DerivedOf(x.candidates)' = DerivedOf(x.candidates)
    BY <1>2 DEF Froze, MoreEvidence, DerivedOf
  <2> QED
    BY <1>1, <1>2, <2>1 DEF Froze
<1> QED
  BY <1>1, <1>2

LEMMA EvidenceKept ==
  ASSUME MoreEvidence, NEW r, EvidenceFound(r), req'[r] = req[r]
  PROVE  EvidenceFound(r)'
<1>1. PICK x : x = req[r].arg
  OBVIOUS
<1>2. /\ x.ready \subseteq AtReview =>
           x.ready \subseteq AtReview' /\ CandidatesOf(x.ready)' = CandidatesOf(x.ready)
      /\ Froze(x) => Froze(x)'
  BY FrozenKept
<1>3. /\ req'[r].op = "confirm" =>
           DOMAIN x.batch \subseteq Candidates /\ \A c \in DOMAIN x.batch : x.batch[c] \in Dispositions
      /\ req'[r].op = "complete" =>
           /\ x.ready \subseteq AtReview' /\ CandidatesOf(x.ready)' \subseteq x.candidates
           /\ x.candidates \subseteq Candidates
      /\ req'[r].op \in {"hand off", "insert"} => Froze(x)'
  BY <1>1, <1>2 DEF EvidenceFound
<1>4. req'[r].arg = x
  BY <1>1
<1> QED
  BY <1>3, <1>4 DEF EvidenceFound, Froze, Candidates

\* Only request r is served, and the evidence only grows.
LEMMA IntakeServed ==
  ASSUME IntakeHold, MoreEvidence, IngestionHolds', ReviewTypeOK',
         facts' = DerivedOf(Candidates)', NEW r,
         \A s \in Requests : s # r => req'[s] = req[s], r \in Requests => EvidenceFound(r)',
         handoffs' \subseteq Handoff, \A h \in handoffs' : h \in handoffs \/ Froze(h)'
  PROVE  IntakeHold'
<1>1. \A s \in Requests : EvidenceFound(s)'
  BY EvidenceKept DEF IntakeHold
<1>2. \A h \in handoffs' : Froze(h)'
  BY FrozenKept DEF IntakeHold
<1> QED
  BY <1>1, <1>2 DEF IntakeHold, Handoff, Candidates

LEMMA MoveStep ==
  ASSUME IngestionHolds, NEW w \in Workers, NEW fields \in SUBSET Fields, Move(w, fields),
         job[w].doc # Nobody, ~job[w].saving, job[w].at # READY_FOR_OFFICER_REVIEW,
         fields = {} \/ job[w].at = CLASSIFIED
  PROVE  /\ IngestionHolds'
         /\ \A d \in AtReview : d \in AtReview' /\ extracted'[d] = extracted[d]
<1>1. PICK d \in Documents, s \in Stages : d = job[w].doc /\ s = job[w].at
  BY DEF IngestionHolds, IngestionTypeOK
<1>2. /\ document \in [Documents -> [ver : 0..MaxVersion, stage : Stages]]
      /\ extracted \in [Documents -> SUBSET Fields]
      /\ job \in [Workers -> [doc : Documents \cup {Nobody}, at : Stages, saving : BOOLEAN]]
      /\ \A k \in Workers : job[k].saving => job[k].at # READY_FOR_OFFICER_REVIEW
      /\ UNCHANGED <<holder, ingestion>> /\ IngestionTypeOK
  BY DEF IngestionHolds, IngestionTypeOK, Move
<1>3. CASE CanAdvance(d, s)
  <2>1. /\ document' = [document EXCEPT ![d].stage = s + 1]
        /\ extracted' = [extracted EXCEPT ![d] = extracted[d] \cup fields]
        /\ job' = [job EXCEPT ![w].saving = TRUE]
    BY <1>1, <1>3 DEF Move
  <2>2. s + 1 \in Stages
    BY <1>1 DEF Stages, READY_FOR_OFFICER_REVIEW
  <2>3. /\ document' \in [Documents -> [ver : 0..MaxVersion, stage : Stages]]
        /\ \A e \in Documents : e # d => document'[e] = document[e]
        /\ document'[d].stage = s + 1
    BY <1>2, <2>1, <2>2
  <2>4. /\ extracted' \in [Documents -> SUBSET Fields]
        /\ \A e \in Documents : e # d => extracted'[e] = extracted[e]
        /\ fields = {} => extracted'[d] = extracted[d]
    BY <1>2, <2>1
  <2>5. /\ job' \in [Workers -> [doc : Documents \cup {Nobody}, at : Stages, saving : BOOLEAN]]
        /\ \A k \in Workers : job'[k].at = job[k].at
        /\ \A k \in Workers : k # w => job'[k] = job[k]
    BY <1>2, <2>1
  <2>6. IngestionHolds'
    BY <1>1, <1>2, <2>3, <2>4, <2>5, SMTT(60) DEF IngestionHolds, IngestionTypeOK
  <2>7. d \in AtReview => s + 1 = READY_FOR_OFFICER_REVIEW /\ fields = {}
    BY <1>1, <1>3 DEF AtReview, CanAdvance, READY_FOR_OFFICER_REVIEW, CLASSIFIED, Stages
  <2> QED
    BY <2>3, <2>4, <2>6, <2>7 DEF AtReview
<1>4. CASE ~CanAdvance(d, s)
  <2>1. job' = [job EXCEPT ![w] = NoJob] /\ UNCHANGED <<document, extracted>>
    BY <1>1, <1>4 DEF Move
  <2>2. /\ job' \in [Workers -> [doc : Documents \cup {Nobody}, at : Stages, saving : BOOLEAN]]
        /\ ~job'[w].saving /\ \A k \in Workers : k # w => job'[k] = job[k]
    BY <1>2, <2>1 DEF NoJob, Stages, READY_FOR_OFFICER_REVIEW
  <2>3. IngestionHolds'
    BY <1>2, <2>1, <2>2 DEF IngestionHolds, IngestionTypeOK
  <2> QED
    BY <2>1, <2>3 DEF AtReview
<1> QED
  BY <1>3, <1>4

LEMMA IngestionStep ==
  ASSUME IngestionHolds, IngestionNext
  PROVE  /\ IngestionHolds'
         /\ \A d \in AtReview : d \in AtReview' /\ extracted'[d] = extracted[d]
<1>1. /\ document \in [Documents -> [ver : 0..MaxVersion, stage : Stages]]
      /\ extracted \in [Documents -> SUBSET Fields]
      /\ job \in [Workers -> [doc : Documents \cup {Nobody}, at : Stages, saving : BOOLEAN]]
      /\ holder \in [Documents -> Workers \cup {Nobody}]
      /\ ingestion \in [Documents -> {"open", "done", "review"}]
      /\ \A k \in Workers : job[k].saving => job[k].at # READY_FOR_OFFICER_REVIEW
  BY DEF IngestionHolds, IngestionTypeOK
<1>n. NoJob \in [doc : Documents \cup {Nobody}, at : Stages, saving : BOOLEAN] /\ ~NoJob.saving
  BY DEF NoJob, Stages, READY_FOR_OFFICER_REVIEW
<1>2. ASSUME NEW d \in Documents, NEW v \in Versions, Register(d, v)
      PROVE  /\ IngestionHolds'
             /\ \A e \in AtReview : e \in AtReview' /\ extracted'[e] = extracted[e]
  <2>1. document' = [document EXCEPT ![d].ver = v] /\ v \in 0..MaxVersion
        /\ UNCHANGED <<extracted, job, holder, ingestion>>
    BY <1>2, Constants DEF Register, Versions
  <2>2. /\ document' \in [Documents -> [ver : 0..MaxVersion, stage : Stages]]
        /\ \A e \in Documents : document'[e].stage = document[e].stage
    BY <1>1, <2>1
  <2> QED
    BY <1>1, <2>1, <2>2 DEF IngestionHolds, IngestionTypeOK, AtReview
\* What a worker does besides moving a row leaves the documents alone.
<1>3. ASSUME NEW w \in Workers, NEW j, UNCHANGED <<document, extracted>>,
             job' = [job EXCEPT ![w] = j],
             j \in [doc : Documents \cup {Nobody}, at : Stages, saving : BOOLEAN], ~j.saving,
             holder' \in [Documents -> Workers \cup {Nobody}],
             ingestion' \in [Documents -> {"open", "done", "review"}]
      PROVE  /\ IngestionHolds'
             /\ \A e \in AtReview : e \in AtReview' /\ extracted'[e] = extracted[e]
  <2>1. /\ job' \in [Workers -> [doc : Documents \cup {Nobody}, at : Stages, saving : BOOLEAN]]
        /\ job'[w] = j /\ \A k \in Workers : k # w => job'[k] = job[k]
    BY <1>1, <1>3
  <2> QED
    BY <1>1, <1>3, <2>1 DEF IngestionHolds, IngestionTypeOK, AtReview
<1>4. ASSUME NEW w \in Workers, NEW d \in Documents, Deliver(w, d)
      PROVE  /\ IngestionHolds'
             /\ \A e \in AtReview : e \in AtReview' /\ extracted'[e] = extracted[e]
  <2>1. PICK j : j = [doc |-> d, at |-> document[d].stage, saving |-> FALSE]
    OBVIOUS
  <2>2. /\ j \in [doc : Documents \cup {Nobody}, at : Stages, saving : BOOLEAN]
        /\ ~j.saving
    BY <1>1, <2>1
  <2>3. /\ job' = [job EXCEPT ![w] = j] /\ UNCHANGED <<document, extracted>>
        /\ holder' \in [Documents -> Workers \cup {Nobody}]
        /\ ingestion' \in [Documents -> {"open", "done", "review"}]
    BY <1>1, <1>4, <2>1 DEF Deliver
  <2> QED
    BY <1>3, <2>2, <2>3
<1>5. ASSUME NEW w \in Workers, Advance(w) \/ \E fields \in SUBSET Fields : Extract(w, fields)
      PROVE  /\ IngestionHolds'
             /\ \A e \in AtReview : e \in AtReview' /\ extracted'[e] = extracted[e]
  BY <1>5, MoveStep DEF Advance, Extract, At, CLASSIFIED, READY_FOR_OFFICER_REVIEW
<1>6. ASSUME NEW w \in Workers, SaveCheckpoint(w)
      PROVE  /\ IngestionHolds'
             /\ \A e \in AtReview : e \in AtReview' /\ extracted'[e] = extracted[e]
  <2>1. PICK d \in Documents \cup {Nobody}, s \in Stages : d = job[w].doc /\ s = job[w].at
    BY <1>1
  <2>2. PICK j : j = [doc |-> d, at |-> s + 1, saving |-> FALSE]
    OBVIOUS
  <2>3. s + 1 \in Stages
    BY <1>1, <1>6, <2>1 DEF SaveCheckpoint, Stages, READY_FOR_OFFICER_REVIEW
  <2>4. /\ j \in [doc : Documents \cup {Nobody}, at : Stages, saving : BOOLEAN]
        /\ ~j.saving
    BY <2>2, <2>3
  <2>5. /\ UNCHANGED <<document, extracted, holder, ingestion>>
        /\ job' = [job EXCEPT ![w] = j] \/ job' = [job EXCEPT ![w] = NoJob]
    BY <1>6, <2>1, <2>2 DEF SaveCheckpoint
  <2> QED
    BY <1>1, <1>3, <1>n, <2>4, <2>5
<1>7. ASSUME NEW w \in Workers, Complete(w) \/ ManualReview(w)
      PROVE  /\ IngestionHolds'
             /\ \A e \in AtReview : e \in AtReview' /\ extracted'[e] = extracted[e]
  <2>1. PICK d \in Documents \cup {Nobody}, o \in {"done", "review"} :
          /\ d = job[w].doc /\ job' = [job EXCEPT ![w] = NoJob]
          /\ ingestion' = [ingestion EXCEPT ![d] = IF holder[d] = w THEN o ELSE @]
          /\ UNCHANGED <<document, extracted, holder>>
    BY <1>1, <1>7 DEF Complete, ManualReview, Finish
  <2>2. ingestion' \in [Documents -> {"open", "done", "review"}]
    BY <1>1, <2>1
  <2> QED
    BY <1>1, <1>3, <1>n, <2>1, <2>2
<1>8. ASSUME NEW w \in Workers, GiveUp(w)
      PROVE  /\ IngestionHolds'
             /\ \A e \in AtReview : e \in AtReview' /\ extracted'[e] = extracted[e]
  <2>1. job' = [job EXCEPT ![w] = NoJob] /\ UNCHANGED <<document, extracted, holder, ingestion>>
    BY <1>8 DEF GiveUp
  <2> QED
    BY <1>1, <1>3, <1>n, <2>1
<1> QED
  BY <1>2, <1>4, <1>5, <1>6, <1>7, <1>8 DEF IngestionNext

LEMMA WorkerStep ==
  ASSUME CaseTyped, IntakeHold, IngestionNext, UNCHANGED <<casework, confirmations, handoffs>>
  PROVE  CaseTyped' /\ IntakeHold'
<1>1. UNCHANGED <<caseVersion, gate, req, confirmation, facts, handoffs>> /\ IngestionHolds
  BY DEF casework, confirmations, IntakeHold
<1>2. IngestionHolds' /\ MoreEvidence
  BY <1>1, IngestionStep DEF MoreEvidence, Confirmed
<1>3. facts' = DerivedOf(Candidates)' /\ ReviewTypeOK'
  BY <1>1 DEF IntakeHold, DerivedOf, Candidates, ReviewTypeOK
<1>4. handoffs' \subseteq Handoff /\ \A h \in handoffs' : h \in handoffs
  BY <1>1 DEF IntakeHold
<1>5. PICK r : r \notin Requests
  BY NoSetContainsEverything
<1>6. IntakeHold'
  BY <1>4, <1>5, <1>1, <1>2, <1>3, IntakeServed
<1> QED
  BY <1>6, CaseKept

LEMMA CandidatesAre ==
  /\ \A D \in SUBSET Documents : CandidatesOf(D) \subseteq Candidates
  /\ \A D, E : D \subseteq E => CandidatesOf(D) \subseteq CandidatesOf(E)
  /\ \A v : Ready(v) \subseteq AtReview /\ Ready(v) \subseteq Registered(v)
  /\ \A v : Registered(v) \subseteq Documents
  /\ Confirmed \subseteq Candidates
  BY DEF CandidatesOf, Candidates, Ready, Registered, AtReview, Confirmed

\* The evidence is left alone; a request goes on, and a handoff may be added.
LEMMA EvidenceUntouched ==
  ASSUME IntakeHold, UNCHANGED <<files, confirmations>>
  PROVE  MoreEvidence /\ IngestionHolds' /\ ReviewTypeOK' /\ facts' = DerivedOf(Candidates)'
<1>1. UNCHANGED <<document, extracted, job, holder, ingestion, confirmation, facts>>
  BY DEF files, confirmations
<1>2. MoreEvidence
  BY <1>1 DEF MoreEvidence, AtReview, Confirmed
<1>3. IngestionHolds'
  BY <1>1 DEF IntakeHold, IngestionHolds, IngestionTypeOK
<1>4. facts' = DerivedOf(Candidates)' /\ ReviewTypeOK'
  BY <1>1 DEF IntakeHold, DerivedOf, Candidates, ReviewTypeOK
<1> QED
  BY <1>2, <1>3, <1>4

LEMMA CheckConfirmationsStep ==
  ASSUME CaseTyped, IntakeHold, NEW r \in Requests, NEW d \in Documents,
         NEW batch \in [CandidatesOf({d}) -> Dispositions], CheckConfirmations(r, d, batch),
         UNCHANGED handoffs
  PROVE  CaseTyped' /\ IntakeHold'
<1>1. PICK x, v : x = [doc |-> d, batch |-> batch] /\ v = document[d].ver
  OBVIOUS
<1>2. v \in Versions
  <2>1. v \in 0..MaxVersion /\ v # 0
    BY <1>1 DEF CheckConfirmations, IntakeHold, IngestionHolds, IngestionTypeOK
  <2> QED
    BY <2>1, Constants DEF Versions
<1>3. Enter(r, "confirm", "INTAKE_OFFICER", v, x) /\ UNCHANGED <<files, confirmations>>
      /\ "INTAKE_OFFICER" \in People
  BY <1>1, BegunBy, Constants DEF CheckConfirmations
<1>4. CaseTyped' /\ Recasts(r, "confirm", "INTAKE_OFFICER", v, x)
  BY <1>2, <1>3, Entered
<1>5. DOMAIN x.batch \subseteq Candidates /\ \A c \in DOMAIN x.batch : x.batch[c] \in Dispositions
  BY <1>1, CandidatesAre
<1>6. EvidenceFound(r)'
  BY <1>4, <1>5 DEF Recasts, EvidenceFound, Candidates
<1>7. IntakeHold'
  BY <1>3, <1>4, <1>6, EvidenceUntouched, IntakeServed DEF Recasts, IntakeHold
<1> QED
  BY <1>4, <1>7

LEMMA RecordConfirmationsStep ==
  ASSUME CaseTyped, IntakeHold, NEW r \in Requests, RecordConfirmations(r), UNCHANGED handoffs
  PROVE  CaseTyped' /\ IntakeHold'
<1>1. PICK x, b : x = req[r].arg /\ b = x.batch
  OBVIOUS
<1>2. /\ req[r].op = "confirm" /\ Done(r) /\ UNCHANGED <<caseVersion, gate, files>>
      /\ DOMAIN b \subseteq Candidates /\ \A c \in DOMAIN b : b[c] \in Dispositions
  BY <1>1 DEF RecordConfirmations, Doing, IntakeHold, EvidenceFound
<1>3. CaseTyped' /\ req'[r].op = "idle" /\ \A s \in Requests : s # r => req'[s] = req[s]
  BY <1>2, Answered DEF CaseTyped
<1>4. EvidenceFound(r)'
  BY <1>3 DEF EvidenceFound
<1>5. CASE UNCHANGED confirmations
  <2>1. IntakeHold'
    BY <1>2, <1>3, <1>4, <1>5, EvidenceUntouched, IntakeServed DEF IntakeHold
  <2> QED
    BY <1>3, <2>1
<1>6. CASE ~UNCHANGED confirmations
  <2>1. /\ confirmation' = [c \in Candidates |-> IF c \in New(b) THEN b[c] ELSE confirmation[c]]
        /\ facts' = facts \cup {c \in New(b) : b[c] \in DERIVES_CONFIRMED_FACT}
    BY <1>1, <1>6 DEF RecordConfirmations
  <2>2. /\ New(b) \subseteq Candidates /\ \A c \in New(b) : confirmation[c] = "none"
        /\ "none" \notin DERIVES_CONFIRMED_FACT
    BY <1>2 DEF New, DERIVES_CONFIRMED_FACT
  <2>3. UNCHANGED <<document, extracted, job, holder, ingestion>>
    BY <1>2 DEF files
  <2>4. \A c \in Confirmed : c \in Confirmed' /\ confirmation'[c] = confirmation[c]
    BY <2>1, <2>2 DEF Confirmed, Candidates
  <2>5. MoreEvidence
    BY <2>3, <2>4 DEF MoreEvidence, AtReview
  <2>6. facts' = DerivedOf(Candidates)'
    BY <2>1, <2>2 DEF IntakeHold, DerivedOf, Candidates
  <2>7. IngestionHolds'
    BY <2>3 DEF IntakeHold, IngestionHolds, IngestionTypeOK
  <2>8. ReviewTypeOK'
    <3>1. confirmation \in [Candidates -> Dispositions \cup {"none"}]
      BY DEF IntakeHold, ReviewTypeOK
    <3>2. \A c \in New(b) : b[c] \in Dispositions
      BY <1>2 DEF New
    <3>3. confirmation' \in [Candidates -> Dispositions \cup {"none"}]
      BY <2>1, <3>1, <3>2
    <3>4. facts' \subseteq Candidates'
      BY <2>6 DEF DerivedOf, Candidates
    <3> QED
      BY <3>3, <3>4 DEF ReviewTypeOK, Candidates
  <2>9. IntakeHold'
    BY <1>3, <1>4, <2>5, <2>6, <2>7, <2>8, IntakeServed DEF IntakeHold
  <2> QED
    BY <1>3, <2>9
<1> QED
  BY <1>5, <1>6

LEMMA CheckCompletionStep ==
  ASSUME CaseTyped, IntakeHold, NEW r \in Requests, CheckCompletion(r)
  PROVE  CaseTyped' /\ IntakeHold'
<1>1a. PICK v \in Versions : v = caseVersion
  BY DEF CaseTyped
<1>1. PICK x : x = [candidates |-> CandidatesOf(Registered(v)), ready |-> Ready(v)]
  OBVIOUS
<1>2. Enter(r, "complete", "INTAKE_OFFICER", v, x) /\ UNCHANGED <<files, confirmations, handoffs>>
      /\ "INTAKE_OFFICER" \in People
  BY <1>1a, <1>1, BegunBy, Constants DEF CheckCompletion
<1>3. CaseTyped' /\ Recasts(r, "complete", "INTAKE_OFFICER", v, x)
  BY <1>2, Entered
<1>4. /\ x.ready = Ready(v) /\ x.candidates = CandidatesOf(Registered(v))
      /\ UNCHANGED <<document, extracted>>
  BY <1>1, <1>2 DEF files
<1>5. /\ x.ready \subseteq AtReview /\ CandidatesOf(x.ready) \subseteq x.candidates
      /\ x.candidates \subseteq Candidates
  BY <1>4, CandidatesAre
<1>6. EvidenceFound(r)'
  BY <1>3, <1>4, <1>5 DEF Recasts, EvidenceFound, AtReview, CandidatesOf, Candidates
<1>7. IntakeHold'
  BY <1>2, <1>3, <1>6, EvidenceUntouched, IntakeServed DEF Recasts, IntakeHold
<1> QED
  BY <1>3, <1>7

LEMMA ReadConfirmationsStep ==
  ASSUME CaseTyped, IntakeHold, NEW r \in Requests, ReadConfirmations(r)
  PROVE  CaseTyped' /\ IntakeHold'
<1>1. PICK x, v : x = req[r].arg /\ v = req[r].ver
  OBVIOUS
<1>2. PICK y : y = [candidates |-> x.candidates, facts |-> facts \cap x.candidates,
                    ready |-> x.ready]
  OBVIOUS
<1>3. PICK P \in BOOLEAN : P = Supported(x.candidates, v)
  BY DEF Supported
<1>4. /\ req' = [req EXCEPT ![r] =
           IF P THEN [@ EXCEPT !.op = "hand off", !.arg = y] ELSE Idle]
      /\ req[r].op = "complete"
      /\ UNCHANGED <<caseVersion, gate, files, confirmations, handoffs>>
  BY <1>1, <1>2, <1>3 DEF ReadConfirmations, Doing
<1>5. caseVersion' \in Versions /\ gate' \in [GateTypes -> [Versions -> People]]
  BY <1>4 DEF CaseTyped
<1>6. /\ x.ready \subseteq AtReview /\ CandidatesOf(x.ready) \subseteq x.candidates
      /\ x.candidates \subseteq Candidates
  BY <1>1, <1>4 DEF IntakeHold, EvidenceFound
<1>7. CaseTyped' /\ EvidenceFound(r)' /\ \A s \in Requests : s # r => req'[s] = req[s]
  <2>1. CASE P
    <3>1. req' = [req EXCEPT ![r] = [@ EXCEPT !.op = "hand off", !.arg = y]]
      BY <1>4, <2>1
    <3>2. CaseTyped' /\ Recasts(r, "hand off", req[r].who, req[r].ver, y)
      BY <1>5, <3>1, WentOnWith
    <3>3. y.candidates = x.candidates /\ y.ready = x.ready /\ y.facts = facts \cap x.candidates
      BY <1>2
    <3>4. x.candidates \subseteq Confirmed
      BY <1>3, <2>1 DEF Supported
    <3>5. y.facts = DerivedOf(x.candidates)
      BY <1>6, <3>3 DEF IntakeHold, DerivedOf
    <3>6. Froze(y)
      BY <1>6, <3>3, <3>4, <3>5 DEF Froze
    <3>7. UNCHANGED <<document, extracted, confirmation>>
      BY <1>4 DEF files, confirmations
    <3>8. Froze(y)'
      BY <3>6, <3>7 DEF Froze, AtReview, CandidatesOf, Confirmed, DerivedOf
    <3> QED
      BY <3>2, <3>8 DEF Recasts, EvidenceFound, Froze
  <2>2. CASE ~P
    <3>1. Done(r)
      BY <1>4, <2>2 DEF Done
    <3> QED
      BY <1>5, <3>1, Answered DEF EvidenceFound
  <2> QED
    BY <2>1, <2>2
<1>8. IntakeHold'
  BY <1>4, <1>7, EvidenceUntouched, IntakeServed DEF IntakeHold
<1> QED
  BY <1>7, <1>8

LEMMA RecheckHandoffStep ==
  ASSUME CaseTyped, IntakeHold, NEW r \in Requests, RecheckHandoff(r)
  PROVE  CaseTyped' /\ IntakeHold'
<1>1. PICK P \in BOOLEAN : P = (Handoffs(req[r].ver) = {} /\ Registered(req[r].ver) # {})
  OBVIOUS
<1>2. /\ req' = [req EXCEPT ![r] = IF P THEN [@ EXCEPT !.op = "insert"] ELSE Idle]
      /\ req[r].op = "hand off"
      /\ UNCHANGED <<caseVersion, gate, files, confirmations, handoffs>>
  BY <1>1 DEF RecheckHandoff, Doing
<1>3. caseVersion' \in Versions /\ gate' \in [GateTypes -> [Versions -> People]]
  BY <1>2 DEF CaseTyped
<1>4. /\ CaseTyped'
      /\ P => Recasts(r, "insert", req[r].who, req[r].ver, req[r].arg)
      /\ ~P => req'[r].op = "idle"
      /\ \A s \in Requests : s # r => req'[s] = req[s]
  BY <1>2, <1>3, WentOnIf
<1>5. EvidenceFound(r)'
  <2>1. PICK x : x = req[r].arg
    OBVIOUS
  <2>2. Froze(x) /\ UNCHANGED <<document, extracted, confirmation>>
    BY <1>2, <2>1 DEF IntakeHold, EvidenceFound, files, confirmations
  <2>3. Froze(x)'
    BY <2>2 DEF Froze, AtReview, CandidatesOf, Confirmed, DerivedOf
  <2>4. CASE P
    <3>1. req'[r].op = "insert" /\ req'[r].arg = x
      BY <1>4, <2>1, <2>4 DEF Recasts
    <3> QED
      BY <2>3, <3>1 DEF EvidenceFound, Froze
  <2>5. CASE ~P
    BY <1>4, <2>5 DEF EvidenceFound
  <2> QED
    BY <2>4, <2>5
<1>6. IntakeHold'
  BY <1>2, <1>4, <1>5, EvidenceUntouched, IntakeServed DEF IntakeHold
<1> QED
  BY <1>4, <1>6

\* A handoff of what a request, or an earlier handoff, froze.
LEMMA HandoffMade ==
  ASSUME NEW x, NEW v \in Versions, Froze(x)
  PROVE  LET h == [ver |-> v, candidates |-> x.candidates, facts |-> x.facts, ready |-> x.ready]
         IN  Froze(h) /\ h \in Handoff
<1>1. PICK h : h = [ver |-> v, candidates |-> x.candidates, facts |-> x.facts, ready |-> x.ready]
  OBVIOUS
<1>2. h.ver = v /\ h.candidates = x.candidates /\ h.facts = x.facts /\ h.ready = x.ready
  BY <1>1
<1>3. x.candidates \subseteq Candidates /\ x.facts \subseteq Candidates
      /\ x.ready \subseteq Documents
  BY DEF Froze, Confirmed, DerivedOf, AtReview
<1>4. Froze(h)
  BY <1>2 DEF Froze
<1>5. h \in Handoff
  BY <1>1, <1>3 DEF Handoff
<1> QED
  BY <1>1, <1>4, <1>5

LEMMA InsertHandoffStep ==
  ASSUME CaseTyped, IntakeHold, NEW r \in Requests, InsertHandoff(r)
  PROVE  CaseTyped' /\ IntakeHold'
<1>1a. PICK v \in Versions : v = req[r].ver
  BY DEF CaseTyped, RequestTyped
<1>1. PICK x : x = req[r].arg
  OBVIOUS
<1>2. PICK h :
        h = [ver |-> v, candidates |-> x.candidates, facts |-> x.facts, ready |-> x.ready]
  OBVIOUS
<1>3. /\ req[r].op = "insert" /\ handoffs' = handoffs \cup {h} /\ Done(r)
      /\ UNCHANGED <<caseVersion, gate, files, confirmations>>
  BY <1>1a, <1>1, <1>2 DEF InsertHandoff, Doing
<1>4. Froze(x)
  BY <1>1, <1>3 DEF IntakeHold, EvidenceFound
<1>5. Froze(h) /\ h \in Handoff
  BY <1>2, <1>4, HandoffMade
<1>6. CaseTyped' /\ req'[r].op = "idle" /\ \A s \in Requests : s # r => req'[s] = req[s]
  BY <1>3, Answered DEF CaseTyped
<1>7. EvidenceFound(r)'
  BY <1>6 DEF EvidenceFound
<1>8. MoreEvidence /\ IngestionHolds' /\ ReviewTypeOK' /\ facts' = DerivedOf(Candidates)'
  BY <1>3, EvidenceUntouched
<1>9. Froze(h)'
  BY <1>5, <1>8, FrozenKept
<1>10. handoffs' \subseteq Handoff /\ \A g \in handoffs' : g \in handoffs \/ Froze(g)'
  BY <1>3, <1>5, <1>9 DEF IntakeHold
<1>11. IntakeHold'
  BY <1>6, <1>7, <1>8, <1>10, IntakeServed
<1> QED
  BY <1>6, <1>11

LEMMA ReissueStep ==
  ASSUME CaseTyped, IntakeHold, NEW g \in handoffs, ReissueHandoff(g)
  PROVE  CaseTyped' /\ IntakeHold'
<1>1. /\ CaseTyped' /\ UNCHANGED <<gate, req>> /\ caseVersion' \in Versions
      /\ UNCHANGED <<files, confirmations>>
  BY VersionStarted DEF ReissueHandoff, CaseTyped
<1>2. PICK v \in Versions : v = caseVersion'
  BY <1>1
<1>3. PICK h :
        h = [ver |-> v, candidates |-> g.candidates, facts |-> g.facts, ready |-> g.ready]
  OBVIOUS
<1>4. g \in Handoff /\ Froze(g)
  BY DEF IntakeHold
<1>5. [g EXCEPT !.ver = v] = h
  BY <1>3, <1>4 DEF Handoff
<1>6. handoffs' = handoffs \cup {h}
  BY <1>2, <1>5 DEF ReissueHandoff
<1>7. Froze(h) /\ h \in Handoff
  BY <1>3, <1>4, HandoffMade
<1>8. MoreEvidence /\ IngestionHolds' /\ ReviewTypeOK' /\ facts' = DerivedOf(Candidates)'
  BY <1>1, EvidenceUntouched
<1>9. Froze(h)'
  BY <1>7, <1>8, FrozenKept
<1>10. handoffs' \subseteq Handoff /\ \A k \in handoffs' : k \in handoffs \/ Froze(k)'
  BY <1>6, <1>7, <1>9 DEF IntakeHold
<1>11. PICK r : r \notin Requests
  BY NoSetContainsEverything
<1>12. IntakeHold'
  BY <1>1, <1>8, <1>10, <1>11, IntakeServed
<1> QED
  BY <1>1, <1>12

\* A request is lost, or nothing happens.
LEMMA IntakeRest ==
  ASSUME IntakeHold, UNCHANGED <<files, confirmations, handoffs>>,
         \A r \in Requests : req'[r] = req[r] \/ req'[r].op = "idle"
  PROVE  IntakeHold'
<1>1. MoreEvidence /\ IngestionHolds' /\ ReviewTypeOK' /\ facts' = DerivedOf(Candidates)'
  BY EvidenceUntouched
<1>2. \A r \in Requests : EvidenceFound(r)'
  <2> SUFFICES ASSUME NEW r \in Requests
               PROVE  EvidenceFound(r)'
    OBVIOUS
  <2>1. CASE req'[r] = req[r]
    BY <1>1, <2>1, EvidenceKept DEF IntakeHold
  <2>2. CASE req'[r].op = "idle"
    BY <2>2 DEF EvidenceFound
  <2> QED
    BY <2>1, <2>2
<1>3. \A h \in handoffs' : Froze(h)'
  BY <1>1, FrozenKept DEF IntakeHold
<1> QED
  BY <1>1, <1>2, <1>3 DEF IntakeHold, Handoff, Candidates

LEMMA PrepareStep ==
  ASSUME CaseTyped, IntakeHold, Prepare
  PROVE  CaseTyped' /\ IntakeHold'
  BY WorkerStep, CheckConfirmationsStep, RecordConfirmationsStep, CheckCompletionStep,
     ReadConfirmationsStep, RecheckHandoffStep, InsertHandoffStep, ReissueStep
     DEF Prepare, ReviewNext, IntakeNext

LEMMA HandoffsFollow == IntakeHold => HandoffHolds
  BY DEF IntakeHold, HandoffHolds, Froze, DerivedOf

--------------------------------------------------------------------------------
(****************************************************************************)
(* All desks: at a desk that is not at work nothing has happened, and no    *)
(* gate is satisfied but those of the desk at work.                         *)
(****************************************************************************)
GatesOf(d) ==
  CASE d = "origination" -> {NeedGate}
    [] d = "gaps" -> {"G2_GAP_REQUEST_APPROVAL"}
    [] d = "reviews" -> {"HG_LEGAL_ASSESSMENT_REVIEWED", "HG_UNDERWRITING_ASSESSMENT_REVIEWED",
                         "HG_MAKER_SUBMISSION_CONFIRMED"}
    [] d = "risk" -> {"G3_RISK_DISPOSITION"}
    [] d = "operations" -> {"G4_OPS_AUTHORIZATION"}
    [] OTHER -> {}
OthersUntouched ==
  /\ \A g \in GateTypes, v \in Versions : gate[g][v] # Nobody => g \in GatesOf(desk)
  /\ desk # "origination" => OriginationInit
  /\ desk # "intake" => IngestionInit /\ ReviewInit /\ HandoffInit
  /\ desk # "gaps" => GapRequestsInit
  /\ desk # "reviews" => MakerReviewsInit
  /\ desk # "risk" => RiskDispositionsInit
  /\ desk # "operations" => OperationsInit
  /\ desk \in Desks

DeskHolds ==
  /\ desk = "origination" => OriginationHold
  /\ desk = "intake" => IntakeHold
  /\ desk = "gaps" => GapsHold
  /\ desk = "reviews" => ReviewsHold
  /\ desk = "risk" => RiskHold
  /\ desk = "operations" => OperationsHold

\* What is computed and what is written, which no desk but its own touches.
WorkHolds == SheetTypeOK /\ ChecklistHolds /\ RetrievalHolds /\ DraftingHolds

IInv == CaseTyped /\ OthersUntouched /\ DeskHolds /\ SpecialistsInv /\ WorkHolds

LEMMA GatesBegin ==
  ASSUME CaseworkInit
  PROVE  /\ CaseTyped /\ \A r \in Requests : req[r].op = "idle" /\ req[r] = Idle
         /\ \A g \in GateTypes, v \in Versions : gate[g][v] = Nobody
<1>1. RequestTyped(Idle) /\ Idle.op = "idle"
  BY Constants DEF RequestTyped, Idle
<1>2. DOMAIN req = Requests /\ \A r \in Requests : req[r] = Idle
  BY DEF CaseworkInit
<1>3. gate \in [GateTypes -> [Versions -> People]]
      /\ \A g \in GateTypes, v \in Versions : gate[g][v] = Nobody
  BY Constants DEF CaseworkInit
<1>4. caseVersion \in Versions
  BY Constants DEF CaseworkInit
<1> QED
  BY <1>4, <1>1, <1>2, <1>3 DEF CaseTyped

LEMMA NoneRecorded ==
  ASSUME RiskDispositionsInit
  PROVE  AllRecorded = 0
<1> DEFINE f == [v \in Versions |-> Len(recorded[v])]
           all == SumFunctionOnSet(f, Versions)
<1>1. \A v \in Versions : f[v] = 0 /\ f[v] \in Int
  BY DEF RiskDispositionsInit
<1>2. AllRecorded = all
  BY DEF AllRecorded
<1> HIDE DEF f
<1>3. [v \in Versions |-> f[v] + f[v]] = [v \in Versions |-> 0]
  BY <1>1
<1>4. SumFunctionOnSet([v \in Versions |-> f[v] + f[v]], Versions) = all + all
  BY <1>1, FiniteVersions, SumOfSums
<1>5. SumFunctionOnSet([v \in Versions |-> 0], Versions) = all
  BY <1>1, FiniteVersions, SumSame
<1>6. all \in Int
  BY <1>1, FiniteVersions, SumType
<1> HIDE DEF all
<1>7. all = all + all
  BY <1>3, <1>4, <1>5
<1> QED
  BY <1>2, <1>6, <1>7

LEMMA InitIInv == Init => IInv
<1> SUFFICES ASSUME Init
             PROVE  IInv
  OBVIOUS
<1>1. /\ CaseTyped /\ \A r \in Requests : req[r].op = "idle" /\ req[r] = Idle
      /\ \A g \in GateTypes, v \in Versions : gate[g][v] = Nobody
  BY GatesBegin DEF Init
<1>2. OthersUntouched
  BY <1>1 DEF Init, OthersUntouched
<1>3. SpecialistsInv
  BY InitHolds DEF Init
<1>4. OriginationHold
  <2>1. /\ needs = <<[n |-> 1, ver |-> 1]>> /\ snapshots = <<>>
        /\ confirmed = [v \in Versions |-> 0]
    BY DEF Init, OriginationInit
  <2>2. PICK T, e : T = [n : Nat, ver : Versions] /\ e = [n |-> 1, ver |-> 1]
    OBVIOUS
  <2>3. e \in T /\ e.n = 1
    BY <2>2, Constants
  <2>4. needs = <<e>> /\ needs \in Seq(T) /\ DOMAIN needs = 1..1 /\ needs[1] = e /\ Len(needs) = 1
    BY <2>1, <2>2, <2>3
  <2>5. snapshots \in Seq(Nat) /\ DOMAIN snapshots = {}
    BY <2>1
  <2>6. ConfirmedHolds
    BY <1>1, <2>1, <2>4, GatesAssumption DEF ConfirmedHolds, NeedGate
  <2>7. \A i \in DOMAIN needs : needs[i].n = i
    BY <2>3, <2>4
  <2>8. Len(needs) <= MaxNeeds /\ Len(snapshots) <= MaxSnapshots /\ contacts = {}
    BY <2>1, <2>4, OriginationAssumption DEF Init, OriginationInit
  <2> QED
    BY <1>1, <2>2, <2>4, <2>5, <2>6, <2>7, <2>8 DEF OriginationHold, NumberFound
<1>5. IntakeHold
  <2>1. IngestionHolds
    <3>1. [ver |-> 0, stage |-> 0] \in [ver : 0..MaxVersion, stage : Stages]
      BY Constants DEF Stages, READY_FOR_OFFICER_REVIEW
    <3>2. NoJob \in [doc : Documents \cup {Nobody}, at : Stages, saving : BOOLEAN]
          /\ ~NoJob.saving
      BY DEF NoJob, Stages, READY_FOR_OFFICER_REVIEW
    <3> QED
      BY <3>1, <3>2 DEF Init, IngestionInit, IngestionHolds, IngestionTypeOK
  <2>2. facts = DerivedOf(Candidates)
    BY DEF Init, ReviewInit, DerivedOf, DERIVES_CONFIRMED_FACT
  <2>3. ReviewTypeOK
    BY DEF Init, ReviewInit, ReviewTypeOK
  <2> QED
    BY <1>1, <2>1, <2>2, <2>3 DEF Init, HandoffInit, IntakeHold, EvidenceFound
<1>6. GapsHold
  <2>1. openGaps = [v \in Versions |-> {}] /\ batches = <<>> /\ dispositions = {}
    BY DEF Init, GapRequestsInit
  <2>2. PICK T : T = [ver : Versions, gaps : SUBSET Gaps]
    OBVIOUS
  <2>3. batches \in Seq(T) /\ DOMAIN batches = {}
    BY <2>1
  <2>4. BatchesHold
    BY <2>1, <2>2, <2>3 DEF BatchesHold
  <2>5. G2Knowing
    BY <1>1, GatesAssumption DEF G2Knowing
  <2> QED
    BY <1>1, <2>4, <2>5 DEF GapsHold, BatchFound
<1>7. ReviewsHold
  <2>1. assessed \in [Makers -> Seq(Versions)] /\ AssessedOnce
    BY DEF Init, MakerReviewsInit, AssessedOnce
  <2>2. ReviewsVouch
    BY <1>1, ReviewGates, GatesAssumption DEF ReviewsVouch
  <2> QED
    BY <1>1, <2>1, <2>2 DEF ReviewsHold, ReviewFound
<1>8. RiskHold
  <2>1. PICK T : T = DispositionRecord
    OBVIOUS
  <2>2. DOMAIN review = Versions /\ recorded \in [Versions -> Seq(T)]
    BY DEF Init, RiskDispositionsInit
  <2>3. \A v \in Versions : G3GateKnown(v)
    BY <1>1, GatesAssumption DEF G3GateKnown
  <2>4. caseVersion = 1
    BY DEF Init, CaseworkInit
  <2>5. RevisedOnDemand
    BY <2>4 DEF RevisedOnDemand
  <2>6. RiskCounted
    BY NoneRecorded, RiskAssumption DEF Init, RiskDispositionsInit, RiskCounted
  <2> QED
    BY <1>1, <2>1, <2>2, <2>3, <2>5, <2>6 DEF RiskHold, RiskFound
<1>9. OperationsHold
  <2>1. packages = <<>> /\ authorized = {} /\ approved = {} /\ interrupted = {}
    BY DEF Init, OperationsInit
  <2>2. PICK T : T = [ver : Versions, actions : SUBSET ProposedActions]
    OBVIOUS
  <2>3. packages \in Seq(T) /\ DOMAIN packages = {} /\ DOMAIN packages = 1..0
    BY <2>1
  <2>4. PackagesHold /\ GateHasPackage
    BY <1>1, <2>1, <2>3, GatesAssumption DEF PackagesHold, GateHasPackage
  <2> QED
    BY <1>1, <2>2, <2>3, <2>4 DEF OperationsHold, AuthorizationFound, AtG4
<1>10. WorkHolds
  BY SheetBegins, ChecklistBegins, RetrievalStarts, DraftingBegins DEF Init, WorkHolds
<1> QED
  BY <1>1, <1>2, <1>3, <1>4, <1>5, <1>6, <1>7, <1>8, <1>9, <1>10 DEF IInv, DeskHolds

LEMMA OnlySatisfied ==
  ASSUME CaseTyped, NEW g, NEW v, NEW a, Satisfy(g, v, a)
  PROVE  \A h \in GateTypes : h # g => gate'[h] = gate[h]
  BY DEF CaseTyped, Satisfy

\* A step of a desk touches the gates of that desk only.
LEMMA GatesTouched ==
  ASSUME CaseTyped, DeskHolds, Next
  PROVE  \A h \in GateTypes : h \notin GatesOf(desk) => gate'[h] = gate[h]
<1>1. CASE Originate
  <2>1. GatesOf(desk) = {NeedGate}
    BY <1>1 DEF Originate, GatesOf
  <2>2. UNCHANGED gate \/ \E r \in Requests : SatisfyNeed(r)
    BY <1>1 DEF Originate, OriginationNext, AppendNeed, ConfirmNeed, NumberNeed, InsertNeed,
       AppendSnapshot, InsertSnapshot, RecordContactDecision, BeginAny, Enter, casework
  <2> QED
    BY <2>1, <2>2, OnlySatisfied DEF SatisfyNeed, NeedGate
<1>2. CASE Prepare
  BY <1>2 DEF Prepare, ReviewNext, CheckConfirmations, RecordConfirmations, IntakeNext,
     CheckCompletion, ReadConfirmations, RecheckHandoff, InsertHandoff, ReissueHandoff,
     NewVersion, BeginAny, Enter, casework
<1>3. CASE Compute \/ RetrieveEvidence \/ DraftAssessments
  BY <1>3 DEF Compute, RetrieveEvidence, DraftAssessments, casework
<1>4. CASE Assess
  BY <1>4 DEF Assess, SpecialistsNext, casework
<1>5. CASE RequestEvidence
  <2>1. GatesOf(desk) = {"G2_GAP_REQUEST_APPROVAL"}
    BY <1>5 DEF RequestEvidence, GatesOf
  <2>2. UNCHANGED gate \/ \E r \in Requests : SatisfyG2(r)
    BY <1>5 DEF RequestEvidence, GapRequestsNext, RaiseGaps, ReadOpenGaps, PersistBatch,
       CheckBatchDisposition, RecordBatchDisposition, DeriveG2, Begin, BeginAny, Enter, casework
  <2> QED
    BY <2>1, <2>2, OnlySatisfied DEF SatisfyG2
<1>6. CASE ReviewAssessments
  <2>1. GatesOf(desk) = {"HG_LEGAL_ASSESSMENT_REVIEWED", "HG_UNDERWRITING_ASSESSMENT_REVIEWED",
                         "HG_MAKER_SUBMISSION_CONFIRMED"}
        /\ ReviewsHold
    BY <1>6 DEF ReviewAssessments, GatesOf, DeskHolds
  <2>2. UNCHANGED gate \/ \E r \in Requests : SatisfyReviewGate(r)
    BY <1>6 DEF ReviewAssessments, MakerReviewsNext, PersistAssessment, CheckReview,
       CheckSubmission, Begin, Enter, casework
  <2>3. ASSUME NEW r \in Requests, SatisfyReviewGate(r)
        PROVE  req[r].arg \in GatesOf(desk)
    <3>1. ReviewFound(r)
      BY <2>1 DEF ReviewsHold
    <3> QED
      BY <2>1, <2>3, <3>1 DEF SatisfyReviewGate, ReviewFound, Makers, ReviewGate
  <2> QED
    BY <2>2, <2>3, OnlySatisfied DEF SatisfyReviewGate
<1>7. CASE DisposeOfRisks
  <2>1. GatesOf(desk) = {"G3_RISK_DISPOSITION"}
    BY <1>7 DEF DisposeOfRisks, GatesOf
  <2>2. UNCHANGED gate \/ \E r \in Requests : SatisfyG3(r)
    BY <1>7 DEF DisposeOfRisks, RiskDispositionsNext, PersistReview, CheckDisposition,
       RecordDisposition, DeriveG3, Revise, Begin, Enter, casework
  <2> QED
    BY <2>1, <2>2, OnlySatisfied DEF SatisfyG3
<1>8. CASE Authorize
  <2>1. GatesOf(desk) = {"G4_OPS_AUTHORIZATION"}
    BY <1>8 DEF Authorize, GatesOf
  <2>2. UNCHANGED gate \/ \E r \in Requests : SatisfyG4(r)
    BY <1>8 DEF Authorize, OperationsNext, PersistPackage, ApproveDocumentRequest,
       CheckAuthorization, RecordAuthorization, DeriveG4, Interrupt, Lost, BeginAny, Enter,
       casework
  <2> QED
    BY <2>1, <2>2, OnlySatisfied DEF SatisfyG4
<1>9. CASE Around
  BY <1>9 DEF Around, NewVersion, Lost
<1> QED
  BY <1>1, <1>2, <1>3, <1>4, <1>5, <1>6, <1>7, <1>8, <1>9 DEF Next

LEMMA UntouchedKept ==
  /\ OriginationInit /\ UNCHANGED origination => OriginationInit'
  /\ IngestionInit /\ ReviewInit /\ HandoffInit /\ UNCHANGED intake =>
       IngestionInit' /\ ReviewInit' /\ HandoffInit'
  /\ GapRequestsInit /\ UNCHANGED gapRequests => GapRequestsInit'
  /\ MakerReviewsInit /\ UNCHANGED assessed => MakerReviewsInit'
  /\ RiskDispositionsInit /\ UNCHANGED riskDispositions => RiskDispositionsInit'
  /\ OperationsInit /\ UNCHANGED operations => OperationsInit'
<1>1. OriginationInit /\ UNCHANGED origination => OriginationInit'
  BY DEF OriginationInit, origination
<1>2. IngestionInit /\ ReviewInit /\ HandoffInit /\ UNCHANGED intake =>
        IngestionInit' /\ ReviewInit' /\ HandoffInit'
  BY DEF IngestionInit, ReviewInit, HandoffInit, intake, files, confirmations, Candidates
<1>3. GapRequestsInit /\ UNCHANGED gapRequests => GapRequestsInit'
  BY DEF GapRequestsInit, gapRequests
<1>4. MakerReviewsInit /\ UNCHANGED assessed => MakerReviewsInit'
  BY DEF MakerReviewsInit
<1>5. RiskDispositionsInit /\ UNCHANGED riskDispositions => RiskDispositionsInit'
  BY DEF RiskDispositionsInit, riskDispositions
<1>6. OperationsInit /\ UNCHANGED operations => OperationsInit'
  BY DEF OperationsInit, operations
<1> QED
  BY <1>1, <1>2, <1>3, <1>4, <1>5, <1>6

LEMMA NextIInv == IInv /\ [Next]_vars => IInv'
<1> SUFFICES ASSUME IInv, [Next]_vars
             PROVE  IInv'
  OBVIOUS
<1>1. CaseTyped /\ OthersUntouched /\ DeskHolds /\ SpecialistsInv /\ WorkHolds
  BY DEF IInv
<1>2. CASE Next
  <2>d. UNCHANGED desk
    BY <1>2 DEF Next, Originate, Prepare, Compute, Assess, RetrieveEvidence, DraftAssessments,
       RequestEvidence, ReviewAssessments, DisposeOfRisks, Authorize, Around
  <2>1. CaseTyped' /\ DeskHolds'
    <3>1. CASE Originate
      BY <1>1, <2>d, <3>1, OriginationStep DEF Originate, DeskHolds
    <3>2. CASE Prepare
      BY <1>1, <2>d, <3>2, PrepareStep DEF Prepare, DeskHolds
    <3>3. CASE Compute \/ RetrieveEvidence \/ DraftAssessments
      BY <1>1, <2>d, <3>3, CaseKept DEF Compute, RetrieveEvidence, DraftAssessments, DeskHolds
    <3>4. CASE Assess
      BY <1>1, <2>d, <3>4, CaseKept DEF Assess, SpecialistsNext, DeskHolds
    <3>5. CASE RequestEvidence
      BY <1>1, <2>d, <3>5, GapsStep DEF RequestEvidence, DeskHolds
    <3>6. CASE ReviewAssessments
      BY <1>1, <2>d, <3>6, ReviewsStep DEF ReviewAssessments, DeskHolds
    <3>7. CASE DisposeOfRisks
      BY <1>1, <2>d, <3>7, RiskStep DEF DisposeOfRisks, DeskHolds
    <3>8. CASE Authorize
      BY <1>1, <2>d, <3>8, OperationsStep DEF Authorize, DeskHolds
    <3>9. CASE Around
      <4>0. UNCHANGED <<needs, snapshots, contacts, confirmed, files, confirmations, handoffs,
                        gapRequests, assessed, review, latestReview, recorded, packages, authorized, approved,
                        interrupted>>
        BY <3>9 DEF Around, beginnings, origination, intake, gateWork, riskDispositions, operations
      <4>1. CASE desk \in {"origination", "assessment", "reviews", "operations"} /\ NewVersion
        <5>1. CaseTyped' /\ UNCHANGED <<gate, req>>
          BY <1>1, <4>1, VersionStarted
        <5>2. DeskHolds => /\ desk = "origination" => OriginationHold'
                           /\ desk = "operations" => OperationsHold'
          BY <4>0, <5>1, OriginationRest, OperationsRest
             DEF DeskHolds, OriginationHold, OperationsHold, PackagesHold
        <5> QED
          BY <1>1, <2>d, <4>0, <4>1, <5>1, <5>2, ReviewsRest DEF DeskHolds
      <4>2. CASE desk # "operations" /\ \E r \in Requests : Lost(r)
        <5>1. /\ CaseTyped' /\ UNCHANGED <<caseVersion, gate>>
              /\ \A r \in Requests : req'[r] = req[r] \/ req'[r].op = "idle"
          BY <1>1, <4>2, RequestLost
        <5>2. DeskHolds /\ desk = "origination" => OriginationHold'
          BY <4>0, <5>1, OriginationRest DEF DeskHolds, OriginationHold
        <5> QED
          BY <1>1, <2>d, <4>0, <4>2, <5>1, <5>2, ReviewsRest, IntakeRest, GapsRest, RiskRest
             DEF DeskHolds
      <4> QED
        BY <3>9, <4>1, <4>2 DEF Around
    <3> QED
      BY <1>2, <3>1, <3>2, <3>3, <3>4, <3>5, <3>6, <3>7, <3>8, <3>9 DEF Next
  <2>2. OthersUntouched'
    <3>1. \A h \in GateTypes : h \notin GatesOf(desk) => gate'[h] = gate[h]
      BY <1>1, <1>2, GatesTouched
    <3>2. GatesOf(desk') = GatesOf(desk)
      BY <2>d
    <3>3. \A g \in GateTypes, v \in Versions : gate'[g][v] # Nobody => g \in GatesOf(desk)
      BY <1>1, <3>1 DEF OthersUntouched
    <3>4. /\ desk # "origination" => UNCHANGED origination
          /\ desk # "intake" => UNCHANGED intake
      BY <1>2 DEF Next, Originate, Prepare, Compute, Assess, RetrieveEvidence, DraftAssessments,
         RequestEvidence, ReviewAssessments, DisposeOfRisks, Authorize, Around, beginnings
    <3>5. /\ desk # "gaps" => UNCHANGED gapRequests
          /\ desk # "reviews" => UNCHANGED assessed
          /\ desk # "risk" => UNCHANGED riskDispositions
          /\ desk # "operations" => UNCHANGED operations
      BY <1>2 DEF Next, Originate, Prepare, Compute, Assess, RetrieveEvidence, DraftAssessments,
         RequestEvidence, ReviewAssessments, DisposeOfRisks, Authorize, Around, gateWork
    <3> QED
      BY <1>1, <2>d, <3>2, <3>3, <3>4, <3>5, UntouchedKept DEF OthersUntouched
  <2>3. SpecialistsInv'
    <3>1. CASE desk = "assessment" /\ SpecialistsNext
      BY <1>1, <3>1, SpecialistsStep
    <3>2. UNCHANGED specialists \/ SpecialistsNext
      BY <1>2 DEF Next, Originate, Prepare, Compute, Assess, RetrieveEvidence, DraftAssessments,
         RequestEvidence, ReviewAssessments, DisposeOfRisks, Authorize, Around, agents
    <3> QED
      BY <1>1, <3>2, SpecialistsStep, SpecialistsRest
  <2>4. WorkHolds'
    <3>1. /\ CalculatorsNext \/ UNCHANGED sheet
          /\ ChecklistNext \/ UNCHANGED collateral
          /\ RetrievalNext \/ UNCHANGED retrieval
          /\ DraftingNext \/ UNCHANGED drafting
      BY <1>2 DEF Next, Originate, Prepare, Compute, Assess, RetrieveEvidence, DraftAssessments,
         RequestEvidence, ReviewAssessments, DisposeOfRisks, Authorize, Around, computed, agents
    <3> QED
      BY <1>1, <3>1, SheetStep, ChecklistStep, RetrievalStep, DraftingStep DEF WorkHolds
  <2> QED
    BY <2>4, <2>1, <2>2, <2>3 DEF IInv
<1>3. CASE UNCHANGED vars
  <2>1. UNCHANGED <<casework, needs, snapshots, contacts, confirmed, files, confirmations,
                    handoffs, gapRequests, assessed, review, latestReview, recorded, packages, authorized,
                    approved, interrupted, specialists, sheet, collateral, retrieval, drafting,
                    desk>>
    BY <1>3 DEF vars, beginnings, origination, intake, gateWork, riskDispositions, operations,
       computed, agents
  <2>2. UNCHANGED <<caseVersion, gate, req>>
    BY <2>1 DEF casework
  <2>3. CaseTyped' /\ SpecialistsInv'
    BY <1>1, <2>1, CaseKept, SpecialistsRest
  <2>4. OthersUntouched'
    <3>1. UNCHANGED <<origination, intake, gapRequests, assessed, riskDispositions, operations>>
      BY <2>1 DEF origination, intake, riskDispositions, operations
    <3> QED
      BY <1>1, <2>1, <2>2, <3>1, UntouchedKept DEF OthersUntouched
  <2>5. DeskHolds'
    <3>1. DeskHolds => /\ desk = "origination" => OriginationHold'
                       /\ desk = "operations" => OperationsHold'
      BY <2>1, <2>2, OriginationRest, OperationsRest
         DEF DeskHolds, OriginationHold, OperationsHold, PackagesHold
    <3> QED
      BY <1>1, <2>1, <2>2, <3>1, ReviewsRest, IntakeRest, GapsRest, RiskRest DEF DeskHolds
  <2>6. WorkHolds'
    BY <1>1, <2>1, SheetStep, ChecklistStep, RetrievalStep, DraftingStep DEF WorkHolds
  <2> QED
    BY <2>3, <2>4, <2>5, <2>6 DEF IInv
<1> QED
  BY <1>2, <1>3

\* The invariant of every desk holds in every reachable state (Preparation.Spec).
THEOREM Invariance == Spec => []IInv
  BY InitIInv, NextIInv, PTL DEF Spec
--------------------------------------------------------------------------------
\* Versions of the need and of the screening are numbered without a gap, and a gate
\* names one on record, whoever appends at the same time (customer_financing and
\* prospect repositories: insert with max + 1 under a unique constraint).
THEOREM NeedsNumbered == Spec => []NeedConfirmed
<1>1. IInv => NeedConfirmed
  <2> SUFFICES ASSUME IInv
               PROVE  NeedConfirmed
    OBVIOUS
  <2>1. CASE desk = "origination"
    <3>1. OriginationHold
      BY <2>1 DEF IInv, DeskHolds
    <3> QED
      BY <3>1 DEF OriginationHold, ConfirmedHolds, NeedConfirmed, NeedGate
  <2>2. CASE desk # "origination"
    <3>1. /\ needs = <<[n |-> 1, ver |-> 1]>> /\ snapshots = <<>>
          /\ confirmed = [v \in Versions |-> 0]
          /\ \A v \in Versions : gate["HG_FINANCING_NEED_CONFIRMED"][v] = Nobody
      <4>1. NeedGate \notin GatesOf(desk)
        BY <2>2 DEF GatesOf, NeedGate
      <4> QED
        BY <2>2, <4>1, GatesAssumption DEF IInv, OthersUntouched, NeedGate, OriginationInit
    <3>2. Len(needs) = 1 /\ DOMAIN needs = 1..1 /\ needs[1].n = 1 /\ DOMAIN snapshots = {}
      BY <3>1
    <3> QED
      BY <3>1, <3>2 DEF NeedConfirmed
  <2> QED
    BY <2>1, <2>2
<1> QED
  BY <1>1, Invariance, PTL

\* A handoff keeps telling what the officers decided, although workers go on with the
\* documents, and reviews and completions overlap (complete_intake.py).
THEOREM HandoffsHold == Spec => []HandoffHolds
<1>1. IInv => HandoffHolds
  BY HandoffsFollow DEF IInv, DeskHolds, OthersUntouched, HandoffHolds, HandoffInit
<1> QED
  BY <1>1, Invariance, PTL

\* Gate G4 is satisfied only when every action of the package is authorized, and unless
\* a request was interrupted on the way, it is (api/operations.py).
THEOREM OperationsAuthorized == Spec => []G4Follows
<1>1. IInv => G4Follows
  <2>1. IInv /\ desk = "operations" => G4Follows
    <3>1. IInv /\ desk = "operations" => \A i \in DOMAIN packages : G4FollowsFor(i)
      BY DEF IInv, DeskHolds, OperationsHold
    <3> QED
      BY <3>1 DEF G4FollowsFor, G4Follows, AtG4, G4Derived
  <2>2. IInv /\ desk # "operations" => G4Follows
    <3>1. IInv /\ desk # "operations" => DOMAIN packages = {}
      BY DEF IInv, OthersUntouched, OperationsInit
    <3> QED
      BY <3>1 DEF G4Follows
  <2> QED
    BY <2>1, <2>2
<1> QED
  BY <1>1, Invariance, PTL

\* Whoever satisfied a gate of the preparation had the evidence for it, and the risk
\* desk leaves a version on demand only (api/gap_requests.py, api/risk_review.py,
\* api/legal.py, api/underwriting.py).
THEOREM GatesSupported == Spec => []GatesVouch
<1>1. IInv => GatesVouch
  <2> SUFFICES ASSUME IInv
               PROVE  GatesVouch
    OBVIOUS
  <2>1. \A g \in GateTypes, v \in Versions : gate[g][v] # Nobody => g \in GatesOf(desk)
    BY DEF IInv, OthersUntouched
  <2>2. G2Knowing
    <3>1. CASE desk = "gaps"
      BY <3>1 DEF IInv, DeskHolds, GapsHold
    <3>2. CASE desk # "gaps"
      <4>1. "G2_GAP_REQUEST_APPROVAL" \notin GatesOf(desk)
        BY <3>2 DEF GatesOf, NeedGate
      <4> QED
        BY <2>1, <4>1, GatesAssumption DEF G2Knowing
    <3> QED
      BY <3>1, <3>2
  <2>3. G3Knowing
    <3>1. CASE desk = "risk"
      BY <3>1, G3KnowingIs DEF IInv, DeskHolds, RiskHold
    <3>2. CASE desk # "risk"
      <4>1. "G3_RISK_DISPOSITION" \notin GatesOf(desk)
        BY <3>2 DEF GatesOf, NeedGate
      <4> QED
        BY <2>1, <4>1, GatesAssumption DEF G3Knowing
    <3> QED
      BY <3>1, <3>2
  <2>4. ReviewsVouch
    <3>1. CASE desk = "reviews"
      BY <3>1 DEF IInv, DeskHolds, ReviewsHold
    <3>2. CASE desk # "reviews"
      <4>1. /\ \A m \in Makers : ReviewGate[m] \notin GatesOf(desk)
            /\ "HG_MAKER_SUBMISSION_CONFIRMED" \notin GatesOf(desk)
        BY <3>2 DEF GatesOf, NeedGate, Makers, ReviewGate
      <4> QED
        BY <2>1, <4>1, ReviewGates, GatesAssumption DEF ReviewsVouch
    <3> QED
      BY <3>1, <3>2
  <2>5. desk = "risk" => RevisedOnDemand
    BY DEF IInv, DeskHolds, RiskHold
  <2> QED
    BY <2>2, <2>3, <2>4, <2>5 DEF GatesVouch
<1> QED
  BY <1>1, Invariance, PTL

\* No gap gets lost between the agents, and none comes from a draft that was not kept
\* (application/*/processor.py).
THEOREM NoGapLost == Spec => []GapsCarried
<1>1. IInv => GapsCarried
  BY GapsFollow DEF IInv
<1> QED
  BY <1>1, Invariance, PTL

\* Missing evidence is a gap and never a figure or a document of the checklist
\* (underwriting/calculators.py: NOT_COMPUTABLE; legal/evidence.py: "never guesses").
THEOREM NothingMadeUp == Spec => []EvidenceNotGuessed
<1>1. IInv => EvidenceNotGuessed
  BY FiguresFollow, ChecklistFollows DEF IInv, WorkHolds, EvidenceNotGuessed
<1> QED
  BY <1>1, Invariance, PTL

\* A schedule pays back its principal to the unit, owes at least that, and leaves
\* nothing, whatever was rounded; coverage and shortfall agree at the boundary; and a
\* downside scenario is computed exactly if the base case is, and reconciles with the
\* funding and the request without a residual (underwriting/calculators.py).
THEOREM FiguresExact == Spec => []FiguresReconcile
<1>1. IInv => FiguresReconcile
  BY ScheduleFollows, ScenariosFollow DEF IInv, WorkHolds, FiguresReconcile
<1> QED
  BY <1>1, Invariance, PTL

\* What a specialist's output says about another's can be looked up, across runs and
\* versions (application/*/processor.py); an answer of the retrieval has the passages
\* that a seed leads to, by the better rank, and excludes each other one for the reason
\* that holds (retrieval/pipeline.py); and what is kept of a model's answer can be
\* traced to what its author was shown (application/*/builder.py and their packages).
THEOREM CitationsResolve == Spec => []CitesResolve
<1>1. IInv => CitesResolve
  BY CitesFollow, AnswersFollow, DraftingFollows DEF IInv, WorkHolds, CitesResolve
<1> QED
  BY <1>1, Invariance, PTL

\* What the desks begin with is of the type they keep.
LEMMA BeginningsTyped ==
  /\ OriginationInit => OriginationTypeOK
  /\ IngestionInit /\ ReviewInit /\ HandoffInit =>
       IngestionTypeOK /\ ReviewTypeOK /\ HandoffTypeOK
  /\ GapRequestsInit => GapRequestsTypeOK
  /\ MakerReviewsInit => MakerReviewsTypeOK
  /\ RiskDispositionsInit => RiskDispositionsTypeOK
  /\ OperationsInit => OperationsTypeOK
<1>1. OriginationInit => OriginationTypeOK
  <2> SUFFICES ASSUME OriginationInit
               PROVE  OriginationTypeOK
    OBVIOUS
  <2>1. PICK T, e : T = [n : 1..MaxNeeds, ver : Versions] /\ e = [n |-> 1, ver |-> 1]
    OBVIOUS
  <2>2. e \in T /\ 0 \in 0..MaxNeeds
    BY <2>1, Constants, OriginationAssumption
  <2>3. needs \in Seq(T) /\ snapshots \in Seq(1..MaxSnapshots)
    BY <2>1, <2>2 DEF OriginationInit
  <2> QED
    BY <2>1, <2>2, <2>3 DEF OriginationInit, OriginationTypeOK
<1>2. IngestionInit /\ ReviewInit /\ HandoffInit =>
        IngestionTypeOK /\ ReviewTypeOK /\ HandoffTypeOK
  <2>1. [ver |-> 0, stage |-> 0] \in [ver : 0..MaxVersion, stage : Stages]
    BY Constants DEF Stages, READY_FOR_OFFICER_REVIEW
  <2>2. NoJob \in [doc : Documents \cup {Nobody}, at : Stages, saving : BOOLEAN]
    BY DEF NoJob, Stages, READY_FOR_OFFICER_REVIEW
  <2>3. IngestionInit => IngestionTypeOK
    BY <2>1, <2>2 DEF IngestionInit, IngestionTypeOK
  <2> QED
    BY <2>3 DEF ReviewInit, HandoffInit, ReviewTypeOK, HandoffTypeOK
<1>3. GapRequestsInit => GapRequestsTypeOK
  BY DEF GapRequestsInit, GapRequestsTypeOK
<1>4. MakerReviewsInit => MakerReviewsTypeOK
  BY DEF MakerReviewsInit, MakerReviewsTypeOK
<1>5. RiskDispositionsInit => RiskDispositionsTypeOK
  BY NoneRecorded, RiskAssumption DEF RiskDispositionsInit, RiskDispositionsTypeOK
<1>6. OperationsInit => OperationsTypeOK
  BY DEF OperationsInit, OperationsTypeOK
<1> QED
  BY <1>1, <1>2, <1>3, <1>4, <1>5, <1>6

LEMMA OriginationTyped == OriginationHold => OriginationTypeOK
<1> SUFFICES ASSUME OriginationHold
             PROVE  OriginationTypeOK
  OBVIOUS
<1>1. PICK T : T = [n : Nat, ver : Versions]
  OBVIOUS
<1>2. PICK S : S = [n : 1..MaxNeeds, ver : Versions]
  OBVIOUS
<1>3. PICK n \in Nat, m \in Nat :
        n = Len(needs) /\ DOMAIN needs = 1..n /\ m = Len(snapshots) /\ DOMAIN snapshots = 1..m
  BY <1>1 DEF OriginationHold
<1>4. /\ needs \in [1..n -> T] /\ snapshots \in [1..m -> Nat]
      /\ n <= MaxNeeds /\ m <= MaxSnapshots /\ MaxNeeds \in Nat /\ MaxSnapshots \in Nat
  <2>1. needs \in Seq(T) /\ snapshots \in Seq(Nat)
    BY <1>1 DEF OriginationHold
  <2>2. needs \in [1..n -> T] /\ snapshots \in [1..m -> Nat]
    BY <1>3, <2>1
  <2> QED
    BY <1>3, <2>2, OriginationAssumption DEF OriginationHold
<1>5. \A i \in 1..n : needs[i] \in S
  <2> SUFFICES ASSUME NEW i \in 1..n
               PROVE  needs[i] \in S
    OBVIOUS
  <2>1. needs[i] \in T /\ needs[i].n = i /\ i \in 1..MaxNeeds
    BY <1>3, <1>4 DEF OriginationHold
  <2> QED
    BY <1>1, <1>2, <2>1
<1>6. \A i \in 1..m : snapshots[i] \in 1..MaxSnapshots
  BY <1>3, <1>4 DEF OriginationHold
<1>7. needs \in Seq(S) /\ snapshots \in Seq(1..MaxSnapshots)
  BY <1>3, <1>4, <1>5, <1>6, IsASeq
<1>8. confirmed \in [Versions -> 0..MaxNeeds]
  BY <1>3, <1>4 DEF OriginationHold, ConfirmedHolds
<1> QED
  BY <1>2, <1>7, <1>8 DEF OriginationHold, OriginationTypeOK

LEMMA GapsTyped == GapsHold => GapRequestsTypeOK
<1> SUFFICES ASSUME GapsHold
             PROVE  GapRequestsTypeOK
  OBVIOUS
<1>1. PICK T : T = [ver : Versions, gaps : SUBSET Gaps]
  OBVIOUS
<1>2. \A i \in DOMAIN batches : batches[i] \in T
  <2>1. batches \in Seq(T)
    BY <1>1 DEF GapsHold, BatchesHold
  <2> QED
    BY <2>1
<1>3. \A i \in DOMAIN batches : batches[i].ver \in Versions /\ batches[i].gaps \subseteq Gaps
  BY <1>1, <1>2
<1>4. \A d \in dispositions :
        /\ d.batch \in DOMAIN batches /\ d.type \in DispositionTypes
        /\ d.who \in Actors /\ d.open \subseteq Gaps
  BY <1>3 DEF GapsHold, BatchesHold
<1> QED
  BY <1>3, <1>4 DEF GapsHold, BatchesHold, GapRequestsTypeOK

LEMMA RiskTyped == RiskHold => RiskDispositionsTypeOK
<1> SUFFICES ASSUME RiskHold
             PROVE  RiskDispositionsTypeOK
  OBVIOUS
<1>1. PICK T : T = DispositionRecord
  OBVIOUS
<1>2. \A v \in Versions : \A i \in DOMAIN recorded[v] : recorded[v][i] \in T
  BY <1>1 DEF RiskHold
<1>3. \A e \in T : e.on \in Challenges \cup {AssessmentLevel} /\ e.type \in ReviewTypes
                   /\ e.who \in Actors
  BY <1>1 DEF DispositionRecord, ReviewTargets
<1> QED
  BY <1>2, <1>3 DEF RiskHold, RiskCounted, RiskDispositionsTypeOK

LEMMA OperationsTyped == OperationsHold => OperationsTypeOK
<1> SUFFICES ASSUME OperationsHold
             PROVE  OperationsTypeOK
  OBVIOUS
<1>1. PICK T : T = [ver : Versions, actions : SUBSET ProposedActions]
  OBVIOUS
<1>2. \A i \in DOMAIN packages : packages[i] \in T
  <2>1. packages \in Seq(T)
    BY <1>1 DEF OperationsHold
  <2> QED
    BY <2>1
<1>3. \A i \in DOMAIN packages : packages[i].actions \subseteq ProposedActions
  BY <1>1, <1>2
<1> QED
  BY <1>3 DEF OperationsHold, PackagesHold, OperationsTypeOK

\* What is recorded of a case up to the gates is of its type: the versions of the need
\* and of the screening stay within their numbers, a disposition has an actor who may
\* record it and no more are recorded than counted, an assessment is stored once for a
\* version, and what is authorized was proposed by its package (the repositories behind
\* api/prospects.py up to api/operations.py, and the agents' processors).
THEOREM TypeCorrect == Spec => []TypeOK
<1>1. IInv => TypeOK
  <2> SUFFICES ASSUME IInv
               PROVE  TypeOK
    OBVIOUS
  <2>1. CaseTyped /\ OthersUntouched /\ DeskHolds /\ SpecialistsInv /\ WorkHolds
    BY DEF IInv
  <2>2. CaseworkTypeOK
    BY <2>1 DEF CaseTyped, RequestTyped, CaseworkTypeOK
  <2>3. OriginationTypeOK
    BY <2>1, BeginningsTyped, OriginationTyped DEF OthersUntouched, DeskHolds
  <2>4. IngestionTypeOK /\ ReviewTypeOK /\ HandoffTypeOK
    <3>1. CASE desk = "intake"
      <4>1. IntakeHold
        BY <2>1, <3>1 DEF DeskHolds
      <4>2. \A h \in handoffs : h \in Handoff /\ Froze(h)
        BY <4>1 DEF IntakeHold
      <4>3. HandoffTypeOK
        BY <4>2 DEF HandoffTypeOK, Handoff, Froze, DerivedOf
      <4> QED
        BY <4>1, <4>3 DEF IntakeHold, IngestionHolds
    <3>2. CASE desk # "intake"
      BY <2>1, <3>2, BeginningsTyped DEF OthersUntouched
    <3> QED
      BY <3>1, <3>2
  <2>5. GapRequestsTypeOK
    BY <2>1, BeginningsTyped, GapsTyped DEF OthersUntouched, DeskHolds
  <2>6. MakerReviewsTypeOK
    <3>1. ReviewsHold => MakerReviewsTypeOK
      BY DEF ReviewsHold, AssessedOnce, MakerReviewsTypeOK
    <3> QED
      BY <2>1, <3>1, BeginningsTyped DEF OthersUntouched, DeskHolds
  <2>7. RiskDispositionsTypeOK
    BY <2>1, BeginningsTyped, RiskTyped DEF OthersUntouched, DeskHolds
  <2>8. OperationsTypeOK
    BY <2>1, BeginningsTyped, OperationsTyped DEF OthersUntouched, DeskHolds
  <2>9. SheetTypeOK /\ ChecklistTypeOK /\ SpecialistsTypeOK
    BY <2>1, SpecialistsTyped DEF WorkHolds, ChecklistHolds, ChecklistTypeOK
  <2>10. RetrievalTypeOK /\ DraftingTypeOK
    BY <2>1, AnswersFollow DEF WorkHolds, DraftingHolds, DraftingTypeOK
  <2> QED
    BY <2>1, <2>2, <2>3, <2>4, <2>5, <2>6, <2>7, <2>8, <2>9, <2>10 DEF OthersUntouched, TypeOK
<1> QED
  BY <1>1, Invariance, PTL
================================================================================
