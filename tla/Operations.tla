------------------------------- MODULE Operations -------------------------------
(****************************************************************************)
(* The authorization of the proposed actions and gate G4                    *)
(* (api/credit_ops.py): an officer authorizes one action of the latest      *)
(* package; then all authorizations are read and G4 is satisfied for the    *)
(* version of the package if every action has one. Approving a document     *)
(* request is recorded the same way, and drives no gate.                    *)
(****************************************************************************)
EXTENDS Casework, Sequences

CONSTANT ProposedActions   \* the actions a package may propose

VARIABLES
  packages,     \* credit_ops_packages, in the order they were stored
  authorized,   \* ops_action_authorizations
  approved,     \* document_request_approvals, by package
  interrupted   \* the packages for which a request was lost, for the properties

operations == <<packages, authorized, approved, interrupted>>

OperationsInit ==
  packages = <<>> /\ authorized = {} /\ approved = {} /\ interrupted = {}

OperationsTypeOK ==
  /\ \A i \in DOMAIN packages :
       /\ packages[i].ver \in Versions
       /\ packages[i].actions \subseteq ProposedActions /\ packages[i].actions # {}
  /\ \A x \in authorized :
       x.package \in DOMAIN packages /\ x.action \in packages[x.package].actions
  /\ approved \cup interrupted \subseteq DOMAIN packages

\* Mutant of PersistPackage: a package may propose nothing.
PersistPackageBare(v, actions) ==
  /\ \A i \in DOMAIN packages : packages[i].ver # v
  /\ packages' = Append(packages, [ver |-> v, actions |-> actions])
  /\ UNCHANGED <<casework, authorized, approved, interrupted>>

\* The operations worker persists a package, one for a version; it always
\* proposes something.
PersistPackage(v, actions) ==
  /\ actions # {}
  /\ \A i \in DOMAIN packages : packages[i].ver # v
  /\ packages' = Append(packages, [ver |-> v, actions |-> actions])
  /\ UNCHANGED <<casework, authorized, approved, interrupted>>

LatestPackage == Len(packages)

CheckAuthorization(r, x) ==
  /\ packages # <<>> /\ x \in packages[LatestPackage].actions
  /\ BeginAny(r, "authorize", "OPS_OFFICER", packages[LatestPackage].ver,
              [package |-> LatestPackage, action |-> x])
  /\ UNCHANGED operations

AuthorizedActions(i) == {x.action : x \in {y \in authorized : y.package = i}}

\* Mutant of RecordAuthorization: the others are read before it is recorded.
RecordAuthorizationLate(r) ==
  /\ Doing(r, "authorize")
  /\ authorized' = authorized \cup {req[r].arg}
  /\ req' = [req EXCEPT ![r] =
       IF packages[@.arg.package].actions \subseteq AuthorizedActions(@.arg.package)
         THEN [@ EXCEPT !.op = "satisfy G4"] ELSE Idle]
  /\ UNCHANGED <<caseVersion, gate, packages, approved, interrupted>>

RecordAuthorization(r) ==
  /\ Doing(r, "authorize")
  /\ authorized' = authorized \cup {req[r].arg}
  /\ req' = [req EXCEPT ![r].op = "derive G4"]
  /\ UNCHANGED <<caseVersion, gate, packages, approved, interrupted>>

\* derive_g4_status
G4Derived(i) == packages[i].actions \subseteq AuthorizedActions(i)

DeriveG4(r) ==
  /\ Doing(r, "derive G4")
  /\ req' = [req EXCEPT ![r] =
       IF G4Derived(req[r].arg.package)
         THEN [@ EXCEPT !.op = "satisfy G4"] ELSE Idle]
  /\ UNCHANGED <<caseVersion, gate, operations>>

SatisfyG4(r) ==
  /\ Doing(r, "satisfy G4")
  /\ Satisfy("G4_OPS_AUTHORIZATION", req[r].ver, req[r].who)
  /\ Done(r)
  /\ UNCHANGED <<caseVersion, operations>>

\* The answer to a document request is approved, and that is all.
ApproveDocumentRequest ==
  /\ packages # <<>> /\ Staff["OPS_OFFICER"] # {}
  /\ approved' = approved \cup {LatestPackage}
  /\ UNCHANGED <<casework, packages, authorized, interrupted>>

\* A request is lost; an officer may authorize the action again.
Interrupt(r) ==
  /\ Lost(r)
  /\ interrupted' = interrupted \cup
       IF req[r].op = "authorize" THEN {} ELSE {req[r].arg.package}
  /\ UNCHANGED <<packages, authorized, approved>>

OperationsNext ==
  \/ \E v \in VersionRead, actions \in SUBSET ProposedActions : PersistPackage(v, actions)
  \/ \E r \in Requests :
       \/ (\E x \in ProposedActions : CheckAuthorization(r, x))
       \/ RecordAuthorization(r) \/ DeriveG4(r) \/ SatisfyG4(r) \/ Interrupt(r)
  \/ ApproveDocumentRequest
--------------------------------------------------------------------------------
\* G4 of a version says that every action of its package is authorized, no less
\* although the latest package may change between two requests, and no more: two
\* officers who authorize the last two actions at the same time do not miss each
\* other, so then G4 is satisfied or about to be, unless a request was lost.
G4Follows ==
  \A i \in DOMAIN packages :
    LET G4 == gate["G4_OPS_AUTHORIZATION"][packages[i].ver] # Nobody
        whole == packages[i].actions \subseteq AuthorizedActions(i)
    IN
    /\ G4 => whole
    /\ whole =>
         \/ G4 \/ i \in interrupted
         \/ \E r \in Requests :
              req[r].op \in {"derive G4", "satisfy G4"} /\ req[r].arg.package = i
================================================================================
