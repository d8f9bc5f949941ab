--------------------------- MODULE ContractPackages ---------------------------
(****************************************************************************)
(* The contract package (api/contract_packages.py): rendered from the       *)
(* approved terms, redlined by legal reviewers, approved, authorised and    *)
(* signed by checkers. The rows of a case version are append-only: every    *)
(* change is a new package version, and the latest row is the package.      *)
(****************************************************************************)
EXTENDS CreditDecision, Sequences

CONSTANTS
  Redlines,     \* the texts a redline may bring
  MaxPackages   \* bound on the package versions of a case version

ASSUME PackagesAssumption == MaxPackages \in Nat \ {0}

VARIABLES
  packages,    \* contract_packages of a version, in the order of package_version
  approvedAs,  \* package_version the approval gate's disposition_ref names, or 0
  signedAs     \* the package versions with signature evidence

contracts == <<packages, approvedAs, signedAs>>

ContractPackageState ==
  {"DRAFT", "REDLINED", "MATERIAL_CHANGE_DETECTED", "READY_FOR_SIGNATURE"}
Rendered == "rendered"
Contents == Redlines \cup {Rendered}

ContractsInit ==
  /\ packages = [v \in Versions |-> << >>]
  /\ approvedAs = [v \in Versions |-> 0]
  /\ signedAs = [v \in Versions |-> {}]

ContractsTypeOK ==
  /\ packages \in [Versions -> Seq([state : ContractPackageState,
                                   content : Contents, terms : Versions])]
  /\ \A v \in Versions : Len(packages[v]) <= MaxPackages
  /\ approvedAs \in [Versions -> 0..MaxPackages]
  /\ signedAs \in [Versions -> SUBSET (1..MaxPackages)]

\* load_permitting_decision joins the decision with its term snapshot.
PermitsContract(v) == v \in terms /\ Permits(v)

\* load_current_package
HasPackage(v) == packages[v] # << >>
Current(v) == packages[v][Len(packages[v])]

\* _append_version_on: the next version keeps the term hash of the row it is
\* based on.  A lost race for the version number starts the transaction again.
Appended(v, state, content) ==
  [packages EXCEPT ![v] =
     Append(@, [state |-> state, content |-> content, terms |-> Current(v).terms])]

CheckPackage(r) ==
  /\ PermitsContract(caseVersion)
  /\ BeginAny(r, "new_package", "OPS_OFFICER", caseVersion, Nobody)
  /\ UNCHANGED <<decided, contracts>>

\* create_package: version 1, from the terms of the decision, or what there is.
CreatePackage(r) ==
  LET v == req[r].ver IN
  /\ Doing(r, "new_package")
  /\ packages' = [packages EXCEPT ![v] =
       IF @ = << >>
         THEN <<[state |-> "DRAFT", content |-> Rendered, terms |-> v]>> ELSE @]
  /\ Done(r)
  /\ UNCHANGED <<caseVersion, gate, decided, approvedAs, signedAs>>

\* A redline brings any text, whatever gates have been satisfied.
CheckRedline(r, c) ==
  /\ BeginAny(r, "redline", "LEGAL_REVIEWER", caseVersion, c)
  /\ UNCHANGED <<decided, contracts>>

AddRedline(r) ==
  LET v == req[r].ver IN
  /\ Doing(r, "redline")
  /\ IF HasPackage(v)
       THEN /\ Len(packages[v]) < MaxPackages
            /\ packages' = Appended(v, "REDLINED", req[r].arg)
       ELSE UNCHANGED packages
  /\ Done(r)
  /\ UNCHANGED <<caseVersion, gate, decided, approvedAs, signedAs>>

\* detect_material_change compares the hash of the terms the first version was
\* rendered from with the hash of the terms of the decision.
MaterialChange(v) == Current(v).terms # v

\* approve reads the package it is about to approve.
CheckApprove(r) ==
  /\ HasPackage(caseVersion) /\ PermitsContract(caseVersion)
  /\ ~MaterialChange(caseVersion)
  /\ BeginAny(r, "approve_package", "OPS_CHECKER", caseVersion,
           [package |-> Len(packages[caseVersion])])
  /\ UNCHANGED <<decided, contracts>>

ApprovePackage(r) ==
  LET v == req[r].ver IN
  /\ Doing(r, "approve_package")
  /\ Satisfy("HG_CONTRACT_PACKAGE_APPROVED", v, req[r].who)
  /\ approvedAs' = [approvedAs EXCEPT ![v] = IF @ = 0 THEN req[r].arg.package ELSE @]
  /\ Done(r)
  /\ UNCHANGED <<caseVersion, decided, packages, signedAs>>

CheckAuthority(r) ==
  /\ HasPackage(caseVersion)
  /\ GateSeen("HG_CONTRACT_PACKAGE_APPROVED", caseVersion)
  /\ BeginAny(r, "authority", "OPS_CHECKER", caseVersion, Nobody)
  /\ UNCHANGED <<decided, contracts>>

ConfirmAuthority(r) ==
  /\ Doing(r, "authority")
  /\ Satisfy("HG_SIGNATURE_AUTHORITY_CONFIRMED", req[r].ver, req[r].who)
  /\ Done(r)
  /\ UNCHANGED <<caseVersion, decided, contracts>>

\* Mutant of BothGates: the authority is taken for granted.
BothGatesOne(v) == GateSeen("HG_CONTRACT_PACKAGE_APPROVED", v)

BothGates(v) ==
  /\ GateSeen("HG_CONTRACT_PACKAGE_APPROVED", v)
  /\ GateSeen("HG_SIGNATURE_AUTHORITY_CONFIRMED", v)

CheckSign(r) ==
  /\ HasPackage(caseVersion) /\ BothGates(caseVersion)
  /\ PermitsContract(caseVersion) /\ ~MaterialChange(caseVersion)
  /\ BeginAny(r, "sign", "OPS_CHECKER", caseVersion, Nobody)
  /\ UNCHANGED <<decided, contracts>>

Signable(v) ==
  Current(v).state \notin {"MATERIAL_CHANGE_DETECTED", "READY_FOR_SIGNATURE"}

\* record_signature_evidence signs the latest package at the time of the write;
\* the gate follows in a transaction of its own.
RecordSignature(r) ==
  LET v == req[r].ver IN
  /\ Doing(r, "sign")
  /\ IF Signable(v)
       THEN /\ Len(packages[v]) < MaxPackages
            /\ packages' = Appended(v, "READY_FOR_SIGNATURE", Current(v).content)
            /\ signedAs' = [signedAs EXCEPT ![v] = @ \cup {Len(packages[v]) + 1}]
            /\ req' = [req EXCEPT ![r].op = "signed"]
       ELSE Done(r) /\ UNCHANGED <<packages, signedAs>>
  /\ UNCHANGED <<caseVersion, gate, decided, approvedAs>>

ContractsSigned(r) ==
  /\ Doing(r, "signed")
  /\ Satisfy("HG_CONTRACTS_SIGNED", req[r].ver, req[r].who)
  /\ Done(r)
  /\ UNCHANGED <<caseVersion, decided, contracts>>

ContractsNext(r) ==
  \/ CheckPackage(r) \/ CheckApprove(r) \/ CheckAuthority(r) \/ CheckSign(r)
  \/ \E c \in Redlines : CheckRedline(r, c)
  \/ CreatePackage(r) \/ AddRedline(r) \/ ApprovePackage(r)
  \/ ConfirmAuthority(r) \/ RecordSignature(r) \/ ContractsSigned(r)
-------------------------------------------------------------------------------
\* A signature stands on both gates and on approved terms, every signed row
\* repeats the text of the row before it, which was itself not a signed one, and
\* the gate of the signed contracts is never satisfied without a signature.
SignedInOrder ==
  \A v \in Versions :
    /\ signedAs[v] # {} =>
         /\ PermitsContract(v)
         /\ gate["HG_CONTRACT_PACKAGE_APPROVED"][v] # Nobody
         /\ gate["HG_SIGNATURE_AUTHORITY_CONFIRMED"][v] # Nobody
    /\ \A n \in signedAs[v] :
         /\ n > 1 /\ packages[v][n].content = packages[v][n - 1].content
         /\ n - 1 \notin signedAs[v]
    /\ gate["HG_CONTRACTS_SIGNED"][v] # Nobody => signedAs[v] # {}

===============================================================================
