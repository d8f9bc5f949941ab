------------------------------- MODULE Casework -------------------------------
(****************************************************************************)
(* What every human operation on a credit case shares: the case version,    *)
(* the human gates of a version, and the API requests under way.            *)
(*                                                                          *)
(* A handler checks the role, the assignment and the state it has read, and *)
(* writes in a transaction of its own. So an operation is two actions: a    *)
(* check that leaves the request with what it has read, and the write,      *)
(* before which other requests may commit. A request that is refused never  *)
(* gets past its check.                                                     *)
(*                                                                          *)
(* A lookup finds a case by the financing request of its current version,   *)
(* and the API adds none when a revision starts a version (Origination).    *)
(* What the other desks do at a later version presupposes that one was put  *)
(* on record outside the API, as the service role can.                      *)
(****************************************************************************)
EXTENDS Naturals, FiniteSets

CONSTANTS
  Requests,    \* API requests that may overlap
  Actors,      \* people with an assignment to the case
  Nobody,      \* not an actor
  Staff,       \* the actors of a role
  GateTypes,   \* the gates of the part of the life cycle under study
  MaxVersion   \* bound on the case version

ASSUME CaseworkAssumption ==
  /\ Nobody \notin Actors \cup DOMAIN Staff
  /\ MaxVersion \in Nat \ {0}

Versions == 1..MaxVersion

People == Actors \cup DOMAIN Staff \cup {Nobody}

VARIABLES
  caseVersion, \* credit_cases.case_version
  gate,        \* who satisfied a gate of a version, Nobody while it is OPEN
  req          \* what each request has read and is about to write

casework == <<caseVersion, gate, req>>

Idle == [op |-> "idle", who |-> Nobody, ver |-> 1, arg |-> Nobody]

CaseworkInit ==
  /\ caseVersion = 1
  /\ gate = [g \in GateTypes |-> [v \in Versions |-> Nobody]]
  /\ req = [r \in Requests |-> Idle]

CaseworkTypeOK ==
  /\ caseVersion \in Versions
  /\ gate \in [GateTypes -> [Versions -> People]]
  /\ DOMAIN req = Requests
  /\ \A r \in Requests :
       req[r].who \in People /\ req[r].ver \in Versions

\* A request has passed its checks.
Enter(r, op, who, v, x) ==
  /\ req[r] = Idle
  /\ req' = [req EXCEPT ![r] = [op |-> op, who |-> who, ver |-> v, arg |-> x]]
  /\ UNCHANGED <<caseVersion, gate>>

\* The handler admits an actor who holds the role.
Begin(r, op, a, role, v, x) == a \in Staff[role] /\ Enter(r, op, a, v, x)

\* Where nothing depends on who it was, the role stands for the actor.
BeginAny(r, op, role, v, x) == Staff[role] # {} /\ Enter(r, op, role, v, x)

\* The version a handler has read; by the time it writes, it may be an old one.
VersionRead == 1..caseVersion

Doing(r, op) == req[r].op = op

\* The request is answered.
Done(r) == req' = [req EXCEPT ![r] = Idle]

\* load_snapshot returns the gates of the current version only.
GateSeen(g, v) == caseVersion = v /\ gate[g][v] # Nobody

\* ensure_gate(SATISFIED): only an OPEN gate is updated.
Satisfy(g, v, a) ==
  gate' = [gate EXCEPT ![g][v] = IF @ = Nobody THEN a ELSE @]

\* Mutant of NewVersion: a repeated request bumps the version again.
NewVersionTwice ==
  /\ caseVersion < MaxVersion
  /\ caseVersion' = caseVersion + 2
  /\ UNCHANGED <<gate, req>>

\* A maker revision starts the next version; nothing is asked about the old one.
NewVersion ==
  /\ caseVersion < MaxVersion
  /\ caseVersion' = caseVersion + 1
  /\ UNCHANGED <<gate, req>>

\* The process dies or a call raises: what was not committed is lost.
Lost(r) ==
  /\ req[r] # Idle
  /\ Done(r)
  /\ UNCHANGED <<caseVersion, gate>>
===============================================================================
