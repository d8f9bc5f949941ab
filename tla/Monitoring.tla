------------------------------ MODULE Monitoring ------------------------------
(****************************************************************************)
(* Monitoring after a disbursement (api/monitoring.py): a schedule of       *)
(* reporting obligations, observations, covenants and their tests, and the  *)
(* early-warning alerts that two rules raise and reviewers dispose of.      *)
(*                                                                          *)
(* Obligations, covenants, tests and observations are written once. What a  *)
(* handler reads of them cannot change, so its read and its write are one   *)
(* action; only the alert of a disposition is read, and written, apart.     *)
(****************************************************************************)
EXTENDS Casework, Sequences

CONSTANTS
  ObligationIds, \* numbered in the order they are written
  TestIds,       \* covenant tests
  Anchors,       \* months a schedule may start from
  MaxCount,      \* bound on the obligations of a run
  Operators,     \* the comparison operators of the covenants
  Ratios         \* numerators and thresholds of the covenant tests

VARIABLES
  obligation, \* version and due month of each obligation; version 0: not there
  covenant,   \* version, operator and threshold of the covenant
  failed,     \* the covenant tests that did not pass
  tested,     \* all covenant tests recorded
  late,       \* the obligations with an observation past the due date
  alert,      \* alert status of each source (an obligation or a test), or NONE
  trail       \* alert_dispositions: the statuses it was moved to, in order

watching == <<obligation, covenant, failed, tested, late, alert, trail>>

ObligationFrequency == {"MONTHLY", "QUARTERLY"}
FREQUENCY_MONTHS(f) == IF f = "MONTHLY" THEN 1 ELSE 3
ComparisonOperator == {"GTE", "GT", "LTE", "LT", "EQ"}
ASSUME MonitoringAssumption ==
  /\ ObligationIds \subseteq Nat /\ Anchors \subseteq Nat /\ Ratios \subseteq Nat
  /\ MaxCount \in Nat \ {0} /\ Operators \subseteq ComparisonOperator

AlertStatus == {"OPEN", "ACKNOWLEDGED", "ESCALATED", "DISMISSED_BY_HUMAN"}
AlertSources == ({"due"} \X ObligationIds) \cup ({"test"} \X TestIds)

ALLOWED_ALERT_TRANSITIONS(s) ==
  CASE s = "OPEN" -> {"ACKNOWLEDGED", "ESCALATED", "DISMISSED_BY_HUMAN"}
    [] s = "ACKNOWLEDGED" -> {"ESCALATED", "DISMISSED_BY_HUMAN"}
    [] s = "ESCALATED" -> {"DISMISSED_BY_HUMAN"}
    [] OTHER -> {}

NoCovenant == [ver |-> 0, operator |-> "EQ", threshold |-> 0]

MonitoringInit ==
  /\ obligation = [o \in ObligationIds |-> [ver |-> 0, due |-> 0]]
  /\ covenant = NoCovenant
  /\ failed = {} /\ tested = {} /\ late = {}
  /\ alert = [s \in AlertSources |-> "NONE"]
  /\ trail = [s \in AlertSources |-> << >>]

MonitoringTypeOK ==
  /\ obligation \in [ObligationIds -> [ver : 0..MaxVersion, due : Nat]]
  /\ covenant.ver \in 0..MaxVersion /\ covenant.threshold \in Nat
  /\ failed \subseteq tested /\ tested \subseteq TestIds
  /\ late \subseteq ObligationIds
  /\ alert \in [AlertSources -> AlertStatus \cup {"NONE"}]
  /\ trail \in [AlertSources -> Seq(AlertStatus)]

--------------------------------------------------------------------------------
\* generate_obligations: the k-th is due k whole periods after the anchor.
\* Months stand for dates: the clamp to the end of a month keeps the month.
Due(anchor, f, k) == anchor + k * FREQUENCY_MONTHS(f)

FirstFree(o) ==
  obligation[o].ver = 0 /\ \A p \in ObligationIds : p < o => obligation[p].ver # 0

\* The run a request asks for.
Run(v, anchor, f, count) ==
  [k \in 1..count |-> [ver |-> v, due |-> Due(anchor, f, k)]]

\* One transaction writes the whole run.  Nothing keeps a repeated call from
\* writing another one.
CreateObligations(v, anchor, f, count) ==
  \E first \in ObligationIds :
    LET ids == first..(first + count - 1) IN
    /\ FirstFree(first) /\ ids \subseteq ObligationIds
    /\ obligation' = [o \in ObligationIds |->
         IF o \in ids THEN Run(v, anchor, f, count)[o - first + 1]
                      ELSE obligation[o]]
    /\ UNCHANGED <<casework, covenant, failed, tested, late, alert, trail>>

Declared(v, op, t) == [ver |-> v, operator |-> op, threshold |-> t]

CreateCovenant(v, op, t) ==
  /\ covenant = NoCovenant
  /\ covenant' = Declared(v, op, t)
  /\ UNCHANGED <<casework, obligation, failed, tested, late, alert, trail>>

\* _compare, on the cross-multiplied terms.
Holds(lhs, op, rhs) ==
  CASE op = "GTE" -> lhs >= rhs
    [] op = "GT" -> lhs > rhs
    [] op = "LTE" -> lhs <= rhs
    [] op = "LT" -> lhs < rhs
    [] OTHER -> lhs = rhs

\* evaluate_covenant
Passes(num, den) == Holds(num, covenant.operator, covenant.threshold * den)

\* obligation_overdue
Overdue(o, month) == month > obligation[o].due

\* Mutant of Raised: a second event of the same source opens the alert again.
RaisedAgain(s) == [alert EXCEPT ![s] = "OPEN"]

\* An alert of the source that is there already stays as it is.
Raised(s) == [alert EXCEPT ![s] = IF @ = "NONE" THEN "OPEN" ELSE @]

\* The handler finds the obligation at the version it has read, and decides on
\* the alert.
Found(v, o) == obligation[o].ver = v
RaisesOverdue(v, o, month) == Found(v, o) /\ Overdue(o, month)

\* The observation and the alert it raises are one transaction.
RecordObservation(v, o, month) ==
  /\ Found(v, o)
  /\ IF RaisesOverdue(v, o, month)
       THEN late' = late \cup {o} /\ alert' = Raised(<<"due", o>>)
       ELSE UNCHANGED <<late, alert>>
  /\ UNCHANGED <<casework, obligation, covenant, failed, tested, trail>>

\* covenant_breach_detected, for inputs that can be compared.
Testable(v, den) == covenant.ver = v /\ den > 0

\* The same for a test; it names the covenant of the version that was read.
RecordCovenantTest(v, t, num, den) ==
  /\ Testable(v, den)
  /\ t \notin tested
  /\ tested' = tested \cup {t}
  /\ IF Passes(num, den)
       THEN UNCHANGED <<failed, alert>>
       ELSE failed' = failed \cup {t} /\ alert' = Raised(<<"test", t>>)
  /\ UNCHANGED <<casework, obligation, covenant, late, trail>>

AlertVersion(s) ==
  IF s[1] = "due" THEN obligation[s[2]].ver ELSE covenant.ver

\* The handler looks the alert up at the current version.
CheckDisposition(r, s, to) ==
  /\ AlertVersion(s) = caseVersion /\ alert[s] # "NONE"
  /\ to \in ALLOWED_ALERT_TRANSITIONS(alert[s])
  /\ BeginAny(r, "dispose", "MONITORING_REVIEWER", caseVersion,
              [source |-> s, to |-> to])
  /\ UNCHANGED watching

\* The row is locked and the edge is checked again.
StillDisposable(s, to) == to \in ALLOWED_ALERT_TRANSITIONS(alert[s])

DisposeAlert(r) ==
  /\ Doing(r, "dispose")
  /\ LET s == req[r].arg.source
         to == req[r].arg.to IN
     IF StillDisposable(s, to)
       THEN /\ alert' = [alert EXCEPT ![s] = to]
            /\ trail' = [trail EXCEPT ![s] = Append(@, to)]
       ELSE UNCHANGED <<alert, trail>>
  /\ Done(r)
  /\ UNCHANGED <<caseVersion, gate, obligation, covenant, failed, tested, late>>

MonitoringNext ==
  \/ \E v \in VersionRead :
       \/ \E a \in Anchors, f \in ObligationFrequency, n \in 1..MaxCount :
            CreateObligations(v, a, f, n)
       \/ \E op \in Operators, t \in Ratios : CreateCovenant(v, op, t)
       \/ \E o \in ObligationIds, a \in Anchors, d \in 0..(3 * MaxCount + 1) :
            RecordObservation(v, o, a + d)
       \/ \E t \in TestIds, n \in Ratios, d \in 0..2 : RecordCovenantTest(v, t, n, d)
  \/ \E r \in Requests :
       \/ \E s \in AlertSources, to \in AlertStatus : CheckDisposition(r, s, to)
       \/ DisposeAlert(r)
--------------------------------------------------------------------------------
\* Every late obligation and every failed test has its alert, nothing else has
\* one, and where an alert stands is where its dispositions, each along an allowed
\* edge, have led: neither a second event of its source nor a reviewer who lost
\* a race brings a dismissed alert back.
AlertsAccounted ==
  \A s \in AlertSources :
    LET path == <<"OPEN">> \o trail[s] IN
    IF s \in ({"due"} \X late) \cup ({"test"} \X failed)
      THEN /\ alert[s] = path[Len(path)]
           /\ \A n \in 1..Len(trail[s]) :
                path[n + 1] \in ALLOWED_ALERT_TRANSITIONS(path[n])
      ELSE alert[s] = "NONE" /\ trail[s] = << >>
================================================================================
