------------------------------ MODULE Repayments ------------------------------
(****************************************************************************)
(* The repayment ledger (api/repayments.py): a facility, the payments and   *)
(* reversals delivered for it, each under an external reference, and the    *)
(* ledger that every read computes from them again (domain/repayments.py).  *)
(*                                                                          *)
(* A facility and its events are written once, so a handler's reads of them *)
(* stay true until it writes, and both are one action.                      *)
(****************************************************************************)
EXTENDS CreditDecision, Integers, FiniteSetsExt, Sequences

CONSTANTS
  References,  \* external references of the events
  Amounts,     \* amounts of the events, in the smallest unit of money
  Schedule     \* fee, interest and principal of each installment, oldest first

ASSUME RepaymentsAssumption ==
  /\ Amounts \subseteq Nat \ {0}
  /\ Schedule \in Seq([fee : Nat, interest : Nat, principal : Nat])

VARIABLES
  facility,  \* case version of the facility, 0 before it is opened
  event      \* the repayment event of each reference, or NoEvent

repayments == <<facility, event>>

NoEvent == [kind |-> "NONE", amount |-> 0, of |-> Nobody]

RepaymentsInit ==
  /\ facility = 0
  /\ event = [x \in References |-> NoEvent]

RepaymentsTypeOK ==
  /\ facility \in 0..MaxVersion
  /\ event \in [References ->
       [kind : {"NONE", "PAYMENT", "REVERSAL"}, amount : Amounts \cup {0},
        of : References \cup {Nobody}]]

\* The decision is read before the facility is written; it does not change.
MayOpen(v) == Permits(v)

CreateFacility(v) ==
  /\ facility = 0
  /\ MayOpen(v)
  /\ facility' = v
  /\ UNCHANGED <<casework, decided, event>>

Payments == {x \in References : event[x].kind = "PAYMENT"}
Reversals == {x \in References : event[x].kind = "REVERSAL"}
ReversalsOf(x) == {y \in Reversals : event[y].of = x}

\* What the handler asks of an event: a reversal names a payment that is there.
\* It does not ask how much of the payment is left.
Acceptable(kind, of) ==
  IF kind = "REVERSAL" THEN of \in Payments ELSE of = Nobody

\* Mutant of Recorded: a second delivery replaces the first.
RecordedAgain(x, e) == [event EXCEPT ![x] = e]

\* A reference is recorded once, whatever a later delivery says.
Recorded(x, e) == [event EXCEPT ![x] = IF @ = NoEvent THEN e ELSE @]

\* The facility is looked up at the version that was read.
FacilityFound == facility \in VersionRead

RecordEvent(x, kind, amount, of) ==
  /\ FacilityFound
  /\ Acceptable(kind, of)
  /\ event' = Recorded(x, [kind |-> kind, amount |-> amount, of |-> of])
  /\ UNCHANGED <<casework, decided, facility>>

RepaymentsNext ==
  \/ \E v \in VersionRead : CreateFacility(v)
  \/ \E x \in References, kind \in {"PAYMENT", "REVERSAL"}, amount \in Amounts,
        of \in References \cup {Nobody} : RecordEvent(x, kind, amount, of)
-------------------------------------------------------------------------------
\* order_events raises for a history where reversals exceed their payment.
AmountOf == [x \in References |-> event[x].amount]
Foldable ==
  \A x \in Payments : SumFunctionOnSet(AmountOf, ReversalsOf(x)) <= AmountOf[x]

NetPaid ==
  SumFunctionOnSet(AmountOf, Payments) - SumFunctionOnSet(AmountOf, Reversals)

\* The buckets of the schedule in ALLOCATION_ORDER: fee, interest and principal of
\* the first installment, then those of the second, and so on.
Buckets == 1..(3 * Len(Schedule))
Demand(n) ==
  LET i == Schedule[(n + 2) \div 3] IN
  CASE n % 3 = 1 -> i.fee [] n % 3 = 2 -> i.interest [] OTHER -> i.principal
Demands == [n \in Buckets |-> Demand(n)]

Take(remaining, demand) ==
  IF remaining <= 0 \/ demand <= 0 THEN 0
  ELSE IF remaining < demand THEN remaining ELSE demand

\* apply_events: what remains of the money after each bucket.
Remaining ==
  LET left[n \in 0..(3 * Len(Schedule))] ==
        IF n = 0 THEN NetPaid
        ELSE LET before == left[n - 1] IN before - Take(before, Demand(n))
  IN left

\* The snapshot: what each bucket got, and what no bucket absorbed.
Snapshot ==
  LET left == Remaining
      rest == left[3 * Len(Schedule)] IN
  [allocated |-> [n \in Buckets |-> left[n - 1] - left[n]],
   overpayment |-> IF rest > 0 THEN rest ELSE 0]

BucketsOf(i) == (3 * i - 2)..(3 * i)
InstallmentPaid(s, i) == \A n \in BucketsOf(i) : s.allocated[n] = Demand(n)
InstallmentTouched(s, i) == \E n \in BucketsOf(i) : s.allocated[n] > 0

\* _derive_exceptions, on the date the asOf-th installment is due.
Exceptions(s, asOf) ==
  {<<IF InstallmentTouched(s, i) THEN "UNDERPAID_PERIOD" ELSE "OVERDUE_INSTALLMENT", i>> :
     i \in {j \in 1..asOf : ~InstallmentPaid(s, j)}}
  \cup {<<"UNMATCHED_PAYMENT", 0>> : n \in 1..s.overpayment}
-------------------------------------------------------------------------------
\* While the ledger can be read, it accounts for every unit that was paid and not
\* taken back, whatever was delivered twice or reversed: no bucket gets more than
\* it demands, no bucket gets anything before the older ones are full, and only
\* what the whole schedule does not absorb is an overpayment.  In the end there is
\* no exception exactly when everything and nothing more is paid.
LedgerAddsUp ==
  LET s == Snapshot IN
  Foldable =>
    /\ NetPaid >= 0
    /\ SumFunctionOnSet(s.allocated, Buckets) + s.overpayment = NetPaid
    /\ \A n \in Buckets :
         /\ s.allocated[n] \in 0..Demand(n)
         /\ s.allocated[n] > 0 =>
              \A k \in 1..(n - 1) : s.allocated[k] = Demand(k)
    /\ s.overpayment > 0 => \A i \in DOMAIN Schedule : InstallmentPaid(s, i)
    /\ Exceptions(s, Len(Schedule)) = {}
         <=> NetPaid = SumFunctionOnSet(Demands, Buckets)

\* The ledger can always be computed from the recorded history.  It cannot: two
\* reversals of one payment, or one that is larger, are both recorded.
LedgerReadable == Foldable
===============================================================================
