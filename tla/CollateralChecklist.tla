-------------------------- MODULE CollateralChecklist --------------------------
(****************************************************************************)
(* The checklist of the collateral documents that the legal assessment      *)
(* starts from (application/legal/evidence.py): what the confirmed facts    *)
(* say of each required document on the day of the analysis, and the gaps.  *)
(* Facts get confirmed while the days go by; a confirmed fact stays.        *)
(****************************************************************************)
EXTENDS Naturals

CONSTANTS
  LastDay,     \* bound on the days
  StatusFacts  \* what a status fact may say

ASSUME DaysAssumption == LastDay \in Nat \ {0}

\* Nothing confirmed, of a status and of a date.
Unconfirmed == "-"
Undated == 0

\* An expiry check or none, and the level of the gap when the document is missing
\* or has expired.
COLLATERAL_CHECKLIST ==
  [giay_chung_nhan_qsdd |->
     [expires |-> TRUE, missing |-> "BLOCKING", expired |-> "BLOCKING"],
   hop_dong_the_chap |->
     [expires |-> FALSE, missing |-> "BLOCKING", expired |-> "CONDITIONAL"],
   bien_ban_dinh_gia |->
     [expires |-> TRUE, missing |-> "CONDITIONAL", expired |-> "CONDITIONAL"]]

Required == DOMAIN COLLATERAL_CHECKLIST
Days == 1..LastDay

\* What an expiry fact may say: a day, or something that is no date.
NoDate == LastDay + 1
ExpiryFacts == Days \cup {NoDate}

\* collateral: the facts about each document, its status and its expiry; the day.
VARIABLE collateral

Blank == [status |-> [d \in Required |-> Unconfirmed],
          expiry |-> [d \in Required |-> Undated], today |-> 1]

ChecklistInit == collateral = Blank

ChecklistTypeOK ==
  /\ \A d \in Required :
       /\ collateral.status[d] \in StatusFacts \cup {Unconfirmed}
       /\ collateral.expiry[d] = Undated \/ collateral.expiry[d] \in ExpiryFacts
  /\ collateral.today \in Days

ConfirmStatus(d, s) ==
  /\ collateral.status[d] = Unconfirmed
  /\ collateral' = [collateral EXCEPT !.status[d] = s]

\* Of a document that cannot expire the date is not looked at.
ConfirmExpiry(d, x) ==
  /\ COLLATERAL_CHECKLIST[d].expires
  /\ collateral.expiry[d] = Undated
  /\ collateral' = [collateral EXCEPT !.expiry[d] = x]

NextDay ==
  /\ collateral.today < LastDay
  /\ collateral' = [collateral EXCEPT !.today = @ + 1]

ChecklistNext ==
  \/ \E d \in Required :
       \/ \E s \in StatusFacts : ConfirmStatus(d, s)
       \/ \E x \in ExpiryFacts : ConfirmExpiry(d, x)
  \/ NextDay
--------------------------------------------------------------------------------
\* Mutant of Past: a document no longer holds on its last day.
PastOnTheDay(x, day) == x <= day

\* A date before the day of the analysis.
Past(x, day) == x < day

Dated(x) == x \in Days

\* The items of the checklist: no fact, or no status the checklist knows, no item.
Item(c, d) ==
  LET s == c.status[d]
      x == c.expiry[d]
  IN CASE s = "MISSING" -> {"MISSING"}
       [] s = "PRESENT" ->
            IF COLLATERAL_CHECKLIST[d].expires /\ Dated(x) /\ Past(x, c.today)
              THEN {"EXPIRED"} ELSE {"PRESENT"}
       [] OTHER -> {}

\* The level of the gap about a document, if there is one.
GapLevel(c, d) ==
  LET s == c.status[d]
      x == c.expiry[d]
      rule == COLLATERAL_CHECKLIST[d]
  IN IF s \in {Unconfirmed, "MISSING"} THEN {rule.missing}
     ELSE IF s # "PRESENT" THEN {"CLARIFICATION"}
     ELSE IF Item(c, d) = {"EXPIRED"} THEN {rule.expired}
     ELSE IF rule.expires /\ ~Dated(x) THEN {"CLARIFICATION"}
     ELSE {}
--------------------------------------------------------------------------------
\* "Never guesses": a document counts as settled, with no gap about it, exactly
\* if a fact says that it is present and, where it can expire, another one gives
\* a date that has not passed, as today has not; one that the facts say nothing
\* of is as much of a gap as a missing one.
ChecklistSound ==
  \A d \in Required :
    LET s == collateral.status[d]
        x == collateral.expiry[d]
    IN
    /\ GapLevel(collateral, d) = {} <=>
         /\ s = "PRESENT"
         /\ COLLATERAL_CHECKLIST[d].expires => x \in collateral.today..LastDay
    /\ Item(collateral, d) = {} => s \notin {"PRESENT", "MISSING"}
    /\ s = Unconfirmed =>
         GapLevel(collateral, d) = GapLevel([collateral EXCEPT !.status[d] = "MISSING"], d)
================================================================================
