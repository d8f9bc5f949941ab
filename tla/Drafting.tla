-------------------------------- MODULE Drafting --------------------------------
(****************************************************************************)
(* What the specialists of a case version write, and what of it is kept.    *)
(* Each of them asks a model for an answer, which is checked against the    *)
(* closed schema it was given and by the builder of the assessment: an      *)
(* answer is kept as a whole, with what is computed beside it, or rejected  *)
(* as a whole and asked for again. Who asks, when, under which lease, and   *)
(* the gaps that a model adds to the computed ones, are of Specialists.     *)
(*                                                                          *)
(* An assessment is a set of items. An item is in a section, cites, may be  *)
(* of low confidence, and may be about something: a risk and its mitigant   *)
(* about a risk id, a challenge about an item of another assessment.        *)
(****************************************************************************)
EXTENDS Naturals, FiniteSets

CONSTANTS
  Needed,     \* facts the calculations need, each the input of one of them
  Clauses,    \* clauses of the policy corpus
  Checks,     \* controlled checks
  RiskIds,    \* identifiers a model gives to risks
  MaxItems    \* bound on the optional items of all assessments

VARIABLES
  offered,  \* the facts confirmed, the clauses found, the checks that were run
  kept,     \* the assessment of each author
  package   \* the document requests and the actions of the operations package

drafting == <<offered, kept, package>>

Nothing == "-"

Fact(f) == <<"CONFIRMED_FACT", f>>
Result(f) == <<"CALCULATOR_RESULT", f>>
Clause(c) == <<"POLICY_CITATION", c>>
Check(c) == <<"CONTROLLED_CHECK", c>>

\* Something no author was ever shown.
Ghost == Fact("ghost")

Entry(at, cites, low, about) == [at |-> at, cites |-> cites, low |-> low, about |-> about]

\* The sections that an answer has to fill.
Sections ==
  [UNDERWRITING |-> {"analysis", "repayment", "structure"},
   LEGAL |-> {"entity", "ownership", "collateral"},
   RISK |-> {},
   OPERATIONS |-> {"statements"}]

NoAssessment == [items |-> {}, gaps |-> {}, amount |-> Nothing]
NoPackage == [requests |-> {}, actions |-> {}]
Written(a) == kept[a] # NoAssessment

DraftingInit ==
  /\ offered = [facts |-> {}, hits |-> {}, checks |-> {}]
  /\ kept = [a \in DOMAIN Sections |-> NoAssessment]
  /\ package = NoPackage

DraftingTypeOK ==
  /\ offered.facts \subseteq Needed /\ offered.hits \subseteq Clauses
  /\ offered.checks \subseteq Checks
  /\ DOMAIN kept = DOMAIN Sections

\* A fact the views of the specialists have from now on.
ConfirmFact(f) ==
  /\ f \notin offered.facts
  /\ offered' = [offered EXCEPT !.facts = @ \cup {f}]
  /\ UNCHANGED <<kept, package>>

\* The legal review retrieves clauses and runs its checks before it asks.
Retrieve(hits, checks) ==
  /\ ~Written("LEGAL") /\ offered.hits = {} /\ offered.checks = {}
  /\ offered' = [offered EXCEPT !.hits = hits, !.checks = checks]
  /\ UNCHANGED <<kept, package>>
--------------------------------------------------------------------------------
\* A path of an assessment: an item of it, or a gap it declares.
PathsOf(a) ==
  {<<a, i>> : i \in kept[a].items}
    \cup {<<a, Entry("evidence_gaps", {}, FALSE, g)>> : g \in kept[a].gaps}

\* The target paths an author is given.
ReviewUniverse == PathsOf("UNDERWRITING") \cup PathsOf("LEGAL")
MemoUniverse == ReviewUniverse \cup PathsOf("RISK")
Universe(a) ==
  CASE a = "RISK" -> ReviewUniverse [] a = "OPERATIONS" -> MemoUniverse [] OTHER -> {}

\* What an author may cite.  The suite names every result, computable or not; the
\* underwriting alone has results, the legal review alone has clauses and checks,
\* the risk review reads both of them, and the memo cites their findings.
Figures == {Fact(f) : f \in offered.facts} \cup {Result(f) : f \in Needed}
Law == {Clause(c) : c \in offered.hits} \cup {Check(c) : c \in offered.checks}
Citable(a) ==
  CASE a = "UNDERWRITING" -> Figures
    [] a = "LEGAL" -> {Fact(f) : f \in offered.facts} \cup Law
    [] a = "RISK" -> Figures \cup Law \cup ReviewUniverse
    [] OTHER -> MemoUniverse

In(items, section) == {i \in items : i.at = section}

\* Assumptions and recommendations may do without a citation,
WellCited(a, i) ==
  /\ i.cites \subseteq Citable(a)
  /\ i.at \notin {"assumptions", "recommendations"} => i.cites # {}

\* a policy finding cites clauses, and the interpretation of a check that check,
LawGrounded(i) ==
  /\ i.at = "policy" => i.cites \subseteq {Clause(c) : c \in Clauses}
  /\ i.at = "interpretations" => i.cites \subseteq {Check(c) : c \in Checks}

\* a mitigant is for a risk of the answer, and no two risks of it have the same id,
MitigantsBind(items) ==
  /\ \A i \in In(items, "mitigants") : \E r \in In(items, "risks") : r.about = i.about
  /\ \A r, q \in In(items, "risks") : r.about = q.about => r = q

\* and a challenge is about a path that was given.
TargetsGiven(a, items) == \A i \in In(items, "challenges") : i.about \in Universe(a)

\* The amount is one of the suite's that could be computed, and the structure cites
\* a result (which of them, nobody asks).
AmountHolds(amount, items) ==
  amount # Nothing =>
    /\ amount \in offered.facts
    /\ \E i \in In(items, "structure") : \E f \in Needed : Result(f) \in i.cites

\* The schema of the gateway and the builder together.
Acceptable(a, items, amount) ==
  /\ \A s \in Sections[a] : In(items, s) # {}
  /\ \A i \in items : WellCited(a, i) /\ LawGrounded(i)
  /\ MitigantsBind(items) /\ TargetsGiven(a, items)
  /\ AmountHolds(amount, items)
--------------------------------------------------------------------------------
\* The findings of the makers that the review looks at by itself: what is of low
\* confidence in some of their sections,
MakerItems == UNION {{<<a, i>> : i \in kept[a].items} : a \in {"UNDERWRITING", "LEGAL"}}
LowConfidence ==
  {x \in MakerItems :
     x[2].low /\ x[2].at \in {"analysis", "risks", "mitigants", "entity", "exceptions"}}

\* what cites a fact that is not there any more,
Ungrounded ==
  {x \in MakerItems :
     x[2].at # "assumptions"
       /\ \E c \in x[2].cites : c[1] = "CONFIRMED_FACT" /\ c[2] \notin offered.facts}

\* and the assumptions with a basis that no risk and no mitigant shares.
Unaddressed ==
  LET items == kept["UNDERWRITING"].items
      answered == UNION {i.cites : i \in In(items, "risks") \cup In(items, "mitigants")} IN
  {<<"UNDERWRITING", i>> :
     i \in {j \in In(items, "assumptions") : j.cites # {} /\ j.cites \cap answered = {}}}

\* Each is challenged, and what the model answers is only added.
AddedBeside(a) ==
  IF a # "RISK" THEN {}
  ELSE {Entry("challenges", {x}, FALSE, x) : x \in LowConfidence \cup Ungrounded \cup Unaddressed}

\* Mutant of KeptItems: the challenges of the model take the place of the computed ones.
KeptItemsOrModel(a, items) == IF In(items, "challenges") # {} THEN items ELSE items \cup AddedBeside(a)

KeptItems(a, items) == items \cup AddedBeside(a)

\* A result that could not be computed is a gap of the underwriting; a check that
\* could not be run, and a corpus without a clause on the case, one of the law.
ComputedGaps(a) ==
  CASE a = "UNDERWRITING" -> Needed \ offered.facts
    [] a = "LEGAL" -> (Checks \ offered.checks) \cup (IF offered.hits = {} THEN {"corpus"} ELSE {})
    [] OTHER -> {}

OpenGaps == UNION {{<<a, g>> : g \in kept[a].gaps} : a \in DOMAIN kept}

\* One request to the customer for each open gap, one action for each request,
\* the entry into the LOS once every artifact is there, and the handoff.
Assembled(intake) ==
  [requests |-> OpenGaps,
   actions |-> {<<"PREPARE_DOCUMENT_REQUEST", g>> : g \in OpenGaps}
                 \cup {<<"PREPARE_HANDOFF_PACKAGE">>}
                 \cup (IF intake THEN {<<"SCHEDULE_MOCK_LOS_ENTRY">>} ELSE {})]

\* An action for a request is for one of the package.
PackageHolds(p) == \A x \in p.actions : x[1] = "PREPARE_DOCUMENT_REQUEST" => x[2] \in p.requests
--------------------------------------------------------------------------------
\* Who reads an assessment waits for it; the makers do not wait for each other.
Turn(a) ==
  /\ ~Written(a)
  /\ a \in {"RISK", "OPERATIONS"} => Written("UNDERWRITING") /\ Written("LEGAL")
  /\ a = "OPERATIONS" => Written("RISK")

\* An answer that is not acceptable changes nothing: it is asked for again.
Keep(a, items, amount) ==
  /\ Acceptable(a, items, amount)
  /\ kept' = [kept EXCEPT ![a] =
       [items |-> KeptItems(a, items), gaps |-> ComputedGaps(a), amount |-> amount]]
  /\ IF a = "OPERATIONS"
     THEN \E intake \in BOOLEAN :
            PackageHolds(Assembled(intake)) /\ package' = Assembled(intake)
     ELSE UNCHANGED package
  /\ UNCHANGED offered
--------------------------------------------------------------------------------
\* The answers of a model.  Each section that has to be filled cites the same
\* thing; for the memo that is an item of any of the assessments.
Bases(a) ==
  {Ghost} \cup
    IF a # "OPERATIONS" THEN Citable(a)
    ELSE {CHOOSE p \in PathsOf(b) : TRUE : b \in {x \in DOMAIN kept : PathsOf(x) # {}}}

Plain(a, c) == {Entry(s, {c}, FALSE, Nothing) : s \in Sections[a]}

\* What is optional is in some section, and cites one thing or none.
Optional(a) ==
  LET some == {{}} \cup {{c} : c \in Bases(a)} IN
  CASE a = "UNDERWRITING" ->
         {Entry("analysis", c, TRUE, Nothing) : c \in some}
           \cup {Entry("assumptions", c, FALSE, Nothing) : c \in some}
           \cup {Entry(s, c, low, x) : s \in {"risks", "mitigants"}, c \in some,
                                      low \in BOOLEAN, x \in RiskIds}
    [] a = "LEGAL" ->
         {Entry(s, c, s = "exceptions", Nothing) :
            s \in {"policy", "interpretations", "exceptions"}, c \in some}
    [] a = "RISK" ->
         {Entry("challenges", {x}, FALSE, x) : x \in Universe(a) \cup {Ghost}}
           \cup {Entry("recommendations", c, FALSE, Nothing) : c \in some}
    [] OTHER -> {}

Room ==
  MaxItems - Cardinality({x \in MakerItems : x[2].low \/ x[2].at \notin Sections[x[1]]})

\* At most two of them.
Extras(a) ==
  {{}} \cup {e \in {{x, y} : x, y \in Optional(a)} : Cardinality(e) <= Room}

Write(a) ==
  /\ Turn(a)
  /\ \E extras \in Extras(a), c \in Bases(a),
        amount \in {Nothing} \cup IF a = "UNDERWRITING" THEN Needed ELSE {} :
       Keep(a, Plain(a, c) \cup extras, amount)

DraftingNext ==
  \/ \E f \in Needed : ConfirmFact(f)
  \/ \E hits \in SUBSET Clauses, checks \in SUBSET Checks : Retrieve(hits, checks)
  \/ \E a \in DOMAIN Sections : Write(a)

\* Whatever is kept can be traced: what is cited was there, a challenge is about
\* something that was written, and the amount was computed.  What the review looks
\* at by itself is challenged whatever the model answers, nothing it reads cites a
\* fact that is not there, and no gap is left without a request and an action.
Traceable ==
  LET reviewed == {i.about : i \in In(kept["RISK"].items, "challenges")} IN
  /\ \A a \in DOMAIN kept : \A i \in kept[a].items : \A c \in i.cites :
       \/ c \in Figures \cup Law
       \/ \E b \in DOMAIN kept : b # a /\ c \in PathsOf(b)
  /\ reviewed \subseteq MakerItems \cup ReviewUniverse
  /\ kept["UNDERWRITING"].amount # Nothing => kept["UNDERWRITING"].amount \in offered.facts
  /\ Ungrounded = {}
  /\ Written("RISK") => LowConfidence \cup Unaddressed \subseteq reviewed
  /\ Written("OPERATIONS") =>
       \A g \in OpenGaps :
         g \in package.requests /\ <<"PREPARE_DOCUMENT_REQUEST", g>> \in package.actions
================================================================================
