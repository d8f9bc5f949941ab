-------------------------------- MODULE Retrieval --------------------------------
(****************************************************************************)
(* Graph-guided retrieval of evidence for one version of a case. A run      *)
(* walks the evidence graph from its seeds to the passages it may look at,  *)
(* ranks them by their words and, with a model gateway, by the distance of  *)
(* their embeddings, reads the ranked ones, packs them into a budget and    *)
(* puts query and hits on record. Each of these is a statement of its own:  *)
(* a passage, a document or an edge may go stale between any two of them.   *)
(****************************************************************************)
EXTENDS Naturals, Sequences, FiniteSets, Functions

CONSTANTS
  Passages,   \* indexed passages: document, region, and cost in tokens
  Facts,      \* confirmed facts: document and region
  MaxBudget,  \* bound on the budget of a run
  LegLimit,   \* the number of passages a search returns at most
  MaxStale    \* bound on what goes stale

\* A region is of one document, and its passages and facts are of that document:
\* (page_region_id, case_id, case_version, document_version_id) references page_regions.
ASSUME RetrievalAssumption ==
  /\ IsFiniteSet(Passages) /\ \A p \in Passages : p.cost \in Nat
  /\ \A p \in Passages, f \in Facts : p.region = f.region => p.doc = f.doc
  /\ MaxBudget \in Nat /\ LegLimit \in Nat

VARIABLES
  stale,   \* passages, documents, and facts with stale edges
  run,     \* the run under way
  traced   \* the hits on record of a run that came to its end

retrieval == <<stale, run, traced>>

Sources == {p.doc : p \in Passages} \cup {f.doc : f \in Facts}
NoRun == [at |-> "idle", seeds |-> {}, candidates |-> {}, lexical |-> <<>>, vector |-> <<>>,
          budget |-> 0, hits |-> <<>>, excluded |-> {}]

Passage(p) == <<"PASSAGE", p>>
FactNode(f) == <<"CONFIRMED_FACT", f>>
Source(d) == <<"DOCUMENT_VERSION", d>>
Ageing ==
  {Passage(p) : p \in Passages} \cup {FactNode(f) : f \in Facts} \cup {Source(d) : d \in Sources}

RetrievalInit == stale = {} /\ run = NoRun /\ traced = <<>>

RetrievalTypeOK ==
  /\ stale \subseteq Ageing
  /\ run.at \in {"idle", "traversed", "searched", "ranked", "packed", "answered"}
  /\ run.candidates \subseteq Passages
  /\ run.excluded \subseteq Passages \X {"STALE", "OUT_OF_BUDGET"}
  /\ run.budget \in 0..MaxBudget
  /\ {run.lexical, run.vector, run.hits, traced} \subseteq Seq(Passages)

\* Once stale, always stale.
GoStale(x) ==
  /\ x \notin stale /\ Cardinality(stale) < MaxStale
  /\ stale' = stale \cup {x}
  /\ UNCHANGED <<run, traced>>
--------------------------------------------------------------------------------
\* A fact is linked to its candidate, its region and its document, and nothing is
\* linked further: one hop, the least a request may ask for, reaches everything.
EdgesOf(f) ==
  {<<"CANDIDATE_FACT", f>>, <<"PAGE_REGION", f.region>>, Source(f.doc)}
Reachable(seeds) ==
  seeds \cup UNION {EdgesOf(f) : f \in {g \in Facts : FactNode(g) \in seeds \ stale}}

\* limit max_nodes, in no order: whichever nodes come first.
Visits(seeds, cap) ==
  LET reachable == Reachable(seeds) IN
  {v \in SUBSET reachable :
     Cardinality(v) = IF cap < Cardinality(reachable) THEN cap ELSE Cardinality(reachable)}

\* The passages that visited nodes lead to.
LedTo(visited) ==
  {p \in Passages :
     \/ Source(p.doc) \in visited
     \/ <<"PAGE_REGION", p.region>> \in visited
     \/ \E f \in Facts : FactNode(f) \in visited /\ f.region = p.region}

\* The walk and the reading of the ranked passages ask for the passage only, the
\* searches for its document, too.
StillThere(p) == Passage(p) \notin stale

\* A run that reaches nothing has nothing to search.
Traverse(seeds, cap) ==
  /\ run.at = "idle"
  /\ \E found \in {{p \in LedTo(v) : StillThere(p)} : v \in Visits(seeds, cap)} :
       run' = [run EXCEPT !.at = IF found = {} THEN "packed" ELSE "traversed",
                          !.seeds = seeds, !.candidates = found]
  /\ UNCHANGED <<stale, traced>>
--------------------------------------------------------------------------------
\* The searches look at the candidates that are current, document included.
Searchable == {p \in run.candidates : {Passage(p), Source(p.doc)} \cap stale = {}}
Rankings(s) ==
  UNION {{q \in [1..n -> s] : \A i, j \in 1..n : q[i] = q[j] => i = j} : n \in 0..Cardinality(s)}

\* Which passages have the words of the query, and how often, the query decides.
SearchLexical ==
  /\ run.at = "traversed"
  /\ \E ranking \in Rankings(Searchable) :
       Len(ranking) <= LegLimit /\ run' = [run EXCEPT !.at = "searched", !.lexical = ranking]
  /\ UNCHANGED <<stale, traced>>

\* Which passages have an embedding, and how near it is, is as open; without a gateway
\* there is nothing to measure from, and one that fails ends the run (Abandon).
SearchVector ==
  /\ run.at = "searched"
  /\ \E ranking \in Rankings(Searchable) :
       /\ Len(ranking) <= LegLimit
       /\ run' = [run EXCEPT !.vector = ranking,
                    !.at = IF run.lexical = <<>> /\ ranking = <<>> THEN "packed" ELSE "ranked"]
  /\ UNCHANGED <<stale, traced>>

Among(ranking) == {ranking[i] : i \in DOMAIN ranking}
Never == 2 * Cardinality(Passages) + 1
Position(ranking, p) ==
  IF p \in Among(ranking) THEN CHOOSE i \in DOMAIN ranking : ranking[i] = p ELSE Never

\* Both searches together: by the better of two ranks, then by who was seen first.
Before(p, q) ==
  LET best(x) ==
        IF Position(run.lexical, x) < Position(run.vector, x)
        THEN Position(run.lexical, x) ELSE Position(run.vector, x)
      seen(x) ==
        IF x \in Among(run.lexical) THEN Position(run.lexical, x)
        ELSE Len(run.lexical) + Position(run.vector, x) IN
  best(p) < best(q) \/ (best(p) = best(q) /\ seen(p) < seen(q))

\* Some of the passages in that order.
InOrder(S) ==
  CHOOSE s \in Rankings(S) :
    Len(s) = Cardinality(S) /\ \A i, j \in DOMAIN s : i < j => Before(s[i], s[j])

MergedRanking == InOrder(Among(run.lexical) \cup Among(run.vector))

\* The tokens of the first k passages of a ranking.
Tokens(s, k) == SumFunctionOnSet([i \in 1..k |-> s[i].cost], 1..k)

\* Mutant of Packed: what does not fit is left out and the rest is still tried.
PackedRest(s, budget) ==
  LET spent[i \in 0..Len(s)] ==
        IF i = 0 THEN 0
        ELSE IF spent[i - 1] + s[i].cost <= budget THEN spent[i - 1] + s[i].cost
        ELSE spent[i - 1]
      fits(p) == LET i == Position(s, p) IN spent[i] # spent[i - 1] IN
  SelectSeq(s, fits)

\* The longest beginning of a ranking that fits the budget.
Packed(s, budget) ==
  SubSeq(s, 1, CHOOSE k \in 0..Len(s) :
                 Tokens(s, k) <= budget /\ (k = Len(s) \/ Tokens(s, k + 1) > budget))

\* What is stale by now is excluded, and so is what the budget does not pay for.
Hydrate(budget) ==
  /\ run.at = "ranked"
  /\ LET merged == Among(MergedRanking)
         surviving == InOrder({p \in merged : StillThere(p)})
         hits == Packed(surviving, budget) IN
     run' = [run EXCEPT !.at = "packed", !.budget = budget, !.hits = hits,
               !.excluded = {<<p, "STALE">> : p \in {q \in merged : ~StillThere(q)}}
                 \cup {<<p, "OUT_OF_BUDGET">> : p \in Among(surviving) \ Among(hits)}]
  /\ UNCHANGED <<stale, traced>>

\* Query and hits in one transaction; then the answer.
RecordHits ==
  /\ run.at = "packed"
  /\ traced' = run.hits
  /\ run' = [run EXCEPT !.at = "answered"]
  /\ UNCHANGED stale

\* A statement or the gateway fails, or the process dies: nothing was recorded.
Abandon == run.at \notin {"idle", "answered"} /\ run' = NoRun /\ UNCHANGED <<stale, traced>>

\* The other kinds of seeds, gaps and conflicts, have no edges.
Seeds ==
  {FactNode(f) : f \in Facts} \cup {Source(d) : d \in Sources}

RetrievalNext ==
  \/ \E x \in Ageing : GoStale(x)
  \/ \E seeds \in SUBSET Seeds, cap \in {1, Cardinality(Seeds)} : Traverse(seeds, cap)
  \/ SearchLexical \/ SearchVector
  \/ \E budget \in 1..MaxBudget : Hydrate(budget)
  \/ RecordHits \/ Abandon

\* Whatever goes stale meanwhile: an answer has only passages that a seed leads to;
\* of two searches neither starves the other; each ranked passage is a hit or is
\* excluded for the reason that holds, none twice; the hits are what is on record.
AnswerAccounted ==
  run.at = "answered" =>
    LET merged == MergedRanking
        top(k) == {p \in Among(merged) : Position(run.lexical, p) <= k \/ Position(run.vector, p) <= k}
        out == {x \in run.excluded : x[2] = "OUT_OF_BUDGET"} IN
    /\ \A p \in Among(run.hits) :
         \/ Source(p.doc) \in run.seeds
         \/ \E f \in Facts : FactNode(f) \in run.seeds /\ p.doc = f.doc
    /\ \A k \in 1..LegLimit :
         \A p \in top(k) : \A q \in Among(merged) \ top(k) : Position(merged, p) < Position(merged, q)
    /\ Among(run.hits) \cup {x[1] : x \in run.excluded} = Among(merged)
    /\ Len(run.hits) + Cardinality(run.excluded) = Len(merged)
    /\ \A x \in run.excluded : x[2] = "STALE" => Passage(x[1]) \in stale
    /\ Tokens(run.hits, Len(run.hits)) <= run.budget
    /\ \A x \in out, p \in Among(run.hits) : Position(merged, p) < Position(merged, x[1])
    /\ out # {} => \E x \in out : Tokens(run.hits, Len(run.hits)) + x[1].cost > run.budget
    /\ traced = run.hits
================================================================================
