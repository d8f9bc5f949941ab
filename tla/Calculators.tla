------------------------------ MODULE Calculators ------------------------------
(****************************************************************************)
(* The deterministic figures of an underwriting                             *)
(* (application/underwriting/calculators.py, evidence.py): what is computed *)
(* from the confirmed figures of a case, what is not computable, and the    *)
(* gaps that are raised for it. A figure is <<>> while no confirmed fact    *)
(* states it, and <<x>> once one does; a result is <<>> or <<x>> likewise.  *)
(* Results count quanta, the unit they are rounded to.                      *)
(****************************************************************************)
EXTENDS Integers, Sequences, Functions

CONSTANTS
  Quanta,      \* quanta in one: 10^6 for _QUANT
  Confirmable, \* the figures that may get confirmed
  Amounts,     \* their values
  Principals, Rates, Terms, \* what a debt-service schedule is asked for
  DriverAmounts,            \* what a financing plan is projected from
  Downsides    \* its scenario specs, the changes in tenths and in days

\* A driver is refused if it is negative, and a scenario makes nothing better.
ASSUME ScenariosAssumption ==
  /\ Quanta \in Nat \ {0} /\ DriverAmounts \subseteq Nat
  /\ Downsides \subseteq [revenue_down : 0..10, cost_up : Nat, receivable_days_up : Nat]

\* _reject_negative and _validate_term
ASSUME TermsAssumption ==
  Principals \subseteq Nat /\ Rates \subseteq Nat /\ Terms \subseteq Nat \ {0}

VARIABLES
  figures,     \* the confirmed figures of the evidence view
  terms,       \* the financing a schedule is computed for
  plan         \* the drivers of a working-capital need and its funding

sheet == <<figures, terms, plan>>

CANONICAL_FIELD_KEYS ==
  {"current_assets", "current_liabilities", "inventory", "total_debt",
   "total_equity", "total_assets", "revenue", "gross_profit", "operating_profit",
   "net_profit", "accounts_receivable", "accounts_payable", "cost_of_goods_sold",
   "own_working_capital", "other_funding_sources"}
PRIOR_PERIOD_FIELD_KEYS == {"prior_revenue", "prior_net_profit"}
FieldKeys == CANONICAL_FIELD_KEYS \cup PRIOR_PERIOD_FIELD_KEYS

Known(x) == x # <<>>
AllKnown(S) == \A x \in S : Known(x)

Abs(n) == IF n < 0 THEN -n ELSE n

\* ROUND_HALF_UP of n / d, for d > 0: away from zero at the half.
HalfUp(n, d) ==
  LET q == (2 * Abs(n) + d) \div (2 * d) IN IF n < 0 THEN -q ELSE q

\* Not computable without both inputs, nor by a division by zero.
Ratio(n, d, scale) ==
  IF ~AllKnown({n, d}) \/ d[1] = 0 THEN <<>>
  ELSE <<HalfUp(n[1] * scale * Quanta, d[1])>>

\* _difference_input
Less(l, r) == IF AllKnown({l, r}) THEN <<l[1] - r[1]>> ELSE <<>>

DAYS_PER_YEAR == 365

\* cash_conversion_cycle, of three results
CashConversionCycle(receivable, inventory, payable) ==
  IF AllKnown({receivable, inventory, payable})
    THEN <<receivable[1] + inventory[1] - payable[1]>>
    ELSE <<>>

\* working_capital_need: outlay x cycle / 365
WorkingCapitalNeed(outlay, cycle) ==
  IF AllKnown({outlay, cycle})
    THEN <<HalfUp(outlay[1] * cycle[1], DAYS_PER_YEAR)>>
    ELSE <<>>

WorkingCapitalGap(need, own, other) ==
  IF AllKnown({need, own, other})
    THEN <<need[1] - (own[1] + other[1]) * Quanta>>
    ELSE <<>>

\* One step of trend_analysis: the change, and the growth over the prior period.
Delta(prior, current) ==
  IF AllKnown({prior, current}) THEN <<(current[1] - prior[1]) * Quanta>> ELSE <<>>
GrowthRate(prior, current) ==
  IF ~AllKnown({prior, current}) \/ prior[1] = 0 THEN <<>>
  ELSE <<HalfUp((current[1] - prior[1]) * Quanta, Abs(prior[1]))>>

\* The one scenario of the suite: revenue falls by a fifth.
RevenueDown(revenue) ==
  IF Known(revenue) THEN <<HalfUp(revenue[1] * Quanta * 4, 5)>> ELSE <<>>

\* build_calculator_suite
Suite(f) ==
  LET receivable == Ratio(f.accounts_receivable, f.revenue, DAYS_PER_YEAR)
      inventory == Ratio(f.inventory, f.cost_of_goods_sold, DAYS_PER_YEAR)
      payable == Ratio(f.accounts_payable, f.cost_of_goods_sold, DAYS_PER_YEAR)
      cycle == CashConversionCycle(receivable, inventory, payable)
      need == WorkingCapitalNeed(f.cost_of_goods_sold, cycle) IN
  [current_ratio |-> Ratio(f.current_assets, f.current_liabilities, 1),
   quick_ratio |-> Ratio(Less(f.current_assets, f.inventory), f.current_liabilities, 1),
   debt_to_equity |-> Ratio(f.total_debt, f.total_equity, 1),
   debt_to_assets |-> Ratio(f.total_debt, f.total_assets, 1),
   gross_margin |-> Ratio(f.gross_profit, f.revenue, 1),
   operating_margin |-> Ratio(f.operating_profit, f.revenue, 1),
   net_margin |-> Ratio(f.net_profit, f.revenue, 1),
   return_on_assets |-> Ratio(f.net_profit, f.total_assets, 1),
   return_on_equity |-> Ratio(f.net_profit, f.total_equity, 1),
   asset_turnover |-> Ratio(f.revenue, f.total_assets, 1),
   receivable_days |-> receivable, inventory_days |-> inventory, payable_days |-> payable,
   cash_conversion_cycle |-> cycle,
   working_capital_need |-> need,
   working_capital_gap |->
     WorkingCapitalGap(need, f.own_working_capital, f.other_funding_sources),
   revenue_trend |-> Delta(f.prior_revenue, f.revenue),
   revenue_growth |-> GrowthRate(f.prior_revenue, f.revenue),
   net_profit_trend |-> Delta(f.prior_net_profit, f.net_profit),
   net_profit_growth |-> GrowthRate(f.prior_net_profit, f.net_profit),
   revenue_down |-> RevenueDown(f.revenue)]

\* The MissingEvidence items, each of which becomes a gap of the assessment.
MissingEvidence(f) == {k \in FieldKeys : ~Known(f[k])}

\* Mutant of PrincipalPaid: the last row pays an instalment like the others.
PrincipalPaidLevel(style, opening, instalment, last) ==
  IF style = "BALLOON" THEN (IF last THEN opening ELSE 0) ELSE instalment

\* A row of the schedule; the last one takes what is left.
PrincipalPaid(style, opening, instalment, last) ==
  IF last THEN opening ELSE IF style = "BALLOON" THEN 0 ELSE instalment

\* debt_service_schedule: the balance after each of its rows, amounts in the
\* money quantum, the rate in percent a year.
Balances(principal, term, style) ==
  LET instalment == HalfUp(principal, term)
      b[n \in 0..term] ==
        IF n = 0 THEN principal
        ELSE b[n - 1] - PrincipalPaid(style, b[n - 1], instalment, n = term) IN b

Interest(opening, rate) == HalfUp(opening * rate, 1200)

\* What each row pays of the principal, and its interest.
Paid(b, term) == [n \in 1..term |-> b[n - 1] - b[n]]
InterestDue(b, rate, term) == [n \in 1..term |-> Interest(b[n - 1], rate)]

\* outcome: the whole debt service
DebtService(principal, rate, term, style) ==
  LET b == Balances(principal, term, style) IN
  SumFunctionOnSet(Paid(b, term), 1..term)
    + SumFunctionOnSet(InterestDue(b, rate, term), 1..term)

\* repayment_capacity, one period: nothing is said of a period without a service.
Coverage(cashflow, service) ==
  IF ~AllKnown({cashflow, service}) \/ service[1] = 0 THEN <<>>
  ELSE <<HalfUp(cashflow[1] * Quanta, service[1])>>
Shortfall(cashflow, service) ==
  Known(Coverage(cashflow, service)) /\ cashflow[1] < service[1]

Drivers ==
  {"inventory_days", "receivable_days", "payable_days", "projected_revenue",
   "cogs_ratio"}
Funding == {"own_funds", "existing_facilities", "requested_amount"}

NoSpec == [revenue_down |-> 0, cost_up |-> 0, receivable_days_up |-> 0]

\* _shock
Shock(x, factor, addend) == IF Known(x) THEN <<x[1] * factor + addend>> ELSE <<>>

\* The base drivers under a spec: revenue in tenths, the ratio in hundredths.
Shocked(p, spec) ==
  [p EXCEPT !.projected_revenue = Shock(@, 10 - spec.revenue_down, 0),
            !.cogs_ratio = Shock(@, 10 + spec.cost_up, 0),
            !.receivable_days = Shock(@, 1, spec.receivable_days_up)]

\* working_capital_requirement: three rounded components and their exact sum.
Requirement(p) ==
  IF AllKnown({p[k] : k \in Drivers})
    THEN LET revenue == p.projected_revenue[1]
             cogs == revenue * p.cogs_ratio[1]
             receivables == HalfUp(p.receivable_days[1] * revenue * Quanta,
                                   10 * DAYS_PER_YEAR)
             inventory == HalfUp(p.inventory_days[1] * cogs * Quanta, 1000 * DAYS_PER_YEAR)
             payables == HalfUp(p.payable_days[1] * cogs * Quanta, 1000 * DAYS_PER_YEAR) IN
         <<receivables + inventory - payables>>
    ELSE <<>>

\* financing_gap: the financing the need implies, and how the request differs.
FinancingGap(need, p) ==
  IF Known(need) /\ AllKnown({p[k] : k \in Funding})
    THEN LET implied == need[1] - (p.own_funds[1] + p.existing_facilities[1]) * Quanta IN
         [implied |-> <<implied>>, difference |-> <<p.requested_amount[1] * Quanta - implied>>]
    ELSE [implied |-> <<>>, difference |-> <<>>]

\* downside_scenarios: the base case is the one without a shock.
Scenario(p, spec) ==
  LET need == Requirement(Shocked(p, spec)) IN
  [need |-> need, gap |-> FinancingGap(need, p)]

NoFigures == [k \in FieldKeys |-> <<>>]
NoTerms == [principal |-> 0, rate |-> 0, term |-> 1, style |-> "BALLOON"]
NoPlan == [k \in Drivers \cup Funding |-> <<>>]

MaybeAmount(S) == {<<>>} \cup {<<x>> : x \in S}

SheetInit == figures = NoFigures /\ terms = NoTerms /\ plan = NoPlan

SheetTypeOK ==
  /\ figures \in [FieldKeys -> MaybeAmount(Amounts)]
  /\ terms \in [principal : Principals \cup {0}, rate : Rates \cup {0},
                term : Terms \cup {1}, style : {"BALLOON", "EQUAL_PRINCIPAL"}]
  /\ plan \in [Drivers \cup Funding -> MaybeAmount(DriverAmounts)]

\* An officer confirms a figure; facts are never taken back.  The three kinds of
\* calculation share no input, so a behaviour makes one of them.
ConfirmFigure(k, x) ==
  /\ ~Known(figures[k]) /\ terms = NoTerms /\ plan = NoPlan
  /\ figures' = [figures EXCEPT ![k] = <<x>>]
  /\ UNCHANGED <<terms, plan>>

\* A schedule is computed for a financing.
ProposeTerms(t) ==
  /\ figures = NoFigures /\ plan = NoPlan
  /\ terms' = t
  /\ UNCHANGED <<figures, plan>>

\* A need and its gap are projected, base case and downsides.
ProposePlan(p) ==
  /\ figures = NoFigures /\ terms = NoTerms
  /\ plan' = p
  /\ UNCHANGED <<figures, terms>>

CalculatorsNext ==
  \/ \E k \in Confirmable, x \in Amounts : ConfirmFigure(k, x)
  \/ \E t \in [principal : Principals, rate : Rates, term : Terms,
              style : {"BALLOON", "EQUAL_PRINCIPAL"}] : ProposeTerms(t)
  \/ plan = NoPlan
       /\ \E p \in [Drivers \cup Funding -> MaybeAmount(DriverAmounts)] : ProposePlan(p)
--------------------------------------------------------------------------------
\* What each result is computed from, in the end, and by what it is divided.
Leaves ==
  LET cycle == {"accounts_receivable", "revenue", "inventory", "cost_of_goods_sold",
                "accounts_payable"} IN
  [current_ratio |-> {"current_assets", "current_liabilities"},
   quick_ratio |-> {"current_assets", "inventory", "current_liabilities"},
   receivable_days |-> {"accounts_receivable", "revenue"},
   inventory_days |-> {"inventory", "cost_of_goods_sold"},
   payable_days |-> {"accounts_payable", "cost_of_goods_sold"},
   cash_conversion_cycle |-> cycle,
   working_capital_need |-> cycle,
   working_capital_gap |-> cycle \cup {"own_working_capital", "other_funding_sources"},
   revenue_trend |-> {"prior_revenue", "revenue"},
   revenue_growth |-> {"prior_revenue", "revenue"}]
Divisors ==
  [current_ratio |-> {"current_liabilities"},
   quick_ratio |-> {"current_liabilities"},
   receivable_days |-> {"revenue"},
   inventory_days |-> {"cost_of_goods_sold"},
   payable_days |-> {"cost_of_goods_sold"},
   cash_conversion_cycle |-> {"revenue", "cost_of_goods_sold"},
   working_capital_need |-> {"revenue", "cost_of_goods_sold"},
   working_capital_gap |-> {"revenue", "cost_of_goods_sold"},
   revenue_trend |-> {},
   revenue_growth |-> {"prior_revenue"}]

\* "Missing calculator inputs become Evidence Gap items -- never guesses": however
\* the calculators are composed, a result is computed exactly if all that it
\* rests on is confirmed and nothing is divided by zero; and what it lacks is
\* among the gaps.
NothingGuessed ==
  \A r \in DOMAIN Leaves :
    /\ Known(Suite(figures)[r]) <=>
         \A k \in Leaves[r] : Known(figures[k]) /\ (k \in Divisors[r] => figures[k][1] # 0)
    /\ Known(Suite(figures)[r]) \/ Leaves[r] \cap MissingEvidence(figures) # {}
         \/ \E k \in Divisors[r] : figures[k] = <<0>>

\* "the sum of the principal is the principal and the final closing balance is
\* exactly zero": rounding the instalments loses nothing, in either style; the
\* balance moves towards zero and past it by less than the rounding of the rows.
\* Past zero it earns interest back, and never more than was due: the debt service
\* is no less than the principal, so repayment_capacity does not refuse it.
\* And where a cash flow is just short of the debt service of such a schedule, or
\* just above it, the rounded coverage and the verdict do not contradict each other.
ScheduleReconciles ==
  LET b == Balances(terms.principal, terms.term, terms.style)
      service == DebtService(terms.principal, terms.rate, terms.term, terms.style) IN
  /\ SumFunctionOnSet(Paid(b, terms.term), 1..terms.term) = terms.principal
  /\ service >= terms.principal
  /\ b[terms.term] = 0
  /\ \A n \in 1..terms.term : 2 * b[n] >= -terms.term
  /\ \A c \in (service - 1)..(service + 1) :
       LET coverage == Coverage(<<c>>, <<service>>)
           short == Shortfall(<<c>>, <<service>>) IN
       Known(coverage) =>
         /\ coverage[1] < Quanta => short
         /\ short => coverage[1] <= Quanta

\* "Missing base inputs propagate to NOT_COMPUTABLE in every scenario", and "no
\* residual": a scenario is computed exactly if the base case is, its figures
\* reconcile with the funding and the request, and more receivable days never
\* need less.
ScenariosReconcile ==
  LET base == Scenario(plan, NoSpec) IN
  \A spec \in Downsides :
    LET s == Scenario(plan, spec) IN
    /\ Known(s.need) <=> AllKnown({plan[k] : k \in Drivers})
    /\ Known(s.gap.implied) <=> AllKnown({plan[k] : k \in DOMAIN plan})
    /\ Known(s.gap.implied) =>
         plan.requested_amount[1] * Quanta - s.gap.difference[1]
           + (plan.own_funds[1] + plan.existing_facilities[1]) * Quanta = s.need[1]
    /\ Known(s.need) /\ spec.revenue_down = 0 /\ spec.cost_up = 0 =>
         s.need[1] >= base.need[1]
================================================================================
