--------------------------- MODULE ApprovedFunctions ---------------------------
(***************************************************************************)
(* backend/runtime/function_registry.py: the functions a caller of         *)
(* POST /runtime/function/{name} may run on parameters of its own. Numbers *)
(* are integers here, and percentages in hundredths of a percent.          *)
(***************************************************************************)
EXTENDS Integers, Sequences, FiniteSetsExt, SequencesExt

CONSTANTS
    Work,           \* tasks of schedule_slip_forecast
    Amounts,        \* costs, budgets and quantities
    Categories      \* of pnl_attribution

ASSUME FunctionsAssumption ==
    /\ Work \subseteq [planned : Nat, earned : Nat, duration : Nat, actual : Nat]
    /\ Amounts \subseteq Int

VARIABLE call           \* the last call and its result

-----------------------------------------------------------------------------
Magnitude(n) == IF n < 0 THEN -n ELSE n
Signed(n, magnitude) == IF n < 0 THEN -magnitude ELSE magnitude

\* int(a / b), towards zero, and round(a / b * 100, 2), for a positive b
Truncated(a, b) == Signed(a, Magnitude(a) \div b)
Share(a, b) == Signed(a, (20000 * Magnitude(a) + b) \div (2 * b))

Sum(values) == FoldLeft(+, 0, values)
Planned(tasks) == Sum([i \in DOMAIN tasks |-> tasks[i].planned])
Earned(tasks) == Sum([i \in DOMAIN tasks |-> tasks[i].earned])
Spent(tasks) == Sum([i \in DOMAIN tasks |-> tasks[i].actual])
Scheduled(tasks) == Sum([i \in DOMAIN tasks |-> tasks[i].duration])

\* Faulty variant of Delay: time overspent so far is counted twice.
DelayTwice(tasks) ==
    Truncated((Planned(tasks) - Earned(tasks)) * Spent(tasks) + (Scheduled(tasks) + Spent(tasks)) * Earned(tasks),
              Earned(tasks))

\* the remaining work at the pace so far, less the time that was left for it
Delay(tasks) ==
    Truncated((Planned(tasks) - Earned(tasks)) * Spent(tasks) - (Scheduled(tasks) - Spent(tasks)) * Earned(tasks),
              Earned(tasks))

\* spi is 1 when nothing was planned; the delay is 0 when it is 0 or 1, and without a baseline
ScheduleSlip(tasks, baseline) ==
    LET moves == baseline /\ Planned(tasks) > 0 /\ Earned(tasks) \notin {0, Planned(tasks)}
    IN [variance |-> Earned(tasks) - Planned(tasks),
        delay |-> IF moves THEN Delay(tasks) ELSE 0,
        status |-> IF Planned(tasks) = 0 \/ Earned(tasks) = Planned(tasks) THEN "on_track"
                   ELSE IF Earned(tasks) > Planned(tasks) THEN "ahead" ELSE "behind"]

\* costs: pairs of category and value in the order of the dictionary, which sorted() keeps
\* among values of one size
PnlAttribution(costs, categories) ==
    LET kept == SelectSeq(costs, LAMBDA c : categories = {} \/ c[1] \in categories)
        Larger(i, j) == \/ Magnitude(kept[i][2]) > Magnitude(kept[j][2])
                        \/ Magnitude(kept[i][2]) = Magnitude(kept[j][2]) /\ i < j
        sorted == [k \in DOMAIN kept |-> kept[SetToSortSeq(DOMAIN kept, Larger)[k]]]
        total == Sum([k \in DOMAIN kept |-> kept[k][2]])
        First3(chosen) == SubSeq(chosen, 1, Min({3, Len(chosen)}))
    IN [total |-> total,
        impacts |-> [k \in DOMAIN sorted |->
            [category |-> sorted[k][1], value |-> sorted[k][2],
             percentage |-> IF total = 0 THEN 0 ELSE Share(Signed(total, 1) * sorted[k][2], Magnitude(total))]],
        positive |-> First3(SelectSeq(sorted, LAMBDA c : c[2] > 0)),
        negative |-> First3(SelectSeq(sorted, LAMBDA c : c[2] < 0))]

CostVariance(budget, actual, forecast) ==
    IF budget <= 0 THEN [error |-> "Budget must be positive"]
    ELSE [variance |-> budget - actual, percent |-> Share(budget - actual, budget),
          status |-> IF budget >= actual THEN "under_budget" ELSE "over_budget",
          atCompletion |-> budget - forecast, completionPercent |-> Share(budget - forecast, budget),
          outlook |-> IF budget >= forecast THEN "favorable" ELSE "unfavorable"]

\* items: id, quantity and unit cost; an item without a specification counts as on it
BoqCheck(items, specs) ==
    LET Specified == {i \in DOMAIN items : items[i].id \in DOMAIN specs}
        Variance(i) == items[i].quantity - specs[items[i].id]
        over == Cardinality({i \in Specified : Variance(i) > 0})
        under == Cardinality({i \in Specified : Variance(i) < 0})
    IN [quantity |-> Sum([i \in DOMAIN items |-> items[i].quantity]),
        cost |-> Sum([i \in DOMAIN items |-> items[i].quantity * items[i].cost]),
        over |-> over, under |-> under, on |-> Len(items) - over - under,
        details |-> [i \in Specified |->
            [variance |-> Variance(i),
             percent |-> IF specs[items[i].id] > 0 THEN Share(Variance(i), specs[items[i].id]) ELSE 0]]]

-----------------------------------------------------------------------------
\* only lists with something in them: an empty one is answered with an error
NoCall == [function |-> "none"]
FunctionsInit == call = NoCall

Lists(S, most) == UNION {[1 .. n -> S] : n \in 1 .. most}

ForecastSlip ==
    \E tasks \in Lists(Work, 2), baseline \in BOOLEAN :
        call' = [function |-> "schedule_slip_forecast", tasks |-> tasks, baseline |-> baseline,
                 result |-> ScheduleSlip(tasks, baseline)]

AttributePnl ==
    \E values \in Lists(Amounts, Cardinality(Categories)), kept \in SUBSET Categories :
        LET costs == [k \in DOMAIN values |-> <<SetToSeq(Categories)[k], values[k]>>]
        IN call' = [function |-> "pnl_attribution", costs |-> costs, kept |-> kept,
                    result |-> PnlAttribution(costs, kept)]

CompareCosts ==
    \E budget, actual, forecast \in Amounts :
        call' = [function |-> "cost_variance", budget |-> budget, actual |-> actual,
                 forecast |-> forecast, result |-> CostVariance(budget, actual, forecast)]

CheckQuantities ==
    \E quantities \in Lists(Amounts, 2), cost, spec \in Amounts, specified \in SUBSET {"a", "b"} :
        LET items == [k \in DOMAIN quantities |->
                          [id |-> <<"a", "b">>[k], quantity |-> quantities[k], cost |-> cost]]
            specs == [i \in specified |-> spec]
        IN call' = [function |-> "boq_quantity_check", items |-> items, specs |-> specs,
                    result |-> BoqCheck(items, specs)]

\* the functions keep nothing, so that one call shows what every call does
FunctionsNext == call = NoCall /\ (ForecastSlip \/ AttributePnl \/ CompareCosts \/ CheckQuantities)

FunctionsSpec == FunctionsInit /\ [][FunctionsNext]_call

-----------------------------------------------------------------------------
\* Reference: the work ends when all of it is done at the pace so far, and is late by what
\* that is beyond its schedule, in whole days towards none.
EndsLate(tasks) == Planned(tasks) * Spent(tasks) - Scheduled(tasks) * Earned(tasks)

SlipHolds(c) ==
    LET late == EndsLate(c.tasks)
        delay == c.result.delay
    IN /\ c.result.status = "behind" <=> c.result.variance < 0
       /\ IF c.baseline /\ Planned(c.tasks) > 0 /\ Earned(c.tasks) \notin {0, Planned(c.tasks)}
          THEN /\ delay # 0 => (delay > 0 <=> late > 0)
               /\ Magnitude(delay) * Earned(c.tasks) <= Magnitude(late)
               /\ Magnitude(late) < (Magnitude(delay) + 1) * Earned(c.tasks)
          ELSE delay = 0

\* Reference: every cost of a category asked for is there once, the larger first; no positive
\* one outside the three shown is larger than one inside; the shares make a whole but for
\* their rounding.
PnlHolds(c) ==
    LET impacts == c.result.impacts
        shown == {<<impacts[k].category, impacts[k].value>> : k \in DOMAIN impacts}
        InTop(top) == {top[k] : k \in DOMAIN top}
    IN /\ shown = {x \in {c.costs[k] : k \in DOMAIN c.costs} : c.kept = {} \/ x[1] \in c.kept}
       /\ Len(impacts) = Cardinality(shown)
       /\ \A j, k \in DOMAIN impacts : j < k => Magnitude(impacts[j].value) >= Magnitude(impacts[k].value)
       /\ \A x \in shown : x[2] > 0 /\ x \notin InTop(c.result.positive)
              => Len(c.result.positive) = 3 /\ \A y \in InTop(c.result.positive) : y[2] >= x[2]
       /\ \A x \in shown : x[2] < 0 /\ x \notin InTop(c.result.negative)
              => Len(c.result.negative) = 3 /\ \A y \in InTop(c.result.negative) : y[2] <= x[2]
       /\ c.result.total # 0 =>
              2 * Magnitude(Sum([k \in DOMAIN impacts |-> impacts[k].percentage]) - 10000) <= Len(impacts)

\* Reference: a percentage is the variance by the budget, to half a hundredth.
CostHolds(c) ==
    c.budget > 0 =>
        /\ 2 * Magnitude(c.result.percent * c.budget - 10000 * c.result.variance) <= c.budget
        /\ c.result.status = "under_budget" <=> c.actual <= c.budget
        /\ c.actual = c.forecast => (c.result.outlook = "favorable" <=> c.result.status = "under_budget")

\* Reference: what is neither over nor under has no specification or the quantity of it, and
\* the variances are the difference of the sums.
QuantityHolds(c) ==
    LET specified == DOMAIN c.result.details
        Quantities(S) == MapThenSumSet(LAMBDA k : c.items[k].quantity, S)
    IN /\ c.result.on = Cardinality({k \in DOMAIN c.items :
              k \in specified => c.items[k].quantity = c.specs[c.items[k].id]})
       /\ MapThenSumSet(LAMBDA k : c.result.details[k].variance, specified)
              = Quantities(specified) - MapThenSumSet(LAMBDA k : c.specs[c.items[k].id], specified)
       /\ c.result.quantity = Quantities(DOMAIN c.items)

\* A caller of the API gets the numbers of the approved functions without their derivation
\* (api/runtime.py:265): they are those of the references above, at zero, below it and for
\* lists of one.
FunctionsHold ==
    /\ call.function = "schedule_slip_forecast" => SlipHolds(call)
    /\ call.function = "pnl_attribution" => PnlHolds(call)
    /\ call.function = "cost_variance" => CostHolds(call)
    /\ call.function = "boq_quantity_check" => QuantityHolds(call)
================================================================================
