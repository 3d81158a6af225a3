------------------------------- MODULE Engines ------------------------------
(***************************************************************************)
(* The deterministic engines of lib/memory/engines.ts: what they compute   *)
(* of the numbers they are given, and which they did not get.  A number    *)
(* that may be NaN is the set of the one number it is, or is empty, so     *)
(* that what is computed of NaN is NaN and no comparison with it holds.    *)
(* Levels are in hundredths and amounts in millions; months in tenths.     *)
(***************************************************************************)
EXTENDS Integers, FiniteSets

Engine == {"covenant_tests", "basket_capacity", "headroom", "mandate_fit"}

Needs ==
    [covenant_tests  |-> {"leverage", "coverage", "covenant_leverage_max", "covenant_coverage_min"},
     basket_capacity |-> {"basket_general", "basket_restricted_payments"},
     headroom        |-> {"liquidity", "ebitda"},
     mandate_fit     |-> {"leverage"}]

\* The number given for an attribute.
Given(inputs, a) == {inputs[b] : b \in {a} \cap DOMAIN inputs}

Minus(x, y) == {m - n : m \in x, n \in y}

Below(x, n) == \E m \in x : m < n

CovenantTests(inputs) ==
    LET leverage == Minus(Given(inputs, "covenant_leverage_max"), Given(inputs, "leverage"))
        coverage == Minus(Given(inputs, "coverage"), Given(inputs, "covenant_coverage_min"))
    IN  [leverage_headroom |-> leverage, coverage_headroom |-> coverage,
         leverage_breach |-> Below(leverage, 0), coverage_breach |-> Below(coverage, 0),
         any_breach_risk |-> Below(leverage, 50)]

OrZero(x) == IF x = {} THEN 0 ELSE CHOOSE n \in x : TRUE

BasketCapacity(inputs) ==
    [total_permitted |-> OrZero(Given(inputs, "basket_general"))
                         + OrZero(Given(inputs, "basket_restricted_payments"))
                         + OrZero(Given(inputs, "basket_investments"))]

\* Rounded to the nearest tenth, a half up.
Headroom(inputs) ==
    [months_of_ebitda |-> {(240 * l + e) \div (2 * e) :
                              l \in Given(inputs, "liquidity"),
                              e \in {n \in Given(inputs, "ebitda") : n > 0}}]

MandateFit(inputs) ==
    LET rules == << {m < 600 : m \in Given(inputs, "leverage")},
                    {m \in 50 .. 400 : m \in Given(inputs, "commitment")} >>
        Count(outcome) == Cardinality({r \in DOMAIN rules : rules[r] = outcome})
    IN  [rules_passed |-> Count({TRUE}), rules_failed |-> Count({FALSE}), rules_unknown |-> Count({}),
         fit |-> Count({TRUE}) = 2]

Compute(engine, inputs) ==
    [engine  |-> engine,
     values  |-> CASE engine = "covenant_tests" -> CovenantTests(inputs)
                   [] engine = "basket_capacity" -> BasketCapacity(inputs)
                   [] engine = "headroom" -> Headroom(inputs)
                   [] engine = "mandate_fit" -> MandateFit(inputs),
     inputs  |-> inputs,
     missing |-> Needs[engine] \ DOMAIN inputs]

=============================================================================
