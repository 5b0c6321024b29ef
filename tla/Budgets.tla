------------------------------- MODULE Budgets ------------------------------
(***************************************************************************)
(* The cost calculator (app/agent/cost.py) and the per-run budgets         *)
(* (app/agent/budgets.py), as pure operators.                              *)
(*                                                                         *)
(* A model id is a sequence of fragments, so that str.startswith is        *)
(* IsPrefix: <<"opus">> starts <<"opus", "-2025">>, and nothing in the     *)
(* table starts <<"anthropic/", "opus">>.  A pricing table is the Python   *)
(* dict in insertion order.  A price of p USD per million tokens is p      *)
(* micro-USD a token, so costs are integers in micro-USD, the precision    *)
(* the code rounds to.  `complete` is FALSE for an entry that lacks the    *)
(* "input" or the "output" key: subscripting it raises KeyError.           *)
(***************************************************************************)
EXTENDS Integers, Sequences, SequencesExt

CONSTANT None   \* Python's None

NoModel == <<>>   \* BudgetState.model before the first build_model

PriceEntry(id, input, output, complete) ==
    [id |-> id, input |-> input, output |-> output, complete |-> complete]

\* The zero price estimate_cost falls back on.
Unpriced == PriceEntry(NoModel, 0, 0, TRUE)

\* The entries a lookup of `model` may use: the exact id, else its prefixes.
KnownEntries(table, model) ==
    LET exact == { i \in DOMAIN table : table[i].id = model }
    IN IF exact # {} THEN exact
       ELSE { i \in DOMAIN table : IsPrefix(table[i].id, model) }

PricingOf(table, model) ==
    LET known == KnownEntries(table, model)
    IN IF known = {} THEN Unpriced
       ELSE table[CHOOSE i \in known : \A j \in known : i <= j]

\* estimate_cost(...).total_usd, in micro-USD
EstimateCost(table, model, tokensIn, tokensOut) ==
    LET price == PricingOf(table, model)
    IN tokensIn * price.input + tokensOut * price.output

\* estimate_cost(...) raises KeyError.
CostRaises(table, model) == ~ PricingOf(table, model).complete

\* BudgetState.cost_usd(settings): no model yet, no cost.
CostUsd(table, model, tokensIn, tokensOut) ==
    IF model = NoModel THEN 0 ELSE EstimateCost(table, model, tokensIn, tokensOut)

CostUsdRaises(table, model) == model # NoModel /\ CostRaises(table, model)

-----------------------------------------------------------------------------
\* An override that is dropped when it is falsy, `if v` for `if v is not None`.
OverrideIfTruthy(override, default) ==
    IF override \in {None, 0} THEN default ELSE override

\* _drive drops the overrides that are None; from_settings takes the others.
Override(override, default) == IF override = None THEN default ELSE override

\* Budgets.from_settings(settings, **overrides).  No request can override the
\* token budget.
FromSettings(settings, req) ==
    [ max_total_tokens |-> settings.max_total_tokens,
      max_cost         |-> Override(req.max_cost, settings.max_cost),
      max_latency      |-> Override(req.max_latency, settings.max_latency),
      max_tool_calls   |-> Override(req.max_tool_calls, settings.max_tool_calls) ]

\* Budgets.check, given the cost; the order of the tests is the code's.
CheckSkippingTools(b, tokens, cost, latency, toolCalls) ==
    CASE tokens > b.max_total_tokens -> "tokens"
      [] cost > b.max_cost -> "cost"
      [] latency > b.max_latency -> "latency"
      [] OTHER -> "ok"

Check(b, tokens, cost, latency, toolCalls) ==
    IF tokens > b.max_total_tokens THEN "tokens"
    ELSE IF cost > b.max_cost THEN "cost"
    ELSE IF latency > b.max_latency THEN "latency"
    ELSE IF toolCalls > b.max_tool_calls THEN "tool_calls"
    ELSE "ok"

BreachReasons == { "tokens", "cost", "latency", "tool_calls" }

\* used / max(least, cap) >= 0.8, where `least` is the smallest positive amount:
\* with a cap of zero or less any use at all is at the threshold.
Nearing(used, cap) == IF cap <= 0 THEN used > 0 ELSE 5 * used >= 4 * cap

\* The three thresholds of the budget_warning event.
NearBudget(b, tokens, cost, latency) ==
    \/ Nearing(tokens, b.max_total_tokens)
    \/ Nearing(cost, b.max_cost)
    \/ Nearing(latency, b.max_latency)
=============================================================================
