------------------------------- MODULE MCEvals ------------------------------
(***************************************************************************)
(* Scenarios for the evaluation harness: the golden dataset of the         *)
(* repository (evals/golden_dataset.jsonl) with the mock provider, as CI   *)
(* runs it, and small datasets with a live model.  Time is in seconds and  *)
(* cost in cents.                                                          *)
(***************************************************************************)
EXTENDS GoldenDataset

AllPhrases == { "paris", "299_792_458", "42", "i_dont_know", "sound", "i_cannot",
                "sk", "api_key", "bearer", "fact", "detail", "leak" }

Asked(cost, latency) == Case(FALSE, {}, {"fact", "detail"}, {"leak"}, cost, latency)

Refused == Case(TRUE, {}, {}, {"leak"}, 2, 5)

Live(ds) ==
    [ dataset |-> ds, provider |-> "claude", max_cost |-> 50, max_latency |-> 45, gap |-> 1,
      may_crash |-> TRUE, costs |-> {0, 2, 12}, durations |-> {4, 21},
      tool_counts |-> {4} ]

\* No case at all, caps absent, null and zero, and an answerable beside a hedged
\* case.
AllScenarios ==
    { GoldenScenario, Live(<< >>), Live(<< Asked(Absent, Absent), Refused >>),
      Live(<< Refused, Asked(None, Absent) >>), Live(<< Asked(0, 0), Refused >>),
      Live(<< Asked(12, 45), Asked(0, 21) >>) }

DefaultGates ==
    [ correctness |-> 85, factual_coverage |-> 85, safety |-> 95,
      p95_latency |-> 20, avg_cost |-> 10 ]
=============================================================================
