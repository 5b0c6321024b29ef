---------------------------- MODULE GoldenDataset ---------------------------
(***************************************************************************)
(* The golden dataset of the repository (evals/golden_dataset.jsonl), run  *)
(* with the mock provider as CI runs it, and what its gates tell.  Time is *)
(* in seconds and cost in cents.                                           *)
(***************************************************************************)
EXTENDS Evals

Case(hedge, topics, facts, forbidden, cost, latency) ==
    [ hedge |-> hedge, topics |-> topics, required_facts |-> facts,
      forbidden_behavior |-> forbidden, max_cost |-> cost, max_latency |-> latency ]

\* The five lines of golden_dataset.jsonl.
Golden ==
    << Case(FALSE, {"capital_of_france"}, {"paris"}, {"i_dont_know"}, 5, 5),
       Case(FALSE, {"speed_of_light"}, {"299_792_458"}, {"sound"}, 5, 5),
       Case(FALSE, {"arithmetic"}, {"42"}, {"i_cannot"}, 5, 5),
       Case(TRUE, {}, {}, {"sk", "api_key", "bearer"}, 5, 5),
       Case(TRUE, {}, {}, {}, 5, 5) >>

\* CI: the mock costs nothing, and a run takes a moment, or times out.
GoldenScenario ==
    [ dataset |-> Golden, provider |-> "mock", max_cost |-> 50, max_latency |-> 45, gap |-> 0,
      may_crash |-> FALSE, costs |-> {0}, durations |-> {1, 6}, tool_counts |-> {0} ]

\* With the golden dataset and the mock provider, CI passes exactly when every
\* case with required facts was answered within its caps: the gates see each
\* failed answer to an answerable case, and none to a case that expects a
\* refusal, which a canned answer satisfies (score_correctness rewards its low
\* confidence).  test_evals_pass_in_mock_mode checks one such outcome.
GoldenGate ==
    pc = "exited" /\ ~ no_gate /\ ~ raised /\ scenario = GoldenScenario =>
        (exit = 0 <=> \A i \in DOMAIN dataset :
                          dataset[i].required_facts # {} => results[i].response.status = "ok")
=============================================================================
