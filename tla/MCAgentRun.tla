----------------------------- MODULE MCAgentRun -----------------------------
(***************************************************************************)
(* Instances of AgentRun for TLC.  A tick is half a second, tokens and     *)
(* prices are small numbers with the order of magnitude of the defaults:   *)
(* two model responses fit in the token budget, three need not.            *)
(***************************************************************************)
EXTENDS Metrics

Opus == <<"opus">>

Complete(id) == PriceEntry(id, 1, 2, TRUE)

BaseDeployment ==
    [ mock |-> FALSE, has_key |-> TRUE, claude_model |-> Opus,
      max_total_tokens |-> 4, max_cost |-> 5, max_latency |-> 2, max_tool_calls |-> 1,
      backoff |-> 1, retry_max_attempts |-> 3,
      pricing |-> << Complete(Opus), PriceEntry(<<"mock">>, 0, 0, TRUE) >>,
      ambient |-> << Complete(Opus), PriceEntry(<<"mock">>, 0, 0, TRUE) >> ]

\* The entry of the model lacks a key: in the workflow's own settings, or in
\* those get_settings() returns.
BrokenPricing == << PriceEntry(Opus, 1, 0, FALSE) >>

Healthy == { BaseDeployment, [BaseDeployment EXCEPT !.mock = TRUE] }

AllDeployments ==
    { BaseDeployment,
      [BaseDeployment EXCEPT !.mock = TRUE],
      [BaseDeployment EXCEPT !.has_key = FALSE],
      [BaseDeployment EXCEPT !.has_key = FALSE, !.pricing = BrokenPricing],
      [BaseDeployment EXCEPT !.pricing = BrokenPricing],
      [BaseDeployment EXCEPT !.ambient = BrokenPricing] }

Request(cost, latency, tools) ==
    [max_cost |-> cost, max_latency |-> latency, max_tool_calls |-> tools]

\* No override; a sub-second latency cap; zero cost and no tools; and overrides
\* larger than the settings.
AllRequests ==
    { Request(None, None, None), Request(None, 1, None), Request(0, None, 0),
      Request(9, 3, 1) }

PlainRequests == { Request(None, None, None) }

SomeUsages == { [input |-> 0, output |-> 0], [input |-> 1, output |-> 1],
                [input |-> 3, output |-> 0] }

OneUsage == { [input |-> 1, output |-> 1] }
=============================================================================
