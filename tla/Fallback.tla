------------------------------ MODULE Fallback ------------------------------
(***************************************************************************)
(* The fallback router, app/agent/fallback.py, and the table of exception  *)
(* handlers through which ResearchWorkflow._drive reaches it.  Everything  *)
(* here is a pure operator: the state it acts on is in AgentRun.           *)
(***************************************************************************)
EXTENDS Integers

\* FailureKind, the argument of the router.
FailureKinds == { "model_timeout", "model_rate_limit", "tool_failure",
                  "invalid_structured_output", "budget_exceeded",
                  "tracing_export_failure", "eval_regression", "unknown" }

\* Strategy, what the router answers.
Strategies == { "RETRY_BACKOFF", "SIMPLER_MODEL", "NO_TOOL_ANSWER",
                "CACHED_ANSWER", "PARTIAL_ANSWER", "HUMAN_REVIEW",
                "LOG_AND_CONTINUE" }

\* The strategies that call the agent a second time.
Reruns == { "SIMPLER_MODEL", "NO_TOOL_ANSWER" }

\* decide_fallback(kind, attempt=attempt).strategy
DecideFallback(kind, attempt) ==
    CASE kind = "model_timeout" ->
            IF attempt < 3 THEN "RETRY_BACKOFF" ELSE "SIMPLER_MODEL"
      [] kind = "model_rate_limit" ->
            IF attempt < 4 THEN "RETRY_BACKOFF" ELSE "SIMPLER_MODEL"
      [] kind = "tool_failure" -> "NO_TOOL_ANSWER"
      [] kind = "invalid_structured_output" ->
            IF attempt < 2 THEN "RETRY_BACKOFF" ELSE "HUMAN_REVIEW"
      [] kind = "budget_exceeded" -> "PARTIAL_ANSWER"
      [] kind = "tracing_export_failure" -> "LOG_AND_CONTINUE"
      [] kind = "eval_regression" -> "HUMAN_REVIEW"
      [] OTHER -> "PARTIAL_ANSWER"

-----------------------------------------------------------------------------
\* FinalAnswer, reduced to where its text comes from, its confidence and its
\* first caveat.
Confidences == { "low", "medium", "high" }

Caveats == { "none", "unstructured_output", "retry_exhausted", "budget",
             "model_unable_to_comply", "no_cache_configured",
             "nonfatal_subsystem_failure", "unhandled_error" }

Answer(text, confidence, caveat) ==
    [text |-> text, confidence |-> confidence, caveat |-> caveat]

SafePartialAnswer(reason) == Answer("canned_partial", "low", reason)

HumanReviewAnswer(reason) == Answer("canned_review", "low", reason)

\* The answer _apply_fallback builds for a strategy that calls no model.
FallbackAnswer(strategy) ==
    CASE strategy = "RETRY_BACKOFF" -> SafePartialAnswer("retry_exhausted")
      [] strategy = "PARTIAL_ANSWER" -> SafePartialAnswer("budget")
      [] strategy = "HUMAN_REVIEW" -> HumanReviewAnswer("model_unable_to_comply")
      [] strategy = "CACHED_ANSWER" -> SafePartialAnswer("no_cache_configured")
      [] OTHER -> SafePartialAnswer("nonfatal_subsystem_failure")

-----------------------------------------------------------------------------
(***************************************************************************)
(* What the `try` around Runner.run can raise, by the handler that catches *)
(* it.  "RateException" is any other exception whose text has "rate" in    *)
(* it, "Exception" any other one without; an AgentRunError raised by       *)
(* _coerce_final is one of these, since no handler names that class.       *)
(***************************************************************************)
ExceptionClasses == { "TimeoutError", "MaxTurnsExceeded", "ModelBehaviorError",
                      "ValidationError", "AgentsException",
                      "RateException", "Exception" }

\* Handlers that pass an SDK exception's own name on as the kind.
KindOfByName(exception) ==
    CASE exception = "TimeoutError" -> "model_timeout"
      [] exception = "MaxTurnsExceeded" -> "budget_exceeded"
      [] OTHER -> exception

\* The FailureKind each handler hands to AgentRunError.
KindOf(exception) ==
    CASE exception = "TimeoutError" -> "model_timeout"
      [] exception = "MaxTurnsExceeded" -> "budget_exceeded"
      [] exception \in {"ModelBehaviorError", "ValidationError"} ->
            "invalid_structured_output"
      [] exception = "RateException" -> "model_rate_limit"
      [] OTHER -> "unknown"

(***************************************************************************)
(* _coerce_final(output).  An output is a parsed FinalAnswer or a valid    *)
(* dict or JSON text of one ("answer"), a dict that is not one             *)
(* ("bad_dict"), a text that is not JSON ("prose"), or another object.     *)
(***************************************************************************)
RawOutputs == [shape : {"answer"}, confidence : Confidences]
                \cup [shape : {"bad_dict", "prose", "other"}, confidence : {"low"}]

CoerceRaises(raw) ==
    CASE raw.shape = "bad_dict" -> "ValidationError"
      [] raw.shape = "other" -> "Exception"
      [] OTHER -> "none"

CoerceFinal(raw) ==
    IF raw.shape = "prose"
    THEN Answer("model", "low", "unstructured_output")
    ELSE Answer("model", raw.confidence, "none")
=============================================================================
