------------------------------- MODULE Metrics ------------------------------
(***************************************************************************)
(* The Prometheus metrics of app/observability/metrics.py beside the run   *)
(* that moves them.  The registry is global and outlives the run; counters *)
(* only grow, so that what concurrent runs add is the sum of what each     *)
(* adds, and one run from a fresh registry is enough.                      *)
(*                                                                         *)
(* Every action of AgentRun is taken over with what its hooks, handlers    *)
(* and emit_* helpers count in the same stretch of code.                   *)
(***************************************************************************)
EXTENDS AgentRun

VARIABLE metrics   \* the registry, see MetricsType

metricsVars == << vars, metrics >>

\* A counter by label is a function; a histogram of which only the number of
\* observations matters is a number; LATENCY_MS is the list of what it observed.
MetricsType ==
    [ AGENT_RUNS_TOTAL : Nat,
      ERROR_COUNT : [ExceptionClasses \cup {"RuntimeError"} -> Nat],
      FALLBACK_COUNT : [Strategies -> Nat],
      TOOL_CALL_COUNT : Nat, TOKENS_IN : Nat, TOKENS_OUT : Nat, COST_USD : Nat,
      LATENCY_MS : Seq(Nat), MODEL_LATENCY_MS : Nat, TOOL_LATENCY_MS : Nat ]

FreshRegistry ==
    [ AGENT_RUNS_TOTAL |-> 0,
      ERROR_COUNT |-> [e \in ExceptionClasses \cup {"RuntimeError"} |-> 0],
      FALLBACK_COUNT |-> [s \in Strategies |-> 0],
      TOOL_CALL_COUNT |-> 0, TOKENS_IN |-> 0, TOKENS_OUT |-> 0, COST_USD |-> 0,
      LATENCY_MS |-> << >>, MODEL_LATENCY_MS |-> 0, TOOL_LATENCY_MS |-> 0 ]

MInit == Init /\ metrics = FreshRegistry

-----------------------------------------------------------------------------
\* Helpers: what a stretch of code does to a registry m.
CountError(m, class) == [m EXCEPT !.ERROR_COUNT[class] = @ + 1]

CountFallback(m, strategy) == [m EXCEPT !.FALLBACK_COUNT[strategy] = @ + 1]

\* An emit_fallback that is only reached when the strategy has not answered yet.
CountOnlyReruns(m, exception) ==
    LET strategy == DecideFallback(KindOf(exception), attempt)
    IN IF strategy = "RETRY_BACKOFF" THEN CountFallback(CountError(m, exception), strategy)
       ELSE CountError(m, exception)

\* emit_error in the handler of an exception, emit_fallback with the strategy.
CountFailure(m, exception) ==
    CountFallback(CountError(m, exception), DecideFallback(KindOf(exception), attempt))

\* on_llm_end of the run hooks
CountResponse(m, usage) ==
    [m EXCEPT !.TOKENS_IN = @ + usage.input, !.TOKENS_OUT = @ + usage.output,
              !.MODEL_LATENCY_MS = @ + 1]

\* An observation by both hook classes, and one of the time that is left.
ObserveTwice(m) == [m EXCEPT !.LATENCY_MS = @ \o << now, now >>]

ObserveTimeLeft(m) == [m EXCEPT !.LATENCY_MS = Append(@, Timeout - now)]

\* on_agent_end of the run hooks observes state.latency_ms.
ObserveLatency(m) == [m EXCEPT !.LATENCY_MS = Append(@, now)]

\* A cost by the table of get_settings() instead of the workflow's.
BilledByAmbient(m) ==
    [m EXCEPT !.COST_USD = @ + EstimateCost(settings.ambient, BilledModel, tokensIn, tokensOut)]

\* COST_USD.labels(...).inc(cost)
CountCost(m) == [m EXCEPT !.COST_USD = @ + BilledCost]

-----------------------------------------------------------------------------
MBuildModelRaises ==
    BuildModelRaises /\ metrics' = CountError(metrics, "RuntimeError")

MBeginTurn ==
    /\ BeginTurn
    /\ metrics' = [metrics EXCEPT !.AGENT_RUNS_TOTAL = @ + (IF turn = 0 THEN 1 ELSE 0)]

MExceedTurns == ExceedTurns /\ metrics' = CountFailure(metrics, "MaxTurnsExceeded")

MLlmReturns(usage, tools, message) ==
    LlmReturns(usage, tools, message) /\ metrics' = CountResponse(metrics, usage)

MLlmHookRaises(usage) ==
    /\ LlmHookRaises(usage)
    /\ metrics' = CountFailure(CountResponse(metrics, usage), "Exception")

MLlmRaises(exception) ==
    LlmRaises(exception) /\ metrics' = CountFailure(metrics, exception)

MToolStart(i) ==
    ToolStart(i) /\ metrics' = [metrics EXCEPT !.TOOL_CALL_COUNT = @ + 1]

\* The latency of a call whose scratch entry is gone is not observed.
MToolEnd(i) ==
    /\ ToolEnd(i)
    /\ metrics' = [metrics EXCEPT !.TOOL_LATENCY_MS =
                       @ + (IF ToolLatency(calls[i].tool) = None THEN 0 ELSE 1)]

MMisbehave == Misbehave /\ metrics' = CountFailure(metrics, "ModelBehaviorError")

MAgentEnds == AgentEnds /\ metrics' = ObserveLatency(metrics)

MRejectFinal(raw) ==
    RejectFinal(raw) /\ metrics' = CountFailure(metrics, CoerceRaises(raw))

MEndRaises(exception) ==
    EndRaises(exception) /\ metrics' = CountFailure(metrics, exception)

MWaitForTimeout == WaitForTimeout /\ metrics' = CountFailure(metrics, "TimeoutError")

MEnforceBudget ==
    /\ EnforceBudget
    /\ metrics' = IF OverBudget THEN CountFallback(metrics, "PARTIAL_ANSWER") ELSE metrics

MFinish == Finish /\ metrics' = CountCost(metrics)

\* The stretches that count nothing; an exception that escapes is among them.
Uncounted ==
    \/ BuildModel \/ RunAgain \/ WakeUp \/ Tick \/ Escape \/ Terminated
    \/ \E raw \in RawOutputs : ProduceFinal(raw)

MNext ==
    \/ MBuildModelRaises \/ MBeginTurn \/ MExceedTurns \/ MMisbehave \/ MAgentEnds
    \/ MWaitForTimeout \/ MEnforceBudget \/ MFinish
    \/ \E i \in DOMAIN calls : MToolStart(i) \/ MToolEnd(i)
    \/ \E raw \in RawOutputs : MRejectFinal(raw)
    \/ \E exception \in ProviderErrors : MLlmRaises(exception)
    \/ \E exception \in LateErrors : MEndRaises(exception)
    \/ \E usage \in Usages :
          \/ MLlmHookRaises(usage)
          \/ \E tools \in BoundedSeq(Tools, MaxParallel), message \in Texts :
                MLlmReturns(usage, tools, message)
    \/ Uncounted /\ UNCHANGED metrics

MSpec == MInit /\ [][MNext]_metricsVars /\ WF_metricsVars(MNext /\ LoopStep)

-----------------------------------------------------------------------------
Total(counter) == SumFunction(counter)

\* Type correctness of the registry.
MetricsTypeOK == metrics \in MetricsType

\* What the counters add for a run is what its response reports, on every way to
\* a response: usage, tool calls and cost each once, the cost of a degraded run
\* too; and a run that dies of an exception has been counted without its cost
\* (_drive, the hooks and emit_* together).
CountersMatchResponse ==
    /\ metrics.TOKENS_IN = tokensIn /\ metrics.TOKENS_OUT = tokensOut
    /\ metrics.TOOL_CALL_COUNT = toolCalls
    /\ metrics.MODEL_LATENCY_MS = emitted["llm_end"]
    /\ metrics.COST_USD = IF pc = "done" THEN BilledCost ELSE 0

\* The dashboard's error and fallback counters tell the outcome of a run: an "ok"
\* leaves them alone, a "partial" counts one fallback, under the strategy whose
\* canned answer was returned, and an "error" one error.  A run that was cut short
\* by an exception counts one error, one that only broke a budget none.
CountersTellOutcome ==
    pc = "done" =>
        LET fallbacks == { s \in Strategies : metrics.FALLBACK_COUNT[s] > 0 }
        IN /\ Total(metrics.FALLBACK_COUNT) = (IF status = "partial" THEN 1 ELSE 0)
           /\ Total(metrics.ERROR_COUNT) = (IF failure # "none" THEN 1 ELSE 0)
           /\ status = "partial" =>
                 \E s \in fallbacks :
                    IF failure # "none" THEN final = FallbackAnswer(s)
                    ELSE s = "PARTIAL_ANSWER" /\ final.caveat \in BreachReasons

\* No run is in the latency histogram twice, whatever becomes of it after its end
\* hooks (a timeout, an error, an output that is rejected, a budget that is
\* breached); it is there exactly when its trace has the agent_end, with a time
\* that is not later than the duration of the response; and an "ok" run is there
\* (on_agent_end and _drive together).
LatencyObservedOnce ==
    /\ Len(metrics.LATENCY_MS) = emitted["agent_end"] /\ emitted["agent_end"] <= 1
    /\ \A i \in DOMAIN metrics.LATENCY_MS : metrics.LATENCY_MS[i] <= now
    /\ pc = "done" /\ status = "ok" => Len(metrics.LATENCY_MS) = 1

\* "End-to-end latency of an agent run, ms" (app/observability/metrics.py): each
\* run that was started and answered is in the histogram.  Refuted: only
\* on_agent_end observes, so a run that times out or fails is not there.
LatencyOfEveryRun ==
    pc = "done" => Len(metrics.LATENCY_MS) = metrics.AGENT_RUNS_TOTAL
=============================================================================
