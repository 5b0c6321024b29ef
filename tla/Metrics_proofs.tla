---------------------------- MODULE Metrics_proofs ---------------------------
(***************************************************************************)
(* What a run adds to the metrics, on every way through _drive, its hooks  *)
(* and its handlers.                                                       *)
(***************************************************************************)
EXTENDS Metrics, AgentTrace_proofs

\* The counters of usage agree with the run's own, at every moment.
UsageCounted ==
    /\ metrics.TOKENS_IN = tokensIn /\ metrics.TOKENS_OUT = tokensOut
    /\ metrics.TOOL_CALL_COUNT = toolCalls
    /\ metrics.MODEL_LATENCY_MS = emitted["llm_end"]

\* The latency is observed with the agent_end of the trace: not before it, once, and
\* never again, whatever the run does until its response.
LatencyCounted ==
    \/ metrics.LATENCY_MS = << >> /\ emitted["agent_end"] = 0
    \/ \E time \in 0..now : metrics.LATENCY_MS = << time >> /\ emitted["agent_end"] = 1

MetricsInv ==
    /\ MetricsTypeOK
    /\ UsageCounted
    /\ metrics.COST_USD = IF pc = "done" THEN BilledCost ELSE 0
    /\ LatencyCounted

\* Registry n differs from m in the errors and the fallbacks at most.
SameUsage(m, n) ==
    /\ n.TOKENS_IN = m.TOKENS_IN /\ n.TOKENS_OUT = m.TOKENS_OUT
    /\ n.TOOL_CALL_COUNT = m.TOOL_CALL_COUNT /\ n.MODEL_LATENCY_MS = m.MODEL_LATENCY_MS
    /\ n.COST_USD = m.COST_USD /\ n.LATENCY_MS = m.LATENCY_MS

-----------------------------------------------------------------------------
LEMMA CountErrorKeeps ==
    ASSUME NEW m \in MetricsType, NEW class \in ExceptionClasses \cup {"RuntimeError"}
    PROVE  CountError(m, class) \in MetricsType /\ SameUsage(m, CountError(m, class))
<1> DEFINE errors == [m.ERROR_COUNT EXCEPT ![class] = m.ERROR_COUNT[class] + 1]
<1>1. m.ERROR_COUNT \in [ExceptionClasses \cup {"RuntimeError"} -> Nat]
    BY DEF MetricsType
<1>2. errors \in [ExceptionClasses \cup {"RuntimeError"} -> Nat]
    BY <1>1
<1>3. CountError(m, class) = [m EXCEPT !.ERROR_COUNT = errors]
    BY DEF CountError
<1>4. QED
    <2> HIDE DEF errors
    <2> QED
        BY <1>2, <1>3 DEF MetricsType, SameUsage

LEMMA CountFallbackKeeps ==
    ASSUME NEW m \in MetricsType, NEW strategy \in Strategies
    PROVE  CountFallback(m, strategy) \in MetricsType /\ SameUsage(m, CountFallback(m, strategy))
<1> DEFINE fallbacks == [m.FALLBACK_COUNT EXCEPT ![strategy] = m.FALLBACK_COUNT[strategy] + 1]
<1>1. m.FALLBACK_COUNT \in [Strategies -> Nat]
    BY DEF MetricsType
<1>2. fallbacks \in [Strategies -> Nat]
    BY <1>1
<1>3. CountFallback(m, strategy) = [m EXCEPT !.FALLBACK_COUNT = fallbacks]
    BY DEF CountFallback
<1>4. QED
    <2> HIDE DEF fallbacks
    <2> QED
        BY <1>2, <1>3 DEF MetricsType, SameUsage

\* A failure counts one error and one fallback, and nothing of the usage.
LEMMA CountFailureKeeps ==
    ASSUME NEW m \in MetricsType, NEW exception \in ExceptionClasses, attempt = 1
    PROVE  CountFailure(m, exception) \in MetricsType /\ SameUsage(m, CountFailure(m, exception))
<1>1. DecideFallback(KindOf(exception), attempt) \in Strategies
    BY FirstAttemptRouting DEF Strategies
<1>2. /\ CountError(m, exception) \in MetricsType
      /\ SameUsage(m, CountError(m, exception))
    BY CountErrorKeeps
<1>3. /\ CountFailure(m, exception) \in MetricsType
      /\ SameUsage(CountError(m, exception), CountFailure(m, exception))
    BY <1>1, <1>2, CountFallbackKeeps DEF CountFailure
<1>4. QED
    BY <1>2, <1>3 DEF SameUsage

LEMMA CountResponseKeeps ==
    ASSUME NEW m \in MetricsType, NEW usage \in Usages
    PROVE  LET n == CountResponse(m, usage)
           IN /\ n \in MetricsType
              /\ n.TOKENS_IN = m.TOKENS_IN + usage.input
              /\ n.TOKENS_OUT = m.TOKENS_OUT + usage.output
              /\ n.MODEL_LATENCY_MS = m.MODEL_LATENCY_MS + 1
              /\ n.TOOL_CALL_COUNT = m.TOOL_CALL_COUNT
              /\ n.COST_USD = m.COST_USD /\ n.LATENCY_MS = m.LATENCY_MS
<1> DEFINE n == CountResponse(m, usage)
<1>1. usage.input \in Nat /\ usage.output \in Nat
    BY RunAssumption
<1>2. /\ m.TOKENS_IN + usage.input \in Nat /\ m.TOKENS_OUT + usage.output \in Nat
      /\ m.MODEL_LATENCY_MS + 1 \in Nat
    BY <1>1 DEF MetricsType
<1>3. n = [[[m EXCEPT !.TOKENS_IN = m.TOKENS_IN + usage.input]
                EXCEPT !.TOKENS_OUT = m.TOKENS_OUT + usage.output]
                EXCEPT !.MODEL_LATENCY_MS = m.MODEL_LATENCY_MS + 1]
    BY DEF CountResponse, MetricsType
<1>4. QED
    <2> HIDE DEF n
    <2>1. n \in MetricsType
        BY <1>2, <1>3 DEF MetricsType
    <2>2. QED
        BY <1>2, <1>3, <2>1 DEF n, MetricsType

LEMMA ObserveLatencyKeeps ==
    ASSUME NEW m \in MetricsType, now \in Nat
    PROVE  LET n == ObserveLatency(m)
           IN /\ n \in MetricsType
              /\ n.LATENCY_MS = Append(m.LATENCY_MS, now)
              /\ n.TOKENS_IN = m.TOKENS_IN /\ n.TOKENS_OUT = m.TOKENS_OUT
              /\ n.TOOL_CALL_COUNT = m.TOOL_CALL_COUNT
              /\ n.MODEL_LATENCY_MS = m.MODEL_LATENCY_MS /\ n.COST_USD = m.COST_USD
<1>1. Append(m.LATENCY_MS, now) \in Seq(Nat)
    BY DEF MetricsType
<1>2. QED
    BY <1>1 DEF ObserveLatency, MetricsType

\* A counter that is set to a number stays a counter, and the others stay.
LEMMA SetCounters ==
    ASSUME NEW m \in MetricsType, NEW v \in Nat
    PROVE  /\ [m EXCEPT !.AGENT_RUNS_TOTAL = v] \in MetricsType
           /\ SameUsage(m, [m EXCEPT !.AGENT_RUNS_TOTAL = v])
           /\ [m EXCEPT !.TOOL_LATENCY_MS = v] \in MetricsType
           /\ SameUsage(m, [m EXCEPT !.TOOL_LATENCY_MS = v])
           /\ [m EXCEPT !.TOOL_CALL_COUNT = v] \in MetricsType
           /\ LET n == [m EXCEPT !.TOOL_CALL_COUNT = v]
              IN /\ n.TOOL_CALL_COUNT = v /\ n.COST_USD = m.COST_USD
                 /\ n.TOKENS_IN = m.TOKENS_IN /\ n.TOKENS_OUT = m.TOKENS_OUT
                 /\ n.MODEL_LATENCY_MS = m.MODEL_LATENCY_MS /\ n.LATENCY_MS = m.LATENCY_MS
           /\ [m EXCEPT !.COST_USD = v] \in MetricsType
           /\ LET n == [m EXCEPT !.COST_USD = v]
              IN /\ n.COST_USD = v /\ n.TOOL_CALL_COUNT = m.TOOL_CALL_COUNT
                 /\ n.TOKENS_IN = m.TOKENS_IN /\ n.TOKENS_OUT = m.TOKENS_OUT
                 /\ n.MODEL_LATENCY_MS = m.MODEL_LATENCY_MS /\ n.LATENCY_MS = m.LATENCY_MS
<1>1. /\ [m EXCEPT !.AGENT_RUNS_TOTAL = v] \in MetricsType
      /\ SameUsage(m, [m EXCEPT !.AGENT_RUNS_TOTAL = v])
    BY DEF MetricsType, SameUsage
<1>2. /\ [m EXCEPT !.TOOL_LATENCY_MS = v] \in MetricsType
      /\ SameUsage(m, [m EXCEPT !.TOOL_LATENCY_MS = v])
    BY DEF MetricsType, SameUsage
<1>3. [m EXCEPT !.TOOL_CALL_COUNT = v] \in MetricsType
    BY DEF MetricsType
<1>4. [m EXCEPT !.COST_USD = v] \in MetricsType
    BY DEF MetricsType
<1>5. QED
    BY <1>1, <1>2, <1>3, <1>4 DEF MetricsType

-----------------------------------------------------------------------------
\* A step before the response, with the right counters, keeps the invariant.
LEMMA NotYetBilled ==
    ASSUME metrics' \in MetricsType, UsageCounted', LatencyCounted',
           metrics'.COST_USD = 0, pc' # "done"
    PROVE  MetricsInv'
BY DEF MetricsInv, MetricsTypeOK

\* What is observed stays so while no agent_end is emitted; the clock only advances.
LEMMA LatencyKept ==
    ASSUME IInv, MetricsInv,
           metrics'.LATENCY_MS = metrics.LATENCY_MS,
           emitted'["agent_end"] = emitted["agent_end"],
           now' = now \/ (now' \in Nat /\ now <= now')
    PROVE  LatencyCounted'
<1>1. now \in Nat /\ now' \in Nat /\ now <= now'
    BY DEF IInv, TypeOK
<1>2. 0..now \subseteq 0..now'
    BY <1>1
<1>3. LatencyCounted
    BY DEF MetricsInv
<1>4. QED
    BY <1>2, <1>3 DEF LatencyCounted

\* An exception that leaves the `try`: no response yet, no "ok" any more, and a
\* model response is in the trace only if it came in the same step.
LEMMA FailLeaves ==
    ASSUME IInv, pc \in {"turn", "llm", "tools", "ending"},
           NEW exception \in ExceptionClasses,
           NEW kinds \in {{}, {"llm_end"}},
           Fail(exception, kinds)
    PROVE  /\ pc # "done" /\ pc' # "done" /\ attempt = 1
           /\ emitted'["llm_end"] = emitted["llm_end"] + IF kinds = {"llm_end"} THEN 1 ELSE 0
           /\ emitted'["agent_end"] = emitted["agent_end"]
<1>1. \/ pc' = "backoff"
      \/ pc' = "post" /\ status' = "partial"
    <2>1. DecideFallback(KindOf(exception), attempt) \in {"RETRY_BACKOFF", "PARTIAL_ANSWER"}
        BY FirstAttemptRouting DEF IInv, AttemptInv
    <2>2. QED
        BY <2>1 DEF Fail, Reruns
<1>2. attempt = 1
    BY DEF IInv, AttemptInv
<1> DEFINE all == kinds \cup {"error", "fallback"}
<1>3. all \in SUBSET ActionTypes /\ Emit(all)
    BY DEF Fail, ActionTypes
<1>4. ("llm_end" \in all <=> kinds = {"llm_end"}) /\ "agent_end" \notin all
    OBVIOUS
<1>5. /\ emitted'["llm_end"] = emitted["llm_end"] + IF kinds = {"llm_end"} THEN 1 ELSE 0
      /\ emitted'["agent_end"] = emitted["agent_end"]
    <2> HIDE DEF all
    <2> QED
        BY <1>3, <1>4, CountedEach, TraceTypes
<1>6. QED
    BY <1>1, <1>2, <1>5

\* A failure without a model response counts an error and a fallback only.
LEMMA FailCounts ==
    ASSUME IInv, MetricsInv, pc \in {"turn", "llm", "tools", "ending"},
           NEW exception \in ExceptionClasses,
           Fail(exception, {}), metrics' = CountFailure(metrics, exception),
           UNCHANGED << usageVars, now >>
    PROVE  MetricsInv'
<1>1. /\ pc # "done" /\ pc' # "done" /\ attempt = 1
      /\ emitted'["agent_end"] = emitted["agent_end"]
      /\ emitted'["llm_end"] = emitted["llm_end"]
    BY FailLeaves, TraceTypes DEF ActionTypes
<1>2. metrics' \in MetricsType /\ SameUsage(metrics, metrics')
    BY <1>1, CountFailureKeeps DEF MetricsInv, MetricsTypeOK
<1>3. UsageCounted'
    BY <1>1, <1>2 DEF MetricsInv, UsageCounted, SameUsage, usageVars
<1>4. metrics'.COST_USD = 0
    BY <1>1, <1>2 DEF MetricsInv, SameUsage
<1>5. LatencyCounted'
    BY <1>1, <1>2, LatencyKept DEF SameUsage
<1>6. QED
    BY <1>1, <1>2, <1>3, <1>4, <1>5, NotYetBilled

LEMMA FailuresCount ==
    ASSUME IInv, MetricsInv,
           \/ MExceedTurns
           \/ \E exception \in ProviderErrors : MLlmRaises(exception)
           \/ MMisbehave
           \/ \E raw \in RawOutputs : MRejectFinal(raw)
           \/ \E exception \in LateErrors : MEndRaises(exception)
           \/ MWaitForTimeout
    PROVE  MetricsInv'
<1>1. CASE MExceedTurns
    BY <1>1, FailCounts DEF MExceedTurns, ExceedTurns, ExceptionClasses
<1>2. ASSUME NEW exception \in ProviderErrors, MLlmRaises(exception) PROVE MetricsInv'
    <2>1. exception \in ExceptionClasses
        BY DEF ProviderErrors, ExceptionClasses
    <2>2. QED
        BY <1>2, <2>1, FailCounts DEF MLlmRaises, LlmRaises
<1>3. CASE MMisbehave
    BY <1>3, FailCounts DEF MMisbehave, Misbehave, ExceptionClasses
<1>4. CASE MWaitForTimeout
    <2>1. pc \in {"turn", "llm", "tools", "ending"}
        BY <1>4 DEF MWaitForTimeout, WaitForTimeout, RunnerWaits
    <2>2. QED
        BY <1>4, <2>1, FailCounts DEF MWaitForTimeout, WaitForTimeout, ExceptionClasses
<1>5. ASSUME NEW raw \in RawOutputs, MRejectFinal(raw) PROVE MetricsInv'
    <2>1. CoerceRaises(raw) \in ExceptionClasses
        BY <1>5 DEF MRejectFinal, RejectFinal, CoerceRaises, ExceptionClasses
    <2>2. QED
        BY <1>5, <2>1, FailCounts DEF MRejectFinal, RejectFinal
<1>6. ASSUME NEW exception \in LateErrors, MEndRaises(exception) PROVE MetricsInv'
    <2>1. exception \in ExceptionClasses
        BY DEF LateErrors, ExceptionClasses
    <2>2. QED
        BY <1>6, <2>1, FailCounts DEF MEndRaises, EndRaises
<1>7. QED
    BY <1>1, <1>2, <1>3, <1>4, <1>5, <1>6

\* The warning hook raises on a response that has been counted.
LEMMA HookFailureCounts ==
    ASSUME IInv, MetricsInv, NEW usage \in Usages, MLlmHookRaises(usage)
    PROVE  MetricsInv'
<1> DEFINE counted == CountResponse(metrics, usage)
<1>1. /\ pc = "llm" /\ Fail("Exception", {"llm_end"}) /\ "Exception" \in ExceptionClasses
      /\ tokensIn' = tokensIn + usage.input /\ tokensOut' = tokensOut + usage.output
      /\ toolCalls' = toolCalls /\ now' = now
      /\ metrics' = CountFailure(counted, "Exception")
    BY DEF MLlmHookRaises, LlmHookRaises, CountUsage, ExceptionClasses
<1>2. /\ pc' # "done" /\ attempt = 1
      /\ emitted'["llm_end"] = emitted["llm_end"] + 1
      /\ emitted'["agent_end"] = emitted["agent_end"]
    BY <1>1, FailLeaves
<1>3. /\ counted \in MetricsType
      /\ counted.TOKENS_IN = metrics.TOKENS_IN + usage.input
      /\ counted.TOKENS_OUT = metrics.TOKENS_OUT + usage.output
      /\ counted.MODEL_LATENCY_MS = metrics.MODEL_LATENCY_MS + 1
      /\ counted.TOOL_CALL_COUNT = metrics.TOOL_CALL_COUNT
      /\ counted.COST_USD = metrics.COST_USD /\ counted.LATENCY_MS = metrics.LATENCY_MS
    BY CountResponseKeeps DEF MetricsInv, MetricsTypeOK
<1>4. metrics' \in MetricsType /\ SameUsage(counted, metrics')
    <2> HIDE DEF counted
    <2> QED
        BY <1>1, <1>2, <1>3, CountFailureKeeps
<1>5. UsageCounted' /\ metrics'.COST_USD = 0
    <2> HIDE DEF counted
    <2> QED
        BY <1>1, <1>2, <1>3, <1>4 DEF MetricsInv, UsageCounted, SameUsage
<1>6. LatencyCounted'
    <2> HIDE DEF counted
    <2> QED
        BY <1>1, <1>2, <1>3, <1>4, LatencyKept DEF SameUsage
<1>7. QED
    BY <1>2, <1>4, <1>5, <1>6, NotYetBilled

-----------------------------------------------------------------------------
\* No model could be built: one error, and nothing else.
LEMMA BuildFailureCounts == ASSUME IInv, MetricsInv, MBuildModelRaises PROVE MetricsInv'
<1>1. /\ pc = "start" /\ pc' = "post" /\ status' = "error"
      /\ UNCHANGED << tokensIn, tokensOut, toolCalls, emitted, now >>
      /\ metrics' = CountError(metrics, "RuntimeError")
    BY DEF MBuildModelRaises, BuildModelRaises, usageVars
<1>2. metrics' \in MetricsType /\ SameUsage(metrics, metrics')
    BY <1>1, CountErrorKeeps DEF MetricsInv, MetricsTypeOK
<1>3. UsageCounted' /\ metrics'.COST_USD = 0
    BY <1>1, <1>2 DEF MetricsInv, UsageCounted, SameUsage
<1>4. LatencyCounted'
    BY <1>1, <1>2, LatencyKept DEF SameUsage
<1>5. QED
    BY <1>1, <1>2, <1>3, <1>4, NotYetBilled

\* A run is counted when its first turn begins.
LEMMA BeginTurnCounts == ASSUME IInv, MetricsInv, MBeginTurn PROVE MetricsInv'
<1> DEFINE kinds == {"llm_start"} \cup (IF turn = 0 THEN StartEvents ELSE {})
<1>1. /\ pc = "turn" /\ pc' = "llm" /\ Emit(kinds)
      /\ UNCHANGED << tokensIn, tokensOut, toolCalls, now >>
      /\ metrics' = [metrics EXCEPT !.AGENT_RUNS_TOTAL = @ + (IF turn = 0 THEN 1 ELSE 0)]
    BY DEF MBeginTurn, BeginTurn, usageVars
<1>2. kinds \in SUBSET ActionTypes /\ "llm_end" \notin kinds /\ "agent_end" \notin kinds
    BY DEF ActionTypes, StartEvents
<1>3. /\ emitted'["llm_end"] = emitted["llm_end"]
      /\ emitted'["agent_end"] = emitted["agent_end"]
    <2> HIDE DEF kinds
    <2> QED
        BY <1>1, <1>2, CountedEach, TraceTypes
<1>4. metrics' \in MetricsType /\ SameUsage(metrics, metrics')
    <2> DEFINE total == metrics.AGENT_RUNS_TOTAL + (IF turn = 0 THEN 1 ELSE 0)
    <2>1. metrics \in MetricsType /\ total \in Nat
        BY DEF MetricsInv, MetricsTypeOK, MetricsType
    <2>2. metrics' = [metrics EXCEPT !.AGENT_RUNS_TOTAL = total]
        BY <1>1
    <2> HIDE DEF total
    <2>3. QED
        BY <2>1, <2>2, SetCounters
<1>5. UsageCounted' /\ metrics'.COST_USD = 0
    BY <1>1, <1>3, <1>4 DEF MetricsInv, UsageCounted, SameUsage
<1>6. LatencyCounted'
    BY <1>1, <1>3, <1>4, LatencyKept DEF SameUsage
<1>7. QED
    BY <1>1, <1>4, <1>5, <1>6, NotYetBilled

LEMMA LlmReturnsCounts ==
    ASSUME IInv, MetricsInv, NEW usage \in Usages,
           NEW tools \in BoundedSeq(Tools, MaxParallel), NEW message \in Texts,
           MLlmReturns(usage, tools, message)
    PROVE  MetricsInv'
<1>1. PICK warned \in Warnings(usage) :
        Emit({"llm_end"} \cup IF warned THEN {"budget_warning"} ELSE {})
    BY DEF MLlmReturns, LlmReturns
<1> DEFINE kinds == {"llm_end"} \cup IF warned THEN {"budget_warning"} ELSE {}
<1>2. /\ pc = "llm" /\ pc' = "tools" /\ Emit(kinds) /\ toolCalls' = toolCalls
      /\ tokensIn' = tokensIn + usage.input /\ tokensOut' = tokensOut + usage.output
      /\ now' = now /\ metrics' = CountResponse(metrics, usage)
    BY <1>1 DEF MLlmReturns, LlmReturns, CountUsage
<1>3. kinds \in SUBSET ActionTypes /\ "llm_end" \in kinds /\ "agent_end" \notin kinds
    BY DEF ActionTypes
<1>4. /\ emitted'["llm_end"] = emitted["llm_end"] + 1
      /\ emitted'["agent_end"] = emitted["agent_end"]
    <2> HIDE DEF kinds
    <2> QED
        BY <1>2, <1>3, CountedEach, TraceTypes
<1>5. /\ metrics' \in MetricsType
      /\ metrics'.TOKENS_IN = metrics.TOKENS_IN + usage.input
      /\ metrics'.TOKENS_OUT = metrics.TOKENS_OUT + usage.output
      /\ metrics'.MODEL_LATENCY_MS = metrics.MODEL_LATENCY_MS + 1
      /\ metrics'.TOOL_CALL_COUNT = metrics.TOOL_CALL_COUNT
      /\ metrics'.COST_USD = metrics.COST_USD /\ metrics'.LATENCY_MS = metrics.LATENCY_MS
    BY <1>2, CountResponseKeeps DEF MetricsInv, MetricsTypeOK
<1>6. UsageCounted' /\ metrics'.COST_USD = 0
    BY <1>2, <1>4, <1>5 DEF MetricsInv, UsageCounted
<1>7. LatencyCounted'
    BY <1>2, <1>4, <1>5, LatencyKept
<1>8. QED
    BY <1>2, <1>5, <1>6, <1>7, NotYetBilled

LEMMA ToolStartCounts ==
    ASSUME IInv, MetricsInv, NEW i \in DOMAIN calls, MToolStart(i)
    PROVE  MetricsInv'
<1> DEFINE kinds == {"tool_start", "reasoning_summary"}
<1>1. /\ pc = "tools" /\ pc' = "tools" /\ Emit(kinds) /\ toolCalls' = toolCalls + 1
      /\ UNCHANGED << tokensIn, tokensOut, now >>
      /\ metrics' = [metrics EXCEPT !.TOOL_CALL_COUNT = @ + 1]
    BY DEF MToolStart, ToolStart
<1>2. kinds \in SUBSET ActionTypes /\ "llm_end" \notin kinds /\ "agent_end" \notin kinds
    BY DEF ActionTypes
<1>3. /\ emitted'["llm_end"] = emitted["llm_end"]
      /\ emitted'["agent_end"] = emitted["agent_end"]
    <2> HIDE DEF kinds
    <2> QED
        BY <1>1, <1>2, CountedEach, TraceTypes
<1>4. /\ metrics' \in MetricsType
      /\ metrics'.TOOL_CALL_COUNT = metrics.TOOL_CALL_COUNT + 1
      /\ metrics'.TOKENS_IN = metrics.TOKENS_IN /\ metrics'.TOKENS_OUT = metrics.TOKENS_OUT
      /\ metrics'.MODEL_LATENCY_MS = metrics.MODEL_LATENCY_MS
      /\ metrics'.COST_USD = metrics.COST_USD /\ metrics'.LATENCY_MS = metrics.LATENCY_MS
    <2> DEFINE total == metrics.TOOL_CALL_COUNT + 1
    <2>1. metrics \in MetricsType /\ total \in Nat
        BY DEF MetricsInv, MetricsTypeOK, MetricsType
    <2>2. metrics' = [metrics EXCEPT !.TOOL_CALL_COUNT = total]
        BY <1>1
    <2>3. /\ metrics' \in MetricsType /\ metrics'.TOOL_CALL_COUNT = total
          /\ metrics'.TOKENS_IN = metrics.TOKENS_IN /\ metrics'.TOKENS_OUT = metrics.TOKENS_OUT
          /\ metrics'.MODEL_LATENCY_MS = metrics.MODEL_LATENCY_MS
          /\ metrics'.COST_USD = metrics.COST_USD /\ metrics'.LATENCY_MS = metrics.LATENCY_MS
        <3> HIDE DEF total
        <3> QED
            BY <2>1, <2>2, SetCounters
    <2>4. QED
        BY <2>3
<1>5. UsageCounted' /\ metrics'.COST_USD = 0
    BY <1>1, <1>3, <1>4 DEF MetricsInv, UsageCounted
<1>6. LatencyCounted'
    BY <1>1, <1>3, <1>4, LatencyKept
<1>7. QED
    BY <1>1, <1>4, <1>5, <1>6, NotYetBilled

LEMMA ToolEndCounts ==
    ASSUME IInv, MetricsInv, NEW i \in DOMAIN calls, MToolEnd(i)
    PROVE  MetricsInv'
<1>1. /\ pc = "tools" /\ pc' = "tools" /\ Emit({"tool_end"})
      /\ UNCHANGED << tokensIn, tokensOut, toolCalls, now >>
      /\ metrics' = [metrics EXCEPT !.TOOL_LATENCY_MS =
                         @ + (IF ToolLatency(calls[i].tool) = None THEN 0 ELSE 1)]
    BY DEF MToolEnd, ToolEnd, usageVars
<1>2. /\ {"tool_end"} \in SUBSET ActionTypes
      /\ "llm_end" \notin {"tool_end"} /\ "agent_end" \notin {"tool_end"}
    BY DEF ActionTypes
<1>3. /\ emitted'["llm_end"] = emitted["llm_end"]
      /\ emitted'["agent_end"] = emitted["agent_end"]
    <2> DEFINE kinds == {"tool_end"}
    <2>1. /\ kinds \in SUBSET ActionTypes /\ Emit(kinds)
          /\ "llm_end" \notin kinds /\ "agent_end" \notin kinds
        BY <1>1, <1>2
    <2> HIDE DEF kinds
    <2>2. QED
        BY <2>1, CountedEach, TraceTypes
<1>4. metrics' \in MetricsType /\ SameUsage(metrics, metrics')
    <2> DEFINE total == metrics.TOOL_LATENCY_MS +
                            (IF ToolLatency(calls[i].tool) = None THEN 0 ELSE 1)
    <2>1. metrics \in MetricsType /\ total \in Nat
        BY DEF MetricsInv, MetricsTypeOK, MetricsType
    <2>2. metrics' = [metrics EXCEPT !.TOOL_LATENCY_MS = total]
        BY <1>1
    <2> HIDE DEF total
    <2>3. QED
        BY <2>1, <2>2, SetCounters
<1>5. UsageCounted' /\ metrics'.COST_USD = 0
    BY <1>1, <1>3, <1>4 DEF MetricsInv, UsageCounted, SameUsage
<1>6. LatencyCounted'
    BY <1>1, <1>3, <1>4, LatencyKept DEF SameUsage
<1>7. QED
    BY <1>1, <1>4, <1>5, <1>6, NotYetBilled

\* The end hooks: the latency is observed with the first agent_end of the trace.
LEMMA AgentEndsCounts ==
    ASSUME IInv, TraceInv, MetricsInv, MAgentEnds
    PROVE  MetricsInv'
<1>1. /\ pc = "tools" /\ pc' = "ending" /\ Emit(EndEvents) /\ now' = now
      /\ UNCHANGED << tokensIn, tokensOut, toolCalls >>
      /\ metrics' = ObserveLatency(metrics)
    BY DEF MAgentEnds, AgentEnds, usageVars
<1>2. /\ EndEvents \in SUBSET ActionTypes
      /\ "llm_end" \notin EndEvents /\ "agent_end" \in EndEvents
    BY DEF ActionTypes, EndEvents
<1>3. emitted["agent_end"] = 0
    BY <1>1 DEF TraceInv, RunningTrace, Running
<1>4. emitted'["llm_end"] = emitted["llm_end"] /\ emitted'["agent_end"] = 1
    BY <1>1, <1>2, <1>3, CountedEach, TraceTypes
<1>5. /\ metrics' \in MetricsType
      /\ metrics'.LATENCY_MS = Append(metrics.LATENCY_MS, now)
      /\ metrics'.TOKENS_IN = metrics.TOKENS_IN /\ metrics'.TOKENS_OUT = metrics.TOKENS_OUT
      /\ metrics'.TOOL_CALL_COUNT = metrics.TOOL_CALL_COUNT
      /\ metrics'.MODEL_LATENCY_MS = metrics.MODEL_LATENCY_MS
      /\ metrics'.COST_USD = metrics.COST_USD
    BY <1>1, ObserveLatencyKeeps DEF MetricsInv, MetricsTypeOK, IInv, TypeOK
<1>6. metrics.LATENCY_MS = << >>
    BY <1>3 DEF MetricsInv, LatencyCounted
<1>7. metrics'.LATENCY_MS = << now' >> /\ now' \in 0..now'
    BY <1>1, <1>5, <1>6 DEF IInv, TypeOK
<1>8. LatencyCounted'
    BY <1>4, <1>7 DEF LatencyCounted
<1>9. UsageCounted' /\ metrics'.COST_USD = 0
    BY <1>1, <1>4, <1>5 DEF MetricsInv, UsageCounted
<1>10. QED
    BY <1>1, <1>5, <1>8, <1>9, NotYetBilled

\* The budget check counts a fallback where it degrades an answer.
LEMMA EnforceBudgetCounts == ASSUME IInv, MetricsInv, MEnforceBudget PROVE MetricsInv'
<1>1. /\ pc = "post" /\ pc' = "closing" /\ now' = now
      /\ UNCHANGED << tokensIn, tokensOut, toolCalls >>
    BY DEF MEnforceBudget, EnforceBudget, usageVars
<1>2. CASE OverBudget
    <2>1. /\ Emit({"fallback"}) /\ status' = "partial"
          /\ metrics' = CountFallback(metrics, "PARTIAL_ANSWER")
        BY <1>2 DEF MEnforceBudget, EnforceBudget, Degrade
    <2>2. /\ {"fallback"} \in SUBSET ActionTypes
          /\ "llm_end" \notin {"fallback"} /\ "agent_end" \notin {"fallback"}
          /\ "PARTIAL_ANSWER" \in Strategies
        BY DEF ActionTypes, Strategies
    <2>3. /\ emitted'["llm_end"] = emitted["llm_end"]
          /\ emitted'["agent_end"] = emitted["agent_end"]
        BY <2>1, <2>2, CountedEach, TraceTypes
    <2>4. metrics' \in MetricsType /\ SameUsage(metrics, metrics')
        BY <2>1, <2>2, CountFallbackKeeps DEF MetricsInv, MetricsTypeOK
    <2>5. UsageCounted' /\ metrics'.COST_USD = 0
        BY <1>1, <2>3, <2>4 DEF MetricsInv, UsageCounted, SameUsage
    <2>6. LatencyCounted'
        BY <1>1, <2>3, <2>4, LatencyKept DEF SameUsage
    <2>7. QED
        BY <1>1, <2>4, <2>5, <2>6, NotYetBilled
<1>3. CASE ~ OverBudget
    <2>1. UNCHANGED << metrics, emitted, status >>
        BY <1>3 DEF MEnforceBudget, EnforceBudget
    <2>2. UsageCounted' /\ metrics'.COST_USD = 0 /\ metrics' \in MetricsType
        BY <1>1, <2>1 DEF MetricsInv, MetricsTypeOK, UsageCounted
    <2>3. LatencyCounted'
        BY <1>1, <2>1, LatencyKept
    <2>4. QED
        BY <1>1, <2>2, <2>3, NotYetBilled
<1>4. QED
    BY <1>2, <1>3

\* The response bills what it reports.
LEMMA FinishCounts == ASSUME IInv, MetricsInv, MFinish PROVE MetricsInv'
<1>1. /\ pc = "closing" /\ pc' = "done" /\ UNCHANGED emitted
      /\ now' \in now..(now + Gap)
      /\ UNCHANGED << configVars, model, tokensIn, tokensOut, toolCalls >>
      /\ metrics' = [metrics EXCEPT !.COST_USD = @ + BilledCost]
    BY DEF MFinish, Finish, CountCost, usageVars, answerVars
<1>2. BilledCost \in Nat /\ metrics.COST_USD = 0 /\ metrics \in MetricsType
    BY <1>1, BilledCostType DEF IInv, MetricsInv, MetricsTypeOK
<1>3. BilledCost' = BilledCost
    BY <1>1 DEF BilledCost, BilledModel, configVars
<1>4. /\ metrics' \in MetricsType /\ metrics'.COST_USD = BilledCost
      /\ metrics'.TOKENS_IN = metrics.TOKENS_IN /\ metrics'.TOKENS_OUT = metrics.TOKENS_OUT
      /\ metrics'.TOOL_CALL_COUNT = metrics.TOOL_CALL_COUNT
      /\ metrics'.MODEL_LATENCY_MS = metrics.MODEL_LATENCY_MS
      /\ metrics'.LATENCY_MS = metrics.LATENCY_MS
    <2> DEFINE total == metrics.COST_USD + BilledCost
    <2>1. total \in Nat /\ total = BilledCost
        BY <1>2
    <2>2. metrics' = [metrics EXCEPT !.COST_USD = total]
        BY <1>1
    <2>3. /\ metrics' \in MetricsType /\ metrics'.COST_USD = total
          /\ metrics'.TOKENS_IN = metrics.TOKENS_IN /\ metrics'.TOKENS_OUT = metrics.TOKENS_OUT
          /\ metrics'.TOOL_CALL_COUNT = metrics.TOOL_CALL_COUNT
          /\ metrics'.MODEL_LATENCY_MS = metrics.MODEL_LATENCY_MS
          /\ metrics'.LATENCY_MS = metrics.LATENCY_MS
        <3> HIDE DEF total
        <3> QED
            BY <1>2, <2>1, <2>2, SetCounters
    <2>4. QED
        BY <2>1, <2>3
<1>5. UsageCounted'
    BY <1>1, <1>4 DEF MetricsInv, UsageCounted
<1>6. now' \in Nat /\ now <= now'
    BY <1>1, RunAssumption DEF IInv, TypeOK
<1>7. LatencyCounted'
    BY <1>1, <1>4, <1>6, LatencyKept
<1>8. QED
    BY <1>1, <1>3, <1>4, <1>5, <1>7 DEF MetricsInv, MetricsTypeOK

\* What counts nothing moves no counter of the run either.
LEMMA UncountedKeeps ==
    ASSUME IInv, MetricsInv, Uncounted \/ UNCHANGED vars, UNCHANGED metrics
    PROVE  MetricsInv'
<1>1. UNCHANGED << configVars, tokensIn, tokensOut, toolCalls, emitted >>
    BY DEF Uncounted, BuildModel, RunAgain, WakeUp, Tick, Escape, Terminated, ProduceFinal,
           vars, configVars, usageVars
<1>2. UsageCounted' /\ MetricsTypeOK'
    BY <1>1 DEF MetricsInv, UsageCounted, MetricsTypeOK
<1>3. LatencyCounted'
    <2>1. now' = now \/ now' = now + 1
        BY DEF Uncounted, BuildModel, RunAgain, WakeUp, Tick, Escape, Terminated,
               ProduceFinal, vars
    <2>2. now \in Nat
        BY DEF IInv, TypeOK
    <2>3. now' = now \/ (now' \in Nat /\ now <= now')
        BY <2>1, <2>2
    <2>4. QED
        BY <1>1, <2>3, LatencyKept
<1>4. CASE pc # "done"
    <2>1. pc' # "done"
        BY <1>4 DEF Uncounted, BuildModel, RunAgain, WakeUp, Tick, Escape, Terminated,
                    ProduceFinal, vars
    <2>2. QED
        BY <1>2, <1>3, <1>4, <2>1 DEF MetricsInv
<1>5. CASE pc = "done"
    <2>1. pc' = "done" /\ model' = model
        BY <1>5 DEF Uncounted, BuildModel, RunAgain, WakeUp, Tick, RunnerWaits, Escape,
                    Terminated, ProduceFinal, vars
    <2>2. BilledCost' = BilledCost
        BY <1>1, <2>1 DEF BilledCost, BilledModel, configVars
    <2>3. QED
        BY <1>2, <1>3, <1>5, <2>1, <2>2 DEF MetricsInv
<1>6. QED
    BY <1>4, <1>5

-----------------------------------------------------------------------------
LEMMA MetricsInitially == MInit => MetricsInv
<1> SUFFICES ASSUME MInit PROVE MetricsInv
    OBVIOUS
<1>1. /\ pc = "start" /\ tokensIn = 0 /\ tokensOut = 0 /\ toolCalls = 0
      /\ emitted["llm_end"] = 0 /\ emitted["agent_end"] = 0 /\ metrics = FreshRegistry
    BY DEF MInit, Init, ActionTypes
<1>2. FreshRegistry \in MetricsType
    <2>1. /\ [e \in ExceptionClasses \cup {"RuntimeError"} |-> 0]
               \in [ExceptionClasses \cup {"RuntimeError"} -> Nat]
          /\ [s \in Strategies |-> 0] \in [Strategies -> Nat]
          /\ << >> \in Seq(Nat)
        OBVIOUS
    <2>2. QED
        BY <2>1 DEF FreshRegistry, MetricsType
<1>3. QED
    BY <1>1, <1>2
       DEF MetricsInv, MetricsTypeOK, UsageCounted, LatencyCounted, FreshRegistry

\* Every step of the run with its metrics is a step of the run.
LEMMA MStepIsStep == MNext => Next
BY DEF MNext, MBuildModelRaises, MBeginTurn, MExceedTurns, MMisbehave, MWaitForTimeout,
       MEnforceBudget, MFinish, MToolStart, MToolEnd, MAgentEnds, MRejectFinal,
       MEndRaises, MLlmRaises, MLlmHookRaises, MLlmReturns, Uncounted, Next, LoopStep, OutsideStep

LEMMA MetricsStep ==
    ASSUME IInv, TraceInv, MetricsInv, [MNext]_metricsVars
    PROVE  MetricsInv'
<1>1. CASE MNext
    BY <1>1, BuildFailureCounts, BeginTurnCounts, FailuresCount, HookFailureCounts,
       LlmReturnsCounts, ToolStartCounts, ToolEndCounts, AgentEndsCounts,
       EnforceBudgetCounts, FinishCounts, UncountedKeeps DEF MNext
<1>2. CASE UNCHANGED metricsVars
    BY <1>2, UncountedKeeps DEF metricsVars
<1>3. QED
    BY <1>1, <1>2

LEMMA MetricsInvariance == MSpec => [](IInv /\ TraceInv /\ MetricsInv)
<1>1. MInit => IInv /\ TraceInv /\ MetricsInv
    BY InitStep, TraceInitially, MetricsInitially DEF MInit
<1>2. IInv /\ TraceInv /\ MetricsInv /\ [MNext]_metricsVars => (IInv /\ TraceInv /\ MetricsInv)'
    <2>1. [MNext]_metricsVars => [Next]_vars
        BY MStepIsStep DEF metricsVars
    <2>2. QED
        BY <2>1, NextStep, TraceStep, MetricsStep DEF TracedStep
<1>3. QED
    BY <1>1, <1>2, PTL DEF MSpec

-----------------------------------------------------------------------------
\* The registry stays a registry: every counter and every observation is a number.
THEOREM MetricsTypeCorrect == MSpec => []MetricsTypeOK
<1>1. MetricsInv => MetricsTypeOK
    BY DEF MetricsInv
<1>2. QED
    BY <1>1, MetricsInvariance, PTL

\* On every way through the run, whatever fails and whatever the model reports:
\* tokens, tool calls, model responses and the cost are counted once each, the
\* cost exactly with the response (hooks.py, _drive).
THEOREM CountersAreTheResponses == MSpec => []CountersMatchResponse
<1>1. MetricsInv => CountersMatchResponse
    BY DEF MetricsInv, UsageCounted, CountersMatchResponse
<1>2. QED
    BY <1>1, MetricsInvariance, PTL

\* On every way through the run, a timeout, an error or a rejection after the end
\* hooks included: no run is in the latency histogram twice, it is there exactly when
\* its trace has the agent_end, with a time that has passed, and an "ok" run is there
\* (ResearchRunHooks.on_agent_end, _drive).
THEOREM LatencyIsObservedOnce == MSpec => []LatencyObservedOnce
<1>1. TraceInv /\ MetricsInv => LatencyObservedOnce
    <2> SUFFICES ASSUME TraceInv, MetricsInv PROVE LatencyObservedOnce
        OBVIOUS
    <2>1. pc = "done" /\ status = "ok" => emitted["agent_end"] = 1
        BY DEF TraceInv, WholeTrace, Settled
    <2>2. CASE metrics.LATENCY_MS = << >> /\ emitted["agent_end"] = 0
        BY <2>1, <2>2 DEF LatencyObservedOnce
    <2>3. ASSUME NEW time \in 0..now, metrics.LATENCY_MS = << time >>, emitted["agent_end"] = 1
          PROVE  LatencyObservedOnce
        <3>1. Len(<< time >>) = 1 /\ DOMAIN << time >> = {1} /\ << time >>[1] <= now
            OBVIOUS
        <3>2. QED
            BY <2>3, <3>1 DEF LatencyObservedOnce
    <2>4. QED
        BY <2>2, <2>3 DEF MetricsInv, LatencyCounted
<1>2. QED
    BY <1>1, MetricsInvariance, PTL

-----------------------------------------------------------------------------
(***************************************************************************)
(* The error and the fallback counter, which nothing above speaks of.      *)
(***************************************************************************)

ErrorClasses == ExceptionClasses \cup {"RuntimeError"}

Unmoved(counter) == \A x \in DOMAIN counter : counter[x] = 0

CountedOnce(counter, x) ==
    /\ x \in DOMAIN counter /\ counter[x] = 1
    /\ \A y \in DOMAIN counter \ {x} : counter[y] = 0

\* At every moment: one error iff the run failed, and one fallback, under the strategy
\* that answers or is about to, iff it was degraded.
OutcomeInv ==
    /\ IF failure = "none" THEN Unmoved(metrics.ERROR_COUNT)
       ELSE \E e \in ErrorClasses : CountedOnce(metrics.ERROR_COUNT, e)
    /\ pc \in Running \/ (pc \in Settled /\ status # "partial") => Unmoved(metrics.FALLBACK_COUNT)
    /\ pc \in Settled /\ status = "error" => failure # "none"
    /\ pc = "backoff" =>
          failure # "none" /\ CountedOnce(metrics.FALLBACK_COUNT, "RETRY_BACKOFF")
    /\ pc \in Settled /\ status = "partial" =>
          \E s \in Strategies :
             /\ CountedOnce(metrics.FALLBACK_COUNT, s)
             /\ IF failure # "none" THEN final = FallbackAnswer(s)
                ELSE s = "PARTIAL_ANSWER" /\ final.caveat \in BreachReasons

\* The registries n that count no error and no fallback more than m.
SameFailures(m, n) ==
    n.ERROR_COUNT = m.ERROR_COUNT /\ n.FALLBACK_COUNT = m.FALLBACK_COUNT

LEMMA CountsOne ==
    ASSUME NEW S, NEW c \in [S -> Nat], Unmoved(c), NEW x \in S
    PROVE  CountedOnce([c EXCEPT ![x] = c[x] + 1], x)
BY DEF Unmoved, CountedOnce

LEMMA CountErrorTells ==
    ASSUME NEW m \in MetricsType, NEW e \in ErrorClasses, Unmoved(m.ERROR_COUNT)
    PROVE  /\ CountError(m, e) \in MetricsType
           /\ CountedOnce(CountError(m, e).ERROR_COUNT, e)
           /\ CountError(m, e).FALLBACK_COUNT = m.FALLBACK_COUNT
<1> DEFINE errors == [m.ERROR_COUNT EXCEPT ![e] = m.ERROR_COUNT[e] + 1]
<1>1. m.ERROR_COUNT \in [ErrorClasses -> Nat]
    BY DEF MetricsType, ErrorClasses
<1>2. CountedOnce(errors, e)
    BY <1>1, CountsOne
<1>3. CountError(m, e) \in MetricsType
    BY CountErrorKeeps DEF ErrorClasses
<1>4. CountError(m, e) = [m EXCEPT !.ERROR_COUNT = errors]
    BY DEF CountError
<1> HIDE DEF errors
<1>5. QED
    BY <1>2, <1>3, <1>4 DEF MetricsType

LEMMA CountFallbackTells ==
    ASSUME NEW m \in MetricsType, NEW s \in Strategies, Unmoved(m.FALLBACK_COUNT)
    PROVE  /\ CountedOnce(CountFallback(m, s).FALLBACK_COUNT, s)
           /\ CountFallback(m, s).ERROR_COUNT = m.ERROR_COUNT
<1> DEFINE fallbacks == [m.FALLBACK_COUNT EXCEPT ![s] = m.FALLBACK_COUNT[s] + 1]
<1>1. m.FALLBACK_COUNT \in [Strategies -> Nat]
    BY DEF MetricsType
<1>2. CountedOnce(fallbacks, s)
    BY <1>1, CountsOne
<1>3. CountFallback(m, s) = [m EXCEPT !.FALLBACK_COUNT = fallbacks]
    BY DEF CountFallback
<1> HIDE DEF fallbacks
<1>4. QED
    BY <1>2, <1>3 DEF MetricsType

\* A failure counts its class and its strategy, once each.
LEMMA CountFailureTells ==
    ASSUME NEW m \in MetricsType, NEW exception \in ExceptionClasses, attempt = 1,
           Unmoved(m.ERROR_COUNT), Unmoved(m.FALLBACK_COUNT)
    PROVE  /\ CountedOnce(CountFailure(m, exception).ERROR_COUNT, exception)
           /\ CountedOnce(CountFailure(m, exception).FALLBACK_COUNT,
                          DecideFallback(KindOf(exception), 1))
<1>1. DecideFallback(KindOf(exception), 1) \in Strategies
    BY FirstAttemptRouting DEF Strategies
<1> DEFINE m1 == CountError(m, exception)
<1>2. /\ m1 \in MetricsType /\ CountedOnce(m1.ERROR_COUNT, exception)
      /\ m1.FALLBACK_COUNT = m.FALLBACK_COUNT
    BY CountErrorTells DEF ErrorClasses
<1>3. CountFailure(m, exception) = CountFallback(m1, DecideFallback(KindOf(exception), 1))
    BY DEF CountFailure
<1> HIDE DEF m1
<1>4. QED
    BY <1>1, <1>2, <1>3, CountFallbackTells

\* An exception that leaves the `try`, whatever else the same step counted.
LEMMA FailTells ==
    ASSUME IInv, OutcomeInv, pc \in {"turn", "llm", "tools", "ending"},
           NEW exception \in ExceptionClasses, NEW kinds, Fail(exception, kinds),
           NEW m \in MetricsType, SameFailures(metrics, m),
           metrics' = CountFailure(m, exception)
    PROVE  OutcomeInv'
<1> DEFINE strategy == DecideFallback(KindOf(exception), 1)
<1>1. attempt = 1
    BY DEF IInv, AttemptInv
<1>2. failure = "none" /\ Unmoved(m.ERROR_COUNT) /\ Unmoved(m.FALLBACK_COUNT)
    BY DEF IInv, AnswerInv, OutcomeInv, SameFailures, Running
<1>3. /\ CountedOnce(metrics'.ERROR_COUNT, exception)
      /\ CountedOnce(metrics'.FALLBACK_COUNT, strategy)
    BY <1>1, <1>2, CountFailureTells
<1>4. strategy \in {"RETRY_BACKOFF", "PARTIAL_ANSWER"} /\ failure' # "none"
    BY FirstAttemptRouting DEF FailureKinds, Fail
<1>5. exception \in ErrorClasses
    BY DEF ErrorClasses
<1>6. CASE strategy = "RETRY_BACKOFF"
    <2>1. pc' = "backoff"
        BY <1>1, <1>6 DEF Fail, Reruns
    <2>2. QED
        BY <1>3, <1>4, <1>5, <1>6, <2>1 DEF OutcomeInv, Running, Settled
<1>7. CASE strategy = "PARTIAL_ANSWER"
    <2>1. pc' = "post" /\ status' = "partial" /\ final' = FallbackAnswer(strategy)
        BY <1>1, <1>7 DEF Fail, Reruns
    <2>2. strategy \in Strategies
        BY <1>7 DEF Strategies
    <2> HIDE DEF strategy
    <2>3. QED
        BY <1>3, <1>4, <1>5, <2>1, <2>2 DEF OutcomeInv, Running, Settled
<1>8. QED
    BY <1>4, <1>6, <1>7

LEMMA FailuresTell ==
    ASSUME IInv, MetricsInv, OutcomeInv,
           \/ MExceedTurns
           \/ \E exception \in ProviderErrors : MLlmRaises(exception)
           \/ MMisbehave
           \/ \E raw \in RawOutputs : MRejectFinal(raw)
           \/ \E exception \in LateErrors : MEndRaises(exception)
           \/ MWaitForTimeout
    PROVE  OutcomeInv'
<1>1. /\ pc \in {"turn", "llm", "tools", "ending"}
      /\ \E exception \in ExceptionClasses :
            Fail(exception, {}) /\ metrics' = CountFailure(metrics, exception)
    <2>1. CASE MExceedTurns
        BY <2>1 DEF MExceedTurns, ExceedTurns, ExceptionClasses
    <2>2. CASE \E exception \in ProviderErrors : MLlmRaises(exception)
        BY <2>2 DEF MLlmRaises, LlmRaises, ProviderErrors, ExceptionClasses
    <2>3. CASE MMisbehave
        BY <2>3 DEF MMisbehave, Misbehave, ExceptionClasses
    <2>4. CASE MWaitForTimeout
        BY <2>4 DEF MWaitForTimeout, WaitForTimeout, RunnerWaits, ExceptionClasses
    <2>5. CASE \E raw \in RawOutputs : MRejectFinal(raw)
        BY <2>5 DEF MRejectFinal, RejectFinal, CoerceRaises, ExceptionClasses
    <2>6. CASE \E exception \in LateErrors : MEndRaises(exception)
        BY <2>6 DEF MEndRaises, EndRaises, LateErrors, ExceptionClasses
    <2>7. QED
        BY <2>1, <2>2, <2>3, <2>4, <2>5, <2>6
<1>2. metrics \in MetricsType /\ SameFailures(metrics, metrics)
    BY DEF MetricsInv, MetricsTypeOK, SameFailures
<1>3. QED
    BY <1>1, <1>2, FailTells

LEMMA HookFailureTells ==
    ASSUME IInv, MetricsInv, OutcomeInv, NEW usage \in Usages, MLlmHookRaises(usage)
    PROVE  OutcomeInv'
<1> DEFINE counted == CountResponse(metrics, usage)
<1>1. /\ pc \in {"turn", "llm", "tools", "ending"} /\ Fail("Exception", {"llm_end"}) /\ "Exception" \in ExceptionClasses
      /\ metrics' = CountFailure(counted, "Exception")
    BY DEF MLlmHookRaises, LlmHookRaises, ExceptionClasses
<1>2. counted \in MetricsType
    BY CountResponseKeeps DEF MetricsInv, MetricsTypeOK
<1>3. SameFailures(metrics, counted)
    BY DEF MetricsInv, MetricsTypeOK, MetricsType, SameFailures, CountResponse
<1> HIDE DEF counted
<1>4. QED
    BY <1>1, <1>2, <1>3, FailTells

\* No model could be built: one error, no fallback.
LEMMA BuildFailureTells ==
    ASSUME IInv, MetricsInv, OutcomeInv, MBuildModelRaises
    PROVE  OutcomeInv'
<1>1. /\ pc = "start" /\ pc' = "post" /\ status' = "error" /\ failure' = "unhandled"
      /\ metrics' = CountError(metrics, "RuntimeError")
    BY DEF MBuildModelRaises, BuildModelRaises
<1>2. /\ failure = "none" /\ Unmoved(metrics.ERROR_COUNT) /\ Unmoved(metrics.FALLBACK_COUNT)
    BY <1>1 DEF IInv, AnswerInv, OutcomeInv, Running
<1>3. "RuntimeError" \in ErrorClasses /\ metrics \in MetricsType
    BY DEF ErrorClasses, MetricsInv, MetricsTypeOK
<1>4. /\ CountedOnce(metrics'.ERROR_COUNT, "RuntimeError")
      /\ metrics'.FALLBACK_COUNT = metrics.FALLBACK_COUNT
    BY <1>1, <1>2, <1>3, CountErrorTells
<1>5. QED
    BY <1>1, <1>2, <1>3, <1>4 DEF OutcomeInv, Running, Settled

\* The budget check degrades an answer that was "ok", so no fallback was counted yet.
LEMMA EnforceBudgetTells ==
    ASSUME IInv, MetricsInv, OutcomeInv, MEnforceBudget
    PROVE  OutcomeInv'
<1>1. pc = "post" /\ pc' = "closing" /\ failure' = failure
    BY DEF MEnforceBudget, EnforceBudget
<1>2. CASE OverBudget
    <2>1. /\ status = "ok" /\ status' = "partial" /\ final' = SafePartialAnswer(BudgetCheck)
          /\ metrics' = CountFallback(metrics, "PARTIAL_ANSWER")
        BY <1>2 DEF MEnforceBudget, EnforceBudget, Degrade, OverBudget
    <2>2. failure = "none" /\ Unmoved(metrics.ERROR_COUNT) /\ Unmoved(metrics.FALLBACK_COUNT)
        BY <1>1, <2>1 DEF IInv, AnswerInv, OutcomeInv, Settled
    <2>3. "PARTIAL_ANSWER" \in Strategies /\ metrics \in MetricsType
        BY DEF Strategies, MetricsInv, MetricsTypeOK
    <2>4. /\ CountedOnce(metrics'.FALLBACK_COUNT, "PARTIAL_ANSWER")
          /\ metrics'.ERROR_COUNT = metrics.ERROR_COUNT
        BY <2>1, <2>2, <2>3, CountFallbackTells
    <2>5. final'.caveat \in BreachReasons
        <3>1. BudgetCheck \in BreachReasons
            BY <1>2 DEF OverBudget, BudgetCheck, Check, BreachReasons
        <3>2. QED
            BY <2>1, <3>1 DEF SafePartialAnswer, Answer
    <2>6. QED
        BY <1>1, <2>1, <2>2, <2>3, <2>4, <2>5 DEF OutcomeInv, Running, Settled
<1>3. CASE ~ OverBudget
    <2>1. UNCHANGED << metrics, final, status >>
        BY <1>3 DEF MEnforceBudget, EnforceBudget
    <2>2. QED
        BY <1>1, <2>1 DEF OutcomeInv, Running, Settled
<1>4. QED
    BY <1>2, <1>3

\* A step that counts no failure, and moves on within the stages, keeps what is told.
LEMMA QuietTells ==
    ASSUME IInv, OutcomeInv, failure' = failure, status' = status,
           SameFailures(metrics, metrics'),
           \/ pc \in Running /\ pc' \in Running
           \/ pc \in Running /\ pc' = "post"
           \/ pc \in Settled /\ pc' \in Settled /\ final' = final
    PROVE  OutcomeInv'
<1>1. pc \in Running => status = "ok"
    BY DEF IInv, AnswerInv
<1>2. QED
    BY <1>1 DEF OutcomeInv, SameFailures, Running, Settled

LEMMA OthersTell ==
    ASSUME IInv, MetricsInv, OutcomeInv,
           \/ MBeginTurn
           \/ \E i \in DOMAIN calls : MToolStart(i) \/ MToolEnd(i)
           \/ MAgentEnds
           \/ \E usage \in Usages :
                 \E tools \in BoundedSeq(Tools, MaxParallel), message \in Texts :
                    MLlmReturns(usage, tools, message)
           \/ MFinish
    PROVE  OutcomeInv'
<1>1. metrics \in MetricsType
    BY DEF MetricsInv, MetricsTypeOK
<1> USE DEF SameFailures, MetricsType, Running, Settled
<1>2. CASE MBeginTurn
    <2>1. /\ failure' = failure /\ status' = status /\ pc = "turn" /\ pc' = "llm"
          /\ metrics' = [metrics EXCEPT !.AGENT_RUNS_TOTAL = @ + (IF turn = 0 THEN 1 ELSE 0)]
        BY <1>2 DEF MBeginTurn, BeginTurn, answerVars
    <2>2. SameFailures(metrics, metrics')
        BY <1>1, <2>1
    <2>3. QED
        BY <2>1, <2>2, QuietTells
<1>3. ASSUME NEW i \in DOMAIN calls, MToolStart(i) PROVE OutcomeInv'
    <2>1. /\ UNCHANGED answerVars /\ pc = "tools" /\ pc' = "tools"
          /\ metrics' = [metrics EXCEPT !.TOOL_CALL_COUNT = @ + 1]
        BY <1>3 DEF MToolStart, ToolStart
    <2>2. SameFailures(metrics, metrics')
        BY <1>1, <2>1
    <2>3. QED
        BY <2>1, <2>2, QuietTells DEF answerVars
<1>4. ASSUME NEW i \in DOMAIN calls, MToolEnd(i) PROVE OutcomeInv'
    <2>1. /\ failure' = failure /\ status' = status /\ pc = "tools" /\ pc' = "tools"
          /\ metrics' = [metrics EXCEPT !.TOOL_LATENCY_MS =
                             @ + (IF ToolLatency(calls[i].tool) = None THEN 0 ELSE 1)]
        BY <1>4 DEF MToolEnd, ToolEnd, answerVars
    <2>2. SameFailures(metrics, metrics')
        BY <1>1, <2>1
    <2>3. QED
        BY <2>1, <2>2, QuietTells
<1>5. CASE MAgentEnds
    <2>1. /\ failure' = failure /\ status' = status /\ pc = "tools" /\ pc' = "ending"
          /\ metrics' = ObserveLatency(metrics)
        BY <1>5 DEF MAgentEnds, AgentEnds, answerVars
    <2>2. SameFailures(metrics, metrics')
        BY <1>1, <2>1 DEF ObserveLatency
    <2>3. QED
        BY <2>1, <2>2, QuietTells
<1>6. ASSUME NEW usage \in Usages, NEW tools \in BoundedSeq(Tools, MaxParallel),
             NEW message \in Texts, MLlmReturns(usage, tools, message)
      PROVE  OutcomeInv'
    <2>1. /\ failure' = failure /\ status' = status /\ pc = "llm" /\ pc' = "tools"
          /\ metrics' = CountResponse(metrics, usage)
        BY <1>6 DEF MLlmReturns, LlmReturns, answerVars
    <2>2. SameFailures(metrics, metrics')
        BY <1>1, <2>1 DEF CountResponse
    <2>3. QED
        BY <2>1, <2>2, QuietTells
<1>7. CASE MFinish
    <2>1. /\ failure' = failure /\ status' = status /\ pc = "closing" /\ pc' = "done"
          /\ final' = final /\ metrics' = [metrics EXCEPT !.COST_USD = @ + BilledCost]
        BY <1>7 DEF MFinish, Finish, answerVars, CountCost
    <2>2. SameFailures(metrics, metrics')
        BY <1>1, <2>1
    <2>3. QED
        BY <2>1, <2>2, QuietTells
<1>8. QED
    BY <1>2, <1>3, <1>4, <1>5, <1>6, <1>7

\* The backoff ends in the answer of its strategy, and the rest keeps what was told.
LEMMA UncountedTells ==
    ASSUME IInv, OutcomeInv, Uncounted \/ UNCHANGED vars, UNCHANGED metrics
    PROVE  OutcomeInv'
<1>1. CASE WakeUp
    <2>1. /\ pc = "backoff" /\ pc' = "post" /\ failure' = failure /\ status' = "partial"
          /\ final' = FallbackAnswer("RETRY_BACKOFF")
        BY <1>1 DEF WakeUp
    <2>2. "RETRY_BACKOFF" \in Strategies
        BY DEF Strategies
    <2>3. QED
        BY <2>1, <2>2 DEF OutcomeInv, Running, Settled
<1>2. ASSUME NEW raw \in RawOutputs, ProduceFinal(raw) PROVE OutcomeInv'
    <2>1. pc = "ending" /\ pc' = "post" /\ UNCHANGED << failure, status >>
        BY <1>2 DEF ProduceFinal
    <2>2. SameFailures(metrics, metrics')
        BY DEF SameFailures
    <2>3. QED
        BY <2>1, <2>2, QuietTells DEF Running
<1>3. CASE ~ WakeUp /\ \A raw \in RawOutputs : ~ ProduceFinal(raw)
    <2>1. /\ UNCHANGED << failure, status, final >>
          /\ \/ pc' = pc
             \/ pc \in Running /\ pc' \in Running
             \/ pc \in Settled /\ pc' \in Settled
        BY <1>3 DEF Uncounted, BuildModel, RunAgain, Tick, Escape, Terminated, vars,
                    answerVars, Running, Settled
    <2>2. QED
        BY <2>1 DEF OutcomeInv, Running, Settled
<1>4. QED
    BY <1>1, <1>2, <1>3

LEMMA OutcomeInitially == MInit => OutcomeInv
<1> SUFFICES ASSUME MInit PROVE OutcomeInv
    OBVIOUS
<1>1. pc = "start" /\ failure = "none" /\ metrics = FreshRegistry
    BY DEF MInit, Init
<1>2. QED
    BY <1>1 DEF OutcomeInv, FreshRegistry, Unmoved, Running, Settled

LEMMA OutcomeStep ==
    ASSUME IInv, MetricsInv, OutcomeInv, [MNext]_metricsVars
    PROVE  OutcomeInv'
<1>1. CASE MNext
    BY <1>1, FailuresTell, HookFailureTells, BuildFailureTells,
       EnforceBudgetTells, OthersTell, UncountedTells DEF MNext
<1>2. CASE UNCHANGED metricsVars
    BY <1>2, UncountedTells DEF metricsVars
<1>3. QED
    BY <1>1, <1>2

\* A counter that was moved once, by one, totals one; one that never was, none.
LEMMA TotalOfCounter ==
    ASSUME NEW S, IsFiniteSet(S), NEW c \in [S -> Nat]
    PROVE  /\ Unmoved(c) => Total(c) = 0
           /\ \A x \in S : CountedOnce(c, x) => Total(c) = 1
<1>1. DOMAIN c = S
    OBVIOUS
<1>2. ASSUME Unmoved(c) PROVE Total(c) = 0
    BY <1>1, <1>2, SumOfNone DEF Unmoved, Total
<1>3. ASSUME NEW x \in S, CountedOnce(c, x) PROVE Total(c) = 1
    BY <1>1, <1>3, SumOfOne DEF CountedOnce, Total
<1>4. QED
    BY <1>2, <1>3

LEMMA LabelsAreFinite == IsFiniteSet(ErrorClasses) /\ IsFiniteSet(Strategies)
<1>1. \A S, x : IsFiniteSet(S) => IsFiniteSet(S \cup {x})
    BY FS_AddElement
<1>2. IsFiniteSet({})
    BY FS_EmptySet
<1>3. ErrorClasses = ((((((({} \cup {"TimeoutError"}) \cup {"MaxTurnsExceeded"})
                     \cup {"ModelBehaviorError"}) \cup {"ValidationError"})
                     \cup {"AgentsException"}) \cup {"RateException"}) \cup {"Exception"})
                     \cup {"RuntimeError"}
    BY DEF ErrorClasses, ExceptionClasses
<1>4. Strategies = (((((({} \cup {"RETRY_BACKOFF"}) \cup {"SIMPLER_MODEL"})
                   \cup {"NO_TOOL_ANSWER"}) \cup {"CACHED_ANSWER"}) \cup {"PARTIAL_ANSWER"})
                   \cup {"HUMAN_REVIEW"}) \cup {"LOG_AND_CONTINUE"}
    BY DEF Strategies
<1>5. QED
    BY <1>1, <1>2, <1>3, <1>4, ZenonT(30)

LEMMA OutcomeFollows == MetricsInv /\ IInv /\ OutcomeInv => CountersTellOutcome
<1> SUFFICES ASSUME MetricsInv, IInv, OutcomeInv, pc = "done" PROVE CountersTellOutcome
    BY DEF CountersTellOutcome
<1> DEFINE F == metrics.FALLBACK_COUNT
           E == metrics.ERROR_COUNT
<1>1. E \in [ErrorClasses -> Nat] /\ F \in [Strategies -> Nat]
    BY DEF MetricsInv, MetricsTypeOK, MetricsType, ErrorClasses
<1>2. status # "partial" => Total(F) = 0
    BY <1>1, LabelsAreFinite, TotalOfCounter DEF OutcomeInv, Settled
<1>3. failure = "none" => Total(E) = 0
    BY <1>1, LabelsAreFinite, TotalOfCounter DEF OutcomeInv
<1>4. failure # "none" => Total(E) = 1
    BY <1>1, LabelsAreFinite, TotalOfCounter DEF OutcomeInv
<1>5. status = "partial" =>
          /\ Total(F) = 1
          /\ \E s \in { x \in Strategies : F[x] > 0 } :
                IF failure # "none" THEN final = FallbackAnswer(s)
                ELSE s = "PARTIAL_ANSWER" /\ final.caveat \in BreachReasons
    <2> SUFFICES ASSUME status = "partial"
                 PROVE  /\ Total(F) = 1
                        /\ \E s \in { x \in Strategies : F[x] > 0 } :
                              IF failure # "none" THEN final = FallbackAnswer(s)
                              ELSE s = "PARTIAL_ANSWER" /\ final.caveat \in BreachReasons
        OBVIOUS
    <2>1. PICK s \in Strategies :
              /\ CountedOnce(F, s)
              /\ IF failure # "none" THEN final = FallbackAnswer(s)
                 ELSE s = "PARTIAL_ANSWER" /\ final.caveat \in BreachReasons
        BY DEF OutcomeInv, Settled
    <2>2. Total(F) = 1
        BY <1>1, <2>1, LabelsAreFinite, TotalOfCounter
    <2>3. F[s] > 0
        BY <2>1 DEF CountedOnce
    <2> HIDE DEF F
    <2>4. QED
        BY <2>1, <2>2, <2>3
<1>6. QED
    BY <1>2, <1>3, <1>4, <1>5 DEF CountersTellOutcome

\* The error and the fallback counters tell how a run ended: nothing is counted twice
\* and nothing is forgotten on the way from the handlers through the router and the
\* backoff to the budget check (_drive, emit_error and emit_fallback).
THEOREM CountersTellTheOutcome == MSpec => []CountersTellOutcome
<1>1. MInit => OutcomeInv
    BY OutcomeInitially
<1>2. IInv /\ MetricsInv /\ OutcomeInv /\ [MNext]_metricsVars => OutcomeInv'
    BY OutcomeStep
<1>3. MSpec => [](IInv /\ TraceInv /\ MetricsInv)
    BY MetricsInvariance
<1>4. MSpec => []OutcomeInv
    BY <1>1, <1>2, <1>3, PTL DEF MSpec
<1>5. QED
    BY <1>3, <1>4, OutcomeFollows, PTL
=============================================================================
