------------------------------ MODULE AgentRun ------------------------------
(***************************************************************************)
(* One call of ResearchWorkflow._drive (app/agent/workflow.py), with the   *)
(* hooks the Agents SDK calls back into (app/agent/hooks.py), the budgets  *)
(* and the fallback router.                                                *)
(*                                                                         *)
(* An action is the code between two awaits of the run's tasks.  The SDK's *)
(* Runner, the model provider and the tools are outside the repository:    *)
(* they choose, in the order the hooks document, what the run is told.     *)
(* Time is a count of ticks of the event loop's clock; asyncio's timers    *)
(* fire at most Lag ticks late.  The clock is read once for the budget     *)
(* check and again for the duration, at most Gap ticks later.              *)
(***************************************************************************)
EXTENDS Budgets, Fallback, FiniteSets

CONSTANTS
    Deployments,   \* the settings a run may find, see SettingsType
    Requests,      \* the overrides a RunRequest may carry, see RequestType
    Usages,        \* the token usage a model response may report
    Tools,         \* the names of the tools of the agent
    MaxParallel,   \* bound: tool calls in one model response
    Second,        \* ticks in a second
    Lag,           \* bound: lateness of a timer, in ticks
    Gap            \* bound: ticks from the budget check to the duration's reading

SettingsType ==
    [ mock : BOOLEAN,                 \* model_provider = "mock"
      has_key : BOOLEAN,              \* anthropic_api_key is set
      claude_model : Seq(STRING) \ {NoModel},   \* a model has a name
      max_total_tokens : Int, max_cost : Int, max_latency : Int,
      max_tool_calls : Int,
      backoff : Nat,                  \* retry_initial_backoff_s, in ticks
      retry_max_attempts : Nat,
      pricing : Seq([id : Seq(STRING), input : Nat, output : Nat, complete : BOOLEAN]),
      ambient : Seq([id : Seq(STRING), input : Nat, output : Nat, complete : BOOLEAN]) ]

RequestType ==
    [ max_cost : Int \cup {None}, max_latency : Int \cup {None},
      max_tool_calls : Int \cup {None} ]

ASSUME RunAssumption ==
    /\ None \notin Int
    /\ \A s \in Deployments : s \in SettingsType
    /\ \A r \in Requests : r \in RequestType
    /\ Usages \subseteq [input : Nat, output : Nat]
    /\ MaxParallel \in Nat
    /\ Second \in Nat \ {0}
    /\ Lag \in Nat
    /\ Gap \in Nat

VARIABLES
    settings,      \* self.settings, and the settings get_settings() returns
    req,           \* the RunRequest
    pc,            \* where _drive is, see Stages
    now,           \* ticks since BudgetState.started_at
    wake,          \* when the backoff sleep ends
    attempt,       \* the loop counter of _drive
    turn,          \* turns begun by the Runner
    model,         \* BudgetState.model
    tokensIn, tokensOut, toolCalls,     \* the counters of BudgetState
    calls,         \* the tool calls of the current turn
    started,       \* HookContext._tool_started_at
    text,          \* the message of the last model response
    emitted,       \* events emitted, by action_type
    step,          \* EventSink._step
    failure,       \* the kind of the AgentRunError caught
    final, status, fallbackUsed         \* locals of _drive

vars == << settings, req, pc, now, wake, attempt, turn, model, tokensIn,
           tokensOut, toolCalls, calls, started, text, emitted, step, failure,
           final, status, fallbackUsed >>

\* Variables only the Runner's callbacks change, and those only _drive changes.
usageVars == << model, tokensIn, tokensOut, toolCalls >>
answerVars == << failure, final, status, fallbackUsed, wake >>
configVars == << settings, req >>

Stages == { "start",     \* top of the while loop
            "turn",      \* the Runner is about to begin a turn
            "llm",       \* a model call is in flight
            "tools",     \* the response is in; its tool calls run
            "ending",    \* the end hooks have run; the Runner has not returned
            "backoff",   \* asyncio.sleep of RETRY_BACKOFF
            "rerun",     \* a strategy calls the agent again
            "post",      \* the `try` is over
            "closing",   \* the budget check is over
            "done",      \* the response is returned
            "crashed" }  \* an exception escaped _drive

ActionTypes == { "agent_start", "agent_end", "tool_start", "tool_end",
                 "llm_start", "llm_end", "reasoning_summary", "fallback",
                 "budget_warning", "error" }

Texts == { "none", "final", "invalid" }

NoAnswer == Answer("none", "low", "none")

-----------------------------------------------------------------------------
Larger(a, b) == IF a > b THEN a ELSE b

Budget == FromSettings(settings, req)

\* timeout_s
Timeout == Larger(Second, Budget.max_latency)

\* max_turns
MaxTurns == Larger(2, Budget.max_tool_calls + 2)

\* A backoff that doubles before the first retry instead of after it.
BackoffDoubledEarly ==
    LET backoff == settings.backoff * 2 ^ attempt
    IN IF backoff < 8 * Second THEN backoff ELSE 8 * Second

\* min(backoff, 8.0)
Backoff ==
    LET backoff == settings.backoff * 2 ^ (attempt - 1)
    IN IF backoff < 8 * Second THEN backoff ELSE 8 * Second

TotalTokens == tokensIn + tokensOut

\* budgets.check(state, self.settings)
BudgetCheck ==
    Check(Budget, TotalTokens,
          CostUsd(settings.pricing, model, tokensIn, tokensOut), now, toolCalls)

\* The run emits one event of each of these types, EventSink.emit.
Emit(kinds) ==
    /\ emitted' = [k \in ActionTypes |-> emitted[k] + IF k \in kinds THEN 1 ELSE 0]
    /\ step' = step + Cardinality(kinds)

(***************************************************************************)
(* An exception leaves the `try` around Runner.run: its handler emits      *)
(* `error` and raises AgentRunError, whose handler asks the router, emits  *)
(* `fallback` and starts _apply_fallback.  There is no await in between;   *)
(* `kinds` are the events the same step emitted before.  A tool call in    *)
(* flight is cancelled with the Runner, without its on_tool_end.           *)
(***************************************************************************)
Fail(exception, kinds) ==
    LET kind     == KindOf(exception)
        strategy == DecideFallback(kind, attempt)
        awaits   == strategy \in Reruns \cup {"RETRY_BACKOFF"}
    IN  /\ Emit(kinds \cup {"error", "fallback"})
        /\ failure' = kind
        /\ fallbackUsed' = TRUE
        /\ calls' = << >>
        /\ text' = "none"
        /\ wake' = IF strategy = "RETRY_BACKOFF" THEN now + Backoff ELSE wake
        /\ final' = IF awaits THEN final ELSE FallbackAnswer(strategy)
        /\ status' = IF awaits THEN status ELSE "partial"
        /\ pc' = IF strategy \in Reruns THEN "rerun"
                 ELSE IF strategy = "RETRY_BACKOFF" THEN "backoff" ELSE "post"

-----------------------------------------------------------------------------
Init ==
    /\ settings \in Deployments
    /\ req \in Requests
    /\ pc = "start"
    /\ now = 0 /\ wake = 0
    /\ attempt = 0 /\ turn = 0
    /\ model = NoModel
    /\ tokensIn = 0 /\ tokensOut = 0 /\ toolCalls = 0
    /\ calls = << >>
    /\ started = [t \in Tools |-> None]
    /\ text = "none"
    /\ emitted = [k \in ActionTypes |-> 0]
    /\ step = 0
    /\ failure = "none"
    /\ final = NoAnswer /\ status = "ok" /\ fallbackUsed = FALSE

\* build_model has a model for these settings: the mock, or Claude with a key.
ModelAvailable == settings.mock \/ settings.has_key

\* build_model returns a handle, and the Agent is built on it.
BuildModel ==
    /\ pc = "start"
    /\ ModelAvailable
    /\ attempt' = attempt + 1
    /\ model' = IF settings.mock THEN <<"mock">> ELSE settings.claude_model
    /\ pc' = "turn"
    /\ UNCHANGED << configVars, now, turn, tokensIn, tokensOut, toolCalls, calls,
                    started, text, emitted, step, answerVars >>

\* build_model raises: the last-resort handler, which emits no event.
BuildModelRaises ==
    /\ pc = "start"
    /\ ~ ModelAvailable
    /\ attempt' = attempt + 1
    /\ final' = SafePartialAnswer("unhandled_error")
    /\ status' = "error"
    /\ fallbackUsed' = TRUE
    /\ failure' = "unhandled"
    /\ pc' = "post"
    /\ UNCHANGED << configVars, now, wake, turn, usageVars, calls, started, text,
                    emitted, step >>

\* on_agent_start of the run hooks and on_start of the agent's.
StartEvents == {"agent_start", "reasoning_summary"}

\* on_agent_end of the run hooks and on_end of the agent's.
EndEvents == {"agent_end", "reasoning_summary"}

\* The Runner begins a turn: the start hooks before the first one, on_llm_start
\* before each model call.
BeginTurn ==
    /\ pc = "turn"
    /\ turn < MaxTurns
    /\ turn' = turn + 1
    /\ Emit({"llm_start"} \cup IF turn = 0 THEN StartEvents ELSE {})
    /\ pc' = "llm"
    /\ UNCHANGED << configVars, now, attempt, usageVars, calls, started, text, answerVars >>

\* The Runner raises MaxTurnsExceeded instead.
ExceedTurns ==
    /\ pc = "turn"
    /\ turn = MaxTurns
    /\ Fail("MaxTurnsExceeded", {})
    /\ UNCHANGED << configVars, now, attempt, turn, usageVars, started >>

-----------------------------------------------------------------------------
\* ReasoningSummaryHooks.on_llm_end finds the run near a budget.  Its cost_usd()
\* has no argument, so it prices with get_settings().
Warns(in, out) ==
    NearBudget(Budget, in + out, CostUsd(settings.ambient, model, in, out), now)

\* A hook that looks at the usage of the response alone, not at the totals.
WarningsOfResponse(usage) == { Warns(usage.input, usage.output) }

\* Nothing in the repository orders the two on_llm_end hooks: the warning is
\* computed before or after the usage is counted.
Warnings(usage) ==
    { Warns(tokensIn, tokensOut),
      Warns(tokensIn + usage.input, tokensOut + usage.output) }

\* ResearchRunHooks.on_llm_end adds the usage of the response.
CountUsage(usage) ==
    /\ tokensIn' = tokensIn + usage.input
    /\ tokensOut' = tokensOut + usage.output
    /\ UNCHANGED << model, toolCalls >>

\* The model answers with tool calls, a message, both or neither.
LlmReturns(usage, tools, message) ==
    /\ pc = "llm"
    /\ ~ CostUsdRaises(settings.ambient, model)
    /\ CountUsage(usage)
    /\ \E warned \in Warnings(usage) :
          Emit({"llm_end"} \cup IF warned THEN {"budget_warning"} ELSE {})
    /\ calls' = [i \in DOMAIN tools |-> [tool |-> tools[i], phase |-> "asked", began |-> 0]]
    /\ text' = message
    /\ pc' = "tools"
    /\ UNCHANGED << configVars, now, attempt, turn, started, answerVars >>

\* The warning hook raises KeyError on an incomplete pricing entry.
LlmHookRaises(usage) ==
    /\ pc = "llm"
    /\ CostUsdRaises(settings.ambient, model)
    /\ CountUsage(usage)
    /\ Fail("Exception", {"llm_end"})
    /\ UNCHANGED << configVars, now, attempt, turn, started >>

\* The model call raises, and the Runner with it.
ProviderErrors == { "TimeoutError", "ModelBehaviorError", "ValidationError",
                    "AgentsException", "RateException", "Exception" }

LlmRaises(exception) ==
    /\ pc = "llm"
    /\ Fail(exception, {})
    /\ UNCHANGED << configVars, now, attempt, turn, usageVars, started >>

-----------------------------------------------------------------------------
\* on_tool_start, of the run and of the agent.
ToolStart(i) ==
    /\ pc = "tools"
    /\ calls[i].phase = "asked"
    /\ calls' = [calls EXCEPT ![i] = [@ EXCEPT !.phase = "running", !.began = now]]
    /\ toolCalls' = toolCalls + 1
    /\ started' = [started EXCEPT ![calls[i].tool] = now]
    /\ Emit({"tool_start", "reasoning_summary"})
    /\ UNCHANGED << configVars, pc, now, attempt, turn, model, tokensIn, tokensOut,
                    text, answerVars >>

\* The latency on_tool_end computes from the scratch entry of that tool name.
ToolLatency(tool) == IF started[tool] = None THEN None ELSE now - started[tool]

\* A scratch that is emptied at the end of any call.
ForgetStarts(tool) == [t \in Tools |-> None]

\* _tool_started_at.pop(tool.name, None)
ForgetStart(tool) == [started EXCEPT ![tool] = None]

\* on_tool_end; the agent hook has none.  The SDK turns an exception of the tool
\* into a message for the model, so a call that fails ends like any other.
ToolEnd(i) ==
    /\ pc = "tools"
    /\ calls[i].phase = "running"
    /\ calls' = [calls EXCEPT ![i].phase = "ended"]
    /\ started' = ForgetStart(calls[i].tool)
    /\ Emit({"tool_end"})
    /\ UNCHANGED << configVars, pc, now, attempt, turn, usageVars, text, answerVars >>

CallsEnded == \A i \in DOMAIN calls : calls[i].phase = "ended"

\* No message in the response: the Runner takes another turn.  Whether a message
\* that comes with tool calls ends the run is the SDK's choice.
RunAgain ==
    /\ pc = "tools"
    /\ CallsEnded
    /\ text = "none" \/ calls # << >>
    /\ calls' = << >>
    /\ text' = "none"
    /\ pc' = "turn"
    /\ UNCHANGED << configVars, now, attempt, turn, usageVars, started, emitted, step,
                    answerVars >>

\* A message that does not parse as FinalAnswer: ModelBehaviorError.
Misbehave ==
    /\ pc = "tools"
    /\ CallsEnded
    /\ text = "invalid"
    /\ Fail("ModelBehaviorError", {})
    /\ UNCHANGED << configVars, now, attempt, turn, usageVars, started >>

\* A final output: the Runner awaits the end hooks, still inside wait_for.
AgentEnds ==
    /\ pc = "tools"
    /\ CallsEnded
    /\ text = "final"
    /\ Emit(EndEvents)
    /\ calls' = << >>
    /\ text' = "none"
    /\ pc' = "ending"
    /\ UNCHANGED << configVars, now, attempt, turn, usageVars, started, answerVars >>

\* The Runner returns and _coerce_final accepts the output.
ProduceFinal(raw) ==
    /\ pc = "ending"
    /\ CoerceRaises(raw) = "none"
    /\ final' = CoerceFinal(raw)
    /\ pc' = "post"
    /\ UNCHANGED << configVars, now, wake, attempt, turn, usageVars, calls, started,
                    text, emitted, step, failure, status, fallbackUsed >>

\* A final output _coerce_final rejects, still inside the `try`.
RejectFinal(raw) ==
    /\ pc = "ending"
    /\ CoerceRaises(raw) # "none"
    /\ Fail(CoerceRaises(raw), {})
    /\ UNCHANGED << configVars, now, attempt, turn, usageVars, started >>

\* The SDK fails between the end hooks and the return of Runner.run.
LateErrors == { "AgentsException", "RateException", "Exception" }

EndRaises(exception) ==
    /\ pc = "ending"
    /\ Fail(exception, {})
    /\ UNCHANGED << configVars, now, attempt, turn, usageVars, started >>

-----------------------------------------------------------------------------
\* The Runner waits for the model, for a tool or for its own last steps;
\* asyncio.wait_for is armed.
RunnerWaits ==
    \/ pc \in {"llm", "ending"}
    \/ pc = "tools" /\ \E i \in DOMAIN calls : calls[i].phase = "running"

\* wait_for cancels the Runner; a result ready in the same tick may still win.
WaitForTimeout ==
    /\ RunnerWaits
    /\ now >= Timeout
    /\ Fail("TimeoutError", {})
    /\ UNCHANGED << configVars, now, attempt, turn, usageVars, started >>

\* A backoff after which the run counts as failed, not as partial.
WakeUpFailing ==
    /\ pc = "backoff"
    /\ now >= wake
    /\ final' = FallbackAnswer("RETRY_BACKOFF")
    /\ status' = "error"
    /\ pc' = "post"
    /\ UNCHANGED << configVars, now, wake, attempt, turn, usageVars, calls, started,
                    text, emitted, step, failure, fallbackUsed >>

\* The backoff sleep ends; _apply_fallback returns without another attempt.
WakeUp ==
    /\ pc = "backoff"
    /\ now >= wake
    /\ final' = FallbackAnswer("RETRY_BACKOFF")
    /\ status' = "partial"
    /\ pc' = "post"
    /\ UNCHANGED << configVars, now, wake, attempt, turn, usageVars, calls, started,
                    text, emitted, step, failure, fallbackUsed >>

\* The clock advances while the run awaits, but not past a due timer's lag.
Tick ==
    /\ \/ RunnerWaits /\ now < Timeout + Lag
       \/ pc = "backoff" /\ now < wake + Lag
    /\ now' = now + 1
    /\ UNCHANGED << configVars, pc, wake, attempt, turn, usageVars, calls, started,
                    text, emitted, step, failure, final, status, fallbackUsed >>

-----------------------------------------------------------------------------
\* budgets.check raises KeyError before it has an answer.
CheckRaises ==
    TotalTokens <= Budget.max_total_tokens /\ CostUsdRaises(settings.pricing, model)

\* A check that degrades what has already been degraded.
OverAnyway == BudgetCheck # "ok"

\* breach != "ok" and status == "ok"
OverBudget == BudgetCheck # "ok" /\ status = "ok"

\* A degradation that reports the breach and returns the answer all the same,
\* and one that forgets to say so in the status.
DegradeKeepingAnswer ==
    /\ Emit({"fallback"})
    /\ status' = "partial"
    /\ fallbackUsed' = TRUE
    /\ UNCHANGED final

DegradeKeepingStatus ==
    /\ Emit({"fallback"})
    /\ final' = SafePartialAnswer(BudgetCheck)
    /\ fallbackUsed' = TRUE
    /\ UNCHANGED status

\* The answer is dropped for a canned one.
Degrade ==
    /\ Emit({"fallback"})
    /\ final' = SafePartialAnswer(BudgetCheck)
    /\ status' = "partial"
    /\ fallbackUsed' = TRUE

\* The budget check after the loop, which degrades an answer that was "ok".
EnforceBudget ==
    /\ pc = "post"
    /\ ~ CheckRaises
    /\ IF OverBudget
       THEN Degrade
       ELSE UNCHANGED << emitted, step, final, status, fallbackUsed >>
    /\ pc' = "closing"
    /\ UNCHANGED << configVars, now, wake, attempt, turn, usageVars, calls, started,
                    text, failure >>

\* `state.model or model_name`, the model the run is billed as.
BilledModel == IF model = NoModel THEN settings.claude_model ELSE model

\* RunMetrics.estimated_cost_usd
BilledCost == EstimateCost(settings.pricing, BilledModel, tokensIn, tokensOut)

\* The cost is counted, the sink closed and the RunResponse returned, with the
\* time of a new reading of the clock: its fields are the variables of the model
\* from here on.
Finish ==
    /\ pc = "closing"
    /\ ~ CostRaises(settings.pricing, BilledModel)
    /\ now' \in now..(now + Gap)
    /\ pc' = "done"
    /\ UNCHANGED << configVars, attempt, turn, usageVars, calls, started, text,
                    emitted, step, answerVars >>

\* The exception of the budget check or of the cost estimate leaves _drive.
Escape ==
    /\ \/ pc = "post" /\ CheckRaises
       \/ pc = "closing" /\ CostRaises(settings.pricing, BilledModel)
    /\ pc' = "crashed"
    /\ UNCHANGED << configVars, now, attempt, turn, usageVars, calls, started, text,
                    emitted, step, answerVars >>

\* Nothing follows the response.
Terminated == pc \in {"done", "crashed"} /\ UNCHANGED vars

-----------------------------------------------------------------------------
\* Steps the event loop and its timers take without help from outside.
LoopStep ==
    \/ BuildModel \/ BuildModelRaises \/ BeginTurn \/ ExceedTurns
    \/ \E i \in DOMAIN calls : ToolStart(i)
    \/ RunAgain \/ Misbehave \/ AgentEnds
    \/ \E raw \in RawOutputs : ProduceFinal(raw) \/ RejectFinal(raw)
    \/ WaitForTimeout \/ WakeUp \/ Tick
    \/ EnforceBudget \/ Finish \/ Escape

\* Steps the provider and the tools take, if they ever do.
OutsideStep ==
    \/ \E usage \in Usages :
          \/ LlmHookRaises(usage)
          \/ \E tools \in BoundedSeq(Tools, MaxParallel), message \in Texts :
                LlmReturns(usage, tools, message)
    \/ \E exception \in ProviderErrors : LlmRaises(exception)
    \/ \E exception \in LateErrors : EndRaises(exception)
    \/ \E i \in DOMAIN calls : ToolEnd(i)

Next == LoopStep \/ OutsideStep \/ Terminated

\* The event loop runs what is ready and its timers fire; a model or a tool that
\* never answers is allowed.
Spec == Init /\ [][Next]_vars /\ WF_vars(LoopStep)

CallType == [tool : Tools, phase : {"asked", "running", "ended"}, began : Nat]

AnswerType == [ text : {"none", "model", "canned_partial", "canned_review"},
                confidence : Confidences, caveat : Caveats \cup BreachReasons ]

\* Type correctness of the run's state.
TypeOK ==
    /\ settings \in Deployments
    /\ req \in Requests
    /\ pc \in Stages
    /\ now \in Nat
    /\ wake \in Nat
    /\ attempt \in Nat
    /\ turn \in Nat
    /\ model \in {NoModel, <<"mock">>, settings.claude_model}
    /\ tokensIn \in Nat
    /\ tokensOut \in Nat
    /\ toolCalls \in Nat
    /\ calls \in Seq(CallType)
    /\ started \in [Tools -> Nat \cup {None}]
    /\ text \in Texts
    /\ emitted \in [ActionTypes -> Nat]
    /\ step \in Nat
    /\ failure \in FailureKinds \cup {"none", "unhandled"}
    /\ final \in AnswerType
    /\ status \in {"ok", "partial", "error"}
    /\ fallbackUsed \in BOOLEAN

Within(used, override, default) ==
    IF override = None THEN used <= default ELSE used <= override

\* A response with status "ok" is within all four budgets, those the request
\* set (zero included) and those of the settings, and it carries neither an error
\* nor the fallback mark: the check after the loop (_drive, Budgets.check) misses
\* no path to "ok".  The duration it reports is read after the check, so it may be
\* over the cap by the Gap between the two.
OkIsWithinBudget ==
    pc = "done" /\ status = "ok" =>
        /\ TotalTokens <= settings.max_total_tokens
        /\ Within(BilledCost, req.max_cost, settings.max_cost)
        /\ Within(now - Gap, req.max_latency, settings.max_latency)
        /\ Within(toolCalls, req.max_tool_calls, settings.max_tool_calls)
        /\ failure = "none" /\ ~ fallbackUsed

\* The event trace of an "ok" response is complete: one agent_start and one
\* agent_end, every llm_start and tool_start has its end, every counted tool
\* call is in it, and no error or fallback is.
OkTraceComplete ==
    pc = "done" /\ status = "ok" =>
        /\ emitted["agent_start"] = 1 /\ emitted["agent_end"] = 1
        /\ emitted["llm_start"] = turn /\ emitted["llm_end"] = turn
        /\ emitted["tool_start"] = toolCalls /\ emitted["tool_end"] = toolCalls
        /\ emitted["error"] = 0 /\ emitted["fallback"] = 0

\* The model's own answer is returned exactly when the status is "ok"; every
\* other response carries a canned answer of low confidence.
ModelAnswerIffOk ==
    pc = "done" =>
        /\ final.text = "model" <=> status = "ok"
        /\ status # "ok" => final.confidence = "low"

\* "error" is said of runs that never began: no turn, no event, no token, no tool
\* call and nothing to pay.  Whatever fails once the Runner was called, in the
\* hooks, the model, the tools or the output, ends as "partial" (_drive's handlers).
ErrorMeansNotBegun ==
    pc = "done" /\ status = "error" =>
        /\ turn = 0 /\ step = 0 /\ toolCalls = 0
        /\ TotalTokens = 0 /\ BilledCost = 0

\* However the run goes, it is over one timeout and one backoff sleep after it
\* began, each of them late by at most Lag: no await of the run is uncapped.
WallClockBound ==
    now <= Timeout + Lag + Larger(0, settings.backoff) + Lag + Gap

\* The router is only consulted with attempt = 1, so the strategies that call
\* the agent again are never reached from _drive, and a human review neither: what
\* RetriesOrEscalates runs into, and why those strategies have no actions here.
SingleShot ==
    /\ attempt <= 1
    /\ pc # "rerun"
    /\ final.text # "canned_review"

\* Whichever of the two on_llm_end hooks runs first, a response that arrives
\* when the earlier ones already brought the run to 80% of a budget emits a
\* budget_warning: the warning is late by one model call at most.
WarnedByNextResponse ==
    [][ emitted'["llm_end"] > emitted["llm_end"]
        /\ ~ CostUsdRaises(settings.ambient, model)
        /\ Warns(tokensIn, tokensOut)
            => emitted'["budget_warning"] > emitted["budget_warning"] ]_vars

EndsCall(i) ==
    i \in DOMAIN calls /\ i \in DOMAIN calls'
    /\ calls[i].phase = "running" /\ calls'[i].phase = "ended"

\* on_tool_end measures a tool call from that call's own start when no other
\* call of the turn has the same tool name, whatever other calls interleave
\* with it and whatever earlier turns left in the scratch dictionary.
DistinctToolsMeasured ==
    [][ \A i \in DOMAIN calls :
          EndsCall(i) /\ (\A j \in DOMAIN calls \ {i} : calls[j].tool # calls[i].tool)
            => ToolLatency(calls[i].tool) = now - calls[i].began ]_vars

\* The run implements the contract its readers rely on: at most one fallback,
\* the last event; a verdict determined by the trace; and it always ends.
Contract == INSTANCE RunContract WITH
    MaxBurst <- 4,
    MayCrash <- TRUE,
    phase    <- CASE pc = "done" -> "answered"
                  [] pc = "crashed" -> "crashed"
                  [] OTHER -> "driving",
    steps    <- step,
    fellBack <- emitted["fallback"] > 0,
    verdict  <- IF pc = "done" THEN status ELSE "none"

ImplementsContract == Contract!ContractSpec

\* The run as run_one of the evaluation sees it: a case with the request's caps.
\* What the answer says is left open, so the run is one with a live model.
Eval == INSTANCE EvalCases WITH Absent <- None

EvaluatedCase ==
    [ required_facts |-> {}, forbidden_behavior |-> {},
      max_cost |-> req.max_cost, max_latency |-> req.max_latency ]

EvaluatedScenario ==
    [ provider |-> "claude", max_cost |-> settings.max_cost,
      max_latency |-> settings.max_latency, gap |-> Gap, costs |-> {BilledCost},
      durations |-> {now}, tool_counts |-> {toolCalls} ]

\* Whatever the run returns is a response the evaluation is modelled with, by its
\* status, its metrics and its answer, the model's or a canned one: the gates of
\* Evals judge all that ResearchWorkflow.run may hand to run_one.
AnswersAsEvaluated ==
    pc = "done" =>
        \E r \in Eval!Responses(EvaluatedCase, EvaluatedScenario) :
            /\ r.status = status /\ r.confidence = final.confidence
            /\ r.cost = BilledCost /\ r.duration = now /\ r.tool_calls = toolCalls
            /\ r.caveats = Eval!CannedAnswer.caveats <=> final.text # "model"

-----------------------------------------------------------------------------
(***************************************************************************)
(* What the documentation says and the code does not do; each of these is  *)
(* refuted by a run of its own.                                            *)
(***************************************************************************)
\* "when a budget is breached the runner stops the agent": no model call begins
\* once a budget is breached (app/agent/budgets.py, module docstring).
NoTurnAfterBreach ==
    [][ emitted'["llm_start"] > emitted["llm_start"] => BudgetCheck = "ok" ]_vars

\* The failures whose first response is a retry, with an escalation after it.
RetriedKinds == { "model_timeout", "model_rate_limit", "invalid_structured_output" }

\* "retry with backoff -> downgrade to simpler model", "retry once -> human-review
\* response": a run cut short by one of these failures, where the settings allow
\* more than one attempt, was attempted again or got the escalation's answer (a
\* model's or the review), not only the canned partial answer
\* (docs/failure-modes.md, decision matrix and Boundaries).
RetriesOrEscalates ==
    pc = "done" /\ failure \in RetriedKinds /\ settings.retry_max_attempts > 1 =>
        attempt > 1 \/ final.text # "canned_partial"

\* "Hard wall-clock cap: asyncio.wait_for(...) enforces MAX_LATENCY_MS_PER_RUN":
\* with punctual timers no response takes longer (docs/failure-modes.md).
LatencyCapHolds == pc = "done" => now <= Budget.max_latency

\* The latency of a tool_end event is the wall-clock time of its own call
\* (docs/observability.md, field reference; "Per-call timing scratch").
EveryToolMeasured ==
    [][ \A i \in DOMAIN calls :
          EndsCall(i) => ToolLatency(calls[i].tool) = now - calls[i].began ]_vars
=============================================================================
