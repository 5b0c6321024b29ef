-------------------------- MODULE AgentRun_proofs ---------------------------
(***************************************************************************)
(* Theorems about AgentRun for every deployment, request, usage and tool,  *)
(* every number of parallel calls, every timer lag and every clock gap.    *)
(***************************************************************************)
EXTENDS AgentRun, SumLemmas

\* The stages before the `try` around Runner.run is left, and those after
\* the fallback, if any, has been applied.
Running == {"start", "turn", "llm", "tools", "ending"}
Settled == {"post", "closing", "done", "crashed"}

\* The loop body runs once, so the router sees attempt 1 and picks no rerun.
AttemptInv ==
    /\ attempt = IF pc = "start" THEN 0 ELSE 1
    /\ pc # "rerun"
    /\ final.text # "canned_review"

\* The status stays "ok" until the fallback is applied; from then on it tells
\* which answer is in `final`.
AnswerInv ==
    /\ pc \in Running \cup {"backoff"} => status = "ok"
    /\ pc \in Running \/ (pc \in Settled /\ status = "ok") =>
          failure = "none" /\ ~ fallbackUsed
    /\ pc \in Settled =>
          /\ final.text = "model" <=> status = "ok"
          /\ status # "ok" => final.confidence = "low"

\* The run has a model, unless none could be built.
ModelInv ==
    \/ pc = "start"
    \/ model # NoModel
    \/ pc \in Settled /\ status = "error"

\* What the budget check says at a reading of the clock.
CheckAt(time) ==
    Check(Budget, TotalTokens,
          CostUsd(settings.pricing, model, tokensIn, tokensOut), time, toolCalls)

\* An answer that is still "ok" after the budget check has passed it; nothing
\* moves the counters after the check, and the clock moves by one gap at most.
BudgetInv ==
    /\ pc = "closing" /\ status = "ok" => CheckAt(now) = "ok"
    /\ pc = "done" /\ status = "ok" =>
          \E time \in Nat : now <= time + Gap /\ CheckAt(time) = "ok"

\* The clock is within the Runner's timer, then within the backoff's.
ClockInv ==
    LET patience == Timeout + Lag + Larger(0, settings.backoff)
    IN  /\ pc \in Running => now <= Timeout + Lag
        /\ pc = "backoff" => wake <= patience
        /\ pc # "done" => now <= patience + Lag
        /\ now <= patience + Lag + Gap

\* The inductive invariant.
IInv == TypeOK /\ AttemptInv /\ AnswerInv /\ ModelInv /\ BudgetInv /\ ClockInv

-----------------------------------------------------------------------------
\* A set of event types is finite, so the step counter stays a number
\* (EventSink.emit).
LEMMA EventCount ==
    ASSUME NEW kinds \in SUBSET ActionTypes
    PROVE  Cardinality(kinds) \in Nat
<1>1. /\ IsFiniteSet({"agent_start", "agent_end"})
      /\ IsFiniteSet({"tool_start", "tool_end"})
      /\ IsFiniteSet({"llm_start", "llm_end"})
      /\ IsFiniteSet({"reasoning_summary", "fallback"})
      /\ IsFiniteSet({"budget_warning", "error"})
  <2>1. ASSUME NEW a, NEW b PROVE IsFiniteSet({a, b})
    <3>1. {a, b} = {a} \cup {b}
      OBVIOUS
    <3>2. IsFiniteSet({a} \cup {b})
      BY FS_Singleton, FS_AddElement
    <3>. QED  BY <3>1, <3>2
  <2>2. \A a, b : IsFiniteSet({a, b})
    BY <2>1
  <2>. QED  BY <2>2, ZenonT(20)
<1>2. IsFiniteSet(({"agent_start", "agent_end"} \cup {"tool_start", "tool_end"})
                    \cup ({"llm_start", "llm_end"} \cup {"reasoning_summary", "fallback"})
                    \cup {"budget_warning", "error"})
  BY <1>1, FS_Union
<1>3. ActionTypes = ({"agent_start", "agent_end"} \cup {"tool_start", "tool_end"})
                    \cup ({"llm_start", "llm_end"} \cup {"reasoning_summary", "fallback"})
                    \cup {"budget_warning", "error"}
  BY DEF ActionTypes
<1>4. IsFiniteSet(kinds)
  BY <1>2, <1>3, FS_Subset
<1>. QED  BY <1>4, FS_CardinalityType

\* Emitting keeps the event counters numbers.
LEMMA EmitType ==
    ASSUME emitted \in [ActionTypes -> Nat], step \in Nat,
           NEW kinds \in SUBSET ActionTypes, Emit(kinds)
    PROVE  emitted' \in [ActionTypes -> Nat] /\ step' \in Nat
<1>1. step' \in Nat
  BY EventCount DEF Emit
<1>2. emitted' \in [ActionTypes -> Nat]
  BY DEF Emit
<1>. QED  BY <1>1, <1>2

\* The effective budgets, the timeout and the timer lag are integers.
LEMMA BudgetType ==
    ASSUME settings \in Deployments, req \in Requests
    PROVE  /\ settings \in SettingsType
           /\ Budget.max_latency \in Int /\ Budget.max_cost \in Int
           /\ Budget.max_tool_calls \in Int /\ Budget.max_total_tokens \in Int
           /\ Timeout \in Nat
           /\ Lag \in Nat /\ Gap \in Nat
           /\ Larger(0, settings.backoff) = settings.backoff
           /\ settings.backoff \in Nat
<1>1. settings \in SettingsType /\ req \in RequestType /\ Lag \in Nat /\ Gap \in Nat
      /\ Second \in Nat \ {0}
  BY RunAssumption
<1>2. /\ settings.max_total_tokens \in Int /\ settings.max_cost \in Int
      /\ settings.max_latency \in Int /\ settings.max_tool_calls \in Int
      /\ settings.backoff \in Nat
  BY <1>1 DEF SettingsType
<1>3. /\ req.max_cost \in Int \cup {None} /\ req.max_latency \in Int \cup {None}
      /\ req.max_tool_calls \in Int \cup {None}
  BY <1>1 DEF RequestType
<1>4. /\ Budget.max_latency \in Int /\ Budget.max_cost \in Int
      /\ Budget.max_tool_calls \in Int /\ Budget.max_total_tokens \in Int
  BY <1>2, <1>3 DEF Budget, FromSettings, Override
<1>. QED  BY <1>1, <1>2, <1>4 DEF Timeout, Larger

\* The first backoff is no longer than retry_initial_backoff_s.
LEMMA FirstBackoff ==
    ASSUME settings \in Deployments, req \in Requests, attempt = 1
    PROVE  Backoff \in Nat /\ Backoff <= settings.backoff
<1>1. settings.backoff \in Nat /\ Second \in Nat
  BY BudgetType, RunAssumption
<1>2. settings.backoff * 2 ^ (attempt - 1) = settings.backoff
  BY <1>1
<1>3. Backoff = IF settings.backoff < 8 * Second THEN settings.backoff ELSE 8 * Second
  BY <1>2 DEF Backoff
<1>. QED  BY <1>1, <1>3

\* On the first attempt the router never answers with a strategy that calls the
\* agent again, whatever the handlers of _drive caught (decide_fallback).
LEMMA FirstAttemptRouting ==
    ASSUME NEW exception \in ExceptionClasses
    PROVE  /\ KindOf(exception) \in FailureKinds
           /\ DecideFallback(KindOf(exception), 1) \in {"RETRY_BACKOFF", "PARTIAL_ANSWER"}
<1>1. KindOf(exception) \in {"model_timeout", "budget_exceeded",
                             "invalid_structured_output", "model_rate_limit", "unknown"}
  BY DEF ExceptionClasses, KindOf
<1>2. KindOf(exception) \in FailureKinds
  BY <1>1 DEF FailureKinds
<1>3. DecideFallback(KindOf(exception), 1) \in {"RETRY_BACKOFF", "PARTIAL_ANSWER"}
  BY <1>1 DEF DecideFallback
<1>. QED  BY <1>2, <1>3

-----------------------------------------------------------------------------
\* The canned answers and the model's are answers.
LEMMA AnswerTypes ==
    /\ NoAnswer \in AnswerType /\ NoAnswer.text # "canned_review"
    /\ \A reason \in Caveats \cup BreachReasons :
          /\ SafePartialAnswer(reason) \in AnswerType
          /\ SafePartialAnswer(reason).text = "canned_partial"
          /\ SafePartialAnswer(reason).confidence = "low"
    /\ \A raw \in RawOutputs :
          CoerceFinal(raw) \in AnswerType /\ CoerceFinal(raw).text = "model"
<1>1. NoAnswer \in AnswerType /\ NoAnswer.text # "canned_review"
  BY DEF NoAnswer, Answer, AnswerType, Confidences, Caveats
<1>2. ASSUME NEW reason \in Caveats \cup BreachReasons
      PROVE  /\ SafePartialAnswer(reason) \in AnswerType
             /\ SafePartialAnswer(reason).text = "canned_partial"
             /\ SafePartialAnswer(reason).confidence = "low"
  BY DEF SafePartialAnswer, Answer, AnswerType, Confidences
<1>3. ASSUME NEW raw \in RawOutputs
      PROVE  CoerceFinal(raw) \in AnswerType /\ CoerceFinal(raw).text = "model"
  BY DEF RawOutputs, CoerceFinal, Answer, AnswerType, Confidences, Caveats
<1>. QED  BY <1>1, <1>2, <1>3

\* An exception that leaves the `try` in the middle of a run leads to a state
\* of the invariant, whichever handler catches it and whatever was emitted or
\* counted in the same step.
LEMMA FailStep ==
    ASSUME IInv,
           pc \in {"turn", "llm", "tools", "ending"},
           NEW exception \in ExceptionClasses,
           NEW kinds \in SUBSET ActionTypes,
           Fail(exception, kinds),
           UNCHANGED << configVars, now, attempt, turn, model, toolCalls, started >>,
           tokensIn' \in Nat /\ tokensOut' \in Nat
    PROVE  IInv'
<1>. DEFINE strategy == DecideFallback(KindOf(exception), attempt)
<1>1. attempt = 1
  BY DEF IInv, AttemptInv
<1>2. /\ KindOf(exception) \in FailureKinds
      /\ strategy \in {"RETRY_BACKOFF", "PARTIAL_ANSWER"}
  BY <1>1, FirstAttemptRouting
<1>3. Backoff \in Nat /\ Backoff <= settings.backoff
  BY <1>1, FirstBackoff DEF IInv, TypeOK
<1>4. strategy \notin Reruns
  BY <1>2 DEF Reruns
<1>5. /\ Timeout \in Nat /\ Lag \in Nat /\ Gap \in Nat /\ settings.backoff \in Nat
      /\ Larger(0, settings.backoff) = settings.backoff
      /\ now \in Nat /\ wake \in Nat
  BY BudgetType DEF IInv, TypeOK
<1>6. Timeout' = Timeout /\ settings' = settings /\ now' = now
  BY DEF configVars, Timeout, Budget
<1>7. emitted' \in [ActionTypes -> Nat] /\ step' \in Nat
  <2>1. kinds \cup {"error", "fallback"} \in SUBSET ActionTypes
    BY DEF ActionTypes
  <2>2. Emit(kinds \cup {"error", "fallback"})
    BY DEF Fail
  <2>. QED  BY <2>1, <2>2, EmitType DEF IInv, TypeOK
<1>8. /\ failure' = KindOf(exception) /\ fallbackUsed' = TRUE
      /\ calls' = << >> /\ text' = "none"
  BY DEF Fail
<1>9. CASE strategy = "RETRY_BACKOFF"
  <2>1. /\ pc' = "backoff" /\ wake' = now + Backoff
        /\ final' = final /\ status' = status
    BY <1>4, <1>9 DEF Fail, Reruns
  <2>2. TypeOK'
    BY <2>1, <1>2, <1>3, <1>5, <1>7, <1>8
       DEF IInv, TypeOK, Stages, Texts, configVars
  <2>3. AttemptInv' /\ AnswerInv' /\ ModelInv'
    BY <2>1, <1>1, <1>8 DEF IInv, AttemptInv, AnswerInv, ModelInv, Running, Settled
  <2>4. BudgetInv'
    BY <2>1 DEF BudgetInv
  <2>5. ClockInv'
    BY <2>1, <1>3, <1>5, <1>6 DEF IInv, ClockInv, Running
  <2>. QED  BY <2>2, <2>3, <2>4, <2>5 DEF IInv
<1>10. CASE strategy = "PARTIAL_ANSWER"
  <2>1. /\ pc' = "post" /\ wake' = wake /\ status' = "partial"
        /\ final' = SafePartialAnswer("budget")
    BY <1>4, <1>10 DEF Fail, Reruns, FallbackAnswer
  <2>2. /\ final' \in AnswerType /\ final'.text = "canned_partial"
        /\ final'.confidence = "low"
    BY <2>1, AnswerTypes DEF Caveats
  <2>3. TypeOK'
    <3>1. /\ settings' \in Deployments /\ req' \in Requests
          /\ now' \in Nat /\ wake' \in Nat /\ attempt' \in Nat /\ turn' \in Nat
          /\ model' \in {NoModel, <<"mock">>, settings'.claude_model}
          /\ toolCalls' \in Nat /\ started' \in [Tools -> Nat \cup {None}]
      BY <2>1 DEF IInv, TypeOK, configVars
    <3>2. /\ pc' \in Stages /\ calls' \in Seq(CallType) /\ text' \in Texts
          /\ failure' \in FailureKinds \cup {"none", "unhandled"}
          /\ status' \in {"ok", "partial", "error"} /\ fallbackUsed' \in BOOLEAN
      BY <2>1, <1>2, <1>8 DEF Stages, Texts
    <3>. QED  BY <3>1, <3>2, <2>2, <1>7 DEF TypeOK
  <2>4. AttemptInv' /\ AnswerInv' /\ ModelInv'
    BY <2>1, <2>2, <1>1, <1>8
       DEF IInv, AttemptInv, AnswerInv, ModelInv, Running, Settled
  <2>5. BudgetInv'
    BY <2>1 DEF BudgetInv
  <2>6. ClockInv'
    BY <2>1, <1>5, <1>6 DEF IInv, ClockInv, Running
  <2>. QED  BY <2>3, <2>4, <2>5, <2>6 DEF IInv
<1>. QED  BY <1>2, <1>9, <1>10

-----------------------------------------------------------------------------
\* A run begins in the invariant.
LEMMA InitStep == Init => IInv
<1>. SUFFICES ASSUME Init PROVE IInv
  OBVIOUS
<1>1. settings \in SettingsType /\ Timeout \in Nat /\ Lag \in Nat /\ Gap \in Nat
      /\ Larger(0, settings.backoff) = settings.backoff /\ settings.backoff \in Nat
  BY BudgetType DEF Init
<1>2. TypeOK
  <2>1. emitted \in [ActionTypes -> Nat] /\ started \in [Tools -> Nat \cup {None}]
    BY DEF Init
  <2>2. calls \in Seq(CallType)
    BY DEF Init
  <2>3. final \in AnswerType
    BY AnswerTypes DEF Init
  <2>. QED  BY <2>1, <2>2, <2>3 DEF Init, TypeOK, Stages, Texts
<1>3. AttemptInv /\ AnswerInv /\ ModelInv
  BY AnswerTypes DEF Init, AttemptInv, AnswerInv, ModelInv, Running, Settled
<1>4. BudgetInv
  BY DEF Init, BudgetInv
<1>5. ClockInv
  BY <1>1 DEF Init, ClockInv
<1>. QED  BY <1>2, <1>3, <1>4, <1>5 DEF IInv

\* What the clock's part of the invariant is made of does not change in a run.
LEMMA PatienceFixed ==
    ASSUME UNCHANGED configVars
    PROVE  /\ Timeout' = Timeout /\ settings' = settings
           /\ Larger(0, settings.backoff)' = Larger(0, settings.backoff)
BY DEF configVars, Timeout, Budget, Larger

\* A step of the Runner that neither counts time nor ends the run.
LEMMA RunningStep ==
    ASSUME IInv, TypeOK',
           pc \in {"turn", "llm", "tools", "ending"}, pc' \in {"turn", "llm", "tools", "ending"},
           UNCHANGED << configVars, now, attempt, model, answerVars >>
    PROVE  IInv'
<1>1. AttemptInv' /\ AnswerInv' /\ ModelInv'
  BY DEF IInv, AttemptInv, AnswerInv, ModelInv, Running, Settled, answerVars
<1>2. BudgetInv'
  BY DEF BudgetInv
<1>3. ClockInv'
  BY PatienceFixed DEF IInv, ClockInv, Running, answerVars
<1>. QED  BY <1>1, <1>2, <1>3 DEF IInv

\* The calls of a response, before any has started.
LEMMA CallsOfResponse ==
    ASSUME NEW tools \in BoundedSeq(Tools, MaxParallel)
    PROVE  [i \in DOMAIN tools |-> [tool |-> tools[i], phase |-> "asked", began |-> 0]]
             \in Seq(CallType)
<1>1. PICK n \in Nat : tools \in [1..n -> Tools]
  BY RunAssumption DEF BoundedSeq, SeqOf
<1>. QED  BY <1>1 DEF CallType

-----------------------------------------------------------------------------
(***************************************************************************)
(* Every action keeps the invariant: first the setup and the Runner's.     *)
(***************************************************************************)
LEMMA BuildModelStep == IInv /\ BuildModel => IInv'
<1>. SUFFICES ASSUME IInv, BuildModel PROVE IInv'
  OBVIOUS
<1>1. settings \in SettingsType
  BY BudgetType DEF IInv, TypeOK
<1>2. /\ attempt' = 1 /\ pc' = "turn"
      /\ model' \in {<<"mock">>, settings.claude_model}
      /\ model' # NoModel
  <2>1. settings.claude_model # NoModel
    BY <1>1 DEF SettingsType
  <2>2. <<"mock">> # NoModel
    BY DEF NoModel
  <2>3. attempt = 0
    BY DEF IInv, AttemptInv, BuildModel
  <2>. QED  BY <2>1, <2>2, <2>3 DEF BuildModel
<1>3. TypeOK'
  BY <1>2 DEF IInv, TypeOK, BuildModel, Stages, configVars, answerVars
<1>4. AttemptInv' /\ AnswerInv' /\ ModelInv'
  BY <1>2 DEF IInv, AttemptInv, AnswerInv, ModelInv, Running, Settled, BuildModel, answerVars
<1>5. BudgetInv'
  BY <1>2 DEF BudgetInv
<1>6. ClockInv'
  BY <1>2, PatienceFixed DEF IInv, ClockInv, Running, BuildModel, answerVars
<1>. QED  BY <1>3, <1>4, <1>5, <1>6 DEF IInv

LEMMA BuildModelRaisesStep == IInv /\ BuildModelRaises => IInv'
<1>. SUFFICES ASSUME IInv, BuildModelRaises PROVE IInv'
  OBVIOUS
<1>1. /\ attempt' = 1 /\ pc' = "post" /\ status' = "error"
      /\ final' = SafePartialAnswer("unhandled_error")
  <2>1. attempt = 0
    BY DEF IInv, AttemptInv, BuildModelRaises
  <2>. QED  BY <2>1 DEF BuildModelRaises
<1>2. /\ final' \in AnswerType /\ final'.text = "canned_partial"
      /\ final'.confidence = "low"
  BY <1>1, AnswerTypes DEF Caveats
<1>3. TypeOK'
  BY <1>1, <1>2 DEF IInv, TypeOK, BuildModelRaises, Stages, configVars, usageVars
<1>4. AttemptInv' /\ AnswerInv' /\ ModelInv'
  BY <1>1, <1>2 DEF AttemptInv, AnswerInv, ModelInv, Running, Settled
<1>5. BudgetInv'
  BY <1>1 DEF BudgetInv
<1>6. ClockInv'
  BY <1>1, PatienceFixed DEF IInv, ClockInv, Running, BuildModelRaises
<1>. QED  BY <1>3, <1>4, <1>5, <1>6 DEF IInv

LEMMA BeginTurnStep == IInv /\ BeginTurn => IInv'
<1>. SUFFICES ASSUME IInv, BeginTurn PROVE IInv'
  OBVIOUS
<1>. DEFINE kinds == {"llm_start"} \cup
                     IF turn = 0 THEN StartEvents ELSE {}
<1>1. kinds \in SUBSET ActionTypes
  BY DEF ActionTypes, StartEvents
<1>2. emitted' \in [ActionTypes -> Nat] /\ step' \in Nat
  BY <1>1, EmitType DEF IInv, TypeOK, BeginTurn
<1>3. TypeOK'
  BY <1>2 DEF IInv, TypeOK, BeginTurn, Stages, configVars, usageVars, answerVars
<1>. QED  BY <1>3, RunningStep DEF BeginTurn, usageVars

LEMMA ExceedTurnsStep == IInv /\ ExceedTurns => IInv'
<1>. SUFFICES ASSUME IInv, ExceedTurns PROVE IInv'
  OBVIOUS
<1>1. "MaxTurnsExceeded" \in ExceptionClasses
  BY DEF ExceptionClasses
<1>2. tokensIn' \in Nat /\ tokensOut' \in Nat
  BY DEF IInv, TypeOK, ExceedTurns, usageVars
<1>. QED  BY <1>1, <1>2, FailStep DEF ExceedTurns, usageVars

LEMMA LlmReturnsStep ==
    ASSUME IInv, NEW usage \in Usages, NEW tools \in BoundedSeq(Tools, MaxParallel),
           NEW message \in Texts, LlmReturns(usage, tools, message)
    PROVE  IInv'
<1>1. PICK warned \in Warnings(usage) :
        Emit({"llm_end"} \cup IF warned THEN {"budget_warning"} ELSE {})
  BY DEF LlmReturns
<1>2. {"llm_end"} \cup (IF warned THEN {"budget_warning"} ELSE {}) \in SUBSET ActionTypes
  BY DEF ActionTypes
<1>3. emitted' \in [ActionTypes -> Nat] /\ step' \in Nat
  BY <1>1, <1>2, EmitType DEF IInv, TypeOK
<1>4. calls' \in Seq(CallType)
  BY CallsOfResponse DEF LlmReturns
<1>5. /\ tokensIn' \in Nat /\ tokensOut' \in Nat
      /\ model' = model /\ toolCalls' = toolCalls
  BY RunAssumption DEF IInv, TypeOK, LlmReturns, CountUsage
<1>6. TypeOK'
  BY <1>3, <1>4, <1>5
     DEF IInv, TypeOK, LlmReturns, Stages, configVars, answerVars
<1>. QED  BY <1>5, <1>6, RunningStep DEF LlmReturns

LEMMA LlmHookRaisesStep ==
    ASSUME IInv, NEW usage \in Usages, LlmHookRaises(usage)
    PROVE  IInv'
<1>1. "Exception" \in ExceptionClasses /\ {"llm_end"} \in SUBSET ActionTypes
  BY DEF ExceptionClasses, ActionTypes
<1>2. /\ tokensIn' \in Nat /\ tokensOut' \in Nat
      /\ model' = model /\ toolCalls' = toolCalls
  BY RunAssumption DEF IInv, TypeOK, LlmHookRaises, CountUsage
<1>. QED  BY <1>1, <1>2, FailStep DEF LlmHookRaises

LEMMA LlmRaisesStep ==
    ASSUME IInv, NEW exception \in ProviderErrors, LlmRaises(exception)
    PROVE  IInv'
<1>1. exception \in ExceptionClasses
  BY DEF ProviderErrors, ExceptionClasses
<1>2. tokensIn' \in Nat /\ tokensOut' \in Nat
  BY DEF IInv, TypeOK, LlmRaises, usageVars
<1>. QED  BY <1>1, <1>2, FailStep DEF LlmRaises, usageVars

LEMMA ToolStartStep ==
    ASSUME IInv, NEW i \in DOMAIN calls, ToolStart(i)
    PROVE  IInv'
<1>1. {"tool_start", "reasoning_summary"} \in SUBSET ActionTypes
  BY DEF ActionTypes
<1>2. emitted' \in [ActionTypes -> Nat] /\ step' \in Nat
  BY <1>1, EmitType DEF IInv, TypeOK, ToolStart
<1>3. /\ calls' = [calls EXCEPT ![i] = [@ EXCEPT !.phase = "running", !.began = now]]
      /\ started' = [started EXCEPT ![calls[i].tool] = now]
      /\ toolCalls' = toolCalls + 1
  BY DEF ToolStart
<1>4. calls' \in Seq(CallType)
  <2>1. calls[i] \in CallType /\ now \in Nat
    BY DEF IInv, TypeOK
  <2>2. [calls[i] EXCEPT !.phase = "running", !.began = now] \in CallType
    BY <2>1 DEF CallType
  <2>. QED  BY <1>3, <2>2 DEF IInv, TypeOK
<1>5. started' \in [Tools -> Nat \cup {None}] /\ toolCalls' \in Nat
  <2>1. started \in [Tools -> Nat \cup {None}] /\ now \in Nat /\ toolCalls \in Nat
    BY DEF IInv, TypeOK
  <2>2. started' \in [Tools -> Nat \cup {None}]
    BY <1>3, <2>1
  <2>. QED  BY <1>3, <2>1, <2>2
<1>6. TypeOK'
  BY <1>2, <1>4, <1>5 DEF IInv, TypeOK, ToolStart, Stages, configVars, answerVars
<1>. QED  BY <1>6, RunningStep DEF ToolStart

LEMMA ToolEndStep ==
    ASSUME IInv, NEW i \in DOMAIN calls, ToolEnd(i)
    PROVE  IInv'
<1>1. {"tool_end"} \in SUBSET ActionTypes
  BY DEF ActionTypes
<1>2. emitted' \in [ActionTypes -> Nat] /\ step' \in Nat
  BY <1>1, EmitType DEF IInv, TypeOK, ToolEnd
<1>3. calls' \in Seq(CallType)
  <2>1. calls[i] \in CallType
    BY DEF IInv, TypeOK
  <2>2. [calls[i] EXCEPT !.phase = "ended"] \in CallType
    BY <2>1 DEF CallType
  <2>3. calls' = [calls EXCEPT ![i] = [calls[i] EXCEPT !.phase = "ended"]]
    BY DEF ToolEnd
  <2>. QED  BY <2>2, <2>3 DEF IInv, TypeOK
<1>4. started' \in [Tools -> Nat \cup {None}]
  BY DEF IInv, TypeOK, ToolEnd, ForgetStart
<1>5. TypeOK'
  BY <1>2, <1>3, <1>4
     DEF IInv, TypeOK, ToolEnd, Stages, configVars, usageVars, answerVars
<1>. QED  BY <1>5, RunningStep DEF ToolEnd, usageVars

LEMMA RunAgainStep == IInv /\ RunAgain => IInv'
<1>. SUFFICES ASSUME IInv, RunAgain PROVE IInv'
  OBVIOUS
<1>1. TypeOK'
  BY DEF IInv, TypeOK, RunAgain, Stages, Texts, configVars, usageVars, answerVars
<1>. QED  BY <1>1, RunningStep DEF RunAgain, usageVars

LEMMA MisbehaveStep == IInv /\ Misbehave => IInv'
<1>. SUFFICES ASSUME IInv, Misbehave PROVE IInv'
  OBVIOUS
<1>1. "ModelBehaviorError" \in ExceptionClasses
  BY DEF ExceptionClasses
<1>2. tokensIn' \in Nat /\ tokensOut' \in Nat
  BY DEF IInv, TypeOK, Misbehave, usageVars
<1>. QED  BY <1>1, <1>2, FailStep DEF Misbehave, usageVars

LEMMA AgentEndsStep == IInv /\ AgentEnds => IInv'
<1>. SUFFICES ASSUME IInv, AgentEnds PROVE IInv'
  OBVIOUS
<1>1. EndEvents \in SUBSET ActionTypes
  BY DEF ActionTypes, EndEvents
<1>2. emitted' \in [ActionTypes -> Nat] /\ step' \in Nat
  BY <1>1, EmitType DEF IInv, TypeOK, AgentEnds
<1>3. TypeOK'
  BY <1>2 DEF IInv, TypeOK, AgentEnds, Stages, Texts, configVars, usageVars, answerVars
<1>. QED  BY <1>3, RunningStep DEF AgentEnds, usageVars

LEMMA ProduceFinalStep ==
    ASSUME IInv, NEW raw \in RawOutputs, ProduceFinal(raw)
    PROVE  IInv'
<1>1. final' \in AnswerType /\ final'.text = "model"
  BY AnswerTypes DEF ProduceFinal
<1>2. TypeOK'
  BY <1>1 DEF IInv, TypeOK, ProduceFinal, Stages, configVars, usageVars
<1>3. AttemptInv' /\ AnswerInv' /\ ModelInv'
  BY <1>1 DEF IInv, AttemptInv, AnswerInv, ModelInv, Running, Settled, ProduceFinal,
              usageVars
<1>4. BudgetInv'
  BY DEF BudgetInv, ProduceFinal
<1>5. ClockInv'
  BY PatienceFixed DEF IInv, ClockInv, Running, ProduceFinal
<1>. QED  BY <1>2, <1>3, <1>4, <1>5 DEF IInv

LEMMA RejectFinalStep ==
    ASSUME IInv, NEW raw \in RawOutputs, RejectFinal(raw)
    PROVE  IInv'
<1>1. CoerceRaises(raw) \in ExceptionClasses
  BY DEF RejectFinal, CoerceRaises, ExceptionClasses
<1>2. tokensIn' \in Nat /\ tokensOut' \in Nat
  BY DEF IInv, TypeOK, RejectFinal, usageVars
<1>. QED  BY <1>1, <1>2, FailStep DEF RejectFinal, usageVars

LEMMA EndRaisesStep ==
    ASSUME IInv, NEW exception \in LateErrors, EndRaises(exception)
    PROVE  IInv'
<1>1. exception \in ExceptionClasses
  BY DEF LateErrors, ExceptionClasses
<1>2. tokensIn' \in Nat /\ tokensOut' \in Nat
  BY DEF IInv, TypeOK, EndRaises, usageVars
<1>. QED  BY <1>1, <1>2, FailStep DEF EndRaises, usageVars

-----------------------------------------------------------------------------
(***************************************************************************)
(* The timers', and those of _drive after the loop.                        *)
(***************************************************************************)
LEMMA WaitForTimeoutStep == IInv /\ WaitForTimeout => IInv'
<1>. SUFFICES ASSUME IInv, WaitForTimeout PROVE IInv'
  OBVIOUS
<1>1. "TimeoutError" \in ExceptionClasses
  BY DEF ExceptionClasses
<1>2. tokensIn' \in Nat /\ tokensOut' \in Nat
  BY DEF IInv, TypeOK, WaitForTimeout, usageVars
<1>3. pc \in {"turn", "llm", "tools", "ending"}
  BY DEF WaitForTimeout, RunnerWaits
<1>. QED  BY <1>1, <1>2, <1>3, FailStep DEF WaitForTimeout, usageVars

LEMMA WakeUpStep == IInv /\ WakeUp => IInv'
<1>. SUFFICES ASSUME IInv, WakeUp PROVE IInv'
  OBVIOUS
<1>1. final' \in AnswerType /\ final'.text = "canned_partial" /\ final'.confidence = "low"
  BY AnswerTypes DEF WakeUp, FallbackAnswer, Caveats
<1>2. TypeOK'
  BY <1>1 DEF IInv, TypeOK, WakeUp, Stages, configVars, usageVars
<1>3. AttemptInv' /\ AnswerInv' /\ ModelInv'
  BY <1>1 DEF IInv, AttemptInv, AnswerInv, ModelInv, Running, Settled, WakeUp, usageVars
<1>4. BudgetInv'
  BY DEF BudgetInv, WakeUp
<1>5. ClockInv'
  BY PatienceFixed DEF IInv, ClockInv, Running, WakeUp
<1>. QED  BY <1>2, <1>3, <1>4, <1>5 DEF IInv

LEMMA TickStep == IInv /\ Tick => IInv'
<1>. SUFFICES ASSUME IInv, Tick PROVE IInv'
  OBVIOUS
<1>1. TypeOK'
  BY DEF IInv, TypeOK, Tick, Stages, configVars, usageVars
<1>2. AttemptInv' /\ AnswerInv' /\ ModelInv'
  BY DEF IInv, AttemptInv, AnswerInv, ModelInv, Running, Settled, Tick, usageVars
<1>3. BudgetInv'
  BY DEF BudgetInv, Tick, RunnerWaits
<1>4. ClockInv'
  <2>1. /\ Timeout \in Nat /\ Lag \in Nat /\ Gap \in Nat /\ now \in Nat /\ wake \in Nat
        /\ Larger(0, settings.backoff) \in Nat
    BY BudgetType DEF IInv, TypeOK
  <2>2. /\ now' = now + 1 /\ wake' = wake /\ pc' = pc
        /\ Timeout' = Timeout
        /\ Larger(0, settings.backoff)' = Larger(0, settings.backoff)
    BY PatienceFixed DEF Tick
  <2>3. \/ pc \in Running \ {"start"} /\ now < Timeout + Lag
        \/ pc = "backoff" /\ now < wake + Lag
    BY DEF Tick, RunnerWaits, Running
  <2>. QED  BY <2>1, <2>2, <2>3 DEF IInv, ClockInv, Running
<1>. QED  BY <1>1, <1>2, <1>3, <1>4 DEF IInv

\* Neither the counters, the clock nor the prices of the budget check change.
LEMMA CheckFixed ==
    ASSUME UNCHANGED << configVars, now, usageVars >>
    PROVE  CheckAt(now)' = CheckAt(now)
BY DEF configVars, usageVars, CheckAt, Budget, TotalTokens

\* Nor does what the check says of an earlier time.
LEMMA CheckAtFixed ==
    ASSUME UNCHANGED << configVars, usageVars >>
    PROVE  \A time : CheckAt(time)' = CheckAt(time)
BY DEF configVars, usageVars, CheckAt, Budget, TotalTokens

LEMMA EnforceBudgetStep == IInv /\ EnforceBudget => IInv'
<1>. SUFFICES ASSUME IInv, EnforceBudget PROVE IInv'
  OBVIOUS
<1>1. /\ pc = "post" /\ pc' = "closing"
      /\ UNCHANGED << configVars, now, wake, attempt, turn, usageVars, calls, started,
                      text, failure >>
  BY DEF EnforceBudget
<1>2. CASE OverBudget
  <2>1. /\ Emit({"fallback"}) /\ final' = SafePartialAnswer(BudgetCheck)
        /\ status' = "partial" /\ fallbackUsed' = TRUE
    BY <1>2 DEF EnforceBudget, Degrade
  <2>2. BudgetCheck \in Caveats \cup BreachReasons
    BY <1>2 DEF OverBudget, BudgetCheck, Check, BreachReasons
  <2>3. /\ final' \in AnswerType /\ final'.text = "canned_partial"
        /\ final'.confidence = "low"
    BY <2>1, <2>2, AnswerTypes
  <2>4. {"fallback"} \in SUBSET ActionTypes
    BY DEF ActionTypes
  <2>5. emitted' \in [ActionTypes -> Nat] /\ step' \in Nat
    BY <2>1, <2>4, EmitType DEF IInv, TypeOK
  <2>6. TypeOK'
    BY <1>1, <2>1, <2>3, <2>5 DEF IInv, TypeOK, Stages, configVars, usageVars
  <2>7. AttemptInv' /\ AnswerInv' /\ ModelInv'
    <3>1. AttemptInv'
      BY <1>1, <2>3 DEF IInv, AttemptInv
    <3>2. AnswerInv'
      BY <1>1, <2>1, <2>3 DEF AnswerInv, Running, Settled
    <3>3. model # NoModel
      BY <1>1, <1>2 DEF IInv, ModelInv, OverBudget
    <3>4. ModelInv'
      BY <1>1, <3>3 DEF ModelInv, usageVars
    <3>. QED  BY <3>1, <3>2, <3>4
  <2>8. BudgetInv'
    BY <2>1 DEF BudgetInv
  <2>9. ClockInv'
    BY <1>1, PatienceFixed DEF IInv, ClockInv, Running
  <2>. QED  BY <2>6, <2>7, <2>8, <2>9 DEF IInv
<1>3. CASE ~ OverBudget
  <2>1. UNCHANGED << emitted, step, final, status, fallbackUsed >>
    BY <1>3 DEF EnforceBudget
  <2>2. TypeOK'
    BY <1>1, <2>1 DEF IInv, TypeOK, Stages, configVars, usageVars
  <2>3. AttemptInv' /\ AnswerInv' /\ ModelInv'
    BY <1>1, <2>1 DEF IInv, AttemptInv, AnswerInv, ModelInv, Running, Settled, usageVars
  <2>4. BudgetInv'
    BY <1>1, <1>3, <2>1, CheckFixed DEF BudgetInv, OverBudget, BudgetCheck, CheckAt
  <2>5. ClockInv'
    BY <1>1, PatienceFixed DEF IInv, ClockInv, Running
  <2>. QED  BY <2>2, <2>3, <2>4, <2>5 DEF IInv
<1>. QED  BY <1>2, <1>3

\* The end of the run moves the program counter and reads the clock again.
LEMMA FinishStep == IInv /\ Finish => IInv'
<1>. SUFFICES ASSUME IInv, Finish PROVE IInv'
  OBVIOUS
<1>1. /\ UNCHANGED << configVars, attempt, turn, usageVars, calls, started, text,
                      emitted, step, answerVars >>
      /\ pc = "closing" /\ pc' = "done"
      /\ now' \in now..(now + Gap)
  BY DEF Finish
<1>2. /\ now \in Nat /\ now' \in Nat /\ now' <= now + Gap
      /\ Timeout \in Nat /\ Lag \in Nat /\ Gap \in Nat
      /\ Larger(0, settings.backoff) \in Nat
  BY <1>1, BudgetType DEF IInv, TypeOK
<1>3. TypeOK'
  BY <1>1, <1>2 DEF IInv, TypeOK, Stages, configVars, usageVars, answerVars
<1>4. AttemptInv' /\ AnswerInv' /\ ModelInv'
  BY <1>1 DEF IInv, AttemptInv, AnswerInv, ModelInv, Running, Settled, usageVars, answerVars
<1>5. BudgetInv'
  <2>1. SUFFICES ASSUME status' = "ok"
                 PROVE  \E time \in Nat : now' <= time + Gap /\ CheckAt(time)' = "ok"
    BY <1>1 DEF BudgetInv
  <2>2. CheckAt(now) = "ok"
    BY <1>1, <2>1 DEF IInv, BudgetInv, answerVars
  <2>3. \A time : CheckAt(time)' = CheckAt(time)
    BY <1>1, CheckAtFixed
  <2>. QED  BY <1>2, <2>2, <2>3
<1>6. ClockInv'
  <2>1. /\ Timeout' = Timeout
        /\ Larger(0, settings.backoff)' = Larger(0, settings.backoff)
    BY <1>1, PatienceFixed
  <2>2. now <= Timeout + Lag + Larger(0, settings.backoff) + Lag
    BY <1>1 DEF IInv, ClockInv
  <2>3. now' <= Timeout + Lag + Larger(0, settings.backoff) + Lag + Gap
    BY <1>2, <2>2
  <2>. QED  BY <1>1, <2>1, <2>3 DEF ClockInv, Running
<1>. QED  BY <1>3, <1>4, <1>5, <1>6 DEF IInv

\* An escaping exception moves the program counter alone.
LEMMA EscapeStep == IInv /\ Escape => IInv'
<1>. SUFFICES ASSUME IInv, Escape PROVE IInv'
  OBVIOUS
<1>1. /\ UNCHANGED << configVars, now, attempt, turn, usageVars, calls, started, text,
                      emitted, step, answerVars >>
      /\ pc \in Settled \ {"done"} /\ pc' = "crashed"
  BY DEF Escape, Settled
<1>2. TypeOK'
  BY <1>1 DEF IInv, TypeOK, Stages, configVars, usageVars, answerVars
<1>3. AttemptInv' /\ AnswerInv' /\ ModelInv'
  BY <1>1 DEF IInv, AttemptInv, AnswerInv, ModelInv, Running, Settled, usageVars, answerVars
<1>4. BudgetInv'
  BY <1>1 DEF BudgetInv
<1>5. ClockInv'
  BY <1>1, PatienceFixed DEF IInv, ClockInv, Running, answerVars
<1>. QED  BY <1>2, <1>3, <1>4, <1>5 DEF IInv

LEMMA StutterStep == IInv /\ UNCHANGED vars => IInv'
<1>. SUFFICES ASSUME IInv, UNCHANGED vars PROVE IInv'
  OBVIOUS
<1>1. TypeOK'
  BY DEF IInv, TypeOK, vars
<1>2. AttemptInv' /\ AnswerInv' /\ ModelInv'
  BY DEF IInv, AttemptInv, AnswerInv, ModelInv, vars
<1>3. BudgetInv'
  <2>1. UNCHANGED << configVars, usageVars, now, pc, status >>
    BY DEF vars, configVars, usageVars
  <2>2. \A time : CheckAt(time)' = CheckAt(time)
    BY <2>1, CheckAtFixed
  <2>3. CheckAt(now)' = CheckAt(now)
    BY <2>1, CheckFixed
  <2>. QED  BY <2>1, <2>2, <2>3 DEF IInv, BudgetInv
<1>4. ClockInv'
  BY PatienceFixed DEF IInv, ClockInv, vars, configVars
<1>. QED  BY <1>1, <1>2, <1>3, <1>4 DEF IInv

LEMMA NextStep == IInv /\ [Next]_vars => IInv'
<1>. SUFFICES ASSUME IInv, [Next]_vars PROVE IInv'
  OBVIOUS
<1>1. CASE LoopStep
  BY <1>1, BuildModelStep, BuildModelRaisesStep, BeginTurnStep, ExceedTurnsStep,
     ToolStartStep, RunAgainStep, MisbehaveStep, AgentEndsStep, ProduceFinalStep,
     RejectFinalStep, WaitForTimeoutStep, WakeUpStep, TickStep, EnforceBudgetStep,
     FinishStep, EscapeStep
     DEF LoopStep
<1>2. CASE OutsideStep
  BY <1>2, LlmHookRaisesStep, LlmReturnsStep, LlmRaisesStep, EndRaisesStep, ToolEndStep
     DEF OutsideStep
<1>3. CASE Terminated \/ UNCHANGED vars
  BY <1>3, StutterStep DEF Terminated
<1>. QED  BY <1>1, <1>2, <1>3 DEF Next

\* The invariant holds throughout every run of _drive.
THEOREM Invariance == Spec => []IInv
BY InitStep, NextStep, PTL DEF Spec

-----------------------------------------------------------------------------
PriceEntries == [id : Seq(STRING), input : Nat, output : Nat, complete : BOOLEAN]

\* The pricing lookup finds an entry of the table or the zero price
\* (estimate_cost), so a cost is a number, and none is negative.
LEMMA PricingType ==
    ASSUME NEW table \in Seq(PriceEntries), NEW name
    PROVE  PricingOf(table, name).input \in Nat /\ PricingOf(table, name).output \in Nat
<1>. DEFINE known == KnownEntries(table, name)
<1>1. known \in SUBSET DOMAIN table /\ DOMAIN table \in SUBSET Nat
  BY DEF KnownEntries
<1>2. CASE known = {}
  BY <1>2 DEF PricingOf, Unpriced, PriceEntry
<1>3. CASE known # {}
  <2>. DEFINE first == CHOOSE i \in known : \A j \in known : i <= j
  <2>1. \E i \in known : \A j \in known : i <= j
    BY <1>1, <1>3, LeastIndex
  <2>2. first \in known
    BY <2>1
  <2>3. table[first] \in PriceEntries
    BY <1>1, <2>2
  <2>4. PricingOf(table, name) = table[first]
    BY <1>3 DEF PricingOf
  <2>. QED  BY <2>3, <2>4 DEF PriceEntries
<1>. QED  BY <1>2, <1>3

LEMMA BilledCostType ==
    ASSUME TypeOK
    PROVE  BilledCost \in Nat
<1>1. settings.pricing \in Seq(PriceEntries)
  BY BudgetType DEF TypeOK, SettingsType, PriceEntries
<1>2. /\ PricingOf(settings.pricing, BilledModel).input \in Nat
      /\ PricingOf(settings.pricing, BilledModel).output \in Nat
  BY <1>1, PricingType
<1>3. tokensIn \in Nat /\ tokensOut \in Nat
  BY DEF TypeOK
<1>4. ASSUME NEW a \in Nat, NEW b \in Nat, NEW c \in Nat, NEW d \in Nat
      PROVE  a * b + c * d \in Nat
  OBVIOUS
<1>. QED  BY <1>2, <1>3, <1>4 DEF BilledCost, EstimateCost

\* Type correctness of the run's state, in every deployment (_drive).
THEOREM TypeCorrect == Spec => []TypeOK
<1>1. IInv => TypeOK
  BY DEF IInv
<1>. QED  BY <1>1, Invariance, PTL

\* A response with status "ok" is within all four budgets, its latency up to the
\* gap between two readings of the clock, and carries no failure: no path through _drive, the hooks and the router
\* reaches "ok" around Budgets.check.
THEOREM OkWithinBudget == Spec => []OkIsWithinBudget
<1>1. IInv => OkIsWithinBudget
  <2>. SUFFICES ASSUME IInv, pc = "done", status = "ok" PROVE OkIsWithinBudget
    BY DEF OkIsWithinBudget
  <2>1. PICK time \in Nat : now <= time + Gap /\ CheckAt(time) = "ok"
    BY DEF IInv, BudgetInv
  <2>7. failure = "none" /\ ~ fallbackUsed
    BY DEF IInv, AnswerInv, Settled
  <2>2. model # NoModel
    BY DEF IInv, ModelInv
  <2>3. CostUsd(settings.pricing, model, tokensIn, tokensOut) = BilledCost
    BY <2>2 DEF CostUsd, BilledCost, BilledModel
  <2>4. /\ ~ TotalTokens > Budget.max_total_tokens
        /\ ~ BilledCost > Budget.max_cost
        /\ ~ time > Budget.max_latency
        /\ ~ toolCalls > Budget.max_tool_calls
    BY <2>1, <2>3 DEF CheckAt, Check
  <2>5. /\ TotalTokens \in Int /\ now \in Int /\ toolCalls \in Int /\ Gap \in Int
        /\ Budget.max_latency \in Int /\ Budget.max_cost \in Int
        /\ Budget.max_tool_calls \in Int /\ Budget.max_total_tokens \in Int
    BY BudgetType DEF IInv, TypeOK, TotalTokens
  <2>6. BilledCost \in Int
    BY BilledCostType DEF IInv, TypeOK
  <2>8. now - Gap <= Budget.max_latency
    BY <2>1, <2>4, <2>5
  <2>. QED  BY <2>4, <2>5, <2>6, <2>7, <2>8
       DEF OkIsWithinBudget, Within, Budget, FromSettings, Override
<1>. QED  BY <1>1, Invariance, PTL

\* The model's own answer is returned exactly when the status is "ok".
THEOREM ModelAnswerExactlyWhenOk == Spec => []ModelAnswerIffOk
<1>1. IInv => ModelAnswerIffOk
  BY DEF IInv, AnswerInv, ModelAnswerIffOk, Settled
<1>. QED  BY <1>1, Invariance, PTL

\* The driver is single-shot: it never loops and never runs the agent again.
THEOREM DriverIsSingleShot == Spec => []SingleShot
<1>1. IInv => SingleShot
  BY DEF IInv, AttemptInv, SingleShot
<1>. QED  BY <1>1, Invariance, PTL

\* No run takes longer than its timeout, its backoff, the lag of two timers and
\* the gap between the budget check and the duration's reading.
THEOREM WallClock == Spec => []WallClockBound
<1>1. IInv => WallClockBound
  BY DEF IInv, ClockInv, WallClockBound
<1>. QED  BY <1>1, Invariance, PTL

-----------------------------------------------------------------------------
\* Until the Runner is called nothing is counted, and a run that is an error has
\* not called it.
NotBegun == turn = 0 /\ step = 0 /\ toolCalls = 0 /\ tokensIn = 0 /\ tokensOut = 0

NotBegunInv == pc = "start" \/ status = "error" => NotBegun

\* Only build_model's exception makes a run an error.
LEMMA OnlyBuildModelFails ==
    ASSUME IInv, [Next]_vars, status' = "error"
    PROVE  \/ BuildModelRaises
           \/ /\ status = "error"
              /\ UNCHANGED << turn, step, toolCalls, tokensIn, tokensOut >>
<1>1. pc \in Running \cup {"backoff"} => status = "ok"
  BY DEF IInv, AnswerInv
<1>2. ASSUME NEW exception, NEW kinds, Fail(exception, kinds) PROVE pc \notin Running
  BY <1>1, <1>2 DEF Fail
<1>3. ~ ExceedTurns /\ ~ Misbehave /\ ~ WaitForTimeout
  BY <1>2 DEF ExceedTurns, Misbehave, WaitForTimeout, RunnerWaits, Running
<1>4. \A exception : ~ LlmRaises(exception) /\ ~ EndRaises(exception)
  BY <1>2 DEF LlmRaises, EndRaises, Running
<1>5. \A usage : ~ LlmHookRaises(usage)
  BY <1>2 DEF LlmHookRaises, Running
<1>6. \A raw : ~ RejectFinal(raw) /\ ~ ProduceFinal(raw)
  BY <1>1, <1>2 DEF RejectFinal, ProduceFinal, Running
<1>7. ~ BuildModel /\ ~ BeginTurn /\ ~ RunAgain /\ ~ AgentEnds
  BY <1>1 DEF BuildModel, BeginTurn, RunAgain, AgentEnds, Running, answerVars
<1>8. \A usage, tools, message : ~ LlmReturns(usage, tools, message)
  BY <1>1 DEF LlmReturns, Running, answerVars
<1>9. \A i : ~ ToolStart(i) /\ ~ ToolEnd(i)
  BY <1>1 DEF ToolStart, ToolEnd, Running, answerVars
<1>10. ~ WakeUp
  BY DEF WakeUp
<1>11. ASSUME Tick \/ EnforceBudget \/ Finish \/ Escape \/ Terminated \/ UNCHANGED vars
       PROVE  /\ status = "error"
              /\ UNCHANGED << turn, step, toolCalls, tokensIn, tokensOut >>
  BY <1>11 DEF Tick, EnforceBudget, Degrade, Finish, Escape, Terminated, vars, usageVars,
               answerVars
<1>12. QED
  BY <1>3, <1>4, <1>5, <1>6, <1>7, <1>8, <1>9, <1>10, <1>11 DEF Next, LoopStep, OutsideStep

\* No step leads back to the top of the loop.
LEMMA NeverRestarts ==
    ASSUME [Next]_vars, pc' = "start"
    PROVE  UNCHANGED vars \/ Tick
<1>1. \A exception, kinds : ~ Fail(exception, kinds)
  BY DEF Fail
<1>2. /\ ~ ExceedTurns /\ ~ Misbehave /\ ~ WaitForTimeout
      /\ \A exception : ~ LlmRaises(exception) /\ ~ EndRaises(exception)
      /\ \A usage : ~ LlmHookRaises(usage)
      /\ \A raw : ~ RejectFinal(raw)
  BY <1>1 DEF ExceedTurns, Misbehave, WaitForTimeout, LlmRaises, EndRaises, LlmHookRaises,
              RejectFinal
<1>3. /\ ~ BuildModel /\ ~ BuildModelRaises /\ ~ BeginTurn /\ ~ RunAgain /\ ~ WakeUp
      /\ ~ EnforceBudget /\ ~ Finish /\ ~ Escape /\ ~ AgentEnds
  BY DEF BuildModel, BuildModelRaises, BeginTurn, RunAgain, WakeUp, EnforceBudget, Finish,
         Escape, AgentEnds
<1>4. /\ \A raw : ~ ProduceFinal(raw)
      /\ \A usage, tools, message : ~ LlmReturns(usage, tools, message)
  BY DEF ProduceFinal, LlmReturns
<1>5. \A i : ToolStart(i) \/ ToolEnd(i) => pc = "tools" /\ pc' = pc
  BY Zenon DEF ToolStart, ToolEnd
<1>6. \A i : ~ ToolStart(i) /\ ~ ToolEnd(i)
  BY <1>5
<1>7. QED
  BY <1>2, <1>3, <1>4, <1>6 DEF Next, LoopStep, OutsideStep, Terminated

LEMMA NotBegunStep ==
    ASSUME IInv, NotBegunInv, [Next]_vars
    PROVE  NotBegunInv'
<1>1. CASE pc' = "start"
  BY <1>1, NeverRestarts DEF NotBegunInv, NotBegun, Tick, RunnerWaits, vars
<1>2. CASE status' = "error" /\ BuildModelRaises
  BY <1>2 DEF BuildModelRaises, NotBegunInv, NotBegun, usageVars
<1>3. CASE /\ status = "error"
           /\ UNCHANGED << turn, step, toolCalls, tokensIn, tokensOut >>
  BY <1>3 DEF NotBegunInv, NotBegun
<1>4. QED
  BY <1>1, <1>2, <1>3, OnlyBuildModelFails DEF NotBegunInv

\* In every deployment: a response is an error only if the model could not be built,
\* and then it reports no event, no usage and no cost (_drive's two outer handlers).
THEOREM ErrorsHaveNotBegun == Spec => []ErrorMeansNotBegun
<1>1. Init => NotBegunInv
  BY DEF Init, NotBegunInv, NotBegun
<1>2. Spec => []NotBegunInv
  <2>1. IInv /\ NotBegunInv /\ [Next]_vars => NotBegunInv'
    BY NotBegunStep
  <2>2. QED
    BY <1>1, <2>1, Invariance, PTL DEF Spec
<1>3. IInv /\ NotBegunInv => ErrorMeansNotBegun
  <2>1. SUFFICES ASSUME IInv, NotBegun PROVE /\ turn = 0 /\ step = 0 /\ toolCalls = 0
                                             /\ TotalTokens = 0 /\ BilledCost = 0
    BY DEF NotBegunInv, ErrorMeansNotBegun
  <2> DEFINE p == PricingOf(settings.pricing, BilledModel).input
             q == PricingOf(settings.pricing, BilledModel).output
  <2>2. p \in Nat /\ q \in Nat
    <3>1. settings.pricing \in Seq(PriceEntries)
      BY <2>1, BudgetType DEF IInv, TypeOK, SettingsType, PriceEntries
    <3>2. QED
      BY <3>1, PricingType
  <2>3. BilledCost = 0 * p + 0 * q
    BY <2>1 DEF NotBegun, BilledCost, EstimateCost
  <2> HIDE DEF p, q
  <2>4. BilledCost = 0
    BY <2>2, <2>3
  <2>5. QED
    BY <2>1, <2>4 DEF NotBegun, TotalTokens
<1>4. QED
  BY <1>2, <1>3, Invariance, PTL

-----------------------------------------------------------------------------
\* A model's answer of any confidence is among the answers of the evaluated run.
LEMMA AnswerOfConfidence ==
    ASSUME NEW c \in Confidences
    PROVE  \E a \in Eval!Answers(EvaluatedCase, "claude") : a.confidence = c /\ a.caveats = {}
<1> DEFINE a == [ says |-> {}, caveats |-> {}, blank |-> FALSE, confidence |-> c ]
<1>1. {} \in SUBSET (EvaluatedCase.required_facts \cup EvaluatedCase.forbidden_behavior)
    OBVIOUS
<1>2. c \in {"low", "medium", "high"}
    BY DEF Confidences
<1> HIDE DEF EvaluatedCase
<1>3. a \in Eval!Answers(EvaluatedCase, "claude")
    BY <1>1, <1>2 DEF Eval!Answers
<1>4. QED
    BY <1>3

\* The latency cap of the evaluated case is a number.
LEMMA CapsAreNumbers ==
    ASSUME TypeOK
    PROVE  /\ Eval!RunCap(req.max_latency, settings.max_latency) \in Int
           /\ now \in Int /\ Gap \in Int
<1>1. settings \in SettingsType /\ req \in RequestType /\ Gap \in Nat
    BY RunAssumption DEF TypeOK
<1>2. settings.max_latency \in Int /\ req.max_latency \in Int \cup {None}
    BY <1>1 DEF SettingsType, RequestType
<1>3. now \in Nat
    BY DEF TypeOK
<1>4. QED
    BY <1>1, <1>2, <1>3 DEF Eval!RunCap

\* A finished run whose status tells what the theorems above say is a response the
\* evaluation allows, one case per status.
LEMMA ResponseIsEvaluated ==
    ASSUME TypeOK, pc = "done", OkIsWithinBudget, ModelAnswerIffOk, ErrorMeansNotBegun
    PROVE  AnswersAsEvaluated
<1> DEFINE case == EvaluatedCase
           sc == EvaluatedScenario
           Response(a, s, cost, duration, tools) ==
               [ says |-> a.says, caveats |-> a.caveats, blank |-> a.blank,
                 confidence |-> a.confidence, status |-> s, cost |-> cost,
                 duration |-> duration, tool_calls |-> tools ]
           canned == Eval!CannedAnswer
<1>1. /\ sc.costs = {BilledCost} /\ sc.durations = {now} /\ sc.tool_counts = {toolCalls}
      /\ sc.provider = "claude"
      /\ sc.max_cost = settings.max_cost /\ sc.max_latency = settings.max_latency
      /\ sc.gap = Gap
      /\ case.max_cost = req.max_cost /\ case.max_latency = req.max_latency
    BY DEF EvaluatedScenario, EvaluatedCase
<1>2. canned.caveats = {"partial"} /\ canned.confidence = "low" /\ {"partial"} # {}
    BY DEF Eval!CannedAnswer
<1>3. status \in {"ok", "partial", "error"} /\ final.confidence \in Confidences
    BY DEF TypeOK, AnswerType
<1>4. /\ final.text = "model" <=> status = "ok"
      /\ status # "ok" => final.confidence = "low"
    BY DEF ModelAnswerIffOk
<1> HIDE DEF case, sc, canned
<1>5. CASE status = "ok"
    <2>1. PICK a \in Eval!Answers(case, "claude") :
              a.confidence = final.confidence /\ a.caveats = {}
        BY <1>3, AnswerOfConfidence DEF case
    <2>2. /\ BilledCost <= Eval!RunCap(case.max_cost, sc.max_cost)
          /\ now - Gap <= Eval!RunCap(case.max_latency, sc.max_latency)
        BY <1>1, <1>5 DEF OkIsWithinBudget, Within, Eval!RunCap
    <2>5. now <= Eval!RunCap(case.max_latency, sc.max_latency) + sc.gap
        <3>1. /\ Eval!RunCap(case.max_latency, sc.max_latency) \in Int
              /\ now \in Int /\ Gap \in Int
            BY <1>1, CapsAreNumbers
        <3>2. QED
            BY <1>1, <2>2, <3>1
    <2>3. Response(a, "ok", BilledCost, now, toolCalls) \in Eval!Responses(case, sc)
        BY <1>1, <2>2, <2>5 DEF Eval!Responses
    <2>4. QED
        BY <1>2, <1>4, <1>5, <2>1, <2>3 DEF AnswersAsEvaluated, case, sc, canned
<1>6. CASE status = "partial"
    <2>1. Response(canned, "partial", BilledCost, now, toolCalls) \in Eval!Responses(case, sc)
        BY <1>1 DEF Eval!Responses, canned
    <2>2. QED
        BY <1>2, <1>4, <1>6, <2>1 DEF AnswersAsEvaluated, case, sc, canned
<1>7. CASE status = "error"
    <2>1. BilledCost = 0 /\ toolCalls = 0
        BY <1>7 DEF ErrorMeansNotBegun
    <2>2. Response(canned, "error", 0, now, 0) \in Eval!Responses(case, sc)
        BY <1>1 DEF Eval!Responses, canned
    <2>3. QED
        BY <1>2, <1>4, <1>7, <2>1, <2>2 DEF AnswersAsEvaluated, case, sc, canned
<1>8. QED
    BY <1>3, <1>5, <1>6, <1>7

\* For every deployment and request, what a run returns is one of the responses that
\* the evaluation is checked and proved with: "ok" within the caps of its case, or
\* canned and of low confidence, and free of charge when it is an error.  So the
\* theorems about Evals speak of the responses of _drive.
THEOREM RunsAnswerAsEvaluated == Spec => []AnswersAsEvaluated
<1>1. TypeOK /\ OkIsWithinBudget /\ ModelAnswerIffOk /\ ErrorMeansNotBegun
          => AnswersAsEvaluated
    BY ResponseIsEvaluated DEF AnswersAsEvaluated
<1>2. QED
    BY <1>1, TypeCorrect, OkWithinBudget, ModelAnswerExactlyWhenOk, ErrorsHaveNotBegun, PTL
=============================================================================
