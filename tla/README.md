# Verification of the research-assistant agent

TLA+ models, TLC configurations and TLAPS proofs for the agent service under
`src/`. The program takes a question over HTTP, has an agent of the OpenAI
Agents SDK answer it with tools, streams a trace of what the agent does, and
wraps the run with a timeout, four budgets and a fallback router.

## 1. Inventory

| component | source | state | operations |
|---|---|---|---|
| run driver | `app/agent/workflow.py` `_drive`, `_apply_fallback`, `_coerce_final` | locals of one run: `attempt`, `final`, `status`, `fallback_used`, the error | build the model, run the agent under `wait_for`, map an exception to a failure kind, fall back, check the budgets, close and answer |
| lifecycle hooks | `app/agent/hooks.py` | `HookContext`: the sink, the counters, start times of tool calls by tool name | eight callbacks of the SDK, `emit_error`, `emit_fallback` |
| budgets | `app/agent/budgets.py` | `BudgetState`: tokens, tool calls, model, start time | `from_settings` with overrides, `check` |
| cost calculator | `app/agent/cost.py` | none; the price table is in the settings | `estimate_cost`: exact id, prefix, or zero |
| fallback router | `app/agent/fallback.py` | none | `decide_fallback`, the canned answers |
| event sink | `app/agent/reasoning_events.py` | step counter, list of events, unbounded queue, closed flag | `emit`, `close`, `stream`, redaction |
| streaming | `workflow.py` `run_stream`, `app/main.py` `event_gen` | a driver task and a reader generator | drain the queue, await the driver, stop when the client is gone |
| providers | `app/agent/providers.py` | none | `build_model`; a deterministic `MockModel` |
| tools | `app/agent/tools.py` | none | search, calculator, lookup |
| settings, types | `app/config.py`, `app/models.py` | configuration | parsing |
| logging context | `app/observability/logging.py` | context variables, one value per task | `bind_run_context`, `unbind_run_context`, `_ctx_processor` |
| metrics | `app/observability/metrics.py`, moved by hooks and driver | Prometheus registry | increments, observations |
| tracing | `app/observability/tracing.py` | OpenTelemetry provider | spans |
| evaluation | `evals/run_evals.py`, `evals/scorers.py` | the results so far, two files, an exit code | run the cases, score, aggregate, gate, write |

How they interact. `POST /agent/run` awaits `_drive`. `POST /agent/run/stream`
starts `_drive` as a task and reads the sink's queue beside it. `_drive` gives
the SDK's `Runner.run` a `HookContext`, through which the hooks, called by the
SDK in between its own awaits, count usage into the `BudgetState` and emit into
the sink. The exceptions of the Runner come back to `_drive`'s handlers, which
turn them into an `AgentRunError` and ask the router. Everything is one event
loop: interleavings happen at awaits.

What makes it hard: two tasks on one queue, one of which may be cancelled while
the other goes on; a timeout that races with an answer; callbacks of concurrent
tool calls that share a dictionary; hooks of one event that run in no stated
order; budgets that may be crossed by the last step of a run; exceptions from
inside and outside the handlers' reach. `PROJECT.json` lists these hazards by
line.

What makes each component correct:

* driver: the status, the answer and the trace agree; "ok" means within budget;
  the run ends, and within a stated time; it falls back once at most;
* hooks: usage is counted before it is judged; every start has its end in a
  successful run; a call's latency is its own;
* sink and stream: the client sees each event once, in order, then the response;
  a stream ends; a client that leaves does not break the run;
* cost and router: functions that agree with their tables;
* logging context: a line names the run that wrote it, whatever else runs;
* metrics: what is added for a run is what its response reports;
* evaluation: a gate that is passed was earned by the answers themselves, and the
  files and the exit code tell the same story.

## 2. Modules

| module | what it is | code |
|---|---|---|
| `Fallback` | the router, the canned answers, the handlers' table from exception to kind, `_coerce_final` (pure) | `fallback.py`, `workflow.py` 194-212, 267-345 |
| `Budgets` | price lookup, cost, budgets with overrides, `check`, the 80% thresholds (pure) | `cost.py`, `budgets.py`, `hooks.py` 209-215 |
| `AgentRun` | one call of `_drive` with the hooks | `workflow.py` 129-330, `hooks.py` |
| `Metrics` | the Prometheus registry, superposed on `AgentRun` | `metrics.py`, `hooks.py`, `workflow.py` |
| `RunContract` | what a run promises its readers: an abstract run | derived from `_drive` |
| `StreamRun` | the sink's queue, the reader and the client, on top of `RunContract` | `reasoning_events.py`, `workflow.py` 94-114, `main.py` 58-82 |
| `EventFeed` | what a streamed run promises its client: an abstract feed | `workflow.py` 97-114, `main.py` 58-82 |
| `RunContext` | the logging context variables under runs and streams of several tasks | `logging.py`, `workflow.py` 82-127 |
| `MockModel` | `MockModel`'s input flattening and canned answers (pure) | `providers.py` |
| `Scoring` | scorers, aggregation with its p95, gates (pure) | `scorers.py`, `run_evals.py` 60-104 |
| `EvalCases` | what a run of a case may answer (pure) | `run_evals.py` 40-47, `models.py` 71-88 |
| `Evals` | `main_async`: cases, gates, files, exit code | `run_evals.py` |
| `GoldenDataset` | the golden dataset as CI runs it, and its gate | `golden_dataset.jsonl` |
| `MCAgentRun`, `MCEvals` | instances for TLC | |
| `SumLemmas` | lemmas about sums over a finite function, for the proof modules | |
| `AgentRun_proofs`, `AgentTrace_proofs`, `Metrics_proofs`, `StreamRun_proofs`, `RunContext_proofs`, `Scoring_proofs`, `Evals_proofs` | the theorems | |

`AgentRun` extends `Budgets` and `Fallback` and instantiates `RunContract` with
a refinement mapping (`ImplementsContract`). `StreamRun` extends `RunContract`:
it composes the abstract run with the queue and the reader, which keeps it small
and lets it stand for every run `AgentRun` allows. It implements `EventFeed`
(`ImplementsFeed`). `Metrics` extends `AgentRun`, action by action. `EvalCases`
extends `Scoring` and `MockModel`; `Evals` extends `EvalCases`, and `AgentRun`
instantiates it to show that what it returns is what `Evals` is given
(`AnswersAsEvaluated`). `GoldenDataset` extends `Evals`.

### AgentRun

The state is the locals of `_drive` (`attempt`, `final`, `status`,
`fallbackUsed`, and `failure`, the kind of the error caught), the `BudgetState`
(`model`, `tokensIn`, `tokensOut`, `toolCalls`, and `now`, the time since
`started_at`), the hooks' scratch (`started`, by tool name), the tool calls of
the current turn, the events emitted counted by type (`emitted`) with the step
counter (`step`), and a program counter `pc`.

An action is what runs between two awaits. `BeginTurn`, `LlmReturns`,
`ToolStart`, `ToolEnd`, `AgentEnds` are what the hooks do when the SDK calls
them; `ProduceFinal` is the return of `Runner.run` with `_coerce_final`;
`ExceedTurns`, `LlmRaises`, `LlmHookRaises`, `Misbehave`, `RejectFinal`, `EndRaises`,
`WaitForTimeout` are the ways out of the `try`, each of them with the whole path
through its handler, the router and `_apply_fallback` (`Fail`); `WakeUp`,
`EnforceBudget`, `Finish`, `Escape` are the rest of `_drive`. The SDK awaits the end
hooks inside `Runner.run`, so between `AgentEnds` and the return (stage `ending`) the
clock goes on, the timeout may fire and the SDK may fail. The SDK, the model
and the tools are outside the repository and choose freely: how many calls and of
which tools, what usage, a message or none, an exception, or silence. A message
that comes with tool calls may end the run or not (`RunAgain`).

Abstractions. Time is a count of ticks, half a second in the instances, and
asyncio's timers fire at most `Lag` ticks late. The clock advances while the run
awaits (`Tick`); the driver reads it once for the budget check and once more for the
duration in the response, up to `Gap` ticks later (`Finish`), so that an "ok" response
may report a duration over its cap by the gap. Within one hook the clock stands still:
`on_agent_end` reads it for the histogram and again for its event, and no property
compares the two. A price of p USD per million
tokens is p micro-USD a token, whole, so the code's rounding to six digits is
exact. A model id is a sequence of fragments, so that `startswith` is `IsPrefix`.
A final output is one of the shapes `_coerce_final` tells apart; with
`output_type=FinalAnswer` the SDK itself produces the first only, the others are
there because the code handles them. Event texts and log lines are left out. A
response's `usage` is always present, as it is with both providers of the
repository.

### Metrics

One variable, the registry: a counter by label is a function, a histogram of
which only the number of observations matters is a number, and `LATENCY_MS` is
the list of what it observed. Each action of `AgentRun` is taken over with what
its hook, handler or `emit_*` helper counts in the same stretch of code; the
stretches that count nothing (`Uncounted`) leave the registry alone. The registry
is global and only grows, so what concurrent runs add is the sum of what each
adds: one run from a fresh registry is enough. `LATENCY_MS` is observed by
`AgentEnds`, before the run's outcome is known: `LatencyObservedOnce` says that it
happens at most once and exactly with `agent_end`, whatever follows. `REQUEST_COUNT`,
incremented on entry by the endpoints and by `_drive` (line 130), and the histograms'
buckets are left out.

### StreamRun

`queue`, `closed` are `EventSink._queue`, `_closed`. `reader` says at which await
the reader task is: `waiting` for the queue, `holding` an item while it asks
`is_disconnected()`, `sending` it. The client may leave at any time
(`Disconnect`); then sse-starlette may cancel the reader at any await
(`Cancel`), or the reader notices by itself at the next item. The driver task is
referenced by its pending timer or I/O and goes on. `GetFinal` takes the end
marker and the result in one step, because the driver closes the sink and
returns with no await in between.

### EventFeed

The same from the client's side, without tasks, queue and marker: a run that emits
and answers, and a view that grows by the next event, once by the response, or ends.
`StreamRun` maps `sent` to the view and the stages `served` and `left` to its end;
taking an item, asking whether the client is connected and being disconnected
without anybody noticing are stutters.

### RunContext

A task of asyncio has a context of its own. `context` is that of each consumer (a
request's task, a test, the evaluation), which calls `run` or iterates
`run_stream` for one run after the other; `copied` is that of a stream's driver
task, copied by `create_task`; `pairs` are the tokens of `bind_run_context`, here
the values they would restore. `RunBegins` and `StreamBegins` bind, `RunEnds` and
`StreamEnds` release, each in the consumer's task. A consumer that stops at an
item (`Drop`) leaves the generator suspended at its `yield`; the event loop
finalises it in another task (`Finalise`), where each reset raises `ValueError`,
which `unbind_run_context` swallows. Nothing binds `_trace_id` and `_span_id`,
though `docs/observability.md` says they come from the span.

### Evals

The state is `run_all`'s list of results, the failed gates, whether an exception
ended `main_async`, the exit code, and what each of the two files holds: an earlier
evaluation's contents, as at the start, this one's (`results.json` the aggregate and
the cases, `report.md` the failures of the gates), or a torn part. `RunCase` is a round
of the loop (a run and its scores, or the exception of the scorer), `Gate`,
`WriteResults`, `WriteReport`, `Exit` the rest. `write_text` truncates a file and then
writes it, so an `OSError` leaves it as it was, if it could not be opened, or torn
(`WriteFails`). What a run may
answer is `Responses` of `EvalCases`: "ok" within its caps (its duration within the
gap above the cap), a canned answer, or an error that used nothing. That this covers what the driver returns is
`AnswersAsEvaluated` of `AgentRun`, which sees itself as a run of a case with the
request's caps (`EvaluatedCase`) and the costs and durations it had; what its answer
says is left open there, since `AgentRun` does not look into texts.

Abstractions. Scores are whole percentages, and means are not divided: a gate
compares the sum with the minimum times the number of cases. Time is in seconds
and cost in cents. A text is the set of the phrases that somebody looks for in
it. `statistics.quantiles` is its formula, in twentieths.

## 3. Runs

| run | instance | shows |
|---|---|---|
| `agent_run` | 6 deployments (healthy, mock, no key, no key and broken prices, broken prices in the workflow's settings, broken ambient prices) x 4 requests (no override; latency cap of half a second; cost 0 and no tools; larger than the settings), 3 usages, one tool; about 982 000 states | all safety properties of a run and of its metrics, the warning property, that the evaluation is given what a run returns, and that a run implements the contract, its liveness included |
| `parallel_tools` | two tools, up to two calls a turn, three turns; about 104 000 states | differently named concurrent calls are timed from their own start |
| `stream` | bursts of up to 3 events, 7 events, crashes allowed | the stream is the trace and implements the feed; unless the driver crashes every stream ends, and the run outlives its reader |
| `run_context` | three runs by two consumers, each awaited or streamed, with or without user and conversation; about 917 000 states | log lines name their own run; only dropped streams leave anything bound |
| `evals` | the golden dataset with the mock provider, and five datasets of none to two cases with a live model (absent, null and zero caps, escaping exceptions); about 328 000 states | what a green gate means, and that a red one has a case at fault; the files and the exit code agree |
| `turn_after_breach`, `retries`, `latency_cap`, `every_tool`, `run_latency`, `stream_crash`, `context_leak` | one property each | what the documentation says and the code does not do; see below |

Bounds, and why they are enough. `MaxTurns` is the code's own `max_tool_calls +
2`, three turns in the base deployment: enough for a turn before, at and after a
breach, since two responses of the largest usage exceed every budget and one
need not. A tick of half a second makes the one-second floor of the timeout
larger than the smallest cap, and the timeout reachable from every await. `Lag =
1` lets a timer be late by a tick; the run about the latency cap has `Lag = 0`,
so that lateness is not what refutes it; `Gap = 1` lets the two readings of the clock
differ. In `StreamRun`, `MaxSteps = 7` with
bursts of 3 gives queues that are empty, partly read and as long as the whole
trace, and each interleaving of a burst with each stage of the reader. Three runs
let a run begin after a dropped stream of the same consumer while another
consumer streams; a fourth adds only repetitions. In `Evals` the costs,
durations and tool counts are chosen on both sides of every cap and gate that
occurs; the datasets stay below twenty cases, so that the interpolated quantile
is the theorem `P95Bounds`' business, not TLC's.

`CHECK_DEADLOCK` is on everywhere: a finished run stutters by an action of its
own (`Terminated`, `StreamOver`, `ContextOver`, `Exited`).

Fairness. `AgentRun` assumes weak fairness of `LoopStep`: the event loop runs
what is ready and its timers fire, which asyncio guarantees as long as no
callback blocks; `Metrics` assumes the same of the same steps. It assumes nothing
of the model and the tools: a call that never returns is allowed, and the run
still ends, by `WaitForTimeout`. `StreamRun` assumes that the run answers unless
it crashes (what `AgentRun` promises through the contract) and that the reader
goes on: a connected client reads, and a send to one that is gone returns. It
does not assume that the server ever notices a disconnection. Its liveness
properties are conditional on `DriverSurvives`, since a driver that crashes
leaves its reader waiting: that is what `stream_crash` shows. `RunContext` and
`Evals` state no liveness and assume no fairness.

### What the runs that fail show

1. `NoTurnAfterBreach`: the budgets are checked once, after the loop; between
   turns only `max_turns` stops the Runner. In the trace two responses cost 6 of a
   cost budget of 5, and the third model call begins.
2. `RetriesOrEscalates`: `docs/failure-modes.md` has a timeout or a rate limit retried
   and then downgraded to a simpler model, an invalid output retried and then sent to
   human review. `_drive` asks the router once, with attempt 1; `retry_backoff` sleeps
   and gives up with the canned "retry exhausted", and `retry_max_attempts` is never
   read. The property asks for the retry or the escalation, so the trace shows that
   neither took place; `DriverIsSingleShot` proves it of every run.
3. `LatencyCapHolds`: the timeout has a floor of a second and the backoff comes
   after it. `WallClockBound` is the bound that does hold.
4. `EveryToolMeasured`: concurrent calls of one tool share one scratch entry.
5. `LatencyOfEveryRun`: the end-to-end latency is observed by `on_agent_end`
   only, so runs that time out or fail before it are missing from its percentiles.
6. `ClientGetsFinal`: an exception of the budget check or the cost estimate,
   which no handler covers, leaves the sink open and the client waiting.
7. `UserIsTheRequests`: a consumer that drops a stream at an item keeps its
   binding, and its next run without a user logs the dropped run's. In the
   service each request has a task of its own and the leftover ends with it.

Observed beside them: a case that expects a refusal scores full marks for any
canned answer, since those have low confidence (`score_correctness`), so a
provider that fails on every such case passes the gates; `GoldenGate` states
exactly what the gates do see. And `gates_passed` never looks at
`CaseScore.passed`; `PassIsEarned` bounds how many cases may fail behind a green
gate.

## 4. Proofs

Every theorem is proved for every value of the constants, from the `ASSUME`s of
the modules alone: the constants have their types, a deployment's model has a
name, a second has at least one tick, the stream's marker and response are no
events and differ, `None` is no value that is bound, no consumer and no number
(and neither is `Absent`), the phrases that a dataset looks for are finitely many,
and a gate that compares scores is a percentage. One theorem,
`GoldenGateIsExact`, states further bounds on the gates; they are explained with it.

### AgentRun_proofs

`TypeCorrect`, `OkWithinBudget`, `ModelAnswerExactlyWhenOk`, `WallClock` and
`ErrorsHaveNotBegun` are each `Spec => []P` for the property P that `agent_run`
checks; `DriverIsSingleShot` is the general form of what `retries` shows, and the
reason why the rerun strategies have no actions. They follow from one inductive
invariant, `IInv`:

* `AttemptInv`: the loop counter is 1 as soon as the loop is entered. Without it
  the router could answer with any strategy and the backoff would be unbounded;
  with it `FirstAttemptRouting` leaves two strategies and `FirstBackoff` bounds
  the sleep.
* `AnswerInv`: until the fallback has been applied the status is "ok"; from then
  on it tells which answer is in `final`, and "ok" excludes a failure. The
  property to be proved speaks of the end only; this says why nothing on the way
  breaks it.
* `ModelInv`: a run that is not an error has a model, so that the cost the check
  judges (`state.model`) is the cost that is billed (`state.model or model_name`).
* `BudgetInv`: an "ok" past the check has passed it, at a time that `now` is not
  more than `Gap` after; no later step moves a counter or a price.
* `ClockInv`: `now` is within the Runner's timer while it runs, the sleep ends
  within the backoff, and `now` within its lag.

`FailStep` treats the six ways out of the `try` at once; each action has a lemma;
`NextStep` puts them together. `PricingType` shows that the price lookup returns a
price of the table or zero, by the well-ordering of the table's indices.
`ErrorsHaveNotBegun` (`ErrorMeansNotBegun`) adds `NotBegunInv`: before the Runner is
called, and in a run that is an error, nothing is counted. `OnlyBuildModelFails`
goes through every other step: while the `try` or the backoff lasts the status is
"ok" (`AnswerInv`), and each way out of them ends as "partial".

`RunsAnswerAsEvaluated` (`AnswersAsEvaluated`) is where the driver and the
evaluation meet. It needs no invariant of its own: `OkIsWithinBudget` gives the caps
(with an override of zero as a cap, not as an absent one), `ModelAnswerIffOk` the
answer, `ErrorMeansNotBegun` the zeros of an error, and `ResponseIsEvaluated` puts
them together, one kind of response at a time. So `PassesAreEarned` and
`FailuresAreDeserved` below speak of what `_drive` returns.

### AgentTrace_proofs

`OkTraceIsComplete` (`OkTraceComplete`) and `StepsImplementContract`, the safety
half of `ImplementsContract`: the initial states of a run are initial states of
the contract, and each step is one of its steps or a stutter. `TraceInv` is
`IInv`'s companion about the trace: while the Runner runs, each hook that has run
is in the trace once, and what has begun and not ended is the model call or the
tool calls in flight, counted as the cardinality of `InFlight`
(`RunningTrace`); an answer still "ok" has a whole trace (`WholeTrace`); one that
is not has its fallback, or its error, already in it, which is why no second
fallback is emitted.

Two theorems are about single steps. `WarnsByNextResponse` (`WarnedByNextResponse`):
`OnlyResponsesEnd` finds the one step that adds an `llm_end` without a failure;
`WarnsStill` shows that a run near a budget before the response is near it after,
too, since a cost does not fall as tokens grow (`CostGrows`), so both orders of the
hooks warn. `DistinctToolsAreMeasured` (`DistinctToolsMeasured`) needs `ScratchInv`:
a running call that is alone with its tool name in the turn finds its own start
under that name, and no call outlives its turn. The entries that earlier turns leave
behind do no harm because the start of a call overwrites them. The premise that no
other call has the name is needed in the step too: `every_tool` is the run without
it.

### Metrics_proofs

`MetricsTypeCorrect`, `CountersAreTheResponses`, `LatencyIsObservedOnce` and
`CountersTellTheOutcome`. The lemma `MStepIsStep` carries `IInv` and `TraceInv`
over from `AgentRun`; `SameUsage` says that errors and fallbacks move no other
counter, so that the handlers' paths are one case. `LatencyCounted` is the part that
needs care: either the histogram is empty and no `agent_end` was emitted, or it has
one observation, of a time that has passed, and one `agent_end` was emitted. A failure,
a timeout or a breach after the end hooks adds to neither, and `TraceInv` gives the
rest: an "ok" response has its `agent_end`.
`CountersTellTheOutcome` (`CountersTellOutcome`) has an invariant of its own,
`OutcomeInv`: the fallback counter is at zero until a fallback, then one under the
strategy taken, and that strategy is the one whose answer is in `final`, through the
backoff as well; the error counter is one under some class exactly if there was a
failure. It says where the one is, `SumOfOne` of `SumLemmas` that the total is then
one.

### StreamRun_proofs

`StreamTypeCorrect`, `NothingIsLost` and `ServedStreamsAreComplete`. The
invariant says in which of three situations a reader that has not left is:
`OnTheWay` (what it sent, holds and has still to read are the trace, with the
marker once the sink is closed), `AtTheEnd` (the response is in its hand and
everything else is sent) or `Complete`. `MarkerIsLast` is the step from the first
to the second: where the marker is at the head, nothing is behind it, because the
trace contains none. `NothingLost` alone is not inductive, since it does not say
that a marker comes last.

`StreamImplementsFeed` (`ImplementsFeed`) is the refinement, the feed's whole
specification, since it has no liveness part: initial states map to initial states
and each step to one of `RunEmits`, `RunAnswers`, `Show`, `ShowFinal`, `Leave` or a
stutter. Only `Send` needs an argument, and `HandIsNext` draws it from the invariant: an
item in the reader's hand is either the response, and then everything was shown, or
the event whose number is one more than what was shown. Both ways to leave, the
`break` and the cancellation, drop the item in hand and leave the view alone.

### RunContext_proofs

`ContextTypeCorrect`, `LinesNameTheirRun` and `OnlyDroppedStreamsLeak`, from
`CInv`: a consumer is inside one run at a time (`AloneInv`); a run that was
started has a caller (`StartedInv`); while a run is active its caller's context is
what it bound over what it found, and it found only what dropped streams had left
(`BoundInv`); and the driver's copy likewise (`CopiedInv`). A reset restores what
was found, so the leak does not grow.

### SumLemmas

Induction in a form the provers can use: a set of numbers with 0 and every
successor is `Nat` (`EveryNumber`), a set of subsets of a finite set that contains
each subset if it contains those with one element less contains all of them
(`EverySubset`), both from the well-foundedness of `<`. On them rests what
`SumFunction` of the community modules gives for functions into `Int` or `Nat`: its
type, that a term is at most the sum, that n terms of at least k add up to at least
n times k (`SumAbove`), the sum of a function that is zero but at one place, and
`SumWithShortfall`: if no term exceeds a bound, and those in a set S fall short of it
by at least d, the sum falls short of n bounds by at least d times the cardinality of
S.

### Scoring_proofs

`P95Bounds`: for any number of samples, if the computed p95 is within a cap then
at most one sample in twenty is above it. `CutWithinData` keeps the interpolation
inside the samples, `MeanAboveLower` bounds its lower sample, `NoneLateBeforeCut`
uses that the samples are sorted. `P95OfResponses` says the same of the responses of
an evaluation instead of a sorted list: `SortedDurationsAreKths` shows that the k-th
smallest duration exists for each k, so that sorting neither loses nor invents a
sample, and the late ones of both are counted against the same indices. `P95WithinBound` is
the converse at the extreme: if every response is within a cap, so is the
interpolated p95 (`MeanBelowUpper` bounds it by its upper sample).

### Evals_proofs

`FilesAgree` (`ArtifactsAgree`) from `EInv`: which files are written at each stage
(`StageInv`), and what an end, by an exception, a write that fails or a verdict, leaves
(`EndInv`): a torn `results.json` beside the earlier report, or whole results beside a
report that is the earlier one, torn or theirs.
`ScoresArePercentages` (`EvalTypeOK`) and `PassesAreEarned` (`PassIsEarned`) from
`ResultsInv`: each result is a response the run of its case may give, on which
`score_case` does not raise, with its scores. `EvalTypeOK` is not inductive by
itself, since it says nothing of the responses. `PassesAreEarned` then reads the
verdict: a gate that does not fail bounds a sum of scores from below, no score is
above 100, so `SumWithShortfall` bounds how many may be short: a blank answer by 100,
one with none of its facts by 100, one that is not `passed` by more than 50 in one of
two sums. The latency clause is `P95OfResponses`.

`FailuresAreDeserved` (`FailuresAreReal`) is the other direction: a gate that fails
has a case at fault. `FailInv` keeps, from the gating to the end, that failures come
from all the results (`Judged`); it is inductive only together with `EInv`, which
knows that the loop was completed. Then each gate is contraposed: if no case has its
fault, each score is 100 (`FaultlessScores`), each duration within the p95 gate or each
cost within its gate, and the sum, or the quantile, of such values does not fail
(`FullMeanPasses`, `MeanWithinPasses`, `P95WithinBound`).

`GoldenGateIsExact` (`GoldenGate`) is about one dataset, for all gates and beside any
other scenarios. Its hypotheses are what the gate's "exactly" depends on: the mock
reaches a mean correctness of 97, for it answers one case with medium confidence; an
unanswered one of the three cases that ask for a fact leaves a mean coverage of 80;
and a case that times out in the scenario takes 6 s, which must not be late by itself.
A correctness gate above 97 would fail every evaluation, a coverage gate of 80 or
less would pass an unanswered case. The defaults of 85, 85 and 20 s are within them.
`GoldenScores` computes the scores of the five cases from the mock's table,
`SumOfFive` the sums, and `GoldenFailures` reads the gates.

### Only model-checked

The liveness half of `ImplementsContract`, `RunOutlivesReader` and
`EveryStreamEnds`: liveness under fairness is out of the prover's reach. Every
invariant and every action property that a passing run checks is proved, and so is
the feed's refinement.

## 5. Not modelled

* The second `Runner.run` of SIMPLER_MODEL and NO_TOOL_ANSWER: unreachable from
  `_drive`, which consults the router with attempt 1 only (`DriverIsSingleShot`).
* `on_handoff`: no agent of the repository has handoffs.
* The kind of an output `_coerce_final` rejects: `RejectFinal` models the path,
  but the SDK produces no such output with `output_type=FinalAnswer`.
* `MockModel.stream_response` and `force_error`: nothing in the repository uses
  them with the Runner.
* Redaction and the texts of events; `configure_logging`; the parsing of settings,
  requests, command line and dataset; the tools' results, which no property
  depends on; the tracing set-up, whose state the program does not read back.
* `REQUEST_COUNT`, `/health`, `/metrics`: no state beside counters on entry, of the
  endpoints and of `_drive`.
* A tool that blocks the event loop: the bounds are relative to `Lag`.

## 6. Plan

Done: all the modules above; every safety invariant and action property of the
passing runs, the contract's safety half and the feed's refinement are proved. What
could be added:

1. Redaction and the price lookup against reference definitions, if the repository
   comes to state them.
2. The rerun strategies as a component of their own, if `_drive` comes to loop.
