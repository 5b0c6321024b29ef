------------------------------ MODULE RunContext -----------------------------
(***************************************************************************)
(* The logging context: the context variables of                           *)
(* app/observability/logging.py, as ResearchWorkflow.run and run_stream    *)
(* bind and release them around a run.                                     *)
(*                                                                         *)
(* A task of asyncio has a context of its own, a copy of its creator's.  A *)
(* consumer (a request's task, a test, the evaluation) calls run, or       *)
(* iterates run_stream, for one run after the other; other consumers do so *)
(* at the same time.  _drive runs in its caller's context under run, and in *)
(* a task of its own under run_stream.                                     *)
(***************************************************************************)
EXTENDS Integers

CONSTANTS None,
          Consumers,    \* the tasks that call the workflow
          Runs,         \* the runs, which stand for their run ids
          Users, Conversations

\* The variables that are bound; nothing binds _trace_id and _span_id.
Keys == {"run_id", "user_id", "conversation_id"}

Values == Runs \cup Users \cup Conversations

\* A RunRequest, as far as it is bound.
RequestType == [user_id : Users \cup {None}, conversation_id : Conversations \cup {None}]

ASSUME ContextAssumption == None \notin Values \cup Consumers

VARIABLES
    request,   \* the RunRequest of each run
    phase,     \* where the run is, see Phases
    caller,    \* the consumer that started it
    pairs,     \* the (var, token) list of bind_run_context: old values by variable
    context,   \* the context of each consumer
    copied,    \* the context of the driver task of each streamed run
    driving    \* the runs whose _drive has not ended

contextVars == << request, phase, caller, pairs, context, copied, driving >>

Phases == { "new",
            "awaited",     \* the caller is in `await _drive`
            "streamed",    \* the caller iterates run_stream
            "released",    \* unbind_run_context has reset the variables
            "dropped",     \* the generator was left at a yield
            "finalised" }  \* and the event loop has closed it since

Unbound == [k \in Keys |-> None]

\* The values run r binds, None where there is nothing to bind.
BoundBy(r) == [k \in Keys |-> IF k = "run_id" THEN r ELSE request[r][k]]

ContextInit ==
    /\ request \in [Runs -> RequestType]
    /\ phase = [r \in Runs |-> "new"]
    /\ caller = [r \in Runs |-> None]
    /\ pairs = [r \in Runs |-> Unbound]
    /\ context = [c \in Consumers |-> Unbound]
    /\ copied = [r \in Runs |-> Unbound]
    /\ driving = {}

\* The consumer is inside no run: it has one at a time.
Free(c) == \A r \in Runs : caller[r] = c => phase[r] \notin {"awaited", "streamed"}

-----------------------------------------------------------------------------
\* var.set(val), of the values that are not None.
SetAll(ctx, r) == [k \in Keys |-> IF BoundBy(r)[k] = None THEN ctx[k] ELSE BoundBy(r)[k]]

\* bind_run_context in the context of consumer c.
Bind(c, r) ==
    /\ phase[r] = "new" /\ Free(c)
    /\ pairs' = [pairs EXCEPT ![r] = context[c]]
    /\ context' = [context EXCEPT ![c] = SetAll(@, r)]
    /\ caller' = [caller EXCEPT ![r] = c]
    /\ driving' = driving \cup {r}

\* A release that does nothing, as RunContextTokens.reset does.
ResetNothing(ctx, r) == ctx

\* A release that sets a variable to the list of pairs, not to its old value.
ResetToPairs(ctx, r) == [k \in Keys |-> IF BoundBy(r)[k] = None THEN ctx[k] ELSE pairs[r]]

\* var.reset(token), of the variables r has set, in the context that set them.
ResetAll(ctx, r) == [k \in Keys |-> IF BoundBy(r)[k] = None THEN ctx[k] ELSE pairs[r][k]]

\* unbind_run_context in the context of the run's own caller.
Unbind(r) ==
    /\ phase' = [phase EXCEPT ![r] = "released"]
    /\ context' = [context EXCEPT ![caller[r]] = ResetAll(@, r)]
    /\ UNCHANGED << request, caller, pairs, copied >>

\* The context a driver task gets if it is created before the binding.
CopiedTooEarly(c) == context[c]

\* asyncio.create_task copies the context it is called in.
CopiedContext(c) == context'[c]

-----------------------------------------------------------------------------
\* _run_internal: bind, then await _drive.
RunBegins(c, r) ==
    /\ Bind(c, r)
    /\ phase' = [phase EXCEPT ![r] = "awaited"]
    /\ UNCHANGED << request, copied >>

\* run_stream: bind, then create the driver task.
StreamBegins(c, r) ==
    /\ Bind(c, r)
    /\ phase' = [phase EXCEPT ![r] = "streamed"]
    /\ copied' = [copied EXCEPT ![r] = CopiedContext(c)]
    /\ UNCHANGED request

\* _drive returns, raises or is cancelled with its caller: `finally`.
RunEnds(r) ==
    /\ phase[r] = "awaited"
    /\ driving' = driving \ {r}
    /\ Unbind(r)

\* The driver task of a stream ends.
DriverEnds(r) ==
    /\ phase[r] # "awaited" /\ r \in driving
    /\ driving' = driving \ {r}
    /\ UNCHANGED << request, phase, caller, pairs, context, copied >>

\* The generator ends: exhausted, or by an exception or a cancellation at one of
\* its own awaits.  `finally` runs in the consumer's task; the driver goes on.
StreamEnds(r) ==
    /\ phase[r] = "streamed"
    /\ Unbind(r)
    /\ UNCHANGED driving

\* The consumer stops at an item: it breaks (the client is gone), raises or is
\* cancelled while the generator is suspended at its `yield`.
Drop(r) ==
    /\ phase[r] = "streamed"
    /\ phase' = [phase EXCEPT ![r] = "dropped"]
    /\ UNCHANGED << request, caller, pairs, context, copied, driving >>

\* The event loop finalises the generator in a new task, whose context is another
\* one: each reset raises ValueError, and unbind_run_context swallows it.
Finalise(r) ==
    /\ phase[r] = "dropped"
    /\ phase' = [phase EXCEPT ![r] = "finalised"]
    /\ UNCHANGED << request, caller, pairs, context, copied, driving >>

\* Every run has come and gone.
ContextOver ==
    /\ \A r \in Runs : phase[r] \in {"released", "finalised"} /\ r \notin driving
    /\ UNCHANGED contextVars

ContextNext ==
    \/ \E r \in Runs : \/ RunEnds(r) \/ DriverEnds(r) \/ StreamEnds(r)
                       \/ Drop(r) \/ Finalise(r)
                       \/ \E c \in Consumers : RunBegins(c, r) \/ StreamBegins(c, r)
    \/ ContextOver

ContextSpec == ContextInit /\ [][ContextNext]_contextVars

-----------------------------------------------------------------------------
\* What _ctx_processor adds to a line that the driver of run r logs.
DriverLine(r) == IF phase[r] = "awaited" THEN context[caller[r]] ELSE copied[r]

\* What the streams that consumer c dropped had bound to variable k.
LeftBy(c, k) ==
    { BoundBy(r)[k] : r \in { q \in Runs : caller[q] = c /\ phase[q] \in {"dropped", "finalised"} } }

\* Type correctness of the contexts.
ContextTypeOK ==
    /\ request \in [Runs -> RequestType]
    /\ phase \in [Runs -> Phases]
    /\ caller \in [Runs -> Consumers \cup {None}]
    /\ pairs \in [Runs -> [Keys -> Values \cup {None}]]
    /\ context \in [Consumers -> [Keys -> Values \cup {None}]]
    /\ copied \in [Runs -> [Keys -> Values \cup {None}]]
    /\ driving \subseteq Runs

\* Whatever runs and streams go on at the same time, and however the earlier ones
\* ended, a log line of a run carries its own run_id, and the user_id and the
\* conversation_id of its request where it has them; a field it has not is absent,
\* or is what a stream its caller dropped had left (run_stream creates the driver
\* task after it binds).
LinesAreOwn ==
    \A r \in driving, k \in Keys :
        LET own == BoundBy(r)[k]
        IN \/ DriverLine(r)[k] = own
           \/ own = None /\ DriverLine(r)[k] \in LeftBy(caller[r], k)

\* Between runs a consumer's variables are unbound again, however its runs ended;
\* only a stream it dropped at an item leaves its values there, and no later run
\* adds to them (unbind_run_context in both `finally` blocks).
OnlyDroppedLeak ==
    \A c \in Consumers, k \in Keys :
        Free(c) => context[c][k] \in {None} \cup LeftBy(c, k)

\* "`user_id` | from `RunRequest.user_id`" (docs/observability.md): the lines of a
\* run name the user of its request, and no user if it has none.  Refuted: a
\* stream dropped at an item is never released in its consumer's context, and the
\* next run of that consumer logs its user.
UserIsTheRequests == \A r \in driving : DriverLine(r)["user_id"] = request[r].user_id
=============================================================================
