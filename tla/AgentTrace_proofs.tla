--------------------------- MODULE AgentTrace_proofs ------------------------
(***************************************************************************)
(* The event trace of a run of _drive, for every deployment, request and   *)
(* response: an "ok" response has a complete trace, and every step of the  *)
(* run is a step, or a stutter, of the contract its readers rely on.       *)
(***************************************************************************)
EXTENDS AgentRun_proofs

\* The calls whose on_tool_end is still to come.
InFlight == { i \in DOMAIN calls : calls[i].phase = "running" }

\* While the Runner runs, every hook that has run is in the trace once, and what
\* has begun and not ended is the model call or the tool calls in flight.
RunningTrace ==
    /\ emitted["error"] = 0 /\ emitted["fallback"] = 0
    /\ emitted["agent_end"] = IF pc = "ending" THEN 1 ELSE 0
    /\ emitted["agent_start"] = IF turn = 0 THEN 0 ELSE 1
    /\ emitted["llm_start"] = turn
    /\ emitted["llm_end"] = IF pc = "llm" THEN turn - 1 ELSE turn
    /\ emitted["tool_start"] = toolCalls
    /\ emitted["tool_end"] + Cardinality(InFlight) = toolCalls
    /\ pc = "start" => step = 0
    /\ pc \in {"llm", "tools", "ending"} => turn > 0
    /\ pc = "ending" => step > 0
    /\ pc # "tools" => calls = << >>

\* The trace of an answer that is still "ok".
WholeTrace ==
    /\ emitted["agent_start"] = 1 /\ emitted["agent_end"] = 1
    /\ emitted["llm_start"] = turn /\ emitted["llm_end"] = turn
    /\ emitted["tool_start"] = toolCalls /\ emitted["tool_end"] = toolCalls
    /\ emitted["error"] = 0 /\ emitted["fallback"] = 0
    /\ step > 0

\* What the trace says of the status, once the `try` is left.
TraceInv ==
    /\ pc \in Running => RunningTrace
    /\ pc = "backoff" => emitted["fallback"] = 1
    /\ pc \in Settled =>
          /\ status = "ok" => WholeTrace
          /\ status = "partial" => emitted["fallback"] = 1
          /\ status = "error" => emitted["fallback"] = 0 /\ step = 0

\* A step keeps the trace's invariant and maps to a step or a stutter of the
\* contract.
TracedStep == TraceInv' /\ [Contract!ContractNext]_(Contract!contractVars)

-----------------------------------------------------------------------------
\* How emitting counts (EventSink.emit).
LEMMA Counted ==
    ASSUME emitted \in [ActionTypes -> Nat], NEW kinds \in SUBSET ActionTypes, Emit(kinds)
    PROVE  /\ \A k \in ActionTypes :
                 emitted'[k] = emitted[k] + IF k \in kinds THEN 1 ELSE 0
           /\ step' = step + Cardinality(kinds)
BY DEF Emit

\* The same, for the types the invariant speaks of.
LEMMA CountedEach ==
    ASSUME emitted \in [ActionTypes -> Nat], NEW kinds \in SUBSET ActionTypes, Emit(kinds)
    PROVE  /\ emitted'["error"] = emitted["error"] + IF "error" \in kinds THEN 1 ELSE 0
           /\ emitted'["fallback"] = emitted["fallback"] + IF "fallback" \in kinds THEN 1 ELSE 0
           /\ emitted'["agent_start"] =
                 emitted["agent_start"] + IF "agent_start" \in kinds THEN 1 ELSE 0
           /\ emitted'["agent_end"] = emitted["agent_end"] + IF "agent_end" \in kinds THEN 1 ELSE 0
           /\ emitted'["llm_start"] = emitted["llm_start"] + IF "llm_start" \in kinds THEN 1 ELSE 0
           /\ emitted'["llm_end"] = emitted["llm_end"] + IF "llm_end" \in kinds THEN 1 ELSE 0
           /\ emitted'["tool_start"] =
                 emitted["tool_start"] + IF "tool_start" \in kinds THEN 1 ELSE 0
           /\ emitted'["tool_end"] = emitted["tool_end"] + IF "tool_end" \in kinds THEN 1 ELSE 0
           /\ emitted["error"] \in Nat /\ emitted["fallback"] \in Nat
           /\ emitted["agent_start"] \in Nat /\ emitted["agent_end"] \in Nat
           /\ emitted["llm_start"] \in Nat /\ emitted["llm_end"] \in Nat
           /\ emitted["tool_start"] \in Nat /\ emitted["tool_end"] \in Nat
<1>1. /\ "error" \in ActionTypes /\ "fallback" \in ActionTypes
      /\ "agent_start" \in ActionTypes /\ "agent_end" \in ActionTypes
      /\ "llm_start" \in ActionTypes /\ "llm_end" \in ActionTypes
      /\ "tool_start" \in ActionTypes /\ "tool_end" \in ActionTypes
    BY DEF ActionTypes
<1>2. QED
    BY <1>1, Counted

\* Up to four events are one to four.
LEMMA FewEvents ==
    ASSUME NEW a, NEW b, NEW c, NEW d
    PROVE  Cardinality({a, b, c, d}) \in 1..4
<1>1. IsFiniteSet({a}) /\ Cardinality({a}) = 1
    BY FS_Singleton
<1>2. IsFiniteSet({a} \cup {b}) /\ Cardinality({a} \cup {b}) \in 1..2
    BY <1>1, FS_AddElement
<1>3. /\ IsFiniteSet(({a} \cup {b}) \cup {c})
      /\ Cardinality(({a} \cup {b}) \cup {c}) \in 1..3
    BY <1>2, FS_AddElement
<1>4. Cardinality((({a} \cup {b}) \cup {c}) \cup {d}) \in 1..4
    BY <1>3, FS_AddElement
<1>5. (({a} \cup {b}) \cup {c}) \cup {d} = {a, b, c, d}
    OBVIOUS
<1>6. QED
    BY <1>4, <1>5

\* The calls in flight are finitely many, none when the list of calls is empty.
LEMMA InFlightFinite ==
    ASSUME calls \in Seq(CallType)
    PROVE  /\ IsFiniteSet(InFlight) /\ Cardinality(InFlight) \in Nat
           /\ calls = << >> => Cardinality(InFlight) = 0
<1>1. InFlight \subseteq 1..Len(calls) /\ Len(calls) \in Nat
    BY DEF InFlight
<1>2. IsFiniteSet(1..Len(calls))
    BY <1>1, FS_Interval
<1>3. IsFiniteSet(InFlight)
    BY <1>1, <1>2, FS_Subset
<1>4. calls = << >> => InFlight = {}
    BY DEF InFlight
<1>5. QED
    BY <1>3, <1>4, FS_CardinalityType, FS_EmptySet

\* When no call is in flight, nothing is counted as such.
LEMMA NoneInFlight == ASSUME InFlight = {} PROVE Cardinality(InFlight) = 0
BY FS_EmptySet

LEMMA NoneInFlightNext == ASSUME InFlight' = {} PROVE Cardinality(InFlight)' = 0
BY FS_EmptySet

-----------------------------------------------------------------------------
(***************************************************************************)
(* Steps of the contract, in terms of the run's own variables.             *)
(***************************************************************************)
Over == {"done", "crashed"}

LEMMA ContractIdle ==
    ASSUME pc \notin Over, pc' \notin Over, UNCHANGED << emitted, step >>
    PROVE  UNCHANGED Contract!contractVars
BY DEF Contract!contractVars, Over

LEMMA ContractBurst ==
    ASSUME pc \notin Over, pc' \notin Over,
           emitted["fallback"] = 0, emitted'["fallback"] = 0,
           NEW n \in 1..4, step' = step + n
    PROVE  Contract!ContractNext
<1>1. Contract!EmitBurst(n)
    BY DEF Contract!EmitBurst, Over
<1>2. QED
    BY <1>1 DEF Contract!ContractNext

LEMMA ContractFall ==
    ASSUME pc \notin Over, pc' \notin Over,
           emitted["fallback"] = 0, emitted'["fallback"] = 1,
           NEW n \in 1..4, step' = step + n
    PROVE  Contract!ContractNext
<1>1. Contract!FallBack(n)
    BY DEF Contract!FallBack, Over
<1>2. QED
    BY <1>1 DEF Contract!ContractNext

LEMMA ContractAnswer ==
    ASSUME TypeOK, TraceInv, pc = "closing", pc' = "done",
           UNCHANGED << emitted, step, status >>
    PROVE  Contract!ContractNext
<1>1. status = IF emitted["fallback"] > 0 THEN "partial" ELSE IF step = 0 THEN "error" ELSE "ok"
    BY DEF TypeOK, TraceInv, Settled, WholeTrace
<1>2. Contract!GiveAnswer
    BY <1>1 DEF Contract!GiveAnswer
<1>3. QED
    BY <1>2 DEF Contract!ContractNext

LEMMA ContractCrash ==
    ASSUME pc \notin Over, pc' = "crashed", UNCHANGED << emitted, step >>
    PROVE  Contract!ContractNext
<1>1. Contract!Crash
    BY DEF Contract!Crash, Over
<1>2. QED
    BY <1>1 DEF Contract!ContractNext

-----------------------------------------------------------------------------
(***************************************************************************)
(* The steps of the Runner and its callbacks.                              *)
(***************************************************************************)
\* A callback that emits, and leaves the Runner running.
LEMMA RunningEmits ==
    ASSUME IInv, TraceInv, pc \in Running, pc' \in Running,
           NEW kinds \in SUBSET ActionTypes, Emit(kinds),
           "fallback" \notin kinds, Cardinality(kinds) \in 1..4,
           RunningTrace'
    PROVE  TracedStep
<1>1. TraceInv'
    BY DEF TraceInv, Running, Settled
<1>2. emitted["fallback"] = 0 /\ emitted'["fallback"] = 0
    BY DEF TraceInv, RunningTrace
<1>3. step' = step + Cardinality(kinds)
    BY DEF Emit
<1>4. Contract!ContractNext
    BY <1>2, <1>3, ContractBurst DEF Running, Over
<1>5. QED
    BY <1>1, <1>4 DEF TracedStep

\* A step of the Runner that emits nothing.
LEMMA RunningQuietly ==
    ASSUME TraceInv, pc \in Running, pc' \in Running, UNCHANGED << emitted, step >>,
           RunningTrace'
    PROVE  TracedStep
<1>1. TraceInv'
    BY DEF TraceInv, Running, Settled
<1>2. UNCHANGED Contract!contractVars
    BY ContractIdle DEF Running, Over
<1>3. QED
    BY <1>1, <1>2 DEF TracedStep

\* The types the trace is counted with.
LEMMA TraceTypes ==
    ASSUME IInv
    PROVE  /\ emitted \in [ActionTypes -> Nat] /\ step \in Nat
           /\ turn \in Nat /\ toolCalls \in Nat /\ calls \in Seq(CallType)
           /\ status \in {"ok", "partial", "error"} /\ TypeOK
           /\ \A k \in ActionTypes : emitted[k] \in Nat
BY DEF IInv, TypeOK

LEMMA BuildModelTraced == ASSUME IInv, TraceInv, BuildModel PROVE TracedStep
<1>1. RunningTrace'
    BY DEF TraceInv, RunningTrace, Running, BuildModel, InFlight, usageVars
<1>2. QED
    BY <1>1, RunningQuietly DEF BuildModel, Running

LEMMA BeginTurnTraced == ASSUME IInv, TraceInv, BeginTurn PROVE TracedStep
<1> DEFINE kinds == {"llm_start"} \cup (IF turn = 0 THEN StartEvents ELSE {})
<1>1. /\ pc = "turn" /\ pc' = "llm" /\ turn' = turn + 1 /\ Emit(kinds)
      /\ UNCHANGED << toolCalls, calls >>
    BY DEF BeginTurn, usageVars
<1>2. kinds \in SUBSET ActionTypes /\ "fallback" \notin kinds
    BY DEF ActionTypes, StartEvents
<1>3. Cardinality(kinds) \in 1..4
    <2>1. kinds = IF turn = 0
                  THEN {"llm_start", "agent_start", "reasoning_summary", "llm_start"}
                  ELSE {"llm_start", "llm_start", "llm_start", "llm_start"}
        BY DEF StartEvents
    <2>2. QED
        BY <2>1, FewEvents
<1>4. RunningTrace
    BY <1>1 DEF TraceInv, Running
<1>5. /\ emitted'["error"] = 0 /\ emitted'["fallback"] = 0 /\ emitted'["agent_end"] = 0
      /\ emitted'["llm_start"] = emitted["llm_start"] + 1
      /\ emitted'["llm_end"] = emitted["llm_end"]
      /\ emitted'["tool_start"] = emitted["tool_start"]
      /\ emitted'["tool_end"] = emitted["tool_end"]
      /\ emitted'["agent_start"] = emitted["agent_start"] + IF turn = 0 THEN 1 ELSE 0
    <2>1. /\ "error" \notin kinds /\ "fallback" \notin kinds /\ "agent_end" \notin kinds
          /\ "llm_end" \notin kinds /\ "tool_start" \notin kinds /\ "tool_end" \notin kinds
          /\ "llm_start" \in kinds /\ ("agent_start" \in kinds <=> turn = 0)
        BY DEF StartEvents
    <2> HIDE DEF kinds
    <2>2. QED
        BY <2>1, <1>1, <1>2, <1>4, CountedEach, TraceTypes DEF RunningTrace
<1>6. Cardinality(InFlight)' = Cardinality(InFlight)
    BY <1>1 DEF InFlight
<1>7. RunningTrace'
    BY <1>1, <1>4, <1>5, <1>6, TraceTypes DEF RunningTrace
<1>8. QED
    <2> HIDE DEF kinds
    <2> QED
        BY <1>1, <1>2, <1>3, <1>7, RunningEmits DEF Running

LEMMA LlmReturnsTraced ==
    ASSUME IInv, TraceInv, NEW usage \in Usages, NEW tools \in BoundedSeq(Tools, MaxParallel),
           NEW message \in Texts, LlmReturns(usage, tools, message)
    PROVE  TracedStep
<1>1. PICK warned \in Warnings(usage) :
        Emit({"llm_end"} \cup IF warned THEN {"budget_warning"} ELSE {})
    BY DEF LlmReturns
<1> DEFINE kinds == {"llm_end"} \cup IF warned THEN {"budget_warning"} ELSE {}
<1>2. /\ pc = "llm" /\ pc' = "tools" /\ Emit(kinds)
      /\ UNCHANGED << turn, toolCalls >>
      /\ calls' = [i \in DOMAIN tools |-> [tool |-> tools[i], phase |-> "asked", began |-> 0]]
    BY <1>1 DEF LlmReturns, CountUsage
<1>3. kinds \in SUBSET ActionTypes /\ "fallback" \notin kinds
    BY DEF ActionTypes
<1>4. Cardinality(kinds) \in 1..4
    <2>1. \/ kinds = {"llm_end", "llm_end", "llm_end", "llm_end"}
          \/ kinds = {"llm_end", "llm_end", "llm_end", "budget_warning"}
        OBVIOUS
    <2>2. QED
        BY <2>1, FewEvents
<1>5. RunningTrace
    BY <1>2 DEF TraceInv, Running
<1>6. /\ emitted'["error"] = 0 /\ emitted'["fallback"] = 0 /\ emitted'["agent_end"] = 0
      /\ emitted'["llm_start"] = emitted["llm_start"]
      /\ emitted'["llm_end"] = emitted["llm_end"] + 1
      /\ emitted'["tool_start"] = emitted["tool_start"]
      /\ emitted'["tool_end"] = emitted["tool_end"]
      /\ emitted'["agent_start"] = emitted["agent_start"]
    <2>1. /\ "error" \notin kinds /\ "fallback" \notin kinds /\ "agent_end" \notin kinds
          /\ "llm_start" \notin kinds /\ "tool_start" \notin kinds /\ "tool_end" \notin kinds
          /\ "llm_end" \in kinds /\ "agent_start" \notin kinds
        OBVIOUS
    <2> HIDE DEF kinds
    <2>2. QED
        BY <2>1, <1>2, <1>3, <1>5, CountedEach, TraceTypes DEF RunningTrace
<1>7. Cardinality(InFlight) = 0 /\ Cardinality(InFlight)' = 0
    <2>1. InFlight' = {}
        BY <1>2 DEF InFlight
    <2>2. calls = << >>
        BY <1>2, <1>5 DEF RunningTrace
    <2>3. QED
        BY <2>1, <2>2, InFlightFinite, NoneInFlightNext, TraceTypes
<1>8. RunningTrace'
    BY <1>2, <1>5, <1>6, <1>7, TraceTypes DEF RunningTrace
<1>9. QED
    <2> HIDE DEF kinds
    <2> QED
        BY <1>2, <1>3, <1>4, <1>8, RunningEmits DEF Running

LEMMA ToolStartTraced ==
    ASSUME IInv, TraceInv, NEW i \in DOMAIN calls, ToolStart(i)
    PROVE  TracedStep
<1> DEFINE kinds == {"tool_start", "reasoning_summary"}
<1>1. /\ pc = "tools" /\ pc' = "tools" /\ Emit(kinds) /\ calls[i].phase = "asked"
      /\ calls' = [calls EXCEPT ![i] = [@ EXCEPT !.phase = "running", !.began = now]]
      /\ toolCalls' = toolCalls + 1 /\ turn' = turn
    BY DEF ToolStart
<1>2. kinds \in SUBSET ActionTypes /\ "fallback" \notin kinds
    BY DEF ActionTypes
<1>3. Cardinality(kinds) \in 1..4
    <2>1. kinds = {"tool_start", "tool_start", "tool_start", "reasoning_summary"}
        OBVIOUS
    <2>2. QED
        BY <2>1, FewEvents
<1>4. RunningTrace
    BY <1>1 DEF TraceInv, Running
<1>5. /\ emitted'["error"] = 0 /\ emitted'["fallback"] = 0 /\ emitted'["agent_end"] = 0
      /\ emitted'["llm_start"] = emitted["llm_start"]
      /\ emitted'["llm_end"] = emitted["llm_end"]
      /\ emitted'["tool_start"] = emitted["tool_start"] + 1
      /\ emitted'["tool_end"] = emitted["tool_end"]
      /\ emitted'["agent_start"] = emitted["agent_start"]
    <2>1. /\ "error" \notin kinds /\ "fallback" \notin kinds /\ "agent_end" \notin kinds
          /\ "llm_start" \notin kinds /\ "llm_end" \notin kinds /\ "tool_end" \notin kinds
          /\ "tool_start" \in kinds /\ "agent_start" \notin kinds
        OBVIOUS
    <2> HIDE DEF kinds
    <2>2. QED
        BY <2>1, <1>1, <1>2, <1>4, CountedEach, TraceTypes DEF RunningTrace
<1>6. Cardinality(InFlight)' = Cardinality(InFlight) + 1
    <2>1. calls[i] \in CallType /\ DOMAIN calls' = DOMAIN calls
        <3>1. calls \in Seq(CallType)
            BY TraceTypes
        <3>2. calls[i] \in CallType
            BY <3>1
        <3>3. DOMAIN calls' = DOMAIN calls
            BY <1>1
        <3>4. QED
            BY <3>2, <3>3
    <2>2. calls'[i].phase = "running" /\ \A j \in DOMAIN calls \ {i} : calls'[j] = calls[j]
        BY <1>1, <2>1, TraceTypes DEF CallType
    <2>3. InFlight' = InFlight \cup {i} /\ i \notin InFlight
        BY <1>1, <2>1, <2>2 DEF InFlight
    <2>4. IsFiniteSet(InFlight)
        BY InFlightFinite, TraceTypes
    <2>5. Cardinality(InFlight \cup {i}) = Cardinality(InFlight) + 1
        BY <2>3, <2>4, FS_AddElement
    <2>6. QED
        BY <2>3, <2>5
<1>7. RunningTrace'
    <2>1. /\ Cardinality(InFlight) \in Nat /\ toolCalls \in Nat
          /\ emitted["tool_end"] \in Nat /\ emitted["tool_start"] \in Nat
        BY <1>1, <1>2, InFlightFinite, CountedEach, TraceTypes
    <2>2. emitted'["tool_end"] + Cardinality(InFlight)' = toolCalls'
        BY <1>1, <1>4, <1>5, <1>6, <2>1 DEF RunningTrace
    <2>3. /\ pc' = "tools" /\ turn' = turn /\ turn > 0
          /\ emitted'["tool_start"] = toolCalls'
        BY <1>1, <1>4, <1>5, <2>1 DEF RunningTrace
    <2>4. QED
        BY <1>1, <1>4, <1>5, <2>2, <2>3 DEF RunningTrace
<1>8. QED
    <2> HIDE DEF kinds
    <2> QED
        BY <1>1, <1>2, <1>3, <1>7, RunningEmits DEF Running

LEMMA ToolEndTraced ==
    ASSUME IInv, TraceInv, NEW i \in DOMAIN calls, ToolEnd(i)
    PROVE  TracedStep
<1> DEFINE kinds == {"tool_end"}
<1>1. /\ pc = "tools" /\ pc' = "tools" /\ Emit(kinds) /\ calls[i].phase = "running"
      /\ calls' = [calls EXCEPT ![i].phase = "ended"]
      /\ toolCalls' = toolCalls /\ turn' = turn
    BY DEF ToolEnd, usageVars
<1>2. kinds \in SUBSET ActionTypes /\ "fallback" \notin kinds
    BY DEF ActionTypes
<1>3. Cardinality(kinds) \in 1..4
    <2>1. kinds = {"tool_end", "tool_end", "tool_end", "tool_end"}
        OBVIOUS
    <2>2. QED
        BY <2>1, FewEvents
<1>4. RunningTrace
    BY <1>1 DEF TraceInv, Running
<1>5. /\ emitted'["error"] = 0 /\ emitted'["fallback"] = 0 /\ emitted'["agent_end"] = 0
      /\ emitted'["llm_start"] = emitted["llm_start"]
      /\ emitted'["llm_end"] = emitted["llm_end"]
      /\ emitted'["tool_start"] = emitted["tool_start"]
      /\ emitted'["tool_end"] = emitted["tool_end"] + 1
      /\ emitted'["agent_start"] = emitted["agent_start"]
    <2>1. /\ "error" \notin kinds /\ "fallback" \notin kinds /\ "agent_end" \notin kinds
          /\ "llm_start" \notin kinds /\ "llm_end" \notin kinds /\ "tool_start" \notin kinds
          /\ "tool_end" \in kinds /\ "agent_start" \notin kinds
        OBVIOUS
    <2> HIDE DEF kinds
    <2>2. QED
        BY <2>1, <1>1, <1>2, <1>4, CountedEach, TraceTypes DEF RunningTrace
<1>6. Cardinality(InFlight)' = Cardinality(InFlight) - 1
    <2>1. calls[i] \in CallType /\ DOMAIN calls' = DOMAIN calls
        <3>1. calls \in Seq(CallType)
            BY TraceTypes
        <3>2. calls[i] \in CallType
            BY <3>1
        <3>3. DOMAIN calls' = DOMAIN calls
            BY <1>1
        <3>4. QED
            BY <3>2, <3>3
    <2>2. calls'[i].phase = "ended" /\ \A j \in DOMAIN calls \ {i} : calls'[j] = calls[j]
        BY <1>1, <2>1, TraceTypes DEF CallType
    <2>3. InFlight' = InFlight \ {i} /\ i \in InFlight
        BY <1>1, <2>1, <2>2 DEF InFlight
    <2>4. IsFiniteSet(InFlight)
        BY InFlightFinite, TraceTypes
    <2>5. Cardinality(InFlight \ {i}) = Cardinality(InFlight) - 1
        BY <2>3, <2>4, FS_RemoveElement
    <2>6. QED
        BY <2>3, <2>5
<1>7. RunningTrace'
    <2>1. /\ Cardinality(InFlight) \in Nat /\ toolCalls \in Nat
          /\ emitted["tool_end"] \in Nat /\ emitted["tool_start"] \in Nat
        BY <1>1, <1>2, InFlightFinite, CountedEach, TraceTypes
    <2>2. emitted'["tool_end"] + Cardinality(InFlight)' = toolCalls'
        BY <1>1, <1>4, <1>5, <1>6, <2>1 DEF RunningTrace
    <2>3. /\ pc' = "tools" /\ turn' = turn /\ turn > 0
          /\ emitted'["tool_start"] = toolCalls'
        BY <1>1, <1>4, <1>5, <2>1 DEF RunningTrace
    <2>4. QED
        BY <1>1, <1>4, <1>5, <2>2, <2>3 DEF RunningTrace
<1>8. QED
    <2> HIDE DEF kinds
    <2> QED
        BY <1>1, <1>2, <1>3, <1>7, RunningEmits DEF Running

\* The calls of a turn have all ended: none is in flight.
LEMMA AllEnded == ASSUME CallsEnded PROVE Cardinality(InFlight) = 0
<1>1. InFlight = {}
    BY DEF CallsEnded, InFlight
<1>2. QED
    BY <1>1, FS_EmptySet

LEMMA RunAgainTraced == ASSUME IInv, TraceInv, RunAgain PROVE TracedStep
<1>1. /\ pc = "tools" /\ pc' = "turn" /\ calls' = << >>
      /\ UNCHANGED << turn, toolCalls, emitted, step >>
    BY DEF RunAgain, usageVars
<1>2. Cardinality(InFlight) = 0
    BY AllEnded DEF RunAgain
<1>3. Cardinality(InFlight)' = 0
    <2>1. InFlight' = {}
        BY <1>1 DEF InFlight
    <2>2. QED
        BY <2>1, NoneInFlightNext
<1>4. RunningTrace
    BY <1>1 DEF TraceInv, Running
<1>5. RunningTrace'
    BY <1>1, <1>2, <1>3, <1>4 DEF RunningTrace
<1>6. QED
    BY <1>1, <1>5, RunningQuietly DEF Running

-----------------------------------------------------------------------------
(***************************************************************************)
(* The ways out of the `try`.                                              *)
(***************************************************************************)
\* Whatever the handlers caught, the fallback event ends the burst of the step,
\* and the trace had none before.
LEMMA FailTraced ==
    ASSUME IInv, TraceInv, pc \in {"turn", "llm", "tools", "ending"},
           NEW exception \in ExceptionClasses,
           NEW kinds \in {{}, {"llm_end"}},
           Fail(exception, kinds)
    PROVE  TracedStep
<1> DEFINE all == kinds \cup {"error", "fallback"}
<1>1. Emit(all)
    BY DEF Fail
<1>2. all \in SUBSET ActionTypes /\ "fallback" \in all
    BY DEF ActionTypes
<1>3. Cardinality(all) \in 1..4
    <2>1. CASE kinds = {}
        <3>1. all = {"error", "error", "error", "fallback"}
            BY <2>1
        <3>2. QED
            BY <3>1, FewEvents
    <2>2. CASE kinds = {"llm_end"}
        <3>1. all = {"llm_end", "llm_end", "error", "fallback"}
            BY <2>2
        <3>2. QED
            BY <3>1, FewEvents
    <2>3. QED
        BY <2>1, <2>2
<1>4. emitted["fallback"] = 0
    BY DEF TraceInv, RunningTrace, Running
<1>5. emitted'["fallback"] = 1 /\ step' = step + Cardinality(all)
    <2> HIDE DEF all
    <2> QED
        BY <1>1, <1>2, <1>4, Counted, CountedEach, TraceTypes
<1>6. \/ pc' = "backoff"
      \/ pc' = "post" /\ status' = "partial"
    <2>1. DecideFallback(KindOf(exception), attempt) \in {"RETRY_BACKOFF", "PARTIAL_ANSWER"}
        BY FirstAttemptRouting DEF IInv, AttemptInv
    <2>2. QED
        BY <2>1 DEF Fail, Reruns
<1>7. TraceInv'
    BY <1>5, <1>6 DEF TraceInv, Running, Settled
<1>8. Contract!ContractNext
    <2> HIDE DEF all
    <2> QED
        BY <1>3, <1>4, <1>5, <1>6, ContractFall DEF Over
<1>9. QED
    BY <1>7, <1>8 DEF TracedStep

LEMMA FailuresTraced ==
    ASSUME IInv, TraceInv,
           \/ ExceedTurns
           \/ \E usage \in Usages : LlmHookRaises(usage)
           \/ \E exception \in ProviderErrors : LlmRaises(exception)
           \/ Misbehave
           \/ \E raw \in RawOutputs : RejectFinal(raw)
           \/ \E exception \in LateErrors : EndRaises(exception)
           \/ WaitForTimeout
    PROVE  TracedStep
<1>1. CASE ExceedTurns
    BY <1>1, FailTraced DEF ExceedTurns, ExceptionClasses
<1>2. ASSUME NEW usage \in Usages, LlmHookRaises(usage) PROVE TracedStep
    BY <1>2, FailTraced DEF LlmHookRaises, ExceptionClasses
<1>3. ASSUME NEW exception \in ProviderErrors, LlmRaises(exception) PROVE TracedStep
    <2>1. exception \in ExceptionClasses
        BY DEF ProviderErrors, ExceptionClasses
    <2>2. QED
        BY <1>3, <2>1, FailTraced DEF LlmRaises
<1>4. CASE Misbehave
    BY <1>4, FailTraced DEF Misbehave, ExceptionClasses
<1>5. ASSUME NEW raw \in RawOutputs, RejectFinal(raw) PROVE TracedStep
    <2>1. CoerceRaises(raw) \in ExceptionClasses
        BY <1>5 DEF RejectFinal, CoerceRaises, ExceptionClasses
    <2>2. QED
        BY <1>5, <2>1, FailTraced DEF RejectFinal
<1>6. CASE WaitForTimeout
    <2>1. pc \in {"turn", "llm", "tools", "ending"}
        BY <1>6 DEF WaitForTimeout, RunnerWaits
    <2>2. QED
        BY <1>6, <2>1, FailTraced DEF WaitForTimeout, ExceptionClasses
<1>7. ASSUME NEW exception \in LateErrors, EndRaises(exception) PROVE TracedStep
    <2>1. exception \in ExceptionClasses
        BY DEF LateErrors, ExceptionClasses
    <2>2. QED
        BY <1>7, <2>1, FailTraced DEF EndRaises
<1>8. QED
    BY <1>1, <1>2, <1>3, <1>4, <1>5, <1>6, <1>7

\* No model could be built: the run answers "error" with no trace at all.
LEMMA BuildModelRaisesTraced == ASSUME IInv, TraceInv, BuildModelRaises PROVE TracedStep
<1>1. /\ pc = "start" /\ pc' = "post" /\ status' = "error" /\ UNCHANGED << emitted, step >>
      /\ emitted["fallback"] = 0 /\ step = 0
    BY DEF BuildModelRaises, TraceInv, RunningTrace, Running
<1>2. TraceInv'
    BY <1>1 DEF TraceInv, Running, Settled
<1>3. UNCHANGED Contract!contractVars
    BY <1>1, ContractIdle DEF Over
<1>4. QED
    BY <1>2, <1>3 DEF TracedStep

\* A final output: nothing is left in flight, and the end hooks complete the trace.
LEMMA AgentEndsTraced == ASSUME IInv, TraceInv, AgentEnds PROVE TracedStep
<1>1. /\ pc = "tools" /\ pc' = "ending" /\ Emit(EndEvents) /\ CallsEnded
      /\ calls' = << >> /\ UNCHANGED << turn, toolCalls >>
    BY DEF AgentEnds, usageVars
<1>2. /\ EndEvents \in SUBSET ActionTypes /\ "agent_end" \in EndEvents
      /\ "error" \notin EndEvents /\ "fallback" \notin EndEvents
      /\ "agent_start" \notin EndEvents
      /\ "llm_start" \notin EndEvents /\ "llm_end" \notin EndEvents
      /\ "tool_start" \notin EndEvents /\ "tool_end" \notin EndEvents
    BY DEF ActionTypes, EndEvents
<1>3. Cardinality(EndEvents) \in 1..4
    <2>1. EndEvents = {"agent_end", "agent_end", "agent_end", "reasoning_summary"}
        BY DEF EndEvents
    <2>2. QED
        BY <2>1, FewEvents
<1>4. RunningTrace
    BY <1>1 DEF TraceInv, Running
<1>5. step' > 0
    <2>1. step' = step + Cardinality(EndEvents) /\ step \in Nat
        BY <1>1, TraceTypes DEF Emit
    <2>2. QED
        BY <1>3, <2>1
<1>6. Cardinality(InFlight)' = 0
    <2>1. InFlight' = {}
        BY <1>1 DEF InFlight
    <2>2. QED
        BY <2>1, NoneInFlightNext
<1>7. RunningTrace'
    <2>1. emitted["tool_end"] = toolCalls
        BY <1>1, <1>2, <1>4, AllEnded, CountedEach, TraceTypes DEF RunningTrace
    <2>2. turn > 0 /\ turn \in Nat /\ toolCalls \in Nat
        BY <1>1, <1>4, TraceTypes DEF RunningTrace
    <2>3. /\ emitted'["agent_start"] = 1 /\ emitted'["agent_end"] = 1
          /\ emitted'["llm_start"] = turn /\ emitted'["llm_end"] = turn
          /\ emitted'["tool_start"] = toolCalls /\ emitted'["tool_end"] = toolCalls
          /\ emitted'["error"] = 0 /\ emitted'["fallback"] = 0
        BY <1>1, <1>2, <1>4, <2>1, <2>2, CountedEach, TraceTypes DEF RunningTrace
    <2>4. QED
        BY <1>1, <1>5, <1>6, <2>2, <2>3 DEF RunningTrace
<1>8. QED
    BY <1>1, <1>2, <1>3, <1>7, RunningEmits DEF Running

\* The Runner returns a final output that is accepted, with the trace it left.
LEMMA ProduceFinalTraced ==
    ASSUME IInv, TraceInv, NEW raw \in RawOutputs, ProduceFinal(raw)
    PROVE  TracedStep
<1>1. /\ pc = "ending" /\ pc' = "post"
      /\ UNCHANGED << turn, toolCalls, calls, emitted, step, status >>
    BY DEF ProduceFinal, usageVars
<1>2. RunningTrace /\ status' = "ok"
    BY <1>1 DEF IInv, AnswerInv, TraceInv, Running
<1>3. WholeTrace'
    <2>1. Cardinality(InFlight) = 0
        BY <1>1, <1>2, InFlightFinite, TraceTypes DEF RunningTrace
    <2>2. emitted["tool_end"] \in Nat
        BY TraceTypes DEF ActionTypes
    <2>3. emitted["tool_end"] = toolCalls
        BY <1>2, <2>1, <2>2 DEF RunningTrace
    <2>4. turn > 0 /\ turn \in Nat
        BY <1>1, <1>2, TraceTypes DEF RunningTrace
    <2>5. QED
        BY <1>1, <1>2, <2>3, <2>4 DEF RunningTrace, WholeTrace
<1>4. TraceInv'
    BY <1>1, <1>2, <1>3 DEF TraceInv, Running, Settled
<1>5. UNCHANGED Contract!contractVars
    BY <1>1, ContractIdle DEF Over
<1>6. QED
    BY <1>4, <1>5 DEF TracedStep

-----------------------------------------------------------------------------
(***************************************************************************)
(* The timers and the rest of _drive.                                      *)
(***************************************************************************)
LEMMA WakeUpTraced == ASSUME IInv, TraceInv, WakeUp PROVE TracedStep
<1>1. /\ pc = "backoff" /\ pc' = "post" /\ status' = "partial"
      /\ UNCHANGED << emitted, step >>
    BY DEF WakeUp
<1>2. TraceInv'
    BY <1>1 DEF TraceInv, Running, Settled
<1>3. UNCHANGED Contract!contractVars
    BY <1>1, ContractIdle DEF Over
<1>4. QED
    BY <1>2, <1>3 DEF TracedStep

\* A tick, and a step that changes nothing, leave the trace as it is.
LEMMA TraceFixed ==
    ASSUME TraceInv, UNCHANGED << pc, turn, toolCalls, calls, emitted, step, status >>
    PROVE  TracedStep
<1>1. RunningTrace' <=> RunningTrace
    BY DEF RunningTrace, InFlight
<1>2. WholeTrace' <=> WholeTrace
    BY DEF WholeTrace
<1>3. TraceInv'
    BY <1>1, <1>2 DEF TraceInv
<1>4. UNCHANGED Contract!contractVars
    BY DEF Contract!contractVars
<1>5. QED
    BY <1>3, <1>4 DEF TracedStep

\* The budget check is the last to emit, and only on an answer that was "ok".
LEMMA EnforceBudgetTraced == ASSUME IInv, TraceInv, EnforceBudget PROVE TracedStep
<1>1. /\ pc = "post" /\ pc' = "closing" /\ UNCHANGED << turn, toolCalls >>
    BY DEF EnforceBudget, usageVars
<1>2. CASE OverBudget
    <2>1. Emit({"fallback"}) /\ status' = "partial" /\ status = "ok"
        BY <1>2 DEF EnforceBudget, Degrade, OverBudget
    <2>2. emitted["fallback"] = 0
        BY <1>1, <2>1 DEF TraceInv, WholeTrace, Settled
    <2>3. {"fallback"} \in SUBSET ActionTypes
        BY DEF ActionTypes
    <2>4. emitted'["fallback"] = 1 /\ step' = step + Cardinality({"fallback"})
        BY <2>1, <2>2, <2>3, CountedEach, TraceTypes DEF Emit
    <2>5. Cardinality({"fallback"}) \in 1..4
        <3>1. {"fallback"} = {"fallback", "fallback", "fallback", "fallback"}
            OBVIOUS
        <3>2. QED
            BY <3>1, FewEvents
    <2>6. TraceInv'
        BY <1>1, <2>1, <2>4 DEF TraceInv, Running, Settled
    <2>7. Contract!ContractNext
        BY <1>1, <2>2, <2>4, <2>5, ContractFall DEF Over
    <2>8. QED
        BY <2>6, <2>7 DEF TracedStep
<1>3. CASE ~ OverBudget
    <2>1. UNCHANGED << emitted, step, status >>
        BY <1>3 DEF EnforceBudget
    <2>2. TraceInv'
        BY <1>1, <2>1 DEF TraceInv, WholeTrace, Running, Settled
    <2>3. UNCHANGED Contract!contractVars
        BY <1>1, <2>1, ContractIdle DEF Over
    <2>4. QED
        BY <2>2, <2>3 DEF TracedStep
<1>4. QED
    BY <1>2, <1>3

\* The response, or the exception that takes its place.
LEMMA EndTraced == ASSUME IInv, TraceInv, Finish \/ Escape PROVE TracedStep
<1>1. /\ UNCHANGED << turn, toolCalls, emitted, step, status >>
      /\ \/ pc = "closing" /\ pc' = "done"
         \/ pc \in {"post", "closing"} /\ pc' = "crashed"
    BY DEF Finish, Escape, usageVars, answerVars
<1>2. TraceInv'
    BY <1>1 DEF TraceInv, WholeTrace, Running, Settled
<1>3. Contract!ContractNext
    BY <1>1, ContractAnswer, ContractCrash, TraceTypes DEF Over
<1>4. QED
    BY <1>2, <1>3 DEF TracedStep

LEMMA TraceStep == ASSUME IInv, TraceInv, [Next]_vars PROVE TracedStep
<1>1. CASE LoopStep
    <2>1. ASSUME Tick PROVE TracedStep
        BY <2>1, TraceFixed DEF Tick, usageVars
    <2>2. QED
        BY <1>1, <2>1, BuildModelTraced, BuildModelRaisesTraced, BeginTurnTraced,
           FailuresTraced, ToolStartTraced, RunAgainTraced, AgentEndsTraced, ProduceFinalTraced,
           WakeUpTraced, EnforceBudgetTraced, EndTraced DEF LoopStep
<1>2. CASE OutsideStep
    BY <1>2, FailuresTraced, LlmReturnsTraced, ToolEndTraced DEF OutsideStep
<1>3. CASE Terminated \/ UNCHANGED vars
    BY <1>3, TraceFixed DEF Terminated, vars
<1>4. QED
    BY <1>1, <1>2, <1>3 DEF Next

LEMMA TraceInitially == Init => TraceInv /\ Contract!ContractInit
<1> SUFFICES ASSUME Init PROVE TraceInv /\ Contract!ContractInit
    OBVIOUS
<1>1. /\ pc = "start" /\ turn = 0 /\ toolCalls = 0 /\ calls = << >> /\ step = 0
      /\ emitted = [k \in ActionTypes |-> 0]
    BY DEF Init
<1>2. /\ emitted["error"] = 0 /\ emitted["fallback"] = 0
      /\ emitted["agent_start"] = 0 /\ emitted["agent_end"] = 0
      /\ emitted["llm_start"] = 0 /\ emitted["llm_end"] = 0
      /\ emitted["tool_start"] = 0 /\ emitted["tool_end"] = 0
    BY <1>1 DEF ActionTypes
<1>3. Cardinality(InFlight) = 0
    <2>1. InFlight = {}
        BY <1>1 DEF InFlight
    <2>2. QED
        BY <2>1, NoneInFlight
<1>4. TraceInv
    BY <1>1, <1>2, <1>3 DEF TraceInv, RunningTrace, Running, Settled
<1>5. Contract!ContractInit
    BY <1>1, <1>2 DEF Contract!ContractInit
<1>6. QED
    BY <1>4, <1>5

LEMMA TraceInvariance == Spec => []TraceInv
<1>1. ASSUME IInv, TraceInv, [Next]_vars PROVE TraceInv'
    BY <1>1, TraceStep DEF TracedStep
<1>2. QED
    BY <1>1, TraceInitially, Invariance, PTL DEF Spec

-----------------------------------------------------------------------------
\* The trace of an "ok" response is complete, however many turns and concurrent
\* calls the run had: every start has its end, each hook ran once (hooks.py).
THEOREM OkTraceIsComplete == Spec => []OkTraceComplete
<1>1. TraceInv => OkTraceComplete
    BY DEF TraceInv, WholeTrace, OkTraceComplete, Settled
<1>2. QED
    BY <1>1, TraceInvariance, PTL

\* A run of _drive begins as the contract does, and each of its steps is a step
\* of the contract or leaves the contract's variables alone: the fallback comes
\* once and last, and the verdict is what the trace determines.
THEOREM StepsImplementContract ==
    Spec => Contract!ContractInit /\ [][Contract!ContractNext]_(Contract!contractVars)
<1>1. ASSUME IInv, TraceInv, [Next]_vars
      PROVE  [Contract!ContractNext]_(Contract!contractVars)
    BY <1>1, TraceStep DEF TracedStep
<1>2. QED
    BY <1>1, TraceInitially, TraceInvariance, Invariance, PTL DEF Spec

-----------------------------------------------------------------------------
(***************************************************************************)
(* What single steps do: the budget warning and the latency of a tool.     *)
(***************************************************************************)
\* More tokens cost no less (estimate_cost).
LEMMA CostGrows ==
    ASSUME NEW table \in Seq(PriceEntries), NEW name, NEW in \in Nat, NEW out \in Nat,
           NEW moreIn \in Nat, NEW moreOut \in Nat
    PROVE  /\ CostUsd(table, name, in, out) \in Nat
           /\ CostUsd(table, name, in + moreIn, out + moreOut) \in Nat
           /\ CostUsd(table, name, in, out) <= CostUsd(table, name, in + moreIn, out + moreOut)
<1>1. PricingOf(table, name).input \in Nat /\ PricingOf(table, name).output \in Nat
    BY PricingType
<1>2. ASSUME NEW p \in Nat, NEW q \in Nat
      PROVE  /\ in * p + out * q \in Nat
             /\ (in + moreIn) * p + (out + moreOut) * q \in Nat
             /\ in * p + out * q <= (in + moreIn) * p + (out + moreOut) * q
    <2>1. in * p \in Nat /\ out * q \in Nat /\ moreIn * p \in Nat /\ moreOut * q \in Nat
        OBVIOUS
    <2>2. /\ (in + moreIn) * p = in * p + moreIn * p
          /\ (out + moreOut) * q = out * q + moreOut * q
        OBVIOUS
    <2>3. QED
        BY <2>1, <2>2
<1> DEFINE p == PricingOf(table, name).input
           q == PricingOf(table, name).output
<1>3. /\ EstimateCost(table, name, in, out) = in * p + out * q
      /\ EstimateCost(table, name, in + moreIn, out + moreOut)
            = (in + moreIn) * p + (out + moreOut) * q
    BY Zenon DEF EstimateCost
<1>4. p \in Nat /\ q \in Nat
    BY <1>1
<1> HIDE DEF p, q
<1>5. /\ in * p + out * q \in Nat
      /\ (in + moreIn) * p + (out + moreOut) * q \in Nat
      /\ in * p + out * q <= (in + moreIn) * p + (out + moreOut) * q
    BY <1>2, <1>4, Zenon
<1>6. CASE name = NoModel
    <2>1. CostUsd(table, name, in, out) = 0
          /\ CostUsd(table, name, in + moreIn, out + moreOut) = 0
        BY <1>6 DEF CostUsd
    <2>2. QED
        BY <2>1
<1>7. CASE name # NoModel
    BY <1>3, <1>5, <1>7, Zenon DEF CostUsd
<1>8. QED
    BY <1>6, <1>7

\* Using more of a cap does not move a run away from it (on_llm_end).
LEMMA NearingGrows ==
    ASSUME NEW used \in Nat, NEW more \in Nat, used <= more, NEW cap \in Int, Nearing(used, cap)
    PROVE  Nearing(more, cap)
BY DEF Nearing

\* A run that is near a budget is near it with another response, too.
LEMMA WarnsStill ==
    ASSUME IInv, NEW usage \in Usages, Warns(tokensIn, tokensOut)
    PROVE  Warns(tokensIn + usage.input, tokensOut + usage.output)
<1>1. /\ tokensIn \in Nat /\ tokensOut \in Nat /\ now \in Nat
      /\ settings \in Deployments /\ req \in Requests
    BY DEF IInv, TypeOK
<1>2. usage.input \in Nat /\ usage.output \in Nat
    BY RunAssumption
<1>3. settings.ambient \in Seq(PriceEntries)
    BY <1>1, BudgetType DEF SettingsType, PriceEntries
<1>4. /\ Budget.max_total_tokens \in Int /\ Budget.max_cost \in Int
    BY <1>1, BudgetType
<1> DEFINE cost == CostUsd(settings.ambient, model, tokensIn, tokensOut)
           more == CostUsd(settings.ambient, model, tokensIn + usage.input,
                           tokensOut + usage.output)
<1>5. cost \in Nat /\ more \in Nat /\ cost <= more
    BY <1>1, <1>2, <1>3, CostGrows
<1>6. /\ tokensIn + tokensOut \in Nat
      /\ (tokensIn + usage.input) + (tokensOut + usage.output) \in Nat
      /\ tokensIn + tokensOut <= (tokensIn + usage.input) + (tokensOut + usage.output)
    BY <1>1, <1>2
<1> HIDE DEF cost, more
<1>7. CASE Nearing(tokensIn + tokensOut, Budget.max_total_tokens)
    <2>1. Nearing((tokensIn + usage.input) + (tokensOut + usage.output), Budget.max_total_tokens)
        BY <1>4, <1>6, <1>7, NearingGrows
    <2>2. QED
        BY <2>1 DEF Warns, NearBudget
<1>8. CASE Nearing(cost, Budget.max_cost)
    <2>1. Nearing(more, Budget.max_cost)
        BY <1>4, <1>5, <1>8, NearingGrows
    <2>2. QED
        BY <2>1 DEF Warns, NearBudget, more
<1>9. CASE Nearing(now, Budget.max_latency)
    BY <1>9 DEF Warns, NearBudget
<1>10. QED
    BY <1>7, <1>8, <1>9 DEF Warns, NearBudget, cost

\* Only the on_llm_end hooks add to their event.
LEMMA OnlyResponsesEnd ==
    ASSUME IInv, [Next]_vars, emitted'["llm_end"] > emitted["llm_end"]
    PROVE  \E usage \in Usages :
              \/ LlmHookRaises(usage)
              \/ \E tools \in BoundedSeq(Tools, MaxParallel), message \in Texts :
                    LlmReturns(usage, tools, message)
<1>1. emitted["llm_end"] \in Nat /\ emitted \in [ActionTypes -> Nat]
    BY TraceTypes DEF ActionTypes
<1>2. emitted' # emitted
    BY <1>1
<1>3. ASSUME NEW kinds, Emit(kinds), "llm_end" \notin kinds PROVE FALSE
    <2>1. "llm_end" \in ActionTypes
        BY DEF ActionTypes
    <2>2. emitted'["llm_end"] = emitted["llm_end"]
        BY <1>1, <1>3, <2>1 DEF Emit
    <2>3. QED
        BY <1>1, <2>2
<1>4. ASSUME NEW exception, NEW kinds, Fail(exception, kinds) PROVE "llm_end" \in kinds
    <2>1. Emit(kinds \cup {"error", "fallback"})
        BY <1>4 DEF Fail
    <2>2. QED
        BY <1>3, <2>1
<1>5. ~ BeginTurn
    <2>1. "llm_end" \notin {"llm_start"} \cup (IF turn = 0 THEN StartEvents ELSE {})
        BY DEF StartEvents
    <2>2. QED
        BY <1>3, <2>1 DEF BeginTurn
<1>6. ~ ExceedTurns /\ ~ Misbehave /\ ~ WaitForTimeout
    BY <1>4 DEF ExceedTurns, Misbehave, WaitForTimeout
<1>7. \A exception : ~ LlmRaises(exception) /\ ~ EndRaises(exception)
    BY <1>4 DEF LlmRaises, EndRaises
<1>8. ~ AgentEnds /\ \A raw : ~ ProduceFinal(raw) /\ ~ RejectFinal(raw)
    BY <1>2, <1>3, <1>4 DEF AgentEnds, ProduceFinal, RejectFinal, EndEvents
<1>9. \A i : ~ ToolStart(i) /\ ~ ToolEnd(i)
    BY <1>3 DEF ToolStart, ToolEnd
<1>10. ~ EnforceBudget
    BY <1>2, <1>3 DEF EnforceBudget, Degrade
<1>11. /\ ~ BuildModel /\ ~ BuildModelRaises /\ ~ RunAgain /\ ~ WakeUp /\ ~ Tick
       /\ ~ Finish /\ ~ Escape /\ ~ Terminated /\ ~ UNCHANGED vars
    BY <1>2 DEF BuildModel, BuildModelRaises, RunAgain, WakeUp, Tick, Finish, Escape,
                Terminated, vars
<1>12. QED
    BY <1>5, <1>6, <1>7, <1>8, <1>9, <1>10, <1>11 DEF Next, LoopStep, OutsideStep

\* In every deployment and with any usage: a response that arrives when the run is
\* near a budget already emits the warning, whichever on_llm_end runs first
\* (ReasoningSummaryHooks.on_llm_end).
THEOREM WarnsByNextResponse == Spec => WarnedByNextResponse
<1>1. ASSUME IInv, [Next]_vars, emitted'["llm_end"] > emitted["llm_end"],
             ~ CostUsdRaises(settings.ambient, model), Warns(tokensIn, tokensOut)
      PROVE  emitted'["budget_warning"] > emitted["budget_warning"]
    <2>1. PICK usage \in Usages :
              \E tools \in BoundedSeq(Tools, MaxParallel), message \in Texts :
                 LlmReturns(usage, tools, message)
        BY <1>1, OnlyResponsesEnd DEF LlmHookRaises
    <2>2. PICK warned \in Warnings(usage) :
              Emit({"llm_end"} \cup IF warned THEN {"budget_warning"} ELSE {})
        BY <2>1 DEF LlmReturns
    <2>3. warned
        BY <1>1, <2>2, WarnsStill DEF Warnings
    <2>4. emitted \in [ActionTypes -> Nat] /\ "budget_warning" \in ActionTypes
        BY <1>1, TraceTypes DEF ActionTypes
    <2>5. emitted'["budget_warning"] = emitted["budget_warning"] + 1
        BY <2>2, <2>3, <2>4 DEF Emit
    <2>6. QED
        BY <2>4, <2>5
<1>2. ASSUME IInv, [Next]_vars
      PROVE  [ emitted'["llm_end"] > emitted["llm_end"]
               /\ ~ CostUsdRaises(settings.ambient, model)
               /\ Warns(tokensIn, tokensOut)
                   => emitted'["budget_warning"] > emitted["budget_warning"] ]_vars
    BY <1>1, <1>2
<1>3. QED
    BY <1>2, Invariance, PTL DEF Spec, WarnedByNextResponse

-----------------------------------------------------------------------------
\* No other call of the turn has the tool name of call i.
Alone(i) == \A j \in DOMAIN calls \ {i} : calls[j].tool # calls[i].tool

\* The start that on_tool_end finds in the scratch dictionary is the start of
\* that very call, and between two turns no call is left over.
ScratchInv ==
    /\ pc # "tools" => calls = << >>
    /\ \A i \in DOMAIN calls :
          calls[i].phase = "running" /\ Alone(i) => started[calls[i].tool] = calls[i].began

\* What on_tool_start leaves in the record of its call and in the others.
LEMMA CallStarts ==
    ASSUME IInv, NEW i \in DOMAIN calls, ToolStart(i)
    PROVE  /\ DOMAIN calls' = DOMAIN calls
           /\ calls'[i].tool = calls[i].tool /\ calls'[i].phase = "running"
           /\ calls'[i].began = now
           /\ \A j \in DOMAIN calls \ {i} : calls'[j] = calls[j]
           /\ started'[calls[i].tool] = now
           /\ \A t \in Tools \ {calls[i].tool} : started'[t] = started[t]
<1>1. calls \in Seq(CallType) /\ started \in [Tools -> Nat \cup {None}]
    BY DEF IInv, TypeOK
<1>2. calls[i] \in CallType
    BY <1>1
<1>3. /\ calls' = [calls EXCEPT ![i] = [@ EXCEPT !.phase = "running", !.began = now]]
      /\ started' = [started EXCEPT ![calls[i].tool] = now]
    BY DEF ToolStart
<1>4. /\ DOMAIN calls' = DOMAIN calls
      /\ \A j \in DOMAIN calls \ {i} : calls'[j] = calls[j]
      /\ calls'[i] = [calls[i] EXCEPT !.phase = "running", !.began = now]
    BY <1>1, <1>3, Zenon
<1>5. /\ calls'[i].tool = calls[i].tool /\ calls'[i].phase = "running"
      /\ calls'[i].began = now /\ calls[i].tool \in Tools
    BY <1>2, <1>4 DEF CallType
<1>6. /\ started'[calls[i].tool] = now
      /\ \A t \in Tools \ {calls[i].tool} : started'[t] = started[t]
    BY <1>1, <1>3, <1>5
<1>7. QED
    BY <1>4, <1>5, <1>6

\* What on_tool_end leaves: only the scratch entry of its own name goes.
LEMMA CallEnds ==
    ASSUME IInv, NEW i \in DOMAIN calls, ToolEnd(i)
    PROVE  /\ DOMAIN calls' = DOMAIN calls
           /\ calls'[i].tool = calls[i].tool /\ calls'[i].phase = "ended"
           /\ \A j \in DOMAIN calls \ {i} : calls'[j] = calls[j]
           /\ \A t \in Tools \ {calls[i].tool} : started'[t] = started[t]
<1>1. calls \in Seq(CallType) /\ started \in [Tools -> Nat \cup {None}]
    BY DEF IInv, TypeOK
<1>2. calls[i] \in CallType
    BY <1>1
<1>3. /\ calls' = [calls EXCEPT ![i].phase = "ended"]
      /\ started' = [started EXCEPT ![calls[i].tool] = None]
    BY DEF ToolEnd, ForgetStart
<1>4. /\ DOMAIN calls' = DOMAIN calls
      /\ \A j \in DOMAIN calls \ {i} : calls'[j] = calls[j]
      /\ calls'[i] = [calls[i] EXCEPT !.phase = "ended"]
    BY <1>1, <1>3, Zenon
<1>5. /\ calls'[i].tool = calls[i].tool /\ calls'[i].phase = "ended"
      /\ calls[i].tool \in Tools
    BY <1>2, <1>4 DEF CallType
<1>6. \A t \in Tools \ {calls[i].tool} : started'[t] = started[t]
    BY <1>1, <1>3, <1>5
<1>7. QED
    BY <1>4, <1>5, <1>6

\* Every other step drops the turn's calls, brings those of a new response, or
\* leaves calls and scratch alone.
LEMMA OtherSteps ==
    ASSUME IInv, [Next]_vars, \A i \in DOMAIN calls : ~ ToolStart(i) /\ ~ ToolEnd(i)
    PROVE  \/ calls' = << >>
           \/ pc' = "tools" /\ \A i \in DOMAIN calls' : calls'[i].phase = "asked"
           \/ /\ calls' = calls /\ started' = started
              /\ pc = "tools" => pc' = "tools"
<1> DEFINE Goal == \/ calls' = << >>
                   \/ pc' = "tools" /\ \A i \in DOMAIN calls' : calls'[i].phase = "asked"
                   \/ /\ calls' = calls /\ started' = started
                      /\ pc = "tools" => pc' = "tools"
<1>1. ASSUME NEW exception, NEW kinds, Fail(exception, kinds) PROVE Goal
    BY <1>1 DEF Fail
<1>2. ASSUME ExceedTurns \/ Misbehave \/ WaitForTimeout PROVE Goal
    <2> HIDE DEF Goal
    <2>1. QED
        BY <1>1, <1>2 DEF ExceedTurns, Misbehave, WaitForTimeout
<1>3. ASSUME NEW raw, ProduceFinal(raw) \/ RejectFinal(raw) PROVE Goal
    <2>1. CASE ProduceFinal(raw)
        BY <2>1 DEF ProduceFinal
    <2>2. CASE RejectFinal(raw)
        <3> HIDE DEF Goal
        <3>1. QED
            BY <1>1, <2>2 DEF RejectFinal
    <2>3. QED
        BY <1>3, <2>1, <2>2
<1>4. ASSUME NEW usage, LlmHookRaises(usage) PROVE Goal
    <2> HIDE DEF Goal
    <2>1. QED
        BY <1>1, <1>4 DEF LlmHookRaises
<1>5. ASSUME NEW exception, LlmRaises(exception) \/ EndRaises(exception) PROVE Goal
    <2> HIDE DEF Goal
    <2>1. QED
        BY <1>1, <1>5 DEF LlmRaises, EndRaises
<1>6. ASSUME NEW usage, NEW tools, NEW message, LlmReturns(usage, tools, message) PROVE Goal
    BY <1>6 DEF LlmReturns
<1>7. ASSUME BuildModel \/ BuildModelRaises \/ BeginTurn PROVE Goal
    BY <1>7 DEF BuildModel, BuildModelRaises, BeginTurn
<1>8. ASSUME RunAgain \/ AgentEnds \/ WakeUp \/ Tick PROVE Goal
    BY <1>8 DEF RunAgain, AgentEnds, WakeUp, Tick
<1>9. ASSUME EnforceBudget \/ Finish \/ Escape \/ Terminated \/ UNCHANGED vars PROVE Goal
    BY <1>9 DEF EnforceBudget, Finish, Escape, Terminated, vars
<1> HIDE DEF Goal
<1>10. Goal
    BY <1>2, <1>3, <1>4, <1>5, <1>6, <1>7, <1>8, <1>9 DEF Next, LoopStep, OutsideStep
<1>11. QED
    BY <1>10 DEF Goal

LEMMA ToolNames ==
    ASSUME calls \in Seq(CallType), NEW k \in DOMAIN calls
    PROVE  calls[k].tool \in Tools
<1>1. calls[k] \in CallType
    OBVIOUS
<1>2. QED
    BY <1>1 DEF CallType

LEMMA ScratchStep ==
    ASSUME IInv, ScratchInv, [Next]_vars
    PROVE  ScratchInv'
<1>1. calls \in Seq(CallType)
    BY DEF IInv, TypeOK
<1>2. ASSUME NEW i \in DOMAIN calls, ToolStart(i) PROVE ScratchInv'
    <2>1. pc' = "tools"
        BY <1>2 DEF ToolStart
    <2>2. ASSUME NEW k \in DOMAIN calls', calls'[k].phase = "running", Alone(k)'
          PROVE  started'[calls'[k].tool] = calls'[k].began
        <3>1. CASE k = i
            BY <1>2, <3>1, CallStarts
        <3>2. CASE k # i
            <4>1. /\ k \in DOMAIN calls /\ calls'[k] = calls[k]
                  /\ calls[i].tool # calls[k].tool
                BY <1>2, <2>2, <3>2, CallStarts DEF Alone
            <4>2. Alone(k)
                <5>1. ASSUME NEW j \in DOMAIN calls \ {k} PROVE calls[j].tool # calls[k].tool
                    <6>1. calls'[j].tool # calls'[k].tool
                        BY <1>2, <2>2, CallStarts DEF Alone
                    <6>2. calls'[j].tool = calls[j].tool
                        BY <1>2, CallStarts
                    <6>3. QED
                        BY <4>1, <6>1, <6>2
                <5>2. QED
                    BY <5>1 DEF Alone
            <4>3. started[calls[k].tool] = calls[k].began
                BY <2>2, <4>1, <4>2 DEF ScratchInv
            <4>4. calls[k].tool \in Tools
                BY <1>1, <4>1, ToolNames
            <4>5. started'[calls[k].tool] = started[calls[k].tool]
                BY <1>2, <4>1, <4>4, CallStarts
            <4>6. QED
                BY <4>1, <4>3, <4>5
        <3>3. QED
            BY <3>1, <3>2
    <2>3. QED
        BY <2>1, <2>2 DEF ScratchInv
<1>3. ASSUME NEW i \in DOMAIN calls, ToolEnd(i) PROVE ScratchInv'
    <2>1. pc' = "tools"
        BY <1>3 DEF ToolEnd
    <2>2. ASSUME NEW k \in DOMAIN calls', calls'[k].phase = "running", Alone(k)'
          PROVE  started'[calls'[k].tool] = calls'[k].began
        <3>1. k # i
            BY <1>3, <2>2, CallEnds
        <3>2. /\ k \in DOMAIN calls /\ calls'[k] = calls[k]
              /\ calls[i].tool # calls[k].tool
            BY <1>3, <2>2, <3>1, CallEnds DEF Alone
        <3>3. Alone(k)
            <4>1. ASSUME NEW j \in DOMAIN calls \ {k} PROVE calls[j].tool # calls[k].tool
                <5>1. calls'[j].tool # calls'[k].tool
                    BY <1>3, <2>2, CallEnds DEF Alone
                <5>2. calls'[j].tool = calls[j].tool
                    BY <1>3, CallEnds
                <5>3. QED
                    BY <3>2, <5>1, <5>2
            <4>2. QED
                BY <4>1 DEF Alone
        <3>4. started[calls[k].tool] = calls[k].began
            BY <2>2, <3>2, <3>3 DEF ScratchInv
        <3>5. calls[k].tool \in Tools
            BY <1>1, <3>2, ToolNames
        <3>6. started'[calls[k].tool] = started[calls[k].tool]
            BY <1>3, <3>2, <3>5, CallEnds
        <3>7. QED
            BY <3>2, <3>4, <3>6
    <2>3. QED
        BY <2>1, <2>2 DEF ScratchInv
<1>4. ASSUME calls' = << >> PROVE ScratchInv'
    BY <1>4 DEF ScratchInv
<1>5. ASSUME pc' = "tools", \A i \in DOMAIN calls' : calls'[i].phase = "asked" PROVE ScratchInv'
    BY <1>5 DEF ScratchInv
<1>6. ASSUME calls' = calls, started' = started, pc = "tools" => pc' = "tools"
      PROVE  ScratchInv'
    BY <1>6 DEF ScratchInv, Alone
<1>7. QED
    BY <1>2, <1>3, <1>4, <1>5, <1>6, OtherSteps

\* Only on_tool_end ends a call.
LEMMA OnlyToolEnds ==
    ASSUME IInv, [Next]_vars, NEW i \in DOMAIN calls, EndsCall(i)
    PROVE  ToolEnd(i)
<1>1. ASSUME NEW k \in DOMAIN calls, ToolStart(k) PROVE FALSE
    BY <1>1, CallStarts DEF EndsCall
<1>2. ASSUME NEW k \in DOMAIN calls, ToolEnd(k) PROVE k = i
    BY <1>2, CallEnds DEF EndsCall
<1>3. ASSUME \A k \in DOMAIN calls : ~ ToolStart(k) /\ ~ ToolEnd(k) PROVE FALSE
    <2>1. CASE calls' = << >>
        BY <2>1 DEF EndsCall
    <2>2. CASE pc' = "tools" /\ \A k \in DOMAIN calls' : calls'[k].phase = "asked"
        BY <2>2 DEF EndsCall
    <2>3. CASE calls' = calls
        BY <2>3 DEF EndsCall
    <2>4. QED
        BY <1>3, <2>1, <2>2, <2>3, OtherSteps
<1>4. QED
    BY <1>1, <1>2, <1>3

LEMMA ScratchInvariance == Spec => []ScratchInv
<1>1. Init => ScratchInv
    BY DEF Init, ScratchInv
<1>2. ASSUME IInv, ScratchInv, [Next]_vars PROVE ScratchInv'
    BY <1>2, ScratchStep
<1>3. QED
    BY <1>1, <1>2, Invariance, PTL DEF Spec

\* With any tools and any number of calls in parallel, the latency of a tool_end
\* event is measured from that call's own start when no other call of the turn
\* has its tool name (ResearchRunHooks.on_tool_end).
THEOREM DistinctToolsAreMeasured == Spec => DistinctToolsMeasured
<1>1. ASSUME IInv, ScratchInv, [Next]_vars, NEW i \in DOMAIN calls, EndsCall(i), Alone(i)
      PROVE  ToolLatency(calls[i].tool) = now - calls[i].began
    <2>1. started[calls[i].tool] = calls[i].began
        BY <1>1 DEF EndsCall, ScratchInv
    <2>2. calls[i].began \in Nat
        <3>1. calls \in Seq(CallType)
            BY <1>1 DEF IInv, TypeOK
        <3>2. calls[i] \in CallType
            BY <3>1
        <3>3. QED
            BY <3>2 DEF CallType
    <2>3. calls[i].began # None
        BY <2>2, RunAssumption
    <2>4. QED
        BY <2>1, <2>3 DEF ToolLatency
<1>2. ASSUME IInv, ScratchInv, [Next]_vars
      PROVE  [ \A i \in DOMAIN calls :
                 EndsCall(i) /\ (\A j \in DOMAIN calls \ {i} : calls[j].tool # calls[i].tool)
                   => ToolLatency(calls[i].tool) = now - calls[i].began ]_vars
    BY <1>1, <1>2 DEF Alone
<1>3. QED
    BY <1>2, ScratchInvariance, Invariance, PTL DEF Spec, DistinctToolsMeasured
=============================================================================
