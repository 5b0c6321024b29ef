------------------------------ MODULE EvalCases -----------------------------
(***************************************************************************)
(* What a run of a case may answer, as a function of the case and of the   *)
(* scenario it is run in: "ok" within the caps of the case, or a canned    *)
(* answer of low confidence that says nothing the dataset looks for.  With *)
(* the mock provider an "ok" answer is MockModel's.  The duration of an    *)
(* "ok" answer is read after the budget check, and may pass the cap by the *)
(* scenario's gap.                                                         *)
(***************************************************************************)
EXTENDS Scoring, MockModel

\* The cap run_one gives a run: the case's, or the setting when it has none.
RunCap(cap, setting) == IF cap \in {None, Absent} THEN setting ELSE cap

\* The final answers the model may give to a case.
Answers(case, provider) ==
    IF provider = "mock"
    THEN LET answer == MockAnswerFor(FlattenInput(UserInput(case.topics)))
         IN { [ says |-> answer.says, caveats |-> answer.caveats, blank |-> FALSE,
                confidence |-> answer.confidence ] }
    ELSE [ says : SUBSET (case.required_facts \cup case.forbidden_behavior),
           caveats : {{}}, blank : {FALSE}, confidence : {"low", "medium", "high"} ]
         \cup [ says : {{}}, caveats : {{}}, blank : {TRUE}, confidence : {"low", "high"} ]

CannedAnswer == [ says |-> {}, caveats |-> {"partial"}, blank |-> FALSE,
                  confidence |-> "low" ]

\* The RunResponses of a case: answer, status and metrics.
Responses(case, scenario) ==
    LET Response(a, status, cost, duration, tools) ==
            [ says |-> a.says, caveats |-> a.caveats, blank |-> a.blank,
              confidence |-> a.confidence, status |-> status, cost |-> cost,
              duration |-> duration, tool_calls |-> tools ]
        maxCost    == RunCap(case.max_cost, scenario.max_cost)
        maxLatency == RunCap(case.max_latency, scenario.max_latency)
    IN { Response(a, "ok", c, d, t) :
            a \in Answers(case, scenario.provider),
            c \in { x \in scenario.costs : x <= maxCost },
            d \in { x \in scenario.durations : x <= maxLatency + scenario.gap },
            t \in scenario.tool_counts }
       \cup { Response(CannedAnswer, "partial", c, d, t) :
                c \in scenario.costs, d \in scenario.durations, t \in scenario.tool_counts }
       \cup { Response(CannedAnswer, "error", 0, d, 0) :
                d \in scenario.durations }
=============================================================================
