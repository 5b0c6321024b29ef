---------------------------- MODULE Evals_proofs ----------------------------
(***************************************************************************)
(* The files and the exit code of the evaluation, for every dataset, every *)
(* answer of the runs and every setting of the gates.                      *)
(***************************************************************************)
EXTENDS GoldenDataset, Scoring_proofs

\* Which of this evaluation's files are written, and how far.
NoneWritten == artifacts = [results |-> Earlier, report |-> Earlier]
ResultsTorn == artifacts = [results |-> Torn, report |-> Earlier]
ResultsWritten == artifacts = [results |-> ThisResults, report |-> Earlier]
ReportTorn == artifacts = [results |-> ThisResults, report |-> Torn]
BothWritten == artifacts = [results |-> ThisResults, report |-> ThisReport]

\* Every case was run and scored, and the gates were evaluated.
Judged ==
    /\ Len(results) = Len(dataset)
    /\ results # << >>
    /\ failures = GateFailures(AggregateOf(results), Gates)

\* What holds at each stage of main_async.
StageInv ==
    /\ pc \in {"running", "gating", "writing", "reporting", "exiting", "exited"}
    /\ pc # "exited" => ~ raised
    /\ pc = "running" => NoneWritten
    /\ pc = "gating" => NoneWritten /\ Len(results) = Len(dataset)
    /\ pc = "writing" => NoneWritten /\ Judged
    /\ pc = "reporting" => ResultsWritten /\ Judged
    /\ pc = "exiting" => BothWritten /\ Judged

\* The files an exception may leave behind.
LeftBehind ==
    NoneWritten \/ ResultsTorn \/ ((ResultsWritten \/ ReportTorn) /\ Judged)

\* What holds at the end: an exception left the files of some stage, or main_async
\* returned by its verdict.
EndInv ==
    pc = "exited" =>
        \/ raised /\ exit = 1 /\ LeftBehind
        \/ /\ ~ raised /\ BothWritten /\ Judged
           /\ exit = IF failures = {} \/ no_gate THEN 0 ELSE 1

EInv == StageInv /\ EndInv

\* The initial states satisfy the invariant.
LEMMA EvalInitInv == EvalInit => EInv
    BY DEF EvalInit, EInv, StageInv, EndInv, NoneWritten

\* An exception at any stage before the report is written keeps it.
LEMMA RaiseInv ==
    ASSUME EInv, Raise, pc \in {"running", "gating", "writing", "reporting"}
    PROVE  EInv'
<1>1. /\ raised' = TRUE /\ exit' = 1 /\ pc' = "exited"
      /\ NoneWritten \/ (ResultsWritten /\ Judged)
    BY DEF EInv, StageInv, Raise
<1>2. UNCHANGED << scenario, no_gate, results, failures, artifacts >>
    BY DEF Raise
<1>3. LeftBehind'
    BY <1>1, <1>2 DEF LeftBehind, NoneWritten, ResultsWritten, Judged, ThisResults, Earlier,
                      dataset
<1>4. QED
    BY <1>1, <1>3 DEF EInv, StageInv, EndInv

\* A write that fails leaves its file as it was, or torn.
LEMMA WriteFailsInv ==
    ASSUME EInv,
           \/ pc = "writing" /\ WriteFails("results")
           \/ pc = "reporting" /\ WriteFails("report")
    PROVE  EInv'
<1>1. /\ raised' = TRUE /\ exit' = 1 /\ pc' = "exited"
      /\ UNCHANGED << scenario, no_gate, results, failures >>
    BY DEF WriteFails
<1>2. Judged' /\ ThisResults' = ThisResults
    BY <1>1 DEF EInv, StageInv, Judged, ThisResults, dataset
<1>3. CASE pc = "writing" /\ WriteFails("results")
    <2>1. artifacts = [results |-> Earlier, report |-> Earlier]
        BY <1>3 DEF EInv, StageInv, NoneWritten
    <2>2. \/ artifacts' = [artifacts EXCEPT !["results"] = artifacts["results"]]
          \/ artifacts' = [artifacts EXCEPT !["results"] = Torn]
        BY <1>3 DEF WriteFails
    <2>3. NoneWritten' \/ ResultsTorn'
        BY <2>1, <2>2 DEF NoneWritten, ResultsTorn, Earlier, Torn
    <2>4. QED
        BY <1>1, <2>3 DEF EInv, StageInv, EndInv, LeftBehind
<1>4. CASE pc = "reporting" /\ WriteFails("report")
    <2>1. artifacts = [results |-> ThisResults, report |-> Earlier]
        BY <1>4 DEF EInv, StageInv, ResultsWritten
    <2>2. \/ artifacts' = [artifacts EXCEPT !["report"] = artifacts["report"]]
          \/ artifacts' = [artifacts EXCEPT !["report"] = Torn]
        BY <1>4 DEF WriteFails
    <2>3. ResultsWritten' \/ ReportTorn'
        BY <1>2, <2>1, <2>2 DEF ResultsWritten, ReportTorn, Earlier, Torn
    <2>4. QED
        BY <1>1, <1>2, <2>3 DEF EInv, StageInv, EndInv, LeftBehind
<1>5. QED
    BY <1>3, <1>4

\* Every step of the evaluation keeps it.
LEMMA EvalNextInv == EInv /\ [EvalNext]_evalVars => EInv'
<1> SUFFICES ASSUME EInv, [EvalNext]_evalVars PROVE EInv'
    OBVIOUS
<1> USE DEF EInv, StageInv, EndInv, Judged, ThisResults, ThisReport, Earlier, dataset,
            NoneWritten, ResultsWritten, BothWritten
<1>1. CASE RunCase
    <2>1. pc = "running"
        BY <1>1 DEF RunCase
    <2>2. CASE Raise
        BY <2>1, <2>2, RaiseInv
    <2>3. CASE ~ Raise
        <3>1. UNCHANGED << scenario, no_gate, pc, failures, raised, exit, artifacts >>
            BY <1>1, <2>3 DEF RunCase
        <3>2. QED
            BY <2>1, <3>1
    <2>4. QED
        BY <2>2, <2>3
<1>2. CASE RunRaises
    <2>1. pc = "running" /\ Raise
        BY <1>2 DEF RunRaises
    <2>2. QED
        BY <2>1, RaiseInv
<1>3. CASE AllRun
    BY <1>3 DEF AllRun
<1>4. CASE Gate
    <2>1. pc = "gating"
        BY <1>4 DEF Gate
    <2>2. CASE results = << >>
        BY <1>4, <2>1, <2>2, RaiseInv DEF Gate
    <2>3. CASE results # << >>
        BY <1>4, <2>1, <2>3 DEF Gate
    <2>4. QED
        BY <2>2, <2>3
<1>5. CASE WriteResults
    <2>1. pc = "writing"
        BY <1>5 DEF WriteResults
    <2>2. CASE WriteFails("results")
        BY <2>1, <2>2, WriteFailsInv
    <2>3. CASE ~ WriteFails("results")
        BY <1>5, <2>1, <2>3 DEF WriteResults
    <2>4. QED
        BY <2>2, <2>3
<1>6. CASE WriteReport
    <2>1. pc = "reporting"
        BY <1>6 DEF WriteReport
    <2>2. CASE WriteFails("report")
        BY <2>1, <2>2, WriteFailsInv
    <2>3. CASE ~ WriteFails("report")
        BY <1>6, <2>1, <2>3 DEF WriteReport
    <2>4. QED
        BY <2>2, <2>3
<1>7. CASE Exit
    <2>1. /\ pc = "exiting" /\ pc' = "exited"
          /\ UNCHANGED << scenario, no_gate, results, failures, raised, artifacts >>
          /\ exit' = IF failures = {} \/ no_gate THEN 0 ELSE 1
        BY <1>7 DEF Exit
    <2>2. BothWritten' /\ Judged' /\ ~ raised'
        BY <2>1
    <2> HIDE DEF BothWritten, Judged
    <2>3. QED
        BY <2>1, <2>2
<1>8. CASE UNCHANGED evalVars
    BY <1>8 DEF evalVars, LeftBehind, ResultsTorn, ReportTorn
<1>9. QED
    BY <1>1, <1>2, <1>3, <1>4, <1>5, <1>6, <1>7, <1>8 DEF EvalNext, Exited

\* The invariant says all of ArtifactsAgree.
LEMMA EInvImplies == EInv => ArtifactsAgree
<1> SUFFICES ASSUME EInv, pc = "exited" PROVE ArtifactsAgree
    BY DEF ArtifactsAgree
<1> USE DEF EInv, EndInv, Judged, ThisResults, ThisReport, Earlier, Torn, LeftBehind
<1>1. CASE raised
    BY <1>1 DEF ArtifactsAgree, NoneWritten, ResultsTorn, ResultsWritten, ReportTorn
<1>2. CASE ~ raised
    BY <1>2 DEF ArtifactsAgree, BothWritten
<1>3. QED
    BY <1>1, <1>2

\* However the evaluation ends, with any dataset, any answers, any gates and any
\* file that cannot be opened or is torn: the report never outruns the results, the
\* results hold the aggregate of the whole dataset and the report the gates' verdict
\* on it, and an exit code that is not an exception's is that verdict (main_async).
THEOREM FilesAgree == EvalSpec => []ArtifactsAgree
<1>1. EvalSpec => []EInv
    BY EvalInitInv, EvalNextInv, PTL DEF EvalSpec
<1>2. QED
    BY <1>1, EInvImplies, PTL

-----------------------------------------------------------------------------
\* A result of run_all for a case: a response that score_case does not raise on,
\* with its scores.
ResultsOf(case) ==
    { [response |-> r, score |-> ScoreCase(case, r)] :
          r \in { x \in Responses(case, scenario) : ~ ScoreCaseRaises(case, x) } }

AnyResult == UNION { ResultsOf(case) : case \in CaseType }

GateNames == {"correctness", "factual_coverage", "safety", "p95_latency", "avg_cost", "forbidden"}

\* The results are those of the first cases, in the order of the dataset.
ResultsInv ==
    /\ scenario \in Scenarios
    /\ results \in Seq(AnyResult)
    /\ Len(results) <= Len(dataset)
    /\ \A i \in 1..Len(results) : results[i] \in ResultsOf(dataset[i])

\* What EvalTypeOK needs besides.
RestInv ==
    /\ no_gate \in BOOLEAN /\ raised \in BOOLEAN /\ exit \in {-1, 0, 1}
    /\ pc \in {"running", "gating", "writing", "reporting", "exiting", "exited"}
    /\ failures \subseteq GateNames

LEMMA DatasetType ==
    ASSUME scenario \in Scenarios
    PROVE  /\ dataset \in Seq(CaseType) /\ Len(dataset) \in Nat
           /\ \A i \in 1..Len(dataset) : dataset[i] \in CaseType
<1>1. scenario \in ScenarioType
    BY EvalsAssumption
<1>2. dataset \in Seq(CaseType)
    BY <1>1 DEF ScenarioType, dataset
<1> HIDE DEF CaseType
<1>3. QED
    BY <1>2

LEMMA AnswerType ==
    ASSUME NEW case, NEW a \in Answers(case, scenario.provider)
    PROVE  a.blank \in BOOLEAN /\ a.confidence \in {"low", "medium", "high"}
<1>1. CASE scenario.provider = "mock"
    <2> DEFINE answer == MockAnswerFor(FlattenInput(UserInput(case.topics)))
    <2>1. a = [ says |-> answer.says, caveats |-> answer.caveats, blank |-> FALSE,
                confidence |-> answer.confidence ]
        BY <1>1 DEF Answers
    <2>2. answer.confidence \in {"low", "medium", "high"}
        <3> DEFINE text == FlattenInput(UserInput(case.topics))
        <3> HIDE DEF text
        <3>1. MockAnswerFor(text).confidence \in {"low", "medium", "high"}
            BY DEF MockAnswerFor
        <3>2. QED
            BY <3>1 DEF text
    <2> HIDE DEF answer
    <2>3. QED
        BY <2>1, <2>2
<1>2. CASE scenario.provider # "mock"
    BY <1>2 DEF Answers
<1>3. QED
    BY <1>1, <1>2

\* The answer and the metrics of a response, within what the run may report.
LEMMA ResponseType ==
    ASSUME scenario \in Scenarios, NEW case, NEW r \in Responses(case, scenario)
    PROVE  /\ r.blank \in BOOLEAN /\ r.confidence \in {"low", "medium", "high"}
           /\ r.cost \in Nat /\ r.duration \in Nat /\ r.tool_calls \in Nat
<1>1. /\ scenario.costs \subseteq Nat /\ scenario.durations \subseteq Nat
      /\ scenario.tool_counts \subseteq Nat
    BY EvalsAssumption DEF ScenarioType
<1> DEFINE Response(a, status, cost, duration, tools) ==
              [ says |-> a.says, caveats |-> a.caveats, blank |-> a.blank,
                confidence |-> a.confidence, status |-> status, cost |-> cost,
                duration |-> duration, tool_calls |-> tools ]
<1>2. \E a, status : \E c \in Nat, d \in Nat, t \in Nat :
          /\ a \in Answers(case, scenario.provider) \/ a = CannedAnswer
          /\ r = Response(a, status, c, d, t)
    <2>1. CASE \E a \in Answers(case, scenario.provider), c \in scenario.costs,
                  d \in scenario.durations, t \in scenario.tool_counts : r = Response(a, "ok", c, d, t)
        BY <1>1, <2>1
    <2>2. CASE \E c \in scenario.costs, d \in scenario.durations, t \in scenario.tool_counts :
                  r = Response(CannedAnswer, "partial", c, d, t)
        BY <1>1, <2>2
    <2>3. CASE \E d \in scenario.durations : r = Response(CannedAnswer, "error", 0, d, 0)
        <3>1. 0 \in Nat
            OBVIOUS
        <3>2. QED
            BY <1>1, <2>3, <3>1
    <2>4. QED
        BY <2>1, <2>2, <2>3 DEF Responses
<1>3. PICK a, status : \E c \in Nat, d \in Nat, t \in Nat :
          /\ a \in Answers(case, scenario.provider) \/ a = CannedAnswer
          /\ r = Response(a, status, c, d, t)
    BY <1>2
<1>4. a.blank \in BOOLEAN /\ a.confidence \in {"low", "medium", "high"}
    <2>1. CASE a \in Answers(case, scenario.provider)
        BY <2>1, AnswerType
    <2>2. CASE a = CannedAnswer
        BY <2>2 DEF CannedAnswer
    <2>3. QED
        BY <1>3, <2>1, <2>2
<1>5. QED
    BY <1>3, <1>4

\* What holds of the result of a case: its scores are percentages, a blank answer and
\* one with none of the required facts score nothing, and the hits are the forbidden
\* phrases that it says.
ScoresFit(case, result) ==
    LET r == result.response
        s == result.score
    IN /\ r.blank \in BOOLEAN /\ r.cost \in Nat /\ r.duration \in Nat
       /\ s.correctness \in 0..100 /\ s.factual_coverage \in 0..100
       /\ s.safety \in 0..100 /\ s.tool_use \in 0..100
       /\ s.cost \in 0..100 /\ s.latency \in 0..100
       /\ r.blank => s.correctness = 0
       /\ case.required_facts # {} /\ case.required_facts \cap r.says = {}
             => s.factual_coverage = 0
       /\ s.forbidden_hits = case.forbidden_behavior \cap (r.says \cup r.caveats)
       /\ s.forbidden_hits = {} => s.safety = 100
       /\ DOMAIN s = {"correctness", "factual_coverage", "safety", "tool_use",
                      "cost", "latency", "forbidden_hits"}

LEMMA ResultScores ==
    ASSUME scenario \in Scenarios, NEW case \in CaseType, NEW result \in ResultsOf(case)
    PROVE  ScoresFit(case, result)
<1>1. PICK r \in Responses(case, scenario) :
          ~ ScoreCaseRaises(case, r) /\ result = [response |-> r, score |-> ScoreCase(case, r)]
    BY DEF ResultsOf
<1> DEFINE s == ScoreCase(case, r)
           cost == CapOf(case.max_cost, DefaultCost)
           latency == CapOf(case.max_latency, DefaultLatency)
<1>2. /\ r.blank \in BOOLEAN /\ r.confidence \in {"low", "medium", "high"}
      /\ r.cost \in Nat /\ r.duration \in Nat /\ r.tool_calls \in Nat
    BY ResponseType
<1>3. cost \in Nat /\ latency \in Nat
    <2>1. case.max_cost \in Nat \cup {None, Absent} /\ case.max_latency \in Nat \cup {None, Absent}
        BY DEF CaseType
    <2>2. cost # None /\ latency # None
        BY <1>1 DEF ScoreCaseRaises
    <2>3. QED
        BY <2>1, <2>2 DEF CapOf, DefaultCost, DefaultLatency
<1>4. (cost = 0 => r.cost = 0) /\ (latency = 0 => r.duration = 0)
    <2>1. ~ (cost = 0 /\ r.cost > 0) /\ ~ (latency = 0 /\ r.duration > 0)
        BY <1>1 DEF ScoreCaseRaises
    <2> HIDE DEF cost, latency
    <2>2. QED
        BY <1>2, <2>1
<1>5. s = [ correctness      |-> ScoreCorrectness(case, r),
            factual_coverage |-> ScoreFactualCoverage(case, r),
            safety           |-> ScoreSafety(case, r),
            tool_use         |-> Penalised(r.tool_calls, MaxTools, MaxTools),
            cost             |-> Penalised(r.cost, cost, cost),
            latency          |-> Penalised(r.duration, latency, latency),
            forbidden_hits   |-> ForbiddenHits(case, r) ]
    BY DEF ScoreCase
<1> HIDE DEF s, cost, latency
<1>6. /\ ScoreCorrectness(case, r) \in 0..100
      /\ r.blank => ScoreCorrectness(case, r) = 0
    BY <1>2 DEF ScoreCorrectness
<1>7. /\ ScoreFactualCoverage(case, r) \in 0..100
      /\ case.required_facts # {} /\ case.required_facts \cap r.says = {}
            => ScoreFactualCoverage(case, r) = 0
    <2>1. IsFiniteSet(case.required_facts)
        BY EvalsAssumption, FS_Subset DEF CaseType
    <2>2. QED
        BY <2>1, CoverageRange
<1>8. /\ ScoreSafety(case, r) \in 0..100
      /\ ForbiddenHits(case, r) = {} => ScoreSafety(case, r) = 100
    BY DEF ScoreSafety
<1>9. /\ Penalised(r.tool_calls, MaxTools, MaxTools) \in 0..100
      /\ Penalised(r.cost, cost, cost) \in 0..100
      /\ Penalised(r.duration, latency, latency) \in 0..100
    <2>1. MaxTools \in Nat /\ MaxTools # 0
        BY DEF MaxTools
    <2>2. QED
        BY <1>2, <1>3, <1>4, <2>1, PenalisedRange
<1>10. result.response = r /\ result.score = s
    BY <1>1 DEF s
<1>11. QED
    BY <1>2, <1>5, <1>6, <1>7, <1>8, <1>9, <1>10 DEF ForbiddenHits, ScoresFit

\* What a case may result in depends on the scenario only.
LEMMA SameScenario ==
    ASSUME scenario' = scenario
    PROVE  (\A case : ResultsOf(case)' = ResultsOf(case)) /\ AnyResult' = AnyResult
           /\ dataset' = dataset
<1>1. \A case : Responses(case, scenario)' = Responses(case, scenario)
    OBVIOUS
<1>2. \A case : ResultsOf(case)' = ResultsOf(case)
    BY <1>1 DEF ResultsOf
<1>3. QED
    BY <1>2 DEF AnyResult, dataset

LEMMA TypeInit == EvalInit => ResultsInv /\ RestInv
<1> SUFFICES ASSUME EvalInit PROVE ResultsInv /\ RestInv
    OBVIOUS
<1>1. scenario \in Scenarios /\ results = << >>
    BY DEF EvalInit
<1>2. ResultsInv
    BY <1>1, DatasetType DEF ResultsInv
<1>3. QED
    BY <1>2 DEF EvalInit, RestInv

\* A case that is run adds its result, and every other step keeps the results.
LEMMA ResultsNext ==
    ASSUME ResultsInv, [EvalNext]_evalVars
    PROVE  ResultsInv'
<1>1. scenario \in Scenarios /\ scenario' = scenario
    BY DEF ResultsInv, EvalNext, RunCase, RunRaises, AllRun, Gate, WriteResults, WriteReport,
           Exit, Exited, Raise, WriteFails, evalVars
<1>2. /\ \A case : ResultsOf(case)' = ResultsOf(case)
      /\ AnyResult' = AnyResult /\ dataset' = dataset
    BY <1>1, SameScenario
<1>3. CASE results' = results
    BY <1>1, <1>2, <1>3 DEF ResultsInv
<1>4. CASE results' # results
    <2>1. PICK response \in Responses(NextCase, scenario) :
              /\ Len(results) < Len(dataset)
              /\ ~ ScoreCaseRaises(NextCase, response)
              /\ results' = Append(results, [ response |-> response,
                                              score |-> ScoreCase(NextCase, response) ])
        BY <1>4 DEF EvalNext, RunCase, RunRaises, AllRun, Gate, WriteResults, WriteReport,
                    Exit, Exited, Raise, WriteFails, evalVars
    <2> DEFINE n == Len(results)
               result == [ response |-> response, score |-> ScoreCase(NextCase, response) ]
    <2>2. result \in ResultsOf(NextCase)
        BY <2>1 DEF ResultsOf
    <2>3. n \in Nat /\ results \in Seq(AnyResult) /\ n + 1 \in 1..Len(dataset)
        BY <1>1, <2>1, DatasetType DEF ResultsInv
    <2>4. NextCase \in CaseType /\ NextCase = dataset[n + 1]
        BY <1>1, <2>3, DatasetType DEF NextCase
    <2>5. result \in AnyResult
        BY <2>2, <2>4 DEF AnyResult
    <2> HIDE DEF result
    <2>6. /\ results' \in Seq(AnyResult) /\ Len(results') = n + 1
          /\ results'[n + 1] = result
          /\ \A i \in 1..n : results'[i] = results[i]
        BY <2>1, <2>3, <2>5 DEF result
    <2>7. \A i \in 1..(n + 1) : results'[i] \in ResultsOf(dataset[i])
        BY <2>2, <2>3, <2>4, <2>6 DEF ResultsInv
    <2>8. n + 1 <= Len(dataset)
        BY <2>3
    <2>9. QED
        BY <1>1, <1>2, <2>6, <2>7, <2>8 DEF ResultsInv
<1>5. QED
    BY <1>3, <1>4

LEMMA RestNext ==
    ASSUME RestInv, [EvalNext]_evalVars
    PROVE  RestInv'
<1> USE DEF RestInv, Raise, WriteFails
<1>1. CASE RunCase
    BY <1>1 DEF RunCase
<1>2. CASE RunRaises
    BY <1>2 DEF RunRaises
<1>3. CASE AllRun
    BY <1>3 DEF AllRun
<1>4. CASE Gate
    <2>1. GateFailures(AggregateOf(results), Gates) \subseteq GateNames
        BY DEF GateFailures, GateNames
    <2>2. QED
        BY <1>4, <2>1 DEF Gate
<1>5. CASE WriteResults
    BY <1>5 DEF WriteResults
<1>6. CASE WriteReport
    BY <1>6 DEF WriteReport
<1>7. CASE Exit
    BY <1>7 DEF Exit
<1>8. CASE UNCHANGED evalVars
    BY <1>8 DEF evalVars
<1>9. QED
    BY <1>1, <1>2, <1>3, <1>4, <1>5, <1>6, <1>7, <1>8 DEF EvalNext, Exited

LEMMA TypeFollows == ResultsInv /\ RestInv => EvalTypeOK
<1> SUFFICES ASSUME ResultsInv, RestInv PROVE EvalTypeOK
    OBVIOUS
<1>1. DOMAIN Gates \cup {"forbidden"} = GateNames
    BY EvalsAssumption DEF GateNames
<1>2. ASSUME NEW i \in DOMAIN results, NEW f \in DOMAIN results[i].score \ {"forbidden_hits"}
      PROVE  results[i].score[f] \in 0..100
    <2>1. i \in 1..Len(results) /\ i \in 1..Len(dataset)
        BY DatasetType DEF ResultsInv
    <2>2. dataset[i] \in CaseType /\ results[i] \in ResultsOf(dataset[i])
        BY <2>1, DatasetType DEF ResultsInv
    <2>3. scenario \in Scenarios
        BY DEF ResultsInv
    <2> HIDE DEF CaseType
    <2>4. ScoresFit(dataset[i], results[i])
        BY <2>2, <2>3, ResultScores
    <2>5. QED
        BY <2>4 DEF ScoresFit
<1>3. QED
    BY <1>1, <1>2 DEF EvalTypeOK, RestInv, ResultsInv

\* Every score of every case is a percentage, whatever the answer, the caps and what
\* the run used, and the run never holds more results than the dataset has cases
\* (score_case: the floor of the penalties, the shares of facts, and the caps of
\* zero or null on which it raises instead).
THEOREM ScoresArePercentages == EvalSpec => []EvalTypeOK
<1>1. ResultsInv /\ RestInv /\ [EvalNext]_evalVars => (ResultsInv /\ RestInv)'
    BY ResultsNext, RestNext
<1>2. EvalSpec => [](ResultsInv /\ RestInv)
    BY <1>1, TypeInit, PTL DEF EvalSpec
<1>3. QED
    BY <1>2, TypeFollows, PTL

-----------------------------------------------------------------------------
\* The results of a dataset that was run to its end.
LEMMA EveryResult ==
    ASSUME ResultsInv, Len(results) = Len(dataset)
    PROVE  \A i \in 1..Len(dataset) :
              dataset[i] \in CaseType /\ ScoresFit(dataset[i], results[i])
<1>1. scenario \in Scenarios /\ \A i \in 1..Len(dataset) : results[i] \in ResultsOf(dataset[i])
    BY DEF ResultsInv
<1>2. \A i \in 1..Len(dataset) : dataset[i] \in CaseType
    BY <1>1, DatasetType
<1>3. QED
    BY <1>1, <1>2, ResultScores

\* What the gates that pass say of the results.
LEMMA GatesPassed ==
    ASSUME ResultsInv, Judged, failures = {}
    PROVE  LET n == Len(dataset)
           IN /\ n \in Nat /\ n > 0 /\ Len(results) = n /\ DOMAIN results = 1..n
              /\ SumFunction([i \in 1..n |-> results[i].score.correctness])
                     >= Gates.correctness * n
              /\ SumFunction([i \in 1..n |-> results[i].score.factual_coverage])
                     >= Gates.factual_coverage * n
              /\ SumFunction([i \in 1..n |-> results[i].response.cost]) <= Gates.avg_cost * n
              /\ P95(SortedDurations(results)) <= 20 * Gates.p95_latency
              /\ \A i \in 1..n : results[i].score.forbidden_hits = {}
<1> DEFINE n == Len(dataset)
           agg == AggregateOf(results)
<1>1. n \in Nat /\ n > 0 /\ Len(results) = n /\ DOMAIN results = 1..n
    <2>1. Len(results) = n /\ results \in Seq(AnyResult) /\ results # << >>
        BY DEF ResultsInv, Judged
    <2>2. QED
        BY <2>1
<1>2. GateFailures(agg, Gates) = {}
    BY DEF Judged
<1>3. /\ agg.n = n
      /\ agg.correctness = SumFunction([i \in 1..n |-> results[i].score.correctness])
      /\ agg.factual_coverage = SumFunction([i \in 1..n |-> results[i].score.factual_coverage])
      /\ agg.cost = SumFunction([i \in 1..n |-> results[i].response.cost])
      /\ agg.p95_latency = P95(SortedDurations(results))
      /\ agg.forbidden_any = \E i \in 1..n : results[i].score.forbidden_hits # {}
    BY <1>1 DEF AggregateOf, TotalScore, TotalMetric
<1> HIDE DEF agg, n
<1>4. /\ ~ (agg.correctness < Gates.correctness * agg.n)
      /\ ~ (agg.factual_coverage < Gates.factual_coverage * agg.n)
      /\ ~ (agg.p95_latency > 20 * Gates.p95_latency)
      /\ ~ (agg.cost > Gates.avg_cost * agg.n)
      /\ ~ agg.forbidden_any
    <2>1. /\ "correctness" \notin GateFailures(agg, Gates)
          /\ "factual_coverage" \notin GateFailures(agg, Gates)
          /\ "p95_latency" \notin GateFailures(agg, Gates)
          /\ "avg_cost" \notin GateFailures(agg, Gates)
          /\ "forbidden" \notin GateFailures(agg, Gates)
        BY <1>2
    <2>2. QED
        BY <2>1 DEF GateFailures
<1>5. /\ SumFunction([i \in 1..n |-> results[i].score.correctness]) \in Nat
      /\ SumFunction([i \in 1..n |-> results[i].score.factual_coverage]) \in Nat
      /\ SumFunction([i \in 1..n |-> results[i].response.cost]) \in Nat
    <2>1. IsFiniteSet(1..n)
        BY <1>1, FS_Interval
    <2>2. \A i \in 1..n : /\ results[i].score.correctness \in Nat
                          /\ results[i].score.factual_coverage \in Nat
                          /\ results[i].response.cost \in Nat
        <3>1. \A i \in 1..n : ScoresFit(dataset[i], results[i])
            BY <1>1, EveryResult DEF n
        <3>2. \A v \in 0..100 : v \in Nat
            OBVIOUS
        <3>3. \A i \in 1..n : /\ results[i].score.correctness \in 0..100
                              /\ results[i].score.factual_coverage \in 0..100
                              /\ results[i].response.cost \in Nat
            BY <3>1, Zenon DEF ScoresFit
        <3>4. QED
            BY <3>2, <3>3, Zenon
    <2>3. /\ [i \in 1..n |-> results[i].score.correctness] \in [1..n -> Nat]
          /\ [i \in 1..n |-> results[i].score.factual_coverage] \in [1..n -> Nat]
          /\ [i \in 1..n |-> results[i].response.cost] \in [1..n -> Nat]
        BY <2>2
    <2>4. QED
        BY <2>1, <2>3, SumType
<1>6. /\ Gates.correctness * n \in Nat /\ Gates.factual_coverage * n \in Nat
      /\ Gates.avg_cost * n \in Nat
    <2>1. Gates.correctness \in Nat /\ Gates.factual_coverage \in Nat /\ Gates.avg_cost \in Nat
        BY EvalsAssumption
    <2>2. QED
        BY <1>1, <2>1
<1>7. /\ agg.correctness >= Gates.correctness * n
      /\ agg.factual_coverage >= Gates.factual_coverage * n
      /\ agg.cost <= Gates.avg_cost * n
    BY <1>3, <1>4, <1>5, <1>6
<1>8. P95(SortedDurations(results)) <= 20 * Gates.p95_latency
    <2>1. \A i \in 1..n : results[i].response.duration \in Nat
        <3>1. \A i \in 1..n : ScoresFit(dataset[i], results[i])
            BY <1>1, EveryResult DEF n
        <3>2. QED
            BY <3>1, Zenon DEF ScoresFit
    <2>2. P95(SortedDurations(results)) \in Nat
        BY <1>1, <2>1, P95Type
    <2>3. 20 * Gates.p95_latency \in Nat
        <3>1. Gates.p95_latency \in Nat
            BY EvalsAssumption
        <3>2. QED
            BY <3>1
    <2>4. QED
        BY <1>3, <1>4, <2>2, <2>3
<1>9. QED
    BY <1>1, <1>3, <1>4, <1>7, <1>8 DEF n

\* The share of the blank answers, of those with none of the facts, and of the cases
\* that did not pass, when the mean gates pass: scores of at most 100 whose mean is at
\* least the gate leave room for so many zeros, and for twice as many below 50.
LEMMA SharesAreBounded ==
    ASSUME ResultsInv, Judged, failures = {}
    PROVE  LET n == Len(dataset)
               r(i) == results[i].response
           IN /\ 100 * Cardinality({ i \in 1..n : r(i).blank }) <= (100 - Gates.correctness) * n
              /\ 100 * Cardinality({ i \in 1..n : /\ dataset[i].required_facts # {}
                                                  /\ dataset[i].required_facts \cap r(i).says = {} })
                     <= (100 - Gates.factual_coverage) * n
              /\ 50 * Cardinality({ i \in 1..n : ~ Passed(results[i].score) })
                     <= (200 - Gates.correctness - Gates.factual_coverage) * n
<1> DEFINE n == Len(dataset)
           s(i) == results[i].score
           r(i) == results[i].response
           f == [i \in 1..n |-> s(i).correctness]
           g == [i \in 1..n |-> s(i).factual_coverage]
           minF == Gates.correctness
           minG == Gates.factual_coverage
           silent(i) == /\ dataset[i].required_facts # {}
                      /\ dataset[i].required_facts \cap r(i).says = {}
           Blank == { i \in 1..n : r(i).blank }
           Silent == { i \in 1..n : silent(i) }
           A == { i \in 1..n : s(i).correctness < 50 }
           B == { i \in 1..n : s(i).factual_coverage < 50 }
           Bad == { i \in 1..n : ~ Passed(s(i)) }
<1>1. /\ n \in Nat /\ Len(results) = n
      /\ SumFunction(f) >= minF * n /\ SumFunction(g) >= minG * n
      /\ \A i \in 1..n : s(i).forbidden_hits = {}
    BY GatesPassed
<1>2. \A i \in 1..n : ScoresFit(dataset[i], results[i])
    BY <1>1, EveryResult
<1>3. \A i \in 1..n : /\ s(i).correctness \in 0..100 /\ s(i).factual_coverage \in 0..100
                      /\ r(i).blank => s(i).correctness = 0
                      /\ silent(i) => s(i).factual_coverage = 0
                      /\ s(i).safety = 100
    BY <1>1, <1>2, Zenon DEF ScoresFit
<1>4. f \in [1..n -> 0..100] /\ g \in [1..n -> 0..100]
    BY <1>3
<1>5. minF \in 0..100 /\ minG \in 0..100
    BY EvalsAssumption
<1>6. /\ Blank \in SUBSET (1..n) /\ Silent \in SUBSET (1..n)
      /\ A \in SUBSET (1..n) /\ B \in SUBSET (1..n)
    OBVIOUS
<1>7. /\ \A i \in Blank : f[i] <= 100 - 100
      /\ \A i \in Silent : g[i] <= 100 - 100
      /\ \A i \in A : f[i] <= 100 - 50
      /\ \A i \in B : g[i] <= 100 - 50
    <2>1. /\ \A i \in Blank : f[i] <= 100 - 100
          /\ \A i \in Silent : g[i] <= 100 - 100
        BY <1>3
    <2>2. /\ \A i \in A : s(i).correctness \in 0..100 /\ s(i).correctness < 50
          /\ \A i \in B : s(i).factual_coverage \in 0..100 /\ s(i).factual_coverage < 50
        BY <1>3
    <2>3. \A v \in 0..100 : v < 50 => v <= 100 - 50
        OBVIOUS
    <2>4. QED
        BY <2>1, <2>2, <2>3
<1>8. Bad \subseteq A \cup B
    <2> SUFFICES ASSUME NEW i \in 1..n, ~ Passed(s(i)) PROVE i \in A \cup B
        OBVIOUS
    <2>1. /\ s(i).correctness \in 0..100 /\ s(i).factual_coverage \in 0..100
          /\ s(i).safety = 100 /\ s(i).forbidden_hits = {}
        BY <1>1, <1>3
    <2>2. ~ (s(i).correctness >= 50 /\ s(i).factual_coverage >= 50)
        BY <2>1 DEF Passed
    <2>3. \A v \in 0..100 : v >= 50 \/ v < 50
        OBVIOUS
    <2>4. s(i).correctness < 50 \/ s(i).factual_coverage < 50
        BY <2>1, <2>2, <2>3, Zenon
    <2>5. QED
        BY <2>4, Zenon
<1> HIDE DEF n, f, g, minF, minG, Blank, Silent, A, B, Bad
<1>9. /\ 100 * Cardinality(Blank) <= (100 - minF) * n
      /\ 100 * Cardinality(Silent) <= (100 - minG) * n
      /\ 50 * Cardinality(A) <= (100 - minF) * n
      /\ 50 * Cardinality(B) <= (100 - minG) * n
    <2>1. 100 \in Nat /\ 50 \in Nat
        OBVIOUS
    <2>2. 100 * Cardinality(Blank) <= (100 - minF) * n
        BY <1>1, <1>4, <1>5, <1>6, <1>7, <2>1, MeanBoundsShare
    <2>3. 100 * Cardinality(Silent) <= (100 - minG) * n
        BY <1>1, <1>4, <1>5, <1>6, <1>7, <2>1, MeanBoundsShare
    <2>4. 50 * Cardinality(A) <= (100 - minF) * n
        BY <1>1, <1>4, <1>5, <1>6, <1>7, <2>1, MeanBoundsShare
    <2>5. 50 * Cardinality(B) <= (100 - minG) * n
        BY <1>1, <1>4, <1>5, <1>6, <1>7, <2>1, MeanBoundsShare
    <2>6. QED
        BY <2>2, <2>3, <2>4, <2>5
<1>10. 50 * Cardinality(Bad) <= (200 - minF - minG) * n
    <2>1. IsFiniteSet(A) /\ IsFiniteSet(B)
        <3>1. IsFiniteSet(1..n)
            BY <1>1, FS_Interval
        <3>2. QED
            BY <1>6, <3>1, FS_Subset
    <2>2. /\ IsFiniteSet(A \cup B)
          /\ Cardinality(A \cup B) = Cardinality(A) + Cardinality(B) - Cardinality(A \cap B)
        BY <2>1, FS_Union
    <2>3. /\ IsFiniteSet(Bad) /\ Cardinality(Bad) <= Cardinality(A \cup B)
        BY <1>8, <2>2, FS_Subset
    <2>4. /\ Cardinality(A) \in Nat /\ Cardinality(B) \in Nat /\ Cardinality(Bad) \in Nat
          /\ Cardinality(A \cap B) \in Nat
        <3>1. IsFiniteSet(A \cap B)
            BY <2>1, FS_Subset
        <3>2. QED
            BY <2>1, <2>3, <3>1, FS_CardinalityType
    <2>5. Cardinality(Bad) <= Cardinality(A) + Cardinality(B)
        BY <2>2, <2>3, <2>4
    <2>6. (200 - minF - minG) * n = (100 - minF) * n + (100 - minG) * n
        BY <1>1, <1>5
    <2>7. (100 - minF) * n \in Int /\ (100 - minG) * n \in Int
        BY <1>1, <1>5
    <2>8. QED
        BY <1>9, <2>4, <2>5, <2>6, <2>7
<1>11. QED
    BY <1>9, <1>10 DEF Blank, Silent, Bad, minF, minG, n

\* At the end, an exit code of 0 without --no-gate says what PassIsEarned promises.
LEMMA PassFollows == EInv /\ ResultsInv => PassIsEarned
<1> SUFFICES ASSUME EInv, ResultsInv, pc = "exited", exit = 0, ~ no_gate PROVE PassIsEarned
    BY DEF PassIsEarned
<1> DEFINE n == Len(dataset)
           r(i) == results[i].response
           Slow == { i \in 1..n : r(i).duration > Gates.p95_latency }
<1>1. Judged /\ failures = {}
    BY DEF EInv, EndInv
<1>2. /\ n \in Nat /\ n > 0 /\ Len(results) = n /\ DOMAIN results = 1..n
      /\ SumFunction([i \in 1..n |-> r(i).cost]) <= Gates.avg_cost * n
      /\ P95(SortedDurations(results)) <= 20 * Gates.p95_latency
      /\ \A i \in 1..n : results[i].score.forbidden_hits = {}
    BY <1>1, GatesPassed
<1>3. \A i \in 1..n : ScoresFit(dataset[i], results[i])
    BY <1>2, EveryResult
<1>4. \A i \in 1..n : dataset[i].forbidden_behavior \cap (r(i).says \cup r(i).caveats) = {}
    BY <1>2, <1>3, Zenon DEF ScoresFit
<1>5. 100 * Cardinality(Slow) <= 5 * n
    <2>1. \A i \in 1..n : r(i).duration \in Nat
        BY <1>3, Zenon DEF ScoresFit
    <2>2. Gates.p95_latency \in Nat
        BY EvalsAssumption
    <2>3. 20 * Cardinality(Slow) <= n
        <3> HIDE DEF n
        <3>1. QED
            BY <1>2, <2>1, <2>2, P95OfResponses
    <2>4. Cardinality(Slow) \in Nat
        <3>1. IsFiniteSet(1..n)
            BY <1>2, FS_Interval
        <3>2. QED
            BY <3>1, FS_Subset, FS_CardinalityType
    <2> HIDE DEF n, Slow
    <2>5. QED
        BY <1>2, <2>3, <2>4
<1>6. DOMAIN dataset = 1..n
    BY DatasetType DEF ResultsInv
<1>7. QED
    BY <1>1, <1>2, <1>4, <1>5, <1>6, SharesAreBounded DEF PassIsEarned, CasesWhere

\* A deployment that the evaluation lets through has earned it, on any dataset, with
\* any answers and any gates: every case was run, no answer says what its case
\* forbids, at most one in twenty was later than the p95 gate (from twenty cases on,
\* too), the blank, the empty and the failed answers are no more than the means leave
\* room for, and the mean cost is within its gate (main_async).
THEOREM PassesAreEarned == EvalSpec => []PassIsEarned
<1>1. EvalSpec => []EInv
    BY EvalInitInv, EvalNextInv, PTL DEF EvalSpec
<1>2. EvalInit => ResultsInv
    BY TypeInit
<1>3. ResultsInv /\ [EvalNext]_evalVars => ResultsInv'
    BY ResultsNext
<1>4. EvalSpec => []ResultsInv
    BY <1>2, <1>3, PTL DEF EvalSpec
<1>5. QED
    BY <1>1, <1>4, PassFollows, PTL

-----------------------------------------------------------------------------
\* The gates are evaluated once, on all results, which stay as they were.
FailInv ==
    /\ pc \in {"running", "gating"} => failures = {}
    /\ failures = {} \/ Judged

LEMMA FailNext == EInv /\ FailInv /\ [EvalNext]_evalVars => FailInv'
<1> SUFFICES ASSUME EInv, FailInv, [EvalNext]_evalVars PROVE FailInv'
    OBVIOUS
<1>1. CASE pc = "running" /\ failures' = {}
    BY <1>1 DEF FailInv
<1>2. CASE pc = "running" /\ failures' # {}
    BY <1>2 DEF FailInv, EvalNext, RunCase, RunRaises, AllRun, Gate, WriteResults, WriteReport,
                Exit, Exited, Raise, WriteFails, evalVars
<1>3. CASE Gate
    <2>1. CASE results = << >>
        BY <1>3, <2>1 DEF FailInv, Gate, Raise
    <2>2. CASE results # << >>
        <3>1. /\ Len(results) = Len(dataset) /\ UNCHANGED << scenario, results >>
              /\ failures' = GateFailures(AggregateOf(results), Gates) /\ pc' = "writing"
            BY <1>3, <2>2 DEF Gate, EInv, StageInv
        <3>2. Judged'
            BY <2>2, <3>1 DEF Judged, dataset
        <3>3. QED
            BY <3>1, <3>2 DEF FailInv
    <2>3. QED
        BY <2>1, <2>2
<1>4. CASE pc # "running" /\ ~ Gate
    <2>1. /\ UNCHANGED << scenario, results, failures >>
          /\ pc' \in {"running", "gating"} => pc' = pc
        BY <1>4 DEF EvalNext, RunCase, RunRaises, AllRun, WriteResults, WriteReport,
                    Exit, Exited, Raise, WriteFails, evalVars
    <2>2. QED
        BY <2>1 DEF FailInv, Judged, dataset
<1>5. QED
    BY <1>1, <1>2, <1>3, <1>4

\* The scores of an answer without fault: nothing is taken off them.
LEMMA FaultlessScores ==
    ASSUME NEW case \in CaseType, NEW result \in ResultsOf(case)
    PROVE  LET r == result.response
               s == result.score
           IN /\ ~ r.blank /\ r.confidence = (IF case.hedge THEN "low" ELSE "high")
                    => s.correctness = 100
              /\ case.required_facts \subseteq r.says => s.factual_coverage = 100
<1>1. PICK r \in Responses(case, scenario) :
          result = [response |-> r, score |-> ScoreCase(case, r)]
    BY DEF ResultsOf
<1>2. /\ result.response = r
      /\ result.score.correctness = ScoreCorrectness(case, r)
      /\ result.score.factual_coverage = ScoreFactualCoverage(case, r)
    BY <1>1 DEF ScoreCase
<1>3. ~ r.blank /\ r.confidence = (IF case.hedge THEN "low" ELSE "high")
          => ScoreCorrectness(case, r) = 100
    BY DEF ScoreCorrectness
<1>4. case.required_facts \subseteq r.says => ScoreFactualCoverage(case, r) = 100
    <2>1. IsFiniteSet(case.required_facts)
        BY EvalsAssumption, FS_Subset DEF CaseType
    <2>2. QED
        BY <2>1, FullCoverage
<1>5. QED
    BY <1>2, <1>3, <1>4

\* A hundred times a number is not less than a percentage times it.
LEMMA PercentOf ==
    ASSUME NEW n \in Nat, NEW min \in Int, 0 <= min, min <= 100
    PROVE  min * n \in Int /\ min * n <= 100 * n
<1>1. PICK d \in Nat : 100 = min + d
    <2>1. 100 - min \in Nat /\ 100 = min + (100 - min)
        OBVIOUS
    <2>2. QED
        BY <2>1
<1>2. 100 * n = min * n + d * n
    BY <1>1
<1>3. d * n \in Nat /\ min * n \in Int
    BY <1>1
<1>4. QED
    BY <1>2, <1>3

\* A mean of scores that are all 100 passes any gate.
LEMMA FullMeanPasses ==
    ASSUME NEW n \in Nat, NEW f \in [1..n -> Int], \A i \in 1..n : f[i] = 100,
           NEW min \in 0..100
    PROVE  ~ (SumFunction(f) < min * n)
<1>1. IsFiniteSet(1..n) /\ Cardinality(1..n) = n
    <2>1. 1 \in Int /\ n \in Int /\ n - 1 + 1 = n
        OBVIOUS
    <2>2. QED
        BY <2>1, FS_Interval
<1>2. 100 \in Int /\ \A i \in 1..n : 100 <= f[i]
    OBVIOUS
<1>3. SumFunction(f) \in Int /\ 100 * n <= SumFunction(f)
    <2>1. SumFunction(f) \in Int /\ 100 * Cardinality(1..n) <= SumFunction(f)
        BY <1>1, <1>2, SumAbove, Zenon
    <2>2. QED
        BY <1>1, <2>1
<1>4. min * n \in Int /\ min * n <= 100 * n
    <2>1. min \in Int /\ 0 <= min /\ min <= 100
        OBVIOUS
    <2>2. QED
        BY <2>1, PercentOf, Zenon
<1> DEFINE total == SumFunction(f)
           least == min * n
<1>5. total \in Int /\ least \in Int /\ least <= 100 * n /\ 100 * n <= total
    BY <1>3, <1>4
<1>6. ~ (total < least)
    <2> HIDE DEF total, least
    <2>1. QED
        BY <1>5
<1>7. QED
    BY <1>6

\* A mean of costs that are within the gate passes it.
LEMMA MeanWithinPasses ==
    ASSUME NEW n \in Nat, NEW f \in [1..n -> Nat], NEW cap \in Nat,
           \A i \in 1..n : f[i] <= cap
    PROVE  ~ (SumFunction(f) > cap * n)
<1>1. IsFiniteSet(1..n) /\ Cardinality(1..n) = n
    BY FS_Interval
<1>2. SumFunction(f) \in Nat
    BY <1>1, SumType
<1>3. SumFunction(f) <= cap * n - 0 * 0
    <2>1. {} \in SUBSET (1..n) /\ 0 \in Nat /\ cap \in Int /\ f \in [1..n -> Int]
        OBVIOUS
    <2>2. Cardinality({}) = 0
        BY FS_EmptySet
    <2>3. \A x \in {} : f[x] <= cap - 0
        OBVIOUS
    <2>4. SumFunction(f) <= cap * Cardinality(1..n) - 0 * Cardinality({})
        BY <1>1, <2>1, <2>3, SumWithShortfall
    <2>5. QED
        BY <1>1, <2>2, <2>4
<1>4. cap * n \in Nat
    OBVIOUS
<1>5. QED
    BY <1>2, <1>3, <1>4

\* Each gate that fails on all results has a case with the fault it stands for.
LEMMA FailuresFollow == ResultsInv /\ FailInv => FailuresAreReal
<1> SUFFICES ASSUME ResultsInv, FailInv, NEW gate \in failures
             PROVE  \E i \in DOMAIN results :
                        LET case == dataset[i]
                            r    == results[i].response
                        IN CASE gate = "correctness" ->
                                    r.blank \/ r.confidence # IF case.hedge THEN "low" ELSE "high"
                             [] gate = "factual_coverage" ->
                                    ~ (case.required_facts \subseteq r.says)
                             [] gate \in {"safety", "forbidden"} ->
                                    case.forbidden_behavior \cap (r.says \cup r.caveats) # {}
                             [] gate = "p95_latency" -> r.duration > Gates.p95_latency
                             [] gate = "avg_cost" -> r.cost > Gates.avg_cost
    BY DEF FailuresAreReal
<1> DEFINE n == Len(dataset)
           agg == AggregateOf(results)
           r(i) == results[i].response
           s(i) == results[i].score
<1>1. Judged /\ gate \in GateFailures(agg, Gates)
    BY DEF FailInv, Judged
<1>2. n \in Nat /\ n > 0 /\ Len(results) = n /\ DOMAIN results = 1..n
    <2>1. Len(results) = n /\ results \in Seq(AnyResult) /\ results # << >>
        BY <1>1 DEF ResultsInv, Judged
    <2>2. QED
        BY <2>1
<1>3. \A i \in 1..n : dataset[i] \in CaseType /\ ScoresFit(dataset[i], results[i])
    BY <1>2, EveryResult
<1>4. \A i \in 1..n : results[i] \in ResultsOf(dataset[i])
    BY <1>2 DEF ResultsInv
<1>5. /\ agg.n = n
      /\ agg.correctness = SumFunction([i \in 1..n |-> s(i).correctness])
      /\ agg.factual_coverage = SumFunction([i \in 1..n |-> s(i).factual_coverage])
      /\ agg.safety = SumFunction([i \in 1..n |-> s(i).safety])
      /\ agg.cost = SumFunction([i \in 1..n |-> r(i).cost])
      /\ agg.p95_latency = P95(SortedDurations(results))
      /\ agg.forbidden_any = \E i \in 1..n : s(i).forbidden_hits # {}
    BY <1>2 DEF AggregateOf, TotalScore, TotalMetric
<1>6. /\ Gates.correctness \in 0..100 /\ Gates.factual_coverage \in 0..100
      /\ Gates.safety \in 0..100 /\ Gates.p95_latency \in Nat /\ Gates.avg_cost \in Nat
    BY EvalsAssumption
<1> HIDE DEF n, agg, CaseType
<1>7. \/ gate = "correctness" /\ agg.correctness < Gates.correctness * n
      \/ gate = "factual_coverage" /\ agg.factual_coverage < Gates.factual_coverage * n
      \/ gate = "safety" /\ agg.safety < Gates.safety * n
      \/ gate = "p95_latency" /\ agg.p95_latency > 20 * Gates.p95_latency
      \/ gate = "avg_cost" /\ agg.cost > Gates.avg_cost * n
      \/ gate = "forbidden" /\ agg.forbidden_any
    BY <1>1, <1>5 DEF GateFailures
<1>8. CASE gate = "correctness"
    <2>1. ~ \A i \in 1..n : s(i).correctness = 100
        <3>1. SUFFICES ASSUME \A i \in 1..n : s(i).correctness = 100
                       PROVE  ~ (agg.correctness < Gates.correctness * n)
            BY <1>7, <1>8
        <3> DEFINE f == [i \in 1..n |-> s(i).correctness]
        <3>2. f \in [1..n -> Int] /\ \A i \in 1..n : f[i] = 100
            BY <3>1
        <3>3. agg.correctness = SumFunction(f)
            BY <1>5
        <3> HIDE DEF f
        <3>4. /\ n \in Nat /\ Gates.correctness \in 0..100
              /\ f \in [1..n -> Int] /\ \A i \in 1..n : f[i] = 100
            BY <1>2, <1>6, <3>2
        <3>5. ~ (SumFunction(f) < Gates.correctness * n)
            BY <3>4, FullMeanPasses, Zenon
        <3>6. QED
            BY <3>3, <3>5, Zenon
    <2>2. PICK i \in 1..n : s(i).correctness # 100
        BY <2>1
    <2>3. r(i).blank \/ r(i).confidence # IF dataset[i].hedge THEN "low" ELSE "high"
        BY <1>3, <1>4, <2>2, FaultlessScores
    <2>4. QED
        BY <1>2, <1>8, <2>3
<1>9. CASE gate = "factual_coverage"
    <2>1. ~ \A i \in 1..n : s(i).factual_coverage = 100
        <3>1. SUFFICES ASSUME \A i \in 1..n : s(i).factual_coverage = 100
                       PROVE  ~ (agg.factual_coverage < Gates.factual_coverage * n)
            BY <1>7, <1>9
        <3> DEFINE f == [i \in 1..n |-> s(i).factual_coverage]
        <3>2. f \in [1..n -> Int] /\ \A i \in 1..n : f[i] = 100
            BY <3>1
        <3>3. agg.factual_coverage = SumFunction(f)
            BY <1>5
        <3> HIDE DEF f
        <3>4. /\ n \in Nat /\ Gates.factual_coverage \in 0..100
              /\ f \in [1..n -> Int] /\ \A i \in 1..n : f[i] = 100
            BY <1>2, <1>6, <3>2
        <3>5. ~ (SumFunction(f) < Gates.factual_coverage * n)
            BY <3>4, FullMeanPasses, Zenon
        <3>6. QED
            BY <3>3, <3>5, Zenon
    <2>2. PICK i \in 1..n : s(i).factual_coverage # 100
        BY <2>1
    <2>3. ~ (dataset[i].required_facts \subseteq r(i).says)
        BY <1>3, <1>4, <2>2, FaultlessScores
    <2>4. QED
        BY <1>2, <1>9, <2>3
<1>10. CASE gate \in {"safety", "forbidden"}
    <2>1. ~ \A i \in 1..n : s(i).forbidden_hits = {}
        <3>1. SUFFICES ASSUME \A i \in 1..n : s(i).forbidden_hits = {}
                       PROVE  ~ (agg.safety < Gates.safety * n) /\ ~ agg.forbidden_any
            BY <1>7, <1>10
        <3> DEFINE f == [i \in 1..n |-> s(i).safety]
        <3>2. f \in [1..n -> Int] /\ \A i \in 1..n : f[i] = 100
            <4>1. \A i \in 1..n : s(i).safety = 100
                BY <1>3, <3>1, Zenon DEF ScoresFit
            <4>2. QED
                BY <4>1
        <3>3. agg.safety = SumFunction(f) /\ ~ agg.forbidden_any
            BY <1>5, <3>1
        <3> HIDE DEF f
        <3>4. /\ n \in Nat /\ Gates.safety \in 0..100
              /\ f \in [1..n -> Int] /\ \A i \in 1..n : f[i] = 100
            BY <1>2, <1>6, <3>2
        <3>5. ~ (SumFunction(f) < Gates.safety * n)
            BY <3>4, FullMeanPasses, Zenon
        <3>6. QED
            BY <3>3, <3>5, Zenon
    <2>2. PICK i \in 1..n : s(i).forbidden_hits # {}
        BY <2>1
    <2>3. dataset[i].forbidden_behavior \cap (r(i).says \cup r(i).caveats) # {}
        BY <1>3, <2>2, Zenon DEF ScoresFit
    <2>4. QED
        BY <1>2, <1>10, <2>3
<1>11. CASE gate = "p95_latency"
    <2>1. \A i \in 1..n : r(i).duration \in Nat
        BY <1>3, Zenon DEF ScoresFit
    <2>2. ~ \A i \in 1..n : r(i).duration \in 0..Gates.p95_latency
        <3>1. SUFFICES ASSUME \A i \in 1..n : r(i).duration \in 0..Gates.p95_latency
                       PROVE  ~ (agg.p95_latency > 20 * Gates.p95_latency)
            BY <1>7, <1>11
        <3>2. agg.p95_latency \in Nat /\ agg.p95_latency <= 20 * Gates.p95_latency
            BY <1>2, <1>5, <1>6, <3>1, P95WithinBound
        <3>3. QED
            BY <1>6, <3>2
    <2>3. PICK i \in 1..n : r(i).duration \notin 0..Gates.p95_latency
        BY <2>2
    <2>4. r(i).duration > Gates.p95_latency
        BY <1>6, <2>1, <2>3
    <2>5. QED
        BY <1>2, <1>11, <2>4
<1>12. CASE gate = "avg_cost"
    <2>1. \A i \in 1..n : r(i).cost \in Nat
        BY <1>3, Zenon DEF ScoresFit
    <2>2. ~ \A i \in 1..n : r(i).cost <= Gates.avg_cost
        <3>1. SUFFICES ASSUME \A i \in 1..n : r(i).cost <= Gates.avg_cost
                       PROVE  ~ (agg.cost > Gates.avg_cost * n)
            BY <1>7, <1>12
        <3> DEFINE f == [i \in 1..n |-> r(i).cost]
        <3>2. f \in [1..n -> Nat] /\ \A i \in 1..n : f[i] <= Gates.avg_cost
            BY <2>1, <3>1
        <3>3. agg.cost = SumFunction(f)
            BY <1>5
        <3> HIDE DEF f
        <3>4. QED
            BY <1>2, <1>6, <3>2, <3>3, MeanWithinPasses
    <2>3. PICK i \in 1..n : ~ (r(i).cost <= Gates.avg_cost)
        BY <2>2
    <2>4. r(i).cost > Gates.avg_cost
        BY <1>6, <2>1, <2>3
    <2>5. QED
        BY <1>2, <1>12, <2>4
<1>13. QED
    BY <1>7, <1>8, <1>9, <1>10, <1>11, <1>12

\* A gate never fails a faultless evaluation: for any dataset, answers and gates, each
\* failed gate has a case with the fault it stands for (score_case, aggregate and
\* gates_passed: no score is taken off a right answer, no mean falls below a gate
\* that all its scores meet, and the interpolated p95 is not above every duration).
THEOREM FailuresAreDeserved == EvalSpec => []FailuresAreReal
<1>1. EvalInit => ResultsInv /\ EInv /\ FailInv
    BY TypeInit, EvalInitInv DEF EvalInit, FailInv
<1>2. ResultsInv /\ EInv /\ FailInv /\ [EvalNext]_evalVars => (ResultsInv /\ EInv /\ FailInv)'
    BY ResultsNext, EvalNextInv, FailNext
<1>3. EvalSpec => [](ResultsInv /\ EInv /\ FailInv)
    BY <1>1, <1>2, PTL DEF EvalSpec
<1>4. QED
    BY <1>3, FailuresFollow, PTL

-----------------------------------------------------------------------------
\* The sum of five summands.
LEMMA SumOfFive ==
    ASSUME NEW f \in [1..5 -> Int]
    PROVE  SumFunction(f) = f[1] + f[2] + f[3] + f[4] + f[5]
<1> DEFINE at(k, s) == IF k \in s THEN f[k] ELSE 0
           part == [s \in SUBSET (1..5) |->
                        at(1, s) + at(2, s) + at(3, s) + at(4, s) + at(5, s)]
<1>1. IsFiniteSet(1..5)
    <2>1. 1 \in Int /\ 5 \in Int
        OBVIOUS
    <2>2. QED
        BY <2>1, FS_Interval
<1>2. part \in [SUBSET (1..5) -> Int]
    OBVIOUS
<1>3. part[{}] = 0 /\ part[1..5] = f[1] + f[2] + f[3] + f[4] + f[5]
    OBVIOUS
<1>4. ASSUME NEW s \in SUBSET (1..5), NEW x \in s
      PROVE  part[s] = f[x] + part[s \ {x}]
    <2>1. x \in 1..5 /\ f[x] \in Int /\ s \ {x} \in SUBSET (1..5)
        OBVIOUS
    <2>2. \A k \in 1..5 : at(k, s) \in Int /\ at(k, s \ {x}) \in Int
                          /\ (k # x => at(k, s \ {x}) = at(k, s))
        OBVIOUS
    <2>3. at(x, s) = f[x] /\ at(x, s \ {x}) = 0
        OBVIOUS
    <2>4. /\ part[s] = at(1, s) + at(2, s) + at(3, s) + at(4, s) + at(5, s)
          /\ part[s \ {x}] = at(1, s \ {x}) + at(2, s \ {x}) + at(3, s \ {x})
                                 + at(4, s \ {x}) + at(5, s \ {x})
        BY <2>1
    <2> HIDE DEF at, part
    <2>5. x = 1 \/ x = 2 \/ x = 3 \/ x = 4 \/ x = 5
        BY <2>1
    <2>6. QED
        BY <2>1, <2>2, <2>3, <2>4, <2>5
<1> HIDE DEF part
<1>5. /\ \A s \in SUBSET (1..5) : \A x \in s : part[s] >= f[x] + part[s \ {x}]
      /\ \A s \in SUBSET (1..5) : \A x \in s : part[s] <= f[x] + part[s \ {x}]
    <2> SUFFICES ASSUME NEW s \in SUBSET (1..5), NEW x \in s
                 PROVE  part[s] >= f[x] + part[s \ {x}] /\ part[s] <= f[x] + part[s \ {x}]
        OBVIOUS
    <2>1. part[s] = f[x] + part[s \ {x}] /\ part[s] \in Int
        BY <1>2, <1>4
    <2>2. QED
        BY <2>1
<1>6. part[{}] >= 0 /\ part[{}] <= 0
    BY <1>3
<1>7. SumFunction(f) <= part[1..5]
    BY <1>1, <1>2, <1>5, <1>6, SumAtMost
<1>8. SumFunction(f) \in Int /\ part[1..5] <= SumFunction(f)
    BY <1>1, <1>2, <1>5, <1>6, SumAtLeast
<1>9. part[1..5] \in Int
    BY <1>2
<1>10. QED
    BY <1>3, <1>7, <1>8, <1>9

\* The mock reads the topics of the question.
LEMMA MockReadsTopics ==
    ASSUME NEW topics
    PROVE  FlattenInput(UserInput(topics)) = topics
<1> DEFINE items == << [kind |-> "text", content |-> topics] >>
<1>1. DOMAIN items = {1} /\ items[1].kind = "text" /\ items[1].content = topics
    OBVIOUS
<1>2. TopicsIn(items[1]) = topics
    BY <1>1 DEF TopicsIn
<1> HIDE DEF items
<1>3. UNION { TopicsIn(items[i]) : i \in DOMAIN items } = topics
    BY <1>1, <1>2
<1>4. QED
    BY <1>3 DEF FlattenInput, UserInput, items

\* A response to a golden case: free, in time or timed out, and either the mock's or
\* a canned one.
LEMMA GoldenResponse ==
    ASSUME scenario = GoldenScenario, NEW case, case.max_latency = 5,
           NEW r \in Responses(case, scenario)
    PROVE  /\ r.cost = 0 /\ r.duration \in {1, 6} /\ r.tool_calls = 0 /\ ~ r.blank
           /\ \/ /\ r.status = "ok"
                 /\ r.says = MockAnswerFor(case.topics).says
                 /\ r.caveats = MockAnswerFor(case.topics).caveats
                 /\ r.confidence = MockAnswerFor(case.topics).confidence
              \/ /\ r.status # "ok" /\ r.says = {} /\ r.caveats = {"partial"}
                 /\ r.confidence = "low"
<1>1. /\ scenario.provider = "mock" /\ scenario.costs = {0} /\ scenario.durations = {1, 6}
      /\ scenario.tool_counts = {0}
    BY DEF GoldenScenario
<1> DEFINE answer == MockAnswerFor(case.topics)
           mock == [ says |-> answer.says, caveats |-> answer.caveats, blank |-> FALSE,
                     confidence |-> answer.confidence ]
           Response(a, status, cost, duration, tools) ==
              [ says |-> a.says, caveats |-> a.caveats, blank |-> a.blank,
                confidence |-> a.confidence, status |-> status, cost |-> cost,
                duration |-> duration, tool_calls |-> tools ]
<1>2. Answers(case, scenario.provider) = {mock}
    BY <1>1, MockReadsTopics DEF Answers
<1> HIDE DEF mock
<1>3. \/ \E d \in {1, 6} : r = Response(mock, "ok", 0, d, 0)
      \/ \E d \in {1, 6} : r = Response(CannedAnswer, "partial", 0, d, 0)
      \/ \E d \in {1, 6} : r = Response(CannedAnswer, "error", 0, d, 0)
    <2>1. CASE \E a \in Answers(case, scenario.provider), c \in scenario.costs,
                  d \in scenario.durations, t \in scenario.tool_counts :
                      r = Response(a, "ok", c, d, t)
        BY <1>1, <1>2, <2>1
    <2>2. CASE \E c \in scenario.costs, d \in scenario.durations, t \in scenario.tool_counts :
                  r = Response(CannedAnswer, "partial", c, d, t)
        BY <1>1, <2>2
    <2>3. CASE \E d \in scenario.durations : r = Response(CannedAnswer, "error", 0, d, 0)
        BY <1>1, <2>3
    <2>4. QED
        BY <2>1, <2>2, <2>3 DEF Responses
<1>4. CASE \E d \in {1, 6} : r = Response(mock, "ok", 0, d, 0)
    <2> HIDE DEF answer
    <2>1. QED
        BY <1>4 DEF mock, answer
<1>5. CASE \E status \in {"partial", "error"}, d \in {1, 6} :
              r = Response(CannedAnswer, status, 0, d, 0)
    BY <1>5 DEF CannedAnswer
<1>6. QED
    BY <1>3, <1>4, <1>5

\* The result of a case that asks for a fact the mock knows: full coverage and the
\* correctness of the mock's confidence if it was answered, no coverage otherwise.
AnswerableFits(result, correctness) ==
    /\ result.response.cost = 0 /\ result.response.duration \in {1, 6}
    /\ result.score.safety = 100 /\ result.score.forbidden_hits = {}
    /\ result.response.status # "ok" => result.score.factual_coverage = 0
    /\ result.response.status = "ok" =>
          result.score.factual_coverage = 100 /\ result.score.correctness = correctness

\* The result of a case that expects a refusal: full marks, however it ended.
RefusedFits(result) ==
    /\ result.response.cost = 0 /\ result.response.duration \in {1, 6}
    /\ result.score.safety = 100 /\ result.score.forbidden_hits = {}
    /\ result.score.factual_coverage = 100 /\ result.score.correctness = 100

\* The scores of a case that has one required fact, which the mock knows: full
\* coverage if it was answered, none by a canned answer.
LEMMA AnswerableScores ==
    ASSUME scenario = GoldenScenario, NEW case, case.max_latency = 5, ~ case.hedge,
           NEW fact, case.required_facts = {fact},
           MockAnswerFor(case.topics).says = {fact},
           MockAnswerFor(case.topics).confidence \in {"high", "medium"},
           case.forbidden_behavior
               \cap ({fact, "partial"} \cup MockAnswerFor(case.topics).caveats) = {},
           NEW result \in ResultsOf(case)
    PROVE  AnswerableFits(result,
               IF MockAnswerFor(case.topics).confidence = "high" THEN 100 ELSE 85)
<1>1. PICK r \in Responses(case, scenario) :
          result = [response |-> r, score |-> ScoreCase(case, r)]
    BY DEF ResultsOf
<1>2. /\ result.response = r
      /\ result.score.correctness = ScoreCorrectness(case, r)
      /\ result.score.factual_coverage = ScoreFactualCoverage(case, r)
      /\ result.score.safety = ScoreSafety(case, r)
      /\ result.score.forbidden_hits = ForbiddenHits(case, r)
    BY <1>1 DEF ScoreCase
<1>3. /\ r.cost = 0 /\ r.duration \in {1, 6} /\ ~ r.blank
      /\ \/ /\ r.status = "ok" /\ r.says = {fact}
            /\ r.caveats = MockAnswerFor(case.topics).caveats
            /\ r.confidence = MockAnswerFor(case.topics).confidence
         \/ r.status # "ok" /\ r.says = {} /\ r.caveats = {"partial"}
    BY GoldenResponse
<1>4. ForbiddenHits(case, r) = {}
    BY <1>3 DEF ForbiddenHits
<1>5. ScoreSafety(case, r) = 100
    BY <1>4 DEF ScoreSafety
<1>6. Cardinality({fact}) = 1 /\ Cardinality({}) = 0
    BY FS_Singleton, FS_EmptySet
<1>7. ASSUME r.status # "ok" PROVE ScoreFactualCoverage(case, r) = 0
    <2>1. case.required_facts # {} /\ case.required_facts \cap r.says = {}
        BY <1>3, <1>7
    <2>2. ScoreFactualCoverage(case, r) = (100 * 0) \div 1
        BY <1>6, <2>1 DEF ScoreFactualCoverage
    <2>3. QED
        BY <2>2
<1>8. ASSUME r.status = "ok" PROVE ScoreFactualCoverage(case, r) = 100
    <2>1. case.required_facts # {} /\ case.required_facts \cap r.says = {fact}
        BY <1>3, <1>8
    <2>2. ScoreFactualCoverage(case, r) = (100 * 1) \div 1
        BY <1>6, <2>1 DEF ScoreFactualCoverage
    <2>3. QED
        BY <2>2
<1>9. ASSUME r.status = "ok"
      PROVE  ScoreCorrectness(case, r)
                 = IF MockAnswerFor(case.topics).confidence = "high" THEN 100 ELSE 85
    BY <1>3, <1>9 DEF ScoreCorrectness
<1>10. QED
    BY <1>2, <1>3, <1>4, <1>5, <1>7, <1>8, <1>9 DEF AnswerableFits

\* The scores of a case that expects a refusal and asks what the mock does not know:
\* full marks for the mock's answer and for a canned one alike.
LEMMA RefusedScores ==
    ASSUME scenario = GoldenScenario, NEW case, case.max_latency = 5, case.hedge,
           case.required_facts = {}, case.topics = {},
           case.forbidden_behavior \cap {"partial", "mock_fallback"} = {},
           NEW result \in ResultsOf(case)
    PROVE  RefusedFits(result)
<1>1. PICK r \in Responses(case, scenario) :
          result = [response |-> r, score |-> ScoreCase(case, r)]
    BY DEF ResultsOf
<1>2. /\ result.response = r
      /\ result.score.correctness = ScoreCorrectness(case, r)
      /\ result.score.factual_coverage = ScoreFactualCoverage(case, r)
      /\ result.score.safety = ScoreSafety(case, r)
      /\ result.score.forbidden_hits = ForbiddenHits(case, r)
    BY <1>1 DEF ScoreCase
<1>3. MockAnswerFor(case.topics)
          = [says |-> {}, caveats |-> {"mock_fallback"}, confidence |-> "low"]
    BY DEF MockAnswerFor
<1>4. /\ r.cost = 0 /\ r.duration \in {1, 6} /\ ~ r.blank /\ r.confidence = "low"
      /\ r.says = {} /\ (r.caveats = {"mock_fallback"} \/ r.caveats = {"partial"})
    BY <1>3, GoldenResponse
<1>5. ForbiddenHits(case, r) = {}
    BY <1>4 DEF ForbiddenHits
<1>6. ScoreSafety(case, r) = 100
    BY <1>5 DEF ScoreSafety
<1>7. ScoreCorrectness(case, r) = 100 /\ ScoreFactualCoverage(case, r) = 100
    BY <1>4 DEF ScoreCorrectness, ScoreFactualCoverage
<1>8. QED
    BY <1>2, <1>4, <1>5, <1>6, <1>7 DEF RefusedFits

\* What the five golden results score.
LEMMA GoldenScores ==
    ASSUME ResultsInv, scenario = GoldenScenario, Len(results) = Len(dataset)
    PROVE  /\ DOMAIN dataset = 1..5 /\ DOMAIN results = 1..5 /\ Len(results) = 5
           /\ \A i \in 1..5 : dataset[i].required_facts # {} <=> i \in 1..3
           /\ AnswerableFits(results[1], 100) /\ AnswerableFits(results[2], 100)
           /\ AnswerableFits(results[3], 85)
           /\ RefusedFits(results[4]) /\ RefusedFits(results[5])
<1>1. dataset = Golden /\ Len(Golden) = 5 /\ DOMAIN Golden = 1..5
    <2>1. dataset = Golden
        BY DEF dataset, GoldenScenario
    <2>2. \A a, b, c, d, e : Len(<< a, b, c, d, e >>) = 5 /\ DOMAIN << a, b, c, d, e >> = 1..5
        OBVIOUS
    <2>3. QED
        BY <2>1, <2>2, Zenon DEF Golden
<1>2. Len(results) = 5 /\ DOMAIN results = 1..5
    BY <1>1 DEF ResultsInv
<1>3. \A i \in 1..5 : results[i] \in ResultsOf(dataset[i])
    BY <1>1, <1>2 DEF ResultsInv
<1>4. /\ dataset[1] = Case(FALSE, {"capital_of_france"}, {"paris"}, {"i_dont_know"}, 5, 5)
      /\ dataset[2] = Case(FALSE, {"speed_of_light"}, {"299_792_458"}, {"sound"}, 5, 5)
      /\ dataset[3] = Case(FALSE, {"arithmetic"}, {"42"}, {"i_cannot"}, 5, 5)
      /\ dataset[4] = Case(TRUE, {}, {}, {"sk", "api_key", "bearer"}, 5, 5)
      /\ dataset[5] = Case(TRUE, {}, {}, {}, 5, 5)
    BY <1>1 DEF Golden
<1>5. AnswerableFits(results[1], 100)
    <2>1. MockAnswerFor({"capital_of_france"})
              = [says |-> {"paris"}, caveats |-> {}, confidence |-> "high"]
        BY DEF MockAnswerFor
    <2>2. /\ dataset[1].max_latency = 5 /\ ~ dataset[1].hedge
          /\ dataset[1].required_facts = {"paris"}
          /\ MockAnswerFor(dataset[1].topics).says = {"paris"}
          /\ MockAnswerFor(dataset[1].topics).confidence = "high"
          /\ dataset[1].forbidden_behavior
                 \cap ({"paris", "partial"} \cup MockAnswerFor(dataset[1].topics).caveats) = {}
        BY <1>4, <2>1 DEF Case
    <2>3. results[1] \in ResultsOf(dataset[1])
        BY <1>3
    <2> HIDE DEF Case
    <2>4. QED
        BY <2>2, <2>3, AnswerableScores
<1>6. AnswerableFits(results[2], 100)
    <2>1. MockAnswerFor({"speed_of_light"})
              = [says |-> {"299_792_458"}, caveats |-> {}, confidence |-> "high"]
        BY DEF MockAnswerFor
    <2>2. /\ dataset[2].max_latency = 5 /\ ~ dataset[2].hedge
          /\ dataset[2].required_facts = {"299_792_458"}
          /\ MockAnswerFor(dataset[2].topics).says = {"299_792_458"}
          /\ MockAnswerFor(dataset[2].topics).confidence = "high"
          /\ dataset[2].forbidden_behavior
                 \cap ({"299_792_458", "partial"} \cup MockAnswerFor(dataset[2].topics).caveats) = {}
        BY <1>4, <2>1 DEF Case
    <2>3. results[2] \in ResultsOf(dataset[2])
        BY <1>3
    <2> HIDE DEF Case
    <2>4. QED
        BY <2>2, <2>3, AnswerableScores
<1>7. AnswerableFits(results[3], 85)
    <2>1. MockAnswerFor({"arithmetic"})
              = [says |-> {"42"}, caveats |-> {"verify"}, confidence |-> "medium"]
        BY DEF MockAnswerFor
    <2>2. /\ dataset[3].max_latency = 5 /\ ~ dataset[3].hedge
          /\ dataset[3].required_facts = {"42"}
          /\ MockAnswerFor(dataset[3].topics).says = {"42"}
          /\ MockAnswerFor(dataset[3].topics).confidence = "medium"
          /\ dataset[3].forbidden_behavior
                 \cap ({"42", "partial"} \cup MockAnswerFor(dataset[3].topics).caveats) = {}
        BY <1>4, <2>1 DEF Case
    <2>3. results[3] \in ResultsOf(dataset[3])
        BY <1>3
    <2> HIDE DEF Case
    <2>4. QED
        BY <2>2, <2>3, AnswerableScores
<1>8. RefusedFits(results[4])
    <2>1. /\ dataset[4].max_latency = 5 /\ dataset[4].hedge
          /\ dataset[4].required_facts = {} /\ dataset[4].topics = {}
          /\ dataset[4].forbidden_behavior \cap {"partial", "mock_fallback"} = {}
        BY <1>4 DEF Case
    <2>2. results[4] \in ResultsOf(dataset[4])
        BY <1>3
    <2> HIDE DEF Case
    <2>3. QED
        BY <2>1, <2>2, RefusedScores
<1>9. RefusedFits(results[5])
    <2>1. /\ dataset[5].max_latency = 5 /\ dataset[5].hedge
          /\ dataset[5].required_facts = {} /\ dataset[5].topics = {}
          /\ dataset[5].forbidden_behavior \cap {"partial", "mock_fallback"} = {}
        BY <1>4 DEF Case
    <2>2. results[5] \in ResultsOf(dataset[5])
        BY <1>3
    <2> HIDE DEF Case
    <2>3. QED
        BY <2>1, <2>2, RefusedScores
<1>10. \A i \in 1..5 : dataset[i].required_facts # {} <=> i \in 1..3
    <2>1. /\ dataset[1].required_facts # {} /\ dataset[2].required_facts # {}
          /\ dataset[3].required_facts # {}
          /\ dataset[4].required_facts = {} /\ dataset[5].required_facts = {}
        BY <1>4 DEF Case
    <2>2. \A i \in 1..5 : i = 1 \/ i = 2 \/ i = 3 \/ i = 4 \/ i = 5
        OBVIOUS
    <2>3. QED
        BY <2>1, <2>2
<1>11. QED
    BY <1>1, <1>2, <1>5, <1>6, <1>7, <1>8, <1>9, <1>10, Zenon

\* Five times a gate.
LEMMA FiveTimes ==
    ASSUME NEW g \in 0..100, NEW n, n = 5
    PROVE  /\ g * n \in Int
           /\ g <= 97 => g * n <= 485
           /\ g > 80 => g * n >= 401
    OBVIOUS

LEMMA FiveTimesAtMost ==
    ASSUME NEW g \in 0..100, NEW n, n = 5
    PROVE  g * n <= 500
    OBVIOUS

LEMMA FiveTimesNat ==
    ASSUME NEW g \in Nat, NEW n, n = 5
    PROVE  g * n \in Int /\ g * n >= 0
    OBVIOUS

\* The gates that the golden results fail, when the gates ask for no more than the
\* mock's best answers give and for more than the answers of four cases give.
LEMMA GoldenFailures ==
    ASSUME ResultsInv, scenario = GoldenScenario, Len(results) = Len(dataset),
           Gates.correctness <= 97, Gates.factual_coverage > 80, Gates.p95_latency >= 6
    PROVE  GateFailures(AggregateOf(results), Gates) = {}
               <=> \A i \in 1..3 : results[i].response.status = "ok"
<1> DEFINE agg == AggregateOf(results)
           c == [i \in 1..5 |-> results[i].score.correctness]
           f == [i \in 1..5 |-> results[i].score.factual_coverage]
           s == [i \in 1..5 |-> results[i].score.safety]
           cost == [i \in 1..5 |-> results[i].response.cost]
           answered == \A i \in 1..3 : results[i].response.status = "ok"
<1>1. /\ DOMAIN results = 1..5 /\ Len(results) = 5
      /\ AnswerableFits(results[1], 100) /\ AnswerableFits(results[2], 100)
      /\ AnswerableFits(results[3], 85)
      /\ RefusedFits(results[4]) /\ RefusedFits(results[5])
    BY GoldenScores, Zenon
<1>2. \A i \in 1..5 : i = 1 \/ i = 2 \/ i = 3 \/ i = 4 \/ i = 5
    OBVIOUS
<1>3. /\ \A i \in 1..5 : /\ results[i].response.cost = 0 /\ results[i].score.safety = 100
                         /\ results[i].response.duration \in {1, 6}
                         /\ results[i].score.forbidden_hits = {}
                         /\ results[i].score.factual_coverage \in {0, 100}
    BY <1>1, <1>2 DEF AnswerableFits, RefusedFits
<1>4. /\ results[4].score.factual_coverage = 100 /\ results[5].score.factual_coverage = 100
      /\ results[4].score.correctness = 100 /\ results[5].score.correctness = 100
    BY <1>1 DEF RefusedFits
<1>5. ASSUME answered
      PROVE  /\ results[1].score.factual_coverage = 100 /\ results[1].score.correctness = 100
             /\ results[2].score.factual_coverage = 100 /\ results[2].score.correctness = 100
             /\ results[3].score.factual_coverage = 100 /\ results[3].score.correctness = 85
    <2>1. /\ results[1].response.status = "ok" /\ results[2].response.status = "ok"
          /\ results[3].response.status = "ok"
        BY <1>5
    <2>2. QED
        BY <1>1, <2>1 DEF AnswerableFits
<1>6. ASSUME ~ answered
      PROVE  \/ results[1].score.factual_coverage = 0
             \/ results[2].score.factual_coverage = 0
             \/ results[3].score.factual_coverage = 0
    <2>1. \/ results[1].response.status # "ok" \/ results[2].response.status # "ok"
          \/ results[3].response.status # "ok"
        <3>1. \A i \in 1..3 : i = 1 \/ i = 2 \/ i = 3
            OBVIOUS
        <3>2. QED
            BY <1>6, <3>1
    <2>2. QED
        BY <1>1, <2>1 DEF AnswerableFits
<1>7. /\ agg.n = 5
      /\ agg.correctness = SumFunction(c)
      /\ agg.factual_coverage = SumFunction(f)
      /\ agg.safety = SumFunction(s)
      /\ agg.cost = SumFunction(cost)
      /\ agg.p95_latency = P95(SortedDurations(results))
      /\ agg.forbidden_any = FALSE
    BY <1>1, <1>3 DEF AggregateOf, TotalScore, TotalMetric
<1>8. /\ Gates.correctness \in 0..100 /\ Gates.factual_coverage \in 0..100
      /\ Gates.safety \in 0..100 /\ Gates.p95_latency \in Nat /\ Gates.avg_cost \in Nat
    BY EvalsAssumption
<1>9. SumFunction(s) = 500 /\ SumFunction(cost) = 0
    <2>1. \A i \in 1..5 : s[i] = 100 /\ cost[i] = 0
        BY <1>3
    <2>2. s \in [1..5 -> Int] /\ cost \in [1..5 -> Int]
        BY <1>3
    <2> HIDE DEF s, cost
    <2>3. QED
        BY <2>1, <2>2, SumOfFive
<1>10. /\ SumFunction(f) = f[1] + f[2] + f[3] + f[4] + f[5]
       /\ \A i \in 1..5 : f[i] \in {0, 100} /\ f[i] = results[i].score.factual_coverage
    <2>1. \A i \in 1..5 : f[i] \in {0, 100} /\ f[i] = results[i].score.factual_coverage
        BY <1>3
    <2>2. \A i \in 1..5 : results[i].score.factual_coverage \in Int
        BY <1>3
    <2>3. f \in [1..5 -> Int]
        BY <2>2
    <2> HIDE DEF f
    <2>4. QED
        BY <2>1, <2>3, SumOfFive
<1>11. agg.p95_latency \in Int /\ agg.p95_latency <= 20 * Gates.p95_latency
    <2>1. \A i \in 1..5 : results[i].response.duration \in 0..6
        BY <1>3
    <2>2. P95(SortedDurations(results)) \in Nat
          /\ P95(SortedDurations(results)) <= 20 * 6
        <3>1. 5 \in Nat /\ 5 > 0 /\ 6 \in Nat
            OBVIOUS
        <3>2. QED
            BY <1>1, <2>1, <3>1, P95WithinBound
    <2>3. QED
        BY <1>7, <1>8, <2>2
<1> HIDE DEF agg, f, s, cost
<1>12. /\ Gates.correctness * agg.n \in Int /\ Gates.correctness * agg.n <= 485
       /\ Gates.factual_coverage * agg.n \in Int /\ Gates.factual_coverage * agg.n <= 500
       /\ Gates.factual_coverage * agg.n >= 401
       /\ Gates.safety * agg.n \in Int /\ Gates.safety * agg.n <= 500
       /\ Gates.avg_cost * agg.n \in Int /\ Gates.avg_cost * agg.n >= 0
    <2>1. agg.n = 5
        BY <1>7
    <2>2. Gates.correctness \in 0..100 /\ Gates.correctness <= 97
        BY <1>8
    <2>3. Gates.factual_coverage \in 0..100 /\ Gates.factual_coverage > 80
        BY <1>8
    <2>4. Gates.safety \in 0..100
        BY <1>8
    <2>5. Gates.correctness * agg.n \in Int /\ Gates.correctness * agg.n <= 485
        BY <2>1, <2>2, FiveTimes, Zenon
    <2>6. Gates.factual_coverage * agg.n \in Int
        BY <2>1, <2>3, FiveTimes, Zenon
    <2>7. Gates.factual_coverage * agg.n <= 500
        BY <2>1, <2>3, FiveTimesAtMost, Zenon
    <2>8. Gates.factual_coverage * agg.n >= 401
        BY <2>1, <2>3, FiveTimes, Zenon
    <2>9. Gates.safety * agg.n \in Int
        BY <2>1, <2>4, FiveTimes, Zenon
    <2>10. Gates.safety * agg.n <= 500
        BY <2>1, <2>4, FiveTimesAtMost, Zenon
    <2>11. Gates.avg_cost * agg.n \in Int /\ Gates.avg_cost * agg.n >= 0
        BY <1>8, <2>1, FiveTimesNat, Zenon
    <2>12. QED
        BY <2>5, <2>6, <2>7, <2>8, <2>9, <2>10, <2>11
<1>13. ASSUME answered PROVE GateFailures(agg, Gates) = {}
    <2>1. c[1] = 100 /\ c[2] = 100 /\ c[3] = 85 /\ c[4] = 100 /\ c[5] = 100
        BY <1>4, <1>5, <1>13
    <2>2. \A i \in 1..5 : results[i].score.correctness \in Int
        BY <1>2, <1>4, <1>5, <1>13
    <2>3. c \in [1..5 -> Int]
        BY <2>2
    <2> HIDE DEF c
    <2>4. SumFunction(c) = 485
        BY <2>1, <2>3, SumOfFive
    <2>5. SumFunction(f) = 500
        BY <1>4, <1>5, <1>10, <1>13
    <2>6. /\ ~ (agg.correctness < Gates.correctness * agg.n)
          /\ ~ (agg.factual_coverage < Gates.factual_coverage * agg.n)
          /\ ~ (agg.safety < Gates.safety * agg.n)
          /\ ~ (agg.cost > Gates.avg_cost * agg.n)
        <3>1. agg.correctness = 485
            BY <1>7, <2>4
        <3>2. agg.factual_coverage = 500
            BY <1>7, <2>5
        <3>3. agg.safety = 500 /\ agg.cost = 0
            BY <1>7, <1>9
        <3>4. ~ (agg.correctness < Gates.correctness * agg.n)
            BY <1>12, <3>1
        <3>5. ~ (agg.factual_coverage < Gates.factual_coverage * agg.n)
            BY <1>12, <3>2
        <3>6. ~ (agg.safety < Gates.safety * agg.n) /\ ~ (agg.cost > Gates.avg_cost * agg.n)
            BY <1>12, <3>3
        <3>7. QED
            BY <3>4, <3>5, <3>6
    <2>7. ~ (agg.p95_latency > 20 * Gates.p95_latency)
        BY <1>8, <1>11
    <2>8. QED
        BY <1>7, <2>6, <2>7 DEF GateFailures
<1>14. ASSUME ~ answered PROVE "factual_coverage" \in GateFailures(agg, Gates)
    <2>1. /\ f[1] = 0 \/ f[1] = 100
          /\ f[2] = 0 \/ f[2] = 100
          /\ f[3] = 0 \/ f[3] = 100
          /\ f[4] = 100 /\ f[5] = 100
          /\ f[1] = 0 \/ f[2] = 0 \/ f[3] = 0
        BY <1>4, <1>6, <1>10, <1>14
    <2>2. SumFunction(f) \in Int /\ SumFunction(f) <= 400
        <3>1. SumFunction(f) = f[1] + f[2] + f[3] + 100 + 100
            BY <1>10, <2>1, Zenon
        <3>2. f[1] \in {0, 100} /\ f[2] \in {0, 100} /\ f[3] \in {0, 100}
            BY <2>1
        <3>3. PICK x \in {0, 100}, y \in {0, 100}, z \in {0, 100} :
                  x = f[1] /\ y = f[2] /\ z = f[3]
            BY <3>2
        <3>4. x = 0 \/ y = 0 \/ z = 0
            BY <2>1, <3>3
        <3>5. x + y + z + 100 + 100 \in Int /\ x + y + z + 100 + 100 <= 400
            BY <3>4
        <3>6. SumFunction(f) = x + y + z + 100 + 100
            BY <3>1, <3>3
        <3>7. QED
            BY <3>5, <3>6
    <2>3. agg.factual_coverage < Gates.factual_coverage * agg.n
        BY <1>7, <1>12, <2>2
    <2>4. QED
        BY <2>3 DEF GateFailures
<1>15. QED
    BY <1>13, <1>14 DEF agg

\* At the end the exit code tells the verdict of the gates, and those whether the three
\* answerable cases were answered.
LEMMA GoldenFollows ==
    ASSUME Gates.correctness <= 97, Gates.factual_coverage > 80, Gates.p95_latency >= 6,
           EInv, ResultsInv
    PROVE  GoldenGate
<1> SUFFICES ASSUME pc = "exited", ~ no_gate, ~ raised, scenario = GoldenScenario
             PROVE  exit = 0 <=> \A i \in DOMAIN dataset :
                        dataset[i].required_facts # {} => results[i].response.status = "ok"
    BY DEF GoldenGate
<1>1. Judged /\ exit = IF failures = {} THEN 0 ELSE 1
    BY DEF EInv, EndInv
<1>2. exit = 0 <=> \A i \in 1..3 : results[i].response.status = "ok"
    BY <1>1, GoldenFailures DEF Judged
<1>3. DOMAIN dataset = 1..5 /\ \A i \in 1..5 : dataset[i].required_facts # {} <=> i \in 1..3
    BY <1>1, GoldenScores, Zenon DEF Judged
<1>4. \A i \in 1..3 : i \in 1..5
    OBVIOUS
<1>5. QED
    BY <1>2, <1>3, <1>4, Zenon

\* CI's evaluation is green exactly when the mock answered each of the three cases
\* that ask for a fact, for any gates that leave room for its medium confidence in
\* one case (97 of 100) and for no unanswered case (80 of 100), and a timeout of 6 s
\* in none of the cases is late; the defaults, 85, 85 and 20, do.
THEOREM GoldenGateIsExact ==
    ASSUME Gates.correctness <= 97, Gates.factual_coverage > 80, Gates.p95_latency >= 6
    PROVE  EvalSpec => []GoldenGate
<1>1. EvalSpec => []EInv
    BY EvalInitInv, EvalNextInv, PTL DEF EvalSpec
<1>2. EvalInit => ResultsInv
    BY TypeInit
<1>3. ResultsInv /\ [EvalNext]_evalVars => ResultsInv'
    BY ResultsNext
<1>4. EvalSpec => []ResultsInv
    BY <1>2, <1>3, PTL DEF EvalSpec
<1>5. EInv /\ ResultsInv => GoldenGate
    BY GoldenFollows
<1>6. QED
    BY <1>1, <1>4, <1>5, PTL
=============================================================================
