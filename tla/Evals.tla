-------------------------------- MODULE Evals -------------------------------
(***************************************************************************)
(* The offline evaluation, `python -m evals.run_evals`: main_async runs    *)
(* the cases of a dataset one after the other through ResearchWorkflow.run, *)
(* scores and aggregates the responses, evaluates the regression gates,    *)
(* writes results.json and report.md, and exits.                           *)
(*                                                                         *)
(* What a run answers is one of EvalCases' Responses, which cover what a   *)
(* run of AgentRun returns (AgentRun!AnswersAsEvaluated), or an exception  *)
(* that escapes _drive.  The files may hold what an earlier evaluation     *)
(* wrote.                                                                  *)
(***************************************************************************)
EXTENDS EvalCases

CONSTANTS
    Phrases,        \* what the cases look for in an answer
    Scenarios,      \* what is evaluated and where, see ScenarioType
    Gates           \* the gate_* settings

CaseType ==
    [ hedge : BOOLEAN,                  \* expected_behavior asks for a refusal
      topics : SUBSET Topics,           \* what user_input is about
      required_facts : SUBSET Phrases,
      forbidden_behavior : SUBSET Phrases,
      max_cost : Nat \cup {None, Absent},
      max_latency : Nat \cup {None, Absent} ]

\* A dataset, the settings it is run under, and what the runs may report.
ScenarioType ==
    [ dataset : Seq(CaseType),
      provider : {"mock", "claude"},
      max_cost : Nat, max_latency : Nat,
      gap : Nat,                        \* from a run's budget check to its duration
      may_crash : BOOLEAN,              \* may an exception escape _drive?
      costs : SUBSET Nat, durations : SUBSET Nat, tool_counts : SUBSET Nat ]

ASSUME EvalsAssumption ==
    /\ None \notin Nat /\ Absent \notin Nat /\ None # Absent
    /\ IsFiniteSet(Phrases)
    /\ \A s \in Scenarios : s \in ScenarioType
    /\ Gates \in [ correctness : 0..100, factual_coverage : 0..100, safety : 0..100,
                   p95_latency : Nat, avg_cost : Nat ]

VARIABLES
    scenario,   \* --dataset and the environment
    no_gate,    \* --no-gate
    pc,         \* "running", "gating", "writing", "reporting", "exiting" or "exited"
    results,    \* run_all's `out`
    failures,   \* the gates that failed
    raised,     \* did an exception end main_async?
    exit,       \* the exit code, -1 before the exit
    artifacts   \* results.json and report.md: an earlier evaluation's, torn or this one's

evalVars == << scenario, no_gate, pc, results, failures, raised, exit, artifacts >>

\* What is on the disk before this evaluation, of an earlier one.
Earlier == [of |-> "earlier"]

\* A file that was opened for writing, and so truncated, and not written whole.
Torn == [of |-> "torn"]

dataset == scenario.dataset

-----------------------------------------------------------------------------
EvalInit ==
    /\ scenario \in Scenarios
    /\ no_gate \in BOOLEAN
    /\ pc = "running"
    /\ results = << >>
    /\ failures = {}
    /\ raised = FALSE
    /\ exit = -1
    /\ artifacts = [results |-> Earlier, report |-> Earlier]

\* An exception nobody catches: the interpreter exits with code 1.
Raise ==
    /\ raised' = TRUE
    /\ exit' = 1
    /\ pc' = "exited"
    /\ UNCHANGED << scenario, no_gate, results, failures, artifacts >>

NextCase == dataset[Len(results) + 1]

\* One round of run_all's loop: the run, then its scores.
RunCase ==
    /\ pc = "running"
    /\ Len(results) < Len(dataset)
    /\ \E response \in Responses(NextCase, scenario) :
          IF ScoreCaseRaises(NextCase, response)
          THEN Raise
          ELSE /\ results' = Append(results, [ response |-> response,
                                               score |-> ScoreCase(NextCase, response) ])
               /\ UNCHANGED << scenario, no_gate, pc, failures, raised, exit, artifacts >>

\* An exception escapes _drive, and run_all with it.
RunRaises ==
    /\ pc = "running"
    /\ Len(results) < Len(dataset)
    /\ scenario.may_crash
    /\ Raise

\* run_all returns.
AllRun ==
    /\ pc = "running"
    /\ Len(results) = Len(dataset)
    /\ pc' = "gating"
    /\ UNCHANGED << scenario, no_gate, results, failures, raised, exit, artifacts >>

\* aggregate and gates_passed: the aggregate of nothing is {}, and it has no
\* "correctness" to subscript.
Gate ==
    /\ pc = "gating"
    /\ IF results = << >> THEN Raise
       ELSE /\ failures' = GateFailures(AggregateOf(results), Gates)
            /\ pc' = "writing"
            /\ UNCHANGED << scenario, no_gate, results, raised, exit, artifacts >>

\* What results.json holds of the results, and report.md of the gates.
ThisResults == [of |-> "this", aggregate |-> AggregateOf(results)]

ThisReport == [of |-> "this", failures |-> failures]

\* The OSError of a file that cannot be opened, or not written to its end.
WriteFails(file) ==
    /\ raised' = TRUE
    /\ exit' = 1
    /\ pc' = "exited"
    /\ \E left \in {artifacts[file], Torn} : artifacts' = [artifacts EXCEPT ![file] = left]
    /\ UNCHANGED << scenario, no_gate, results, failures >>

\* The report written first, the results after it.
WriteReportFirst ==
    /\ pc = "writing"
    /\ \/ artifacts' = [artifacts EXCEPT !.report = ThisReport]
          /\ pc' = "reporting"
          /\ UNCHANGED << scenario, no_gate, results, failures, raised, exit >>
       \/ WriteFails("report")

\* write_results
WriteResults ==
    /\ pc = "writing"
    /\ \/ artifacts' = [artifacts EXCEPT !.results = ThisResults]
          /\ pc' = "reporting"
          /\ UNCHANGED << scenario, no_gate, results, failures, raised, exit >>
       \/ WriteFails("results")

\* write_report
WriteReport ==
    /\ pc = "reporting"
    /\ \/ artifacts' = [artifacts EXCEPT !.report = ThisReport]
          /\ pc' = "exiting"
          /\ UNCHANGED << scenario, no_gate, results, failures, raised, exit >>
       \/ WriteFails("report")

\* `if ok or args.no_gate: return 0`, `return 1`
Exit ==
    /\ pc = "exiting"
    /\ exit' = IF failures = {} \/ no_gate THEN 0 ELSE 1
    /\ pc' = "exited"
    /\ UNCHANGED << scenario, no_gate, results, failures, raised, artifacts >>

Exited == pc = "exited" /\ UNCHANGED evalVars

EvalNext ==
    RunCase \/ RunRaises \/ AllRun \/ Gate \/ WriteResults \/ WriteReport \/ Exit \/ Exited

EvalSpec == EvalInit /\ [][EvalNext]_evalVars

-----------------------------------------------------------------------------
\* Type correctness of the harness.
EvalTypeOK ==
    /\ pc \in {"running", "gating", "writing", "reporting", "exiting", "exited"}
    /\ no_gate \in BOOLEAN /\ raised \in BOOLEAN
    /\ exit \in {-1, 0, 1}
    /\ failures \subseteq DOMAIN Gates \cup {"forbidden"}
    /\ Len(results) <= Len(dataset)
    /\ \A i \in DOMAIN results : \A f \in DOMAIN results[i].score \ {"forbidden_hits"} :
          results[i].score[f] \in 0..100

\* The cases of the dataset for which P holds.
CasesWhere(P(_)) == { i \in DOMAIN dataset : P(i) }

\* A deployment is let through (exit 0 without --no-gate) only if every case of
\* the dataset ran and, counted on the answers themselves, none contains what its
\* case forbids, at most one in twenty took longer than the p95 gate, the shares
\* of blank answers, of answers with none of their facts and of cases that
\* results.json marks as not passed stay below what the minimum means leave, and
\* the mean cost is within its gate (run_all, aggregate and gates_passed together;
\* the gates never look at CaseScore.passed).
PassIsEarned ==
    pc = "exited" /\ exit = 0 /\ ~ no_gate =>
        LET response(i) == results[i].response
            share(S)    == 100 * Cardinality(S)
            n           == Len(dataset)
            none(i)     == dataset[i].required_facts # {}
                           /\ dataset[i].required_facts \cap response(i).says = {}
        IN /\ n > 0 /\ Len(results) = n
           /\ \A i \in 1..n : dataset[i].forbidden_behavior
                                  \cap (response(i).says \cup response(i).caveats) = {}
           /\ share(CasesWhere(LAMBDA i : response(i).duration > Gates.p95_latency)) <= 5 * n
           /\ share(CasesWhere(LAMBDA i : response(i).blank)) <= (100 - Gates.correctness) * n
           /\ share(CasesWhere(none)) <= (100 - Gates.factual_coverage) * n
           /\ 50 * Cardinality(CasesWhere(LAMBDA i : ~ Passed(results[i].score)))
                  <= (200 - Gates.correctness - Gates.factual_coverage) * n
           /\ SumFunction([i \in 1..n |-> response(i).cost]) <= Gates.avg_cost * n

\* A gate that fails is a case's fault: some answer is blank or less sure than its
\* case wants (unsure, where a refusal is expected), lacks a required fact, says what
\* is forbidden, took longer than the p95 gate or cost more than the mean may.  No
\* mean, quantile or default score fails a deployment whose every answer is right
\* (score_case, aggregate and gates_passed together).
FailuresAreReal ==
    \A gate \in failures : \E i \in DOMAIN results :
        LET case == dataset[i]
            r    == results[i].response
        IN CASE gate = "correctness" ->
                    r.blank \/ r.confidence # IF case.hedge THEN "low" ELSE "high"
             [] gate = "factual_coverage" -> ~ (case.required_facts \subseteq r.says)
             [] gate \in {"safety", "forbidden"} ->
                    case.forbidden_behavior \cap (r.says \cup r.caveats) # {}
             [] gate = "p95_latency" -> r.duration > Gates.p95_latency
             [] gate = "avg_cost" -> r.cost > Gates.avg_cost

\* However the evaluation ends, a report that was touched stands beside the whole
\* results of the same evaluation; those hold the aggregate of every case, and the
\* report the verdict of the gates on that aggregate; and an exit code of 0, or of
\* 1 by a gate, leaves both files of this run, with the verdict it stands for.
ArtifactsAgree ==
    pc = "exited" =>
        /\ artifacts.report.of # "earlier" => artifacts.results.of = "this"
        /\ artifacts.results.of = "this" =>
              /\ Len(results) = Len(dataset) /\ results # << >>
              /\ artifacts.results.aggregate = AggregateOf(results)
        /\ artifacts.report.of = "this" =>
              artifacts.report.failures = GateFailures(artifacts.results.aggregate, Gates)
        /\ ~ raised =>
              /\ artifacts.report.of = "this"
              /\ exit = 1 => artifacts.report.failures # {} /\ ~ no_gate
              /\ exit = 0 => artifacts.report.failures = {} \/ no_gate
=============================================================================
