----------------------------- MODULE RunContract ----------------------------
(***************************************************************************)
(* What one agent run (ResearchWorkflow._drive) promises to whoever reads  *)
(* its event stream and awaits its response:                               *)
(*                                                                         *)
(*   - it emits bursts of reasoning events, in step order;                 *)
(*   - at most once it falls back; the `fallback` event ends that burst    *)
(*     and is the last event of the run;                                   *)
(*   - then it answers once, and the verdict is determined by the trace:   *)
(*     "partial" iff there was a fallback, "error" iff there was no event  *)
(*     at all, "ok" otherwise;                                             *)
(*   - or, if the deployment is one where it may, it dies by an exception  *)
(*     that no handler of _drive catches, and never answers;               *)
(*   - whatever it waits for, it does one of the two.                      *)
(***************************************************************************)
EXTENDS Integers

CONSTANTS MaxBurst,   \* most events emitted between two awaits
          MayCrash    \* can an exception escape _drive in this deployment?

ASSUME ContractAssumption == MaxBurst \in Nat \ {0} /\ MayCrash \in BOOLEAN

VARIABLES phase,      \* "driving", "answered" or "crashed"
          steps,      \* number of events emitted, EventSink._step
          fellBack,   \* has the fallback event been emitted?
          verdict     \* RunResponse.status, "none" before there is a response

contractVars == << phase, steps, fellBack, verdict >>

ContractTypeOK ==
    /\ phase \in {"driving", "answered", "crashed"}
    /\ steps \in Nat
    /\ fellBack \in BOOLEAN
    /\ verdict \in {"none", "ok", "partial", "error"}

ContractInit ==
    /\ phase = "driving"
    /\ steps = 0
    /\ fellBack = FALSE
    /\ verdict = "none"

\* The run emits n events, none of them a fallback.
EmitBurst(n) ==
    /\ phase = "driving"
    /\ ~ fellBack
    /\ steps' = steps + n
    /\ UNCHANGED << phase, fellBack, verdict >>

\* The run emits n events, the last of them its only fallback event.
FallBack(n) ==
    /\ phase = "driving"
    /\ ~ fellBack
    /\ steps' = steps + n
    /\ fellBack' = TRUE
    /\ UNCHANGED << phase, verdict >>

\* The sink is closed and the response returned.
GiveAnswer ==
    /\ phase = "driving"
    /\ phase' = "answered"
    /\ verdict' = IF fellBack THEN "partial" ELSE IF steps = 0 THEN "error" ELSE "ok"
    /\ UNCHANGED << steps, fellBack >>

\* An exception escapes; the sink stays open.
Crash ==
    /\ MayCrash
    /\ phase = "driving"
    /\ phase' = "crashed"
    /\ UNCHANGED << steps, fellBack, verdict >>

ContractNext ==
    \/ \E n \in 1..MaxBurst : EmitBurst(n) \/ FallBack(n)
    \/ GiveAnswer
    \/ Crash

ContractSpec ==
    /\ ContractInit
    /\ [][ContractNext]_contractVars
    /\ WF_contractVars(GiveAnswer \/ Crash)
=============================================================================
