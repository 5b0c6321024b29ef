----------------------------- MODULE EventFeed ------------------------------
(***************************************************************************)
(* What a streamed run promises to its client (run_stream of               *)
(* app/agent/workflow.py and event_gen of app/main.py), whatever tasks and *)
(* queues lie in between:                                                  *)
(*                                                                         *)
(*   - the view of the client grows by the next event of the run, one at a *)
(*     time, and never by an event that was not emitted;                   *)
(*   - the response comes once, when the run has answered and every event  *)
(*     is in view, and nothing follows it;                                 *)
(*   - a client that left, or was found gone, is shown nothing more, and   *)
(*     keeps what it saw;                                                  *)
(*   - none of this holds up the run.                                      *)
(***************************************************************************)
EXTENDS Integers, Sequences

CONSTANTS MaxBurst,   \* most events emitted between two awaits
          Final       \* the RunResponse

VARIABLES steps,      \* number of events the run has emitted
          answered,   \* has it answered?
          view,       \* what the client was shown
          stage       \* "open", "complete" or "over" before it was complete

feedVars == << steps, answered, view, stage >>

FeedInit == steps = 0 /\ answered = FALSE /\ view = << >> /\ stage = "open"

RunEmits ==
    /\ ~ answered
    /\ \E n \in 1..MaxBurst : steps' = steps + n
    /\ UNCHANGED << answered, view, stage >>

RunAnswers ==
    /\ ~ answered
    /\ answered' = TRUE
    /\ UNCHANGED << steps, view, stage >>

\* The next event, in step order.
Show ==
    /\ stage = "open"
    /\ Len(view) < steps
    /\ view' = Append(view, Len(view) + 1)
    /\ UNCHANGED << steps, answered, stage >>

ShowFinal ==
    /\ stage = "open"
    /\ answered /\ Len(view) = steps
    /\ view' = Append(view, Final)
    /\ stage' = "complete"
    /\ UNCHANGED << steps, answered >>

\* The reader breaks out of its loop or is cancelled.
Leave ==
    /\ stage = "open"
    /\ stage' = "over"
    /\ UNCHANGED << steps, answered, view >>

FeedNext == RunEmits \/ RunAnswers \/ Show \/ ShowFinal \/ Leave

FeedSpec == FeedInit /\ [][FeedNext]_feedVars
=============================================================================
