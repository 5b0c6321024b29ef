----------------------------- MODULE StreamRun ------------------------------
(***************************************************************************)
(* A streamed run: POST /agent/run/stream (app/main.py, event_gen) on top  *)
(* of ResearchWorkflow.run_stream (app/agent/workflow.py) on top of the    *)
(* EventSink (app/agent/reasoning_events.py).                              *)
(*                                                                         *)
(* Two tasks share the sink's queue.  The driver task is the abstract run  *)
(* of RunContract, which AgentRun implements; each of its actions is a     *)
(* stretch of _drive between two awaits, and puts what it emits into the   *)
(* queue.  The reader task is the response generator.  The client, the     *)
(* HTTP server and sse-starlette are outside the repository: the client    *)
(* may go away at any time, and then the reader may be cancelled.          *)
(*                                                                         *)
(* Events are their step numbers, 1 to steps.                              *)
(***************************************************************************)
EXTENDS RunContract, Sequences

CONSTANTS MaxSteps,   \* bound: events a run emits
          Closed,     \* the None that EventSink.close enqueues
          Final       \* the RunResponse

ASSUME StreamAssumption ==
    MaxSteps \in Nat /\ Closed \notin Nat /\ Final \notin Nat /\ Closed # Final

VARIABLES queue,      \* EventSink._queue
          closed,     \* EventSink._closed
          reader,     \* where the reader task is, see ReaderStages
          item,       \* what it has taken and not yet sent, a sequence of 0 or 1
          sent,       \* what it has handed to the client's connection
          connected   \* is the client there?

readerVars == << reader, item, sent >>
streamVars == << contractVars, queue, closed, readerVars, connected >>

ReaderStages == { "waiting",    \* await queue.get(), or about to
                  "holding",    \* await request.is_disconnected()
                  "sending",    \* the item is yielded to the response
                  "served",     \* the stream is complete
                  "left" }      \* it broke out or was cancelled

StreamInit ==
    /\ ContractInit
    /\ queue = << >> /\ closed = FALSE
    /\ reader = "waiting" /\ item = << >> /\ sent = << >>
    /\ connected = TRUE

-----------------------------------------------------------------------------
\* A sink that forgets the events it cannot hold beside one unread event.
PutAllDropping(events) ==
    queue' = IF closed \/ queue # << >> THEN queue ELSE queue \o events

\* EventSink.emit, of several events in a row: put_nowait unless closed.
PutAll(events) == queue' = IF closed THEN queue ELSE queue \o events

\* The events of one stretch of the driver, which has emitted n of them.
Burst(n) == [i \in 1..n |-> steps + i]

DriverEmits ==
    \E n \in 1..MaxBurst :
        /\ steps + n <= MaxSteps
        /\ EmitBurst(n) \/ FallBack(n)
        /\ PutAll(Burst(n))
        /\ UNCHANGED << closed, readerVars, connected >>

\* A sink that is marked closed without waking its reader.
CloseSilently == closed' = TRUE /\ UNCHANGED queue

\* A close that waits until the queue is read, as asyncio.Queue.join does.
CloseWhenDrained ==
    /\ queue = << >>
    /\ closed' = TRUE
    /\ queue' = << Closed >>

\* EventSink.close
Close ==
    /\ closed' = TRUE
    /\ queue' = IF closed THEN queue ELSE Append(queue, Closed)

\* sink.close() and the return of the RunResponse, with no await in between.
DriverAnswers ==
    /\ GiveAnswer
    /\ Close
    /\ UNCHANGED << readerVars, connected >>

\* An exception escapes _drive: the task ends and nothing closes the sink.
DriverCrashes ==
    /\ Crash
    /\ UNCHANGED << queue, closed, readerVars, connected >>

DriverStep == DriverEmits \/ DriverAnswers \/ DriverCrashes

-----------------------------------------------------------------------------
\* A reader that takes the end marker for an event.
GetAnything ==
    /\ reader = "waiting"
    /\ queue # << >>
    /\ item' = << Head(queue) >>
    /\ queue' = Tail(queue)
    /\ reader' = "holding"
    /\ UNCHANGED << contractVars, closed, sent, connected >>

\* EventSink.stream yields an event.
GetEvent ==
    /\ reader = "waiting"
    /\ queue # << >> /\ Head(queue) # Closed
    /\ item' = << Head(queue) >>
    /\ queue' = Tail(queue)
    /\ reader' = "holding"
    /\ UNCHANGED << contractVars, closed, sent, connected >>

\* A reader that asks whether the task is done instead of draining the queue.
GetFinalWhenDone ==
    /\ reader = "waiting"
    /\ phase = "answered"
    /\ item' = << Final >>
    /\ reader' = "holding"
    /\ UNCHANGED << contractVars, queue, closed, sent, connected >>

\* EventSink.stream ends; `await task` has its result at once, since the driver
\* returned in the stretch that closed the sink, and run_stream yields it.
GetFinal ==
    /\ reader = "waiting"
    /\ queue # << >> /\ Head(queue) = Closed
    /\ phase = "answered"
    /\ item' = << Final >>
    /\ queue' = Tail(queue)
    /\ reader' = "holding"
    /\ UNCHANGED << contractVars, closed, sent, connected >>

\* is_disconnected() answers: event_gen breaks, or yields the item.
CheckConnection ==
    /\ reader = "holding"
    /\ reader' = IF connected THEN "sending" ELSE "left"
    /\ item' = IF connected THEN item ELSE << >>
    /\ UNCHANGED << contractVars, queue, closed, sent, connected >>

\* The connection takes the item.  After the final one the generators end.
Send ==
    /\ reader = "sending"
    /\ sent' = sent \o item
    /\ item' = << >>
    /\ reader' = IF item = << Final >> THEN "served" ELSE "waiting"
    /\ UNCHANGED << contractVars, queue, closed, connected >>

\* A cancellation that lets the item in hand through.
CancelLate ==
    /\ ~ connected
    /\ reader \in {"waiting", "holding", "sending"}
    /\ reader' = "left"
    /\ item' = << >>
    /\ sent' = sent \o item
    /\ UNCHANGED << contractVars, queue, closed, connected >>

\* sse-starlette sees the disconnection and cancels the reader at its await:
\* run_stream's `finally` does not cancel the driver task.
Cancel ==
    /\ ~ connected
    /\ reader \in {"waiting", "holding", "sending"}
    /\ reader' = "left"
    /\ item' = << >>
    /\ UNCHANGED << contractVars, queue, closed, sent, connected >>

\* The client goes away.
Disconnect ==
    /\ connected
    /\ connected' = FALSE
    /\ UNCHANGED << contractVars, queue, closed, readerVars >>

ReaderStep == GetEvent \/ GetFinal \/ CheckConnection \/ Send

\* The reader and the driver are done.
StreamOver ==
    /\ reader \in {"served", "left"} /\ phase # "driving"
    /\ UNCHANGED streamVars

StreamNext == DriverStep \/ ReaderStep \/ Cancel \/ Disconnect \/ StreamOver

\* The event loop runs both tasks; the run ends (AgentRun), with an answer unless
\* it crashes; a client that is there reads, and a send to one that is gone
\* returns.  Whether the server notices that a client is gone is left open.
StreamSpec ==
    /\ StreamInit
    /\ [][StreamNext]_streamVars
    /\ WF_streamVars(DriverAnswers)
    /\ WF_streamVars(ReaderStep)

-----------------------------------------------------------------------------
\* Type correctness of the stream's state.
StreamTypeOK ==
    /\ ContractTypeOK
    /\ queue \in Seq(Nat \cup {Closed})
    /\ closed \in BOOLEAN
    /\ reader \in ReaderStages
    /\ item \in Seq(Nat \cup {Final})
    /\ sent \in Seq(Nat \cup {Final})
    /\ connected \in BOOLEAN

\* All the events of the run, in step order.
Trace == [i \in 1..steps |-> i]

\* As long as the reader reads, what it sent, what it holds and what is queued
\* are together the events of RunResponse.events, each once and in step order:
\* no interleaving of the two tasks loses, repeats or reorders one
\* (EventSink.emit and stream).
NothingLost ==
    reader # "left" =>
        sent \o item \o queue \in
            IF phase = "answered" THEN { Append(Trace, Closed), Append(Trace, Final) }
            ELSE { Trace }

\* A stream that completes has shown its client every event of the response and
\* then the response, and nothing after it (run_stream: "then a final
\* RunResponse as the last item").
ServedIsComplete ==
    reader = "served" => phase = "answered" /\ sent = Append(Trace, Final)

\* The two tasks and their queue implement the feed the client is promised: each
\* item it is shown is the next of the trace, the response is the last, and what
\* it saw when it was found gone is all it ever sees, an item in the reader's hand
\* included (run_stream, event_gen).
Feed == INSTANCE EventFeed WITH
    answered <- phase = "answered",
    view     <- sent,
    stage    <- CASE reader = "served" -> "complete"
                  [] reader = "left" -> "over"
                  [] OTHER -> "open"

ImplementsFeed == Feed!FeedSpec

\* No exception escapes _drive.
DriverSurvives == [](phase # "crashed")

\* A client that leaves does not stop the run: the driver task still answers,
\* with its metrics and its cost, though nobody reads it (run_stream creates the
\* task and never cancels it).
RunOutlivesReader == DriverSurvives => [](reader = "left" => <>(phase = "answered"))

\* "Yields ReasoningEvent objects as they happen, then a final RunResponse as the
\* last item": a client that stays connected is served the response (run_stream,
\* app/agent/workflow.py).
ClientGetsFinal == []connected => <>(reader = "served")

\* A stream ends: its client is served the response, or is noticed to be gone at
\* the next item at the latest.
EveryStreamEnds == DriverSurvives => <>(reader \in {"served", "left"})
=============================================================================
