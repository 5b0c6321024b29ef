-------------------------- MODULE StreamRun_proofs --------------------------
(***************************************************************************)
(* What the reader of a streamed run sees, for bursts and traces of every  *)
(* length: the two tasks and the client interleave at every await.         *)
(***************************************************************************)
EXTENDS StreamRun, SequenceTheorems, TLAPS

\* What may be in the queue, in the reader's hand and at the client.
Items == Nat \cup {Closed, Final}

\* The reader holds the response.
HoldsFinal == item = << Final >>

\* Before the response is in the reader's hand, what it sent, holds and has still
\* to read are the trace, and the end marker once the sink is closed.
OnTheWay ==
    /\ reader \in {"waiting", "holding", "sending"} /\ ~ HoldsFinal
    /\ sent \o item \o queue = IF phase = "answered" THEN Append(Trace, Closed) ELSE Trace

\* The response is in its hand: everything else has been sent.
AtTheEnd ==
    /\ reader \in {"holding", "sending"} /\ HoldsFinal
    /\ phase = "answered" /\ sent = Trace /\ queue = << >>

\* The stream is complete.
Complete ==
    /\ reader = "served" /\ item = << >> /\ queue = << >>
    /\ phase = "answered" /\ sent = Append(Trace, Final)

StreamInv ==
    /\ StreamTypeOK
    /\ closed <=> phase = "answered"
    /\ reader = "waiting" => item = << >>
    /\ reader \in {"holding", "sending"} => \E x \in Nat \cup {Final} : item = << x >>
    /\ reader # "left" => OnTheWay \/ AtTheEnd \/ Complete

\* Events are numbers, and the trace is a sequence of them.
LEMMA TraceType ==
    ASSUME steps \in Nat
    PROVE  Trace \in Seq(Nat) /\ Trace \in Seq(Items) /\ Len(Trace) = steps
BY DEF Trace, Items

\* The events of a burst extend the trace.
LEMMA BurstExtendsTrace ==
    ASSUME steps \in Nat, NEW n \in Nat, steps' = steps + n
    PROVE  Trace' = Trace \o Burst(n) /\ Burst(n) \in Seq(Nat)
<1>1. Trace \in Seq(Nat) /\ Burst(n) \in Seq(Nat) /\ Trace' \in Seq(Nat)
    BY DEF Trace, Burst
<1>2. Len(Trace) = steps /\ Len(Burst(n)) = n /\ Len(Trace') = steps + n
    BY DEF Trace, Burst
<1>3. /\ Trace \o Burst(n) \in Seq(Nat)
      /\ Len(Trace \o Burst(n)) = steps + n
      /\ \A i \in 1..(steps + n) : (Trace \o Burst(n))[i] =
            IF i <= steps THEN Trace[i] ELSE Burst(n)[i - steps]
    BY <1>1, <1>2, ConcatProperties
<1>4. \A i \in 1..(steps + n) : Trace'[i] = (Trace \o Burst(n))[i]
    <2> TAKE i \in 1..(steps + n)
    <2>1. Trace'[i] = i
        BY DEF Trace
    <2>2. CASE i <= steps
        <3>1. Trace[i] = i
            BY <2>2 DEF Trace
        <3>2. QED
            BY <1>3, <2>1, <2>2, <3>1
    <2>3. CASE i > steps
        <3>1. i - steps \in 1..n
            BY <2>3
        <3>2. Burst(n)[i - steps] = i
            BY <3>1 DEF Burst
        <3>3. QED
            BY <1>3, <2>1, <2>3, <3>2
    <2>4. i \in Int /\ (i <= steps \/ i > steps)
        OBVIOUS
    <2>5. QED
        BY <2>2, <2>3, <2>4
<1>5. QED
    BY <1>1, <1>2, <1>3, <1>4, SeqEqual

\* Taking the head of the queue into an empty hand moves the boundary only.
LEMMA TakeHead ==
    ASSUME NEW S, NEW s \in Seq(S), NEW q \in Seq(S), q # << >>
    PROVE  s \o << Head(q) >> \o Tail(q) = s \o << >> \o q
<1>1. /\ Head(q) \in S /\ Tail(q) \in Seq(S) /\ Len(Tail(q)) = Len(q) - 1
      /\ \A i \in 1..Len(Tail(q)) : Tail(q)[i] = q[i + 1]
    BY HeadTailProperties
<1>2. << Head(q) >> \in Seq(S) /\ Len(<< Head(q) >>) = 1 /\ << Head(q) >>[1] = q[1]
    BY <1>1
<1>3. << Head(q) >> \o Tail(q) = q
    <2> DEFINE t == << Head(q) >> \o Tail(q)
    <2>1. /\ t \in Seq(S) /\ Len(t) = 1 + Len(Tail(q))
          /\ \A i \in 1..(1 + Len(Tail(q))) :
                t[i] = IF i <= 1 THEN << Head(q) >>[i] ELSE Tail(q)[i - 1]
        BY <1>1, <1>2, ConcatProperties
    <2>2. Len(q) \in Nat /\ Len(t) = Len(q)
        BY <1>1, <2>1, LenProperties
    <2>3. \A i \in 1..Len(t) : t[i] = q[i]
        BY <1>1, <1>2, <2>1, <2>2
    <2>4. QED
        BY <2>1, <2>2, <2>3, SeqEqual
<1>4. (s \o << Head(q) >>) \o Tail(q) = s \o (<< Head(q) >> \o Tail(q))
    BY <1>1, <1>2, ConcatAssociative
<1>5. s \o << >> = s
    BY ConcatEmptySeq
<1>6. QED
    BY <1>3, <1>4, <1>5

\* Arithmetic of the lengths in MarkerIsLast.
LEMMA LastOne ==
    ASSUME NEW a \in Nat, NEW b \in Nat, NEW c \in Nat, a + 1 = c + 1, a + b = c + 1
    PROVE  a = c /\ b = 1
OBVIOUS

\* If the head of the queue is the end marker, it is all there is.
LEMMA MarkerIsLast ==
    ASSUME NEW s \in Seq(Items), NEW q \in Seq(Items), NEW t \in Seq(Nat),
           q # << >>, Head(q) = Closed, s \o q = Append(t, Closed)
    PROVE  s = t /\ Tail(q) = << >>
<1>1. /\ Len(s) \in Nat /\ Len(q) \in Nat \ {0} /\ Len(t) \in Nat
      /\ t \in Seq(Items) /\ Closed \in Items
    <2>1. Nat \subseteq Items /\ Closed \in Items
        BY DEF Items
    <2>2. t \in Seq(Items)
        BY <2>1, SeqMonotonic
    <2>3. QED
        BY <2>1, <2>2, LenProperties, EmptySeq
<1>2. /\ Len(s \o q) = Len(s) + Len(q)
      /\ \A i \in 1..(Len(s) + Len(q)) :
            (s \o q)[i] = IF i <= Len(s) THEN s[i] ELSE q[i - Len(s)]
    BY ConcatProperties
<1>3. /\ Len(Append(t, Closed)) = Len(t) + 1
      /\ \A i \in 1..Len(t) : Append(t, Closed)[i] = t[i]
    BY <1>1, AppendProperties
<1>4. q[1] = Closed
    BY <1>1
<1>5. (s \o q)[Len(s) + 1] = Closed
    BY <1>1, <1>2, <1>4
<1>6. \A i \in 1..Len(t) : t[i] # Closed
    <2> TAKE i \in 1..Len(t)
    <2>1. t[i] \in Nat
        BY ElementOfSeq
    <2>2. QED
        BY <2>1, StreamAssumption
<1>7. Len(s) + 1 = Len(t) + 1
    BY <1>1, <1>2, <1>3, <1>5, <1>6
<1>8. Len(q) = 1
    <2>1. Len(s) + Len(q) = Len(t) + 1
        <3> HIDE DEF Items
        <3>1. Len(s \o q) = Len(Append(t, Closed))
            OBVIOUS
        <3>2. QED
            BY <1>2, <1>3, <3>1
    <2>2. Len(s) \in Nat /\ Len(q) \in Nat /\ Len(t) \in Nat
        BY <1>1
    <2>3. QED
        <3> HIDE DEF Items
        <3> QED
            BY <1>7, <2>1, <2>2, LastOne, Zenon
<1>9. \A i \in 1..Len(s) : s[i] = t[i]
    BY <1>1, <1>2, <1>3, <1>7
<1>10. s = t
    BY <1>1, <1>7, <1>9, SeqEqual
<1>11. Tail(q) \in Seq(Items) /\ Len(Tail(q)) = 0
    BY <1>8, HeadTailProperties
<1>12. QED
    BY <1>10, <1>11, EmptySeq

\* Putting more into the queue puts it after what was sent, held and queued.
LEMMA PutAfter ==
    ASSUME NEW S, NEW s \in Seq(S), NEW i \in Seq(S), NEW q \in Seq(S), NEW b \in Seq(S)
    PROVE  s \o i \o (q \o b) = (s \o i \o q) \o b
<1>1. s \o i \in Seq(S)
    BY ConcatProperties
<1>2. QED
    BY <1>1, ConcatAssociative

\* Appending an item is joining the sequence of that item.
LEMMA AppendThenConcat ==
    ASSUME NEW S, NEW s \in Seq(S), NEW x \in S
    PROVE  Append(s, x) = s \o << x >> /\ << x >> \in Seq(S)
OBVIOUS

\* The parts of the type invariant as sequences of one set.
LEMMA AllItems ==
    ASSUME StreamTypeOK
    PROVE  /\ queue \in Seq(Items) /\ item \in Seq(Items) /\ sent \in Seq(Items)
           /\ sent \o item \in Seq(Items) /\ sent \o item \o queue \in Seq(Items)
           /\ Trace \in Seq(Items) /\ Trace \in Seq(Nat)
<1>1. Nat \cup {Closed} \subseteq Items /\ Nat \cup {Final} \subseteq Items
    BY DEF Items
<1>2. queue \in Seq(Items) /\ item \in Seq(Items) /\ sent \in Seq(Items)
    BY <1>1, SeqMonotonic DEF StreamTypeOK
<1>3. sent \o item \in Seq(Items) /\ sent \o item \o queue \in Seq(Items)
    BY <1>2, ConcatProperties
<1>4. QED
    BY <1>2, <1>3, TraceType DEF StreamTypeOK, ContractTypeOK

-----------------------------------------------------------------------------
LEMMA StreamInitially == StreamInit => StreamInv
<1> SUFFICES ASSUME StreamInit PROVE StreamInv
    OBVIOUS
<1>1. StreamTypeOK
    <2>1. ContractTypeOK
        BY DEF StreamInit, ContractInit, ContractTypeOK
    <2>2. << >> \in Seq(Nat \cup {Closed}) /\ << >> \in Seq(Nat \cup {Final})
        OBVIOUS
    <2>3. QED
        BY <2>1, <2>2 DEF StreamInit, StreamTypeOK, ReaderStages
<1>2. Trace = << >>
    <2>1. Trace \in Seq(Nat) /\ Len(Trace) = 0
        BY TraceType DEF StreamInit, ContractInit
    <2>2. QED
        BY <2>1, EmptySeq
<1>3. sent \o item \o queue = << >>
    BY ConcatEmptySeq, AllItems, <1>1 DEF StreamInit
<1>4. << >> # << Final >>
    OBVIOUS
<1>5. OnTheWay
    BY <1>2, <1>3, <1>4 DEF StreamInit, ContractInit, OnTheWay, HoldsFinal
<1>6. QED
    BY <1>1, <1>5 DEF StreamInit, ContractInit, StreamInv

\* While the driver runs, a reader that has not left is on the way, and the sink
\* is open.
LEMMA DrivingOnTheWay ==
    ASSUME StreamInv, phase = "driving"
    PROVE  /\ closed = FALSE
           /\ reader # "left" =>
                 /\ reader \in {"waiting", "holding", "sending"} /\ ~ HoldsFinal
                 /\ sent \o item \o queue = Trace
BY DEF StreamInv, OnTheWay, AtTheEnd, Complete, StreamTypeOK

LEMMA EmitsKeeps == ASSUME StreamInv, DriverEmits PROVE StreamInv'
<1>1. PICK n \in 1..MaxBurst : /\ EmitBurst(n) \/ FallBack(n)
                               /\ PutAll(Burst(n))
                               /\ UNCHANGED << closed, readerVars, connected >>
    BY DEF DriverEmits
<1>2. /\ n \in Nat /\ steps \in Nat /\ steps' = steps + n
      /\ phase = "driving" /\ phase' = phase /\ verdict' = verdict /\ fellBack' \in BOOLEAN
    <2>1. n \in Nat
        BY ContractAssumption
    <2>2. steps \in Nat /\ fellBack \in BOOLEAN
        BY DEF StreamInv, StreamTypeOK, ContractTypeOK
    <2>3. CASE EmitBurst(n)
        BY <2>1, <2>2, <2>3 DEF EmitBurst
    <2>4. CASE FallBack(n)
        BY <2>1, <2>2, <2>4 DEF FallBack
    <2>5. QED
        BY <1>1, <2>3, <2>4
<1>3. UNCHANGED << closed, reader, item, sent, connected >>
    BY <1>1 DEF readerVars
<1>4. Trace' = Trace \o Burst(n) /\ Burst(n) \in Seq(Nat)
    BY <1>2, BurstExtendsTrace
<1>5. queue' = queue \o Burst(n)
    BY <1>1, <1>2, DrivingOnTheWay DEF PutAll
<1>6. StreamTypeOK'
    <2>1. Burst(n) \in Seq(Nat \cup {Closed})
        BY <1>4, SeqMonotonic
    <2>2. queue' \in Seq(Nat \cup {Closed})
        BY <1>5, <2>1, ConcatProperties DEF StreamInv, StreamTypeOK
    <2>3. ContractTypeOK'
        BY <1>2 DEF ContractTypeOK, StreamInv, StreamTypeOK
    <2>4. QED
        BY <1>3, <2>2, <2>3 DEF StreamInv, StreamTypeOK
<1>7. reader' # "left" => OnTheWay'
    <2> SUFFICES ASSUME reader # "left" PROVE OnTheWay'
        BY <1>3
    <2>1. Burst(n) \in Seq(Items)
        BY <1>4, SeqMonotonic DEF Items
    <2>2. sent \o item \o queue' = (sent \o item \o queue) \o Burst(n)
        <3>1. queue \in Seq(Items) /\ item \in Seq(Items) /\ sent \in Seq(Items)
            BY AllItems DEF StreamInv
        <3>2. sent \o item \o (queue \o Burst(n)) = (sent \o item \o queue) \o Burst(n)
            BY <2>1, <3>1, PutAfter
        <3>3. QED
            BY <1>5, <3>2
    <2>3. sent' \o item' \o queue' = Trace'
        BY <1>2, <1>3, <1>4, <2>2, DrivingOnTheWay
    <2>4. QED
        BY <1>2, <1>3, <2>3, DrivingOnTheWay DEF OnTheWay, HoldsFinal
<1>8. QED
    BY <1>2, <1>3, <1>6, <1>7 DEF StreamInv

LEMMA AnswersKeeps == ASSUME StreamInv, DriverAnswers PROVE StreamInv'
<1>1. /\ phase = "driving" /\ phase' = "answered" /\ UNCHANGED << steps, fellBack >>
      /\ verdict' \in {"ok", "partial", "error"}
    BY DEF DriverAnswers, GiveAnswer
<1>2. UNCHANGED << reader, item, sent, connected >> /\ closed' = TRUE
    BY DEF DriverAnswers, Close, readerVars
<1>3. queue' = Append(queue, Closed)
    BY <1>1, DrivingOnTheWay DEF DriverAnswers, Close
<1>4. StreamTypeOK'
    <2>1. queue' \in Seq(Nat \cup {Closed})
        BY <1>3, AppendProperties DEF StreamInv, StreamTypeOK
    <2>2. ContractTypeOK'
        BY <1>1 DEF ContractTypeOK, StreamInv, StreamTypeOK
    <2>3. QED
        BY <1>2, <2>1, <2>2 DEF StreamInv, StreamTypeOK
<1>5. reader' # "left" => OnTheWay'
    <2> SUFFICES ASSUME reader # "left" PROVE OnTheWay'
        BY <1>2
    <2>1. Closed \in Items
        BY DEF Items
    <2>2. /\ queue' = queue \o << Closed >> /\ << Closed >> \in Seq(Items)
          /\ Append(Trace, Closed) = Trace \o << Closed >>
        BY <1>3, <2>1, AllItems, AppendThenConcat DEF StreamInv
    <2>3. sent \o item \o queue' = (sent \o item \o queue) \o << Closed >>
        BY <2>2, AllItems, PutAfter DEF StreamInv
    <2>4. Trace' = Trace
        BY <1>1 DEF Trace
    <2>5. sent' \o item' \o queue' = Append(Trace', Closed)
        BY <1>1, <1>2, <2>2, <2>3, <2>4, DrivingOnTheWay
    <2>6. QED
        BY <1>1, <1>2, <2>5, DrivingOnTheWay DEF OnTheWay, HoldsFinal
<1>6. QED
    BY <1>1, <1>2, <1>4, <1>5 DEF StreamInv

LEMMA CrashesKeeps == ASSUME StreamInv, DriverCrashes PROVE StreamInv'
<1>1. /\ phase = "driving" /\ phase' = "crashed" /\ UNCHANGED << steps, fellBack, verdict >>
      /\ UNCHANGED << queue, closed, reader, item, sent, connected >>
    BY DEF DriverCrashes, Crash, readerVars
<1>2. Trace' = Trace
    BY <1>1 DEF Trace
<1>3. StreamTypeOK'
    BY <1>1 DEF StreamInv, StreamTypeOK, ContractTypeOK
<1>4. reader' # "left" => OnTheWay'
    BY <1>1, <1>2, DrivingOnTheWay DEF OnTheWay, HoldsFinal
<1>5. closed' = FALSE
    BY <1>1, DrivingOnTheWay
<1>6. QED
    BY <1>1, <1>3, <1>4, <1>5 DEF StreamInv

-----------------------------------------------------------------------------
\* A reader that waits is on the way with an empty hand.
LEMMA WaitingOnTheWay ==
    ASSUME StreamInv, reader = "waiting"
    PROVE  /\ item = << >>
           /\ sent \o item \o queue =
                 IF phase = "answered" THEN Append(Trace, Closed) ELSE Trace
BY DEF StreamInv, OnTheWay, AtTheEnd, Complete

LEMMA GetEventKeeps == ASSUME StreamInv, GetEvent PROVE StreamInv'
<1>1. /\ reader = "waiting" /\ queue # << >> /\ Head(queue) # Closed
      /\ item' = << Head(queue) >> /\ queue' = Tail(queue) /\ reader' = "holding"
      /\ UNCHANGED << phase, steps, fellBack, verdict, closed, sent, connected >>
    BY DEF GetEvent, contractVars
<1>2. /\ Head(queue) \in Nat
      /\ queue' \in Seq(Nat \cup {Closed})
    BY <1>1, HeadTailProperties DEF StreamInv, StreamTypeOK
<1>3. item' \in Seq(Nat \cup {Final}) /\ Head(queue) # Final
    BY <1>1, <1>2, StreamAssumption
<1>4. StreamTypeOK'
    BY <1>1, <1>2, <1>3 DEF StreamInv, StreamTypeOK, ContractTypeOK, ReaderStages
<1>5. OnTheWay'
    <2>1. item = << >>
        BY <1>1, WaitingOnTheWay
    <2>2. sent \o item' \o queue' = sent \o item \o queue
        BY <1>1, <2>1, TakeHead, AllItems DEF StreamInv
    <2>3. Trace' = Trace
        BY <1>1 DEF Trace
    <2>4. ~ HoldsFinal'
        BY <1>1, <1>3 DEF HoldsFinal
    <2>5. QED
        BY <1>1, <2>2, <2>3, <2>4, WaitingOnTheWay DEF OnTheWay
<1>6. QED
    BY <1>1, <1>2, <1>4, <1>5 DEF StreamInv

LEMMA GetFinalKeeps == ASSUME StreamInv, GetFinal PROVE StreamInv'
<1>1. /\ reader = "waiting" /\ queue # << >> /\ Head(queue) = Closed
      /\ phase = "answered"
      /\ item' = << Final >> /\ queue' = Tail(queue) /\ reader' = "holding"
      /\ UNCHANGED << phase, steps, fellBack, verdict, closed, sent, connected >>
    BY DEF GetFinal, contractVars
<1>2. sent = Trace /\ Tail(queue) = << >>
    <2>1. sent \o item \o queue = Append(Trace, Closed) /\ item = << >>
        BY <1>1, WaitingOnTheWay
    <2>2. sent \o item = sent
        BY <2>1, AllItems, ConcatEmptySeq DEF StreamInv
    <2>3. sent \o queue = Append(Trace, Closed)
        BY <2>1, <2>2
    <2>4. QED
        BY <1>1, <2>3, AllItems, MarkerIsLast DEF StreamInv
<1>3. StreamTypeOK'
    <2>1. queue' \in Seq(Nat \cup {Closed}) /\ item' \in Seq(Nat \cup {Final})
        <3>1. << >> \in Seq(Nat \cup {Closed}) /\ << Final >> \in Seq(Nat \cup {Final})
            OBVIOUS
        <3>2. QED
            BY <1>1, <1>2, <3>1
    <2>2. QED
        BY <1>1, <2>1 DEF StreamInv, StreamTypeOK, ContractTypeOK, ReaderStages
<1>4. AtTheEnd'
    BY <1>1, <1>2 DEF AtTheEnd, HoldsFinal, Trace
<1>5. QED
    BY <1>1, <1>3, <1>4 DEF StreamInv

LEMMA CheckKeeps == ASSUME StreamInv, CheckConnection PROVE StreamInv'
<1>1. /\ reader = "holding"
      /\ UNCHANGED << phase, steps, fellBack, verdict, queue, closed, sent, connected >>
    BY DEF CheckConnection, contractVars
<1>2. Trace' = Trace
    BY <1>1 DEF Trace
<1>3. CASE connected
    <2>1. reader' = "sending" /\ item' = item
        BY <1>3 DEF CheckConnection
    <2>2. StreamTypeOK'
        BY <1>1, <2>1 DEF StreamInv, StreamTypeOK, ContractTypeOK, ReaderStages
    <2>3. OnTheWay' \/ AtTheEnd'
        BY <1>1, <1>2, <2>1 DEF StreamInv, OnTheWay, AtTheEnd, Complete, HoldsFinal
    <2>4. QED
        BY <1>1, <2>1, <2>2, <2>3 DEF StreamInv
<1>4. CASE ~ connected
    <2>1. reader' = "left" /\ item' = << >>
        BY <1>4 DEF CheckConnection
    <2>2. StreamTypeOK'
        BY <1>1, <2>1 DEF StreamInv, StreamTypeOK, ContractTypeOK, ReaderStages
    <2>3. QED
        BY <1>1, <2>1, <2>2 DEF StreamInv
<1>5. QED
    BY <1>3, <1>4

LEMMA SendKeeps == ASSUME StreamInv, Send PROVE StreamInv'
<1>1. /\ reader = "sending" /\ sent' = sent \o item /\ item' = << >>
      /\ reader' = IF HoldsFinal THEN "served" ELSE "waiting"
      /\ UNCHANGED << phase, steps, fellBack, verdict, queue, closed, connected >>
    BY DEF Send, contractVars, HoldsFinal
<1>2. Trace' = Trace
    BY <1>1 DEF Trace
<1>3. StreamTypeOK'
    <2>1. sent' \in Seq(Nat \cup {Final})
        BY <1>1, ConcatProperties DEF StreamInv, StreamTypeOK
    <2>2. item' \in Seq(Nat \cup {Final})
        BY <1>1
    <2>3. QED
        BY <1>1, <2>1, <2>2 DEF StreamInv, StreamTypeOK, ContractTypeOK, ReaderStages
<1>4. CASE HoldsFinal
    <2>1. sent = Trace /\ queue = << >> /\ phase = "answered" /\ item = << Final >>
        BY <1>1, <1>4 DEF StreamInv, OnTheWay, AtTheEnd, Complete, HoldsFinal
    <2>2. sent' = Append(Trace, Final)
        <3>1. Final \in Items
            BY DEF Items
        <3>2. QED
            BY <1>1, <2>1, <3>1, AllItems, AppendThenConcat DEF StreamInv
    <2>3. Complete'
        BY <1>1, <1>2, <1>4, <2>1, <2>2 DEF Complete
    <2>4. QED
        BY <1>1, <1>3, <2>3, <1>4 DEF StreamInv
<1>5. CASE ~ HoldsFinal
    <2>1. sent \o item \o queue = IF phase = "answered" THEN Append(Trace, Closed) ELSE Trace
        BY <1>1, <1>5 DEF StreamInv, OnTheWay, AtTheEnd, Complete
    <2>2. sent' \o item' = sent \o item
        BY <1>1, AllItems, ConcatEmptySeq DEF StreamInv
    <2>3. OnTheWay'
        BY <1>1, <1>2, <1>5, <2>1, <2>2 DEF OnTheWay, HoldsFinal
    <2>4. QED
        BY <1>1, <1>3, <1>5, <2>3 DEF StreamInv
<1>6. QED
    BY <1>4, <1>5

LEMMA CancelKeeps == ASSUME StreamInv, Cancel PROVE StreamInv'
<1>1. /\ reader' = "left" /\ item' = << >>
      /\ UNCHANGED << phase, steps, fellBack, verdict, queue, closed, sent, connected >>
    BY DEF Cancel, contractVars
<1>2. StreamTypeOK'
    BY <1>1 DEF StreamInv, StreamTypeOK, ContractTypeOK, ReaderStages
<1>3. QED
    BY <1>1, <1>2 DEF StreamInv

\* Whether the client is there, and a finished stream's idling, are no part of it.
LEMMA IdleKeeps ==
    ASSUME StreamInv, Disconnect \/ StreamOver \/ UNCHANGED streamVars
    PROVE  StreamInv'
<1>1. /\ UNCHANGED << phase, steps, fellBack, verdict, queue, closed, reader, item, sent >>
      /\ connected' \in BOOLEAN
    BY DEF Disconnect, StreamOver, streamVars, contractVars, readerVars, StreamInv, StreamTypeOK
<1>2. StreamTypeOK'
    BY <1>1 DEF StreamInv, StreamTypeOK, ContractTypeOK
<1>3. Trace' = Trace
    BY <1>1 DEF Trace
<1>4. /\ OnTheWay => OnTheWay'
      /\ AtTheEnd => AtTheEnd'
      /\ Complete => Complete'
    BY <1>1, <1>3 DEF OnTheWay, AtTheEnd, Complete, HoldsFinal
<1>5. QED
    BY <1>1, <1>2, <1>4 DEF StreamInv

LEMMA StreamStep == StreamInv /\ [StreamNext]_streamVars => StreamInv'
<1> SUFFICES ASSUME StreamInv, [StreamNext]_streamVars PROVE StreamInv'
    OBVIOUS
<1>1. CASE DriverEmits
    BY <1>1, EmitsKeeps
<1>2. CASE DriverAnswers
    BY <1>2, AnswersKeeps
<1>3. CASE DriverCrashes
    BY <1>3, CrashesKeeps
<1>4. CASE GetEvent
    BY <1>4, GetEventKeeps
<1>5. CASE GetFinal
    BY <1>5, GetFinalKeeps
<1>6. CASE CheckConnection
    BY <1>6, CheckKeeps
<1>7. CASE Send
    BY <1>7, SendKeeps
<1>8. CASE Cancel
    BY <1>8, CancelKeeps
<1>9. CASE Disconnect \/ StreamOver \/ UNCHANGED streamVars
    BY <1>9, IdleKeeps
<1>10. QED
    BY <1>1, <1>2, <1>3, <1>4, <1>5, <1>6, <1>7, <1>8, <1>9
       DEF StreamNext, DriverStep, ReaderStep

LEMMA StreamInvariance == StreamSpec => []StreamInv
BY StreamInitially, StreamStep, PTL DEF StreamSpec

-----------------------------------------------------------------------------
\* The stream's state is well typed, whatever the two tasks and the client do.
THEOREM StreamTypeCorrect == StreamSpec => []StreamTypeOK
<1>1. StreamInv => StreamTypeOK
    BY DEF StreamInv
<1>2. QED
    BY <1>1, StreamInvariance, PTL

\* For traces and bursts of every length: until the reader leaves, what it sent,
\* holds and has queued is the run's trace, followed by the end marker or the
\* response (EventSink.emit, close and stream; run_stream).
THEOREM NothingIsLost == StreamSpec => []NothingLost
<1>1. ASSUME StreamInv, reader # "left"
      PROVE  sent \o item \o queue \in
                IF phase = "answered" THEN { Append(Trace, Closed), Append(Trace, Final) }
                ELSE { Trace }
    <2>1. CASE OnTheWay
        BY <2>1 DEF OnTheWay
    <2>2. Final \in Items /\ << >> \in Seq(Items)
        BY DEF Items
    <2>3. CASE AtTheEnd
        <3>1. sent \o item = Append(Trace, Final)
            BY <2>2, <2>3, <1>1, AllItems, AppendThenConcat DEF AtTheEnd, HoldsFinal, StreamInv
        <3>2. sent \o item \o queue = sent \o item
            BY <2>3, <1>1, AllItems, ConcatEmptySeq DEF AtTheEnd, StreamInv
        <3>3. QED
            BY <2>3, <3>1, <3>2 DEF AtTheEnd
    <2>4. CASE Complete
        <3>1. sent \o item \o queue = sent
            BY <2>4, <1>1, AllItems, ConcatEmptySeq DEF Complete, StreamInv
        <3>2. QED
            BY <2>4, <3>1 DEF Complete
    <2>5. QED
        BY <1>1, <2>1, <2>3, <2>4 DEF StreamInv
<1>2. StreamInv => NothingLost
    BY <1>1 DEF NothingLost
<1>3. QED
    BY <1>2, StreamInvariance, PTL

\* A stream that completes has sent every event of the response and then the
\* response (run_stream: "then a final RunResponse as the last item").
THEOREM ServedStreamsAreComplete == StreamSpec => []ServedIsComplete
<1>1. StreamInv => ServedIsComplete
    BY DEF StreamInv, ServedIsComplete, OnTheWay, AtTheEnd, Complete
<1>2. QED
    BY <1>1, StreamInvariance, PTL

-----------------------------------------------------------------------------
(***************************************************************************)
(* The stream implements the feed its client is promised.                  *)
(***************************************************************************)
\* The element behind s, wherever the rest ends.
LEMMA ElementBehind ==
    ASSUME NEW S, NEW s \in Seq(S), NEW x \in S, NEW q \in Seq(S)
    PROVE  /\ Len(s) + 1 \in 1..Len(s \o << x >> \o q)
           /\ (s \o << x >> \o q)[Len(s) + 1] = x
<1>1. /\ << x >> \in Seq(S) /\ Len(<< x >>) = 1 /\ << x >>[1] = x
      /\ Len(s) \in Nat /\ Len(q) \in Nat
    OBVIOUS
<1>2. /\ s \o << x >> \in Seq(S) /\ Len(s \o << x >>) = Len(s) + 1
      /\ (s \o << x >>)[Len(s) + 1] = x
    BY <1>1, ConcatProperties
<1>3. /\ Len(s \o << x >> \o q) = Len(s) + 1 + Len(q)
      /\ \A i \in 1..(Len(s) + 1 + Len(q)) : (s \o << x >> \o q)[i] =
            IF i <= Len(s) + 1 THEN (s \o << x >>)[i] ELSE q[i - (Len(s) + 1)]
    BY <1>1, <1>2, ConcatProperties
<1>4. Len(s) + 1 \in 1..(Len(s) + 1 + Len(q))
    BY <1>1
<1>5. QED
    BY <1>1, <1>2, <1>3, <1>4

\* The event in the reader's hand is the next one of the trace.
LEMMA HandIsNext ==
    ASSUME StreamInv, reader = "sending", ~ HoldsFinal
    PROVE  item = << Len(sent) + 1 >> /\ Len(sent) + 1 <= steps
<1>1. PICK x \in Nat \cup {Final} : item = << x >>
    BY DEF StreamInv
<1>2. x \in Nat /\ x \in Items /\ x # Closed
    <2>1. x # Final
        BY <1>1 DEF HoldsFinal
    <2>2. QED
        BY <1>1, <2>1, StreamAssumption DEF Items
<1>3. OnTheWay
    BY DEF StreamInv, AtTheEnd, Complete, HoldsFinal
<1>4. /\ sent \in Seq(Items) /\ queue \in Seq(Items) /\ Len(sent) \in Nat
      /\ steps \in Nat /\ Trace \in Seq(Items) /\ Len(Trace) = steps
    BY AllItems, TraceType DEF StreamInv, StreamTypeOK, ContractTypeOK
<1> DEFINE k == Len(sent) + 1
           whole == sent \o item \o queue
<1>5. k \in 1..Len(whole) /\ whole[k] = x
    BY <1>1, <1>2, <1>4, ElementBehind
<1>6. k \in 1..steps /\ Trace[k] = x
    <2>1. CASE phase = "answered"
        <3>1. whole = Append(Trace, Closed)
            BY <1>3, <2>1 DEF OnTheWay
        <3>2. Closed \in Items
            BY DEF Items
        <3>3. /\ Len(Append(Trace, Closed)) = steps + 1
              /\ Append(Trace, Closed)[steps + 1] = Closed
              /\ \A i \in 1..steps : Append(Trace, Closed)[i] = Trace[i]
            BY <1>4, <3>2, AppendProperties
        <3> HIDE DEF whole, k
        <3>4. k \in 1..(steps + 1) /\ Append(Trace, Closed)[k] = x
            BY <1>5, <3>1, <3>3
        <3>5. k # steps + 1
            BY <1>2, <3>3, <3>4
        <3>6. k \in 1..steps
            BY <1>4, <3>4, <3>5
        <3>7. QED
            BY <3>3, <3>4, <3>6
    <2>2. CASE phase # "answered"
        <3>1. whole = Trace
            BY <1>3, <2>2 DEF OnTheWay
        <3> HIDE DEF whole
        <3>2. QED
            BY <1>4, <1>5, <3>1
    <2>3. QED
        BY <2>1, <2>2
<1>7. x = k
    BY <1>6 DEF Trace
<1>8. QED
    BY <1>1, <1>4, <1>6, <1>7

\* A step of the stream is one of the feed, or hidden from its client.
FeedStep == [Feed!FeedNext]_(Feed!feedVars)

\* A step that moves nothing of the feed.
LEMMA FeedIdle ==
    ASSUME UNCHANGED << steps, phase, sent, reader >>
    PROVE  FeedStep
BY DEF FeedStep, Feed!feedVars

LEMMA FeedDriver == ASSUME StreamInv, DriverStep PROVE FeedStep
<1>1. CASE DriverEmits
    <2>1. PICK n \in 1..MaxBurst : EmitBurst(n) \/ FallBack(n)
        BY <1>1 DEF DriverEmits
    <2>2. phase = "driving" /\ phase' = "driving" /\ steps' = steps + n
        BY <2>1 DEF EmitBurst, FallBack
    <2>3. UNCHANGED << sent, reader >>
        BY <1>1 DEF DriverEmits, readerVars
    <2>4. Feed!RunEmits
        BY <2>2, <2>3 DEF Feed!RunEmits
    <2>5. QED
        BY <2>4 DEF FeedStep, Feed!FeedNext
<1>2. CASE DriverAnswers
    <2>1. /\ phase = "driving" /\ phase' = "answered"
          /\ UNCHANGED << steps, sent, reader >>
        BY <1>2 DEF DriverAnswers, GiveAnswer, readerVars
    <2>2. Feed!RunAnswers
        BY <2>1 DEF Feed!RunAnswers
    <2>3. QED
        BY <2>2 DEF FeedStep, Feed!FeedNext
<1>3. CASE DriverCrashes
    <2>1. /\ phase = "driving" /\ phase' = "crashed"
          /\ UNCHANGED << steps, sent, reader >>
        BY <1>3 DEF DriverCrashes, Crash, readerVars
    <2>2. UNCHANGED Feed!feedVars
        BY <2>1 DEF Feed!feedVars
    <2>3. QED
        BY <2>2 DEF FeedStep
<1>4. QED
    BY <1>1, <1>2, <1>3 DEF DriverStep

LEMMA FeedSend == ASSUME StreamInv, Send PROVE FeedStep
<1>1. /\ reader = "sending" /\ sent' = sent \o item
      /\ reader' = IF HoldsFinal THEN "served" ELSE "waiting"
      /\ UNCHANGED << phase, steps >>
    BY DEF Send, contractVars, HoldsFinal
<1>2. sent \in Seq(Items) /\ Final \in Items /\ Nat \subseteq Items /\ Len(sent) \in Nat
    BY AllItems DEF StreamInv, Items
<1>3. CASE HoldsFinal
    <2>1. AtTheEnd
        BY <1>1, <1>3 DEF StreamInv, OnTheWay, Complete
    <2>2. sent' = Append(sent, Final)
        BY <1>1, <1>2, <1>3, AppendThenConcat DEF HoldsFinal
    <2>3. phase = "answered" /\ Len(sent) = steps
        BY <2>1, TraceType DEF AtTheEnd, StreamInv, StreamTypeOK, ContractTypeOK
    <2>4. Feed!ShowFinal
        BY <1>1, <1>3, <2>2, <2>3 DEF Feed!ShowFinal
    <2>5. QED
        BY <2>4 DEF FeedStep, Feed!FeedNext
<1>4. CASE ~ HoldsFinal
    <2>1. item = << Len(sent) + 1 >> /\ Len(sent) + 1 <= steps
        BY <1>1, <1>4, HandIsNext
    <2>2. sent' = Append(sent, Len(sent) + 1)
        <3>1. Len(sent) + 1 \in Items
            BY <1>2
        <3>2. QED
            BY <1>1, <1>2, <2>1, <3>1, AppendThenConcat
    <2>3. Len(sent) < steps
        BY <1>2, <2>1 DEF StreamInv, StreamTypeOK, ContractTypeOK
    <2>4. Feed!Show
        BY <1>1, <1>4, <2>2, <2>3 DEF Feed!Show
    <2>5. QED
        BY <2>4 DEF FeedStep, Feed!FeedNext
<1>5. QED
    BY <1>3, <1>4

\* Breaking out and being cancelled: the view stays as it is.
LEMMA FeedLeave ==
    ASSUME reader \notin {"served", "left"}, reader' = "left", UNCHANGED << steps, phase, sent >>
    PROVE  FeedStep
<1>1. Feed!Leave
    BY DEF Feed!Leave
<1>2. QED
    BY <1>1 DEF FeedStep, Feed!FeedNext

\* Between reading, holding and sending the client sees no difference.
LEMMA FeedOpen ==
    ASSUME reader \notin {"served", "left"}, reader' \notin {"served", "left"},
           UNCHANGED << steps, phase, sent >>
    PROVE  FeedStep
<1>1. UNCHANGED Feed!feedVars
    BY DEF Feed!feedVars
<1>2. QED
    BY <1>1 DEF FeedStep

LEMMA FeedNextStep == ASSUME StreamInv, [StreamNext]_streamVars PROVE FeedStep
<1>1. CASE DriverStep
    BY <1>1, FeedDriver
<1>2. CASE GetEvent \/ GetFinal
    BY <1>2, FeedOpen DEF GetEvent, GetFinal, contractVars
<1>3. CASE CheckConnection
    <2>1. /\ reader = "holding" /\ reader' \in {"sending", "left"}
          /\ UNCHANGED << steps, phase, sent >>
        BY <1>3 DEF CheckConnection, contractVars
    <2>2. QED
        BY <2>1, FeedOpen, FeedLeave
<1>4. CASE Send
    BY <1>4, FeedSend
<1>5. CASE Cancel
    BY <1>5, FeedLeave DEF Cancel, contractVars
<1>6. CASE Disconnect \/ StreamOver \/ UNCHANGED streamVars
    BY <1>6, FeedIdle DEF Disconnect, StreamOver, streamVars, readerVars, contractVars
<1>7. QED
    BY <1>1, <1>2, <1>3, <1>4, <1>5, <1>6 DEF StreamNext, ReaderStep

\* For bursts and traces of every length, however the driver, the reader and the
\* client interleave, crashes included: what a client is shown is a behaviour of the
\* feed (EventSink, run_stream and event_gen together).
THEOREM StreamImplementsFeed == StreamSpec => ImplementsFeed
<1>1. StreamInit => Feed!FeedInit
    BY DEF StreamInit, ContractInit, Feed!FeedInit
<1>2. StreamInv /\ [StreamNext]_streamVars => [Feed!FeedNext]_(Feed!feedVars)
    BY FeedNextStep DEF FeedStep
<1>3. QED
    BY <1>1, <1>2, StreamInvariance, PTL DEF StreamSpec, ImplementsFeed, Feed!FeedSpec
=============================================================================
