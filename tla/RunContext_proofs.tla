-------------------------- MODULE RunContext_proofs -------------------------
(***************************************************************************)
(* The logging context, for every number of consumers and runs and every   *)
(* request: which run's fields a log line carries, and what stays bound.   *)
(***************************************************************************)
EXTENDS RunContext, TLAPS

\* The caller of the run is inside it.
Active(r) == phase[r] \in {"awaited", "streamed"}

\* A consumer is inside one run at a time.
AloneInv ==
    \A r, q \in Runs : Active(r) /\ Active(q) /\ caller[r] = caller[q] => r = q

\* A run that was started has a caller, and only such a run drives.
StartedInv ==
    \A r \in Runs : /\ phase[r] = "new" => r \notin driving
                    /\ phase[r] # "new" => caller[r] \in Consumers

\* While a run is active, its caller's context is what the run bound over what it
\* found, and it found nothing but what dropped streams had left.
BoundInv ==
    \A r \in Runs, k \in Keys : Active(r) =>
        /\ pairs[r][k] \in {None} \cup LeftBy(caller[r], k)
        /\ context[caller[r]][k] =
              IF BoundBy(r)[k] = None THEN pairs[r][k] ELSE BoundBy(r)[k]

\* The value of variable k is the run's own, or one it does not bind and a dropped
\* stream had left.
OwnOrLeft(v, r, k) ==
    \/ v = BoundBy(r)[k]
    \/ BoundBy(r)[k] = None /\ v \in LeftBy(caller[r], k)

\* The same of the copy that the driver task of a stream has.
CopiedInv ==
    \A r \in driving, k \in Keys : phase[r] # "awaited" => OwnOrLeft(copied[r][k], r, k)

CInv ==
    /\ ContextTypeOK /\ AloneInv /\ StartedInv /\ BoundInv /\ CopiedInv
    /\ OnlyDroppedLeak

\* What a run binds has its type, and no step changes it.
LEMMA BoundByType ==
    ASSUME ContextTypeOK, NEW r \in Runs
    PROVE  BoundBy(r) \in [Keys -> Values \cup {None}]
BY DEF ContextTypeOK, BoundBy, RequestType, Keys, Values

\* What a dropped stream left stays among what dropped streams left: a step of the
\* phases that only starts new runs, or ends active ones, keeps LeftBy.
LEMMA LeftByGrows ==
    ASSUME NEW c \in Consumers, NEW k \in Keys, request' = request,
           \A q \in Runs : phase[q] \in {"dropped", "finalised"} =>
               /\ phase'[q] \in {"dropped", "finalised"}
               /\ caller'[q] = caller[q]
    PROVE  LeftBy(c, k) \subseteq LeftBy(c, k)'
BY DEF LeftBy, BoundBy

\* The initial states satisfy the invariant.
LEMMA ContextInitInv == ContextInit => CInv
<1> SUFFICES ASSUME ContextInit PROVE CInv
    OBVIOUS
<1>1. ContextTypeOK
    BY DEF ContextInit, ContextTypeOK, Unbound, Phases
<1>2. AloneInv /\ StartedInv /\ BoundInv /\ CopiedInv
    BY DEF ContextInit, AloneInv, StartedInv, BoundInv, CopiedInv, Active
<1>3. OnlyDroppedLeak
    BY DEF ContextInit, OnlyDroppedLeak, Unbound
<1>4. QED
    BY <1>1, <1>2, <1>3 DEF CInv
-----------------------------------------------------------------------------
\* Binding at the start of a run, awaited or streamed.
LEMMA BindInv ==
    ASSUME CInv, NEW c \in Consumers, NEW r \in Runs, RunBegins(c, r) \/ StreamBegins(c, r)
    PROVE  CInv'
<1> USE DEF CInv
<1>1. /\ phase[r] = "new" /\ Free(c)
      /\ pairs' = [pairs EXCEPT ![r] = context[c]]
      /\ context' = [context EXCEPT ![c] = SetAll(context[c], r)]
      /\ caller' = [caller EXCEPT ![r] = c]
      /\ driving' = driving \cup {r}
      /\ request' = request
    BY DEF RunBegins, StreamBegins, Bind
<1>2. PICK p \in {"awaited", "streamed"} : phase' = [phase EXCEPT ![r] = p]
    BY DEF RunBegins, StreamBegins
<1>3. \/ p = "awaited" /\ copied' = copied
      \/ p = "streamed" /\ copied' = [copied EXCEPT ![r] = context'[c]]
    <2>1. phase'[r] = p
        BY <1>2 DEF ContextTypeOK
    <2>2. QED
        BY <2>1 DEF RunBegins, StreamBegins, CopiedContext, ContextTypeOK
<1>4. \A q \in Runs : BoundBy(q)' = BoundBy(q)
    BY <1>1 DEF BoundBy
<1>5. \A q \in Runs : BoundBy(q) \in [Keys -> Values \cup {None}]
    BY BoundByType
<1>6. SetAll(context[c], r) \in [Keys -> Values \cup {None}]
    BY <1>5 DEF SetAll, ContextTypeOK
<1>7. ContextTypeOK'
    BY <1>1, <1>2, <1>3, <1>6 DEF ContextTypeOK, Phases
<1>8. \A d \in Consumers, k \in Keys : LeftBy(d, k) \subseteq LeftBy(d, k)'
    BY <1>1, <1>2, LeftByGrows DEF ContextTypeOK
<1>9. \A q \in Runs : q # r => /\ phase'[q] = phase[q] /\ caller'[q] = caller[q]
                               /\ pairs'[q] = pairs[q]
    BY <1>1, <1>2 DEF ContextTypeOK
<1>10. phase'[r] = p /\ caller'[r] = c /\ pairs'[r] = context[c]
    BY <1>1, <1>2 DEF ContextTypeOK
<1>11. \A q \in Runs : q # r /\ Active(q) => caller[q] # c
    BY <1>1 DEF Free, Active
<1>12. AloneInv'
    BY <1>9, <1>10, <1>11 DEF AloneInv, Active
<1>13. StartedInv'
    BY <1>1, <1>2, <1>9, <1>10 DEF StartedInv
<1>14. context'[c] = SetAll(context[c], r)
       /\ \A d \in Consumers : d # c => context'[d] = context[d]
    BY <1>1 DEF ContextTypeOK
<1>15. \A k \in Keys : context[c][k] \in {None} \cup LeftBy(c, k)
    BY <1>1 DEF OnlyDroppedLeak
<1>16. BoundInv'
    <2> SUFFICES ASSUME NEW q \in Runs, NEW k \in Keys, Active(q)'
                 PROVE  /\ pairs'[q][k] \in {None} \cup LeftBy(caller[q], k)'
                        /\ context'[caller'[q]][k] =
                              IF BoundBy(q)[k] = None THEN pairs'[q][k] ELSE BoundBy(q)[k]
        BY <1>4 DEF BoundInv
    <2>1. CASE q = r
        BY <1>8, <1>10, <1>14, <1>15, <2>1 DEF SetAll
    <2>2. CASE q # r
        <3>1. Active(q) /\ caller[q] # c /\ caller[q] \in Consumers
            BY <1>9, <1>11, <2>2 DEF Active, StartedInv
        <3>2. /\ pairs[q][k] \in {None} \cup LeftBy(caller[q], k)
              /\ context[caller[q]][k] =
                    IF BoundBy(q)[k] = None THEN pairs[q][k] ELSE BoundBy(q)[k]
            BY <3>1 DEF BoundInv
        <3>3. LeftBy(caller[q], k) \subseteq LeftBy(caller[q], k)'
            <4>1. caller'[q] = caller[q]
                BY <1>9, <2>2
            <4>2. QED
                BY <1>8, <3>1, <4>1 DEF LeftBy
        <3>4. QED
            BY <1>9, <1>14, <2>2, <3>1, <3>2, <3>3
    <2>3. QED
        BY <2>1, <2>2
<1>17. CopiedInv'
    <2> SUFFICES ASSUME NEW q \in driving', NEW k \in Keys, phase'[q] # "awaited"
                 PROVE  OwnOrLeft(copied[q][k], q, k)'
        BY DEF CopiedInv
    <2>1. CASE q = r
        BY <1>3, <1>4, <1>8, <1>10, <1>14, <1>15, <2>1 DEF OwnOrLeft, SetAll, ContextTypeOK
    <2>2. CASE q # r
        <3>1. q \in driving /\ q \in Runs /\ phase[q] # "awaited" /\ copied'[q] = copied[q]
            BY <1>1, <1>3, <1>9, <2>2 DEF ContextTypeOK
        <3>2. OwnOrLeft(copied[q][k], q, k) /\ caller[q] \in Consumers
            BY <3>1 DEF CopiedInv, StartedInv
        <3>3. QED
            BY <1>4, <1>8, <1>9, <2>2, <3>1, <3>2 DEF OwnOrLeft
    <2>3. QED
        BY <2>1, <2>2
<1>18. OnlyDroppedLeak'
    <2> SUFFICES ASSUME NEW d \in Consumers, NEW k \in Keys, Free(d)'
                 PROVE  context'[d][k] \in {None} \cup LeftBy(d, k)'
        BY DEF OnlyDroppedLeak
    <2>1. d # c
        BY <1>10 DEF Free
    <2>2. Free(d)
        BY <1>9, <1>1, <2>1 DEF Free
    <2>3. QED
        BY <1>8, <1>14, <2>1, <2>2 DEF OnlyDroppedLeak
<1>19. QED
    BY <1>7, <1>12, <1>13, <1>16, <1>17, <1>18

\* Release at the end of a run or of a stream, in the caller's context.
LEMMA UnbindInv ==
    ASSUME CInv, NEW r \in Runs, RunEnds(r) \/ StreamEnds(r)
    PROVE  CInv'
<1> USE DEF CInv
<1> DEFINE c == caller[r]
<1>1. /\ Active(r)
      /\ phase' = [phase EXCEPT ![r] = "released"]
      /\ context' = [context EXCEPT ![c] = ResetAll(context[c], r)]
      /\ UNCHANGED << request, caller, pairs, copied >>
      /\ driving' \subseteq driving
      /\ phase[r] = "awaited" => r \notin driving'
    BY DEF RunEnds, StreamEnds, Unbind, Active, ContextTypeOK
<1>2. c \in Consumers
    BY <1>1 DEF StartedInv, Active
<1>3. /\ \A q \in Runs : BoundBy(q)' = BoundBy(q)
      /\ \A q \in Runs : BoundBy(q) \in [Keys -> Values \cup {None}]
    BY <1>1, BoundByType DEF BoundBy
<1>4. /\ phase'[r] = "released"
      /\ \A q \in Runs : q # r => phase'[q] = phase[q]
      /\ context'[c] = ResetAll(context[c], r)
      /\ \A d \in Consumers : d # c => context'[d] = context[d]
    BY <1>1, <1>2 DEF ContextTypeOK
<1>5. ContextTypeOK'
    <2>1. ResetAll(context[c], r) \in [Keys -> Values \cup {None}]
        BY <1>2 DEF ResetAll, ContextTypeOK
    <2>2. QED
        BY <1>1, <2>1 DEF ContextTypeOK, Phases
<1>6. \A d \in Consumers, k \in Keys : LeftBy(d, k) \subseteq LeftBy(d, k)'
    BY <1>1, <1>4, LeftByGrows DEF Active
<1>7. \A q \in Runs : Active(q)' => q # r /\ Active(q) /\ caller[q] # c
    BY <1>1, <1>4 DEF Active, AloneInv
<1>8. AloneInv'
    BY <1>1, <1>7 DEF AloneInv
<1>9. StartedInv'
    BY <1>1, <1>2, <1>4 DEF StartedInv
<1>10. BoundInv'
    <2> SUFFICES ASSUME NEW q \in Runs, NEW k \in Keys, Active(q)'
                 PROVE  /\ pairs'[q][k] \in {None} \cup LeftBy(caller[q], k)'
                        /\ context'[caller'[q]][k] =
                              IF BoundBy(q)[k] = None THEN pairs'[q][k] ELSE BoundBy(q)[k]
        BY <1>3 DEF BoundInv
    <2>1. Active(q) /\ caller[q] # c /\ caller[q] \in Consumers
        BY <1>7 DEF StartedInv, Active
    <2>2. LeftBy(caller[q], k) \subseteq LeftBy(caller[q], k)'
        <3>1. caller'[q] = caller[q]
            BY <1>1
        <3>2. QED
            BY <1>6, <2>1, <3>1 DEF LeftBy
    <2>3. QED
        BY <1>1, <1>4, <2>1, <2>2 DEF BoundInv
<1>11. CopiedInv'
    <2> SUFFICES ASSUME NEW q \in driving', NEW k \in Keys, phase'[q] # "awaited"
                 PROVE  OwnOrLeft(copied[q][k], q, k)'
        BY DEF CopiedInv
    <2>1. q \in driving /\ q \in Runs /\ phase[q] # "awaited"
        BY <1>1, <1>4 DEF ContextTypeOK
    <2>2. OwnOrLeft(copied[q][k], q, k) /\ caller[q] \in Consumers
        BY <2>1 DEF CopiedInv, StartedInv
    <2>3. QED
        BY <1>1, <1>3, <1>6, <2>1, <2>2 DEF OwnOrLeft
<1>12. OnlyDroppedLeak'
    <2> SUFFICES ASSUME NEW d \in Consumers, NEW k \in Keys, Free(d)'
                 PROVE  context'[d][k] \in {None} \cup LeftBy(d, k)'
        BY DEF OnlyDroppedLeak
    <2>1. CASE d = c
        <3>1. context'[c][k] = pairs[r][k]
            BY <1>1, <1>4 DEF ResetAll, BoundInv
        <3>2. pairs[r][k] \in {None} \cup LeftBy(c, k)
            BY <1>1 DEF BoundInv
        <3>3. LeftBy(c, k) \subseteq LeftBy(d, k)'
            BY <1>2, <1>6, <2>1
        <3>4. QED
            BY <2>1, <3>1, <3>2, <3>3
    <2>2. CASE d # c
        <3>1. Free(d)
            BY <1>1, <1>4, <2>2 DEF Free
        <3>2. QED
            BY <1>4, <1>6, <2>2, <3>1 DEF OnlyDroppedLeak
    <2>3. QED
        BY <2>1, <2>2
<1>13. QED
    BY <1>5, <1>8, <1>9, <1>10, <1>11, <1>12

\* A dropped stream leaves its caller's context as it is, and from then on counts
\* among those that left something; its finalisation changes no context.
LEMMA DropInv ==
    ASSUME CInv, NEW r \in Runs, Drop(r) \/ Finalise(r)
    PROVE  CInv'
<1> USE DEF CInv
<1> DEFINE c == caller[r]
<1>1. PICK p \in {"dropped", "finalised"} : phase' = [phase EXCEPT ![r] = p]
    BY DEF Drop, Finalise
<1>2. /\ phase[r] \in {"streamed", "dropped"}
      /\ UNCHANGED << request, caller, pairs, context, copied, driving >>
    BY DEF Drop, Finalise
<1>3. c \in Consumers
    BY <1>2 DEF StartedInv
<1>4. phase'[r] = p /\ \A q \in Runs : q # r => phase'[q] = phase[q]
    BY <1>1 DEF ContextTypeOK
<1>5. \A q \in Runs : BoundBy(q)' = BoundBy(q)
    BY <1>2 DEF BoundBy
<1>6. \A d \in Consumers, k \in Keys : LeftBy(d, k) \subseteq LeftBy(d, k)'
    BY <1>2, <1>4, LeftByGrows
<1>7. \A k \in Keys : BoundBy(r)[k] \in LeftBy(c, k)'
    BY <1>2, <1>4, <1>5 DEF LeftBy
<1>8. \A q \in Runs : Active(q)' => q # r /\ Active(q)
    BY <1>4 DEF Active
<1>9. ContextTypeOK'
    BY <1>1, <1>2 DEF ContextTypeOK, Phases
<1>10. AloneInv' /\ StartedInv'
    BY <1>2, <1>4, <1>8 DEF AloneInv, StartedInv
<1>11. BoundInv'
    <2> SUFFICES ASSUME NEW q \in Runs, NEW k \in Keys, Active(q)'
                 PROVE  /\ pairs'[q][k] \in {None} \cup LeftBy(caller[q], k)'
                        /\ context'[caller'[q]][k] =
                              IF BoundBy(q)[k] = None THEN pairs'[q][k] ELSE BoundBy(q)[k]
        BY <1>5 DEF BoundInv
    <2>1. Active(q) /\ caller[q] \in Consumers
        BY <1>8 DEF StartedInv, Active
    <2>2. LeftBy(caller[q], k) \subseteq LeftBy(caller[q], k)'
        <3>1. caller'[q] = caller[q]
            BY <1>2
        <3>2. QED
            BY <1>6, <2>1, <3>1 DEF LeftBy
    <2>3. QED
        BY <1>2, <2>1, <2>2 DEF BoundInv
<1>12. CopiedInv'
    <2> SUFFICES ASSUME NEW q \in driving', NEW k \in Keys, phase'[q] # "awaited"
                 PROVE  OwnOrLeft(copied[q][k], q, k)'
        BY DEF CopiedInv
    <2>1. q \in driving /\ q \in Runs /\ phase[q] # "awaited"
        BY <1>2, <1>4 DEF ContextTypeOK
    <2>2. OwnOrLeft(copied[q][k], q, k) /\ caller[q] \in Consumers
        BY <2>1 DEF CopiedInv, StartedInv
    <2>3. QED
        BY <1>2, <1>5, <1>6, <2>1, <2>2 DEF OwnOrLeft
<1>13. OnlyDroppedLeak'
    <2> SUFFICES ASSUME NEW d \in Consumers, NEW k \in Keys, Free(d)'
                 PROVE  context[d][k] \in {None} \cup LeftBy(d, k)'
        BY <1>2 DEF OnlyDroppedLeak
    <2>1. CASE Free(d)
        BY <1>6, <2>1 DEF OnlyDroppedLeak
    <2>2. CASE ~ Free(d)
        <3>1. d = c /\ Active(r)
            BY <1>2, <1>4, <2>2 DEF Free, Active
        <3>2. \/ context[c][k] = BoundBy(r)[k]
              \/ context[c][k] \in {None} \cup LeftBy(c, k)
            BY <3>1 DEF BoundInv
        <3>3. LeftBy(c, k) \subseteq LeftBy(d, k)' /\ BoundBy(r)[k] \in LeftBy(d, k)'
            <4>1. d = caller[r] /\ caller'[r] = caller[r]
                BY <1>2, <3>1
            <4>2. QED
                BY <1>3, <1>6, <1>7, <4>1 DEF LeftBy
        <3>4. QED
            BY <3>1, <3>2, <3>3
    <2>3. QED
        BY <2>1, <2>2
<1>14. QED
    BY <1>9, <1>10, <1>11, <1>12, <1>13

\* The end of a driver task, and a stutter, change none of it.
LEMMA DriverEndsInv ==
    ASSUME CInv, /\ UNCHANGED << request, phase, caller, pairs, context, copied >>
                 /\ driving' \subseteq driving
    PROVE  CInv'
<1>1. \A d, k : LeftBy(d, k)' = LeftBy(d, k)
    BY DEF LeftBy, BoundBy
<1>2. ContextTypeOK' /\ AloneInv' /\ StartedInv'
    BY DEF CInv, ContextTypeOK, AloneInv, StartedInv, Active
<1>3. BoundInv' /\ CopiedInv' /\ OnlyDroppedLeak'
    BY <1>1 DEF CInv, BoundInv, CopiedInv, OnlyDroppedLeak, OwnOrLeft, BoundBy, Active, Free,
                LeftBy
<1>4. QED
    BY <1>2, <1>3 DEF CInv

\* Every step keeps the invariant.
LEMMA ContextNextInv == CInv /\ [ContextNext]_contextVars => CInv'
<1> SUFFICES ASSUME CInv, [ContextNext]_contextVars PROVE CInv'
    OBVIOUS
<1>1. ASSUME NEW r \in Runs, RunEnds(r) \/ StreamEnds(r) PROVE CInv'
    BY <1>1, UnbindInv
<1>2. ASSUME NEW r \in Runs, DriverEnds(r) PROVE CInv'
    BY <1>2, DriverEndsInv DEF DriverEnds
<1>3. ASSUME NEW r \in Runs, Drop(r) \/ Finalise(r) PROVE CInv'
    BY <1>3, DropInv
<1>4. ASSUME NEW r \in Runs, NEW c \in Consumers, RunBegins(c, r) \/ StreamBegins(c, r)
      PROVE  CInv'
    BY <1>4, BindInv
<1>5. CASE UNCHANGED contextVars
    BY <1>5, DriverEndsInv DEF contextVars
<1>6. QED
    BY <1>1, <1>2, <1>3, <1>4, <1>5 DEF ContextNext, ContextOver

\* The inductive invariant holds in every behaviour (bind, release and drop).
THEOREM ContextInvariance == ContextSpec => []CInv
    BY ContextInitInv, ContextNextInv, PTL DEF ContextSpec

\* Type correctness of the contexts.
THEOREM ContextTypeCorrect == ContextSpec => []ContextTypeOK
<1>1. CInv => ContextTypeOK
    BY DEF CInv
<1>2. QED
    BY <1>1, ContextInvariance, PTL

\* For every number of consumers and runs, awaited or streamed, in every order: a
\* line that a run logs carries its own fields, and one it does not bind is absent
\* or what a stream its caller dropped had left (bind_run_context and create_task).
THEOREM LinesNameTheirRun == ContextSpec => []LinesAreOwn
<1>1. CInv => LinesAreOwn
    <2> SUFFICES ASSUME CInv, NEW r \in driving, NEW k \in Keys
                 PROVE  OwnOrLeft(DriverLine(r)[k], r, k)
        BY DEF LinesAreOwn, OwnOrLeft
    <2>1. CASE phase[r] = "awaited"
        <3>1. r \in Runs /\ Active(r)
            BY <2>1 DEF CInv, ContextTypeOK, Active
        <3>2. QED
            BY <2>1, <3>1 DEF CInv, BoundInv, DriverLine, OwnOrLeft
    <2>2. CASE phase[r] # "awaited"
        BY <2>2 DEF CInv, CopiedInv, DriverLine
    <2>3. QED
        BY <2>1, <2>2
<1>2. QED
    BY <1>1, ContextInvariance, PTL

\* Between its runs a consumer's context holds nothing but what the streams it
\* dropped at an item had bound (unbind_run_context in both `finally` blocks).
THEOREM OnlyDroppedStreamsLeak == ContextSpec => []OnlyDroppedLeak
<1>1. CInv => OnlyDroppedLeak
    BY DEF CInv
<1>2. QED
    BY <1>1, ContextInvariance, PTL
=============================================================================
