------------------------- MODULE HttpSession_proofs -------------------------
(* Theorems about HttpSession, for any number of requests, and their proofs. *)
EXTENDS HttpSession, TLAPS

-----------------------------------------------------------------------------
(* The inductive invariant *)

\* The invariant holds of a session that was just spawned.
LEMMA InitIInv == Init => IInv
<1> SUFFICES ASSUME Init PROVE IInv
  OBVIOUS
<1> USE DEF Init
<1>1. TypeOK
  <2>1. cut \in BOOLEAN /\ stopped \in BOOLEAN
    BY Zenon
  <2>2. sent \in 0 .. MaxRequests /\ routed \in 0 .. sent /\ answered \in 0 .. sent
    BY MaxRequestsAssumption
  <2>3. /\ pc \in Running /\ posted \in {"none", "queued", "wait", "done"}
        /\ request \in Requests \union {NoRequest} /\ inbox \in Requests \union {NoRequest}
        /\ waits \in 0 .. 2 /\ due \in Nat
        /\ socket \in {"open", "timer", "session"} /\ client \in {"connected", "closed"}
    BY DEF Running
  <2> QED BY <2>1, <2>2, <2>3 DEF TypeOK
<1>2. ClosedAtTheEnd /\ WaitsAreFew
  BY DEF ClosedAtTheEnd, WaitsAreFew
<1>3. Timed /\ InTurn
  BY DEF Timed, InTurn
<1>4. RoutedInTurn /\ LeavesForCause
  BY DEF RoutedInTurn, LeavesForCause
<1> QED BY <1>1, <1>2, <1>3, <1>4 DEF IInv

\* The steps of the timer and of the posted resetTimer.
LEMMA TimerIInv ==
    ASSUME IInv, Expire \/ Callback \/ PostedExpiresAfter \/ PostedAsyncWait
    PROVE  IInv'
<1> USE MaxRequestsAssumption DEF IInv, TypeOK, Running, Suspended, Requests, NoRequest,
        ClosedAtTheEnd, WaitsAreFew, Timed, InTurn, RoutedInTurn, LeavesForCause,
        clientVars, counters
<1>1. CASE Expire
  BY <1>1 DEF Expire
<1>2. CASE Callback
  BY <1>2 DEF Callback, CallbackWaits
<1>3. CASE PostedExpiresAfter
  BY <1>3 DEF PostedExpiresAfter, ExpiresAfter
<1>4. CASE PostedAsyncWait
  BY <1>4 DEF PostedAsyncWait, AsyncWait
<1> QED BY <1>1, <1>2, <1>3, <1>4

\* The coroutine's steps.
LEMMA CoroutineIInv == ASSUME IInv, Coroutine PROVE IInv'
<1> USE MaxRequestsAssumption DEF IInv, TypeOK, Running, Suspended, Requests, NoRequest,
        ClosedAtTheEnd, WaitsAreFew, Timed, InTurn, RoutedInTurn, LeavesForCause,
        clientVars, counters
<1>1. CASE PostReset
  BY <1>1 DEF PostReset
<1>2. CASE ResetExpiresAfter
  BY <1>2 DEF ResetExpiresAfter, ExpiresAfter
<1>3. CASE ResetAsyncWait
  BY <1>3 DEF ResetAsyncWait, AsyncWait
<1>4. CASE Read
  BY <1>4 DEF Read, Moves
<1>5. CASE ReadFails
  BY <1>5 DEF ReadFails, Moves
<1>6. CASE ResumeRead
  BY <1>6 DEF ResumeRead, Moves
<1>7. CASE Parse
  BY <1>7 DEF Parse, Moves
<1>8. CASE RouteRequest
  BY <1>8 DEF RouteRequest, Answer
<1>9. CASE Write
  BY <1>9 DEF Write, Moves
<1>10. CASE WriteFails
  BY <1>10 DEF WriteFails, Moves
<1>11. CASE ResumeWrite
  BY <1>11 DEF ResumeWrite, Moves
<1>12. CASE CheckKeepAlive
  BY <1>12 DEF CheckKeepAlive, Moves
<1>13. CASE CancelTimer
  BY <1>13 DEF CancelTimer
<1>14. CASE CloseSocket
  BY <1>14 DEF CloseSocket
<1> QED BY <1>1, <1>2, <1>3, <1>4, <1>5, <1>6, <1>7, <1>8, <1>9, <1>10, <1>11,
           <1>12, <1>13, <1>14 DEF Coroutine

\* The network, the client and the end of the server.
LEMMA OutsideIInv ==
    ASSUME IInv, ReadCompletes \/ WriteCompletes \/ Send \/ ClientCloses \/ Stop \/ Destroy
    PROVE  IInv'
<1> USE MaxRequestsAssumption DEF IInv, TypeOK, Running, Suspended, Requests, NoRequest,
        ClosedAtTheEnd, WaitsAreFew, Timed, InTurn, RoutedInTurn, LeavesForCause,
        sessionVars, clientVars, counters
<1>1. CASE ReadCompletes
  BY <1>1 DEF ReadCompletes
<1>2. CASE WriteCompletes
  <2>1. /\ pc = "writing" /\ pc' = "sent"
        /\ UNCHANGED <<request, posted, waits, due, socket, client, inbox, sent,
                       routed, stopped>>
    BY <1>2 DEF WriteCompletes
  <2>2. CASE answered' = answered + 1 /\ UNCHANGED cut
    BY <2>1, <2>2
  <2>3. CASE cut' = TRUE /\ UNCHANGED answered
    BY <2>1, <2>3
  <2> QED BY <1>2, <2>2, <2>3 DEF WriteCompletes
<1>3. CASE Send
  BY <1>3 DEF Send
<1>4. CASE ClientCloses
  BY <1>4 DEF ClientCloses
<1>5. CASE Stop
  BY <1>5 DEF Stop
<1>6. CASE Destroy
  BY <1>6 DEF Destroy
<1> QED BY <1>1, <1>2, <1>3, <1>4, <1>5, <1>6

\* Every step keeps the invariant.
LEMMA NextIInv == IInv /\ [Next]_vars => IInv'
<1> SUFFICES ASSUME IInv, [Next]_vars PROVE IInv'
  OBVIOUS
<1>1. CASE UNCHANGED vars \/ Finished
  BY <1>1 DEF vars, Finished, IInv, TypeOK, ClosedAtTheEnd, WaitsAreFew, Timed, InTurn,
     RoutedInTurn, LeavesForCause
<1>2. CASE Coroutine
  BY <1>2, CoroutineIInv
<1>3. CASE Expire \/ Callback \/ PostedExpiresAfter \/ PostedAsyncWait
  BY <1>3, TimerIInv
<1>4. CASE ReadCompletes \/ WriteCompletes \/ Send \/ ClientCloses \/ Stop \/ Destroy
  BY <1>4, OutsideIInv
<1> QED BY <1>1, <1>2, <1>3, <1>4 DEF Next

\* Of all that a session's timer, threads, client and stop() can do together,
\* nothing breaks the invariant.
THEOREM InductiveInvariant == Spec => []IInv
<1> QED BY InitIInv, NextIInv, PTL DEF Spec

-----------------------------------------------------------------------------
(* The safety properties *)

\* The variables keep their types: at most two waits hold the socket, and no more
\* is routed or answered than was asked.
THEOREM TypeCorrect == Spec => []TypeOK
<1>1. IInv => TypeOK
  BY DEF IInv
<1> QED BY <1>1, InductiveInvariant, PTL

\* clientSession_ never waits for its client without a timer that will end the wait,
\* whatever the posted resetTimer does beside it.
THEOREM WaitingSessionsAreTimed == Spec => []WaitingIsTimed
<1>1. IInv => WaitingIsTimed
  BY DEF IInv, Timed, WaitingIsTimed
<1> QED BY <1>1, InductiveInvariant, PTL

\* An event that was stored, or a mean that was computed, is left unanswered only if
\* the timer, stop(), the client or a partial write is the cause.
THEOREM LostAnswersHaveCauses == Spec => []AnswerIsLostForCause
<1>1. IInv => AnswerIsLostForCause
  BY DEF IInv, LeavesForCause, AnswerIsLostForCause
<1> QED BY <1>1, InductiveInvariant, PTL

-----------------------------------------------------------------------------
(* The contract *)

\* The client's steps: a request waits for the session.
LEMMA ClientRefines ==
    ASSUME IInv, Send \/ ClientCloses \/ Stop \/ Destroy \/ ReadCompletes
    PROVE  [Contract!Next]_(Contract!contractVars)
<1> USE DEF IInv, TypeOK, InTurn, Requests, NoRequest, LastRequest, MayAnswer,
        Contract!contractVars, Contract!Next
<1>1. CASE Send
  BY <1>1 DEF Send, sessionVars, counters, Contract!Ask
<1>2. CASE ClientCloses \/ Stop
  BY <1>2 DEF ClientCloses, Stop, sessionVars, clientVars, counters
<1>3. CASE Destroy
  BY <1>3 DEF Destroy, clientVars, counters, Contract!Drop
<1>4. CASE ReadCompletes
  BY <1>4 DEF ReadCompletes, counters
<1> QED BY <1>1, <1>2, <1>3, <1>4

\* The timer is no business of the client's until it ends the session.
LEMMA TimerRefines ==
    ASSUME IInv, Expire \/ Callback \/ PostedExpiresAfter \/ PostedAsyncWait
    PROVE  UNCHANGED Contract!contractVars
BY DEF Expire, Callback, PostedExpiresAfter, PostedAsyncWait, clientVars, counters,
   LastRequest, MayAnswer, Contract!contractVars

\* A partial write is no answer; a whole one lets a request follow if it is to.
LEMMA WriteRefines ==
    ASSUME IInv, WriteCompletes
    PROVE  [Contract!Next]_(Contract!contractVars)
<1> USE DEF IInv, TypeOK, InTurn, RoutedInTurn, Requests, NoRequest, LastRequest,
        MayAnswer, Contract!contractVars
<1>1. /\ pc = "writing" /\ pc' = "sent"
      /\ UNCHANGED <<request, inbox, sent, routed>>
  BY DEF WriteCompletes, clientVars
<1>2. CASE answered' = answered + 1
  <2>1. MayAnswer /\ (MayAnswer' <=> LastRequest = "keep")
    BY <1>1
  <2>2. /\ sent > answered /\ routed = IF LastRequest = "bad" THEN answered ELSE sent
        /\ UNCHANGED <<sent, LastRequest, routed>>
    BY <1>1
  <2>3. Contract!Answer
    BY <1>2, <2>1, <2>2 DEF Contract!Answer
  <2> QED BY <2>3 DEF Contract!Next
<1>3. CASE UNCHANGED answered
  <2>1. CASE request = "keep"
    BY <1>1, <1>3, <2>1
  <2>2. CASE request # "keep"
    <3>1. Contract!Drop
      BY <1>1, <1>3, <2>2 DEF Contract!Drop
    <3> QED BY <3>1 DEF Contract!Next
  <2> QED BY <2>1, <2>2
<1> QED BY <1>2, <1>3 DEF WriteCompletes

\* The coroutine's other steps: routing handles the request, its early ends drop the
\* session, and the rest cannot be seen.
LEMMA CoroutineRefines ==
    ASSUME IInv, Coroutine
    PROVE  [Contract!Next]_(Contract!contractVars)
<1> USE DEF IInv, TypeOK, InTurn, RoutedInTurn, Requests, NoRequest, LastRequest,
        MayAnswer, clientVars, counters, Contract!contractVars
<1>1. CASE RouteRequest
  <2>1. Contract!Handle
    BY <1>1 DEF RouteRequest, Answer, Contract!Handle
  <2> QED BY <2>1 DEF Contract!Next
<1>2. CASE PostReset \/ ResetExpiresAfter \/ ResetAsyncWait \/ CancelTimer \/ CloseSocket
  BY <1>2 DEF PostReset, ResetExpiresAfter, ResetAsyncWait, CancelTimer, CloseSocket
<1>3. CASE ResumeRead \/ Parse \/ ResumeWrite \/ CheckKeepAlive
  BY <1>3 DEF ResumeRead, Parse, ResumeWrite, CheckKeepAlive, Moves
<1>4. CASE Read \/ ReadFails \/ Write \/ WriteFails
  BY <1>4 DEF Read, ReadFails, Write, WriteFails, Moves, Contract!Drop, Contract!Next
<1> QED BY <1>1, <1>2, <1>3, <1>4 DEF Coroutine

\* clientSession_, with its timer, threads, partial writes and stop(), keeps its
\* contract with the client, for any number of requests.
THEOREM Refinement == Spec => KeepsContract
<1>1. Init => Contract!Init
  BY DEF Init, NoRequest, LastRequest, MayAnswer, Contract!Init
<1>2. IInv /\ [Next]_vars => [Contract!Next]_(Contract!contractVars)
  <2> SUFFICES ASSUME IInv, [Next]_vars
               PROVE  [Contract!Next]_(Contract!contractVars)
    OBVIOUS
  <2>1. CASE UNCHANGED vars \/ Finished
    BY <2>1 DEF vars, Finished, LastRequest, MayAnswer, Contract!contractVars
  <2> QED BY <2>1, CoroutineRefines, WriteRefines, TimerRefines, ClientRefines DEF Next
<1> QED BY <1>1, <1>2, InductiveInvariant, PTL DEF Spec, KeepsContract, Contract!Spec

=============================================================================
