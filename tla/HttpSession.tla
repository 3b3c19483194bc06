---------------------------- MODULE HttpSession ----------------------------
(***************************************************************************)
(* One client session of HttpServer: the coroutine clientSession_, its     *)
(* keep-alive timer, the resetTimer it posts, the client, and stop().      *)
(*                                                                         *)
(* The io_context is run by several threads and the session has no strand, *)
(* so the coroutine, the posted resetTimer and the timer's callbacks run   *)
(* at once.  Each action is one use of what they share: the timer or the   *)
(* socket.  asio guards its timer queue with a lock of its own, so that    *)
(* expires_after and async_wait are each taken as one step.                *)
(*                                                                         *)
(* Simplifications: a client sends its next request after the whole answer *)
(* to the last, and a request arrives in one read (http_server.cpp:166-168 *)
(* says so); time is only the event that the timer's expiry passes; an     *)
(* aborted wait, whose callback does nothing, vanishes when it is aborted. *)
(***************************************************************************)
EXTENDS Naturals

CONSTANT MaxRequests    \* bound: requests the client sends

ASSUME MaxRequestsAssumption == MaxRequests \in Nat

\* Valid with "Connection: Keep-Alive", valid without, or refused by the parser.
Requests == {"keep", "last", "bad"}
NoRequest == "none"

VARIABLES
    pc,         \* where the coroutine is
    request,    \* the request it read last
    posted,     \* the posted resetTimer: "none", "queued", "wait", "done"
    waits,      \* pending async_wait operations of the timer
    due,        \* callbacks of expired waits, queued to be run
    socket,     \* "open", or closed by "timer" or by "session"
    client,     \* "connected" or "closed"
    inbox,      \* the request that waits in the socket
    sent,       \* requests the client sent
    routed,     \* requests given to the router
    answered,   \* responses written whole
    cut,        \* only a part of a response was written
    stopped     \* io_context::stop was called

sessionVars == <<pc, request, posted, waits, due, socket>>
clientVars == <<client, inbox, sent>>
counters == <<routed, answered, cut>>
vars == <<pc, request, posted, waits, due, socket, client, inbox, sent,
          routed, answered, cut, stopped>>

\* A thread executes the coroutine; or the coroutine is suspended and its
\* operation pending, or complete and queued to be resumed.
Running   == {"post", "expire_1", "wait_1", "read", "parse", "expire_2", "wait_2",
              "route", "write", "check", "cancel", "close"}
Suspended == {"reading", "got", "writing", "sent"}

TypeOK ==
    /\ pc \in Running \union Suspended \union {"over"}
    /\ request \in Requests \union {NoRequest}
    /\ posted \in {"none", "queued", "wait", "done"}
    /\ waits \in 0 .. 2
    /\ due \in Nat
    /\ socket \in {"open", "timer", "session"}
    /\ client \in {"connected", "closed"}
    /\ inbox \in Requests \union {NoRequest}
    /\ sent \in 0 .. MaxRequests
    /\ routed \in 0 .. sent /\ answered \in 0 .. sent
    /\ cut \in BOOLEAN /\ stopped \in BOOLEAN

\* The connection was accepted and the session spawned.
Init ==
    /\ pc = "post" /\ request = NoRequest /\ posted = "none"
    /\ waits = 0 /\ due = 0 /\ socket = "open"
    /\ client = "connected" /\ inbox = NoRequest /\ sent = 0
    /\ routed = 0 /\ answered = 0 /\ cut = FALSE /\ stopped = FALSE

-----------------------------------------------------------------------------
(* The timer *)

\* Faulty variants: waits are not cancelled; no new wait is started; the wait
\* of the expired timer is started again.
ExpiresAfterKeepsWaits == UNCHANGED waits
NoAsyncWait == UNCHANGED waits
CallbackRearms == waits' = waits + 1

\* resetTimer: expires_after cancels the pending waits, async_wait adds one.  A
\* callback that is already queued is not cancelled.
ExpiresAfter == waits' = 0
AsyncWait == waits' = waits + 1

\* The expiry passes: the callbacks of all pending waits are queued.
Expire ==
    /\ ~stopped
    /\ waits > 0
    /\ waits' = 0
    /\ due' = due + waits
    /\ UNCHANGED <<pc, request, posted, socket, clientVars, counters, stopped>>

\* A callback starts no wait.
CallbackWaits == UNCHANGED waits

\* The callback of a wait that was not aborted.
Callback ==
    /\ ~stopped
    /\ due > 0
    /\ due' = due - 1
    /\ socket' = IF socket = "open" THEN "timer" ELSE socket
    /\ CallbackWaits
    /\ UNCHANGED <<pc, request, posted, clientVars, counters, stopped>>

-----------------------------------------------------------------------------
(* The posted resetTimer *)

PostedExpiresAfter ==
    /\ ~stopped
    /\ posted = "queued"
    /\ posted' = "wait"
    /\ ExpiresAfter
    /\ UNCHANGED <<pc, request, due, socket, clientVars, counters, stopped>>

PostedAsyncWait ==
    /\ posted = "wait"
    /\ posted' = "done"
    /\ AsyncWait
    /\ UNCHANGED <<pc, request, due, socket, clientVars, counters, stopped>>

-----------------------------------------------------------------------------
(* The coroutine *)

\* A step of the coroutine that changes nothing but its position.
Moves(from, to) ==
    /\ pc = from
    /\ pc' = to
    /\ UNCHANGED <<request, posted, waits, due, socket, clientVars, counters, stopped>>

\* post(ctxRef_.get(), resetTimer)
PostReset ==
    /\ pc = "post"
    /\ pc' = "expire_1"
    /\ posted' = "queued"
    /\ UNCHANGED <<request, waits, due, socket, clientVars, counters, stopped>>

\* resetTimer() at the start of the loop, and after a valid request
ResetExpiresAfter ==
    /\ \/ pc = "expire_1" /\ pc' = "wait_1"
       \/ pc = "expire_2" /\ pc' = "wait_2"
    /\ ExpiresAfter
    /\ UNCHANGED <<request, posted, due, socket, clientVars, counters, stopped>>

ResetAsyncWait ==
    /\ \/ pc = "wait_1" /\ pc' = "read"
       \/ pc = "wait_2" /\ pc' = "route"
    /\ AsyncWait
    /\ UNCHANGED <<request, posted, due, socket, clientVars, counters, stopped>>

\* async_read_some: fails at once on a socket the timer closed
Read == Moves("read", IF socket = "open" THEN "reading" ELSE "cancel")

\* A request arrives, the operation is complete.
ReadCompletes ==
    /\ ~stopped
    /\ pc = "reading"
    /\ socket = "open"
    /\ inbox # NoRequest
    /\ pc' = "got"
    /\ request' = inbox
    /\ inbox' = NoRequest
    /\ UNCHANGED <<posted, waits, due, socket, client, sent, counters, stopped>>

\* End of file or a reset by the client, or the timer closed the socket: co_return.
ReadFails ==
    /\ ~stopped
    /\ socket # "open" \/ client = "closed"
    /\ Moves("reading", "cancel")

ResumeRead == ~stopped /\ Moves("got", "parse")

\* parseRequest: a refused request is answered 400 without a reset.
Parse == Moves("parse", IF request = "bad" THEN "write" ELSE "expire_2")

\* Faulty variant: the last request of a connection is not answered.
AnswerUnlessLast == IF request = "last" THEN "cancel" ELSE "write"

\* The response of the router is written.
Answer == "write"

\* router_->route(request): the handler runs, its event is stored.
RouteRequest ==
    /\ pc = "route"
    /\ pc' = Answer
    /\ routed' = routed + 1
    /\ UNCHANGED <<request, posted, waits, due, socket, clientVars, answered, cut, stopped>>

\* async_write_some of the response
Write == Moves("write", IF socket = "open" THEN "writing" ELSE "cancel")

\* The operation is complete when the kernel has taken the response, or a part of
\* it, which is all the coroutine ever writes of it.
WriteCompletes ==
    /\ ~stopped
    /\ pc = "writing"
    /\ socket = "open"
    /\ pc' = "sent"
    /\ \/ answered' = answered + 1 /\ UNCHANGED cut
       \/ cut' = TRUE /\ UNCHANGED answered
    /\ UNCHANGED <<request, posted, waits, due, socket, clientVars, routed, stopped>>

WriteFails ==
    /\ ~stopped
    /\ socket # "open" \/ client = "closed"
    /\ Moves("writing", "cancel")

\* A refused request ends the session; a valid one is checked for keep-alive.
ResumeWrite ==
    ~stopped /\ Moves("sent", IF request = "bad" THEN "cancel" ELSE "check")

\* Faulty variant: the Connection header is not looked at.
CheckNothing == Moves("check", "expire_1")

\* The Connection header: only Keep-Alive goes on.
CheckKeepAlive == Moves("check", IF request = "keep" THEN "expire_1" ELSE "cancel")

\* The Defers, in reverse order: keepAliveTimer->cancel(), then socket->close().
CancelTimer ==
    /\ pc = "cancel"
    /\ pc' = "close"
    /\ waits' = 0
    /\ UNCHANGED <<request, posted, due, socket, clientVars, counters, stopped>>

CloseSocket ==
    /\ pc = "close"
    /\ pc' = "over"
    /\ socket' = IF socket = "open" THEN "session" ELSE socket
    /\ UNCHANGED <<request, posted, waits, due, clientVars, counters, stopped>>

Coroutine ==
    \/ PostReset \/ ResetExpiresAfter \/ ResetAsyncWait \/ Read \/ ReadFails
    \/ ResumeRead \/ Parse \/ RouteRequest \/ Write \/ WriteFails \/ ResumeWrite
    \/ CheckKeepAlive \/ CancelTimer \/ CloseSocket

-----------------------------------------------------------------------------
(* The client, and the end of the server *)

Send ==
    /\ client = "connected"
    /\ socket = "open"
    /\ sent < MaxRequests
    /\ sent = answered
    /\ \E r \in Requests : inbox' = r
    /\ sent' = sent + 1
    /\ UNCHANGED <<sessionVars, client, counters, stopped>>

ClientCloses ==
    /\ client = "connected"
    /\ client' = "closed"
    /\ UNCHANGED <<sessionVars, inbox, sent, counters, stopped>>

\* HttpServer::stop: nothing that is queued is run any more.
Stop ==
    /\ ~stopped
    /\ stopped' = TRUE
    /\ UNCHANGED <<sessionVars, clientVars, counters>>

\* The threads have returned and the io_context is destroyed, and with it the
\* suspended coroutine (its Defers run), the timer's waits and the queue.
Destroy ==
    /\ stopped
    /\ pc \notin Running
    /\ posted # "wait"
    /\ pc # "over" \/ waits > 0 \/ due > 0 \/ posted # "done"
    /\ pc' = "over"
    /\ posted' = "done"
    /\ waits' = 0
    /\ due' = 0
    /\ socket' = IF socket = "open" THEN "session" ELSE socket
    /\ UNCHANGED <<request, clientVars, counters, stopped>>

\* Nothing is left to do for the server.
Released == pc = "over" /\ posted = "done" /\ waits = 0 /\ due = 0
Finished == Released /\ UNCHANGED vars

Next ==
    \/ Coroutine \/ ReadCompletes \/ WriteCompletes
    \/ PostedExpiresAfter \/ PostedAsyncWait \/ Expire \/ Callback
    \/ Send \/ ClientCloses \/ Stop \/ Destroy \/ Finished

\* The threads run what can be run and the clock goes on.  Nothing is assumed of
\* the client and the network: a request or a write may be pending for ever.
Fairness ==
    /\ WF_vars(Coroutine)
    /\ WF_vars(PostedExpiresAfter) /\ WF_vars(PostedAsyncWait)
    /\ WF_vars(Expire) /\ WF_vars(Callback)
    /\ WF_vars(Destroy)

Spec == Init /\ [][Next]_vars /\ Fairness

-----------------------------------------------------------------------------
(* Properties *)

\* A session that waits for its client on an open socket has something that will
\* close the socket: a pending wait, a queued callback, or a reset half done.
WaitingIsTimed ==
    pc \in {"reading", "writing"} /\ socket = "open" =>
        waits > 0 \/ due > 0 \/ posted = "wait"

\* A routed request stays without its whole answer only if the timer closed the
\* socket, the server was stopped, the client left, or the write was partial.
AnswerIsLostForCause ==
    pc = "over" /\ answered < routed =>
        socket = "timer" \/ stopped \/ client = "closed" \/ cut

\* Whatever the client does, or fails to do, its session ends: an idle client,
\* or one that does not take its answer, is dropped.
SessionEnds == <>(pc = "over")

\* And everything the session left behind is released.
SessionIsReleased == <>[]Released

-----------------------------------------------------------------------------
(* The contract *)

\* The client's last request; whether the session may still answer one.
LastRequest == IF inbox # NoRequest THEN inbox ELSE request
MayAnswer ==
    /\ pc \notin {"cancel", "close", "over"}
    /\ pc \in {"sent", "check"} => request = "keep"

Contract == INSTANCE SessionContract WITH
    asked <- sent, last <- LastRequest, handled <- routed, open <- MayAnswer

\* Whatever the timer, the threads, the client and stop() do, the session keeps
\* its contract with the client: requests one at a time, each handled at most once
\* and before its answer, none after a refusal or without keep-alive.
KeepsContract == Contract!Spec

-----------------------------------------------------------------------------
(* The inductive invariant of the proofs *)

\* Only the coroutine's end closes the socket for the session.
ClosedAtTheEnd == socket = "session" => pc = "over"

\* The coroutine and the posted resetTimer can each add one wait before the next
\* expires_after cancels both.
WaitsAreFew ==
    /\ waits + (IF pc \in {"wait_1", "wait_2"} THEN 1 ELSE 0)
             + (IF posted = "done" THEN 0 ELSE 1) <= 2
    /\ pc = "post" => posted = "none"

\* From the reset until its operation ends, something will close the socket.
Timed ==
    pc \in {"read", "reading", "got", "parse", "route", "write", "writing"}
        /\ socket = "open" => waits > 0 \/ due > 0 \/ posted = "wait"

\* The client waits for one answer, to the request in the socket or at the session.
InTurn ==
    /\ sent <= answered + 1
    /\ inbox # NoRequest \/ cut => sent = answered + 1
    /\ cut => inbox = NoRequest
    /\ pc \in {"got", "parse", "expire_2", "wait_2", "route", "write", "writing"} =>
            /\ sent = answered + 1 /\ ~cut
            /\ inbox = NoRequest /\ request # NoRequest
    /\ pc \in {"expire_2", "wait_2", "route"} => request # "bad"

\* How many of the requests that are answered, or were to be, have been routed.
RoutedInTurn ==
    /\ routed <= sent
    /\ pc \in {"got", "parse", "expire_2", "wait_2", "route"} => routed = answered
    /\ pc \in {"write", "writing"} =>
            routed = IF request = "bad" THEN answered ELSE sent
    /\ pc \in {"post", "expire_1", "wait_1", "read", "reading", "check"} =>
            routed = answered \/ cut
    /\ pc = "sent" => request # NoRequest /\ (routed <= answered \/ cut)
    /\ pc = "sent" /\ request # "bad" => routed = answered \/ cut

\* A session that is on its way out has a reason for what it leaves unanswered.
LeavesForCause ==
    pc \in {"cancel", "close", "over"} /\ answered < routed =>
        socket = "timer" \/ stopped \/ client = "closed" \/ cut

IInv == TypeOK /\ ClosedAtTheEnd /\ WaitsAreFew /\ Timed /\ InTurn /\ RoutedInTurn
            /\ LeavesForCause

-----------------------------------------------------------------------------
(* What the comments of the code say, and the code does not keep *)

\* http_server.cpp:150: the session's end stops the timer.
TimerStopsWithSession == pc = "over" => waits = 0

=============================================================================
