----------------------------- MODULE HttpServer -----------------------------
(***************************************************************************)
(* The life of the server: createService, start with its pool of threads   *)
(* and its accept loop, stop, and the destruction in main's order.         *)
(*                                                                         *)
(* The io_context is a queue of handlers that the workers run, first in    *)
(* first out.  A handler is <<kind, id>>: the listen coroutine of a start, *)
(* the completion handler that reports its failure, the resumption of the  *)
(* accept loop with the socket of a client or an error, and the resumption *)
(* of a client's session up to its next co_await (HttpSession looks        *)
(* inside).  Handlers and callers of start, stop and connections           *)
(* interleave freely.                                                      *)
(*                                                                         *)
(* asio may run what is dispatched inside a handler inline or queue it:    *)
(* both are allowed for the failure report and for a new session.          *)
(***************************************************************************)
EXTENDS Naturals, Sequences

CONSTANTS
    Processors,     \* std::thread::hardware_concurrency, 0 if unknown
    Callers,        \* threads that may call start
    Clients,        \* clients, one connection each
    NoClient        \* an accept that failed

ASSUME ServerAssumption ==
    /\ Processors \in Nat
    /\ NoClient \notin Clients

\* main: the number of pool threads, computed in a uint16_t.
ThreadCount ==
    LET known == Processors % 65536
        count == IF known = 0 THEN 4 ELSE known
    IN  (count + 65536 - 2) % 65536

Workers == 1 .. ThreadCount

VARIABLES
    server,     \* the instance: "none", "alive", "ending" in its destructor, "gone"
    context,    \* the io_context exists
    pc,         \* where each caller is in start
    promise,    \* errorPromise of each call of start: "empty" or "error"
    listener,   \* the listen coroutine of each call of start
    runs,       \* posted calls of io_context::run the pool has not begun
    joined,     \* threadPool_.join was called: an idle worker ends
    worker,     \* each worker: in the pool, in run, executing a handler, left
    queue,      \* handlers that are ready
    session,    \* the state of each client's connection
    stopped,    \* io_context::stop was called
    asked       \* history: by somebody who wanted the server to stop

owners == <<server, context>>
callers == <<pc, promise>>
pool == <<runs, joined>>
ended == <<stopped, asked>>
vars == <<owners, callers, listener, pool, worker, queue, session, ended>>

\* What a worker does, other than execute a handler.
Parked  == <<"parked">>
Polling == <<"polling">>
Left    == <<"left">>

Handlers ==
    ({"listen", "report"} \X Callers)
        \union ({"accept"} \X (Clients \union {NoClient}))
        \union ({"session"} \X Clients)

\* The port is taken by a listen coroutine that waits for, or has, a connection.
Listening == {"accepting", "accepted"}

TypeOK ==
    /\ server \in {"none", "alive", "ending", "gone"}
    /\ context \in BOOLEAN
    /\ pc \in [Callers -> {"idle", "post", "joining", "returned", "threw"}]
    /\ promise \in [Callers -> {"empty", "error"}]
    /\ listener \in [Callers -> {"none", "spawned", "failed", "over"}
                                    \union Listening]
    /\ runs \in Nat
    /\ joined \in BOOLEAN
    /\ worker \in [Workers -> {Parked, Polling, Left} \union Handlers]
    /\ queue \in Seq(Handlers)
    /\ session \in [Clients -> {"none", "connected", "accepted", "ready",
                                "waiting", "over"}]
    /\ stopped \in BOOLEAN
    /\ asked \in BOOLEAN

Init ==
    /\ server = "none" /\ context = TRUE
    /\ pc = [c \in Callers |-> "idle"]
    /\ promise = [c \in Callers |-> "empty"]
    /\ listener = [c \in Callers |-> "none"]
    /\ runs = 0 /\ joined = FALSE
    /\ worker = [w \in Workers |-> Parked]
    /\ queue = <<>>
    /\ session = [k \in Clients |-> "none"]
    /\ stopped = FALSE /\ asked = FALSE

-----------------------------------------------------------------------------
(* The callers *)

\* сreateService, once per process.  What the constructor refuses leaves the
\* once flag unset, and a call after the first returns nullptr: both change
\* nothing.
CreateService ==
    /\ server = "none"
    /\ server' = "alive"
    /\ UNCHANGED <<context, callers, listener, pool, worker, queue, session, ended>>

\* start: co_spawn of the listen coroutine
SpawnListen(c) ==
    /\ server = "alive"
    /\ pc[c] = "idle"
    /\ pc' = [pc EXCEPT ![c] = "post"]
    /\ listener' = [listener EXCEPT ![c] = "spawned"]
    /\ queue' = Append(queue, <<"listen", c>>)
    /\ UNCHANGED <<owners, promise, pool, worker, session, ended>>

\* start: post run() threads_ times, and threadPool_.join()
PostRuns(c) ==
    /\ pc[c] = "post"
    /\ pc' = [pc EXCEPT ![c] = "joining"]
    /\ runs' = runs + ThreadCount
    /\ joined' = TRUE
    /\ UNCHANGED <<owners, promise, listener, worker, queue, session, ended>>

\* Faulty variant: start waits for the stop, not for the threads.
StopSeen == stopped

\* thread_pool::join returns when the threads have ended.
ThreadsEnded == \A w \in Workers : worker[w] = Left

\* start: the threads have ended, the promise is looked at.  (Two joins at once
\* are undefined in asio, and the model does not follow them.)
JoinReturns(c) ==
    /\ pc[c] = "joining"
    /\ \A d \in Callers \ {c} : pc[d] # "joining"
    /\ ThreadsEnded
    /\ pc' = [pc EXCEPT ![c] = IF promise[c] = "error" THEN "threw" ELSE "returned"]
    /\ UNCHANGED <<owners, promise, listener, pool, worker, queue, session, ended>>

\* stop, by the signal handler or by anyone who has the server or its context
Stop ==
    /\ server = "alive"
    /\ ~asked
    /\ stopped' = TRUE
    /\ asked' = TRUE
    /\ UNCHANGED <<owners, callers, listener, pool, worker, queue, session>>

\* ~HttpServer: stop(), then the members; nobody is inside start.
BeginDestroy ==
    /\ server = "alive"
    /\ \A c \in Callers : pc[c] \notin {"post", "joining"}
    /\ server' = "ending"
    /\ stopped' = TRUE
    /\ joined' = TRUE
    /\ runs' = 0
    /\ UNCHANGED <<context, callers, listener, worker, queue, session, asked>>

\* ~thread_pool has joined its threads.
EndDestroy ==
    /\ server = "ending"
    /\ ThreadsEnded
    /\ server' = "gone"
    /\ UNCHANGED <<context, callers, listener, pool, worker, queue, session, ended>>

\* The io_context is destroyed after the server, with what is left in it.
DestroyContext ==
    /\ server = "gone"
    /\ context
    /\ context' = FALSE
    /\ queue' = <<>>
    /\ listener' = [c \in Callers |->
                        IF listener[c] = "none" THEN "none" ELSE "over"]
    /\ session' = [k \in Clients |->
                        IF session[k] = "none" THEN "none" ELSE "over"]
    /\ UNCHANGED <<server, callers, pool, worker, ended>>

-----------------------------------------------------------------------------
(* The workers *)

Works(w, what) == worker' = [worker EXCEPT ![w] = what]

TakeRun(w) ==
    /\ worker[w] = Parked
    /\ runs > 0
    /\ runs' = runs - 1
    /\ Works(w, Polling)
    /\ UNCHANGED <<owners, callers, listener, joined, queue, session, ended>>

\* Faulty variant: a thread calls run() again when it returns.
RunPosted == runs' = runs + 1

\* The posted call is over, and nothing is posted in its place.
RunOver == UNCHANGED runs

\* run() returns once the context is stopped; what is queued stays there.
RunReturns(w) ==
    /\ worker[w] = Polling
    /\ stopped
    /\ Works(w, Parked)
    /\ RunOver
    /\ UNCHANGED <<owners, callers, listener, joined, queue, session, ended>>

Leave(w) ==
    /\ worker[w] = Parked
    /\ joined
    /\ runs = 0
    /\ Works(w, Left)
    /\ UNCHANGED <<owners, callers, listener, pool, queue, session, ended>>

BeginHandler(w) ==
    /\ worker[w] = Polling
    /\ ~stopped
    /\ queue # <<>>
    /\ Works(w, Head(queue))
    /\ queue' = Tail(queue)
    /\ UNCHANGED <<owners, callers, listener, pool, session, ended>>

Executes(w, kind, id) == worker[w] = <<kind, id>>

\* connectionHandler_ up to its first accept
Listen(w, c) ==
    /\ Executes(w, "listen", c)
    /\ \A d \in Callers : listener[d] \notin Listening
    /\ listener' = [listener EXCEPT ![c] = "accepting"]
    /\ Works(w, Polling)
    /\ UNCHANGED <<owners, callers, pool, queue, session, ended>>

\* The address is invalid, or the port is not ours to take: the exception ends
\* the coroutine.
ListenFails(w, c) ==
    /\ Executes(w, "listen", c)
    /\ listener' = [listener EXCEPT ![c] = "failed"]
    /\ \/ Works(w, <<"report", c>>) /\ UNCHANGED queue
       \/ Works(w, Polling) /\ queue' = Append(queue, <<"report", c>>)
    /\ UNCHANGED <<owners, callers, pool, session, ended>>

\* Faulty variant: the exception is not stored.
ForgetError(c) == UNCHANGED promise

\* errorPromise.set_exception
SetException(c) == promise' = [promise EXCEPT ![c] = "error"]

\* The completion handler: store the exception, stop the context.
Report(w, c) ==
    /\ Executes(w, "report", c)
    /\ SetException(c)
    /\ stopped' = TRUE
    /\ Works(w, Polling)
    /\ UNCHANGED <<owners, pc, listener, pool, queue, session, asked>>

\* Faulty variant: an error leaves the accept loop.
LoopUnlessError(k) == IF k = NoClient THEN "over" ELSE "accepting"

\* The loop goes on, after a client and after an error.
Loop(k) == "accepting"

\* Faulty variant: a session is spawned for a socket there is not.
SpawnAlways(k) ==
    /\ session' = [session EXCEPT ![k] = "ready"]
    /\ queue' = Append(queue, <<"session", k>>)

\* A client's session runs to its first read at once, or is queued; an error has none.
SpawnSession(k) ==
    \/ k = NoClient /\ UNCHANGED <<session, queue>>
    \/ /\ k # NoClient
       /\ \/ session' = [session EXCEPT ![k] = "waiting"] /\ UNCHANGED queue
          \/ /\ session' = [session EXCEPT ![k] = "ready"]
             /\ queue' = Append(queue, <<"session", k>>)

\* The accept loop resumes with a socket or an error.
Accept(w, k) ==
    /\ Executes(w, "accept", k)
    /\ listener' = [c \in Callers |->
                        IF listener[c] = "accepted" THEN Loop(k) ELSE listener[c]]
    /\ SpawnSession(k)
    /\ Works(w, Polling)
    /\ UNCHANGED <<owners, callers, pool, ended>>

\* A session goes on to its next co_await, or to its end.
RunSession(w, k) ==
    /\ Executes(w, "session", k)
    /\ \E next \in {"waiting", "over"} : session' = [session EXCEPT ![k] = next]
    /\ Works(w, Polling)
    /\ UNCHANGED <<owners, callers, listener, pool, queue, ended>>

WorkerStep(w) ==
    \/ TakeRun(w) \/ RunReturns(w) \/ Leave(w) \/ BeginHandler(w)
    \/ \E c \in Callers : Listen(w, c) \/ ListenFails(w, c) \/ Report(w, c)
    \/ \E k \in Clients \union {NoClient} : Accept(w, k)
    \/ \E k \in Clients : RunSession(w, k)

-----------------------------------------------------------------------------
(* The network *)

\* The kernel takes connections as long as the port is listened to.
Connect(k) ==
    /\ context
    /\ session[k] = "none"
    /\ \E c \in Callers : listener[c] \in Listening
    /\ session' = [session EXCEPT ![k] = "connected"]
    /\ UNCHANGED <<owners, callers, listener, pool, worker, queue, ended>>

AcceptCompletes(c) ==
    /\ ~stopped
    /\ listener[c] = "accepting"
    /\ listener' = [listener EXCEPT ![c] = "accepted"]
    /\ \E k \in Clients :
        /\ session[k] = "connected"
        /\ session' = [session EXCEPT ![k] = "accepted"]
        /\ queue' = Append(queue, <<"accept", k>>)
    /\ UNCHANGED <<owners, callers, pool, worker, ended>>

\* No descriptor is left, or the client is gone again.
AcceptErrs(c) ==
    /\ ~stopped
    /\ listener[c] = "accepting"
    /\ \E k \in Clients : session[k] = "connected"
    /\ listener' = [listener EXCEPT ![c] = "accepted"]
    /\ queue' = Append(queue, <<"accept", NoClient>>)
    /\ UNCHANGED <<owners, callers, pool, worker, session, ended>>

\* What a session waits for is complete: data, an error, a timer that closed it.
SessionEvent(k) ==
    /\ ~stopped
    /\ session[k] = "waiting"
    /\ session' = [session EXCEPT ![k] = "ready"]
    /\ queue' = Append(queue, <<"session", k>>)
    /\ UNCHANGED <<owners, callers, listener, pool, worker, ended>>

Finished == ~context /\ UNCHANGED vars

CallerStep(c) == PostRuns(c) \/ JoinReturns(c)

Next ==
    \/ CreateService \/ Stop \/ BeginDestroy \/ EndDestroy \/ DestroyContext
    \/ \E c \in Callers :
        SpawnListen(c) \/ CallerStep(c) \/ AcceptCompletes(c) \/ AcceptErrs(c)
    \/ \E w \in Workers : WorkerStep(w)
    \/ \E k \in Clients : Connect(k) \/ SessionEvent(k)
    \/ Finished

\* Threads are scheduled, handlers end, and accept does not fail for ever.  A
\* session may wait for ever here, for the other sessions must not depend on it.
Fairness ==
    /\ \A c \in Callers : WF_vars(CallerStep(c)) /\ SF_vars(AcceptCompletes(c))
    /\ \A w \in Workers : WF_vars(WorkerStep(w))

Spec == Init /\ [][Next]_vars /\ Fairness

-----------------------------------------------------------------------------
(* Properties *)

\* start returns normally only if somebody stopped the server: the failure of the
\* listen coroutine, on another thread, becomes an exception (http_server.cpp:79).
ReturnsOnlyWhenStopped == \A c \in Callers : pc[c] = "returned" => asked

\* Handlers use what start and the server own (start's promise, the router): none
\* is executed or can be begun once start has returned or the server is ending.
HandlersStayInside ==
    server # "alive" \/ (\E c \in Callers : pc[c] \in {"returned", "threw"}) =>
        \A w \in Workers : worker[w] \in {Parked, Left}

\* A stopped server comes to rest: every start that is under way returns.
StopEndsStart ==
    \A c \in Callers :
        stopped /\ pc[c] = "joining" ~> pc[c] \in {"returned", "threw"}

\* While the server runs, a connected client gets its session, and a session that
\* can go on does, whatever the other sessions wait for and although accepts fail.
ClientsAreServed ==
    \A k \in Clients : session[k] \in {"connected", "accepted", "ready"} ~>
                            session[k] \in {"waiting", "over"} \/ stopped

-----------------------------------------------------------------------------
(* The inductive invariants of the proofs *)

Idle == {Parked, Left}
Ended(c) == pc[c] \in {"returned", "threw"}

\* A start that has returned has seen the threads end.
EndedStartsLeftNobody == \A c \in Callers : Ended(c) => ThreadsEnded

\* Without a start no worker has anything to run.
NobodyWorksBeforeStart ==
    (\A c \in Callers : pc[c] \in {"idle", "post"}) =>
        runs = 0 /\ \A w \in Workers : worker[w] \in Idle

\* Before its creation and from its destructor on, the server has no start under
\* way and no worker with anything to run.
NobodyWorksOutside ==
    server # "alive" =>
        /\ runs = 0
        /\ \A w \in Workers : worker[w] \in Idle
        /\ \A c \in Callers : pc[c] \notin {"post", "joining"}

InsideInv == TypeOK /\ EndedStartsLeftNobody /\ NobodyWorksBeforeStart /\ NobodyWorksOutside

\* For one caller of start: a thread leaves the pool once all runs are begun, and the
\* pool was asked to end after the runs were posted.
LeftAfterRuns ==
    /\ (\E w \in Workers : worker[w] = Left) => runs = 0 /\ joined
    /\ \A c \in Callers :
            pc[c] \in {"idle", "post"} /\ server \in {"none", "alive"} => ~joined

\* A start that waits for its threads has some until the context is stopped.
RunsUntilStopped ==
    \A c \in Callers :
        pc[c] = "joining" /\ ~stopped =>
            runs > 0 \/ \E w \in Workers : worker[w] \notin Idle

\* Who stopped the context.
StoppedForCause ==
    stopped => \/ asked
               \/ \E c \in Callers : promise[c] = "error"
               \/ server \in {"ending", "gone"}

ReturnInv == InsideInv /\ LeftAfterRuns /\ RunsUntilStopped /\ StoppedForCause
                /\ ReturnsOnlyWhenStopped

-----------------------------------------------------------------------------
(* What the interface says, and the code does not keep *)

\* i_service.h:32: start of a service that is running is a no-op or throws; it
\* does not stop the service.
SecondStartIsHarmless ==
    \A c, d \in Callers :
        c # d /\ promise[c] = "error" /\ listener[d] \in Listening /\ stopped => asked

=============================================================================
