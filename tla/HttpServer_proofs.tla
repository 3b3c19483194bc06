-------------------------- MODULE HttpServer_proofs --------------------------
(* Theorems about HttpServer, for every number of processors and every set  *)
(* of callers and clients, and their proofs.                                 *)
EXTENDS HttpServer, TLAPS

-----------------------------------------------------------------------------
(* Lemmas about the operators of the server *)

\* A remainder is below the modulus.
LEMMA ModFacts == ASSUME NEW x \in Nat, NEW n \in Nat \ {0} PROVE x % n \in Nat
OBVIOUS

\* main's computation of the number of threads never goes below zero, for it stays
\* inside the uint16_t.
LEMMA ThreadCountFacts == ThreadCount \in Nat
<1> DEFINE m == 65536
           known == Processors % m
           count == IF known = 0 THEN 4 ELSE known
<1>1. m \in Nat \ {0} /\ m - 2 \in Nat
  OBVIOUS
<1>2. ThreadCount = (count + m - 2) % m
  BY DEF ThreadCount
<1> HIDE DEF m
<1>3. known \in Nat
  BY <1>1, ModFacts, ServerAssumption
<1>4. count + m - 2 \in Nat
  BY <1>1, <1>3
<1> QED BY <1>1, <1>2, <1>4, ModFacts

\* A worker executes a handler, or it does not: the two cannot be taken for each other.
LEMMA HandlerFacts ==
    ASSUME NEW kind \in {"listen", "report", "accept", "session"}, NEW id
    PROVE  <<kind, id>> \notin {Parked, Polling, Left}
<1>1. Len(<<kind, id>>) = 2
  OBVIOUS
<1>2. Len(Parked) = 1 /\ Len(Polling) = 1 /\ Len(Left) = 1
  BY DEF Parked, Polling, Left
<1> QED BY <1>1, <1>2

\* The three things a worker does without a handler differ.
LEMMA IdleFacts == Parked # Polling /\ Parked # Left /\ Polling # Left
<1>1. Parked[1] = "parked" /\ Polling[1] = "polling" /\ Left[1] = "left"
  BY DEF Parked, Polling, Left
<1> QED BY <1>1

\* A handler that is appended, or taken from the front, leaves a queue of handlers.
LEMMA QueueFacts ==
    ASSUME NEW q \in Seq(Handlers)
    PROVE  /\ \A h \in Handlers : Append(q, h) \in Seq(Handlers)
           /\ q # <<>> => Head(q) \in Handlers /\ Tail(q) \in Seq(Handlers)
OBVIOUS

-----------------------------------------------------------------------------
(* Types *)

\* The types hold at first.
LEMMA InitTypeOK == Init => TypeOK
<1> SUFFICES ASSUME Init PROVE TypeOK
  OBVIOUS
<1>1. context \in BOOLEAN /\ joined \in BOOLEAN /\ stopped \in BOOLEAN /\ asked \in BOOLEAN
  BY Zenon DEF Init
<1>2. queue \in Seq(Handlers)
  BY DEF Init
<1> QED BY <1>1, <1>2 DEF Init, TypeOK, Listening

\* The callers' steps, and those of the server's life, keep the types.
LEMMA CallerTypeOK ==
    ASSUME TypeOK,
           \/ CreateService \/ Stop \/ BeginDestroy \/ EndDestroy \/ DestroyContext
           \/ \E c \in Callers : SpawnListen(c) \/ CallerStep(c)
    PROVE  TypeOK'
<1> USE DEF TypeOK, Listening, owners, callers, pool, ended
<1>1. CASE CreateService
  BY <1>1 DEF CreateService
<1>2. CASE Stop
  <2>1. stopped' \in BOOLEAN /\ asked' \in BOOLEAN
    BY <1>2, Zenon DEF Stop
  <2> QED BY <1>2, <2>1 DEF Stop
<1>3. CASE BeginDestroy
  <2>1. stopped' \in BOOLEAN /\ joined' \in BOOLEAN
    BY <1>3, Zenon DEF BeginDestroy
  <2> QED BY <1>3, <2>1 DEF BeginDestroy
<1>4. CASE EndDestroy
  BY <1>4 DEF EndDestroy
<1>5. CASE DestroyContext
  <2>1. context' \in BOOLEAN
    BY <1>5, Zenon DEF DestroyContext
  <2>2. queue' \in Seq(Handlers)
    BY <1>5 DEF DestroyContext
  <2>3. listener' \in [Callers -> {"none", "over"}] /\ session' \in [Clients -> {"none", "over"}]
    BY <1>5 DEF DestroyContext
  <2> QED BY <1>5, <2>1, <2>2, <2>3 DEF DestroyContext
<1>6. ASSUME NEW c \in Callers, SpawnListen(c)
      PROVE  TypeOK'
  <2>1. <<"listen", c>> \in Handlers
    BY DEF Handlers
  <2>2. queue' \in Seq(Handlers)
    BY <1>6, <2>1, QueueFacts DEF SpawnListen
  <2> QED BY <1>6, <2>2 DEF SpawnListen
<1>7. ASSUME NEW c \in Callers, PostRuns(c)
      PROVE  TypeOK'
  <2>1. joined' \in BOOLEAN
    BY <1>7, Zenon DEF PostRuns
  <2>2. runs' \in Nat
    BY <1>7, ThreadCountFacts DEF PostRuns
  <2> QED BY <1>7, <2>1, <2>2 DEF PostRuns
<1>8. ASSUME NEW c \in Callers, JoinReturns(c)
      PROVE  TypeOK'
  BY <1>8 DEF JoinReturns
<1> QED BY <1>1, <1>2, <1>3, <1>4, <1>5, <1>6, <1>7, <1>8 DEF CallerStep

\* The workers' steps keep the types.
LEMMA WorkerTypeOK ==
    ASSUME TypeOK, NEW w \in Workers, WorkerStep(w)
    PROVE  TypeOK'
<1> USE DEF TypeOK, Listening, Works, owners, callers, pool, ended
<1>1. CASE TakeRun(w)
  BY <1>1 DEF TakeRun
<1>2. CASE RunReturns(w)
  BY <1>2 DEF RunReturns, RunOver
<1>3. CASE Leave(w)
  BY <1>3 DEF Leave
<1>4. CASE BeginHandler(w)
  <2>1. Head(queue) \in Handlers /\ Tail(queue) \in Seq(Handlers)
    BY <1>4, QueueFacts DEF BeginHandler
  <2> QED BY <1>4, <2>1 DEF BeginHandler
<1>5. ASSUME NEW c \in Callers, Listen(w, c)
      PROVE  TypeOK'
  BY <1>5 DEF Listen
<1>6. ASSUME NEW c \in Callers, ListenFails(w, c)
      PROVE  TypeOK'
  <2>1. <<"report", c>> \in Handlers
    BY DEF Handlers
  <2>2. queue' \in Seq(Handlers)
    BY <1>6, <2>1, QueueFacts DEF ListenFails
  <2> QED BY <1>6, <2>1, <2>2 DEF ListenFails
<1>7. ASSUME NEW c \in Callers, Report(w, c)
      PROVE  TypeOK'
  BY <1>7 DEF Report, SetException
<1>8. ASSUME NEW k \in Clients \union {NoClient}, Accept(w, k)
      PROVE  TypeOK'
  <2>1. queue' \in Seq(Handlers) /\ session' \in
            [Clients -> {"none", "connected", "accepted", "ready", "waiting", "over"}]
    <3>1. CASE k = NoClient
      BY <1>8, <3>1 DEF Accept, SpawnSession
    <3>2. CASE k # NoClient
      <4>1. k \in Clients /\ <<"session", k>> \in Handlers
        BY <3>2 DEF Handlers
      <4> QED BY <1>8, <3>2, <4>1, QueueFacts DEF Accept, SpawnSession
    <3> QED BY <3>1, <3>2
  <2> QED BY <1>8, <2>1 DEF Accept, Loop
<1>9. ASSUME NEW k \in Clients, RunSession(w, k)
      PROVE  TypeOK'
  BY <1>9 DEF RunSession
<1> QED BY <1>1, <1>2, <1>3, <1>4, <1>5, <1>6, <1>7, <1>8, <1>9 DEF WorkerStep

\* The network's steps keep the types.
LEMMA NetworkTypeOK ==
    ASSUME TypeOK,
           \/ \E c \in Callers : AcceptCompletes(c) \/ AcceptErrs(c)
           \/ \E k \in Clients : Connect(k) \/ SessionEvent(k)
    PROVE  TypeOK'
<1> USE DEF TypeOK, Listening, owners, callers, pool, ended
<1>1. ASSUME NEW c \in Callers, AcceptCompletes(c)
      PROVE  TypeOK'
  <2>1. PICK k \in Clients : /\ session' = [session EXCEPT ![k] = "accepted"]
                             /\ queue' = Append(queue, <<"accept", k>>)
    BY <1>1 DEF AcceptCompletes
  <2>2. <<"accept", k>> \in Handlers
    BY DEF Handlers
  <2>3. queue' \in Seq(Handlers)
    BY <2>1, <2>2, QueueFacts
  <2> QED BY <1>1, <2>1, <2>3 DEF AcceptCompletes
<1>2. ASSUME NEW c \in Callers, AcceptErrs(c)
      PROVE  TypeOK'
  <2>1. <<"accept", NoClient>> \in Handlers
    BY DEF Handlers
  <2>2. queue' \in Seq(Handlers)
    BY <1>2, <2>1, QueueFacts DEF AcceptErrs
  <2> QED BY <1>2, <2>2 DEF AcceptErrs
<1>3. ASSUME NEW k \in Clients, Connect(k)
      PROVE  TypeOK'
  BY <1>3 DEF Connect
<1>4. ASSUME NEW k \in Clients, SessionEvent(k)
      PROVE  TypeOK'
  <2>1. <<"session", k>> \in Handlers
    BY DEF Handlers
  <2>2. queue' \in Seq(Handlers)
    BY <1>4, <2>1, QueueFacts DEF SessionEvent
  <2> QED BY <1>4, <2>2 DEF SessionEvent
<1> QED BY <1>1, <1>2, <1>3, <1>4

\* Every step keeps the types.
LEMMA NextTypeOK == TypeOK /\ [Next]_vars => TypeOK'
<1> SUFFICES ASSUME TypeOK, [Next]_vars PROVE TypeOK'
  OBVIOUS
<1>1. CASE \/ CreateService \/ Stop \/ BeginDestroy \/ EndDestroy \/ DestroyContext
           \/ \E c \in Callers : SpawnListen(c) \/ CallerStep(c)
  BY <1>1, CallerTypeOK
<1>2. CASE \E w \in Workers : WorkerStep(w)
  BY <1>2, WorkerTypeOK
<1>3. CASE \/ \E c \in Callers : AcceptCompletes(c) \/ AcceptErrs(c)
           \/ \E k \in Clients : Connect(k) \/ SessionEvent(k)
  BY <1>3, NetworkTypeOK
<1>4. CASE UNCHANGED vars
  BY <1>4 DEF TypeOK, Listening, vars, owners, callers, pool, ended
<1> QED BY <1>1, <1>2, <1>3, <1>4 DEF Next, Finished

\* Every variable keeps its type.
THEOREM TypeCorrect == Spec => []TypeOK
<1> QED BY InitTypeOK, NextTypeOK, PTL DEF Spec

-----------------------------------------------------------------------------
(* Handlers stay inside *)

\* What a worker's step does to the worker, the pool and the callers: a worker that
\* is in the pool begins a posted run or leaves, and one that runs goes on or parks.
LEMMA WorkerStepFacts ==
    ASSUME TypeOK, NEW w \in Workers, WorkerStep(w)
    PROVE  /\ UNCHANGED <<owners, pc, joined>>
           /\ \E what : worker' = [worker EXCEPT ![w] = what]
           /\ \/ worker[w] = Parked /\ runs > 0 /\ runs' = runs - 1 /\ worker'[w] = Polling
              \/ worker[w] = Parked /\ runs = 0 /\ joined /\ UNCHANGED runs
                    /\ worker'[w] = Left
              \/ worker[w] \notin Idle /\ UNCHANGED runs /\ worker'[w] \notin Idle
              \/ worker[w] \notin Idle /\ UNCHANGED runs /\ worker'[w] = Parked /\ stopped
<1> USE DEF owners, callers, pool, ended, Works, Executes
<1> worker \in [Workers -> {Parked, Polling, Left} \union Handlers]
  BY DEF TypeOK
<1> DEFINE facts(what) ==
        /\ UNCHANGED <<owners, pc, joined>>
        /\ worker' = [worker EXCEPT ![w] = what]
<1>0. \A h \in Handlers : h \notin {Parked, Polling, Left}
  BY HandlerFacts DEF Handlers
<1>1. CASE TakeRun(w)
  BY <1>1 DEF TakeRun
<1>2. CASE RunReturns(w)
  BY <1>2, IdleFacts DEF RunReturns, RunOver, Idle
<1>3. CASE Leave(w)
  BY <1>3 DEF Leave
<1>4. CASE BeginHandler(w)
  <2>1. Head(queue) \in Handlers
    BY <1>4, QueueFacts DEF BeginHandler, TypeOK
  <2>2. worker[w] \notin Idle /\ Head(queue) \notin Idle
    BY <1>4, <1>0, <2>1, IdleFacts DEF BeginHandler, Idle
  <2> QED BY <1>4, <2>2 DEF BeginHandler
<1>5. ASSUME NEW kind \in {"listen", "report", "accept", "session"}, NEW id,
             worker[w] = <<kind, id>>,
             UNCHANGED <<owners, pc, pool>>,
             \/ worker' = [worker EXCEPT ![w] = Polling]
             \/ worker' = [worker EXCEPT ![w] = <<"report", id>>]
      PROVE  /\ UNCHANGED <<owners, pc, joined>>
             /\ \E what : worker' = [worker EXCEPT ![w] = what]
             /\ worker[w] \notin Idle /\ UNCHANGED runs /\ worker'[w] \notin Idle
  <2>1. <<kind, id>> \notin Idle /\ <<"report", id>> \notin Idle /\ Polling \notin Idle
    BY HandlerFacts, IdleFacts DEF Idle
  <2> QED BY <1>5, <2>1
<1>6. CASE \E c \in Callers : Listen(w, c) \/ ListenFails(w, c) \/ Report(w, c)
  BY <1>5, <1>6 DEF Listen, ListenFails, Report
<1>7. CASE \E k \in Clients \union {NoClient} : Accept(w, k)
  BY <1>5, <1>7 DEF Accept
<1>8. CASE \E k \in Clients : RunSession(w, k)
  BY <1>5, <1>8 DEF RunSession
<1> QED BY <1>1, <1>2, <1>3, <1>4, <1>6, <1>7, <1>8 DEF WorkerStep

\* Steps that leave the callers, the workers and the pool alone.
LEMMA OutsideInside ==
    ASSUME InsideInv, UNCHANGED <<pc, runs, worker>>,
           server' = server \/ (server = "none" /\ server' = "alive")
                            \/ (server = "ending" /\ server' = "gone")
    PROVE  (EndedStartsLeftNobody /\ NobodyWorksBeforeStart /\ NobodyWorksOutside)'
BY DEF InsideInv, EndedStartsLeftNobody, NobodyWorksBeforeStart, NobodyWorksOutside,
       ThreadsEnded, Ended

\* The callers' steps.
LEMMA CallersInside ==
    ASSUME InsideInv,
           \/ BeginDestroy
           \/ \E c \in Callers : SpawnListen(c) \/ CallerStep(c)
    PROVE  (EndedStartsLeftNobody /\ NobodyWorksBeforeStart /\ NobodyWorksOutside)'
<1> USE DEF InsideInv, EndedStartsLeftNobody, NobodyWorksBeforeStart, NobodyWorksOutside,
            ThreadsEnded, Ended, owners, callers, pool, ended, Idle
<1> pc \in [Callers -> {"idle", "post", "joining", "returned", "threw"}]
  BY DEF TypeOK
<1>1. CASE BeginDestroy
  <2>1. \A w \in Workers : worker[w] \in Idle
    BY <1>1 DEF BeginDestroy
  <2> QED BY <1>1, <2>1 DEF BeginDestroy
<1>2. ASSUME NEW c \in Callers, SpawnListen(c)
      PROVE  (EndedStartsLeftNobody /\ NobodyWorksBeforeStart /\ NobodyWorksOutside)'
  BY <1>2 DEF SpawnListen
<1>3. ASSUME NEW c \in Callers, PostRuns(c)
      PROVE  (EndedStartsLeftNobody /\ NobodyWorksBeforeStart /\ NobodyWorksOutside)'
  BY <1>3 DEF PostRuns
<1>4. ASSUME NEW c \in Callers, JoinReturns(c)
      PROVE  (EndedStartsLeftNobody /\ NobodyWorksBeforeStart /\ NobodyWorksOutside)'
  <2>1. pc' \in [Callers -> {"idle", "post", "joining", "returned", "threw"}]
         /\ pc'[c] \in {"returned", "threw"}
         /\ \A d \in Callers \ {c} : pc'[d] = pc[d]
    BY <1>4 DEF JoinReturns
  <2>2. server = "alive" /\ server' = "alive" /\ UNCHANGED <<worker, runs>>
    BY <1>4 DEF JoinReturns, TypeOK
  <2>3. ThreadsEnded
    BY <1>4 DEF JoinReturns
  <2> QED BY <2>1, <2>2, <2>3
<1> QED BY <1>1, <1>2, <1>3, <1>4 DEF CallerStep

\* The workers' steps.
LEMMA WorkersInside ==
    ASSUME InsideInv, NEW w \in Workers, WorkerStep(w)
    PROVE  (EndedStartsLeftNobody /\ NobodyWorksBeforeStart /\ NobodyWorksOutside)'
<1> USE DEF InsideInv
<1>1. worker \in [Workers -> {Parked, Polling, Left} \union Handlers]
  BY DEF TypeOK
<1>2. UNCHANGED <<server, pc>>
  BY WorkerStepFacts DEF owners
<1>3. \A v \in Workers \ {w} : worker'[v] = worker[v]
  BY <1>1, WorkerStepFacts
<1>4. worker[w] # Left
  BY WorkerStepFacts, IdleFacts DEF Idle
<1>5. EndedStartsLeftNobody'
  BY <1>2, <1>4 DEF EndedStartsLeftNobody, ThreadsEnded, Ended
<1>6. ASSUME runs = 0, \A v \in Workers : worker[v] \in Idle
      PROVE  runs' = 0 /\ \A v \in Workers : worker'[v] \in Idle
  <2>1. worker'[w] \in Idle /\ runs' = 0
    BY <1>6, WorkerStepFacts DEF Idle
  <2> QED BY <1>3, <1>6, <2>1
<1>7. NobodyWorksBeforeStart'
  BY <1>2, <1>6 DEF NobodyWorksBeforeStart
<1>8. NobodyWorksOutside'
  BY <1>2, <1>6 DEF NobodyWorksOutside
<1> QED BY <1>5, <1>7, <1>8

\* Every step keeps the inductive invariant.
LEMMA NextInsideInv == InsideInv /\ [Next]_vars => InsideInv'
<1> SUFFICES ASSUME InsideInv, [Next]_vars PROVE InsideInv'
  OBVIOUS
<1>1. TypeOK'
  BY NextTypeOK DEF InsideInv
<1>2. CASE \/ CreateService \/ Stop \/ EndDestroy \/ DestroyContext
           \/ \E c \in Callers : AcceptCompletes(c) \/ AcceptErrs(c)
           \/ \E k \in Clients : Connect(k) \/ SessionEvent(k)
           \/ UNCHANGED vars
  <2>1. UNCHANGED <<pc, runs, worker>>
    BY <1>2 DEF CreateService, Stop, EndDestroy, DestroyContext, AcceptCompletes, AcceptErrs,
                Connect, SessionEvent, vars, callers, pool
  <2>2. server' = server \/ (server = "none" /\ server' = "alive")
                         \/ (server = "ending" /\ server' = "gone")
    BY <1>2 DEF CreateService, Stop, EndDestroy, DestroyContext, AcceptCompletes, AcceptErrs,
                Connect, SessionEvent, vars, owners
  <2> QED BY <1>1, <2>1, <2>2, OutsideInside DEF InsideInv
<1>3. CASE BeginDestroy \/ \E c \in Callers : SpawnListen(c) \/ CallerStep(c)
  BY <1>1, <1>3, CallersInside DEF InsideInv
<1>4. CASE \E w \in Workers : WorkerStep(w)
  BY <1>1, <1>4, WorkersInside DEF InsideInv
<1> QED BY <1>2, <1>3, <1>4 DEF Next, Finished

\* The inductive invariant holds at first.
LEMMA InitInsideInv == Init => InsideInv
<1> SUFFICES ASSUME Init PROVE InsideInv
  OBVIOUS
<1>1. runs = 0 /\ (\A w \in Workers : worker[w] \in Idle) /\ (\A c \in Callers : pc[c] = "idle")
  BY DEF Init, Idle
<1> QED BY <1>1, InitTypeOK DEF InsideInv, EndedStartsLeftNobody, NobodyWorksBeforeStart,
           NobodyWorksOutside, Ended

\* No handler is executed, and none can begin, once a start has returned or the
\* server is ending: start's promise, which the completion handler writes, and the
\* router, which the sessions read, outlive their users.
THEOREM HandlersInside == Spec => []HandlersStayInside
<1>1. InsideInv => HandlersStayInside
  <2> SUFFICES ASSUME InsideInv,
                      server # "alive" \/ \E c \in Callers : pc[c] \in {"returned", "threw"}
               PROVE  \A w \in Workers : worker[w] \in Idle
    BY DEF HandlersStayInside, Idle
  <2> QED BY DEF InsideInv, EndedStartsLeftNobody, NobodyWorksOutside, ThreadsEnded, Ended, Idle
<1> QED BY <1>1, InitInsideInv, NextInsideInv, PTL DEF Spec

-----------------------------------------------------------------------------
(* One start, on at least one thread: it returns only when somebody stops it *)

\* The invariant holds at first.
LEMMA InitReturnInv ==
    ASSUME NEW c, Callers = {c}, ThreadCount > 0, Init
    PROVE  ReturnInv
<1>1. /\ stopped = FALSE /\ joined = FALSE /\ pc[c] = "idle"
      /\ \A w \in Workers : worker[w] # Left
  BY IdleFacts DEF Init
<1> QED BY <1>1, InitInsideInv DEF ReturnInv, LeftAfterRuns, RunsUntilStopped, StoppedForCause,
           ReturnsOnlyWhenStopped

\* The steps of the caller and of the server's life.
LEMMA CallerReturnInv ==
    ASSUME NEW c, Callers = {c}, ThreadCount > 0, ReturnInv, InsideInv',
           \/ CreateService \/ Stop \/ BeginDestroy \/ EndDestroy \/ DestroyContext
           \/ SpawnListen(c) \/ PostRuns(c) \/ JoinReturns(c)
    PROVE  ReturnInv'
<1> USE DEF ReturnInv, LeftAfterRuns, RunsUntilStopped, StoppedForCause,
            ReturnsOnlyWhenStopped, owners, callers, pool, ended
<1>0. /\ pc \in [Callers -> {"idle", "post", "joining", "returned", "threw"}]
      /\ server \in {"none", "alive", "ending", "gone"} /\ runs \in Nat
  BY DEF InsideInv, TypeOK
<1>1. CASE CreateService
  BY <1>0, <1>1 DEF CreateService
<1>2. CASE Stop
  BY <1>0, <1>2 DEF Stop
<1>3. CASE BeginDestroy
  BY <1>0, <1>3 DEF BeginDestroy
<1>4. CASE EndDestroy
  BY <1>0, <1>4 DEF EndDestroy
<1>5. CASE DestroyContext
  BY <1>0, <1>5 DEF DestroyContext
<1>6. CASE SpawnListen(c)
  BY <1>0, <1>6 DEF SpawnListen
<1>7. CASE PostRuns(c)
  <2>1. \A w \in Workers : worker[w] # Left
    BY <1>0, <1>7 DEF PostRuns, InsideInv, NobodyWorksOutside
  <2>2. runs' > 0 /\ joined'
    BY <1>0, <1>7, ThreadCountFacts DEF PostRuns
  <2>3. pc'[c] = "joining" /\ UNCHANGED <<worker, stopped, asked, promise, server>>
    BY <1>0, <1>7 DEF PostRuns
  <2> QED BY <2>1, <2>2, <2>3
<1>8. CASE JoinReturns(c)
  <2>1. 1 \in Workers
    BY ThreadCountFacts DEF Workers
  <2>2. worker[1] = Left /\ \A w \in Workers : worker[w] \in Idle
    BY <1>8, <2>1 DEF JoinReturns, ThreadsEnded, Idle
  <2>3. runs = 0
    BY <2>1, <2>2
  <2>4. stopped
    BY <1>0, <1>8, <2>2, <2>3 DEF JoinReturns
  <2>5. server = "alive"
    BY <1>0, <1>8 DEF JoinReturns, InsideInv, NobodyWorksOutside
  <2>6. asked \/ promise[c] = "error"
    BY <2>4, <2>5
  <2>7. /\ pc'[c] = IF promise[c] = "error" THEN "threw" ELSE "returned"
        /\ UNCHANGED <<server, promise, runs, joined, worker, stopped, asked>>
    BY <1>0, <1>8 DEF JoinReturns
  <2> QED BY <2>1, <2>2, <2>3, <2>4, <2>5, <2>6, <2>7
<1> QED BY <1>1, <1>2, <1>3, <1>4, <1>5, <1>6, <1>7, <1>8

\* A worker's steps.
LEMMA WorkerReturnInv ==
    ASSUME NEW c, Callers = {c}, ThreadCount > 0, ReturnInv, InsideInv',
           NEW w \in Workers, WorkerStep(w)
    PROVE  ReturnInv'
<1> USE DEF ReturnInv
<1>1. TypeOK /\ runs \in Nat /\ worker \in [Workers -> {Parked, Polling, Left} \union Handlers]
  BY DEF InsideInv, TypeOK
<1>2. UNCHANGED <<server, pc, joined>>
  BY <1>1, WorkerStepFacts DEF owners
<1>3. \A v \in Workers \ {w} : worker'[v] = worker[v]
  BY <1>1, WorkerStepFacts
<1>4. /\ UNCHANGED asked
      /\ stopped => stopped'
      /\ promise[c] = "error" => promise'[c] = "error"
      /\ stopped' => stopped \/ promise'[c] = "error"
  <2> USE DEF owners, callers, pool, ended
  <2>1. CASE \E d \in Callers : Report(w, d)
    <3>1. promise \in [Callers -> {"empty", "error"}]
      BY <1>1 DEF TypeOK
    <3>2. stopped' /\ UNCHANGED asked /\ promise' = [promise EXCEPT ![c] = "error"]
      BY <2>1 DEF Report, SetException
    <3> QED BY <3>1, <3>2
  <2>2. CASE ~\E d \in Callers : Report(w, d)
    <3>1. UNCHANGED <<stopped, asked, promise>>
      BY <2>2 DEF WorkerStep, TakeRun, RunReturns, Leave, BeginHandler, Listen, ListenFails,
                  Accept, RunSession
    <3> QED BY <3>1
  <2> QED BY <2>1, <2>2
<1>5. LeftAfterRuns'
  BY <1>1, <1>2, <1>3, WorkerStepFacts, IdleFacts DEF LeftAfterRuns, Idle
<1>6. RunsUntilStopped'
  <2> SUFFICES ASSUME pc[c] = "joining", ~stopped, ~stopped'
               PROVE  runs' > 0 \/ \E v \in Workers : worker'[v] \notin Idle
    BY <1>2, <1>4 DEF RunsUntilStopped
  <2>1. runs > 0 \/ \E v \in Workers : worker[v] \notin Idle
    BY DEF RunsUntilStopped
  <2>2. Polling \notin Idle
    BY IdleFacts DEF Idle
  <2>3. CASE worker'[w] \notin Idle
    BY <2>3
  <2>4. CASE worker'[w] \in Idle
    <3>1. worker[w] \in Idle /\ runs = 0 /\ runs' = 0
      BY <1>1, <2>2, <2>4, WorkerStepFacts DEF Idle
    <3>2. PICK v \in Workers : worker[v] \notin Idle
      BY <2>1, <3>1
    <3> QED BY <1>3, <3>1, <3>2
  <2> QED BY <2>3, <2>4
<1>7. StoppedForCause'
  BY <1>2, <1>4 DEF StoppedForCause
<1>8. ReturnsOnlyWhenStopped'
  BY <1>2, <1>4 DEF ReturnsOnlyWhenStopped
<1> QED BY <1>5, <1>6, <1>7, <1>8

\* Every step keeps the invariant.
LEMMA NextReturnInv ==
    ASSUME NEW c, Callers = {c}, ThreadCount > 0
    PROVE  ReturnInv /\ [Next]_vars => ReturnInv'
<1> SUFFICES ASSUME ReturnInv, [Next]_vars PROVE ReturnInv'
  OBVIOUS
<1>1. InsideInv'
  BY NextInsideInv DEF ReturnInv
<1>2. CASE \/ CreateService \/ Stop \/ BeginDestroy \/ EndDestroy \/ DestroyContext
           \/ SpawnListen(c) \/ PostRuns(c) \/ JoinReturns(c)
  BY <1>1, <1>2, CallerReturnInv
<1>3. CASE \E w \in Workers : WorkerStep(w)
  BY <1>1, <1>3, WorkerReturnInv
<1>4. CASE \/ \E d \in Callers : AcceptCompletes(d) \/ AcceptErrs(d)
           \/ \E k \in Clients : Connect(k) \/ SessionEvent(k)
           \/ UNCHANGED vars
  <2>1. UNCHANGED <<server, pc, promise, runs, joined, worker, stopped, asked>>
    BY <1>4 DEF AcceptCompletes, AcceptErrs, Connect, SessionEvent, vars, owners, callers,
                pool, ended
  <2> QED BY <1>1, <2>1 DEF ReturnInv, LeftAfterRuns, RunsUntilStopped, StoppedForCause,
             ReturnsOnlyWhenStopped
<1> QED BY <1>2, <1>3, <1>4 DEF Next, CallerStep, Finished

\* With one caller of start and a thread in its pool, start returns normally only
\* if somebody stopped the server: the failure of the listen coroutine, which happens on another
\* thread, has become an exception by then.
THEOREM ReturnsWhenStopped ==
    ASSUME NEW c, Callers = {c}, ThreadCount > 0
    PROVE  Spec => []ReturnsOnlyWhenStopped
<1>1. Init => ReturnInv
  BY InitReturnInv
<1>2. ReturnInv /\ [Next]_vars => ReturnInv'
  BY NextReturnInv
<1>3. ReturnInv => ReturnsOnlyWhenStopped
  BY DEF ReturnInv
<1> QED BY <1>1, <1>2, <1>3, PTL DEF Spec

=============================================================================
