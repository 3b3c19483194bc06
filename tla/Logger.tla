------------------------------- MODULE Logger -------------------------------
(***************************************************************************)
(* The global logger: threads post messages to a bounded queue, blocking   *)
(* while it is full, and one worker prints them; at the end of the process *)
(* spdlog's static objects flush the queue and join the worker.            *)
(*                                                                         *)
(* The queue, the pool and the console sink are spdlog's and external.     *)
(* The level is set by main before it starts a thread (main.cpp:34); main  *)
(* is one of the Threads, and returns when the others have been joined.    *)
(***************************************************************************)
EXTENDS Naturals, Sequences, FiniteSets

CONSTANTS
    Threads,    \* those that log
    Capacity,   \* of the queue: 8192
    MaxCalls    \* bound: calls of a thread

ASSUME LoggerAssumption ==
    /\ Capacity \in Nat \ {0} /\ MaxCalls \in Nat
    /\ {"pool", "none"} \intersect Threads = {}

Levels == 1 .. 2            \* of messages
LogLevels == 1 .. 3         \* of the logger; at 3 it is off

Terminate == [thread |-> "pool", number |-> 0]
Nobody == [thread |-> "none", number |-> 0]

VARIABLES
    level,      \* the logger's
    phase,      \* "main"; "threads": the level is set; "exit": main has returned;
                \* "join": the worker is waited for; "over"
    calls,      \* per thread: calls of the logger that were begun
    accepted,   \* per thread: messages that passed the level
    blocked,    \* per thread: its message that is not in the queue yet
    queue,
    worker,     \* the message the worker is printing, Nobody, or Terminate: it ended
    printed     \* the console

callVars == <<calls, accepted, blocked>>
vars == <<level, phase, calls, accepted, blocked, queue, worker, printed>>

Init ==
    /\ level = 1                    \* set_level(debug)
    /\ phase = "main"
    /\ calls = [t \in Threads |-> 0]
    /\ accepted = [t \in Threads |-> 0]
    /\ blocked = [t \in Threads |-> Nobody]
    /\ queue = <<>> /\ worker = Nobody /\ printed = <<>>

-----------------------------------------------------------------------------
(* main *)

SetLevel ==
    /\ phase = "main"
    /\ level' \in LogLevels
    /\ phase' = "threads"
    /\ UNCHANGED <<callVars, queue, worker, printed>>

\* main returns, or leaves with an exception before it set the level: nobody logs.
\* The destructor of the pool posts the end to its worker.
Exit ==
    /\ phase \in {"main", "threads"}
    /\ \A t \in Threads : blocked[t] = Nobody
    /\ phase' = "exit"
    /\ UNCHANGED <<level, callVars, queue, worker, printed>>

\* Faulty variant: what is queued is given up.
PutTerminateFirst(q) == <<Terminate>> \o q

\* The end is queued behind all messages.
PutTerminate(q) == Append(q, Terminate)

\* Faulty variant: the worker is joined, but not told to end.
NoTerminate ==
    /\ phase = "exit"
    /\ phase' = "join"
    /\ UNCHANGED <<level, callVars, queue, worker, printed>>

PostTerminate ==
    /\ phase = "exit"
    /\ Len(queue) < Capacity
    /\ queue' = PutTerminate(queue)
    /\ phase' = "join"
    /\ UNCHANGED <<level, callVars, worker, printed>>

JoinWorker ==
    /\ phase = "join"
    /\ worker = Terminate
    /\ phase' = "over"
    /\ UNCHANGED <<level, callVars, queue, worker, printed>>

-----------------------------------------------------------------------------
(* The threads that log *)

\* log->info(...): a message below the level returns at once.
Log(t) ==
    /\ phase \in {"main", "threads"}
    /\ blocked[t] = Nobody
    /\ calls[t] < MaxCalls
    /\ calls' = [calls EXCEPT ![t] = @ + 1]
    /\ \E l \in Levels :
        IF l < level
          THEN UNCHANGED <<accepted, blocked>>
          ELSE /\ accepted' = [accepted EXCEPT ![t] = @ + 1]
               /\ blocked' = [blocked EXCEPT ![t] = [thread |-> t, number |-> accepted'[t]]]
    /\ UNCHANGED <<level, phase, queue, worker, printed>>

Put(t, q) ==
    /\ blocked[t] # Nobody
    /\ queue' = Append(q, blocked[t])
    /\ blocked' = [blocked EXCEPT ![t] = Nobody]
    /\ UNCHANGED <<level, phase, calls, accepted, worker, printed>>

\* Faulty variants: a queue that grows; overflow over the oldest message.
EnqueueAlways(t) == Put(t, queue)
EnqueueOverOldest(t) == Put(t, IF Len(queue) = Capacity THEN Tail(queue) ELSE queue)

\* async_overflow_policy::block
Enqueue(t) == Len(queue) < Capacity /\ Put(t, queue)

-----------------------------------------------------------------------------
(* The worker *)

Dequeue ==
    /\ worker = Nobody
    /\ queue # <<>>
    /\ worker' = Head(queue)
    /\ queue' = Tail(queue)
    /\ UNCHANGED <<level, phase, callVars, printed>>

Prints(next) ==
    /\ worker \notin {Nobody, Terminate}
    /\ printed' = Append(printed, worker)
    /\ worker' = next
    /\ UNCHANGED <<level, phase, callVars, queue>>

\* Faulty variant: the worker ends with its first message.
PrintOnce == Prints(Terminate)

\* The console takes the message.
PrintMessage == Prints(Nobody)

Next ==
    \/ SetLevel \/ Exit \/ PostTerminate \/ JoinWorker
    \/ \E t \in Threads : Log(t) \/ Enqueue(t)
    \/ Dequeue \/ PrintMessage

\* The threads run and the console goes on; nobody has to log or to exit.
Fairness ==
    /\ WF_vars(PostTerminate) /\ WF_vars(JoinWorker)
    /\ WF_vars(Dequeue) /\ WF_vars(PrintMessage)
    /\ \A t \in Threads : WF_vars(Enqueue(t))

Spec == Init /\ [][Next]_vars /\ Fairness

-----------------------------------------------------------------------------
(* Properties *)

Message == [thread : Threads, number : 1 .. MaxCalls]

\* A burst of messages takes no more room than the queue has.
TypeOK ==
    /\ level \in LogLevels
    /\ phase \in {"main", "threads", "exit", "join", "over"}
    /\ calls \in [Threads -> 0 .. MaxCalls]
    /\ accepted \in [Threads -> 0 .. MaxCalls]
    /\ \A t \in Threads : accepted[t] <= calls[t]
    /\ blocked \in [Threads -> Message \union {Nobody}]
    /\ queue \in Seq(Message \union {Terminate}) /\ Len(queue) <= Capacity
    /\ worker \in Message \union {Nobody, Terminate}
    /\ printed \in Seq(Message)

\* What was given to spdlog, in the order in which it is printed.
Pipeline == printed \o (IF worker = Nobody THEN <<>> ELSE <<worker>>) \o queue

\* No message is lost, doubled or overtaken by one of its own thread, however the
\* threads wait for room: each that was accepted is in the pipeline or is the one
\* the thread is blocked with, and the numbers of a thread only grow on the way.
MessagesKeepTheirOrder ==
    \A t \in Threads :
        /\ \A n \in 1 .. accepted[t] :
            LET m == [thread |-> t, number |-> n]
            IN  blocked[t] = m \/ \E i \in DOMAIN Pipeline : Pipeline[i] = m
        /\ \A i, j \in DOMAIN Pipeline :
            i < j /\ Pipeline[i].thread = t /\ Pipeline[j].thread = t =>
                Pipeline[i].number < Pipeline[j].number
        /\ \A i \in DOMAIN Pipeline :
            Pipeline[i].thread = t /\ blocked[t] # Nobody =>
                Pipeline[i].number < blocked[t].number

\* Everything logged is on the console before the process ends.
AllIsPrintedAtExit ==
    phase = "over" =>
        \A t \in Threads : \A n \in 1 .. accepted[t] :
            \E i \in DOMAIN printed : printed[i] = [thread |-> t, number |-> n]

\* A call that waits for room returns, if the console goes on: the worker, which
\* never logs, cannot be kept from the queue by the threads that wait for it.
CallsReturn == \A t \in Threads : blocked[t] # Nobody ~> blocked[t] = Nobody

\* The end of main becomes the end of the process, with a full queue too.
ProcessEnds == phase = "exit" ~> phase = "over"

-----------------------------------------------------------------------------
(* The inductive invariant of the proofs *)

\* The numbers in the pipeline are those of accepted messages; a blocked message
\* is the thread's last.
NumbersAreAccepted ==
    \A t \in Threads :
        /\ \A i \in DOMAIN Pipeline :
            Pipeline[i].thread = t => Pipeline[i].number <= accepted[t]
        /\ blocked[t] # Nobody => blocked[t] = [thread |-> t, number |-> accepted[t]]

\* Nobody is blocked once main has returned, and the end is behind all messages.
TerminateIsLast ==
    /\ phase \in {"exit", "join", "over"} => \A t \in Threads : blocked[t] = Nobody
    /\ \A i \in DOMAIN Pipeline :
        Pipeline[i] = Terminate => i = Len(Pipeline) /\ phase \in {"join", "over"}
    /\ phase = "over" => worker = Terminate

IInv == TypeOK /\ MessagesKeepTheirOrder /\ NumbersAreAccepted /\ TerminateIsLast

=============================================================================
