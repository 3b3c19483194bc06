---------------------------- MODULE Logger_proofs ----------------------------
(* Theorems about Logger, for every set of threads, capacity and number of  *)
(* calls, and their proofs.                                                  *)
EXTENDS Logger, TLAPS

-----------------------------------------------------------------------------
(* Lemmas about the messages and the pipeline *)

\* The worker's two values without a message are no messages.
LEMMA MarkFacts ==
    /\ Nobody # Terminate /\ Nobody \notin Message /\ Terminate \notin Message
    /\ Nobody.thread \notin Threads /\ Terminate.thread \notin Threads
BY LoggerAssumption DEF Nobody, Terminate, Message

\* Two messages of one thread with one number are one message.
LEMMA MessageFacts ==
    ASSUME NEW m \in Message
    PROVE  /\ m.thread \in Threads /\ m.number \in 1 .. MaxCalls
           /\ m = [thread |-> m.thread, number |-> m.number]
BY DEF Message

\* What the worker has in hand, as a sequence.
LEMMA InHandType ==
    ASSUME TypeOK
    PROVE  (IF worker = Nobody THEN <<>> ELSE <<worker>>) \in Seq(Message \union {Terminate})
<1> DEFINE M == Message \union {Terminate}
<1>1. CASE worker = Nobody
  BY <1>1
<1>2. CASE worker # Nobody
  <2>1. worker \in M
    BY <1>2 DEF TypeOK
  <2>2. <<worker>> \in Seq(M)
    BY <2>1
  <2> QED BY <1>2, <2>2
<1> QED BY <1>1, <1>2

\* The pipeline holds messages, and perhaps the end.
LEMMA PipelineType == TypeOK => Pipeline \in Seq(Message \union {Terminate})
<1> SUFFICES ASSUME TypeOK PROVE Pipeline \in Seq(Message \union {Terminate})
  OBVIOUS
<1>1. printed \in Seq(Message \union {Terminate}) /\ queue \in Seq(Message \union {Terminate})
  BY DEF TypeOK
<1> QED BY <1>1, InHandType DEF Pipeline

\* The worker takes a message out of the queue, and the pipeline is the same.
LEMMA DequeuePipeline == TypeOK /\ Dequeue => Pipeline' = Pipeline
<1> SUFFICES ASSUME TypeOK, Dequeue PROVE Pipeline' = Pipeline
  OBVIOUS
<1> DEFINE M == Message \union {Terminate}
<1>1. queue \in Seq(M) /\ queue # <<>> /\ printed \in Seq(M)
  BY DEF TypeOK, Dequeue
<1>2. Head(queue) \in M /\ Tail(queue) \in Seq(M) /\ <<Head(queue)>> \o Tail(queue) = queue
  BY <1>1
<1>3. Head(queue) # Nobody
  BY <1>2, MarkFacts
<1>4. Pipeline = printed \o queue
  BY <1>1 DEF Dequeue, Pipeline
<1>5. Pipeline' = (printed \o <<Head(queue)>>) \o Tail(queue)
  BY <1>3 DEF Dequeue, Pipeline
<1>6. <<Head(queue)>> \in Seq(M)
  BY <1>2
<1>7. (printed \o <<Head(queue)>>) \o Tail(queue) = printed \o (<<Head(queue)>> \o Tail(queue))
  BY <1>1, <1>2, <1>6
<1> QED BY <1>2, <1>4, <1>5, <1>7

\* The console takes a message from the worker, and the pipeline is the same.
LEMMA PrintPipeline == TypeOK /\ PrintMessage => Pipeline' = Pipeline
<1> SUFFICES ASSUME TypeOK, PrintMessage PROVE Pipeline' = Pipeline
  OBVIOUS
<1>1. Pipeline = (printed \o <<worker>>) \o queue
  BY DEF PrintMessage, Prints, Pipeline
<1>2. Append(printed, worker) = printed \o <<worker>>
  BY DEF TypeOK, PrintMessage, Prints
<1>3. Append(printed, worker) \o <<>> = Append(printed, worker)
  BY DEF TypeOK, PrintMessage, Prints
<1>4. Pipeline' = Append(printed, worker) \o <<>> \o queue
  BY DEF PrintMessage, Prints, Pipeline
<1> QED BY <1>1, <1>2, <1>3, <1>4

\* What is queued comes last in the pipeline.
LEMMA QueuePipeline ==
    ASSUME TypeOK, NEW m \in Message \union {Terminate},
           queue' = Append(queue, m), UNCHANGED <<printed, worker>>
    PROVE  Pipeline' = Append(Pipeline, m)
<1> DEFINE M == Message \union {Terminate}
           front == printed \o (IF worker = Nobody THEN <<>> ELSE <<worker>>)
<1>1. front \in Seq(M) /\ queue \in Seq(M)
  <2>1. printed \in Seq(M) /\ queue \in Seq(M)
    BY DEF TypeOK
  <2> QED BY <2>1, InHandType
<1>2. Pipeline = front \o queue /\ Pipeline' = front \o Append(queue, m)
  BY DEF Pipeline
<1> HIDE DEF front
<1>3. front \o Append(queue, m) = Append(front \o queue, m)
  BY <1>1
<1> QED BY <1>2, <1>3

-----------------------------------------------------------------------------
(* The inductive invariant *)

\* The invariant holds at first.
LEMMA InitIInv == Init => IInv
<1> SUFFICES ASSUME Init PROVE IInv
  OBVIOUS
<1>1. Pipeline = <<>>
  BY DEF Init, Pipeline
<1>2. TypeOK
  BY LoggerAssumption DEF Init, TypeOK, LogLevels
<1>3. /\ DOMAIN Pipeline = {} /\ phase = "main"
      /\ \A t \in Threads : accepted[t] = 0 /\ blocked[t] = Nobody
  BY <1>1 DEF Init
<1> QED BY <1>2, <1>3 DEF IInv, MessagesKeepTheirOrder, NumbersAreAccepted, TerminateIsLast

\* Steps that change neither the pipeline nor what the threads do.
LEMMA StillIInv ==
    ASSUME IInv, TypeOK', UNCHANGED <<Pipeline, accepted, blocked>>,
           \/ UNCHANGED phase /\ (phase = "over" => UNCHANGED worker)
           \/ phase = "main" /\ phase' = "threads"
           \/ phase = "join" /\ phase' = "over" /\ worker' = Terminate
    PROVE  IInv'
BY DEF IInv, MessagesKeepTheirOrder, NumbersAreAccepted, TerminateIsLast

\* main's steps.
LEMMA MainIInv ==
    ASSUME IInv, SetLevel \/ Exit \/ PostTerminate \/ JoinWorker
    PROVE  IInv'
<1>1. TypeOK /\ Pipeline \in Seq(Message \union {Terminate})
  BY PipelineType DEF IInv
<1>2. CASE SetLevel
  <2>1. TypeOK'
    BY <1>1, <1>2 DEF SetLevel, callVars, TypeOK
  <2> QED BY <1>2, <2>1, StillIInv DEF SetLevel, callVars, Pipeline
<1>3. CASE Exit
  <2>1. TypeOK'
    BY <1>1, <1>3 DEF Exit, callVars, TypeOK
  <2>2. UNCHANGED <<Pipeline, accepted, blocked>>
    BY <1>3 DEF Exit, callVars, Pipeline
  <2>3. MessagesKeepTheirOrder' /\ NumbersAreAccepted'
    BY <2>2 DEF IInv, MessagesKeepTheirOrder, NumbersAreAccepted
  <2>4. TerminateIsLast'
    BY <1>3, <2>2 DEF IInv, TerminateIsLast, Exit
  <2> QED BY <2>1, <2>3, <2>4 DEF IInv
<1>4. CASE PostTerminate
  <2>1. TypeOK'
    <3>1. queue' \in Seq(Message \union {Terminate}) /\ Len(queue') <= Capacity
      BY <1>1, <1>4, LoggerAssumption DEF PostTerminate, PutTerminate, TypeOK
    <3> QED BY <1>1, <1>4, <3>1 DEF PostTerminate, callVars, TypeOK
  <2>2. Pipeline' = Append(Pipeline, Terminate)
    BY <1>1, <1>4, QueuePipeline DEF PostTerminate, PutTerminate
  <2>3. /\ DOMAIN Pipeline = 1 .. Len(Pipeline)
        /\ DOMAIN Pipeline' = 1 .. Len(Pipeline) + 1
        /\ Len(Pipeline') = Len(Pipeline) + 1
        /\ Len(Pipeline) \in Nat
        /\ \A i \in DOMAIN Pipeline : Pipeline'[i] = Pipeline[i]
        /\ Pipeline'[Len(Pipeline) + 1] = Terminate
    BY <1>1, <2>2
  <2>4. /\ UNCHANGED <<accepted, blocked>> /\ phase = "exit" /\ phase' = "join"
        /\ \A t \in Threads : t # Terminate.thread
    BY <1>4, MarkFacts DEF PostTerminate, callVars
  <2>5. MessagesKeepTheirOrder'
    BY <2>3, <2>4 DEF IInv, MessagesKeepTheirOrder
  <2>6. NumbersAreAccepted'
    BY <2>3, <2>4 DEF IInv, NumbersAreAccepted
  <2>7. TerminateIsLast'
    BY <2>3, <2>4 DEF IInv, TerminateIsLast
  <2> QED BY <2>1, <2>5, <2>6, <2>7 DEF IInv
<1>5. CASE JoinWorker
  <2>1. TypeOK'
    BY <1>1, <1>5 DEF JoinWorker, callVars, TypeOK
  <2> QED BY <1>5, <2>1, StillIInv DEF JoinWorker, callVars, Pipeline
<1> QED BY <1>2, <1>3, <1>4, <1>5

\* A thread calls the logger.
LEMMA LogIInv ==
    ASSUME IInv, NEW t \in Threads, Log(t)
    PROVE  IInv'
<1>1. TypeOK /\ Pipeline \in Seq(Message \union {Terminate})
  BY PipelineType DEF IInv
<1>2. UNCHANGED <<Pipeline, phase, level, queue, worker, printed>>
  BY DEF Log, Pipeline
<1>3. calls' = [calls EXCEPT ![t] = @ + 1] /\ calls[t] < MaxCalls /\ blocked[t] = Nobody
  BY DEF Log
<1>4. CASE UNCHANGED <<accepted, blocked>>
  <2>1. TypeOK'
    BY <1>1, <1>2, <1>3, <1>4, LoggerAssumption DEF TypeOK
  <2> QED BY <1>2, <1>4, <2>1, StillIInv DEF IInv
<1>5. CASE /\ accepted' = [accepted EXCEPT ![t] = @ + 1]
           /\ blocked' = [blocked EXCEPT ![t] = [thread |-> t, number |-> accepted'[t]]]
  <2>1. /\ accepted[t] \in Nat /\ accepted'[t] = accepted[t] + 1 /\ accepted'[t] \in 1 .. MaxCalls
        /\ \A u \in Threads \ {t} : accepted'[u] = accepted[u] /\ blocked'[u] = blocked[u]
        /\ blocked'[t] = [thread |-> t, number |-> accepted'[t]]
    BY <1>1, <1>3, <1>5, LoggerAssumption DEF TypeOK
  <2>2. blocked'[t] \in Message
    BY <2>1 DEF Message
  <2>3. TypeOK'
    BY <1>1, <1>2, <1>3, <1>5, <2>1, <2>2, LoggerAssumption DEF TypeOK
  <2>4. \A i \in DOMAIN Pipeline : Pipeline[i] \in Message \union {Terminate}
    BY <1>1
  <2>5. \A i \in DOMAIN Pipeline : Pipeline[i].thread \in Threads => Pipeline[i].number \in Nat
    BY <2>4, MarkFacts, MessageFacts, LoggerAssumption
  <2>6. NumbersAreAccepted'
    <3> SUFFICES ASSUME NEW u \in Threads
                 PROVE  /\ \A i \in DOMAIN Pipeline :
                            Pipeline[i].thread = u => Pipeline[i].number <= accepted'[u]
                        /\ blocked'[u] # Nobody =>
                            blocked'[u] = [thread |-> u, number |-> accepted'[u]]
      BY <1>2 DEF NumbersAreAccepted
    <3>1. /\ \A i \in DOMAIN Pipeline :
              Pipeline[i].thread = u => Pipeline[i].number <= accepted[u]
          /\ blocked[u] # Nobody => blocked[u] = [thread |-> u, number |-> accepted[u]]
      BY DEF IInv, NumbersAreAccepted
    <3>2. CASE u # t
      BY <2>1, <3>1, <3>2
    <3>3. CASE u = t
      <4>1. ASSUME NEW i \in DOMAIN Pipeline, Pipeline[i].thread = u
            PROVE  Pipeline[i].number <= accepted'[u]
        <5>1. Pipeline[i].number \in Nat /\ Pipeline[i].number <= accepted[u]
          BY <2>5, <3>1, <4>1
        <5> QED BY <2>1, <3>3, <5>1
      <4> QED BY <2>1, <3>3, <4>1
    <3> QED BY <3>2, <3>3
  <2>7. MessagesKeepTheirOrder'
    <3> SUFFICES ASSUME NEW u \in Threads
                 PROVE
            /\ \A n \in 1 .. accepted'[u] :
                 \/ blocked'[u] = [thread |-> u, number |-> n]
                 \/ \E i \in DOMAIN Pipeline : Pipeline[i] = [thread |-> u, number |-> n]
            /\ \A i, j \in DOMAIN Pipeline :
                i < j /\ Pipeline[i].thread = u /\ Pipeline[j].thread = u =>
                    Pipeline[i].number < Pipeline[j].number
            /\ \A i \in DOMAIN Pipeline :
                Pipeline[i].thread = u /\ blocked'[u] # Nobody =>
                    Pipeline[i].number < blocked'[u].number
      BY <1>2 DEF MessagesKeepTheirOrder
    <3>1. CASE u # t
      BY <2>1, <3>1 DEF IInv, MessagesKeepTheirOrder
    <3>2. CASE u = t
      <4>1. \A n \in 1 .. accepted'[t] : n = accepted'[t] \/ n \in 1 .. accepted[t]
        BY <2>1
      <4>2. \A n \in 1 .. accepted[t] :
                \E i \in DOMAIN Pipeline : Pipeline[i] = [thread |-> t, number |-> n]
        <5>1. Nobody \notin {[thread |-> t, number |-> n] : n \in 1 .. accepted[t]}
          BY MarkFacts
        <5> QED BY <1>3, <5>1 DEF IInv, MessagesKeepTheirOrder
      <4>3. blocked'[t].number = accepted[t] + 1
        BY <2>1
      <4>4. \A i \in DOMAIN Pipeline :
                Pipeline[i].thread = t => Pipeline[i].number < blocked'[t].number
        <5>1. \A i \in DOMAIN Pipeline :
                  Pipeline[i].thread = t => Pipeline[i].number <= accepted[t]
          BY DEF IInv, NumbersAreAccepted
        <5>2. ASSUME NEW i \in DOMAIN Pipeline, Pipeline[i].thread = t
              PROVE  Pipeline[i].number < blocked'[t].number
          <6>1. Pipeline[i].number \in Nat /\ Pipeline[i].number <= accepted[t]
            BY <2>5, <5>1, <5>2
          <6> QED BY <2>1, <4>3, <6>1
        <5> QED BY <5>2
      <4>5. \A i, j \in DOMAIN Pipeline :
                i < j /\ Pipeline[i].thread = t /\ Pipeline[j].thread = t =>
                    Pipeline[i].number < Pipeline[j].number
        BY DEF IInv, MessagesKeepTheirOrder
      <4> QED BY <2>1, <3>2, <4>1, <4>2, <4>4, <4>5
    <3> QED BY <3>1, <3>2
  <2>8. TerminateIsLast'
    BY <1>2 DEF Log, IInv, TerminateIsLast
  <2> QED BY <2>3, <2>6, <2>7, <2>8 DEF IInv
<1> QED BY <1>4, <1>5 DEF Log

\* A message gets its place in the queue.
LEMMA EnqueueIInv ==
    ASSUME IInv, NEW t \in Threads, Enqueue(t)
    PROVE  IInv'
<1> DEFINE m == blocked[t]
<1>1. TypeOK /\ Pipeline \in Seq(Message \union {Terminate})
  BY PipelineType DEF IInv
<1>2. /\ m # Nobody /\ Len(queue) < Capacity
      /\ queue' = Append(queue, m) /\ blocked' = [blocked EXCEPT ![t] = Nobody]
      /\ UNCHANGED <<level, phase, calls, accepted, worker, printed>>
  BY DEF Enqueue, Put
<1>3. m \in Message /\ m = [thread |-> t, number |-> accepted[t]]
  BY <1>1, <1>2 DEF IInv, TypeOK, NumbersAreAccepted
<1>4. TypeOK'
  <2>1. queue' \in Seq(Message \union {Terminate}) /\ Len(queue') <= Capacity
    BY <1>1, <1>2, <1>3, LoggerAssumption DEF TypeOK
  <2>2. blocked' \in [Threads -> Message \union {Nobody}]
    BY <1>1, <1>2 DEF TypeOK
  <2> QED BY <1>1, <1>2, <2>1, <2>2 DEF TypeOK
<1>5. Pipeline' = Append(Pipeline, m)
  BY <1>1, <1>2, <1>3, QueuePipeline
<1>6. /\ Len(Pipeline) \in Nat
      /\ DOMAIN Pipeline = 1 .. Len(Pipeline)
      /\ DOMAIN Pipeline' = 1 .. Len(Pipeline) + 1
      /\ \A i \in DOMAIN Pipeline : Pipeline'[i] = Pipeline[i]
      /\ Pipeline'[Len(Pipeline) + 1] = m
      /\ Len(Pipeline') = Len(Pipeline) + 1
  BY <1>1, <1>5
<1>7. /\ blocked'[t] = Nobody
      /\ \A u \in Threads \ {t} : blocked'[u] = blocked[u]
      /\ m.thread = t /\ m.number = accepted[t] /\ accepted[t] \in Nat
  BY <1>1, <1>2, <1>3, LoggerAssumption DEF TypeOK
<1> HIDE DEF m
<1>8. NumbersAreAccepted'
  <2> SUFFICES ASSUME NEW u \in Threads
               PROVE  /\ \A i \in DOMAIN Pipeline' :
                            Pipeline'[i].thread = u => Pipeline'[i].number <= accepted[u]
                      /\ blocked'[u] # Nobody =>
                            blocked'[u] = [thread |-> u, number |-> accepted[u]]
    BY <1>2 DEF NumbersAreAccepted
  <2> QED BY <1>6, <1>7 DEF IInv, NumbersAreAccepted
<1>9. MessagesKeepTheirOrder'
  <2> SUFFICES ASSUME NEW u \in Threads
               PROVE
          /\ \A n \in 1 .. accepted[u] :
               \/ blocked'[u] = [thread |-> u, number |-> n]
               \/ \E i \in DOMAIN Pipeline' : Pipeline'[i] = [thread |-> u, number |-> n]
          /\ \A i, j \in DOMAIN Pipeline' :
              i < j /\ Pipeline'[i].thread = u /\ Pipeline'[j].thread = u =>
                  Pipeline'[i].number < Pipeline'[j].number
          /\ \A i \in DOMAIN Pipeline' :
              Pipeline'[i].thread = u /\ blocked'[u] # Nobody =>
                  Pipeline'[i].number < blocked'[u].number
    BY <1>2 DEF MessagesKeepTheirOrder
  <2>1. \A n \in 1 .. accepted[u] :
            \/ blocked[u] = [thread |-> u, number |-> n]
            \/ \E i \in DOMAIN Pipeline : Pipeline[i] = [thread |-> u, number |-> n]
    BY DEF IInv, MessagesKeepTheirOrder
  <2>2. \A n \in 1 .. accepted[u] :
            \/ blocked'[u] = [thread |-> u, number |-> n]
            \/ \E i \in DOMAIN Pipeline' : Pipeline'[i] = [thread |-> u, number |-> n]
    <3>1. CASE u # t
      BY <1>6, <1>7, <2>1, <3>1
    <3>2. CASE u = t
      BY <1>6, <2>1, <3>2 DEF m
    <3> QED BY <3>1, <3>2
  <2>3. \A i, j \in DOMAIN Pipeline :
            i < j /\ Pipeline[i].thread = u /\ Pipeline[j].thread = u =>
                Pipeline[i].number < Pipeline[j].number
    BY DEF IInv, MessagesKeepTheirOrder
  <2>4. \A i \in DOMAIN Pipeline : Pipeline[i].thread = t => Pipeline[i].number < m.number
    BY <1>2 DEF IInv, MessagesKeepTheirOrder, m
  <2>5. \A i, j \in DOMAIN Pipeline' :
            i < j /\ Pipeline'[i].thread = u /\ Pipeline'[j].thread = u =>
                Pipeline'[i].number < Pipeline'[j].number
    BY <1>6, <1>7, <2>3, <2>4
  <2>6. \A i \in DOMAIN Pipeline' :
            Pipeline'[i].thread = u /\ blocked'[u] # Nobody =>
                Pipeline'[i].number < blocked'[u].number
    BY <1>6, <1>7 DEF IInv, MessagesKeepTheirOrder
  <2> QED BY <2>2, <2>5, <2>6
<1>10. TerminateIsLast'
  <2>1. phase \notin {"exit", "join", "over"}
    BY <1>2 DEF IInv, TerminateIsLast, m
  <2>2. m # Terminate /\ \A i \in DOMAIN Pipeline : Pipeline[i] # Terminate
    BY <1>3, <2>1, MarkFacts DEF IInv, TerminateIsLast
  <2> QED BY <1>2, <1>6, <2>1, <2>2 DEF TerminateIsLast
<1> QED BY <1>4, <1>8, <1>9, <1>10 DEF IInv

\* The worker's steps.
LEMMA WorkerIInv ==
    ASSUME IInv, Dequeue \/ PrintMessage
    PROVE  IInv'
<1>1. TypeOK
  BY DEF IInv
<1>2. CASE Dequeue
  <2>1. Head(queue) \in Message \union {Terminate} /\ Tail(queue) \in Seq(Message \union {Terminate})
         /\ Len(Tail(queue)) <= Capacity
    BY <1>1, <1>2, LoggerAssumption DEF Dequeue, TypeOK
  <2>2. TypeOK'
    BY <1>1, <1>2, <2>1 DEF Dequeue, callVars, TypeOK
  <2>3. phase # "over"
    BY <1>2, MarkFacts DEF IInv, TerminateIsLast, Dequeue
  <2> QED BY <1>1, <1>2, <2>2, <2>3, DequeuePipeline, StillIInv DEF Dequeue, callVars
<1>3. CASE PrintMessage
  <2>1. TypeOK'
    BY <1>1, <1>3 DEF PrintMessage, Prints, callVars, TypeOK
  <2>2. phase # "over"
    BY <1>3, MarkFacts DEF IInv, TerminateIsLast, PrintMessage, Prints
  <2> QED BY <1>1, <1>3, <2>1, <2>2, PrintPipeline, StillIInv DEF PrintMessage, Prints, callVars
<1> QED BY <1>2, <1>3

\* Every step keeps the invariant.
LEMMA NextIInv == IInv /\ [Next]_vars => IInv'
<1> SUFFICES ASSUME IInv, [Next]_vars PROVE IInv'
  OBVIOUS
<1>1. CASE UNCHANGED vars
  <2>1. TypeOK'
    BY <1>1 DEF vars, IInv, TypeOK
  <2>2. UNCHANGED <<Pipeline, accepted, blocked, phase, worker>>
    BY <1>1 DEF vars, Pipeline
  <2> QED BY <2>1, <2>2, StillIInv
<1> QED BY <1>1, MainIInv, LogIInv, EnqueueIInv, WorkerIInv DEF Next

-----------------------------------------------------------------------------
(* The theorems *)

\* The strengthening the theorems below rest on holds in every reachable state.
THEOREM InductiveInvariant == Spec => []IInv
<1> QED BY InitIInv, NextIInv, PTL DEF Spec

\* Every variable keeps its type, and the queue its capacity.
THEOREM TypeCorrect == Spec => []TypeOK
<1>1. IInv => TypeOK
  BY DEF IInv
<1> QED BY <1>1, InductiveInvariant, PTL

\* No message is lost, doubled or overtaken by one of its own thread on the way to
\* the console, for any number of threads that wait for any number of places.
THEOREM OrderIsKept == Spec => []MessagesKeepTheirOrder
<1>1. IInv => MessagesKeepTheirOrder
  BY DEF IInv
<1> QED BY <1>1, InductiveInvariant, PTL

\* Everything that was logged is on the console before the process ends.
THEOREM PrintedAtExit == Spec => []AllIsPrintedAtExit
<1>1. IInv => AllIsPrintedAtExit
  <2> SUFFICES ASSUME IInv, phase = "over", NEW t \in Threads, NEW n \in 1 .. accepted[t]
               PROVE  \E i \in DOMAIN printed : printed[i] = [thread |-> t, number |-> n]
    BY DEF AllIsPrintedAtExit
  <2> DEFINE m == [thread |-> t, number |-> n]
             M == Message \union {Terminate}
  <2>1. TypeOK /\ worker = Terminate /\ blocked[t] = Nobody
    BY DEF IInv, TerminateIsLast
  <2>2. m # Nobody /\ m # Terminate
    BY MarkFacts
  <2>3. PICK i \in DOMAIN Pipeline : Pipeline[i] = m
    BY <2>1, <2>2 DEF IInv, MessagesKeepTheirOrder
  <2>4. printed \in Seq(M) /\ queue \in Seq(M) /\ Terminate # Nobody /\ Terminate \in M
    BY <2>1, MarkFacts DEF TypeOK
  <2>5. Pipeline = (printed \o <<Terminate>>) \o queue
    BY <2>1, <2>4 DEF Pipeline
  <2>6. /\ Len(Pipeline) = Len(printed) + 1 + Len(queue) /\ DOMAIN Pipeline = 1 .. Len(Pipeline)
        /\ Pipeline[Len(printed) + 1] = Terminate
        /\ \A j \in 1 .. Len(printed) : Pipeline[j] = printed[j]
        /\ Len(printed) \in Nat /\ Len(queue) \in Nat
    BY <2>4, <2>5
  <2>7. Len(printed) + 1 = Len(Pipeline)
    BY <2>6 DEF IInv, TerminateIsLast
  <2>8. i # Len(printed) + 1
    BY <2>2, <2>3, <2>6
  <2>9. i \in 1 .. Len(printed)
    BY <2>3, <2>6, <2>7, <2>8
  <2> QED BY <2>3, <2>4, <2>6, <2>9
<1> QED BY <1>1, InductiveInvariant, PTL

=============================================================================
