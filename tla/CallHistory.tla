----------------------------- MODULE CallHistory -----------------------------
(***************************************************************************)
(* The calls the server's threads make of the storage, with the history of *)
(* which of them have shared their time.  The storage and its contract     *)
(* both keep it, so that the contract can say what only calls can cause    *)
(* that were under way at once.                                            *)
(***************************************************************************)
EXTENDS EventRecords

CONSTANTS
    Threads,    \* the threads that run io_context::run
    NoCall      \* a thread that executes no storage call

ASSUME CallsAssumption == NoCall \notin StoreCalls \union GetCalls

VARIABLES
    call,   \* the call each thread is executing
    early,  \* history: who is storing since before the name had a record
    met     \* history: whose call is, or has shared its time with, an early store
            \* of the same name by another thread

BeginCall(t, c, records) ==
    LET first  == c \in StoreCalls /\ records = EmptyMap
        rivals == {u \in Threads : /\ call[u] # NoCall /\ call[u].name = c.name
                                   /\ first \/ u \in early}
    IN  /\ call[t] = NoCall
        /\ call' = [call EXCEPT ![t] = c]
        /\ early' = IF first THEN early \union {t} ELSE early
        /\ met' = IF rivals = {} THEN met ELSE met \union rivals \union {t}

EndCall(t) ==
    /\ call' = [call EXCEPT ![t] = NoCall]
    /\ early' = early \ {t}
    /\ met' = met \ {t}

=============================================================================
