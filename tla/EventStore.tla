----------------------------- MODULE EventStore -----------------------------
(***************************************************************************)
(* What TelemetryStorage promises its callers, with no locks in it: every  *)
(* call takes effect at one instant between its invocation and its return. *)
(* A store puts its record unless the date has one; a query answers with   *)
(* the records of its range at that instant.                               *)
(*                                                                         *)
(* The contract is the one the code keeps, so it names its two exceptions. *)
(* A store that began before its name had a record, and a call on the name *)
(* whose time it shares, may leave the name's records undefined: together, *)
(* or one after the other's return (what each did last is not ordered).    *)
(* And the answer to a query whose bounds are inverted around a record is  *)
(* undefined.  `up' becomes FALSE when undefined behaviour ends the        *)
(* process.                                                                *)
(***************************************************************************)
EXTENDS CallHistory

VARIABLES
    stored,     \* the records of each name
    broken,     \* the names whose records are undefined
    up,         \* the process lives
    result      \* what each idle thread's last call, if a query, returned

vars == <<stored, broken, up, call, early, met, result>>

Init ==
    /\ stored = [n \in Names |-> EmptyMap]
    /\ broken = {}
    /\ up = TRUE
    /\ call = [t \in Threads |-> NoCall]
    /\ early = {}
    /\ met = {}
    /\ result = [t \in Threads |-> {}]

-----------------------------------------------------------------------------
\* The effect of t's call is not defined.
Undefined(t) == call[t].name \in broken \/ t \in met

Invoke(t, c) ==
    /\ BeginCall(t, c, stored[c.name])
    /\ result' = [result EXCEPT ![t] = {}]
    /\ UNCHANGED <<stored, broken, up>>

Put(t) ==
    /\ call[t] \in StoreCalls
    /\ call[t].name \notin broken
    /\ stored' = [stored EXCEPT ![call[t].name] =
                                    Emplace(@, call[t].date, call[t].values)]
    /\ EndCall(t)
    /\ UNCHANGED <<broken, up, result>>

PutUndefined(t) ==
    /\ call[t] \in StoreCalls
    /\ Undefined(t)
    /\ \E m \in Damaged(Emplace(stored[call[t].name], call[t].date, call[t].values)) :
            stored' = [stored EXCEPT ![call[t].name] = m]
    /\ broken' = broken \union {call[t].name}
    /\ up' \in BOOLEAN
    /\ EndCall(t)
    /\ UNCHANGED result

Answer(t) ==
    /\ call[t] \in GetCalls
    /\ call[t].name \notin broken
    /\ result' = [result EXCEPT ![t] =
                      InRange(stored[call[t].name], call[t].from, call[t].to)]
    /\ EndCall(t)
    /\ UNCHANGED <<stored, broken, up>>

AnswerUndefined(t) ==
    /\ call[t] \in GetCalls
    /\ \/ /\ Undefined(t)
          /\ broken' = broken \union {call[t].name}
       \/ /\ RunsPastEnd(stored[call[t].name], call[t].from, call[t].to)
          /\ UNCHANGED broken
    /\ \E r \in SUBSET Records : result' = [result EXCEPT ![t] = r]
    /\ up' \in BOOLEAN
    /\ EndCall(t)
    /\ UNCHANGED stored

Next ==
    /\ up
    /\ \E t \in Threads :
        \/ \E c \in StoreCalls \union GetCalls : Invoke(t, c)
        \/ Put(t) \/ PutUndefined(t) \/ Answer(t) \/ AnswerUndefined(t)

Spec == Init /\ [][Next]_vars

=============================================================================
