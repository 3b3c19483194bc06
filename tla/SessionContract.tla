-------------------------- MODULE SessionContract --------------------------
(***************************************************************************)
(* What a session promises its client, without timer, threads and socket:  *)
(* requests are taken one at a time, the handler of a valid one runs at    *)
(* most once and before its answer, a refused one reaches no handler, and  *)
(* only an answer to a request that asks for keep-alive lets another       *)
(* follow.  The session may be dropped at any time.                        *)
(***************************************************************************)
EXTENDS Naturals

CONSTANT MaxRequests

VARIABLES
    asked,      \* requests the client sent
    last,       \* the kind of the last of them
    handled,    \* requests given to a handler
    answered,   \* answers the client has whole
    open        \* the session may answer

contractVars == <<asked, last, handled, answered, open>>

Init ==
    /\ asked = 0 /\ last = "none" /\ handled = 0 /\ answered = 0
    /\ open = TRUE

Ask ==
    /\ asked = answered
    /\ asked < MaxRequests
    /\ asked' = asked + 1
    /\ last' \in {"keep", "last", "bad"}
    /\ UNCHANGED <<handled, answered, open>>

Handle ==
    /\ open
    /\ asked > answered
    /\ last # "bad"
    /\ handled = answered
    /\ handled' = handled + 1
    /\ UNCHANGED <<asked, last, answered, open>>

Answer ==
    /\ open
    /\ asked > answered
    /\ handled = IF last = "bad" THEN answered ELSE asked
    /\ answered' = answered + 1
    /\ open' = (last = "keep")
    /\ UNCHANGED <<asked, last, handled>>

Drop ==
    /\ open
    /\ open' = FALSE
    /\ UNCHANGED <<asked, last, handled, answered>>

Next == Ask \/ Handle \/ Answer \/ Drop

Spec == Init /\ [][Next]_contractVars

=============================================================================
