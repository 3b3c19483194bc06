---------------------------- MODULE EventRecords ----------------------------
(***************************************************************************)
(* The records of one event name: std::map<date, interaction times>, with  *)
(* the operations TelemetryStorage performs on it, and the calls of the    *)
(* storage's two public methods.                                           *)
(*                                                                         *)
(* A map is a function on Dates; NoValue is "no record at this date".  An  *)
(* array of ten interaction times is one element of Values.  The vector    *)
(* getEventInteractions returns is in date order, and so is determined by  *)
(* the set of <<date, values>> pairs it was filled from; the model keeps   *)
(* that set.                                                               *)
(***************************************************************************)
EXTENDS Naturals

CONSTANTS
    Names,      \* event names
    Dates,      \* timestamps of records
    Bounds,     \* timestamps that bound queries
    Values,     \* arrays of interaction times
    NoValue     \* no record at a date

ASSUME RecordsAssumption ==
    /\ Dates \subseteq Nat
    /\ Bounds \subseteq Nat
    /\ NoValue \notin Values

EventMaps == [Dates -> Values \union {NoValue}]
EmptyMap  == [d \in Dates |-> NoValue]

StoreCalls == [name : Names, date : Dates, values : Values]
GetCalls   == [name : Names, from : Bounds, to : Bounds]

Records == Dates \X Values

-----------------------------------------------------------------------------
\* Faulty variants: std::multimap instead of std::map; insert_or_assign.
EmplaceBoth(m, d, v)     == [m EXCEPT ![d] = IF @ = NoValue THEN v ELSE {@, v}]
InsertOrAssign(m, d, v)  == [m EXCEPT ![d] = v]

\* std::map::emplace: a date that already has a record keeps it.
Emplace(m, d, v) == [m EXCEPT ![d] = IF @ = NoValue THEN v ELSE @]

\* The records the loop from lower_bound(from) to upper_bound(to) visits.
InRange(m, from, to) ==
    {<<d, m[d]>> : d \in {x \in Dates : from <= x /\ x <= to /\ m[x] # NoValue}}

\* lower_bound(from) lies behind upper_bound(to): the loop, which only goes
\* forward and stops only at upper_bound(to), runs past end().
RunsPastEnd(m, from, to) == \E d \in Dates : m[d] # NoValue /\ to < d /\ d < from

\* What the tree may hold after two threads changed it at once: links can be
\* lost, so any part of the records may have become unreachable.
Damaged(m) == {r \in EventMaps : \A d \in Dates : r[d] \in {m[d], NoValue}}

=============================================================================
