---------------------------- MODULE TelemetryApi ----------------------------
(***************************************************************************)
(* The telemetry API: the requests of several threads go through the       *)
(* router built from TelemetryRoutes to the two handlers, which validate   *)
(* them, call the storage and make the response.  Composes HttpRouter,     *)
(* with the routes of the application, and EventStore, the contract        *)
(* TelemetryStorage implements; a handler's call is one behaviour of it.   *)
(*                                                                         *)
(* A body is JSON; or text json::parse refuses with a message in UTF-8,     *)
(* "malformed"; or with one that repeats bytes that are not, "garbled".  A *)
(* JSON object is a record of its fields of the expected type, and the set *)
(* of the keys whose value has another type.  Its numbers are integers:    *)
(* nlohmann::json keeps one as an int64_t or a uint64_t and converts it by  *)
(* static_cast, or, outside 64 bits, as a double, whose conversion is      *)
(* undefined: what it gives is up to the build.                            *)
(* A mean is kept as <<total, count, factor>>, which the code divides and  *)
(* multiplies in double precision.                                         *)
(***************************************************************************)
EXTENDS CallHistory, Integers, RoutePaths

CONSTANTS
    Requests,   \* bound: the requests clients may send
    WordSize,   \* of timestamps and totals, 2^64 in the code
    IntSize,    \* interaction times are in -IntSize .. IntSize - 1; 2^31 in the code
    ArrayLen,   \* INTERACTION_TIMES_LEN, 10 in the code
    WordOfDouble(_), IntOfDouble(_)     \* the build's conversions of such doubles

MaxWord == WordSize - 1
Word == 0 .. MaxWord
Ints == -IntSize .. IntSize - 1

VARIABLES
    stored, broken, up, result,     \* EventStore's, with CallHistory's
    pc,         \* "idle", or "called": in the storage or just returned from it
    request,    \* the request each thread handles, or the query it answered last
    response,   \* the thread's last response
    posted,     \* history: the POST requests that were accepted
    acked,      \* history: the POST requests that were answered 200
    seen        \* history: acked when the query of `request' began

storeVars == <<stored, broken, up, call, early, met, result>>
vars == <<storeVars, pc, request, response, posted, acked, seen>>

Store == INSTANCE EventStore

-----------------------------------------------------------------------------
(* Routing *)

MeanRoute  == <<Plain("paths"), Param("event"), Plain("meanLength")>>
EventRoute == <<Plain("paths"), Param("event")>>

Map1(key, handler) == [p \in {key} |-> handler]
AppHandlers == [GET |-> Map1(Template(MeanRoute), "mean"),
                POST |-> Map1(Template(EventRoute), "event")]

\* registerRoutes: what build() leaves in the router's maps, GET routes first.
AppInfo == <<MeanRoute, EventRoute>>

Router == INSTANCE HttpRouter WITH
    Routes <- {MeanRoute, EventRoute}, RequestPaths <- {r.path : r \in Requests},
    Handlers <- {"mean", "event"}, NoHandler <- "none",
    phase <- "ready", given <- {"mean", "event"}, pending <- [GET |-> {}, POST |-> {}],
    builder <- [GET |-> Map1(MeanRoute, "mean"), POST |-> Map1(EventRoute, "event")],
    handlers <- AppHandlers, info <- AppInfo, exchange <- 0

Routed(r) == Router!ProcessRouting(r.path, AppHandlers[r.method], AppInfo)

RoutedTo(r, handler) == r.method \in {"GET", "POST"} /\ Routed(r).handler = handler

-----------------------------------------------------------------------------
(* Conversions and validation *)

\* static_cast of an integer: modulo 2^width.
Wrapped(x)    == x % WordSize
WrappedInt(x) == ((x + IntSize) % (2 * IntSize)) - IntSize

\* The integers nlohmann::json keeps as integers: those of int64_t and of uint64_t.
JsonInts == -(WordSize \div 2) .. MaxWord

\* get<uint64_t>() and get<int32_t>().
Unsigned(x) == IF x \in JsonInts THEN Wrapped(x) ELSE WordOfDouble(x)
Signed(x)   == IF x \in JsonInts THEN WrappedInt(x) ELSE IntOfDouble(x)

\* j.at(key).get_to(field) for each key: throws unless the object has them all.
Has(r, keys) == r.text = "json" /\ keys \subseteq DOMAIN r.body

FieldOr(r, key, default) == IF Has(r, {key}) THEN Unsigned(r.body[key]) ELSE default

\* The POST handler up to its storeEvent: from_json, the length, the name.
ValidEvent(r) ==
    /\ Has(r, {"date", "values"})
    /\ Len(r.body.values) = ArrayLen
    /\ "event" \in DOMAIN Routed(r).parameters

Narrowed(values) == [i \in DOMAIN values |-> Signed(values[i])]

StoreCall(r) ==
    [name   |-> Routed(r).parameters["event"].text,
     date   |-> Unsigned(r.body.date),
     values |-> Narrowed(r.body.values)]

\* The GET handler up to its getEventInteractions: from_json, the name, parseTimeUnit.
TimeUnits == {"seconds", "milliseconds"}

ValidQuery(r) ==
    /\ Has(r, {"resultUnit"})
    /\ "event" \in DOMAIN Routed(r).parameters
    /\ r.body.resultUnit \in TimeUnits
    /\ {"startTimestamp", "endTimestamp"} \intersect r.mistyped = {}

\* Faulty variant: without a startTimestamp the query starts at the end.
QueryCallFromLast(r) ==
    [name |-> Routed(r).parameters["event"].text,
     from |-> FieldOr(r, "startTimestamp", MaxWord),
     to   |-> FieldOr(r, "endTimestamp", MaxWord)]

QueryCall(r) ==
    [name |-> Routed(r).parameters["event"].text,
     from |-> FieldOr(r, "startTimestamp", 0),
     to   |-> FieldOr(r, "endTimestamp", MaxWord)]

\* The requests that are accepted, and the calls they make.
EventRequests == {r \in Requests : RoutedTo(r, "event") /\ ValidEvent(r)}
QueryRequests == {r \in Requests : RoutedTo(r, "mean") /\ ValidQuery(r)}
CallOf == [r \in EventRequests \union QueryRequests |->
                IF r \in EventRequests THEN StoreCall(r) ELSE QueryCall(r)]

\* JSON's numbers are converted to numbers of the types, outside 64 bits too; what
\* requests name and carry is among the storage's constants.
ASSUME ApiAssumption ==
    /\ WordSize \in Nat \ {0} /\ IntSize \in Nat \ {0} /\ ArrayLen \in Nat
    /\ \A r \in Requests :
        /\ r.path \in Seq(PathParts)
        /\ \A key \in {"date", "startTimestamp", "endTimestamp"} :
                Has(r, {key}) => r.body[key] \in Int /\ Unsigned(r.body[key]) \in Word
        /\ Has(r, {"values"}) =>
                /\ r.body.values \in Seq(Int)
                /\ \A i \in DOMAIN r.body.values : Signed(r.body.values[i]) \in Ints
        /\ Len(Parts(r.path)) >= 2 => Parts(r.path)[2].text \in Names
        /\ Has(r, {"date"}) => Unsigned(r.body.date) \in Dates
        /\ Has(r, {"values"}) /\ Len(r.body.values) = ArrayLen =>
                Narrowed(r.body.values) \in Values
        /\ FieldOr(r, "startTimestamp", 0) \in Bounds
        /\ FieldOr(r, "endTimestamp", MaxWord) \in Bounds

-----------------------------------------------------------------------------
(* The mean *)

Total(f) == FoldFunction(LAMBDA x, y : x + y, 0, f)

\* Faulty variant: the total is signed.
TotalTimesSigned(records) == {Total([r \in records |-> Total(r[2])])}

\* totalTime: the sum of each array, an int, is added to a uint64_t.  Overflow of
\* the int is undefined; a build wraps it, or has widened the sum to 64 bits.
TotalTimes(records) ==
    {Wrapped(Total([r \in records |-> WrappedInt(Total(r[2]))])),
     Wrapped(Total([r \in records |-> Total(r[2])]))}

Factor(unit) == IF unit = "milliseconds" THEN 1000 ELSE 1

Mean(total, count, unit) == [total |-> total, count |-> count, factor |-> Factor(unit)]

\* Faulty variant: a sum in milliseconds is not scaled.
MeanPathLengthsUnscaled(records, unit) ==
    IF records = {}
      THEN {Mean(0, 1, "seconds")}
      ELSE {Mean(t, Cardinality(records), "seconds") : t \in TotalTimes(records)}

\* calculateMeanPathLength
MeanPathLengths(records, unit) ==
    IF records = {}
      THEN {Mean(0, 1, "seconds")}
      ELSE {Mean(t, Cardinality(records), unit) : t \in TotalTimes(records)}

-----------------------------------------------------------------------------
NoMean == Mean(0, 0, "seconds")
Response(code, mean) == [code |-> code, mean |-> mean]
NoResponse == Response(0, NoMean)
NoRequest == [method |-> "NONE"]

Means == [total : Word, count : Nat, factor : {1, 1000}]

TypeOK ==
    /\ stored \in [Names -> EventMaps]
    /\ broken \subseteq Names
    /\ up \in BOOLEAN
    /\ call \in [Threads -> StoreCalls \union GetCalls \union {NoCall}]
    /\ early \subseteq Threads /\ met \subseteq Threads
    /\ result \in [Threads -> SUBSET Records]
    /\ pc \in [Threads -> {"idle", "called"}]
    /\ request \in [Threads -> EventRequests \union QueryRequests \union {NoRequest}]
    /\ response \in [Threads -> [code : {0, 200, 400, 500, 501}, mean : Means]]
    /\ posted \subseteq EventRequests
    /\ acked \subseteq posted
    /\ seen \in [Threads -> SUBSET acked]

Init ==
    /\ Store!Init
    /\ pc = [t \in Threads |-> "idle"]
    /\ request = [t \in Threads |-> NoRequest]
    /\ response = [t \in Threads |-> NoResponse]
    /\ posted = {}
    /\ acked = {}
    /\ seen = [t \in Threads |-> {}]

-----------------------------------------------------------------------------
(* The handlers *)

\* The handlers' catch block answers 400 with the exception's text; a text that is
\* not UTF-8 makes its dump() throw, and route()'s own catch block answers 500.
CatchCode(r) == IF r.text = "garbled" THEN 500 ELSE 400

\* route(): no such method, no route, or a handler that does not accept the request.
RefusalCode(r) ==
    IF r.method \notin {"GET", "POST"} THEN 501
    ELSE IF Routed(r).code # 200 THEN Routed(r).code
    ELSE CatchCode(r)

Idle(t) == up /\ pc[t] = "idle"

\* The thread has answered; only a query's answer is kept with its request.
Finish(t, code, mean) ==
    /\ response' = [response EXCEPT ![t] = Response(code, mean)]
    /\ pc' = [pc EXCEPT ![t] = "idle"]

Forget(t) ==
    /\ request' = [request EXCEPT ![t] = NoRequest]
    /\ seen' = [seen EXCEPT ![t] = {}]

\* A method other than GET and POST, or a request its handler does not accept.
Refuse(t, r) ==
    /\ Idle(t)
    /\ r \notin EventRequests \union QueryRequests
    /\ Finish(t, RefusalCode(r), NoMean)
    /\ Forget(t)
    /\ UNCHANGED <<storeVars, posted, acked>>

CallStorage(t, r) ==
    /\ Idle(t)
    /\ Store!Invoke(t, CallOf[r])
    /\ pc' = [pc EXCEPT ![t] = "called"]
    /\ request' = [request EXCEPT ![t] = r]
    /\ response' = [response EXCEPT ![t] = NoResponse]
    /\ UNCHANGED acked

\* The POST handler calls storeEvent, the GET handler getEventInteractions.
StoreEvent(t, r) ==
    /\ r \in EventRequests
    /\ CallStorage(t, r)
    /\ posted' = posted \union {r}
    /\ seen' = [seen EXCEPT ![t] = {}]

GetEventInteractions(t, r) ==
    /\ r \in QueryRequests
    /\ CallStorage(t, r)
    /\ seen' = [seen EXCEPT ![t] = acked]
    /\ UNCHANGED posted

\* What the contract leaves undefined: of the outcomes, one that loses the most is
\* taken, as no property speaks of what a damaged name's records are.
UndefinedStep(t) ==
    \/ Store!PutUndefined(t) /\ stored'[call[t].name] = EmptyMap
    \/ Store!AnswerUndefined(t) /\ result'[t] = {}

\* The call takes effect and returns, as the storage's contract allows.
StorageStep(t) ==
    /\ up
    /\ Store!Put(t) \/ Store!Answer(t) \/ UndefinedStep(t)
    /\ UNCHANGED <<pc, request, response, posted, acked, seen>>

\* Faulty variant: the handler does not wait for the storage.
ReturnedOrNot(t, method) == up /\ pc[t] = "called" /\ request[t].method = method

Returned(t, method) ==
    up /\ pc[t] = "called" /\ call[t] = NoCall /\ request[t].method = method

AnswerPost(t) ==
    /\ Returned(t, "POST")
    /\ Finish(t, 200, NoMean)
    /\ acked' = acked \union {request[t]}
    /\ Forget(t)
    /\ UNCHANGED <<storeVars, posted>>

\* Faulty variant: a query that finds nothing waits for an event.
AnswerGetOfSome(t) ==
    /\ Returned(t, "GET")
    /\ IF result[t] = {} THEN UNCHANGED <<pc, response>>
       ELSE \E mean \in MeanPathLengths(result[t], request[t].body.resultUnit) :
                Finish(t, 200, mean)
    /\ UNCHANGED <<storeVars, request, posted, acked, seen>>

AnswerGet(t) ==
    /\ Returned(t, "GET")
    /\ \E mean \in MeanPathLengths(result[t], request[t].body.resultUnit) :
            Finish(t, 200, mean)
    /\ UNCHANGED <<storeVars, request, posted, acked, seen>>

\* Undefined behaviour has ended the process.
Ended == ~up /\ UNCHANGED vars

Next ==
    \/ \E t \in Threads, r \in Requests :
        Refuse(t, r) \/ StoreEvent(t, r) \/ GetEventInteractions(t, r)
    \/ \E t \in Threads : StorageStep(t) \/ AnswerPost(t) \/ AnswerGet(t)
    \/ Ended

\* No name is damaged, and no query runs past the end of its records.
Undamaged ==
    /\ up
    /\ broken = {}
    /\ \A t \in Threads : call[t] \in GetCalls =>
            ~RunsPastEnd(stored[call[t].name], call[t].from, call[t].to)

\* The calls stop coming, and nothing undefined has happened.
CallsSettle == []Undamaged /\ <>[][\A t \in Threads : call[t] = NoCall => call'[t] = NoCall]_vars

\* A thread that can answer is scheduled.  A call of the storage returns if calls stop
\* coming, as TelemetryStorage's do (CallsReturn); otherwise it may wait for ever.
Fairness ==
    /\ \A t \in Threads : WF_vars(AnswerPost(t) \/ AnswerGet(t))
    /\ CallsSettle => \A t \in Threads : WF_vars(StorageStep(t))

Spec == Init /\ [][Next]_vars /\ Fairness

-----------------------------------------------------------------------------
(* Properties *)

\* The event a request names, and the record a POST request asks to store, in the
\* numbers its types can hold.
NameOf == [r \in EventRequests \union QueryRequests |-> Parts(r.path)[2].text]
Name(r) == NameOf[r]
DateOf(r) == Unsigned(r.body.date)
RecordOf(r) == <<DateOf(r), Narrowed(r.body.values)>>

\* The event's date has a record, unless calls that overlapped have damaged its name.
Kept(r) == Name(r) \in broken \/ stored[Name(r)][DateOf(r)] # NoValue

\* An event whose POST was answered 200 stays: its date has a record for good.
AcknowledgedEventsAreKept == \A r \in acked : Kept(r)

\* The times and their sum are as the client wrote them: neither is changed.
Representable(r) ==
    /\ \A i \in DOMAIN r.body.values : r.body.values[i] \in JsonInts \intersect Ints
    /\ Total(r.body.values) \in Ints

TrueTotal(events) == Total([r \in events |-> Total(r.body.values)])

\* The events a query asks for: those of its name and its range.
AskedBy(q) ==
    {r \in posted :
        /\ Name(r) = Name(q)
        /\ Has(q, {"startTimestamp"}) => Unsigned(q.body.startTimestamp) <= DateOf(r)
        /\ Has(q, {"endTimestamp"}) => DateOf(r) <= Unsigned(q.body.endTimestamp)}

\* The query's bounds are not inverted, and no overlapping calls have damaged its name.
Sound(q) ==
    /\ Name(q) \notin broken
    /\ Has(q, {"startTimestamp", "endTimestamp"}) =>
            Unsigned(q.body.startTimestamp) <= Unsigned(q.body.endTimestamp)

\* The thread has answered such a query.
AnsweredQuery(t) == response[t].code = 200 /\ request[t] # NoRequest /\ Sound(request[t])

\* The mean t has answered counts these events: they have dates in the query's range,
\* at most one each; every event that was acknowledged before the query began is among
\* them, or another of its date; and the mean is scaled to the query's unit.
Counts(t, events) ==
    /\ events \subseteq AskedBy(request[t])
    /\ \A r, s \in events : DateOf(r) = DateOf(s) => r = s
    /\ \A r \in seen[t] \intersect AskedBy(request[t]) :
            \E s \in events : DateOf(s) = DateOf(r)
    /\ events # {} =>
            /\ response[t].mean.count = Cardinality(events)
            /\ response[t].mean.factor = Factor(request[t].body.resultUnit)

\* A mean that is answered is a mean of events that clients posted to the name, all
\* that the query must count and none beyond its range.  The total is the sum of the
\* times as the clients wrote them, if these and the sum of each event fit an int32_t;
\* a negative one modulo 2^64, as totalTime is unsigned: no mean of the times.
MeanIsOfPostedEvents ==
    \A t \in Threads : AnsweredQuery(t) =>
        \E events \in SUBSET AskedBy(request[t]) :
            /\ Counts(t, events)
            /\ (\A r \in events : Representable(r)) =>
                    response[t].mean.total = Wrapped(TrueTotal(events))

\* Every request that reaches the storage is answered once calls stop coming, while the
\* process lives and no name is damaged; that of an unknown name, which has no records
\* to take a mean of, included.
EveryRequestIsAnswered ==
    CallsSettle => \A t \in Threads : pc[t] = "called" ~> pc[t] = "idle"

-----------------------------------------------------------------------------
(* The inductive invariant of the proofs *)

\* A thread is in the storage with the call of its request, or has returned from it.
CallsAreRequested ==
    \A t \in Threads :
        /\ pc[t] = "idle" => call[t] = NoCall /\ request[t] \notin EventRequests
        /\ pc[t] = "called" => /\ request[t] # NoRequest /\ response[t].code = 0
                               /\ call[t] \in {CallOf[request[t]], NoCall}
        /\ request[t] \in EventRequests => request[t] \in posted

\* Every record, in the storage or in a result, is that of an event posted.
RecordsWerePosted ==
    /\ IsFiniteSet(posted)
    /\ \A n \in Names : \A d \in Dates :
        stored[n][d] # NoValue =>
            \E r \in posted : Name(r) = n /\ RecordOf(r) = <<d, stored[n][d]>>
    /\ \A t \in Threads : \A x \in result[t] : \E r \in posted : RecordOf(r) = x

\* The event of a store that has returned is kept, before the client is told.
ReturnedEventsAreKept ==
    \A t \in Threads :
        pc[t] = "called" /\ call[t] = NoCall /\ request[t] \in EventRequests => Kept(request[t])

\* A query's result has records of events it asks for, one of each date, and one
\* of the date of each event that was acknowledged before it began.
ResultIsAskedFor(t) ==
    request[t] \in QueryRequests /\ call[t] = NoCall /\ Sound(request[t]) =>
        /\ \A x \in result[t] : \E r \in AskedBy(request[t]) : RecordOf(r) = x
        /\ \A x, y \in result[t] : x[1] = y[1] => x = y
        /\ \A r \in seen[t] \intersect AskedBy(request[t]) :
                \E x \in result[t] : x[1] = DateOf(r)

ResultsAreAskedFor == \A t \in Threads : ResultIsAskedFor(t)

\* The mean a thread has answered is that of the result it has kept.
MeansAreOfResults ==
    \A t \in Threads :
        pc[t] = "idle" /\ request[t] \in QueryRequests =>
            response[t].mean \in MeanPathLengths(result[t], request[t].body.resultUnit)

IInv ==
    /\ TypeOK /\ CallsAreRequested /\ RecordsWerePosted /\ AcknowledgedEventsAreKept
    /\ ReturnedEventsAreKept /\ ResultsAreAskedFor /\ MeansAreOfResults

=============================================================================
