# A TLA+ model of ctask

ctask is a REST server that keeps telemetry events in memory and answers
queries about them. This directory specifies its parts in TLA+, checks them with
TLC on small instances and proves theorems about them with TLAPS. Paths below are
relative to the repository's root.

## The system

| component | state | operations | modelled in |
|---|---|---|---|
| TelemetryStorage (`ctask_lib/telemetry/core`) | name -> (date -> values), one `shared_mutex` for the names and one per name | `storeEvent`, `getEventInteractions` | `TelemetryStorage`, `EventStore`, `CallHistory`, `EventRecords`, `SharedMutex` |
| RouterBuilder, HttpRouter (`ctask_lib/network/http/router`) | path -> handler per method, list of parameterized paths | `registerGet/Post`, `build`, `addGet/Post`, `route` | `HttpRouter`, `RoutePaths` |
| HttpServer session (`ctask_lib/service/http_server`) | socket, keep-alive timer, the coroutine's position | `clientSession_`, `resetTimer` and its callback | `HttpSession`, `SessionContract` |
| HttpServer lifecycle (same files) | the io_context, its threads, the acceptor, the once flag | `createService`, `start`, `stop`, `connectionHandler_` | `HttpServer`; `stop` as a session sees it in `HttpSession` |
| Telemetry API (`ctask_lib/telemetry/api`, `dto`) | none | the GET and POST handlers, with the conversions of their bodies | `TelemetryApi` |
| mean calculation (`ctask_lib/telemetry/core/misc.h`) | none | `calculateMeanPathLength`, `parseTimeUnit` | `TelemetryApi` |
| HTTP parser (`ctask_lib/network/http/parser`) | request under construction, llhttp's machine | `parseRequest`, its callbacks, the validators | `HttpParser` |
| logger (`ctask_lib/logger.h`) | a queue of 8192 messages, one thread | log, blocking when full; flush at exit | `Logger` |
| response serializer | none | `serialize` | not modelled: formatting by a pure function |
| CLI parser, `app/main.cpp` | none | read the configuration, compute the number of threads, wire the parts | the number of threads and the order of destruction in `HttpServer`, the two routes in `TelemetryApi`, the level in `Logger`; the CLI parser is not modelled: one call of cxxopts per option, before anything runs |

How they interact. `main` registers the API's two handlers with the builder, builds
the router and starts the server. `start` runs one `io_context` on a pool of
threads. The accept loop spawns a session coroutine per connection; a session
reads a request, parses it, calls `router_->route` synchronously, and so a handler
and the storage, then writes the response and reads again if the client asked for
keep-alive. All sessions share the router (read-only once built), the storage
(locked) and the logger. There is no strand: a session's coroutine, the
`resetTimer` it posts and its timer's callbacks run on different threads at once.

The hard behaviours are the two-level locking of the storage and the window between
a missed lookup and the insertion; the keep-alive timer against the coroutine; the
end of the server with sessions under way; the unspecified order in which the
builder's maps are walked; inverted or repeated timestamps; numbers that are narrowed
or overflow on their way into a mean; messages that are cut, in pieces or merged. `PROJECT.json` lists
them as hazards, each at its line with the properties that cover it.

## The modules

### SharedMutex, EventRecords: what the storage is built from

A `std::shared_mutex` is the set of its exclusive holders and the set of its shared
holders. No fairness among waiters is assumed: the standard gives none. What a lock
orders is kept as its complement: the accesses that the next shared (`reader`) or exclusive
(`writer`) holder does not learn of by taking it. An exclusive holder that leaves passes on what it
has seen to both, a shared one only to the next exclusive holder (`Released`, `ReleasedShared`).

The records of a name are a function from dates to a value or `NoValue`. A value
stands for the whole array of ten interaction times, which the storage never looks
into. `Emplace` keeps the first record of a date, as `std::map::emplace` does. The
vector a query returns is in date order, so the set of its (date, value) pairs is
kept. `RunsPastEnd` says when the loop from `lower_bound(from)` to
`upper_bound(to)` starts behind its end.

### TelemetryStorage: the two methods, step by step

One action per step between two points where another thread can be noticed: taking
a lock; using what it guards and leaving its scope.

| action | code (`telemetry_storage.cpp`) |
|---|---|
| `CallStore`, `StoreLookup`, `StoreFind` | 8-22: the lookup under the shared `mutex_` |
| `LockEntry`, `EmplaceInEntry` | 25-33: the fast path under `entryMutex` |
| `LockMap`, `CreateEntry`, `EmplaceUnderMap` | 36-42: the slow path under `mutex_` |
| `CallGet`, `GetLookup`, `GetMiss`, `GetFind` | 45-58 |
| `LockEntryShared`, `ReadRange` | 62-74 |

`s_fresh` and `s_found` are the two ways `try_emplace` can end. A thread whose `pc`
is at a use of a tree may be in the middle of it.

A data race is what C++ calls one: two accesses of one tree by different threads, one of them a write,
that nothing orders. They need not overlap. `unseen[t]` is the accesses that are not ordered
before what `t` does next; taking a lock removes what the lock orders from it, and the end of an
access puts it into the `unseen` of all others (`NoteAccess`). An access races with those it conflicts
with that are unseen or under way (`Races`). So a thread that got its pointer
before a late creator (`s_found`) locked `mutex_`, and takes `entryMutex` after that thread has left,
races with the write at `telemetry_storage.cpp:41`, which only `mutex_` would order. An access before a
write that raced with nothing is forgotten, for who has seen the write has seen it; so is what was done
to a tree that is undefined anyway.

A race is undefined behaviour. The model's outcomes are: the tree keeps any part of its
records, a reader returns any records, the name is `broken` from then on and its
tree undefined, or the process ends (`up`). A thread that loops for ever inside a
damaged tree is a thread that takes no more steps, which the safety properties
allow at any time and the liveness property excludes by its premise. A loop that
runs past the end of a tree has the same outcomes but damages nothing.

That a pointer to an entry stays good while others insert is `std::unordered_map`'s promise and is
taken from it: `data[n]` is one tree for ever.

### CallHistory, EventStore: the contract

The same calls without locks: a store puts its record, a query answers, each at one
instant between invocation and return. `PutUndefined` and `AnswerUndefined` are the
contract's exceptions. `CallHistory`, which the storage and the contract share, remembers which stores
began before their name had a record (`early`) and which calls of the name have shared
their time with such a store (`met`). A call may damage a name only if it has `met`. It may do so
after the other has returned, because of what each did last the other may not have seen. An answer may also be
arbitrary for inverted bounds around a record. `TelemetryStorage` implements it
with the mapping `stored <- data`.

### RoutePaths, HttpRouter

A path is the sequence of its parts. A part is plain, a parameter, or text with a
brace that is no parameter: `registerHandler_` tests for a `{` anywhere in the path,
the template is built part by part, and the two tests differ. Empty parts are kept
(slashes stay in a template) but do not count for parameter positions.

`Register` is the builder's `registerGet/Post`; `StartBuild`, `AddGet`, `AddPost`,
`EndBuild` are `build()`, one step per handler in any order, GET before POST; a
taken key ends it (`failed`, the exception leaves `main`). `Route` is one request,
with a handler that answers or throws. `given` and `exchange` are history: the
handlers passed to the builder, and the last request with its response.

### HttpSession

The coroutine's positions are the uses of the two things it shares, the timer and
the socket. `expires_after` (cancel the pending waits) and `async_wait` are separate
steps, for the coroutine and for the posted `resetTimer`. `Expire` queues the
callbacks of all pending waits; a queued callback can no longer be cancelled.
`Read` and `Write` start an operation, `ReadCompletes` and `WriteCompletes` are the
network's, `ResumeRead` and `ResumeWrite` a thread's. `CancelTimer` and
`CloseSocket` are the two `Defer`s in the order of their destruction. `Stop` makes
every queued step impossible and `Destroy` is the destruction of the `io_context`.

`WriteCompletes` takes the whole answer or a part of it (`cut`): `async_write_some` may,
and the coroutine goes on as if the client had everything.

Taken as whole: a request is one read (the code says so at `http_server.cpp:166`), `expires_after` and `async_wait` one step each because asio locks
its timer queue. The unsynchronised `steady_timer` and `socket` objects add no other
outcomes here.

### SessionContract

What a session promises its client, with no timer, socket or thread: one request at
a time, a handler at most once for each and before the answer, no handler for a
refused request, and another answer only after a request for keep-alive. A session
may be dropped at any time. `HttpSession` implements it with the mapping
`asked <- sent`, `handled <- routed`, `open <- MayAnswer`: the coroutine is in its loop,
and what it has just answered, if anything, asked for keep-alive.

### HttpServer

The life of the process's server. `CreateService` is the once-only factory;
`SpawnListen`, `PostRuns` and `JoinReturns` are `start`; `Stop` is anyone's `stop()`
or `io_context::stop()`; `BeginDestroy`, `EndDestroy` and `DestroyContext` are the
destruction in `main`'s order. `Workers` is what `main` computes from the number of
processors in a `uint16_t`. The io_context is a FIFO queue of handlers: the listen
coroutine, the report of its failure to `start`'s promise, the resumption of the
accept loop, the resumption of a session. A handler begins in one step and has its
effect in another, so a stop, a connection or other handlers fall between. A session
is only its scheduling here (`ready`, `waiting`, `over`); `HttpSession` has its
inside. A second caller of `start` exists only in `server_restart`: what two
`thread_pool::join` at once do is undefined, and the model stops a caller there; the
violation comes before.

### TelemetryApi

The two handlers of `routes.cpp`, called by several threads. It composes two modules by
`INSTANCE`: the router as `build()` leaves it with the application's two routes
(`ProcessRouting` of `HttpRouter`), and the contract `EventStore` in place of the storage, so
that what is shown of the API rests on what is proved of `TelemetryStorage`.

| action | code |
|---|---|
| `Refuse` | every path that answers before the storage is called: 501, 404, and the catch blocks' 400 or 500 |
| `StoreEvent`, `GetEventInteractions` | the call of `storeEvent` (`routes.cpp:84`), of `getEventInteractions` (`:46`), with the arguments the handler computed |
| `StorageStep` | the call's effect and return, any the contract allows |
| `AnswerPost`, `AnswerGet` | the rest of the handler, with `calculateMeanPathLength` |

A body is abstracted to what the handlers can tell apart: its fields of the expected type, the keys
whose value has another type, or text that is no JSON. Conversions are modelled by what they do.
nlohmann::json keeps an integer of the text as an `int64_t` or a `uint64_t` (`JsonInts`), and
`get<uint64_t>` and `get<int32_t>` then cast it, which wraps: -1 becomes the last timestamp.
An integer outside 64 bits it keeps as a double, and the cast of such a double is undefined; what the build makes
of it is a constant (`WordOfDouble`, `IntOfDouble`) of which only the type is assumed. The sum of an array is an
`int` whose overflow is undefined; it is wrapped or widened, which are the two results
a build produces. The division and multiplication in `double` are left out: a mean is kept as its operands. Where
the contract leaves a call's effect open (a damaged name), one outcome that loses
the most is taken, because every property excepts damaged names.

### HttpParser

One action per callback of llhttp, `ParseRequest` for the call, `Leave` for its end with
`rechargeParserOnExit` in every case, `ValidRequest` for the validators in their conjunction (each
throws the same kind of exception). llhttp is external: `EventsOf` is the order in which it
reports a message, trailers of a body in chunks included, which are headers to the callbacks. `Partial` is what it
reports of a token in which the buffer ends, and an error may follow at any place. After a message that
asks to upgrade the connection (`CONNECT`, or `Connection: Upgrade` with an `Upgrade` header) it pauses, and the code throws at
a pause as at an error (`http_parser.cpp:56`). The pause comes at once with the end of a body that
has a length (`PausesAt`). After chunks it is not told from an error that follows. llhttp 9.1.3 may itself refuse a
`Content-Length` among trailers; the model admits it, so that what is shown does not rest on the refusal. A buffer holds one or two of the `Messages`
and is cut at any token, or inside it. The parser object goes from one
buffer to the next, as the code's reset intends.

### Logger

`log->info` and its kind put a message into spdlog's queue and block while it is full
(`Log`, `Enqueue`); one worker takes a message and prints it; the end of `main` posts the
end to the worker and joins it. spdlog is external; the level, the capacity, the policy and the
order of `main` are the code's.

## What TLC checks

| run | instance | what it shows |
|---|---|---|
| `storage` | 3 threads, 1 name, 1 date, query bounds 1 and 3 around it, 1 value; threads symmetric | types; the inductive invariant of the proofs; a fresh entry is private; every race involves a late creator; settled names stay safe; the contract is implemented |
| `storage_liveness` | 2 threads, 1 name, 1 date, query bounds 1 and 3 around it, 2 values | a stored record is neither replaced nor removed; when calls stop arriving, all pending calls return |
| `storage_race` (violation) | 2 threads, 1 name | the slow path writes a tree another thread is writing |
| `router` | 8 routes, up to 3 registrations, 8 request paths | a built router is complete; no route is missed; direct routes win; a lone route gets its requests and parameters |
| `router_match` (violation) | the application's two routes | a path no route describes reaches a handler |
| `session` | up to 3 requests | a waiting session is timed, an answer is lost only for a cause, the contract is implemented, every session ends and is released |
| `session_timer` (violation) | 1 request | the timer is armed again after the session ended |
| `server` | 5 processors (3 pool threads), 1 caller, 3 clients | a listen failure becomes `start`'s exception; no handler runs beside the end of `start` or the destruction; a stop ends `start`; clients and ready sessions are served |
| `server_restart` (violation) | 2 callers | a second `start` stops the running service |
| `api` | 2 threads, 1 name, 2 dates, timestamps of 4 bits, times of 3 bits, arrays of 2, 14 requests | acknowledged events are kept; a mean is that of posted events in the range, with every event acknowledged before and in the query's unit, and its total is right, modulo the word, if the times and their sums fit; every request is answered if calls settle |
| `parser` | 16 messages, 1 or 2 in a buffer, cut anywhere | a request is its message; an accepted POST has arrived whole, but for a length in a trailer; well-formed messages are accepted whatever came before; of merged messages the last one's line is returned |
| `logger` | 3 threads, 2 places, 2 calls of each thread | messages keep their order and none is lost; all are printed at exit; calls return; the process ends |

Why the bounds are enough. A race of the storage is between two calls, and what
surrounds it needs a third: one thread makes the entry, one is late, one uses the
fast path or keeps an old pointer. Calls repeat without bound, so histories are as long as the small
data allows. TLC has one name in each run of the storage: names meet only at
`mutex_`, no thread ever holds two locks at once, and the proofs cover every set of names. The
bounds of queries are a set of their own (`Bounds`),
for they need not be dates of records: with bounds 1 and 3 and a record at 2 a
query can hold the record or not, and the query from 3 to 1 is inverted
around the record, which takes the branch past the end. Which record of a date is kept needs
two values; these are in `storage_liveness`, where two threads are enough to race and to wait for each other. Three registrations are the least with a
conflict and a bystander, and the eight routes are direct, of one template, nested,
of repeated names, with a brace and with an empty part. Three requests take a session twice around its
loop with each ending. The number of threads of the `io_context` is not bounded in
`HttpSession`: every ready handler may run.

Three pool threads and three clients let a stop, a failed accept, a running session
and a queued one be there at once; the queue needs no bound, for each coroutine is in
it at most once.

`TelemetryApi` has the sizes of the code's integers as constants (`WordSize`, `IntSize`). Four bits for a timestamp and three for a
time let a negative date be converted into another event's date (-1 into 15), a time into
another (9 into 1), a number be outside the words (20; -20), a sum overflow (3 + 3) and a sum be negative (-3 + 1), which are the cases 64
and 32 bits have. The conversion of the numbers outside is AArch64's in the run, which saturates, and any in the proofs. Two threads are a query beside a store and a store beside a store; the contract has
more of them in `storage`. The parser's messages are the forms its code tells apart: header
names in either spelling, repeated, empty or missing headers, a body in one piece, in
chunks or missing, trailers with and without a length, other methods, a connection that closes or is upgraded; two in a buffer are the least that merge. The logger's
queue of two with three producers has one blocked while one is let in, and a thread's second message
behind its first; two calls of each thread fill the queue and more.

Deadlock is checked for the storage, the session, the server, the API and the parser. The
router's runs do not, because the program ends when `build()` throws, nor does the
logger's, whose process ends.

Each passing property is broken by a variant of a definition with a plausible defect
(a lock not released, a lock taken shared, a lookup left out, a wait not cancelled);
these stand beside the definitions as "faulty variants" and `PROJECT.json` lists them.

### Fairness

`TelemetryStorage`: weak fairness of each thread's own steps, which is the operating
system's scheduling. A waiting thread is not promised a lock: `std::shared_mutex` may
starve a writer while readers keep coming. So `CallsReturn` has the premise that
calls eventually stop arriving, and shows that no lock order and no forgotten lock
blocks them.

`HttpSession`: weak fairness of the coroutine, of the queued handlers, of the clock
and of the destruction after `stop()`. Nothing is assumed of the client or the
network: `ReadCompletes` and `WriteCompletes` have no fairness, and `SessionEnds`
holds because the timer ends the wait.

`HttpServer`: weak fairness of each pool thread and of the caller, and strong fairness
of `async_accept` succeeding (its errors, a lack of descriptors, come and go). A
session may wait for ever. Serving order needs no fairness of its own: the queue is
FIFO.

`TelemetryApi`: weak fairness of the two answers. A call of the storage is not promised to
return: it may wait for ever while calls keep coming, or loop in a damaged tree. So the fairness of
`StorageStep` has the premise `CallsSettle`: no name is damaged, no query runs past its end, and threads eventually make
no new calls. This is the premise of `CallsReturn`, under which `storage_liveness` shows
that the storage's calls return, and it is the premise of `EveryRequestIsAnswered`. What that property adds is the handlers'
part: whatever a call returned, nothing included, leads to an answer.

`Logger`: weak fairness of each thread that waits, of the worker and of the console. The
number of calls is bounded: when others log for ever, a thread that waits is not promised
the next free place, and no property says so. If the console does not go on, nothing
above holds: after `Capacity + 1` messages every thread that logs stands still, and
the end of the process with it, which is what the policy `block` asks for.

### Disagreements found

The four violation runs are the findings of `PROJECT.json`: the data race of the
first registration, the router that does not compare paths, the timer that outlives
its session, and the second `start` that stops the service.

Others are part of the modules above and hold of them, without a run of their own. The second
event of a date is acknowledged and dropped (`Emplace`, proved as `WrittenOnce`). A query
whose bounds are inverted around a record runs past the end of the tree (`RunsPastEnd`,
an exception of `EventStore`). A duplicate registration is dropped without a word
(`Register`). With two processors the pool has no thread and `start` returns at
once, with one it has 65535 (`ThreadCount`). A body in chunks keeps its last piece (`OnBody`), and of two
requests in one buffer one is answered (`LastOfManyIsReturned`). A partial write is never continued
(`cut`). Dates and times that do not fit their types are stored as other numbers (`Unsigned`, `Signed`). A POST in chunks
whose trailer has the length of its last chunk is accepted with that chunk for a body, if llhttp lets the trailer
pass (`AcceptedPostIsWhole` excepts it). A complete request that asks for an upgrade is refused as invalid text (`Pause`). Times with a negative sum
give a mean near 2^64, for `misc.h:60` adds an `int` to a `uint64_t` (`TotalTimes`; `MeanIsOfPostedEvents` asks for the
total modulo the word).

## What is proved

### The storage

`TelemetryStorage_proofs` proves, for every set of threads, names, dates,
query bounds and values:

* `InductiveInvariant`, `TypeCorrect`: `Spec => []IInv` and `Spec => []TypeOK`.
* `FreshEntryPrivacy`: the maker of an entry is alone with it.
* `RacesAreLateCreations`: of two accesses that race, at once or not, one is a late creator's.
* `SettledSafety`: a name is settled when it has an entry, no late creator is left and no thread keeps a pointer
  from before a write it has not seen; it stays so, and its tree is in no race again.
* `WrittenOnce`: records are write-once outside a race.
* `Refinement`: `Spec => ES!Spec`, the contract.

Assumptions: dates and query bounds are natural numbers, `NoValue` is not a value, `NoCall` is not a
call (the module's two `ASSUME`s).

The argument. `TypeOK` alone says too little: an entry's lock excludes users only if
the sets of holders are exactly the threads inside the scopes (`LocksMatchScopes`),
if a lock never has a second holder beside an exclusive one (`LocksExclude`), if a
thread's call has the kind of its position (`CallsMatchLabels`), and if a pointer
kept after `mutex_` was left still leads to an entry (`PointersStayValid`). Their
conjunction `LockInv` is inductive; one lemma per action proves it, conjunct by
conjunct. `FreshEntryIsPrivate` is inductive on top of it: a thread gets a pointer
only under the shared `mutex_`, which the maker excludes, and an entry is fresh only
if its name had none.

`OrderInv` is what the locks order. Who takes `mutex_` has seen every write under it
(`MapIsOrdered`); who takes an entry's lock has seen the writes under it, and an exclusive holder the reads too
(`EntriesAreOrdered`); who has a pointer has seen the maker's write, for the pointer came through `mutex_` after it
(`FreshIsOrdered`). `UseOrder` is the one lemma about a use of a tree, and all uses are reduced to it. Left are the pairs with a late
creator, which is `RaceNeedsLateCreator`; `MeetingsAreKnown` says that such a pair are calls that
shared their time with a name's first store, which is the contract's exception. In a settled name nobody
can come to `s_found`, and all who have a pointer have seen what was done there.

`IInv` is the conjunction. The refinement maps
`EmplaceInEntry` and `EmplaceUnderMap` to a put, `GetMiss` and `ReadRange` to an
answer (a name without an entry has no records) and every other step to a stutter or
an invocation.

### The router

`HttpRouter_proofs`, for all sets of routes, request paths and handlers (assumptions: paths
are sequences of parts, `NoHandler` is no handler):

* `InductiveInvariant`, `TypeCorrect`: `Spec => []IInv` and `Spec => []TypeOK`.
* `BuiltComplete`: a router that `build()` returns has every registration.
* `NoRouteMissed`: 404 means that no route of the method describes the path.
* `DirectRoutesWin`: a direct route is never shadowed.
* `LoneRouteServed`: the only route of its method, with a template of its own, gets the
  requests it describes, and each parameter is the part of the path at its place.

The argument. While `build()` runs, the router's keys are exactly the templates of the
registrations already moved, each with its handler, no two with one key, and their parameterized
paths are in the list (`RouterHasAdded`); a taken key ends the building, so the order in
which the maps are walked does not matter. The last answer is the one that `ProcessRouting`
gives on these maps (`AnswerIsRouted`), which the requests do not change. That the lookup's
first candidate exists is `MinFacts`, from the well-foundedness of the natural numbers.
For `LoneRouteServed`, the list of parameterized paths holds nothing but registered
routes (`InfoIsAdded`), so the first candidate is the lone route; `RoutePaths_proofs` shows that the places of a path's
non-empty parts count up without a gap (`PlaceFacts`), so that a path the route describes, which has
a part wherever the route has a parameter, is read at the right positions (`ParsedAsBound`).

### The session

`HttpSession_proofs`, for every bound on the requests (assumption: a natural number):

* `InductiveInvariant`, `TypeCorrect`: `Spec => []IInv` and `Spec => []TypeOK`.
* `WaitingSessionsAreTimed`: a session that waits for its client is timed.
* `LostAnswersHaveCauses`: an answer is lost only for one of the four causes.
* `Refinement`: `Spec` implements `SessionContract`.

The argument. That the timer covers a waiting session needs to know what the timer's
other user may do: a `resetTimer` that was posted and has cancelled must still be
about to wait (`Timed`), and the coroutine never waits while its own reset is half done
(`WaitsAreFew`). The contract needs the counts of requests, handler calls and answers tied to
the position of the coroutine (`InTurn`, `RoutedInTurn`), and a lost answer
is explained where the coroutine leaves its loop (`LeavesForCause`). Their conjunction `IInv` is
inductive; `CoroutineIInv`, `TimerIInv` and `OutsideIInv` prove it for the three parties
that take steps. In the refinement, `Ask` is the client's request, `Handle` the call of `route`,
`Answer` a whole write, and `Drop` is whatever ends the session; all other steps stutter.

### The server

`HttpServer_proofs`, for every number of processors and all sets of callers and clients
(assumption: `NoClient` is no client):

* `TypeCorrect`: `Spec => []TypeOK`.
* `HandlersInside`: no handler runs, or can begin, beside the end of `start` or of
  the server, with any number of callers.
* `ReturnsWhenStopped`: with one caller and at least one thread, `start` returns
  normally only if it was stopped. Both premises are needed: a second caller is
  `server_restart`, and no thread is what two processors give.

The argument. A handler runs only on a thread inside `run()`, and a thread is inside
only with a run that some `start` posted. `InsideInv` says who can have such a run: nobody before
a start (`NobodyWorksBeforeStart`), nobody outside the server's life
(`NobodyWorksOutside`), and after the return of a start all threads have left the pool for
good (`EndedStartsLeftNobody`). For the return, `ReturnInv` adds that threads leave only
when no run is left (`LeftAfterRuns`), that a start which waits has a run, or a thread in one,
until the context is stopped (`RunsUntilStopped`), and who stopped it (`StoppedForCause`). When `join`
returns all threads have left, so the context was stopped; if the listen
coroutine did it, the exception was stored first. `WorkerStepFacts` reduces the nine steps of a
worker to the four ways its place in the pool can change.

### The API

`TelemetryApi_proofs`, for all sets of threads, requests, names, dates, query bounds and values, and
all sizes of the integers:

* `InductiveInvariant`, `TypeCorrect`: `Spec => []IInv` and `Spec => []TypeOK`.
* `EventsAreKept`: the event of a POST that was answered 200 stays.
* `MeanIsRight`: a mean is that of posted events in the query's range, with every event that
  was acknowledged before the query began and scaled to the query's unit, and its total is, modulo the word, the sum of
  what the clients wrote, if the times and each event's sum fit.

Assumptions: a path is a sequence of parts, a JSON number an integer, the conversion of one that is outside 64 bits
some number of the type; what requests name and carry, after
its conversion, is among the constants of the storage. The storage is taken by its contract,
which `TelemetryStorage_proofs` shows it to implement.

The argument. A thread in the storage has the call of its request (`CallsAreRequested`), and every
record, stored or returned, is that of a posted event (`RecordsWerePosted`). A store that
has returned has its date's record before the client is told (`ReturnedEventsAreKept`), and a record
stays unless its name is damaged; so the events acknowledged before a query (`seen`) have records when
the query takes its answer, at whatever moment of the call that is (`ResultsAreAskedFor`). The mean a
thread has answered is that of the result it still holds (`MeansAreOfResults`). `RoutedFacts` follows a
request through the application's two routes: its router answers no GET or POST with 404, whatever the
path, which is `router_match` again. The sum of an array or of the records is a fold over
a set in no order: `SumsExist` and `SameTotal` show that it has a value and that the order does not
matter, so the sum over the records is the sum over the events (`TotalIsTrue`).

### The parser

`HttpParser_proofs`, for every set of messages, any number of them in a buffer and every cut:

* `InductiveInvariant`, `TypeCorrect`: `Spec => []IInv` and `Spec => []TypeOK`.
* `LoneRequest`: the request of a buffer with one message has the message's line and first headers; its body is nothing,
  or the first bytes of the message's body or of one of its chunks, and the whole body or the whole last chunk
  if the message is whole or the request a POST.
* `PostIsWhole`: a POST accepted from such a buffer has arrived whole, unless it is in chunks (with a length in
  its trailers, without which none is accepted).
* `WellFormedAccepted`: a well-formed message (no upgrade, no length in a trailer) that arrives whole and alone is accepted,
  whatever the parser was given before.
* `LastOfMany`: of merged messages the line of the last is returned.

Assumption (`MessagesAssumption`): header names and values are text, pieces of a body are not empty,
a message has at most one length, and a body without chunks is as long as it states, which is how
llhttp finds its end. A body in chunks has a length only in its trailers, and there any.

The argument. While a buffer is parsed, the state is what the first `k` of its events tell (`BufferIsRead`):
the line and the body are what the last event of their kind told (`LineIsRead`), the headers
those that are complete, the first of each name (`HeadersAreRead`), and `machine` is at its start only
if nothing was read, which the reset gives. `MessageFacts` and `MessageKinds` say where the events of a
message are, `CutWithoutError` that a cut without an error changes at most the last event read. At the
return of a lone message a header is there, so its line was whole; the body is a piece of the message's, for so is every event of a
body that a cut leaves (`LoneBody`); a POST has
its length, which a body that is not in chunks is only if its one piece is whole (`LonePost`). Of a well-formed message that is whole no event is an error, no header is empty
and no validator fails (`WellFormedIsValid`). What `Concat` joins is found by `Induction`, the
induction over the natural numbers stated for sets, from the well-foundedness of `<`.

### The logger

`Logger_proofs`, for every set of threads, every capacity and any bound on the calls:

* `InductiveInvariant`, `TypeCorrect`: `Spec => []IInv` and `Spec => []TypeOK`.
* `OrderIsKept`: no message is lost or doubled, and none overtakes one of its own thread.
* `PrintedAtExit`: all that was logged is printed when the process ends.

Assumptions: the queue has at least one place; the marks for nobody and for the pool's end
are no threads.

The argument. The messages are one sequence, from what is printed over what the worker holds to the
queue (`Pipeline`): taking and printing leave it as it is, and only a thread's newest message comes
to its end (`NumbersAreAccepted`). The worker's end is behind all messages, because nobody is
blocked when `main` returns (`TerminateIsLast`); when the worker has it, the queue is empty.

### Model-checked only

The liveness properties, which are out of the prover's reach. Every invariant and every safety
property of a step that the passing runs check is proved.

## Plan

Done: the storage and its contract, the router, the session and its contract, the server, the API over the
storage's contract and the router, the parser, the logger; proofs of all their safety properties.

1. The composition of `HttpServer` and `HttpSession`: several sessions inside, the
   `http_server.h:46` "Gracefully stops" of routed requests without an answer.
2. The composition of `HttpParser` and `HttpSession`: requests that are cut or merged, on the wire of
   a connection that is kept alive.
3. Proofs of what these compositions promise, from the invariants proved of their parts.

## Not modelled

The response serializer and the CLI parser, for the reasons in the table above; the byte formats of
requests and responses; llhttp, nlohmann::json, spdlog and cxxopts themselves, other than in
what the code uses of them; the rounding of `double`; the build scripts and the tests.
