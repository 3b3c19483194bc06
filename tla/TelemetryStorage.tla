-------------------------- MODULE TelemetryStorage --------------------------
(***************************************************************************)
(* TelemetryStorage: storeEvent and getEventInteractions, called by the    *)
(* server's threads at once.  One action is one step between two points    *)
(* where another thread can be noticed: taking a lock, or using the data a *)
(* lock guards and leaving the lock's scope.                               *)
(*                                                                         *)
(* Steps of storeEvent:  s_lookup -> s_find -> s_entry -> s_emplace        *)
(*                                        \-> s_map -> s_create            *)
(*                                                -> s_fresh or s_found    *)
(* Steps of getEventInteractions:  g_lookup -> g_find -> g_entry -> g_read *)
(*                                                                         *)
(* The slow path of storeEvent emplaces with mutex_ held but not           *)
(* entryMutex, so nothing may order it with another thread's use of the    *)
(* tree, at the same time or a while before or after: a data race.  What   *)
(* the locks do order is kept as what each thread has not seen.  A race    *)
(* leaves the tree damaged in any way Damaged allows, lets a reader return *)
(* anything, or ends the process.                                          *)
(***************************************************************************)
EXTENDS CallHistory, SharedMutex

VARIABLES
    eventEntries,   \* the names that have an entry in eventEntries_
    data,           \* data[n]: the tree of n's entry, empty if n has none
    mutex,          \* mutex_
    entryMutex,     \* entryMutex[n]: the lock of n's entry
    pc,             \* where each thread is
    unseen,         \* unseen[t]: the accesses not ordered before what t does next
    mapOrder,       \* what mutex_ orders
    entryOrder,     \* entryOrder[n]: what the lock of n's entry orders
    result,         \* what each idle thread's last call, if a query, returned
    broken,         \* the names whose tree was used in a data race
    up              \* the process lives

calls == <<call, early, met>>
order == <<unseen, mapOrder, entryOrder>>
locks == <<mutex, entryMutex>>
state == <<eventEntries, data, result, broken, up>>
vars == <<calls, order, locks, state, pc>>

StoreLabels == {"s_lookup", "s_find", "s_entry", "s_emplace",
                "s_map", "s_create", "s_fresh", "s_found"}
GetLabels   == {"g_lookup", "g_find", "g_entry", "g_read"}

\* The steps that change a tree, and those of them under mutex_ alone.
SlowWriters == {"s_fresh", "s_found"}
Writers     == {"s_emplace"} \union SlowWriters
Accessors   == Writers \union {"g_read"}

\* A use of the tree of a name: who used it, at which step.
Accesses == [name : Names, by : Accessors, thread : Threads]

TypeOK ==
    /\ eventEntries \subseteq Names
    /\ data \in [Names -> EventMaps]
    /\ mutex \in SharedMutexes(Threads)
    /\ entryMutex \in [Names -> SharedMutexes(Threads)]
    /\ pc \in [Threads -> {"idle"} \union StoreLabels \union GetLabels]
    /\ call \in [Threads -> StoreCalls \union GetCalls \union {NoCall}]
    /\ early \subseteq Threads
    /\ met \subseteq Threads
    /\ unseen \in [Threads -> SUBSET Accesses]
    /\ mapOrder \in LockOrders(Accesses)
    /\ entryOrder \in [Names -> LockOrders(Accesses)]
    /\ result \in [Threads -> SUBSET Records]
    /\ broken \subseteq Names
    /\ up \in BOOLEAN

Init ==
    /\ eventEntries = {}
    /\ data = [n \in Names |-> EmptyMap]
    /\ mutex = Unlocked
    /\ entryMutex = [n \in Names |-> Unlocked]
    /\ pc = [t \in Threads |-> "idle"]
    /\ call = [t \in Threads |-> NoCall]
    /\ early = {}
    /\ met = {}
    /\ unseen = [t \in Threads |-> {}]
    /\ mapOrder = NothingUnseen
    /\ entryOrder = [n \in Names |-> NothingUnseen]
    /\ result = [t \in Threads |-> {}]
    /\ broken = {}
    /\ up = TRUE

-----------------------------------------------------------------------------
Goto(t, label) == pc' = [pc EXCEPT ![t] = label]

Begin(t, c, label) ==
    /\ pc[t] = "idle"
    /\ BeginCall(t, c, data[c.name])
    /\ result' = [result EXCEPT ![t] = {}]
    /\ Goto(t, label)
    /\ UNCHANGED <<eventEntries, data, locks, order, broken, up>>

Return(t) == EndCall(t) /\ Goto(t, "idle")

\* The scope of the shared lock of mutex_ around a lookup.
EnterLookup(t, label) ==
    /\ CanLockShared(mutex)
    /\ mutex' = LockShared(mutex, t)
    /\ unseen' = [unseen EXCEPT ![t] = @ \intersect mapOrder.reader]
    /\ Goto(t, label)
    /\ UNCHANGED <<state, calls, entryMutex, mapOrder, entryOrder>>

LeaveLookup(t) ==
    /\ mutex' = UnlockShared(mutex, t)
    /\ mapOrder' = ReleasedShared(mapOrder, unseen[t])
    /\ UNCHANGED <<eventEntries, data, entryMutex, unseen, entryOrder, broken, up>>

-----------------------------------------------------------------------------
(* Uses of a tree *)

Access(t) == [name |-> call[t].name, by |-> pc[t], thread |-> t]

Conflict(a, b) ==
    /\ a.name = b.name
    /\ a.thread # b.thread
    /\ a.by \in Writers \/ b.by \in Writers

\* The uses in the middle of which other threads are.
Current == {Access(t) : t \in {u \in Threads : pc[u] \in Accessors}}

\* What t's use of its tree conflicts with and is not ordered with: a data race.
Races(t) == {a \in unseen[t] \union Current : Conflict(a, Access(t))}

\* The tree t uses is, or from this step on is, undefined.
Undefined(t) == call[t].name \in broken \/ Races(t) # {}

\* Of the accesses x somebody has not seen, those that still matter when t has used
\* its tree, and t's use: a write that raced with nothing comes after all other
\* uses, and who has seen it has seen them.  Of an undefined tree nothing is kept.
Unseen(x, t) ==
    {a \in x : a.name = call[t].name => ~Undefined(t) /\ pc[t] \notin Writers}
    \union IF Undefined(t) THEN {} ELSE {Access(t)}

\* What t has not seen when it has used its tree; t's own uses it has.
UnseenBySelf(t) == {a \in unseen[t] : a.name = call[t].name => ~Undefined(t)}

UnseenIn(o, t) == [reader |-> Unseen(o.reader, t), writer |-> Unseen(o.writer, t)]

\* The threads' part; the locks' parts depend on which of them t leaves.
NoteAccess(t) ==
    unseen' = [u \in Threads |-> IF u = t THEN UnseenBySelf(t) ELSE Unseen(unseen[u], t)]

\* data.emplace(date, values) in the entry of t's name.
EmplaceRecord(t) ==
    LET n == call[t].name
        m == Emplace(data[n], call[t].date, call[t].values)
    IN  /\ \/ /\ ~Undefined(t)
              /\ data' = [data EXCEPT ![n] = m]
              /\ UNCHANGED <<broken, up>>
           \/ /\ Undefined(t)
              /\ \E r \in Damaged(m) : data' = [data EXCEPT ![n] = r]
              /\ broken' = broken \union {n}
              /\ up' \in BOOLEAN
        /\ NoteAccess(t)

-----------------------------------------------------------------------------
(* storeEvent *)

CallStore(t) == \E c \in StoreCalls : Begin(t, c, "s_lookup")

\* std::shared_lock lock(mutex_)
StoreLookup(t) == pc[t] = "s_lookup" /\ EnterLookup(t, "s_find")

\* Faulty variant: every store takes the slow path.
StoreFindSlow(t) ==
    /\ pc[t] = "s_find"
    /\ LeaveLookup(t)
    /\ Goto(t, "s_map")
    /\ UNCHANGED <<calls, result>>

\* find, keep a pointer to the entry, leave the scope of the lock
StoreFind(t) ==
    /\ pc[t] = "s_find"
    /\ LeaveLookup(t)
    /\ Goto(t, IF call[t].name \in eventEntries THEN "s_entry" ELSE "s_map")
    /\ UNCHANGED <<calls, result>>

\* Faulty variant: the writer of an entry takes its lock shared.
LockEntryAsReader(t) ==
    LET n == call[t].name
    IN  /\ pc[t] = "s_entry"
        /\ CanLockShared(entryMutex[n])
        /\ entryMutex' = [entryMutex EXCEPT ![n] = LockShared(@, t)]
        /\ unseen' = [unseen EXCEPT ![t] = @ \intersect entryOrder[n].reader]
        /\ Goto(t, "s_emplace")
        /\ UNCHANGED <<state, calls, mutex, mapOrder, entryOrder>>

\* std::unique_lock lock(tmp->entryMutex)
LockEntry(t) ==
    LET n == call[t].name
    IN  /\ pc[t] = "s_entry"
        /\ CanLock(entryMutex[n])
        /\ entryMutex' = [entryMutex EXCEPT ![n] = Lock(@, t)]
        /\ unseen' = [unseen EXCEPT ![t] = @ \intersect entryOrder[n].writer]
        /\ Goto(t, "s_emplace")
        /\ UNCHANGED <<state, calls, mutex, mapOrder, entryOrder>>

\* Faulty variant: the early return does not release entryMutex.
EmplaceKeepsLock(t) ==
    /\ pc[t] = "s_emplace"
    /\ EmplaceRecord(t)
    /\ Return(t)
    /\ UNCHANGED <<eventEntries, locks, mapOrder, entryOrder, result>>

\* tmp->data.emplace, return
EmplaceInEntry(t) ==
    /\ pc[t] = "s_emplace"
    /\ EmplaceRecord(t)
    /\ entryMutex' = [entryMutex EXCEPT ![call[t].name] = Unlock(@, t)]
    /\ entryOrder' = [n \in Names |->
            IF n = call[t].name THEN Released(UnseenIn(entryOrder[n], t), UnseenBySelf(t))
            ELSE UnseenIn(entryOrder[n], t)]
    /\ mapOrder' = UnseenIn(mapOrder, t)
    /\ Return(t)
    /\ UNCHANGED <<eventEntries, mutex, result>>

\* std::unique_lock lock(mutex_)
LockMap(t) ==
    /\ pc[t] = "s_map"
    /\ CanLock(mutex)
    /\ mutex' = Lock(mutex, t)
    /\ unseen' = [unseen EXCEPT ![t] = @ \intersect mapOrder.writer]
    /\ Goto(t, "s_create")
    /\ UNCHANGED <<state, calls, entryMutex, mapOrder, entryOrder>>

\* eventEntries_.try_emplace: finds the entry if another thread made it since
CreateEntry(t) ==
    /\ pc[t] = "s_create"
    /\ eventEntries' = eventEntries \union {call[t].name}
    /\ Goto(t, IF call[t].name \in eventEntries THEN "s_found" ELSE "s_fresh")
    /\ UNCHANGED <<data, locks, order, calls, result, broken, up>>

\* it->second.data.emplace with mutex_ alone, end of the call
EmplaceUnderMap(t) ==
    /\ pc[t] \in SlowWriters
    /\ EmplaceRecord(t)
    /\ mutex' = Unlock(mutex, t)
    /\ mapOrder' = Released(UnseenIn(mapOrder, t), UnseenBySelf(t))
    /\ entryOrder' = [n \in Names |-> UnseenIn(entryOrder[n], t)]
    /\ Return(t)
    /\ UNCHANGED <<eventEntries, entryMutex, result>>

-----------------------------------------------------------------------------
(* getEventInteractions *)

CallGet(t) == \E c \in GetCalls : Begin(t, c, "g_lookup")

\* std::shared_lock lock(mutex_)
GetLookup(t) == pc[t] = "g_lookup" /\ EnterLookup(t, "g_find")

\* Faulty variant: the early return does not release mutex_.
GetMissKeepsLock(t) ==
    /\ pc[t] = "g_find"
    /\ call[t].name \notin eventEntries
    /\ result' = [result EXCEPT ![t] = {}]
    /\ Return(t)
    /\ UNCHANGED <<eventEntries, data, locks, order, broken, up>>

\* find; without an entry the answer is empty
GetMiss(t) ==
    /\ pc[t] = "g_find"
    /\ call[t].name \notin eventEntries
    /\ LeaveLookup(t)
    /\ result' = [result EXCEPT ![t] = {}]
    /\ Return(t)

GetFind(t) ==
    /\ pc[t] = "g_find"
    /\ call[t].name \in eventEntries
    /\ LeaveLookup(t)
    /\ Goto(t, "g_entry")
    /\ UNCHANGED <<calls, result>>

\* Faulty variant: a query reads without the lock of the entry.
ReadUnlocked(t) ==
    /\ pc[t] = "g_entry"
    /\ Goto(t, "g_read")
    /\ UNCHANGED <<state, calls, locks, order>>

\* std::shared_lock lock(tmp->entryMutex)
LockEntryShared(t) ==
    LET n == call[t].name
    IN  /\ pc[t] = "g_entry"
        /\ CanLockShared(entryMutex[n])
        /\ entryMutex' = [entryMutex EXCEPT ![n] = LockShared(@, t)]
        /\ unseen' = [unseen EXCEPT ![t] = @ \intersect entryOrder[n].reader]
        /\ Goto(t, "g_read")
        /\ UNCHANGED <<state, calls, mutex, mapOrder, entryOrder>>

\* the query of t makes the loop run past the end of its tree
PastEnd(t) == RunsPastEnd(data[call[t].name], call[t].from, call[t].to)

\* the loop from lower_bound to upper_bound, return
ReadRange(t) ==
    /\ pc[t] = "g_read"
    /\ \/ /\ ~Undefined(t) /\ ~PastEnd(t)
          /\ result' = [result EXCEPT ![t] =
                            InRange(data[call[t].name], call[t].from, call[t].to)]
          /\ UNCHANGED <<broken, up>>
       \/ /\ Undefined(t) \/ PastEnd(t)
          /\ \E r \in SUBSET Records : result' = [result EXCEPT ![t] = r]
          /\ broken' = IF Undefined(t) THEN broken \union {call[t].name} ELSE broken
          /\ up' \in BOOLEAN
    /\ NoteAccess(t)
    /\ entryMutex' = [entryMutex EXCEPT ![call[t].name] = UnlockShared(@, t)]
    /\ entryOrder' = [n \in Names |->
            IF n = call[t].name THEN ReleasedShared(UnseenIn(entryOrder[n], t), UnseenBySelf(t))
            ELSE UnseenIn(entryOrder[n], t)]
    /\ mapOrder' = UnseenIn(mapOrder, t)
    /\ Return(t)
    /\ UNCHANGED <<eventEntries, data, mutex>>

-----------------------------------------------------------------------------
\* What a thread does by itself once it is in a call.
Step(t) ==
    /\ up
    /\ \/ StoreLookup(t) \/ StoreFind(t) \/ LockEntry(t) \/ EmplaceInEntry(t)
       \/ LockMap(t) \/ CreateEntry(t) \/ EmplaceUnderMap(t)
       \/ GetLookup(t) \/ GetMiss(t) \/ GetFind(t) \/ LockEntryShared(t)
       \/ ReadRange(t)

NewCall(t) == up /\ (CallStore(t) \/ CallGet(t))

\* Undefined behaviour has ended the process.
Ended == ~up /\ UNCHANGED vars

Next == (\E t \in Threads : NewCall(t) \/ Step(t)) \/ Ended

\* A thread that can go on is scheduled; nothing is assumed of who calls.
Fairness == \A t \in Threads : WF_vars(Step(t))

Spec == Init /\ [][Next]_vars /\ Fairness

-----------------------------------------------------------------------------
(* Properties *)

\* The locks are held by exactly the threads that are in their scopes: a call
\* leaves no lock behind on any of its paths, the early returns included.
LocksMatchScopes ==
    /\ mutex.excl = {t \in Threads : pc[t] \in {"s_create"} \union SlowWriters}
    /\ mutex.shared = {t \in Threads : pc[t] \in {"s_find", "g_find"}}
    /\ \A n \in Names :
        /\ entryMutex[n].excl =
                {t \in Threads : pc[t] = "s_emplace" /\ call[t].name = n}
        /\ entryMutex[n].shared =
                {t \in Threads : pc[t] = "g_read" /\ call[t].name = n}

\* A lock is held by one thread exclusively or by several shared, never both.
LocksExclude == Exclusive(mutex) /\ \A n \in Names : Exclusive(entryMutex[n])

\* The call a thread executes is of the kind its position says.
CallsMatchLabels ==
    \A t \in Threads :
        /\ pc[t] = "idle" <=> call[t] = NoCall
        /\ pc[t] \in StoreLabels => call[t] \in StoreCalls
        /\ pc[t] \in GetLabels => call[t] \in GetCalls

\* A pointer kept after mutex_ was left still points to an entry, and a name
\* without an entry has no records.
PointersStayValid ==
    /\ \A t \in Threads :
        pc[t] \in {"s_entry", "g_entry"} \union Accessors =>
            call[t].name \in eventEntries
    /\ \A n \in Names \ eventEntries : data[n] = EmptyMap /\ n \notin broken

\* What the locks are for: threads at uses of one tree that do not exclude each
\* other, and nothing else, are left for the order of accesses to tell apart.
LockInv ==
    /\ TypeOK
    /\ LocksMatchScopes
    /\ LocksExclude
    /\ CallsMatchLabels
    /\ PointersStayValid

\* The thread that made an entry is alone with it until it leaves mutex_:
\* nobody else points to it, so its first emplace needs no entryMutex.
FreshEntryIsPrivate ==
    \A t, u \in Threads :
        /\ pc[t] = "s_fresh"
        /\ pc[u] \in {"s_entry", "g_entry"} \union Accessors
        /\ call[u].name = call[t].name
        => u = t

\* No access in x is one of the name n by a thread at one of the steps.
HasSeen(x, n, steps) == \A a \in x : ~(a.name = n /\ a.by \in steps)

\* Only trees of entries were used.
AccessesAreOfEntries(x) == \A a \in x : a.name \in eventEntries

\* Who takes mutex_ has seen what was done under it.
MapIsOrdered ==
    \A n \in Names :
        /\ HasSeen(mapOrder.reader \union mapOrder.writer, n, SlowWriters)
        /\ \A t \in Threads :
            pc[t] \in {"s_find", "g_find", "s_create"} \union SlowWriters =>
                HasSeen(unseen[t], n, SlowWriters)

\* Who takes the lock of an entry has seen the writes under it, and who takes it
\* exclusively the reads too.
EntriesAreOrdered ==
    /\ \A n \in Names :
        /\ HasSeen(entryOrder[n].reader \union entryOrder[n].writer, n, {"s_emplace"})
        /\ HasSeen(entryOrder[n].writer, n, {"g_read"})
    /\ \A t \in Threads :
        /\ pc[t] \in {"s_emplace", "g_read"} => HasSeen(unseen[t], call[t].name, {"s_emplace"})
        /\ pc[t] = "s_emplace" => HasSeen(unseen[t], call[t].name, {"g_read"})

\* Who points to an entry has seen its maker's record, and its maker has nothing to see.
FreshIsOrdered ==
    \A t \in Threads :
        /\ pc[t] \in {"s_entry", "g_entry", "s_emplace", "g_read"} =>
                HasSeen(unseen[t], call[t].name, {"s_fresh"})
        /\ pc[t] = "s_fresh" => HasSeen(unseen[t], call[t].name, Accessors)

\* What a thread did itself it has seen.
OwnIsSeen == \A t \in Threads : \A a \in unseen[t] : a.thread # t

OrderInv ==
    /\ AccessesAreOfEntries(mapOrder.reader \union mapOrder.writer)
    /\ \A n \in Names : AccessesAreOfEntries(entryOrder[n].reader \union entryOrder[n].writer)
    /\ \A t \in Threads : AccessesAreOfEntries(unseen[t])
    /\ OwnIsSeen /\ MapIsOrdered /\ EntriesAreOrdered /\ FreshIsOrdered

\* A store that misses its name began before the name had a record; the calls that
\* share its time, and only these, are those that may not have seen what it does or
\* whose uses it may not have seen.
MeetingsAreKnown ==
    \A t \in Threads :
        /\ \/ pc[t] \in {"s_lookup", "s_find"} /\ call[t].name \notin eventEntries
           \/ pc[t] \in {"s_map", "s_create"} \union SlowWriters
           => t \in early
        /\ t \in early => call[t] # NoCall
        /\ \A u \in Threads \ {t} :
            t \in early /\ call[u] # NoCall /\ call[u].name = call[t].name =>
                {t, u} \subseteq met
        /\ pc[t] \in {"s_entry", "g_entry", "s_emplace", "g_read"} /\ t \notin met =>
                HasSeen(unseen[t], call[t].name, {"s_found"})
        /\ pc[t] \in {"s_map", "s_create", "s_found"} /\ t \notin met =>
                HasSeen(unseen[t], call[t].name, Accessors)

\* The invariant the proofs are built on.
IInv == LockInv /\ FreshEntryIsPrivate /\ OrderInv /\ MeetingsAreKnown

\* A use of a tree is in a race only if one of the two is the write of a thread
\* that missed the name in its lookup and then found that another had made the
\* entry (telemetry_storage.cpp:40); all others are ordered by the locks.
RaceNeedsLateCreator ==
    \A t \in Threads : pc[t] \in Accessors =>
        \A a \in Races(t) : "s_found" \in {pc[t], a.by}

\* The name has an entry, no thread that missed it is still on the slow path, and
\* no thread keeps a pointer from before such a thread's write without having seen it.
Settled(n) ==
    /\ n \in eventEntries
    /\ \A t \in Threads : call[t] # NoCall /\ call[t].name = n =>
        /\ pc[t] \notin {"s_map", "s_create"} \union SlowWriters
        /\ pc[t] \in {"s_entry", "g_entry", "s_emplace", "g_read"} =>
                HasSeen(unseen[t], n, SlowWriters)

\* Once a name is settled it stays so, and its tree is in no race again: the
\* data race of the slow path is confined to the calls that share their time with
\* a name's first registration.
KeepsSettled ==
    \A n \in Names : Settled(n) => Settled(n)' /\ (n \in broken' => n \in broken)

SettledNamesStaySafe == [][KeepsSettled]_vars

\* A record never changes or vanishes, unless its tree was used in a race.
KeepsRecords ==
    \A n \in Names : n \notin broken' =>
        \A d \in Dates : data[n][d] # NoValue => data'[n][d] = data[n][d]

RecordsAreWrittenOnce == [][KeepsRecords]_vars

\* The detailed calls implement atomic ones.
ES == INSTANCE EventStore WITH stored <- data
ImplementsEventStore == ES!Spec

\* No step has had, or now has, an undefined outcome.
WellDefined ==
    /\ up
    /\ broken = {}
    /\ \A t \in Threads : pc[t] = "g_read" => ~PastEnd(t)

\* No lock order or forgotten lock can make calls wait on each other for ever:
\* when no more calls arrive, every pending call returns.  (With calls arriving
\* for ever std::shared_mutex may starve the writer at s_map.)
CallsReturn ==
    /\ []WellDefined
    /\ <>[][\A t \in Threads : ~NewCall(t)]_vars
    => \A t \in Threads : []<>(pc[t] = "idle")

-----------------------------------------------------------------------------
(* What the comments of the code say, and the code does not keep *)

\* telemetry_storage.cpp:28 and :63: while a thread writes the tree of an entry
\* nobody else uses that tree.
TreeAccessIsExclusive == \A a, b \in Current : ~Conflict(a, b)

=============================================================================
