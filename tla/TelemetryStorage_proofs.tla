---------------------- MODULE TelemetryStorage_proofs ----------------------
(* Theorems about TelemetryStorage, for every set of threads, names,      *)
(* dates, query bounds and values, and their proofs.                       *)
EXTENDS TelemetryStorage, TLAPS

-----------------------------------------------------------------------------
(* Lemmas about the operators the storage is built from *)

\* Taking and leaving a lock changes one set of holders by one thread.
LEMMA LockFacts ==
    ASSUME NEW T, NEW m \in SharedMutexes(T), NEW t \in T
    PROVE  /\ Lock(m, t) \in SharedMutexes(T)
           /\ Lock(m, t).excl = m.excl \union {t}
           /\ Lock(m, t).shared = m.shared
           /\ Unlock(m, t) \in SharedMutexes(T)
           /\ Unlock(m, t).excl = m.excl \ {t}
           /\ Unlock(m, t).shared = m.shared
           /\ LockShared(m, t) \in SharedMutexes(T)
           /\ LockShared(m, t).excl = m.excl
           /\ LockShared(m, t).shared = m.shared \union {t}
           /\ UnlockShared(m, t) \in SharedMutexes(T)
           /\ UnlockShared(m, t).excl = m.excl
           /\ UnlockShared(m, t).shared = m.shared \ {t}
BY DEF SharedMutexes, Lock, Unlock, LockShared, UnlockShared

\* Emplacing a record keeps a map a map, and keeps the records it has.
LEMMA EmplaceFacts ==
    ASSUME NEW m \in EventMaps, NEW d \in Dates, NEW v \in Values
    PROVE  /\ Emplace(m, d, v) \in EventMaps
           /\ Emplace(m, d, v)[d] # NoValue
           /\ \A x \in Dates : m[x] # NoValue => Emplace(m, d, v)[x] = m[x]
BY RecordsAssumption DEF EventMaps, Emplace

\* A query's answer consists of records of its range.
LEMMA InRangeFacts ==
    ASSUME NEW m \in EventMaps, NEW from \in Bounds, NEW to \in Bounds
    PROVE  /\ InRange(m, from, to) \subseteq Records
           /\ \A r \in InRange(m, from, to) : from <= r[1] /\ r[1] <= to
<1>1. InRange(m, from, to) \subseteq Records
  BY DEF EventMaps, InRange, Records
<1>2. \A r \in InRange(m, from, to) : from <= r[1] /\ r[1] <= to
  BY DEF InRange
<1> QED BY <1>1, <1>2

\* What a lock orders stays of its type when a holder leaves it.
LEMMA ReleasedFacts ==
    ASSUME NEW S, NEW o \in LockOrders(S), NEW x
    PROVE  /\ Released(o, x) \in LockOrders(S)
           /\ Released(o, x).reader = o.reader \intersect x
           /\ Released(o, x).writer = o.writer \intersect x
           /\ ReleasedShared(o, x) \in LockOrders(S)
           /\ ReleasedShared(o, x).reader = o.reader
           /\ ReleasedShared(o, x).writer = o.writer \intersect x
BY DEF LockOrders, Released, ReleasedShared

\* A use of a tree is an access; what is noted of it are accesses.
LEMMA NoteFacts ==
    ASSUME TypeOK, NEW t \in Threads, pc[t] \in Accessors, call[t].name \in Names
    PROVE  /\ Access(t) \in Accesses
           /\ \A x \in SUBSET Accesses : Unseen(x, t) \in SUBSET Accesses
           /\ UnseenBySelf(t) \in SUBSET Accesses
           /\ \A o \in LockOrders(Accesses) : UnseenIn(o, t) \in LockOrders(Accesses)
           /\ NoteAccess(t) => unseen' \in [Threads -> SUBSET Accesses]
<1>1. Access(t) \in Accesses
  BY DEF Access, Accesses
<1>2. \A x \in SUBSET Accesses : Unseen(x, t) \in SUBSET Accesses
  BY <1>1 DEF Unseen
<1>3. UnseenBySelf(t) \in SUBSET Accesses
  BY DEF UnseenBySelf, TypeOK
<1>4. \A o \in LockOrders(Accesses) : UnseenIn(o, t) \in LockOrders(Accesses)
  BY <1>2 DEF UnseenIn, LockOrders
<1>5. NoteAccess(t) => unseen' \in [Threads -> SUBSET Accesses]
  BY <1>2, <1>3 DEF NoteAccess, TypeOK
<1> QED BY <1>1, <1>2, <1>3, <1>4, <1>5

\* The three steps that use a tree keep the orders of their types.
LEMMA UseFacts ==
    ASSUME TypeOK, NEW t \in Threads, call[t].name \in Names,
           EmplaceInEntry(t) \/ EmplaceUnderMap(t) \/ ReadRange(t)
    PROVE  /\ unseen' \in [Threads -> SUBSET Accesses]
           /\ mapOrder' \in LockOrders(Accesses)
           /\ entryOrder' \in [Names -> LockOrders(Accesses)]
<1>1. pc[t] \in Accessors /\ NoteAccess(t)
  BY DEF EmplaceInEntry, EmplaceUnderMap, ReadRange, EmplaceRecord, Accessors, Writers
<1>2. /\ UnseenIn(mapOrder, t) \in LockOrders(Accesses)
      /\ \A n \in Names : UnseenIn(entryOrder[n], t) \in LockOrders(Accesses)
  BY <1>1, NoteFacts DEF TypeOK
<1>3. unseen' \in [Threads -> SUBSET Accesses]
  BY <1>1, NoteFacts
<1>4. CASE EmplaceInEntry(t)
  BY <1>2, <1>3, <1>4, ReleasedFacts DEF EmplaceInEntry
<1>5. CASE EmplaceUnderMap(t)
  BY <1>2, <1>3, <1>5, ReleasedFacts DEF EmplaceUnderMap
<1>6. CASE ReadRange(t)
  BY <1>2, <1>3, <1>6, ReleasedFacts DEF ReadRange
<1> QED BY <1>4, <1>5, <1>6

-----------------------------------------------------------------------------
(* The inductive invariant: locks and calls *)

\* The invariant holds of the empty storage no thread has called.
LEMMA InitLockInv == Init => LockInv
<1> SUFFICES ASSUME Init PROVE LockInv
  OBVIOUS
<1> USE DEF Init
<1>1. TypeOK
  BY DEF TypeOK, EventMaps, EmptyMap, SharedMutexes, Unlocked, LockOrders, NothingUnseen
<1>2. LocksMatchScopes
  BY DEF LocksMatchScopes, Unlocked, SlowWriters
<1>3. LocksExclude
  BY DEF LocksExclude, Exclusive, Unlocked
<1>4. CallsMatchLabels
  BY DEF CallsMatchLabels, StoreLabels, GetLabels
<1>5. PointersStayValid
  BY DEF PointersStayValid, Accessors, Writers, SlowWriters
<1> QED BY <1>1, <1>2, <1>3, <1>4, <1>5 DEF LockInv

\* Taking a lock when it can be taken, and leaving it, keep it exclusive.
LEMMA ExclusiveFacts ==
    ASSUME NEW m \in SharedMutexes(Threads), NEW t \in Threads
    PROVE  /\ CanLock(m) => Exclusive(Lock(m, t))
           /\ CanLockShared(m) => Exclusive(LockShared(m, t))
           /\ Exclusive(m) => Exclusive(Unlock(m, t)) /\ Exclusive(UnlockShared(m, t))
<1>1. CanLock(m) => Exclusive(Lock(m, t))
  BY DEF SharedMutexes, CanLock, Lock, Exclusive
<1>2. CanLockShared(m) => Exclusive(LockShared(m, t))
  BY DEF SharedMutexes, CanLockShared, LockShared, Exclusive
<1>3. Exclusive(m) => Exclusive(Unlock(m, t)) /\ Exclusive(UnlockShared(m, t))
  BY DEF SharedMutexes, Unlock, UnlockShared, Exclusive
<1> QED BY <1>1, <1>2, <1>3

\* What emplacing a record, on a sound tree or a damaged one, leaves true.
LEMMA EmplaceRecordFacts ==
    ASSUME TypeOK, NEW t \in Threads, call[t] \in StoreCalls, EmplaceRecord(t)
    PROVE  /\ data' \in [Names -> EventMaps]
           /\ broken' \subseteq Names
           /\ up' \in BOOLEAN
           /\ broken \subseteq broken'
           /\ \A n \in Names : n # call[t].name => data'[n] = data[n]
           /\ broken' \subseteq broken \union {call[t].name}
<1> DEFINE n == call[t].name
           m == Emplace(data[n], call[t].date, call[t].values)
<1>1. /\ n \in Names
      /\ m \in EventMaps
  BY EmplaceFacts DEF TypeOK, StoreCalls
<1>2. CASE ~Undefined(t)
  BY <1>1, <1>2 DEF TypeOK, EmplaceRecord
<1>3. CASE Undefined(t)
  BY <1>1, <1>3 DEF TypeOK, EmplaceRecord, Damaged
<1> QED BY <1>2, <1>3

\* A store is called.
LEMMA CallStoreLockInv ==
    ASSUME NEW t \in Threads, LockInv, CallStore(t)
    PROVE  LockInv'
<1> USE DEF LockInv, CallStore, Begin, BeginCall, Goto, locks, order
<1>1. TypeOK'
  BY DEF TypeOK, StoreLabels
<1>2. LocksMatchScopes'
  BY DEF SlowWriters, LocksMatchScopes
<1>3. LocksExclude'
  BY DEF LocksExclude
<1>4. CallsMatchLabels'
  BY CallsAssumption DEF TypeOK, CallsMatchLabels, GetLabels
<1>5. PointersStayValid'
  BY DEF PointersStayValid, SlowWriters, Writers, Accessors
<1> QED BY <1>1, <1>2, <1>3, <1>4, <1>5

\* A query is called.
LEMMA CallGetLockInv ==
    ASSUME NEW t \in Threads, LockInv, CallGet(t)
    PROVE  LockInv'
<1> USE DEF LockInv, CallGet, Begin, BeginCall, Goto, locks, order
<1>1. TypeOK'
  BY DEF TypeOK, GetLabels
<1>2. LocksMatchScopes'
  BY DEF SlowWriters, LocksMatchScopes
<1>3. LocksExclude'
  BY DEF LocksExclude
<1>4. CallsMatchLabels'
  BY CallsAssumption DEF TypeOK, CallsMatchLabels, StoreLabels
<1>5. PointersStayValid'
  BY DEF PointersStayValid, SlowWriters, Writers, Accessors
<1> QED BY <1>1, <1>2, <1>3, <1>4, <1>5

\* A store enters the shared scope of mutex_.
LEMMA StoreLookupLockInv ==
    ASSUME NEW t \in Threads, LockInv, StoreLookup(t)
    PROVE  LockInv'
<1> USE DEF LockInv, StoreLookup, EnterLookup, Goto, state, calls
<1>1. TypeOK'
  BY DEF TypeOK, StoreLabels, SharedMutexes, LockShared
<1>2. LocksMatchScopes'
  BY DEF TypeOK, SlowWriters, LocksMatchScopes, LockShared
<1>3. LocksExclude'
  BY ExclusiveFacts DEF TypeOK, LocksExclude
<1>4. CallsMatchLabels'
  BY CallsAssumption DEF CallsMatchLabels, StoreLabels, GetLabels
<1>5. PointersStayValid'
  BY DEF PointersStayValid, SlowWriters, Writers, Accessors
<1> QED BY <1>1, <1>2, <1>3, <1>4, <1>5

\* A store looks its name up and leaves mutex_.
LEMMA StoreFindLockInv ==
    ASSUME NEW t \in Threads, LockInv, StoreFind(t)
    PROVE  LockInv'
<1> USE DEF LockInv, StoreFind, LeaveLookup, Goto, calls
<1>1. TypeOK'
  BY ReleasedFacts DEF TypeOK, StoreLabels, SharedMutexes, UnlockShared
<1>2. LocksMatchScopes'
  BY DEF TypeOK, SlowWriters, LocksMatchScopes, UnlockShared
<1>3. LocksExclude'
  BY ExclusiveFacts DEF TypeOK, LocksExclude
<1>4. CallsMatchLabels'
  BY CallsAssumption DEF CallsMatchLabels, StoreLabels, GetLabels
<1>5. PointersStayValid'
  BY DEF PointersStayValid, SlowWriters, Writers, Accessors
<1> QED BY <1>1, <1>2, <1>3, <1>4, <1>5

\* A store takes the lock of an entry it found.
LEMMA LockEntryLockInv ==
    ASSUME NEW t \in Threads, LockInv, LockEntry(t)
    PROVE  LockInv'
<1> USE DEF LockInv, LockEntry, Goto, state, calls
<1>1. TypeOK'
  BY DEF TypeOK, StoreLabels, SharedMutexes, Lock
<1>2. LocksMatchScopes'
  BY DEF TypeOK, SlowWriters, LocksMatchScopes, Lock
<1>3. LocksExclude'
  BY ExclusiveFacts DEF TypeOK, LocksExclude
<1>4. CallsMatchLabels'
  BY CallsAssumption DEF CallsMatchLabels, StoreLabels, GetLabels
<1>5. PointersStayValid'
  BY DEF PointersStayValid
<1> QED BY <1>1, <1>2, <1>3, <1>4, <1>5

\* A store emplaces under the entry's lock and returns.
LEMMA EmplaceInEntryLockInv ==
    ASSUME NEW t \in Threads, LockInv, EmplaceInEntry(t)
    PROVE  LockInv'
<1> USE DEF LockInv, EmplaceInEntry, Return, EndCall, Goto
<1>0. /\ call[t] \in StoreCalls
      /\ data' \in [Names -> EventMaps]
      /\ broken' \subseteq Names
      /\ up' \in BOOLEAN
      /\ broken \subseteq broken'
      /\ \A n \in Names : n # call[t].name => data'[n] = data[n]
      /\ broken' \subseteq broken \union {call[t].name}
  BY EmplaceRecordFacts DEF CallsMatchLabels, StoreLabels
<1>1. TypeOK'
  <2>1. call[t].name \in Names
    BY <1>0 DEF StoreCalls
  <2>2. /\ unseen' \in [Threads -> SUBSET Accesses]
        /\ mapOrder' \in LockOrders(Accesses)
        /\ entryOrder' \in [Names -> LockOrders(Accesses)]
    BY <2>1, UseFacts
  <2> QED
    BY <1>0, <2>1, <2>2 DEF TypeOK, SharedMutexes, Unlock
<1>2. LocksMatchScopes'
  BY <1>0 DEF TypeOK, SlowWriters, LocksMatchScopes, Unlock
<1>3. LocksExclude'
  BY ExclusiveFacts DEF TypeOK, LocksExclude
<1>4. CallsMatchLabels'
  BY CallsAssumption DEF TypeOK, CallsMatchLabels, StoreLabels, GetLabels
<1>5. PointersStayValid'
  BY <1>0 DEF TypeOK, PointersStayValid, SlowWriters, Writers, Accessors
<1> QED BY <1>1, <1>2, <1>3, <1>4, <1>5

\* A store that missed its name takes mutex_.
LEMMA LockMapLockInv ==
    ASSUME NEW t \in Threads, LockInv, LockMap(t)
    PROVE  LockInv'
<1> USE DEF LockInv, LockMap, Goto, state, calls
<1>1. TypeOK'
  BY DEF TypeOK, StoreLabels, SharedMutexes, Lock
<1>2. LocksMatchScopes'
  BY DEF TypeOK, LocksMatchScopes, Lock
<1>3. LocksExclude'
  BY ExclusiveFacts DEF TypeOK, LocksExclude
<1>4. CallsMatchLabels'
  BY CallsAssumption DEF CallsMatchLabels, StoreLabels, GetLabels
<1>5. PointersStayValid'
  BY DEF PointersStayValid, SlowWriters, Writers, Accessors
<1> QED BY <1>1, <1>2, <1>3, <1>4, <1>5

\* A store makes the entry, or finds another thread's.
LEMMA CreateEntryLockInv ==
    ASSUME NEW t \in Threads, LockInv, CreateEntry(t)
    PROVE  LockInv'
<1> USE DEF LockInv, CreateEntry, Goto, locks, order, calls
<1>1. TypeOK'
  BY DEF TypeOK, CallsMatchLabels, StoreCalls, StoreLabels
<1>2. LocksMatchScopes'
  BY DEF SlowWriters, LocksMatchScopes
<1>3. LocksExclude'
  BY DEF LocksExclude
<1>4. CallsMatchLabels'
  BY CallsAssumption DEF CallsMatchLabels, StoreLabels, GetLabels
<1>5. PointersStayValid'
  BY DEF PointersStayValid
<1> QED BY <1>1, <1>2, <1>3, <1>4, <1>5

\* A store emplaces under mutex_ and returns.
LEMMA EmplaceUnderMapLockInv ==
    ASSUME NEW t \in Threads, LockInv, EmplaceUnderMap(t)
    PROVE  LockInv'
<1> USE DEF LockInv, EmplaceUnderMap, Return, EndCall, Goto
<1>0. /\ call[t] \in StoreCalls
      /\ data' \in [Names -> EventMaps]
      /\ broken' \subseteq Names
      /\ up' \in BOOLEAN
      /\ broken \subseteq broken'
      /\ \A n \in Names : n # call[t].name => data'[n] = data[n]
      /\ broken' \subseteq broken \union {call[t].name}
  BY EmplaceRecordFacts DEF CallsMatchLabels, StoreLabels, SlowWriters
<1>1. TypeOK'
  <2>1. call[t].name \in Names
    BY <1>0 DEF StoreCalls
  <2>2. /\ unseen' \in [Threads -> SUBSET Accesses]
        /\ mapOrder' \in LockOrders(Accesses)
        /\ entryOrder' \in [Names -> LockOrders(Accesses)]
    BY <2>1, UseFacts
  <2> QED
    BY <1>0, <2>1, <2>2 DEF TypeOK, SharedMutexes, Unlock
<1>2. LocksMatchScopes'
  BY <1>0 DEF TypeOK, SlowWriters, LocksMatchScopes, Unlock
<1>3. LocksExclude'
  BY ExclusiveFacts DEF TypeOK, LocksExclude
<1>4. CallsMatchLabels'
  BY CallsAssumption DEF TypeOK, CallsMatchLabels, StoreLabels, GetLabels
<1>5. PointersStayValid'
  BY <1>0 DEF TypeOK, PointersStayValid, SlowWriters, Writers, Accessors
<1> QED BY <1>1, <1>2, <1>3, <1>4, <1>5

\* A query enters the shared scope of mutex_.
LEMMA GetLookupLockInv ==
    ASSUME NEW t \in Threads, LockInv, GetLookup(t)
    PROVE  LockInv'
<1> USE DEF LockInv, GetLookup, EnterLookup, Goto, state, calls
<1>1. TypeOK'
  BY DEF TypeOK, GetLabels, SharedMutexes, LockShared
<1>2. LocksMatchScopes'
  BY DEF TypeOK, SlowWriters, LocksMatchScopes, LockShared
<1>3. LocksExclude'
  BY ExclusiveFacts DEF TypeOK, LocksExclude
<1>4. CallsMatchLabels'
  BY CallsAssumption DEF CallsMatchLabels, StoreLabels, GetLabels
<1>5. PointersStayValid'
  BY DEF PointersStayValid, SlowWriters, Writers, Accessors
<1> QED BY <1>1, <1>2, <1>3, <1>4, <1>5

\* A query finds no entry and returns.
LEMMA GetMissLockInv ==
    ASSUME NEW t \in Threads, LockInv, GetMiss(t)
    PROVE  LockInv'
<1> USE DEF LockInv, GetMiss, LeaveLookup, Return, EndCall, Goto
<1>1. TypeOK'
  BY ReleasedFacts DEF TypeOK, SharedMutexes, UnlockShared
<1>2. LocksMatchScopes'
  BY DEF TypeOK, SlowWriters, LocksMatchScopes, UnlockShared
<1>3. LocksExclude'
  BY ExclusiveFacts DEF TypeOK, LocksExclude
<1>4. CallsMatchLabels'
  BY CallsAssumption DEF TypeOK, CallsMatchLabels, StoreLabels, GetLabels
<1>5. PointersStayValid'
  BY DEF PointersStayValid, SlowWriters, Writers, Accessors
<1> QED BY <1>1, <1>2, <1>3, <1>4, <1>5

\* A query finds an entry and leaves mutex_.
LEMMA GetFindLockInv ==
    ASSUME NEW t \in Threads, LockInv, GetFind(t)
    PROVE  LockInv'
<1> USE DEF LockInv, GetFind, LeaveLookup, Goto, calls
<1>1. TypeOK'
  BY ReleasedFacts DEF TypeOK, GetLabels, SharedMutexes, UnlockShared
<1>2. LocksMatchScopes'
  BY DEF TypeOK, SlowWriters, LocksMatchScopes, UnlockShared
<1>3. LocksExclude'
  BY ExclusiveFacts DEF TypeOK, LocksExclude
<1>4. CallsMatchLabels'
  BY CallsAssumption DEF CallsMatchLabels, StoreLabels, GetLabels
<1>5. PointersStayValid'
  BY DEF PointersStayValid
<1> QED BY <1>1, <1>2, <1>3, <1>4, <1>5

\* A query takes the lock of its entry shared.
LEMMA LockEntrySharedLockInv ==
    ASSUME NEW t \in Threads, LockInv, LockEntryShared(t)
    PROVE  LockInv'
<1> USE DEF LockInv, LockEntryShared, Goto, state, calls
<1>1. TypeOK'
  <2>1. pc' \in [Threads -> {"idle"} \union StoreLabels \union GetLabels]
    BY DEF TypeOK, GetLabels
  <2>2. entryMutex' \in [Names -> SharedMutexes(Threads)]
    BY DEF TypeOK, SharedMutexes, LockShared
  <2>3. unseen' \in [Threads -> SUBSET Accesses]
    BY DEF TypeOK
  <2> QED
    BY <2>1, <2>2, <2>3 DEF TypeOK
<1>2. LocksMatchScopes'
  BY DEF TypeOK, SlowWriters, LocksMatchScopes, LockShared
<1>3. LocksExclude'
  BY ExclusiveFacts DEF TypeOK, LocksExclude
<1>4. CallsMatchLabels'
  BY CallsAssumption DEF CallsMatchLabels, StoreLabels, GetLabels
<1>5. PointersStayValid'
  BY DEF PointersStayValid
<1> QED BY <1>1, <1>2, <1>3, <1>4, <1>5

\* A query reads its range and returns.
LEMMA ReadRangeLockInv ==
    ASSUME NEW t \in Threads, LockInv, ReadRange(t)
    PROVE  LockInv'
<1> USE DEF LockInv, ReadRange, Return, EndCall, Goto
<1>1. TypeOK'
  <2>1. result' \in [Threads -> SUBSET Records]
    BY InRangeFacts DEF TypeOK, CallsMatchLabels, GetLabels, GetCalls
  <2>2. broken' \subseteq Names /\ up' \in BOOLEAN /\ call[t].name \in Names
    BY DEF TypeOK, CallsMatchLabels, GetLabels, GetCalls
  <2>3. /\ unseen' \in [Threads -> SUBSET Accesses]
        /\ mapOrder' \in LockOrders(Accesses)
        /\ entryOrder' \in [Names -> LockOrders(Accesses)]
    BY <2>2, UseFacts
  <2>4. /\ data' = data /\ eventEntries' = eventEntries /\ mutex' = mutex
        /\ call' = [call EXCEPT ![t] = NoCall] /\ pc' = [pc EXCEPT ![t] = "idle"]
        /\ early' = early \ {t} /\ met' = met \ {t}
    OBVIOUS
  <2>5. entryMutex' \in [Names -> SharedMutexes(Threads)]
    BY DEF TypeOK, SharedMutexes, UnlockShared
  <2> QED
    BY <2>1, <2>2, <2>3, <2>4, <2>5 DEF TypeOK
<1>2. LocksMatchScopes'
  BY DEF TypeOK, SlowWriters, LocksMatchScopes, UnlockShared
<1>3. LocksExclude'
  BY ExclusiveFacts DEF TypeOK, LocksExclude
<1>4. CallsMatchLabels'
  BY CallsAssumption DEF TypeOK, CallsMatchLabels, StoreLabels, GetLabels
<1>5. PointersStayValid'
  BY DEF TypeOK, PointersStayValid, SlowWriters, Writers, Accessors
<1> QED BY <1>1, <1>2, <1>3, <1>4, <1>5

\* Every step keeps the invariant: a new call, a step inside a call, or none.
LEMMA NextLockInv == LockInv /\ [Next]_vars => LockInv'
<1> SUFFICES ASSUME LockInv, [Next]_vars PROVE LockInv'
  OBVIOUS
<1>1. CASE UNCHANGED vars
  BY <1>1 DEF vars, locks, calls, order, state, LockInv, TypeOK, LocksMatchScopes, LocksExclude,
              CallsMatchLabels, PointersStayValid
<1>2. CASE Ended
  BY <1>2, <1>1 DEF Ended
<1>3. ASSUME NEW t \in Threads, NewCall(t)
      PROVE  LockInv'
  BY <1>3, CallStoreLockInv, CallGetLockInv DEF NewCall
<1>4. ASSUME NEW t \in Threads, Step(t)
      PROVE  LockInv'
  BY <1>4, StoreLookupLockInv, StoreFindLockInv, LockEntryLockInv, EmplaceInEntryLockInv,
     LockMapLockInv, CreateEntryLockInv, EmplaceUnderMapLockInv, GetLookupLockInv,
     GetMissLockInv, GetFindLockInv, LockEntrySharedLockInv, ReadRangeLockInv DEF Step
<1> QED
  BY <1>1, <1>2, <1>3, <1>4 DEF Next

-----------------------------------------------------------------------------
(* The maker of an entry *)

\* A new pointer to an entry is obtained under mutex_ shared, which the maker of
\* a fresh entry excludes; a fresh entry is made for a name nobody points to.
LEMMA NextFresh ==
    LockInv /\ FreshEntryIsPrivate /\ [Next]_vars => FreshEntryIsPrivate'
<1> SUFFICES ASSUME LockInv, FreshEntryIsPrivate, [Next]_vars
             PROVE  FreshEntryIsPrivate'
  OBVIOUS
<1> USE DEF FreshEntryIsPrivate, Accessors, Writers, SlowWriters
<1>1. CASE UNCHANGED vars \/ Ended
  BY <1>1 DEF vars, calls, Ended
<1>2. ASSUME NEW t \in Threads, NewCall(t)
      PROVE  FreshEntryIsPrivate'
  <2>1. /\ pc'[t] \in {"s_lookup", "g_lookup"}
        /\ \A u \in Threads \ {t} : pc'[u] = pc[u] /\ call'[u] = call[u]
    BY <1>2 DEF NewCall, CallStore, CallGet, Begin, BeginCall, Goto, LockInv, TypeOK
  <2> QED
    BY <2>1
<1>3. ASSUME NEW t \in Threads, Step(t)
      PROVE  FreshEntryIsPrivate'
  <2>1. CASE StoreLookup(t) \/ LockEntry(t) \/ LockMap(t) \/ GetLookup(t) \/ LockEntryShared(t)
    BY <2>1 DEF StoreLookup, LockEntry, LockMap, GetLookup, EnterLookup, calls,
       LockEntryShared, Goto, LockInv, TypeOK
  <2>2. CASE EmplaceInEntry(t) \/ EmplaceUnderMap(t) \/ GetMiss(t) \/ ReadRange(t)
    BY <2>2 DEF EmplaceInEntry, EmplaceUnderMap, GetMiss, ReadRange,
       Return, EndCall, Goto, LockInv, TypeOK
  <2>3. CASE StoreFind(t) \/ GetFind(t)
    <3>1. \A u \in Threads : pc[u] # "s_fresh"
      BY <2>3 DEF StoreFind, GetFind, LockInv, LocksMatchScopes,
         LocksExclude, Exclusive
    <3> QED
      BY <2>3, <3>1 DEF StoreFind, GetFind, Goto, calls, LockInv, TypeOK
  <2>4. CASE CreateEntry(t)
    <3>1. \A u \in Threads \ {t} : pc[u] # "s_fresh"
      BY <2>4 DEF CreateEntry, LockInv, LocksMatchScopes, LocksExclude, Exclusive
    <3>2. \A u \in Threads : pc[u] \in {"s_entry", "g_entry"} \union Accessors =>
                                call[u].name \in eventEntries
      BY DEF LockInv, PointersStayValid
    <3> QED
      BY <2>4, <3>1, <3>2 DEF CreateEntry, Goto, calls, LockInv, TypeOK
  <2> QED
    BY <1>3, <2>1, <2>2, <2>3, <2>4 DEF Step
<1> QED
  BY <1>1, <1>2, <1>3 DEF Next

-----------------------------------------------------------------------------
(* The order of uses *)

\* After a use of a tree the others may miss it, and nobody misses more than that;
\* who took its lock afterwards misses nothing the user had seen.
LEMMA UseOrder ==
    ASSUME LockInv, NEW t \in Threads,
           EmplaceInEntry(t) \/ EmplaceUnderMap(t) \/ ReadRange(t)
    PROVE  /\ \A a \in unseen'[t] : a \in unseen[t]
           /\ \A u \in Threads \ {t} : \A a \in unseen'[u] : a \in unseen[u] \/ a = Access(t)
           /\ \A a \in mapOrder'.reader : a \in mapOrder.reader \/ a = Access(t)
           /\ \A a \in mapOrder'.writer : a \in mapOrder.writer \/ a = Access(t)
           /\ EmplaceUnderMap(t) =>
                \A a \in mapOrder'.reader \union mapOrder'.writer : a \in unseen[t]
           /\ \A n \in Names : \A a \in entryOrder'[n].reader :
                a \in entryOrder[n].reader \/ a = Access(t)
           /\ \A n \in Names : \A a \in entryOrder'[n].writer :
                a \in entryOrder[n].writer \/ a = Access(t)
           /\ EmplaceInEntry(t) =>
                \A a \in entryOrder'[call[t].name].reader : a \in unseen[t]
           /\ EmplaceInEntry(t) \/ ReadRange(t) =>
                \A a \in entryOrder'[call[t].name].writer : a \in unseen[t]
<1>1. /\ \A x : \A a \in Unseen(x, t) : a \in x \/ a = Access(t)
      /\ \A a \in UnseenBySelf(t) : a \in unseen[t]
  BY DEF Unseen, UnseenBySelf
<1>2. NoteAccess(t)
  BY DEF EmplaceInEntry, EmplaceUnderMap, ReadRange, EmplaceRecord
<1>3. /\ \A a \in unseen'[t] : a \in unseen[t]
      /\ \A u \in Threads \ {t} : \A a \in unseen'[u] : a \in unseen[u] \/ a = Access(t)
  BY <1>1, <1>2 DEF NoteAccess
<1>4. /\ \A a \in UnseenIn(mapOrder, t).reader : a \in mapOrder.reader \/ a = Access(t)
      /\ \A a \in UnseenIn(mapOrder, t).writer : a \in mapOrder.writer \/ a = Access(t)
  BY <1>1 DEF UnseenIn
<1>5. \A n \in Names :
        /\ \A a \in UnseenIn(entryOrder[n], t).reader : a \in entryOrder[n].reader \/ a = Access(t)
        /\ \A a \in UnseenIn(entryOrder[n], t).writer : a \in entryOrder[n].writer \/ a = Access(t)
  BY <1>1 DEF UnseenIn
<1>6. /\ call[t].name \in Names
      /\ pc[t] \in Accessors
  BY DEF LockInv, CallsMatchLabels, StoreLabels, GetLabels, StoreCalls, GetCalls,
         EmplaceInEntry, EmplaceUnderMap, ReadRange, SlowWriters, Writers, Accessors
<1>7. /\ UnseenIn(mapOrder, t) \in LockOrders(Accesses)
      /\ \A n \in Names : UnseenIn(entryOrder[n], t) \in LockOrders(Accesses)
  BY <1>6, NoteFacts DEF LockInv, TypeOK
<1>8. CASE EmplaceInEntry(t)
  <2>1. /\ mapOrder' = UnseenIn(mapOrder, t)
        /\ entryOrder' = [n \in Names |->
              IF n = call[t].name THEN Released(UnseenIn(entryOrder[n], t), UnseenBySelf(t))
              ELSE UnseenIn(entryOrder[n], t)]
        /\ ~EmplaceUnderMap(t)
        /\ ~ReadRange(t)
    BY <1>8 DEF EmplaceInEntry, EmplaceUnderMap, ReadRange, SlowWriters
  <2>2. \A n \in Names :
            /\ Released(UnseenIn(entryOrder[n], t), UnseenBySelf(t)).reader
                    = UnseenIn(entryOrder[n], t).reader \intersect UnseenBySelf(t)
            /\ Released(UnseenIn(entryOrder[n], t), UnseenBySelf(t)).writer
                    = UnseenIn(entryOrder[n], t).writer \intersect UnseenBySelf(t)
    BY DEF UnseenIn, Released, ReleasedShared
  <2>3. \A n \in Names \ {call[t].name} : entryOrder'[n] = UnseenIn(entryOrder[n], t)
    BY <2>1
  <2>4. entryOrder'[call[t].name] =
            Released(UnseenIn(entryOrder[call[t].name], t), UnseenBySelf(t))
    BY <2>1, <1>6
  <2> QED
    BY <1>1, <1>3, <1>4, <1>5, <1>6, <2>1, <2>2, <2>3, <2>4
<1>9. CASE EmplaceUnderMap(t)
  <2>1. /\ mapOrder' = Released(UnseenIn(mapOrder, t), UnseenBySelf(t))
        /\ \A n \in Names : entryOrder'[n] = UnseenIn(entryOrder[n], t)
        /\ ~EmplaceInEntry(t)
        /\ ~ReadRange(t)
    BY <1>9 DEF EmplaceInEntry, EmplaceUnderMap, ReadRange, SlowWriters
  <2>2. /\ mapOrder'.reader = UnseenIn(mapOrder, t).reader \intersect UnseenBySelf(t)
        /\ mapOrder'.writer = UnseenIn(mapOrder, t).writer \intersect UnseenBySelf(t)
    BY <1>7, <2>1, ReleasedFacts
  <2> QED
    BY <1>1, <1>3, <1>4, <1>5, <2>1, <2>2
<1>10. CASE ReadRange(t)
  <2>1. /\ mapOrder' = UnseenIn(mapOrder, t)
        /\ entryOrder' = [n \in Names |->
              IF n = call[t].name THEN ReleasedShared(UnseenIn(entryOrder[n], t), UnseenBySelf(t))
              ELSE UnseenIn(entryOrder[n], t)]
        /\ ~EmplaceUnderMap(t)
        /\ ~EmplaceInEntry(t)
    BY <1>10 DEF EmplaceInEntry, EmplaceUnderMap, ReadRange, SlowWriters
  <2>2. \A n \in Names :
            /\ ReleasedShared(UnseenIn(entryOrder[n], t), UnseenBySelf(t)).reader
                    = UnseenIn(entryOrder[n], t).reader
            /\ ReleasedShared(UnseenIn(entryOrder[n], t), UnseenBySelf(t)).writer
                    = UnseenIn(entryOrder[n], t).writer \intersect UnseenBySelf(t)
    BY DEF UnseenIn, Released, ReleasedShared
  <2>3. \A n \in Names \ {call[t].name} : entryOrder'[n] = UnseenIn(entryOrder[n], t)
    BY <2>1
  <2>4. entryOrder'[call[t].name] =
            ReleasedShared(UnseenIn(entryOrder[call[t].name], t), UnseenBySelf(t))
    BY <2>1, <1>6
  <2> QED
    BY <1>1, <1>3, <1>4, <1>5, <1>6, <2>1, <2>2, <2>3, <2>4
<1> QED
  BY <1>8, <1>9, <1>10

\* What a use of a tree leaves alone, and that the user has excluded all rivals.
LEMMA UseFrame ==
    ASSUME LockInv, FreshEntryIsPrivate, NEW t \in Threads,
           EmplaceInEntry(t) \/ EmplaceUnderMap(t) \/ ReadRange(t)
    PROVE  /\ eventEntries' = eventEntries
           /\ pc[t] \in Accessors
           /\ call[t].name \in eventEntries
           /\ call[t].name \in Names
           /\ pc'[t] = "idle" /\ call'[t] = NoCall
           /\ \A u \in Threads \ {t} : pc'[u] = pc[u] /\ call'[u] = call[u]
           /\ early' = early \ {t} /\ met' = met \ {t}
           /\ Access(t).name = call[t].name
           /\ Access(t).by = pc[t]
           /\ Access(t).thread = t
           /\ EmplaceInEntry(t) => pc[t] = "s_emplace"
           /\ EmplaceUnderMap(t) => pc[t] \in SlowWriters
           /\ ReadRange(t) => pc[t] = "g_read"
           /\ \A u \in Threads \ {t} :
                /\ pc[u] = "s_fresh" => call[u].name # call[t].name
                /\ pc[t] = "s_fresh" /\ pc[u] \in {"s_entry", "g_entry", "s_emplace", "g_read"}
                        => call[u].name # call[t].name
                /\ pc[t] \in SlowWriters =>
                        pc[u] \notin {"s_find", "g_find", "s_create"} \union SlowWriters
                /\ EmplaceInEntry(t) /\ pc[u] \in {"s_emplace", "g_read"}
                        => call[u].name # call[t].name
                /\ ReadRange(t) /\ pc[u] = "s_emplace" => call[u].name # call[t].name
<1>1. /\ EmplaceInEntry(t) => pc[t] = "s_emplace"
      /\ EmplaceUnderMap(t) => pc[t] \in SlowWriters
      /\ ReadRange(t) => pc[t] = "g_read"
      /\ pc[t] \in Accessors
  BY DEF EmplaceInEntry, EmplaceUnderMap, ReadRange, SlowWriters, Writers, Accessors
<1>2. /\ call[t].name \in eventEntries
      /\ call[t].name \in Names
  BY <1>1 DEF LockInv, TypeOK, PointersStayValid
<1>3. /\ eventEntries' = eventEntries
      /\ pc'[t] = "idle" /\ call'[t] = NoCall
      /\ \A u \in Threads \ {t} : pc'[u] = pc[u] /\ call'[u] = call[u]
      /\ early' = early \ {t} /\ met' = met \ {t}
  BY DEF EmplaceInEntry, EmplaceUnderMap, ReadRange, Return, EndCall, Goto, LockInv, TypeOK
<1>4. /\ Access(t).name = call[t].name
      /\ Access(t).by = pc[t]
      /\ Access(t).thread = t
  BY DEF Access
<1>5. \A u \in Threads \ {t} :
        /\ pc[u] = "s_fresh" => call[u].name # call[t].name
        /\ pc[t] = "s_fresh" /\ pc[u] \in {"s_entry", "g_entry", "s_emplace", "g_read"}
                => call[u].name # call[t].name
  BY <1>1 DEF FreshEntryIsPrivate, Accessors, Writers, SlowWriters
<1>6. \A u \in Threads \ {t} : pc[t] \in SlowWriters =>
            pc[u] \notin {"s_find", "g_find", "s_create"} \union SlowWriters
  BY DEF LockInv, LocksMatchScopes, LocksExclude, Exclusive
<1>7. \A u \in Threads \ {t} :
        /\ EmplaceInEntry(t) /\ pc[u] \in {"s_emplace", "g_read"} => call[u].name # call[t].name
        /\ ReadRange(t) /\ pc[u] = "s_emplace" => call[u].name # call[t].name
  <2> SUFFICES ASSUME NEW u \in Threads \ {t}, call[u].name = call[t].name
               PROVE  /\ ~(EmplaceInEntry(t) /\ pc[u] \in {"s_emplace", "g_read"})
                      /\ ~(ReadRange(t) /\ pc[u] = "s_emplace")
    OBVIOUS
  <2> DEFINE m == entryMutex[call[t].name]
  <2>1. /\ pc[u] = "s_emplace" => u \in m.excl
        /\ pc[u] = "g_read" => u \in m.shared
        /\ pc[t] = "s_emplace" => t \in m.excl
        /\ pc[t] = "g_read" => t \in m.shared
    BY <1>2 DEF LockInv, LocksMatchScopes
  <2>2. Exclusive(m)
    BY <1>2 DEF LockInv, LocksExclude
  <2> QED
    BY <1>1, <2>1, <2>2 DEF Exclusive
<1> QED
  BY <1>1, <1>2, <1>3, <1>4, <1>5, <1>6, <1>7

\* Nothing was used at first.
LEMMA InitOrder == Init => OrderInv
<1> SUFFICES ASSUME Init PROVE OrderInv
  OBVIOUS
<1> QED
  BY DEF Init, NothingUnseen, OrderInv, AccessesAreOfEntries, OwnIsSeen, MapIsOrdered,
         EntriesAreOrdered, FreshIsOrdered, HasSeen

\* A use adds itself to what the others have not seen, and to what the locks the
\* user did not hold do not order; it held those that must order it.
LEMMA UseKeepsOrder ==
    ASSUME LockInv, FreshEntryIsPrivate, OrderInv, NEW t \in Threads,
           EmplaceInEntry(t) \/ EmplaceUnderMap(t) \/ ReadRange(t)
    PROVE  OrderInv'
<1> DEFINE n == call[t].name
           a0 == Access(t)
<1> USE DEF HasSeen
<1>0. /\ eventEntries' = eventEntries
      /\ pc[t] \in Accessors
      /\ n \in eventEntries
      /\ n \in Names
      /\ pc'[t] = "idle" /\ call'[t] = NoCall
      /\ \A u \in Threads \ {t} : pc'[u] = pc[u] /\ call'[u] = call[u]
      /\ a0.name = n
      /\ a0.by = pc[t]
      /\ a0.thread = t
  BY UseFrame
<1>a. /\ EmplaceInEntry(t) => pc[t] = "s_emplace"
      /\ EmplaceUnderMap(t) => pc[t] \in SlowWriters
      /\ ReadRange(t) => pc[t] = "g_read"
  BY UseFrame
<1>b. \A u \in Threads \ {t} :
        /\ pc[u] = "s_fresh" => call[u].name # n
        /\ pc[t] = "s_fresh" /\ pc[u] \in {"s_entry", "g_entry", "s_emplace", "g_read"}
                => call[u].name # n
        /\ pc[t] \in SlowWriters =>
                pc[u] \notin {"s_find", "g_find", "s_create"} \union SlowWriters
        /\ EmplaceInEntry(t) /\ pc[u] \in {"s_emplace", "g_read"} => call[u].name # n
        /\ ReadRange(t) /\ pc[u] = "s_emplace" => call[u].name # n
  BY UseFrame
<1>c. /\ \A a \in unseen'[t] : a \in unseen[t]
      /\ \A u \in Threads \ {t} : \A a \in unseen'[u] : a \in unseen[u] \/ a = a0
  BY UseOrder
<1>d. /\ \A a \in mapOrder'.reader \union mapOrder'.writer :
            a \in mapOrder.reader \union mapOrder.writer \/ a = a0
      /\ EmplaceUnderMap(t) =>
            \A a \in mapOrder'.reader \union mapOrder'.writer : a \in unseen[t]
  BY UseOrder
<1>e. /\ \A m \in Names : \A a \in entryOrder'[m].reader :
            a \in entryOrder[m].reader \/ a = a0
      /\ \A m \in Names : \A a \in entryOrder'[m].writer :
            a \in entryOrder[m].writer \/ a = a0
      /\ EmplaceInEntry(t) => \A a \in entryOrder'[n].reader : a \in unseen[t]
      /\ EmplaceInEntry(t) \/ ReadRange(t) =>
            \A a \in entryOrder'[n].writer : a \in unseen[t]
  BY UseOrder
<1>1. /\ AccessesAreOfEntries(mapOrder.reader \union mapOrder.writer)'
      /\ \A m \in Names :
            AccessesAreOfEntries(entryOrder[m].reader \union entryOrder[m].writer)'
      /\ \A u \in Threads : AccessesAreOfEntries(unseen[u])'
  BY <1>0, <1>c, <1>d, <1>e DEF OrderInv, AccessesAreOfEntries
<1>2. OwnIsSeen'
  BY <1>0, <1>c DEF OrderInv, OwnIsSeen
<1>3. MapIsOrdered'
  <2> SUFFICES ASSUME NEW m \in Names
               PROVE  /\ HasSeen(mapOrder.reader \union mapOrder.writer, m, SlowWriters)'
                      /\ \A u \in Threads :
                          pc'[u] \in {"s_find", "g_find", "s_create"} \union SlowWriters =>
                              HasSeen(unseen'[u], m, SlowWriters)
    BY DEF MapIsOrdered
  <2>1. HasSeen(mapOrder'.reader \union mapOrder'.writer, m, SlowWriters)
    <3>1. CASE EmplaceUnderMap(t)
      BY <1>a, <1>d, <3>1 DEF OrderInv, MapIsOrdered
    <3>2. CASE ~EmplaceUnderMap(t)
      BY <1>0, <1>a, <1>d, <3>2 DEF OrderInv, MapIsOrdered, SlowWriters
    <3> QED
      BY <3>1, <3>2
  <2>2. ASSUME NEW u \in Threads,
               pc'[u] \in {"s_find", "g_find", "s_create"} \union SlowWriters
        PROVE  HasSeen(unseen'[u], m, SlowWriters)
    <3>1. u # t
      BY <1>0, <2>2 DEF SlowWriters
    <3> QED
      BY <1>0, <1>b, <1>c, <2>2, <3>1 DEF OrderInv, MapIsOrdered
  <2> QED
    BY <2>1, <2>2
<1>4. EntriesAreOrdered'
  <2>1. ASSUME NEW m \in Names
        PROVE  /\ HasSeen(entryOrder'[m].reader \union entryOrder'[m].writer, m, {"s_emplace"})
               /\ HasSeen(entryOrder'[m].writer, m, {"g_read"})
    <3>1. CASE m # n
      BY <1>0, <1>e, <3>1 DEF OrderInv, EntriesAreOrdered
    <3>2. CASE m = n /\ EmplaceInEntry(t)
      BY <1>a, <1>e, <3>2 DEF OrderInv, EntriesAreOrdered
    <3>3. CASE m = n /\ EmplaceUnderMap(t)
      BY <1>0, <1>a, <1>e, <3>3 DEF OrderInv, EntriesAreOrdered, SlowWriters
    <3>4. CASE m = n /\ ReadRange(t)
      BY <1>0, <1>a, <1>e, <2>1, <3>4 DEF OrderInv, EntriesAreOrdered, OwnIsSeen
    <3> QED
      BY <3>1, <3>2, <3>3, <3>4
  <2>2. ASSUME NEW u \in Threads
        PROVE  /\ pc'[u] \in {"s_emplace", "g_read"} =>
                      HasSeen(unseen'[u], call'[u].name, {"s_emplace"})
               /\ pc'[u] = "s_emplace" => HasSeen(unseen'[u], call'[u].name, {"g_read"})
    <3>1. CASE u = t
      BY <1>0, <3>1
    <3>2. CASE u # t
      BY <1>0, <1>a, <1>b, <1>c, <2>2, <3>2 DEF OrderInv, EntriesAreOrdered, SlowWriters
    <3> QED
      BY <3>1, <3>2
  <2> QED
    BY <2>1, <2>2 DEF EntriesAreOrdered
<1>5. FreshIsOrdered'
  <2> SUFFICES ASSUME NEW u \in Threads
               PROVE  /\ pc'[u] \in {"s_entry", "g_entry", "s_emplace", "g_read"} =>
                            HasSeen(unseen'[u], call'[u].name, {"s_fresh"})
                      /\ pc'[u] = "s_fresh" => HasSeen(unseen'[u], call'[u].name, Accessors)
    BY DEF FreshIsOrdered
  <2>1. CASE u = t
    BY <1>0, <2>1
  <2>2. CASE u # t
    BY <1>0, <1>b, <1>c, <2>2 DEF OrderInv, FreshIsOrdered
  <2> QED
    BY <2>1, <2>2
<1> QED
  BY <1>1, <1>2, <1>3, <1>4, <1>5 DEF OrderInv

\* Who takes a lock misses no more than what the lock does not order.
LEMMA LockKeepsOrder ==
    ASSUME LockInv, OrderInv, NEW t \in Threads,
           \/ StoreLookup(t) \/ GetLookup(t) \/ LockEntry(t) \/ LockEntryShared(t) \/ LockMap(t)
    PROVE  OrderInv'
<1> USE DEF HasSeen
<1>1. /\ eventEntries' = eventEntries /\ call' = call
      /\ mapOrder' = mapOrder /\ entryOrder' = entryOrder
      /\ \A u \in Threads \ {t} : pc'[u] = pc[u] /\ unseen'[u] = unseen[u]
      /\ \A a \in unseen'[t] : a \in unseen[t]
  BY DEF StoreLookup, GetLookup, EnterLookup, LockEntry, LockEntryShared, LockMap, Goto,
         state, calls, LockInv, TypeOK
<1>2. \/ /\ pc'[t] \in {"s_find", "g_find"}
         /\ \A a \in unseen'[t] : a \in mapOrder.reader
      \/ /\ pc'[t] = "s_create"
         /\ \A a \in unseen'[t] : a \in mapOrder.writer
      \/ /\ pc'[t] = "s_emplace" /\ pc[t] = "s_entry"
         /\ call[t].name \in Names
         /\ \A a \in unseen'[t] : a \in entryOrder[call[t].name].writer
      \/ /\ pc'[t] = "g_read" /\ pc[t] = "g_entry"
         /\ call[t].name \in Names
         /\ \A a \in unseen'[t] : a \in entryOrder[call[t].name].reader
  BY DEF StoreLookup, GetLookup, EnterLookup, LockEntry, LockEntryShared, LockMap, Goto,
         LockInv, TypeOK, CallsMatchLabels, StoreLabels, GetLabels, StoreCalls, GetCalls
<1>3. /\ AccessesAreOfEntries(mapOrder.reader \union mapOrder.writer)'
      /\ \A m \in Names :
            AccessesAreOfEntries(entryOrder[m].reader \union entryOrder[m].writer)'
      /\ \A u \in Threads : AccessesAreOfEntries(unseen[u])'
      /\ OwnIsSeen'
  BY <1>1 DEF OrderInv, AccessesAreOfEntries, OwnIsSeen
<1>4. MapIsOrdered'
  BY <1>1, <1>2 DEF OrderInv, MapIsOrdered, SlowWriters
<1>5. EntriesAreOrdered'
  BY <1>1, <1>2 DEF OrderInv, EntriesAreOrdered
<1>6. FreshIsOrdered'
  BY <1>1, <1>2 DEF OrderInv, FreshIsOrdered
<1> QED
  BY <1>3, <1>4, <1>5, <1>6 DEF OrderInv

\* Who leaves a lookup with a pointer has seen what was done under mutex_; the
\* maker of an entry has nothing of its name to see.
LEMMA LookupKeepsOrder ==
    ASSUME LockInv, OrderInv, NEW t \in Threads,
           StoreFind(t) \/ GetFind(t) \/ GetMiss(t) \/ CreateEntry(t)
    PROVE  OrderInv'
<1> USE DEF HasSeen
<1>1. /\ unseen' = unseen /\ entryOrder' = entryOrder
      /\ mapOrder'.reader = mapOrder.reader
      /\ \A a \in mapOrder'.writer : a \in mapOrder.writer
      /\ \A m \in eventEntries : m \in eventEntries'
      /\ \A u \in Threads \ {t} : pc'[u] = pc[u] /\ call'[u] = call[u]
  <2>1. CASE StoreFind(t) \/ GetFind(t) \/ GetMiss(t)
    <3>1. mapOrder' = ReleasedShared(mapOrder, unseen[t]) /\ mapOrder \in LockOrders(Accesses)
      BY <2>1 DEF StoreFind, GetFind, GetMiss, LeaveLookup, LockInv, TypeOK
    <3>2. /\ mapOrder'.reader = mapOrder.reader
          /\ \A a \in mapOrder'.writer : a \in mapOrder.writer
      BY <3>1, ReleasedFacts
    <3> QED
      BY <2>1, <3>2 DEF StoreFind, GetFind, GetMiss, LeaveLookup, Goto, Return, EndCall, calls,
                        LockInv, TypeOK
  <2>2. CASE CreateEntry(t)
    BY <2>2 DEF CreateEntry, Goto, order, calls, LockInv, TypeOK
  <2> QED
    BY <2>1, <2>2
<1>2. \/ /\ pc'[t] \in {"s_entry", "g_entry"} /\ pc[t] \in {"s_find", "g_find"}
         /\ call'[t] = call[t] /\ call[t].name \in Names
      \/ pc'[t] \in {"s_map", "idle"}
      \/ /\ pc'[t] = "s_fresh" /\ pc[t] = "s_create"
         /\ call'[t] = call[t] /\ call[t].name \notin eventEntries
      \/ pc'[t] = "s_found" /\ pc[t] = "s_create"
  BY DEF StoreFind, GetFind, GetMiss, CreateEntry, LeaveLookup, Goto, Return, EndCall, calls,
         LockInv, TypeOK, CallsMatchLabels, StoreLabels, GetLabels, StoreCalls, GetCalls
<1>3. /\ AccessesAreOfEntries(mapOrder.reader \union mapOrder.writer)'
      /\ \A m \in Names :
            AccessesAreOfEntries(entryOrder[m].reader \union entryOrder[m].writer)'
      /\ \A u \in Threads : AccessesAreOfEntries(unseen[u])'
      /\ OwnIsSeen'
  BY <1>1 DEF OrderInv, AccessesAreOfEntries, OwnIsSeen
<1>4. MapIsOrdered'
  BY <1>1, <1>2 DEF OrderInv, MapIsOrdered, SlowWriters
<1>5. EntriesAreOrdered'
  BY <1>1, <1>2 DEF OrderInv, EntriesAreOrdered
<1>6. FreshIsOrdered'
  <2> SUFFICES ASSUME NEW u \in Threads
               PROVE  /\ pc'[u] \in {"s_entry", "g_entry", "s_emplace", "g_read"} =>
                            HasSeen(unseen'[u], call'[u].name, {"s_fresh"})
                      /\ pc'[u] = "s_fresh" => HasSeen(unseen'[u], call'[u].name, Accessors)
    BY DEF FreshIsOrdered
  <2>1. CASE u # t
    BY <1>1, <2>1 DEF OrderInv, FreshIsOrdered
  <2>2. CASE u = t /\ pc'[t] \in {"s_entry", "g_entry"}
    BY <1>1, <1>2, <2>2 DEF OrderInv, MapIsOrdered, SlowWriters
  <2>3. CASE u = t /\ pc'[t] = "s_fresh"
    BY <1>1, <1>2, <2>3 DEF OrderInv, AccessesAreOfEntries
  <2>4. CASE u = t /\ pc'[t] \in {"s_map", "idle", "s_found"}
    BY <2>4
  <2> QED
    BY <1>2, <2>1, <2>2, <2>3, <2>4
<1> QED
  BY <1>3, <1>4, <1>5, <1>6 DEF OrderInv

\* Every step keeps what the locks order.
LEMMA NextOrder ==
    LockInv /\ FreshEntryIsPrivate /\ OrderInv /\ [Next]_vars => OrderInv'
<1> SUFFICES ASSUME LockInv, FreshEntryIsPrivate, OrderInv, [Next]_vars PROVE OrderInv'
  OBVIOUS
<1>1. CASE UNCHANGED vars \/ Ended
  BY <1>1 DEF vars, calls, order, state, Ended, OrderInv, AccessesAreOfEntries, OwnIsSeen,
              MapIsOrdered, EntriesAreOrdered, FreshIsOrdered
<1>2. ASSUME NEW t \in Threads, NewCall(t)
      PROVE  OrderInv'
  <2>1. /\ pc'[t] \in {"s_lookup", "g_lookup"}
        /\ \A u \in Threads \ {t} : pc'[u] = pc[u] /\ call'[u] = call[u]
        /\ UNCHANGED <<eventEntries, unseen, mapOrder, entryOrder>>
    BY <1>2 DEF NewCall, CallStore, CallGet, Begin, BeginCall, Goto, order, LockInv, TypeOK
  <2>2. MapIsOrdered'
    BY <2>1 DEF OrderInv, MapIsOrdered, SlowWriters
  <2>3. EntriesAreOrdered'
    BY <2>1 DEF OrderInv, EntriesAreOrdered
  <2>4. FreshIsOrdered'
    BY <2>1 DEF OrderInv, FreshIsOrdered
  <2> QED
    BY <2>1, <2>2, <2>3, <2>4 DEF OrderInv, AccessesAreOfEntries, OwnIsSeen
<1>3. ASSUME NEW t \in Threads, Step(t)
      PROVE  OrderInv'
  BY <1>3, UseKeepsOrder, LockKeepsOrder, LookupKeepsOrder DEF Step
<1> QED
  BY <1>1, <1>2, <1>3 DEF Next

-----------------------------------------------------------------------------
(* The history of early stores *)

\* Nobody calls at first.
LEMMA InitMeetings == Init => MeetingsAreKnown
BY DEF Init, MeetingsAreKnown, SlowWriters

\* A call that begins meets the early stores of its name; a store that begins
\* before its name has an entry is early, and meets all others of the name.
LEMMA CallKeepsMeetings ==
    ASSUME LockInv, MeetingsAreKnown, NEW t \in Threads, NewCall(t)
    PROVE  MeetingsAreKnown'
<1>1. PICK c \in StoreCalls \union GetCalls :
        /\ BeginCall(t, c, data[c.name])
        /\ \/ c \in StoreCalls /\ pc'[t] = "s_lookup"
           \/ pc'[t] = "g_lookup"
  BY DEF NewCall, CallStore, CallGet, Begin, Goto, LockInv, TypeOK
<1>2. /\ \A u \in Threads \ {t} : pc'[u] = pc[u]
      /\ UNCHANGED <<eventEntries, unseen>>
  BY DEF NewCall, CallStore, CallGet, Begin, Goto, order, LockInv, TypeOK
<1>3. /\ call'[t] = c /\ call[t] = NoCall /\ c # NoCall
      /\ \A u \in Threads \ {t} : call'[u] = call[u]
      /\ c.name \in Names
  BY <1>1, CallsAssumption DEF BeginCall, LockInv, TypeOK, StoreCalls, GetCalls
<1> DEFINE first == c \in StoreCalls /\ data[c.name] = EmptyMap
           Rival(u) == call[u] # NoCall /\ call[u].name = c.name /\ (first \/ u \in early)
<1>4. /\ \A u \in early : u \in early'
      /\ \A u \in early' : u \in early \/ (u = t /\ first)
      /\ first => t \in early'
      /\ \A u \in met : u \in met'
      /\ \A u \in Threads : Rival(u) => {u, t} \subseteq met'
  BY <1>1 DEF BeginCall
<1>5. c.name \notin eventEntries => data[c.name] = EmptyMap
  BY <1>3 DEF LockInv, PointersStayValid
<1>6. t \notin early
  BY <1>3 DEF MeetingsAreKnown
<1> SUFFICES ASSUME NEW v \in Threads
             PROVE  /\ \/ pc'[v] \in {"s_lookup", "s_find"} /\ call'[v].name \notin eventEntries'
                       \/ pc'[v] \in {"s_map", "s_create"} \union SlowWriters
                       => v \in early'
                    /\ v \in early' => call'[v] # NoCall
                    /\ \A u \in Threads \ {v} :
                        v \in early' /\ call'[u] # NoCall /\ call'[u].name = call'[v].name =>
                            {v, u} \subseteq met'
                    /\ pc'[v] \in {"s_entry", "g_entry", "s_emplace", "g_read"} /\ v \notin met' =>
                            HasSeen(unseen'[v], call'[v].name, {"s_found"})
                    /\ pc'[v] \in {"s_map", "s_create", "s_found"} /\ v \notin met' =>
                            HasSeen(unseen'[v], call'[v].name, Accessors)
  BY DEF MeetingsAreKnown, HasSeen
<1>7. \/ pc'[v] \in {"s_lookup", "s_find"} /\ call'[v].name \notin eventEntries'
      \/ pc'[v] \in {"s_map", "s_create"} \union SlowWriters
      => v \in early'
  <2>1. CASE v = t
    BY <1>1, <1>2, <1>3, <1>4, <1>5, <2>1 DEF SlowWriters
  <2>2. CASE v # t
    BY <1>2, <1>3, <1>4, <2>2 DEF MeetingsAreKnown
  <2> QED
    BY <2>1, <2>2
<1>8. v \in early' => call'[v] # NoCall
  BY <1>3, <1>4 DEF MeetingsAreKnown
<1>9. ASSUME NEW u \in Threads \ {v},
             v \in early', call'[u] # NoCall, call'[u].name = call'[v].name
      PROVE  {v, u} \subseteq met'
  <2>1. CASE v # t /\ u # t
    BY <1>3, <1>4, <1>9, <2>1 DEF MeetingsAreKnown
  <2>2. CASE v = t
    <3>1. Rival(u)
      BY <1>3, <1>4, <1>6, <1>9, <2>2
    <3> QED
      BY <1>4, <2>2, <3>1
  <2>3. CASE u = t
    <3>1. call[v] # NoCall /\ v \in early
      BY <1>4, <1>9, <2>3 DEF MeetingsAreKnown
    <3>2. Rival(v)
      BY <1>3, <1>9, <2>3, <3>1
    <3> QED
      BY <1>4, <2>3, <3>2
  <2> QED
    BY <2>1, <2>2, <2>3
<1>10. /\ pc'[v] \in {"s_entry", "g_entry", "s_emplace", "g_read"} /\ v \notin met' =>
              HasSeen(unseen'[v], call'[v].name, {"s_found"})
       /\ pc'[v] \in {"s_map", "s_create", "s_found"} /\ v \notin met' =>
              HasSeen(unseen'[v], call'[v].name, Accessors)
  BY <1>1, <1>2, <1>3, <1>4 DEF MeetingsAreKnown
<1> QED
  BY <1>7, <1>8, <1>9, <1>10

\* The writer of the slow path is early, so those that may miss its write have met
\* it; and who may miss another's use on the slow path has met that user.
LEMMA UseKeepsMeetings ==
    ASSUME LockInv, FreshEntryIsPrivate, MeetingsAreKnown, NEW t \in Threads,
           EmplaceInEntry(t) \/ EmplaceUnderMap(t) \/ ReadRange(t)
    PROVE  MeetingsAreKnown'
<1>0. /\ eventEntries' = eventEntries
      /\ pc[t] \in Accessors
      /\ pc'[t] = "idle" /\ call'[t] = NoCall
      /\ \A u \in Threads \ {t} : pc'[u] = pc[u] /\ call'[u] = call[u]
      /\ early' = early \ {t} /\ met' = met \ {t}
      /\ Access(t).name = call[t].name
      /\ Access(t).by = pc[t]
  BY UseFrame
<1>1. \A u \in Threads \ {t} : \A a \in unseen'[u] : a \in unseen[u] \/ a = Access(t)
  BY UseOrder
<1>2. call[t] # NoCall
  BY <1>0 DEF LockInv, CallsMatchLabels, Accessors, Writers, SlowWriters
<1> SUFFICES ASSUME NEW v \in Threads
             PROVE  /\ \/ pc'[v] \in {"s_lookup", "s_find"} /\ call'[v].name \notin eventEntries'
                       \/ pc'[v] \in {"s_map", "s_create"} \union SlowWriters
                       => v \in early'
                    /\ v \in early' => call'[v] # NoCall
                    /\ \A u \in Threads \ {v} :
                        v \in early' /\ call'[u] # NoCall /\ call'[u].name = call'[v].name =>
                            {v, u} \subseteq met'
                    /\ pc'[v] \in {"s_entry", "g_entry", "s_emplace", "g_read"} /\ v \notin met' =>
                            HasSeen(unseen'[v], call'[v].name, {"s_found"})
                    /\ pc'[v] \in {"s_map", "s_create", "s_found"} /\ v \notin met' =>
                            HasSeen(unseen'[v], call'[v].name, Accessors)
  BY DEF MeetingsAreKnown, HasSeen
<1>3. CASE v = t
  BY <1>0, <1>3 DEF SlowWriters
<1>4. CASE v # t
  <2>1. /\ \/ pc'[v] \in {"s_lookup", "s_find"} /\ call'[v].name \notin eventEntries'
           \/ pc'[v] \in {"s_map", "s_create"} \union SlowWriters
           => v \in early'
        /\ v \in early' => call'[v] # NoCall
        /\ \A u \in Threads \ {v} :
            v \in early' /\ call'[u] # NoCall /\ call'[u].name = call'[v].name =>
                {v, u} \subseteq met'
    BY <1>0, <1>4 DEF MeetingsAreKnown
  <2>2. ASSUME pc'[v] \in {"s_entry", "g_entry", "s_emplace", "g_read"}, v \notin met'
        PROVE  HasSeen(unseen'[v], call'[v].name, {"s_found"})
    <3>1. HasSeen(unseen[v], call[v].name, {"s_found"})
      BY <1>0, <1>4, <2>2 DEF MeetingsAreKnown
    <3>2. call[v] # NoCall
      BY <1>0, <1>4, <2>2 DEF LockInv, CallsMatchLabels
    <3>3. ~(pc[t] = "s_found" /\ call[t].name = call[v].name)
      BY <1>0, <1>4, <2>2, <3>2 DEF MeetingsAreKnown, SlowWriters
    <3> QED
      BY <1>0, <1>1, <1>4, <3>1, <3>3 DEF HasSeen
  <2>3. ASSUME pc'[v] \in {"s_map", "s_create", "s_found"}, v \notin met'
        PROVE  HasSeen(unseen'[v], call'[v].name, Accessors)
    <3>1. HasSeen(unseen[v], call[v].name, Accessors)
      BY <1>0, <1>4, <2>3 DEF MeetingsAreKnown
    <3>2. v \in early
      BY <1>0, <1>4, <2>3 DEF MeetingsAreKnown, SlowWriters
    <3>3. call[t].name # call[v].name
      BY <1>0, <1>2, <1>4, <2>3, <3>2 DEF MeetingsAreKnown
    <3> QED
      BY <1>0, <1>1, <1>4, <3>1, <3>3 DEF HasSeen
  <2> QED
    BY <2>1, <2>2, <2>3
<1> QED
  BY <1>3, <1>4

\* Inside a call, until it uses the tree, a thread only comes to miss less; what it
\* misses of a name that has no entry is nothing, and what was done under mutex_
\* it has seen in its lookup.
LEMMA InsideKeepsMeetings ==
    ASSUME LockInv, OrderInv, MeetingsAreKnown, NEW t \in Threads,
           \/ StoreLookup(t) \/ GetLookup(t) \/ LockEntry(t) \/ LockEntryShared(t)
           \/ LockMap(t) \/ StoreFind(t) \/ GetFind(t) \/ CreateEntry(t)
    PROVE  MeetingsAreKnown'
<1>1. /\ UNCHANGED <<call, early, met>>
      /\ \A u \in Threads \ {t} : pc'[u] = pc[u] /\ unseen'[u] = unseen[u]
      /\ \A a \in unseen'[t] : a \in unseen[t]
      /\ \A m \in eventEntries : m \in eventEntries'
  BY DEF StoreLookup, GetLookup, EnterLookup, LockEntry, LockEntryShared, LockMap, StoreFind,
         GetFind, CreateEntry, LeaveLookup, Goto, state, calls, order, LockInv, TypeOK
<1>2. \/ pc[t] = "s_lookup" /\ pc'[t] = "s_find"
      \/ pc'[t] = "g_find"
      \/ pc[t] \in {"s_find", "g_find"} /\ pc'[t] \in {"s_entry", "g_entry"}
      \/ pc[t] = "s_find" /\ pc'[t] = "s_map" /\ call[t].name \notin eventEntries
      \/ pc[t] = "s_entry" /\ pc'[t] = "s_emplace"
      \/ pc[t] = "g_entry" /\ pc'[t] = "g_read"
      \/ pc[t] = "s_map" /\ pc'[t] = "s_create"
      \/ pc[t] = "s_create" /\ pc'[t] \in {"s_fresh", "s_found"}
  BY DEF StoreLookup, GetLookup, EnterLookup, LockEntry, LockEntryShared, LockMap, StoreFind,
         GetFind, CreateEntry, Goto, LockInv, TypeOK
<1>3. /\ pc[t] \in {"s_find", "g_find"} => HasSeen(unseen[t], call[t].name, SlowWriters)
      /\ call[t].name \notin eventEntries => HasSeen(unseen[t], call[t].name, Accessors)
  <2>1. pc[t] \in {"s_find", "g_find"} => call[t].name \in Names
    BY DEF LockInv, CallsMatchLabels, StoreLabels, GetLabels, StoreCalls, GetCalls
  <2> QED
    BY <2>1 DEF OrderInv, MapIsOrdered, AccessesAreOfEntries, HasSeen
<1> SUFFICES ASSUME NEW v \in Threads
             PROVE  /\ \/ pc'[v] \in {"s_lookup", "s_find"} /\ call'[v].name \notin eventEntries'
                       \/ pc'[v] \in {"s_map", "s_create"} \union SlowWriters
                       => v \in early'
                    /\ v \in early' => call'[v] # NoCall
                    /\ \A u \in Threads \ {v} :
                        v \in early' /\ call'[u] # NoCall /\ call'[u].name = call'[v].name =>
                            {v, u} \subseteq met'
                    /\ pc'[v] \in {"s_entry", "g_entry", "s_emplace", "g_read"} /\ v \notin met' =>
                            HasSeen(unseen'[v], call'[v].name, {"s_found"})
                    /\ pc'[v] \in {"s_map", "s_create", "s_found"} /\ v \notin met' =>
                            HasSeen(unseen'[v], call'[v].name, Accessors)
  BY DEF MeetingsAreKnown, HasSeen
<1>4. \/ pc'[v] \in {"s_lookup", "s_find"} /\ call'[v].name \notin eventEntries'
      \/ pc'[v] \in {"s_map", "s_create"} \union SlowWriters
      => v \in early'
  BY <1>1, <1>2 DEF MeetingsAreKnown, SlowWriters
<1>5. /\ v \in early' => call'[v] # NoCall
      /\ \A u \in Threads \ {v} :
            v \in early' /\ call'[u] # NoCall /\ call'[u].name = call'[v].name =>
                {v, u} \subseteq met'
  BY <1>1 DEF MeetingsAreKnown
<1>6. pc'[v] \in {"s_entry", "g_entry", "s_emplace", "g_read"} /\ v \notin met' =>
            HasSeen(unseen'[v], call'[v].name, {"s_found"})
  BY <1>1, <1>2, <1>3 DEF MeetingsAreKnown, HasSeen, SlowWriters
<1>7. pc'[v] \in {"s_map", "s_create", "s_found"} /\ v \notin met' =>
            HasSeen(unseen'[v], call'[v].name, Accessors)
  BY <1>1, <1>2, <1>3 DEF MeetingsAreKnown, HasSeen
<1> QED
  BY <1>4, <1>5, <1>6, <1>7

\* Every step keeps the history true.
LEMMA NextMeetings ==
    LockInv /\ FreshEntryIsPrivate /\ OrderInv /\ MeetingsAreKnown /\ [Next]_vars
        => MeetingsAreKnown'
<1> SUFFICES ASSUME LockInv, FreshEntryIsPrivate, OrderInv, MeetingsAreKnown, [Next]_vars
             PROVE  MeetingsAreKnown'
  OBVIOUS
<1>1. CASE UNCHANGED vars \/ Ended
  BY <1>1 DEF vars, calls, order, state, Ended, MeetingsAreKnown, HasSeen
<1>2. ASSUME NEW t \in Threads, GetMiss(t)
      PROVE  MeetingsAreKnown'
  BY <1>2 DEF GetMiss, LeaveLookup, Return, EndCall, Goto, LockInv, TypeOK, MeetingsAreKnown,
              SlowWriters, HasSeen
<1>3. ASSUME NEW t \in Threads, Step(t)
      PROVE  MeetingsAreKnown'
  BY <1>2, <1>3, UseKeepsMeetings, InsideKeepsMeetings DEF Step
<1> QED
  BY <1>1, <1>3, CallKeepsMeetings DEF Next

-----------------------------------------------------------------------------
(* Safety *)

\* The invariant: the locks and calls, the maker of an entry alone with it, what
\* the locks order, and the history of early stores.
THEOREM InductiveInvariant == Spec => []IInv
<1>1. Init => IInv
  <2>1. Init => FreshEntryIsPrivate
    BY DEF Init, FreshEntryIsPrivate
  <2> QED
    BY <2>1, InitLockInv, InitOrder, InitMeetings DEF IInv
<1>2. IInv /\ [Next]_vars => IInv'
  BY NextLockInv, NextFresh, NextOrder, NextMeetings DEF IInv
<1> QED
  BY <1>1, <1>2, PTL DEF Spec

\* Every variable of the storage keeps its type.
THEOREM TypeCorrect == Spec => []TypeOK
<1>1. IInv => TypeOK
  BY DEF IInv, LockInv
<1> QED
  BY <1>1, InductiveInvariant, PTL

\* The thread that made an entry is alone with it (telemetry_storage.cpp:40-41):
\* its first record needs no entryMutex, with any number of threads.
THEOREM FreshEntryPrivacy == Spec => []FreshEntryIsPrivate
<1>1. IInv => FreshEntryIsPrivate
  BY DEF IInv
<1> QED
  BY <1>1, InductiveInvariant, PTL

\* Threads at uses of one tree that hold entryMutex exclude each other, and so do
\* threads that hold mutex_; nobody joins the maker of a fresh entry.
LEMMA MeetingUsesLemma ==
    ASSUME IInv, NEW t \in Threads, NEW u \in Threads, pc[t] \in Accessors,
           pc[u] \in Accessors, Conflict(Access(u), Access(t)),
           pc[t] # "s_found", pc[u] # "s_found"
    PROVE  FALSE
<1> USE DEF Accessors, Writers, SlowWriters
<1>1. u # t /\ call[u].name = call[t].name /\ (pc[u] \in Writers \/ pc[t] \in Writers)
  BY DEF Conflict, Access
<1>2. pc[t] # "s_fresh" /\ pc[u] # "s_fresh"
  BY <1>1 DEF FreshEntryIsPrivate, IInv
<1>3. pc[t] \in {"s_emplace", "g_read"} /\ pc[u] \in {"s_emplace", "g_read"}
  BY <1>2
<1>4. call[t].name \in Names
  BY <1>3 DEF IInv, LockInv, CallsMatchLabels, StoreLabels, GetLabels, StoreCalls, GetCalls
<1>5. /\ pc[t] = "s_emplace" => t \in entryMutex[call[t].name].excl
      /\ pc[u] = "s_emplace" => u \in entryMutex[call[t].name].excl
      /\ pc[t] = "g_read" => t \in entryMutex[call[t].name].shared
      /\ pc[u] = "g_read" => u \in entryMutex[call[t].name].shared
  BY <1>1, <1>4 DEF IInv, LockInv, LocksMatchScopes
<1> QED
  BY <1>1, <1>3, <1>4, <1>5 DEF IInv, LockInv, LocksExclude, Exclusive

\* A race is with the write of a late creator, now or before.
LEMMA RaceLemma == IInv => RaceNeedsLateCreator
<1> SUFFICES ASSUME IInv, NEW t \in Threads, pc[t] \in Accessors, NEW a \in Races(t),
                    pc[t] # "s_found", a.by # "s_found"
             PROVE  FALSE
  BY DEF RaceNeedsLateCreator
<1>1. a \in unseen[t] \union Current /\ Conflict(a, Access(t))
  BY DEF Races
<1>2. CASE a \in Current
  <2>1. PICK u \in Threads : pc[u] \in Accessors /\ a = Access(u)
    BY <1>2 DEF Current
  <2>2. a.by = pc[u]
    BY <2>1 DEF Access
  <2> QED
    BY <1>1, <2>1, <2>2, MeetingUsesLemma
<1>3. CASE a \in unseen[t]
  <2>1. /\ a.name = call[t].name
        /\ a.by \in Accessors
        /\ a.by \in Writers \/ pc[t] \in Writers
    BY <1>1, <1>3 DEF Conflict, Access, IInv, LockInv, TypeOK, Accesses
  <2>2. /\ pc[t] \in {"s_emplace", "g_read"} => a.by \notin {"s_emplace", "s_fresh"}
        /\ pc[t] = "s_emplace" => a.by # "g_read"
        /\ pc[t] = "s_fresh" => a.by \notin Accessors
    BY <1>3, <2>1 DEF IInv, OrderInv, EntriesAreOrdered, FreshIsOrdered, HasSeen
  <2> QED
    BY <2>1, <2>2 DEF Accessors, Writers, SlowWriters
<1> QED
  BY <1>1, <1>2, <1>3

\* A use of a tree is in a data race only with the slow path's write into an entry
\* that its thread had missed in its lookup, or is that write.
THEOREM RacesAreLateCreations == Spec => []RaceNeedsLateCreator
BY RaceLemma, InductiveInvariant, PTL

-----------------------------------------------------------------------------
(* Settled names *)

\* Who uses the tree of a settled name has seen every write of the slow path.
LEMMA SettledIsUndamaged ==
    ASSUME IInv, NEW n \in Names, Settled(n), NEW t \in Threads, pc[t] \in Accessors,
           call[t].name = n, n \notin broken
    PROVE  ~Undefined(t)
<1> SUFFICES ASSUME NEW a \in Races(t) PROVE FALSE
  BY DEF Undefined
<1>1. \A u \in Threads : pc[u] = "s_found" => call[u].name # n
  BY DEF Settled, SlowWriters, IInv, LockInv, CallsMatchLabels
<1>2. a \in unseen[t] \union Current /\ a.name = n
  BY DEF Races, Conflict, Access
<1>3. a.by = "s_found"
  BY <1>1, RaceLemma DEF RaceNeedsLateCreator
<1>4. a \notin Current
  BY <1>1, <1>2, <1>3 DEF Current, Access
<1>5. pc[t] \in {"s_emplace", "g_read"}
  BY DEF Settled, SlowWriters, Accessors, Writers, IInv, LockInv, CallsMatchLabels
<1>6. HasSeen(unseen[t], n, SlowWriters)
  BY <1>5 DEF Settled, IInv, LockInv, CallsMatchLabels
<1> QED
  BY <1>2, <1>3, <1>4, <1>6 DEF HasSeen, SlowWriters

\* No step brings a late creator back to a settled name: a lookup of it finds it,
\* and who looks it up has seen what was done under mutex_.
LEMMA SettledStep ==
    ASSUME IInv, Next, NEW n \in Names, Settled(n)
    PROVE  Settled(n)' /\ (n \in broken' => n \in broken)
<1> SUFFICES /\ n \in eventEntries'
             /\ n \in broken' => n \in broken
             /\ \A u \in Threads : call'[u] # NoCall /\ call'[u].name = n =>
                    /\ pc'[u] \notin {"s_map", "s_create"} \union SlowWriters
                    /\ pc'[u] \in {"s_entry", "g_entry", "s_emplace", "g_read"} =>
                            HasSeen(unseen'[u], n, SlowWriters)
  BY DEF Settled, HasSeen
<1>1. CASE Ended
  BY <1>1 DEF Ended, vars, calls, order, state, Settled
<1>2. ASSUME NEW t \in Threads, NewCall(t)
      PROVE  /\ n \in eventEntries'
             /\ n \in broken' => n \in broken
             /\ \A u \in Threads : call'[u] # NoCall /\ call'[u].name = n =>
                    /\ pc'[u] \notin {"s_map", "s_create"} \union SlowWriters
                    /\ pc'[u] \in {"s_entry", "g_entry", "s_emplace", "g_read"} =>
                            HasSeen(unseen'[u], n, SlowWriters)
  <2>1. /\ pc'[t] \in {"s_lookup", "g_lookup"}
        /\ \A u \in Threads \ {t} : pc'[u] = pc[u] /\ call'[u] = call[u]
        /\ UNCHANGED <<eventEntries, unseen, broken>>
    BY <1>2 DEF NewCall, CallStore, CallGet, Begin, BeginCall, Goto, order, IInv, LockInv, TypeOK
  <2> QED
    BY <2>1 DEF Settled, SlowWriters
<1>3. ASSUME NEW t \in Threads,
             \/ StoreLookup(t) \/ GetLookup(t) \/ LockEntry(t) \/ LockEntryShared(t)
             \/ LockMap(t) \/ StoreFind(t) \/ GetFind(t) \/ CreateEntry(t)
      PROVE  /\ n \in eventEntries'
             /\ n \in broken' => n \in broken
             /\ \A u \in Threads : call'[u] # NoCall /\ call'[u].name = n =>
                    /\ pc'[u] \notin {"s_map", "s_create"} \union SlowWriters
                    /\ pc'[u] \in {"s_entry", "g_entry", "s_emplace", "g_read"} =>
                            HasSeen(unseen'[u], n, SlowWriters)
  <2>1. /\ UNCHANGED <<call, broken>>
        /\ \A u \in Threads \ {t} : pc'[u] = pc[u] /\ unseen'[u] = unseen[u]
        /\ \A a \in unseen'[t] : a \in unseen[t]
        /\ \A m \in eventEntries : m \in eventEntries'
    BY <1>3 DEF StoreLookup, GetLookup, EnterLookup, LockEntry, LockEntryShared, LockMap,
         StoreFind, GetFind, CreateEntry, LeaveLookup, Goto, state, calls, order, IInv, LockInv,
         TypeOK
  <2>2. \/ pc'[t] \in {"s_find", "g_find"}
        \/ pc[t] \in {"s_find", "g_find"} /\ pc'[t] \in {"s_entry", "g_entry"}
        \/ pc'[t] = "s_map" /\ call[t].name \notin eventEntries
        \/ pc[t] \in {"s_entry", "g_entry"} /\ pc'[t] \in {"s_emplace", "g_read"}
        \/ pc[t] \in {"s_map", "s_create"}
    BY <1>3 DEF StoreLookup, GetLookup, EnterLookup, LockEntry, LockEntryShared, LockMap,
         StoreFind, GetFind, CreateEntry, LeaveLookup, Goto, IInv, LockInv, TypeOK
  <2>3. pc[t] \in {"s_find", "g_find"} => HasSeen(unseen[t], n, SlowWriters)
    BY DEF IInv, OrderInv, MapIsOrdered
  <2> QED
    BY <2>1, <2>2, <2>3 DEF Settled, HasSeen, SlowWriters
<1>4. ASSUME NEW t \in Threads, GetMiss(t)
      PROVE  /\ n \in eventEntries'
             /\ n \in broken' => n \in broken
             /\ \A u \in Threads : call'[u] # NoCall /\ call'[u].name = n =>
                    /\ pc'[u] \notin {"s_map", "s_create"} \union SlowWriters
                    /\ pc'[u] \in {"s_entry", "g_entry", "s_emplace", "g_read"} =>
                            HasSeen(unseen'[u], n, SlowWriters)
  BY <1>4 DEF GetMiss, LeaveLookup, Return, EndCall, Goto, IInv, LockInv, TypeOK, Settled
<1>5. ASSUME NEW t \in Threads, EmplaceInEntry(t) \/ EmplaceUnderMap(t) \/ ReadRange(t)
      PROVE  /\ n \in eventEntries'
             /\ n \in broken' => n \in broken
             /\ \A u \in Threads : call'[u] # NoCall /\ call'[u].name = n =>
                    /\ pc'[u] \notin {"s_map", "s_create"} \union SlowWriters
                    /\ pc'[u] \in {"s_entry", "g_entry", "s_emplace", "g_read"} =>
                            HasSeen(unseen'[u], n, SlowWriters)
  <2>1. /\ eventEntries' = eventEntries
        /\ pc[t] \in Accessors
        /\ pc'[t] = "idle" /\ call'[t] = NoCall
        /\ \A u \in Threads \ {t} : pc'[u] = pc[u] /\ call'[u] = call[u]
        /\ Access(t).name = call[t].name
        /\ Access(t).by = pc[t]
    BY <1>5, UseFrame DEF IInv
  <2>2. \A u \in Threads \ {t} : \A a \in unseen'[u] : a \in unseen[u] \/ a = Access(t)
    BY <1>5, UseOrder DEF IInv
  <2>3. call[t] # NoCall
    BY <2>1 DEF IInv, LockInv, CallsMatchLabels, Accessors, Writers, SlowWriters
  <2>4. ~(call[t].name = n /\ pc[t] \in SlowWriters)
    BY <2>3 DEF Settled
  <2>5. n \in broken' => n \in broken
    BY <1>5, <2>1, SettledIsUndamaged DEF EmplaceInEntry, EmplaceUnderMap, ReadRange,
                                          EmplaceRecord
  <2> QED
    BY <2>1, <2>2, <2>4, <2>5 DEF Settled, HasSeen
<1> QED
  BY <1>1, <1>2, <1>3, <1>4, <1>5 DEF Next, Step

\* Once every thread that missed a name has left the slow path, and every thread
\* that points to its entry has seen their writes, that name's tree is never used
\* in a data race again.
THEOREM SettledSafety == Spec => SettledNamesStaySafe
<1>1. IInv /\ [Next]_vars => [KeepsSettled]_vars
  BY SettledStep DEF KeepsSettled
<1> QED
  BY <1>1, InductiveInvariant, PTL DEF Spec, SettledNamesStaySafe

-----------------------------------------------------------------------------
(* Records and the abstract contract *)

\* Only an emplace changes a tree, and one outside a race only adds to it.
LEMMA KeepsRecordsStep ==
    ASSUME LockInv, [Next]_vars
    PROVE  [KeepsRecords]_vars
<1> USE DEF KeepsRecords
<1>1. CASE UNCHANGED vars \/ Ended
  BY <1>1 DEF vars, state, Ended
<1>2. ASSUME NEW t \in Threads, NewCall(t)
      PROVE  KeepsRecords
  BY <1>2 DEF NewCall, CallStore, CallGet, Begin
<1>3. ASSUME NEW t \in Threads, Step(t)
      PROVE  KeepsRecords
  <2>1. CASE data' = data
    BY <2>1
  <2>2. CASE EmplaceInEntry(t) \/ EmplaceUnderMap(t)
    <3>1. EmplaceRecord(t) /\ call[t] \in StoreCalls
      BY <2>2 DEF EmplaceInEntry, EmplaceUnderMap, SlowWriters, LockInv,
                  CallsMatchLabels, StoreLabels
    <3>2. CASE Undefined(t)
      BY <3>1, <3>2, EmplaceRecordFacts DEF EmplaceRecord, LockInv
    <3>3. CASE ~Undefined(t)
      BY <3>1, <3>3, EmplaceFacts DEF EmplaceRecord, LockInv, TypeOK, StoreCalls
    <3> QED
      BY <3>2, <3>3
  <2> QED
    BY <1>3, <2>1, <2>2 DEF Step, StoreLookup, StoreFind, EnterLookup, LeaveLookup, LockEntry,
       LockMap, CreateEntry, GetLookup, GetMiss, GetFind, LockEntryShared, ReadRange, state
<1> QED
  BY <1>1, <1>2, <1>3 DEF Next

\* A stored record is never changed or lost, unless its tree was in a race.
THEOREM WrittenOnce == Spec => RecordsAreWrittenOnce
<1>1. IInv /\ [Next]_vars => [KeepsRecords]_vars
  BY KeepsRecordsStep DEF IInv
<1> QED
  BY <1>1, InductiveInvariant, PTL DEF Spec, RecordsAreWrittenOnce

\* A call in a race is, or has met, an early store of its name.
LEMMA UndefinedRefines ==
    ASSUME IInv, NEW t \in Threads, Undefined(t), pc[t] \in Accessors
    PROVE  ES!Undefined(t)
<1>1. CASE call[t].name \in broken
  BY <1>1 DEF ES!Undefined
<1>2. ASSUME NEW a \in Races(t)
      PROVE  t \in met
  <2>1. /\ a \in unseen[t] \union Current
        /\ a.name = call[t].name
        /\ a.thread # t
        /\ "s_found" \in {pc[t], a.by}
    BY <1>2, RaceLemma DEF Races, Conflict, Access, RaceNeedsLateCreator
  <2>2. CASE a \in Current
    <3>1. PICK u \in Threads : pc[u] \in Accessors /\ a = Access(u)
      BY <2>2 DEF Current
    <3>2. u # t /\ call[u].name = call[t].name /\ "s_found" \in {pc[t], pc[u]}
      BY <2>1, <3>1 DEF Access
    <3>3. call[u] # NoCall /\ call[t] # NoCall
      BY <3>1 DEF IInv, LockInv, CallsMatchLabels, Accessors, Writers, SlowWriters
    <3>4. t \in early \/ u \in early
      BY <3>2 DEF IInv, MeetingsAreKnown, SlowWriters
    <3> QED
      BY <3>2, <3>3, <3>4 DEF IInv, MeetingsAreKnown
  <2>3. CASE a \in unseen[t] /\ t \notin met
    <3>1. /\ pc[t] \in {"s_emplace", "g_read"} => a.by # "s_found"
          /\ pc[t] = "s_found" => a.by \notin Accessors
          /\ pc[t] = "s_fresh" => a.by \notin Accessors
      BY <2>1, <2>3 DEF IInv, OrderInv, FreshIsOrdered, MeetingsAreKnown, HasSeen
    <3>2. a.by \in Accessors
      BY <2>3 DEF IInv, LockInv, TypeOK, Accesses
    <3> QED
      BY <2>1, <3>1, <3>2 DEF Accessors, Writers, SlowWriters
  <2> QED
    BY <2>1, <2>2, <2>3
<1> QED
  BY <1>1, <1>2 DEF Undefined, ES!Undefined

\* Each of the two emplaces of storeEvent is the instant its call takes effect.
LEMMA EmplaceRefines ==
    ASSUME IInv, NEW t \in Threads, pc[t] \in Writers, EmplaceRecord(t),
           EndCall(t), result' = result
    PROVE  ES!Put(t) \/ ES!PutUndefined(t)
<1>1. call[t] \in StoreCalls
  BY DEF IInv, LockInv, CallsMatchLabels, StoreLabels, Writers, SlowWriters
<1>2. CASE ~Undefined(t)
  BY <1>1, <1>2 DEF EmplaceRecord, Undefined, ES!Put, ES!EndCall, EndCall, ES!StoreCalls,
     StoreCalls, ES!Emplace, Emplace
<1>3. CASE Undefined(t)
  <2>1. ES!Undefined(t)
    BY <1>3, UndefinedRefines DEF Accessors
  <2> QED
    BY <1>1, <1>3, <2>1 DEF EmplaceRecord, ES!PutUndefined, ES!EndCall, EndCall,
       ES!StoreCalls, StoreCalls, ES!Emplace, Emplace, ES!Damaged, Damaged,
       ES!EventMaps, EventMaps
<1> QED
  BY <1>2, <1>3

\* A query answers atomically; without an entry the range is empty.
LEMMA QueryRefines ==
    ASSUME IInv, NEW t \in Threads, GetMiss(t) \/ ReadRange(t)
    PROVE  ES!Answer(t) \/ ES!AnswerUndefined(t)
<1> USE DEF ES!GetCalls, GetCalls, ES!EndCall, EndCall, Return
<1>1. call[t] \in GetCalls
  BY DEF GetMiss, ReadRange, IInv, LockInv, CallsMatchLabels, GetLabels
<1>2. CASE GetMiss(t)
  <2>1. data[call[t].name] = EmptyMap /\ call[t].name \notin broken
    BY <1>1, <1>2 DEF GetMiss, IInv, LockInv, PointersStayValid
  <2>2. InRange(data[call[t].name], call[t].from, call[t].to) = {}
    BY <2>1 DEF InRange, EmptyMap
  <2> QED
    BY <1>1, <1>2, <2>1, <2>2 DEF GetMiss, LeaveLookup, ES!Answer, ES!InRange, InRange
<1>3. CASE ReadRange(t)
  <2>1. CASE ~Undefined(t) /\ ~PastEnd(t)
    BY <1>1, <1>3, <2>1 DEF ReadRange, Undefined, ES!Answer, ES!InRange, InRange
  <2>2. CASE Undefined(t)
    <3>1. ES!Undefined(t)
      BY <1>3, <2>2, UndefinedRefines DEF ReadRange, Accessors
    <3> QED
      BY <1>1, <1>3, <2>2, <3>1 DEF ReadRange, ES!AnswerUndefined, ES!Records, Records
  <2>3. CASE ~Undefined(t) /\ PastEnd(t)
    <3>1. PICK r \in SUBSET Records :
            /\ result' = [result EXCEPT ![t] = r]
            /\ broken' = broken
            /\ up' \in BOOLEAN
      BY <1>3, <2>3 DEF ReadRange
    <3>2. ES!RunsPastEnd(data[call[t].name], call[t].from, call[t].to)
      BY <2>3 DEF PastEnd, RunsPastEnd, ES!RunsPastEnd
    <3> QED
      BY <1>1, <1>3, <2>3, <3>1, <3>2 DEF ReadRange, ES!AnswerUndefined, ES!Records, Records
  <2> QED
    BY <2>1, <2>2, <2>3
<1> QED
  BY <1>2, <1>3

\* A call that begins is an invocation, with the same history.
LEMMA CallRefines ==
    ASSUME NEW t \in Threads, NewCall(t)
    PROVE  \E c \in ES!StoreCalls \union ES!GetCalls : ES!Invoke(t, c)
<1>1. PICK c \in StoreCalls \union GetCalls :
        /\ BeginCall(t, c, data[c.name])
        /\ result' = [result EXCEPT ![t] = {}]
        /\ UNCHANGED <<data, broken, up>>
  BY DEF NewCall, CallStore, CallGet, Begin
<1>2. ES!BeginCall(t, c, data[c.name])
  BY <1>1 DEF BeginCall, ES!BeginCall, StoreCalls, ES!StoreCalls, EmptyMap, ES!EmptyMap
<1>3. c \in ES!StoreCalls \union ES!GetCalls
  BY DEF StoreCalls, GetCalls, ES!StoreCalls, ES!GetCalls
<1> QED
  BY <1>1, <1>2, <1>3 DEF ES!Invoke

\* Invocations, emplaces and answers are steps of the contract, the rest stutter.
LEMMA NextRefines == IInv /\ [Next]_vars => [ES!Next]_(ES!vars)
<1> SUFFICES ASSUME IInv, [Next]_vars PROVE [ES!Next]_(ES!vars)
  OBVIOUS
<1>1. CASE UNCHANGED vars \/ Ended
  BY <1>1 DEF vars, calls, state, Ended, ES!vars
<1>2. ASSUME NEW t \in Threads, NewCall(t)
      PROVE  ES!Next
  <2>1. \E c \in ES!StoreCalls \union ES!GetCalls : ES!Invoke(t, c)
    BY <1>2, CallRefines
  <2> QED BY <1>2, <2>1 DEF NewCall, ES!Next
<1>3. ASSUME NEW t \in Threads, Step(t)
      PROVE  [ES!Next]_(ES!vars)
  <2>1. CASE \/ StoreLookup(t) \/ StoreFind(t) \/ LockEntry(t) \/ LockMap(t)
             \/ CreateEntry(t) \/ GetLookup(t) \/ GetFind(t) \/ LockEntryShared(t)
    BY <2>1 DEF StoreLookup, StoreFind, LockEntry, LockMap, CreateEntry, EnterLookup,
       LeaveLookup, GetLookup, GetFind, LockEntryShared, state, calls, ES!vars
  <2>2. CASE EmplaceInEntry(t) \/ EmplaceUnderMap(t)
    <3>1. ES!Put(t) \/ ES!PutUndefined(t)
      BY <2>2, EmplaceRefines DEF EmplaceInEntry, EmplaceUnderMap, Return, Writers
    <3> QED
      BY <1>3, <3>1 DEF Step, ES!Next
  <2>3. CASE GetMiss(t) \/ ReadRange(t)
    BY <1>3, <2>3, QueryRefines DEF Step, ES!Next
  <2> QED
    BY <1>3, <2>1, <2>2, <2>3 DEF Step
<1> QED
  BY <1>1, <1>2, <1>3 DEF Next

\* storeEvent and getEventInteractions, with all their locking, implement calls
\* that take effect at one instant, with the exceptions EventStore names.
THEOREM Refinement == Spec => ImplementsEventStore
<1>1. Init => ES!Init
  BY DEF Init, ES!Init, ES!EmptyMap, EmptyMap
<1>2. IInv /\ [Next]_vars => [ES!Next]_(ES!vars)
  BY NextRefines
<1> QED
  BY <1>1, <1>2, InductiveInvariant, PTL DEF Spec, ImplementsEventStore, ES!Spec

=============================================================================
