----------------------------- MODULE SharedMutex -----------------------------
(***************************************************************************)
(* std::shared_mutex as TelemetryStorage uses it: a lock is the set of its *)
(* exclusive holders and the set of its shared holders.  The locks are     *)
(* scoped (std::unique_lock, std::shared_lock), so a holder releases by    *)
(* leaving the scope.  The standard gives no fairness between waiters.     *)
(***************************************************************************)

Unlocked == [excl |-> {}, shared |-> {}]

SharedMutexes(threads) == [excl : SUBSET threads, shared : SUBSET threads]

\* Faulty variant: an exclusive lock that does not wait for shared holders.
CanLockBesideReaders(m) == m.excl = {}

\* Guards: when a lock can be taken.
CanLock(m)       == m.excl = {} /\ m.shared = {}
CanLockShared(m) == m.excl = {}

\* One exclusive holder, or shared holders, never both.
Exclusive(m) ==
    /\ \A t, u \in m.excl : t = u
    /\ m.excl # {} => m.shared = {}

\* The lock after the thread t took it or left the scope that holds it.
Lock(m, t)         == [m EXCEPT !.excl = @ \union {t}]
Unlock(m, t)       == [m EXCEPT !.excl = @ \ {t}]
LockShared(m, t)   == [m EXCEPT !.shared = @ \union {t}]
UnlockShared(m, t) == [m EXCEPT !.shared = @ \ {t}]

-----------------------------------------------------------------------------
(* What a lock orders: leaving the exclusive lock comes before every later     *)
(* taking, leaving a shared one before every later exclusive taking.  A lock's *)
(* order is kept as what it does not order: the accesses that the next shared  *)
(* ("reader") or exclusive ("writer") holder does not learn of by taking it.   *)
LockOrders(accesses) == [reader : SUBSET accesses, writer : SUBSET accesses]
NothingUnseen == [reader |-> {}, writer |-> {}]

\* The order after a holder that has not seen the accesses `unseen' has left.
Released(o, unseen)       == [reader |-> o.reader \intersect unseen,
                              writer |-> o.writer \intersect unseen]
ReleasedShared(o, unseen) == [o EXCEPT !.writer = @ \intersect unseen]

=============================================================================
