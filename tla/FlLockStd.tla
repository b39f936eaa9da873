----------------------------- MODULE FlLockStd ------------------------------
(***************************************************************************)
(* Fl::lock() and Fl::unlock() of the Posix driver where the system has no *)
(* recursive mutexes: lock_function_std() and unlock_function_std() count  *)
(* the nesting in a plain int and keep the owner in a plain pthread_t,     *)
(* both read without holding fltk_mutex.                                   *)
(*                                                                         *)
(* Every step is one access to a shared variable.  owner and counter are   *)
(* neither atomic nor ordered by a barrier, so the compiler or the         *)
(* processor may make the two stores of lock_function_std() visible in     *)
(* either order (StoreOrders).                                             *)
(***************************************************************************)
EXTENDS Integers, FlThreads

CONSTANTS
  MaxNest,     \* bound on the nesting of Fl::lock() calls
  StoreOrders  \* which of "owner" and "counter" may be stored first

ASSUME LockAssumption ==
  MaxNest \in Nat /\ StoreOrders \subseteq {"owner", "counter"}

VARIABLES
  mutex,     \* who holds fltk_mutex
  owner,     \* the thread that locked it last
  counter,   \* how often the lock is held
  lockPc,    \* thread -> the next access of its call
  holds      \* thread -> its Fl::lock() calls not yet undone

lockVars == <<mutex, owner, counter, lockPc, holds>>

LockInit ==
  /\ mutex = NULL /\ owner = NULL /\ counter = 0
  /\ lockPc = [t \in Threads |-> "idle"]
  /\ holds = [t \in Threads |-> 0]

LockGoto(t, from, to) == lockPc[t] = from /\ lockPc' = [lockPc EXCEPT ![t] = to]

CallLock(t) ==
  /\ holds[t] < MaxNest
  /\ LockGoto(t, "idle", "counter")
  /\ UNCHANGED <<mutex, owner, counter, holds>>

\* if (!counter || ...
ReadCounter(t) ==
  /\ LockGoto(t, "counter", IF counter = 0 THEN "mutex" ELSE "owner")
  /\ UNCHANGED <<mutex, owner, counter, holds>>

\* Mutant: the owner is not compared with the calling thread.
ReadOwnerUnchecked(t) ==
  /\ LockGoto(t, "owner", "count")
  /\ UNCHANGED <<mutex, owner, counter, holds>>

\* Mutant: instead of waiting for the mutex, look again.
ReadOwnerSpins(t) ==
  /\ LockGoto(t, "owner", IF owner = t THEN "count" ELSE "counter")
  /\ UNCHANGED <<mutex, owner, counter, holds>>

\* ... owner != pthread_self())
ReadOwner(t) ==
  /\ LockGoto(t, "owner", IF owner = t THEN "count" ELSE "mutex")
  /\ UNCHANGED <<mutex, owner, counter, holds>>

\* pthread_mutex_lock(&fltk_mutex)
LockMutex(t) ==
  /\ LockGoto(t, "mutex", "own")
  /\ mutex = NULL
  /\ mutex' = t
  /\ UNCHANGED <<owner, counter, holds>>

\* owner = pthread_self(); counter++: the store to the variable v is the one
\* other threads see first.
FirstStore(t, v) ==
  /\ LockGoto(t, "own", IF v = "owner" THEN "count" ELSE "late")
  /\ owner' = IF v = "owner" THEN t ELSE owner
  /\ counter' = IF v = "counter" THEN counter + 1 ELSE counter
  /\ UNCHANGED <<mutex, holds>>

\* The other store, or the counter++ of a thread that is the owner already;
\* lock_function_std() returns.
SecondStore(t) ==
  /\ lockPc[t] \in {"count", "late"} /\ lockPc' = [lockPc EXCEPT ![t] = "idle"]
  /\ owner' = IF lockPc[t] = "late" THEN t ELSE owner
  /\ counter' = IF lockPc[t] = "count" THEN counter + 1 ELSE counter
  /\ holds' = [holds EXCEPT ![t] = @ + 1]
  /\ UNCHANGED mutex

\* Mutant: every Fl::unlock() releases the mutex.
UncountAlwaysReleases(t) ==
  /\ holds[t] > 0
  /\ LockGoto(t, "idle", "release")
  /\ counter' = counter - 1
  /\ holds' = [holds EXCEPT ![t] = @ - 1]
  /\ UNCHANGED <<mutex, owner>>

\* if (!--counter) ...
Uncount(t) ==
  /\ holds[t] > 0
  /\ LockGoto(t, "idle", IF counter - 1 = 0 THEN "release" ELSE "idle")
  /\ counter' = counter - 1
  /\ holds' = [holds EXCEPT ![t] = @ - 1]
  /\ UNCHANGED <<mutex, owner>>

\* pthread_mutex_unlock(&fltk_mutex)
UnlockMutex(t) ==
  /\ LockGoto(t, "release", "idle")
  /\ mutex' = NULL
  /\ UNCHANGED <<owner, counter, holds>>

LockFunctionStep(t) ==
  \/ ReadCounter(t) \/ ReadOwner(t) \/ LockMutex(t)
  \/ (\E v \in StoreOrders : FirstStore(t, v)) \/ SecondStore(t)
UnlockStep(t) == Uncount(t) \/ UnlockMutex(t)

LockNext == \E t \in Threads : CallLock(t) \/ LockFunctionStep(t) \/ UnlockStep(t)

LockStdSpec == LockInit /\ [][LockNext]_lockVars

\* A thread that is inside Fl::lock() or Fl::unlock() goes on, every nesting
\* level a thread entered is left again, and a mutex that is free again and
\* again is obtained.
LockFairSpec ==
  /\ LockStdSpec
  /\ \A t \in Threads :
       /\ WF_lockVars(LockFunctionStep(t) \/ UnlockMutex(t))
       /\ SF_lockVars(LockMutex(t))
       /\ \A n \in 1 .. MaxNest : SF_lockVars(holds[t] = n /\ Uncount(t))
-----------------------------------------------------------------------------
LockTypeOK ==
  /\ mutex \in Threads \union {NULL} /\ owner \in Threads \union {NULL}
  /\ counter \in Nat
  /\ lockPc \in [Threads -> {"idle", "counter", "owner", "mutex", "own", "count",
                             "late", "release"}]
  /\ holds \in [Threads -> Nat]

\* The unlocked reads of counter and owner never let a second thread in: only
\* one thread holds the lock.
MutualExclusion ==
  \A t, u \in Threads : holds[t] > 0 /\ holds[u] > 0 => t = u

\* The shared counter is the nesting of the thread that holds the lock, and
\* that thread holds the mutex: unlocking it as often as it was locked
\* releases the mutex, and no earlier.
CounterIsNesting ==
  \A t \in Threads : holds[t] > 0 => counter = holds[t] /\ mutex = t

\* Every thread that calls Fl::lock() gets the lock.
LockObtained == \A t \in Threads : lockPc[t] = "counter" ~> lockPc[t] = "idle" /\ holds[t] > 0
=============================================================================
