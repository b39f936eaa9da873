---------------------------- MODULE FlAwakeRing -----------------------------
(***************************************************************************)
(* The ring buffer behind Fl::awake(cb, data), Fl::awake_once(cb, data)    *)
(* and the pop loop of the event loop: Fl_System_Driver's                  *)
(* push_awake_handler() and pop_awake_handler() (Fl_lock.cxx), step by     *)
(* step, with the mutex of the Posix driver that is allocated on first use *)
(* (lock_ring() / unlock_ring(), Fl_Posix_System_Driver.cxx).              *)
(*                                                                         *)
(* Every step is one access to state that other threads can see.  A mutex  *)
(* is named after the thread that allocated it: ring_mutex is never reset, *)
(* so a thread allocates at most one.                                      *)
(***************************************************************************)
EXTENDS Integers, Sequences, FlThreads

CONSTANTS
  Handlers,    \* (function, data) pairs
  Size,        \* AWAKE_RING_SIZE, 1024 in the code
  FirstCallAlone  \* TRUE: no call overlaps the one that sets up ring_mutex

ASSUME RingAssumption ==
  /\ Size \in Nat /\ Size >= 2
  /\ NULL \notin Handlers
  /\ FirstCallAlone \in BOOLEAN

Slots == 0 .. Size - 1

VARIABLES
  ringMutex,   \* the pointer ring_mutex: NULL or the mutex's allocator
  locked,      \* mutex -> whether the memory at that mutex reads as locked
  allocated,   \* awake_ring_ # nullptr
  ring,        \* awake_ring_[] and awake_data_[]
  head, tail,  \* awake_ring_head_, awake_ring_tail_
  pc,          \* thread -> where it is in its call
  mx,          \* thread -> the mutex its pthread_mutex_lock() call was given
  func, once,  \* worker -> arguments of its call
  src, dst,    \* worker -> loop variables of the "once" compaction
  ret,         \* worker -> return value of push_awake_handler()
  taken,       \* what pop_awake_handler() last returned, or NULL for -1
  woken,       \* a worker has got past its push, so the event loop may pop
  before       \* history: the ring's contents when a push entered it

mutexVars == <<ringMutex, locked, mx>>
ringVars  == <<allocated, ring, head, tail>>
callVars  == <<func, once, src, dst>>
vars == <<mutexVars, ringVars, callVars, pc, ret, taken, woken, before>>

Wrap(i) == IF i >= Size THEN 0 ELSE i

\* The entries between the tail and the head, oldest first, i - 1 slots behind
\* the tail.
Slot(i)  == IF tail + i - 1 >= Size THEN tail + i - 1 - Size ELSE tail + i - 1
Count    == IF head >= tail THEN head - tail ELSE head - tail + Size
Contents == [i \in 1 .. Count |-> ring[Slot(i)]]

-----------------------------------------------------------------------------
Init ==
  /\ ringMutex = NULL
  /\ locked = [t \in Threads |-> FALSE]
  /\ mx = [t \in Threads |-> NULL]
  /\ allocated = FALSE
  /\ ring = [i \in Slots |-> NULL]
  /\ head = 0 /\ tail = 0
  /\ pc = [t \in Threads |-> "idle"]
  /\ func = [w \in Workers |-> NULL] /\ once = [w \in Workers |-> FALSE]
  /\ src = [w \in Workers |-> 0] /\ dst = [w \in Workers |-> 0]
  /\ ret = [w \in Workers |-> 0]
  /\ taken = NULL
  /\ woken = FALSE
  /\ before = <<>>

Goto(t, from, to) == pc[t] = from /\ pc' = [pc EXCEPT ![t] = to]

\* A program whose first call is made alone, before its other threads make
\* theirs, does not race for ring_mutex.
MutexSettled == ringMutex # NULL /\ \A t \in Threads : pc[t] # "init"
Unraced == FirstCallAlone => MutexSettled \/ \A t \in Threads : pc[t] = "idle"

\* Fl::awake(handler, user_data) or Fl::awake_once(handler, user_data).
CallPush(w, h, o) ==
  /\ Unraced
  /\ Goto(w, "idle", "lock")
  /\ func' = [func EXCEPT ![w] = h]
  /\ once' = [once EXCEPT ![w] = o]
  /\ UNCHANGED <<mutexVars, ringVars, src, dst, ret, taken, woken, before>>

\* thread_awake_cb() runs once the awake pipe was written to, which
\* Fl::awake(handler, data) does after its push.
CallPop ==
  /\ woken
  /\ Goto(Main, "idle", "lock")
  /\ UNCHANGED <<mutexVars, ringVars, callVars, ret, taken, woken, before>>

-----------------------------------------------------------------------------
(* lock_ring(): if (!ring_mutex) { malloc; pthread_mutex_init; } lock      *)

CheckMutex(t) ==
  /\ Goto(t, "lock", IF ringMutex = NULL THEN "malloc" ELSE "acquire")
  /\ mx' = [mx EXCEPT ![t] = ringMutex]
  /\ UNCHANGED <<ringMutex, locked, ringVars, callVars, ret, taken, woken, before>>

\* The memory malloc() returns is not initialized: another thread that
\* already sees the pointer finds it free or taken.
AllocMutex(t) ==
  /\ Goto(t, "malloc", "init")
  /\ ringMutex' = t
  /\ \E garbage \in BOOLEAN : locked' = [locked EXCEPT ![t] = garbage]
  /\ UNCHANGED <<mx, ringVars, callVars, ret, taken, woken, before>>

\* pthread_mutex_init(ring_mutex) and the argument of pthread_mutex_lock()
\* both read the pointer again.
InitMutex(t) ==
  /\ Goto(t, "init", "acquire")
  /\ locked' = [locked EXCEPT ![ringMutex] = FALSE]
  /\ mx' = [mx EXCEPT ![t] = ringMutex]
  /\ UNCHANGED <<ringMutex, ringVars, callVars, ret, taken, woken, before>>

\* Mutant: lock_ring() without the call of pthread_mutex_lock().
AcquireUnlocked(t) ==
  /\ Goto(t, "acquire", IF t = Main THEN "pop" ELSE "enter")
  /\ UNCHANGED <<mutexVars, ringVars, callVars, ret, taken, woken, before>>

Acquire(t) ==
  /\ Goto(t, "acquire", IF t = Main THEN "pop" ELSE "enter")
  /\ ~locked[mx[t]]
  /\ locked' = [locked EXCEPT ![mx[t]] = TRUE]
  /\ UNCHANGED <<ringMutex, mx, ringVars, callVars, ret, taken, woken, before>>

\* f with its value at t, if it has one, set back to v.
Reset(f, t, v) == [x \in DOMAIN f |-> IF x = t THEN v ELSE f[x]]

\* unlock_ring() unlocks whatever ring_mutex points at now; the call returns
\* and its local variables are gone.
Unlock(t) ==
  /\ Goto(t, "unlock", "idle")
  /\ locked' = [locked EXCEPT ![ringMutex] = FALSE]
  /\ mx' = Reset(mx, t, NULL)
  /\ func' = Reset(func, t, NULL) /\ once' = Reset(once, t, FALSE)
  /\ src' = Reset(src, t, 0) /\ dst' = Reset(dst, t, 0)
  /\ woken' = (woken \/ t \in Workers)
  /\ before' = <<>>
  /\ UNCHANGED <<ringMutex, ringVars, ret, taken>>

-----------------------------------------------------------------------------
(* push_awake_handler() between lock_ring() and unlock_ring()              *)

Enter(w) ==
  /\ Goto(w, "enter", IF once[w] THEN "compact" ELSE "store")
  /\ allocated' = TRUE
  /\ head' = IF allocated THEN head ELSE 0
  /\ tail' = IF allocated THEN tail ELSE 0
  /\ src' = [src EXCEPT ![w] = tail']
  /\ dst' = [dst EXCEPT ![w] = tail']
  /\ before' = IF allocated THEN Contents ELSE <<>>
  /\ UNCHANGED <<mutexVars, ring, func, once, ret, taken, woken>>

\* One round of the loop that keeps the entries other than the callback.
CompactStep(w) ==
  /\ pc[w] = "compact" /\ src[w] # head
  /\ IF ring[src[w]] # func[w]
     THEN /\ ring' = [ring EXCEPT ![dst[w]] = ring[src[w]]]
          /\ dst' = [dst EXCEPT ![w] = Wrap(@ + 1)]
     ELSE UNCHANGED <<ring, dst>>
  /\ src' = [src EXCEPT ![w] = Wrap(@ + 1)]
  /\ UNCHANGED <<mutexVars, allocated, head, tail, func, once, pc, ret, taken,
                 woken, before>>

CompactDone(w) ==
  /\ src[w] = head
  /\ Goto(w, "compact", "store")
  /\ head' = dst[w]
  /\ UNCHANGED <<mutexVars, allocated, ring, tail, callVars, ret, taken, woken, before>>

\* Mutant: the next head is not wrapped before it is compared with the tail.
FullNoWrap == head + 1 = tail

Full == Wrap(head + 1) = tail

\* Mutant: the error path of a full ring returns without unlock_ring().
StoreLeaksLock(w) ==
  /\ Goto(w, "store", IF Full THEN "idle" ELSE "publish")
  /\ ret' = [ret EXCEPT ![w] = IF Full THEN -1 ELSE @]
  /\ ring' = IF Full THEN ring ELSE [ring EXCEPT ![head] = func[w]]
  /\ UNCHANGED <<mutexVars, allocated, head, tail, callVars, taken, woken, before>>

Store(w) ==
  /\ IF Full
     THEN /\ Goto(w, "store", "unlock")
          /\ ret' = [ret EXCEPT ![w] = -1]
          /\ UNCHANGED ring
     ELSE /\ Goto(w, "store", "publish")
          /\ ring' = [ring EXCEPT ![head] = func[w]]
          /\ UNCHANGED ret
  /\ UNCHANGED <<mutexVars, allocated, head, tail, callVars, taken, woken, before>>

Publish(w) ==
  /\ Goto(w, "publish", "unlock")
  /\ head' = Wrap(head + 1)
  /\ ret' = [ret EXCEPT ![w] = 0]
  /\ UNCHANGED <<mutexVars, allocated, ring, tail, callVars, taken, woken, before>>

(* pop_awake_handler() between lock_ring() and unlock_ring()               *)
Pop ==
  /\ Goto(Main, "pop", "unlock")
  /\ IF ~allocated \/ head = tail
     THEN taken' = NULL /\ UNCHANGED tail
     ELSE taken' = ring[tail] /\ tail' = Wrap(tail + 1)
  /\ UNCHANGED <<mutexVars, allocated, ring, head, callVars, ret, woken, before>>

-----------------------------------------------------------------------------
LockStep(t) ==
  CheckMutex(t) \/ AllocMutex(t) \/ InitMutex(t) \/ Acquire(t) \/ Unlock(t)

PushStep(w) ==
  Enter(w) \/ CompactStep(w) \/ CompactDone(w) \/ Store(w) \/ Publish(w)

Next ==
  \/ \E w \in Workers, h \in Handlers, o \in BOOLEAN : CallPush(w, h, o)
  \/ CallPop
  \/ \E t \in Threads : LockStep(t)
  \/ \E w \in Workers : PushStep(w)
  \/ Pop

Spec == Init /\ [][Next]_vars

\* Threads do not stop inside a call.
FairSpec ==
  /\ Spec
  /\ \A w \in Workers : WF_vars(LockStep(w) \/ PushStep(w))
  /\ WF_vars(LockStep(Main) \/ Pop)

-----------------------------------------------------------------------------
Held == {"enter", "compact", "store", "publish", "pop", "unlock"}

TypeOK ==
  /\ ringMutex \in Threads \union {NULL}
  /\ locked \in [Threads -> BOOLEAN]
  /\ mx \in [Threads -> Threads \union {NULL}]
  /\ allocated \in BOOLEAN
  /\ ring \in [Slots -> Handlers \union {NULL}]
  /\ head \in Slots /\ tail \in Slots
  /\ pc \in [Threads -> Held \union {"idle", "lock", "malloc", "init", "acquire"}]
  /\ func \in [Workers -> Handlers \union {NULL}] /\ once \in [Workers -> BOOLEAN]
  /\ src \in [Workers -> Slots] /\ dst \in [Workers -> Slots]
  /\ ret \in [Workers -> {0, -1}]
  /\ taken \in Handlers \union {NULL}
  /\ woken \in BOOLEAN

\* At most one thread is between lock_ring() and unlock_ring(): the compaction
\* loop, the slot write and the head update are never interleaved with
\* another push or a pop.
RingExclusive ==
  \A t1, t2 \in Threads : pc[t1] \in Held /\ pc[t2] \in Held => t1 = t2

\* Fl::awake() returning 0 means "the callback was successfully scheduled":
\* when a push publishes the new head, its own callback is the newest entry.
AcceptedIsQueued ==
  [][\A w \in Workers : pc[w] = "publish" /\ pc'[w] = "unlock"
       => Count' > 0 /\ Contents'[Count'] = func[w]]_vars

\* The ring with its mutex implements the atomic FIFO of AwakeQueue; a push
\* takes effect when it publishes the head or finds the ring full.
InPush == \E w \in Workers : pc[w] \in {"compact", "store", "publish"}
Queue == INSTANCE AwakeQueue WITH
           queue <- IF InPush THEN before ELSE Contents,
           Capacity <- Size - 1, None <- NULL
QueueSpec == Queue!Spec

\* No call leaves the mutex locked behind it, its error path included: a
\* locked mutex has a thread inside that will unlock it.
LockReleased ==
  MutexSettled /\ locked[ringMutex] => \E t \in Threads : pc[t] \in Held
=============================================================================
