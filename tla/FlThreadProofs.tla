--------------------------- MODULE FlThreadProofs ---------------------------
(***************************************************************************)
(* Proofs about the threads of the Posix driver.  The three specifications *)
(* share the threads and no state, and each has its own invariant.         *)
(*                                                                         *)
(* FlAwakeRing, for any set of threads, any set of callbacks and any ring  *)
(* size, in a program whose first call is made alone (FirstCallAlone).     *)
(*                                                                         *)
(* FlLockStd, for any nesting: if the store to owner is seen before the    *)
(* store to counter, the unlocked reads of lock_function_std() are         *)
(* harmless and the functions implement a recursive lock.                  *)
(*                                                                         *)
(* FlAwakePipe, for any number of nested event loops and of descriptors,   *)
(* when the awake pipe is the first descriptor of the event loop: "The     *)
(* main() thread must call Fl::lock() once before any windows are shown"   *)
(* (documentation/src/advanced.dox).                                       *)
(***************************************************************************)
EXTENDS FlAwakeRing, FlLockStd, FlAwakePipe, SequenceLemmas, TLAPS

\* The call that sets up ring_mutex is alone.
SetUpAlone ==
  ~MutexSettled =>
    \A t, u \in Threads : pc[t] # "idle" /\ pc[u] # "idle" => t = u

\* Until there is a mutex, nobody is past the check of the pointer; from then
\* on all threads use that mutex, which is locked exactly while some thread is
\* between lock_ring() and unlock_ring().
OneMutex ==
  /\ ringMutex = NULL => \A t \in Threads : pc[t] \in {"idle", "lock", "malloc"}
  /\ \A t \in Threads : pc[t] = "malloc" => ringMutex = NULL
  /\ \A t \in Threads : pc[t] = "acquire" => mx[t] = ringMutex
  /\ \A t \in Threads : pc[t] \in Held => locked[ringMutex]
  /\ woken => ringMutex # NULL /\ MutexSettled

IInv ==
  /\ FirstCallAlone = TRUE
  /\ TypeOK
  /\ SetUpAlone
  /\ OneMutex
  /\ RingExclusive
  /\ LockReleased

LEMMA WrapInSlots ==
  ASSUME NEW i \in Slots
  PROVE  Wrap(i + 1) \in Slots
  BY RingAssumption, ThreadsAssumption DEF Slots, Wrap

LEMMA IInvInit == FirstCallAlone = TRUE /\ Init => IInv
<1> SUFFICES ASSUME FirstCallAlone = TRUE, Init
             PROVE  IInv
  OBVIOUS
<1>1. ringMutex = NULL /\ woken = FALSE
  BY DEF Init
<1>2. head \in Slots /\ tail \in Slots /\ 0 \in Slots
  BY RingAssumption, ThreadsAssumption DEF Init, Slots
<1>3. TypeOK
  BY <1>1, <1>2 DEF Init, TypeOK, Held, Threads
<1> QED
  BY <1>1, <1>3, RingAssumption, ThreadsAssumption DEF Init, IInv, OneMutex, RingExclusive, Held, Threads,
                                      SetUpAlone, MutexSettled, LockReleased

\* A step of lock_ring() or unlock_ring() keeps the invariant.
LEMMA LockStepInv ==
  ASSUME NEW t \in Threads, IInv, LockStep(t)
  PROVE  IInv'
<1> USE RingAssumption, ThreadsAssumption DEF IInv, OneMutex, RingExclusive, Held, Goto,
                          SetUpAlone, MutexSettled, LockReleased
<1> Main \in Threads
  BY DEF Threads
<1>1. CASE CheckMutex(t)
  <2>1. TypeOK'
    BY <1>1 DEF CheckMutex, TypeOK, ringVars, callVars
  <2> QED
    BY <1>1, <2>1 DEF CheckMutex, TypeOK
<1>2. CASE AllocMutex(t)
  <2>1. TypeOK'
    BY <1>2 DEF AllocMutex, TypeOK, ringVars, callVars
  <2>2. /\ pc[t] = "malloc" /\ pc' = [pc EXCEPT ![t] = "init"]
        /\ ringMutex = NULL /\ ringMutex' = t /\ t # NULL
        /\ woken' = woken /\ woken = FALSE
        /\ pc \in [Threads -> Held \union {"idle", "lock", "malloc", "init", "acquire"}]
    BY <1>2 DEF AllocMutex, TypeOK, Threads
  <2>3. \A u \in Threads : u # t => pc[u] = "idle"
    BY <2>2
  <2>4. pc'[t] = "init" /\ \A u \in Threads : u # t => pc'[u] = "idle"
    BY <2>2, <2>3
  <2>5. SetUpAlone' /\ LockReleased' /\ RingExclusive'
    BY <2>4
  <2>6. OneMutex'
    BY <2>2, <2>4
  <2> QED
    BY <2>1, <2>5, <2>6
<1>3. CASE InitMutex(t)
  <2>1. ringMutex \in Threads
    BY <1>3 DEF InitMutex, TypeOK
  <2>2. TypeOK'
    BY <1>3, <2>1 DEF InitMutex, TypeOK, ringVars, callVars
  <2> QED
    BY <1>3, <2>1, <2>2 DEF InitMutex, TypeOK
<1>4. CASE Acquire(t)
  <2>1. TypeOK'
    BY <1>4 DEF Acquire, TypeOK, ringVars, callVars
  <2> QED
    BY <1>4, <2>1 DEF Acquire, TypeOK
<1>5. CASE Unlock(t)
  <2>1. mx' \in [Threads -> Threads \union {NULL}] /\ \A x \in Threads : x # t => mx'[x] = mx[x]
    <3>1. mx' = Reset(mx, t, NULL)
      BY <1>5 DEF Unlock
    <3>2. mx \in [Threads -> Threads \union {NULL}]
      BY DEF TypeOK
    <3> QED
      BY ONLY <3>1, <3>2 DEF Reset
  <2>2. func' \in [Workers -> Handlers \union {NULL}] /\ once' \in [Workers -> BOOLEAN]
    <3>1. func' = Reset(func, t, NULL) /\ once' = Reset(once, t, FALSE)
      BY <1>5 DEF Unlock
    <3>2. func \in [Workers -> Handlers \union {NULL}] /\ once \in [Workers -> BOOLEAN]
      BY DEF TypeOK
    <3> QED
      BY ONLY <3>1, <3>2 DEF Reset
  <2>3. src' \in [Workers -> Slots] /\ dst' \in [Workers -> Slots]
    <3>1. src' = Reset(src, t, 0) /\ dst' = Reset(dst, t, 0)
      BY <1>5 DEF Unlock
    <3>2. src \in [Workers -> Slots] /\ dst \in [Workers -> Slots] /\ 0 \in Slots
      BY DEF TypeOK, Slots
    <3> QED
      BY ONLY <3>1, <3>2 DEF Reset
  <2>4. TypeOK'
    BY <1>5, <2>1, <2>2, <2>3 DEF Unlock, TypeOK, ringVars
  <2>5. /\ pc[t] = "unlock" /\ pc' = [pc EXCEPT ![t] = "idle"]
        /\ ringMutex' = ringMutex
        /\ pc \in [Threads -> Held \union {"idle", "lock", "malloc", "init", "acquire"}]
    BY <1>5 DEF Unlock, TypeOK
  <2>6. ringMutex \in Threads /\ locked' = [locked EXCEPT ![ringMutex] = FALSE]
    BY <1>5, <2>5 DEF Unlock, TypeOK
  <2>7. \A u \in Threads : u # t => pc'[u] = pc[u] /\ pc[u] \notin Held
    BY <2>5
  <2>8. MutexSettled /\ MutexSettled'
    BY <2>5, <2>6
  <2>9. OneMutex'
    BY <2>1, <2>5, <2>6, <2>7, <2>8
  <2>10. SetUpAlone' /\ RingExclusive' /\ LockReleased'
    BY <2>5, <2>6, <2>7, <2>8, <2>4 DEF TypeOK
  <2> QED
    BY <2>4, <2>9, <2>10
<1> QED
  BY <1>1, <1>2, <1>3, <1>4, <1>5 DEF LockStep

\* A step of a thread that stays between lock_ring() and unlock_ring() does not
\* disturb what is said about the mutex.
LEMMA HeldStepInv ==
  ASSUME NEW t \in Threads, NEW to \in Held, IInv,
         pc[t] \in Held, pc' = [pc EXCEPT ![t] = to],
         UNCHANGED <<ringMutex, locked, mx, woken>>
  PROVE  SetUpAlone' /\ OneMutex' /\ RingExclusive' /\ LockReleased'
<1>1. /\ pc \in [Threads -> Held \union {"idle", "lock", "malloc", "init", "acquire"}]
      /\ pc'[t] = to /\ \A u \in Threads : u # t => pc'[u] = pc[u] /\ pc[u] \notin Held
  BY DEF IInv, TypeOK, RingExclusive
<1>2. MutexSettled /\ MutexSettled'
  BY <1>1 DEF IInv, SetUpAlone, OneMutex, MutexSettled, Held
<1>3. OneMutex'
  BY <1>1, <1>2 DEF IInv, OneMutex, Held
<1> QED
  BY <1>1, <1>2, <1>3 DEF IInv, SetUpAlone, RingExclusive, LockReleased

\* A step of push_awake_handler() under the mutex keeps the invariant.
LEMMA PushStepInv ==
  ASSUME NEW w \in Workers, IInv, PushStep(w)
  PROVE  IInv'
<1> USE RingAssumption, ThreadsAssumption DEF IInv, Goto, mutexVars
<1> w \in Threads
  BY DEF Threads
<1>1. CASE Enter(w)
  <2>1. TypeOK'
    BY <1>1 DEF Enter, TypeOK, Held, Slots
  <2> QED
    BY <1>1, <2>1, HeldStepInv DEF Enter, Held
<1>2. CASE CompactStep(w)
  <2>1. Wrap(src[w] + 1) \in Slots /\ Wrap(dst[w] + 1) \in Slots
    BY WrapInSlots DEF TypeOK
  <2>2. TypeOK'
    BY <1>2, <2>1, HeldStepInv DEF CompactStep, Held, TypeOK
  <2> QED
    BY <1>2, <2>2, HeldStepInv DEF CompactStep, Held, TypeOK
<1>3. CASE CompactDone(w)
  <2>1. TypeOK'
    BY <1>3 DEF CompactDone, TypeOK, Held, callVars
  <2> QED
    BY <1>3, <2>1, HeldStepInv DEF CompactDone, Held
<1>4. CASE Store(w)
  <2>1. TypeOK'
    BY <1>4 DEF Store, TypeOK, Held, callVars
  <2> QED
    BY <1>4, <2>1, HeldStepInv DEF Store, Held
<1>5. CASE Publish(w)
  <2>1. Wrap(head + 1) \in Slots
    BY WrapInSlots DEF TypeOK
  <2>2. TypeOK'
    BY <1>5, <2>1 DEF Publish, TypeOK, Held, callVars
  <2> QED
    BY <1>5, <2>2, HeldStepInv DEF Publish, Held
<1> QED
  BY <1>1, <1>2, <1>3, <1>4, <1>5 DEF PushStep

LEMMA IInvStep == IInv /\ [Next]_vars => IInv'
<1> SUFFICES ASSUME IInv, [Next]_vars
             PROVE  IInv'
  OBVIOUS
<1> USE RingAssumption, ThreadsAssumption DEF IInv, OneMutex, RingExclusive, Held, Goto,
                          SetUpAlone, MutexSettled, LockReleased, Threads
<1>1. ASSUME NEW w \in Workers, NEW h \in Handlers, NEW o \in BOOLEAN, CallPush(w, h, o)
      PROVE  IInv'
  <2>1. TypeOK'
    BY <1>1 DEF CallPush, TypeOK, ringVars, mutexVars
  <2> QED
    BY <1>1, <2>1 DEF CallPush, Unraced, TypeOK, mutexVars
<1>2. CASE CallPop
  <2>1. TypeOK'
    BY <1>2 DEF CallPop, TypeOK, ringVars, mutexVars, callVars
  <2> QED
    BY <1>2, <2>1 DEF CallPop, TypeOK, mutexVars
<1>3. CASE Pop
  <2>1. Wrap(tail + 1) \in Slots
    BY WrapInSlots DEF TypeOK
  <2>2. TypeOK'
    BY <1>3, <2>1 DEF Pop, TypeOK, Held, mutexVars, callVars
  <2> QED
    BY <1>3, <2>2, HeldStepInv DEF Pop, Held, mutexVars
<1>4. CASE UNCHANGED vars
  BY <1>4 DEF vars, TypeOK, mutexVars, ringVars, callVars
<1> QED
  BY <1>1, <1>2, <1>3, <1>4, LockStepInv, PushStepInv DEF Next

\* For any number of threads and any ring size, if the first call is made alone,
\* the indices stay in the ring and every variable in its type.
THEOREM TypeCorrect == FirstCallAlone = TRUE /\ Spec => []TypeOK
<1>1. IInv => TypeOK
  BY DEF IInv
<1> QED
  BY IInvInit, IInvStep, <1>1, PTL DEF Spec

\* For any number of threads, if the first call is made alone, a push, its
\* compaction loop included, and a pop are never interleaved.
THEOREM Exclusion == FirstCallAlone = TRUE /\ Spec => []RingExclusive
<1>1. IInv => RingExclusive
  BY DEF IInv
<1> QED
  BY IInvInit, IInvStep, <1>1, PTL DEF Spec

\* For any number of threads, if the first call is made alone, the mutex is never
\* left locked by a call that has returned.
THEOREM Released == FirstCallAlone = TRUE /\ Spec => []LockReleased
<1>1. IInv => LockReleased
  BY DEF IInv
<1> QED
  BY IInvInit, IInvStep, <1>1, PTL DEF Spec
-----------------------------------------------------------------------------
(* The ring as a queue.  Positions are counted from the tail: At() is the  *)
(* slot of the i-th entry, From() the number of entries before a slot.     *)

At(t, i)   == IF t + i - 1 >= Size THEN t + i - 1 - Size ELSE t + i - 1
From(t, p) == IF p >= t THEN p - t ELSE p - t + Size
Entries(r, t, n) == [i \in 1 .. n |-> r[At(t, i)]]

LEMMA AtFrom ==
  ASSUME NEW t \in Slots
  PROVE  /\ \A i \in 1 .. Size : At(t, i) \in Slots /\ From(t, At(t, i)) = i - 1
         /\ \A p \in Slots : From(t, p) \in 0 .. Size - 1 /\ At(t, From(t, p) + 1) = p
         /\ From(t, t) = 0
  BY RingAssumption DEF Slots, At, From

LEMMA AtInjective ==
  ASSUME NEW t \in Slots, NEW i \in 1 .. Size, NEW j \in 1 .. Size, At(t, i) = At(t, j)
  PROVE  i = j
  BY RingAssumption DEF Slots, At

LEMMA FromNext ==
  ASSUME NEW t \in Slots, NEW p \in Slots, Wrap(p + 1) # t
  PROVE  From(t, Wrap(p + 1)) = From(t, p) + 1 /\ From(t, p) < Size - 1
  BY RingAssumption DEF Slots, From, Wrap

LEMMA FromLast ==
  ASSUME NEW t \in Slots, NEW p \in Slots
  PROVE  Wrap(p + 1) = t <=> From(t, p) = Size - 1
  BY RingAssumption DEF Slots, From, Wrap

LEMMA NextTail ==
  ASSUME NEW t \in Slots, NEW h \in Slots, h # t
  PROVE  /\ From(Wrap(t + 1), h) = From(t, h) - 1 /\ From(t, h) > 0 /\ At(t, 1) = t
         /\ \A i \in 1 .. Size - 1 : At(Wrap(t + 1), i) = At(t, i + 1)
  BY RingAssumption DEF Slots, From, Wrap, At

LEMMA ContentsAre ==
  /\ Count = From(tail, head) /\ Contents = Entries(ring, tail, From(tail, head))
  /\ Count' = From(tail', head') /\ Contents' = Entries(ring', tail', From(tail', head'))
  BY DEF Count, Contents, Slot, From, Entries, At

\* What the slots hold is all that counts.
LEMMA EntriesSeq ==
  ASSUME NEW X, NEW r, NEW t, NEW n \in Nat, \A i \in 1 .. n : r[At(t, i)] \in X
  PROVE  Entries(r, t, n) \in Seq(X) /\ Len(Entries(r, t, n)) = n
<1> DEFINE e == Entries(r, t, n)
<1>1. DOMAIN e = 1 .. n /\ e = [i \in DOMAIN e |-> e[i]] /\ \A i \in 1 .. n : e[i] \in X
  BY DEF Entries
<1> QED
  BY <1>1, FunctionIsSeq

LEMMA EntriesAre ==
  ASSUME NEW X, NEW s \in Seq(X), NEW r, NEW t, NEW n \in Nat, Len(s) = n,
         \A i \in 1 .. n : r[At(t, i)] = s[i]
  PROVE  Entries(r, t, n) = s
<1>1. \A i \in 1 .. n : r[At(t, i)] \in X
  OBVIOUS
<1>2. Entries(r, t, n) \in Seq(X) /\ Len(Entries(r, t, n)) = n
  BY <1>1, EntriesSeq
<1>3. \A i \in 1 .. n : Entries(r, t, n)[i] = s[i]
  BY DEF Entries
<1> QED
  BY <1>2, <1>3, SeqEqual

-----------------------------------------------------------------------------
\* The compaction loop of awake_once() over the entries b: it has read up to
\* the slot a and stored what it keeps, the callbacks in S, up to the slot d.
Compacted(r, t, h, b, S, a, d) ==
  LET k == Kept(SubSeq(b, 1, From(t, a)), S)
  IN  /\ From(t, a) <= From(t, h)
      /\ From(t, d) = Len(k)
      /\ \A i \in 1 .. Len(k) : r[At(t, i)] = k[i]
      /\ \A i \in From(t, a) + 1 .. From(t, h) : r[At(t, i)] = b[i]

LEMMA CompactBegin ==
  ASSUME NEW t \in Slots, NEW h \in Slots, NEW r, NEW S, NEW X, NEW b \in Seq(X),
         Len(b) = From(t, h), \A i \in 1 .. From(t, h) : r[At(t, i)] = b[i]
  PROVE  Compacted(r, t, h, b, S, t, t)
<1>1. SubSeq(b, 1, 0) = <<>>
  OBVIOUS
<1>2. Kept(SubSeq(b, 1, From(t, t)), S) = <<>>
  BY <1>1, AtFrom, KeptNone
<1>3. From(t, t) = 0 /\ From(t, h) \in Nat
  BY AtFrom
<1> QED
  BY <1>2, <1>3 DEF Compacted

LEMMA CompactRound ==
  ASSUME NEW t \in Slots, NEW h \in Slots, NEW a \in Slots, NEW d \in Slots, a # h,
         NEW Y, NEW r \in [Slots -> Y], NEW S, NEW X, NEW b \in Seq(X),
         Len(b) = From(t, h), Compacted(r, t, h, b, S, a, d)
  PROVE  /\ r[a] \in X
         /\ r[a] \in S => Compacted([r EXCEPT ![d] = r[a]], t, h, b, S, Wrap(a + 1), Wrap(d + 1))
         /\ r[a] \notin S => Compacted(r, t, h, b, S, Wrap(a + 1), d)
<1> DEFINE s == From(t, a)
           n == From(t, h)
           p == SubSeq(b, 1, s)
           q == SubSeq(b, 1, s + 1)
           k == Kept(p, S)
           j == Kept(q, S)
<1>1. /\ s \in 0 .. Size - 1 /\ n \in 0 .. Size - 1 /\ Size \in Nat
      /\ At(t, s + 1) = a /\ At(t, n + 1) = h /\ s <= n
  BY AtFrom, RingAssumption DEF Compacted
<1>2. s < n
  BY <1>1
<1>3. From(t, Wrap(a + 1)) = s + 1
  <2>1. Wrap(a + 1) # t
    BY <1>1, <1>2, FromLast
  <2> QED
    BY <2>1, FromNext
<1>4. r[a] = b[s + 1] /\ b[s + 1] \in X
  BY <1>1, <1>2 DEF Compacted
<1>5. p \in Seq(X) /\ q \in Seq(X) /\ Len(p) = s /\ q = Append(p, b[s + 1])
  <2>1. p \in Seq(X) /\ Len(p) = s /\ \A i \in 1 .. s : p[i] = b[i]
    BY <1>1, <1>2, Part
  <2>2. q \in Seq(X) /\ Len(q) = s + 1 /\ \A i \in 1 .. s + 1 : q[i] = b[i]
    BY <1>1, <1>2, Part
  <2>3. Append(p, b[s + 1]) \in Seq(X) /\ Len(Append(p, b[s + 1])) = s + 1
        /\ \A i \in 1 .. s + 1 : Append(p, b[s + 1])[i] = b[i]
    BY <1>1, <1>4, <2>1
  <2> QED
    BY <2>1, <2>2, <2>3, SeqEqual
<1>6. /\ r[a] \in S => j = Append(k, r[a])
      /\ r[a] \notin S => j = k
  <2> HIDE DEF p, q
  <2>1. /\ b[s + 1] \in S => Kept(Append(p, b[s + 1]), S) = Append(Kept(p, S), b[s + 1])
        /\ b[s + 1] \notin S => Kept(Append(p, b[s + 1]), S) = Kept(p, S)
    BY <1>4, <1>5, KeptAppend
  <2> QED
    BY <1>4, <1>5, <2>1
<1>7. k \in Seq(X) /\ Len(k) \in Nat /\ Len(k) <= s
  <2> HIDE DEF p
  <2>1. Kept(p, S) \in Seq(X) /\ Len(Kept(p, S)) <= Len(p)
    BY <1>5, KeptType, KeptInOrder
  <2> QED
    BY <1>5, <2>1
<1>8. /\ From(t, d) = Len(k) /\ \A i \in 1 .. Len(k) : r[At(t, i)] = k[i]
      /\ \A i \in s + 1 .. n : r[At(t, i)] = b[i]
  BY DEF Compacted
<1>9. ASSUME NEW u, NEW e
      PROVE  Compacted(u, t, h, b, S, Wrap(a + 1), e) <=>
               /\ s + 1 <= n /\ From(t, e) = Len(j)
               /\ \A i \in 1 .. Len(j) : u[At(t, i)] = j[i]
               /\ \A i \in s + 1 + 1 .. n : u[At(t, i)] = b[i]
  BY <1>3 DEF Compacted
<1> HIDE DEF s, n, p, q, k, j
<1>10. CASE r[a] \notin S
  BY <1>1, <1>2, <1>4, <1>6, <1>8, <1>9, <1>10
<1>11. CASE r[a] \in S
  <2> DEFINE u == [r EXCEPT ![d] = r[a]]
  <2>1. d = At(t, Len(k) + 1)
    <3>1. At(t, From(t, d) + 1) = d
      BY AtFrom
    <3> QED
      BY <1>8, <3>1
  <2>2. \A i \in 1 .. Size : i # Len(k) + 1 => u[At(t, i)] = r[At(t, i)]
    <3>1. Len(k) + 1 \in 1 .. Size
      BY <1>1, <1>2, <1>7
    <3>2. ASSUME NEW i \in 1 .. Size, i # Len(k) + 1
          PROVE  At(t, i) \in Slots /\ At(t, i) # d
      BY <2>1, <3>1, <3>2, AtInjective, AtFrom
    <3> QED
      BY <3>2
  <2>3. u[At(t, Len(k) + 1)] = r[a]
    BY <2>1
  <2>4. From(t, Wrap(d + 1)) = Len(k) + 1
    <3>1. Wrap(d + 1) # t
      BY <1>1, <1>2, <1>7, <1>8, FromLast
    <3> QED
      BY <1>8, <3>1, FromNext
  <2>5. /\ j = Append(k, r[a]) /\ Len(j) = Len(k) + 1 /\ j[Len(k) + 1] = r[a]
        /\ \A i \in 1 .. Len(k) : j[i] = k[i]
    <3>1. j = Append(k, r[a]) /\ k \in Seq(X) /\ r[a] \in X
      BY <1>4, <1>6, <1>7, <1>11
    <3> QED
      BY ONLY <3>1
  <2> HIDE DEF u
  <2>6. ASSUME NEW i \in 1 .. Len(j)
        PROVE  u[At(t, i)] = j[i]
    <3>1. CASE i = Len(k) + 1
      BY <2>3, <2>5, <3>1
    <3>2. CASE i # Len(k) + 1
      <4>1. i \in 1 .. Len(k) /\ i \in 1 .. Size
        BY <1>1, <1>2, <1>7, <2>5, <3>2
      <4> QED
        BY <1>8, <2>2, <2>5, <3>2, <4>1
    <3> QED
      BY <3>1, <3>2
  <2>7. ASSUME NEW i \in s + 1 + 1 .. n
        PROVE  u[At(t, i)] = b[i]
    <3>1. i \in 1 .. Size /\ i # Len(k) + 1 /\ i \in s + 1 .. n
      BY <1>1, <1>2, <1>7
    <3> QED
      BY <1>8, <2>2, <3>1
  <2>8. Compacted(u, t, h, b, S, Wrap(a + 1), Wrap(d + 1))
    BY <1>1, <1>2, <1>9, <2>4, <2>5, <2>6, <2>7
  <2> QED
    BY <1>4, <1>11, <2>8 DEF u
<1> QED
  BY <1>10, <1>11

LEMMA CompactEnd ==
  ASSUME NEW t \in Slots, NEW h \in Slots, NEW d \in Slots, NEW r, NEW S,
         NEW X, NEW b \in Seq(X), Len(b) = From(t, h), Compacted(r, t, h, b, S, h, d)
  PROVE  Entries(r, t, From(t, d)) = Kept(b, S)
<1>1. From(t, h) \in Nat
  BY AtFrom
<1>2. SubSeq(b, 1, From(t, h)) = b
  <2> DEFINE c == SubSeq(b, 1, Len(b))
  <2>1. c \in Seq(X) /\ Len(c) = Len(b) /\ \A i \in 1 .. Len(b) : c[i] = b[i]
    BY <1>1, Part
  <2> QED
    BY <2>1, SeqEqual
<1>3. Kept(b, S) \in Seq(X) /\ Len(Kept(b, S)) \in Nat
  BY KeptType
<1>4. /\ From(t, d) = Len(Kept(b, S))
      /\ \A i \in 1 .. Len(Kept(b, S)) : r[At(t, i)] = Kept(b, S)[i]
  BY <1>2 DEF Compacted
<1> QED
  BY <1>3, <1>4, EntriesAre

-----------------------------------------------------------------------------
\* The callbacks that a push of w keeps when it is awake_once(), and the
\* entries behind which it stores its own.
Others(w) == Handlers \ {func[w]}
Start(w)  == IF once[w] THEN Kept(before, Others(w)) ELSE before

Pushing == {"compact", "store", "publish"}

\* Outside of a push the ring holds callbacks.  During one, before holds what
\* it held, the compaction loop is on its way through that, and behind the
\* loop the ring holds exactly what the callback is appended to.
QInv ==
  /\ ~allocated => head = 0 /\ tail = 0 /\ ~InPush
  /\ \A w \in Workers : pc[w] # "idle" => func[w] \in Handlers
  /\ ~InPush => Contents \in Seq(Handlers)
  /\ InPush => before \in Seq(Handlers) /\ Len(before) <= Size - 1
  /\ \A w \in Workers : pc[w] = "compact" =>
       /\ once[w] /\ Len(before) = From(tail, head)
       /\ Compacted(ring, tail, head, before, Others(w), src[w], dst[w])
  /\ \A w \in Workers : pc[w] \in {"store", "publish"} => Contents = Start(w)
  /\ \A w \in Workers : pc[w] = "publish" => ~Full /\ ring[head] = func[w]

\* The queue that the ring stands for.
Queued == IF InPush THEN before ELSE Contents

LEMMA QueuedKept ==
  ASSUME Queued' = Queued, ret' = ret, taken' = taken
  PROVE  UNCHANGED Queue!absVars
  BY DEF Queue!absVars, Queued

LEMMA InitIsQueue == Init => QInv /\ Queue!Init
<1> SUFFICES ASSUME Init
             PROVE  QInv /\ Queue!Init
  OBVIOUS
<1>1. Workers \subseteq Threads /\ head = 0 /\ tail = 0
      /\ \A w \in Workers : pc[w] = "idle"
  BY DEF Init, Threads
<1>2. ~InPush
  BY <1>1 DEF InPush
<1>3. Contents = <<>>
  <2>1. Contents = [i \in 1 .. 0 |-> ring[Slot(i)]]
    BY <1>1 DEF Contents, Count
  <2> QED
    BY <2>1
<1> QED
  BY <1>1, <1>2, <1>3 DEF QInv, Queue!Init, Init

\* Calls, and steps of lock_ring(), leave the ring alone.
LEMMA QuietStep ==
  ASSUME IInv, QInv, NEW t \in Threads, NEW to, pc' = [pc EXCEPT ![t] = to],
         pc[t] \notin Pushing, to \notin Pushing, to # "idle",
         UNCHANGED <<ringVars, src, dst, ret, taken, before>>,
         \A w \in Workers : (w # t => func'[w] = func[w] /\ once'[w] = once[w])
                            /\ (w = t => func'[w] \in Handlers)
  PROVE  QInv' /\ UNCHANGED Queue!absVars
<1>1. /\ ring' = ring /\ head' = head /\ tail' = tail /\ allocated' = allocated
      /\ Workers \subseteq Threads /\ DOMAIN pc = Threads
  BY DEF ringVars, Threads, IInv, TypeOK
<1>2. /\ pc'[t] = to
      /\ \A w \in Workers : w # t => pc'[w] = pc[w]
  BY <1>1
<1>3. InPush' <=> InPush
  BY <1>2 DEF InPush, Pushing
<1>4. Contents' = Contents /\ (Full' <=> Full)
  BY <1>1 DEF Contents, Count, Slot, Full
<1>5. \A w \in Workers : pc'[w] \in Pushing =>
        pc'[w] = pc[w] /\ func'[w] = func[w] /\ once'[w] = once[w]
  BY <1>2
<1>6. \A w \in Workers : pc'[w] \in Pushing => Start(w)' = Start(w) /\ Others(w)' = Others(w)
  BY <1>5 DEF Start, Others
<1>7. \A w \in Workers : pc'[w] # "idle" => func'[w] \in Handlers
  BY <1>2 DEF QInv
<1>8. QInv'
  BY <1>1, <1>3, <1>4, <1>5, <1>6, <1>7 DEF QInv, Pushing
<1> QED
  BY <1>3, <1>4, <1>8, QueuedKept DEF Queued

LEMMA Alone ==
  ASSUME IInv, NEW t \in Threads, pc[t] \in Held
  PROVE  \A w \in Workers : w # t => pc[w] \notin Held
  BY DEF IInv, RingExclusive, Threads

LEMMA UnlockQueue ==
  ASSUME IInv, QInv, NEW t \in Threads, Unlock(t)
  PROVE  QInv' /\ UNCHANGED Queue!absVars
<1>1. /\ ring' = ring /\ head' = head /\ tail' = tail /\ allocated' = allocated
      /\ ret' = ret /\ taken' = taken
      /\ Workers \subseteq Threads /\ DOMAIN pc = Threads /\ DOMAIN func = Workers
      /\ pc[t] = "unlock" /\ pc' = [pc EXCEPT ![t] = "idle"]
      /\ func' = Reset(func, t, NULL)
  BY DEF ringVars, Threads, IInv, TypeOK, Unlock, Goto
<1>2. \A w \in Workers : pc[w] \notin Pushing /\ pc'[w] \notin Pushing
  BY <1>1, Alone DEF Pushing, Held
<1>3. ~InPush /\ ~InPush'
  BY <1>2 DEF InPush, Pushing
<1>4. Contents' = Contents
  BY <1>1 DEF Contents, Count, Slot
<1>5. \A w \in Workers : pc'[w] # "idle" => func'[w] \in Handlers
  BY <1>1 DEF QInv, Reset
<1>6. QInv'
  BY <1>1, <1>2, <1>3, <1>4, <1>5 DEF QInv, Pushing
<1> QED
  BY <1>1, <1>3, <1>4, <1>6, QueuedKept DEF Queued

-----------------------------------------------------------------------------
(* push_awake_handler() and pop_awake_handler()                            *)

\* What the steps under the mutex have in common.
LEMMA Inside ==
  ASSUME IInv, NEW t \in Threads, NEW to, pc[t] \in Held, pc' = [pc EXCEPT ![t] = to]
  PROVE  /\ pc'[t] = to
         /\ \A w \in Workers : w # t => pc[w] \notin Pushing /\ pc'[w] = pc[w]
         /\ t \in Workers => (InPush <=> pc[t] \in Pushing) /\ (InPush' <=> to \in Pushing)
         /\ t = Main => ~InPush /\ ~InPush'
<1>1. DOMAIN pc = Threads /\ Workers \subseteq Threads /\ Main \notin Workers
  BY ThreadsAssumption DEF IInv, TypeOK, Threads
<1>2. \A w \in Workers : w # t => pc[w] \notin Held
  BY Alone
<1> QED
  BY <1>1, <1>2 DEF InPush, Pushing, Held

LEMMA EnterQueue ==
  ASSUME IInv, QInv, NEW w \in Workers, Enter(w)
  PROVE  QInv' /\ UNCHANGED Queue!absVars
<1> DEFINE to == IF once[w] THEN "compact" ELSE "store"
<1>1. /\ ring' = ring /\ allocated' = TRUE /\ ret' = ret /\ taken' = taken
      /\ func' = func /\ once' = once
      /\ w \in Threads /\ pc[w] = "enter" /\ pc' = [pc EXCEPT ![w] = to]
      /\ head' = (IF allocated THEN head ELSE 0) /\ tail' = (IF allocated THEN tail ELSE 0)
      /\ src' = [src EXCEPT ![w] = tail'] /\ dst' = [dst EXCEPT ![w] = tail']
      /\ before' = IF allocated THEN Contents ELSE <<>>
  BY DEF Enter, Goto, Threads
<1>2. head' = head /\ tail' = tail /\ head \in Slots /\ tail \in Slots
      /\ src'[w] = tail /\ dst'[w] = tail
  BY <1>1 DEF QInv, IInv, TypeOK
<1>3. /\ pc'[w] = to /\ ~InPush /\ InPush'
      /\ \A v \in Workers : v # w => pc'[v] = pc[v] /\ pc'[v] \notin Pushing
  BY <1>1, Inside DEF Held, Pushing
<1>4. Contents' = Contents /\ Contents \in Seq(Handlers)
  BY <1>1, <1>2, <1>3 DEF Contents, Count, Slot, QInv
<1>5. From(tail, head) \in 0 .. Size - 1
  BY <1>2, AtFrom
<1>6. Len(Contents) = From(tail, head)
      /\ \A i \in 1 .. From(tail, head) : Contents[i] = ring[At(tail, i)]
  <2>1. Contents = Entries(ring, tail, From(tail, head))
    BY ContentsAre
  <2>2. DOMAIN Contents = 1 .. From(tail, head)
    BY <2>1 DEF Entries
  <2>3. DOMAIN Contents = 1 .. Len(Contents) /\ Len(Contents) \in Nat
    BY <1>4
  <2>4. Len(Contents) = From(tail, head)
    BY <1>5, <2>2, <2>3
  <2> QED
    BY <2>1, <2>4 DEF Entries
<1>7. before' = Contents
  <2>1. CASE allocated
    BY <1>1, <2>1
  <2>2. CASE ~allocated
    <3>1. From(tail, head) = 0
      BY <2>2 DEF QInv, From
    <3> QED
      BY <1>1, <1>4, <1>6, <2>2, <3>1
  <2> QED
    BY <2>1, <2>2
<1>8. ASSUME once[w]
      PROVE  Compacted(ring', tail', head', before', Others(w)', src'[w], dst'[w])
  BY <1>1, <1>2, <1>4, <1>6, <1>7, CompactBegin
<1>9. ASSUME ~once[w]
      PROVE  Contents' = Start(w)'
  BY <1>1, <1>4, <1>7, <1>9 DEF Start
<1>10. QInv'
  <2>1. \A v \in Workers : pc'[v] # "idle" => func'[v] \in Handlers
    BY <1>1, <1>3 DEF QInv
  <2>2. before' \in Seq(Handlers) /\ Len(before') <= Size - 1
    BY <1>4, <1>5, <1>6, <1>7
  <2>3. ASSUME NEW v \in Workers, pc'[v] = "compact"
        PROVE  /\ once'[v] /\ Len(before') = From(tail', head')
               /\ Compacted(ring', tail', head', before', Others(v)', src'[v], dst'[v])
    <3>1. v = w /\ once[w]
      BY <1>3, <2>3 DEF Pushing
    <3> QED
      BY <1>1, <1>2, <1>6, <1>7, <1>8, <3>1
  <2>4. ASSUME NEW v \in Workers, pc'[v] \in {"store", "publish"}
        PROVE  v = w /\ ~once[w] /\ pc'[v] = "store"
    BY <1>3, <2>4 DEF Pushing
  <2> QED
    BY <1>1, <1>3, <1>9, <2>1, <2>2, <2>3, <2>4 DEF QInv
<1> QED
  BY <1>1, <1>3, <1>7, <1>10, QueuedKept DEF Queued

LEMMA CompactStepQueue ==
  ASSUME IInv, QInv, NEW w \in Workers, CompactStep(w)
  PROVE  QInv' /\ UNCHANGED Queue!absVars
<1>1. /\ pc[w] = "compact" /\ src[w] # head /\ pc' = pc
      /\ head' = head /\ tail' = tail /\ allocated' = allocated /\ before' = before
      /\ func' = func /\ once' = once /\ ret' = ret /\ taken' = taken
      /\ IF ring[src[w]] # func[w]
         THEN /\ ring' = [ring EXCEPT ![dst[w]] = ring[src[w]]]
              /\ dst' = [dst EXCEPT ![w] = Wrap(dst[w] + 1)]
         ELSE ring' = ring /\ dst' = dst
      /\ src' = [src EXCEPT ![w] = Wrap(src[w] + 1)]
  BY DEF CompactStep
<1>2. /\ ring \in [Slots -> Handlers \union {NULL}] /\ head \in Slots /\ tail \in Slots
      /\ src \in [Workers -> Slots] /\ dst \in [Workers -> Slots]
  BY DEF IInv, TypeOK
<1>3. \A v \in Workers : v # w => pc[v] \notin Pushing
  BY <1>1, Alone DEF Held, Pushing, Threads
<1>4. InPush /\ InPush'
  BY <1>1 DEF InPush
<1>5. /\ once[w] /\ Len(before) = From(tail, head) /\ before \in Seq(Handlers)
      /\ Compacted(ring, tail, head, before, Others(w), src[w], dst[w])
  BY <1>1, <1>4 DEF QInv
<1>6. src'[w] = Wrap(src[w] + 1)
      /\ dst'[w] = IF ring[src[w]] # func[w] THEN Wrap(dst[w] + 1) ELSE dst[w]
  BY <1>1, <1>2
<1>7. /\ ring[src[w]] \in Handlers
      /\ ring[src[w]] \in Others(w) =>
           Compacted([ring EXCEPT ![dst[w]] = ring[src[w]]], tail, head, before, Others(w),
                     Wrap(src[w] + 1), Wrap(dst[w] + 1))
      /\ ring[src[w]] \notin Others(w) =>
           Compacted(ring, tail, head, before, Others(w), Wrap(src[w] + 1), dst[w])
  BY <1>1, <1>2, <1>5, CompactRound
<1>8. Others(w)' = Others(w) /\ (ring[src[w]] \in Others(w) <=> ring[src[w]] # func[w])
  BY <1>1, <1>7 DEF Others
<1>9. Compacted(ring', tail', head', before', Others(w)', src'[w], dst'[w])
  <2>1. CASE ring[src[w]] # func[w]
    BY <1>1, <1>6, <1>7, <1>8, <2>1
  <2>2. CASE ring[src[w]] = func[w]
    BY <1>1, <1>6, <1>7, <1>8, <2>2
  <2> QED
    BY <2>1, <2>2
<1>10. QInv'
  <2>1. \A v \in Workers : pc'[v] # "idle" => func'[v] \in Handlers
    BY <1>1 DEF QInv
  <2>2. before' \in Seq(Handlers) /\ Len(before') <= Size - 1
    BY <1>1, <1>4 DEF QInv
  <2>3. ASSUME NEW v \in Workers, pc'[v] \in Pushing
        PROVE  v = w /\ pc'[v] = "compact"
    BY <1>1, <1>3, <2>3
  <2>4. allocated'
    BY <1>1, <1>4 DEF QInv
  <2> QED
    BY <1>1, <1>4, <1>5, <1>9, <2>1, <2>2, <2>3, <2>4 DEF QInv, Pushing
<1> QED
  BY <1>1, <1>4, <1>10, QueuedKept DEF Queued

LEMMA CompactDoneQueue ==
  ASSUME IInv, QInv, NEW w \in Workers, CompactDone(w)
  PROVE  QInv' /\ UNCHANGED Queue!absVars
<1>1. /\ pc[w] = "compact" /\ src[w] = head /\ pc' = [pc EXCEPT ![w] = "store"]
      /\ head' = dst[w] /\ tail' = tail /\ allocated' = allocated /\ before' = before
      /\ func' = func /\ once' = once /\ ret' = ret /\ taken' = taken /\ ring' = ring
      /\ w \in Threads
  BY DEF CompactDone, Goto, callVars, Threads
<1>2. head \in Slots /\ tail \in Slots /\ dst[w] \in Slots
  BY DEF IInv, TypeOK
<1>3. /\ pc'[w] = "store" /\ InPush /\ InPush'
      /\ \A v \in Workers : v # w => pc'[v] = pc[v] /\ pc'[v] \notin Pushing
  BY <1>1, Inside DEF Held, Pushing
<1>4. /\ once[w] /\ Len(before) = From(tail, head) /\ before \in Seq(Handlers)
      /\ Compacted(ring, tail, head, before, Others(w), head, dst[w])
  BY <1>1, <1>3 DEF QInv
<1>5. Entries(ring, tail, From(tail, dst[w])) = Kept(before, Others(w))
  BY <1>2, <1>4, CompactEnd
<1>6. Contents' = Start(w)'
  BY <1>1, <1>4, <1>5, ContentsAre DEF Start, Others
<1>7. QInv'
  <2>1. \A v \in Workers : pc'[v] # "idle" => func'[v] \in Handlers
    BY <1>1, <1>3 DEF QInv
  <2>2. allocated' /\ before' \in Seq(Handlers) /\ Len(before') <= Size - 1
    BY <1>1, <1>3 DEF QInv
  <2>3. ASSUME NEW v \in Workers, pc'[v] \in Pushing
        PROVE  v = w /\ pc'[v] = "store"
    BY <1>3, <2>3
  <2> QED
    BY <1>3, <1>6, <2>1, <2>2, <2>3 DEF QInv, Pushing
<1> QED
  BY <1>1, <1>3, <1>7, QueuedKept DEF Queued

\* What a push is appended to.
LEMMA StartFacts ==
  ASSUME IInv, QInv, NEW w \in Workers, pc[w] \in {"store", "publish"}
  PROVE  /\ head \in Slots /\ tail \in Slots /\ From(tail, head) \in 0 .. Size - 1
         /\ func[w] \in Handlers /\ before \in Seq(Handlers) /\ Start(w) \in Seq(Handlers)
         /\ Contents = Start(w) /\ Len(Start(w)) = From(tail, head)
         /\ \A i \in 1 .. From(tail, head) : Start(w)[i] = ring[At(tail, i)]
         /\ Len(Start(w)) = Size - 1 => Start(w) = before
<1>1. /\ head \in Slots /\ tail \in Slots /\ func[w] \in Handlers
      /\ before \in Seq(Handlers) /\ Len(before) <= Size - 1 /\ Contents = Start(w)
  <2>1. InPush
    BY DEF InPush
  <2> QED
    BY <2>1 DEF IInv, TypeOK, QInv
<1>2. From(tail, head) \in 0 .. Size - 1
  BY <1>1, AtFrom
<1>3. Kept(before, Others(w)) \in Seq(Handlers) /\ Len(Kept(before, Others(w))) <= Len(before)
  BY <1>1, KeptType, KeptInOrder
<1>4. Start(w) \in Seq(Handlers)
  BY <1>1, <1>3 DEF Start
<1>5. Start(w) = Entries(ring, tail, From(tail, head))
  BY <1>1, ContentsAre
<1>6. Len(Start(w)) = From(tail, head)
  <2>1. DOMAIN Start(w) = 1 .. From(tail, head)
    BY <1>5 DEF Entries
  <2>2. DOMAIN Start(w) = 1 .. Len(Start(w)) /\ Len(Start(w)) \in Nat
    BY <1>4
  <2> QED
    BY <1>2, <2>1, <2>2
<1>7. \A i \in 1 .. From(tail, head) : Start(w)[i] = ring[At(tail, i)]
  BY <1>5 DEF Entries
<1>8. ASSUME Len(Start(w)) = Size - 1
      PROVE  Start(w) = before
  <2>1. CASE once[w]
    <3>1. Len(Kept(before, Others(w))) = Size - 1
      BY <1>8, <2>1 DEF Start
    <3>2. Len(Kept(before, Others(w))) = Len(before)
      BY <1>1, <1>3, <3>1, RingAssumption
    <3> QED
      BY <1>1, <2>1, <3>2, KeptAll DEF Start
  <2>2. CASE ~once[w]
    BY <2>2 DEF Start
  <2> QED
    BY <2>1, <2>2
<1> QED
  BY <1>1, <1>2, <1>4, <1>6, <1>7, <1>8

\* A call takes effect on the abstract queue.
LEMMA Scheduled ==
  ASSUME NEW w \in Workers, func[w] \in Handlers, Queued = before, taken' = taken,
         \/ /\ Queued' = Queued /\ Len(Start(w)) = Size - 1
            /\ ret' = [ret EXCEPT ![w] = -1]
         \/ /\ Queued' = Append(Start(w), func[w]) /\ Len(Start(w)) < Size - 1
            /\ ret' = [ret EXCEPT ![w] = 0]
  PROVE  Queue!Next
<1>1. CASE once[w]
  <2>1. Queue!Kept(before, Others(w)) = Kept(before, Others(w))
    BY DEF Queue!Kept, Kept
  <2>2. Queue!Without(Queued, func[w]) = Start(w)
    BY <1>1, <2>1 DEF Queue!Without, Start, Others
  <2>3. Queue!AwakeOnce(w, func[w])
    BY <2>2 DEF Queue!AwakeOnce, Queue!Schedule, Queued
  <2> QED
    BY <2>3 DEF Queue!Next
<1>2. CASE ~once[w]
  <2>1. Queued = Start(w)
    BY <1>2 DEF Start
  <2>2. Queue!Awake(w, func[w])
    BY <2>1 DEF Queue!Awake, Queue!Schedule, Queued
  <2> QED
    BY <2>2 DEF Queue!Next
<1> QED
  BY <1>1, <1>2

LEMMA StoreQueue ==
  ASSUME IInv, QInv, NEW w \in Workers, Store(w)
  PROVE  QInv' /\ [Queue!Next]_Queue!absVars
<1> DEFINE to == IF Full THEN "unlock" ELSE "publish"
<1>1. /\ pc[w] = "store" /\ pc' = [pc EXCEPT ![w] = to]
      /\ head' = head /\ tail' = tail /\ allocated' = allocated /\ before' = before
      /\ func' = func /\ once' = once /\ taken' = taken
      /\ Full => ring' = ring /\ ret' = [ret EXCEPT ![w] = -1]
      /\ ~Full => ring' = [ring EXCEPT ![head] = func[w]] /\ ret' = ret
      /\ w \in Threads
  BY DEF Store, Goto, callVars, Threads
<1>2. /\ pc'[w] = to /\ InPush /\ (InPush' <=> ~Full)
      /\ \A v \in Workers : v # w => pc'[v] = pc[v] /\ pc'[v] \notin Pushing
  BY <1>1, Inside DEF Held, Pushing
<1>3. /\ head \in Slots /\ tail \in Slots /\ From(tail, head) \in 0 .. Size - 1
      /\ func[w] \in Handlers /\ before \in Seq(Handlers) /\ Start(w) \in Seq(Handlers)
      /\ Contents = Start(w) /\ Len(Start(w)) = From(tail, head)
      /\ \A i \in 1 .. From(tail, head) : Start(w)[i] = ring[At(tail, i)]
      /\ Len(Start(w)) = Size - 1 => Start(w) = before
  BY <1>1, StartFacts
<1>4. Full <=> From(tail, head) = Size - 1
  BY <1>3, FromLast DEF Full
<1>5. Queued = before /\ Start(w)' = Start(w)
  BY <1>1, <1>2 DEF Queued, Start, Others
<1>6. /\ allocated'
      /\ \A v \in Workers : pc'[v] # "idle" => func'[v] \in Handlers
  BY <1>1, <1>2 DEF QInv
<1>7. CASE Full
  <2>1. Contents' = before
    BY <1>1, <1>3, <1>4, <1>7 DEF Contents, Count, Slot
  <2>2. Queued' = Queued
    BY <1>2, <1>5, <1>7, <2>1 DEF Queued
  <2>3. Queue!Next
    <3>1. Len(Start(w)) = Size - 1 /\ ret' = [ret EXCEPT ![w] = -1]
      BY <1>1, <1>3, <1>4, <1>7
    <3> QED
      BY <1>1, <1>3, <1>5, <2>2, <3>1, Scheduled
  <2>4. \A v \in Workers : pc'[v] \notin Pushing
    BY <1>2, <1>7 DEF Pushing
  <2> QED
    BY <1>2, <1>3, <1>6, <1>7, <2>1, <2>3, <2>4 DEF QInv, Pushing
<1>8. CASE ~Full
  <2>1. ASSUME NEW i \in 1 .. From(tail, head)
        PROVE  ring'[At(tail, i)] = Start(w)[i]
    <3>1. i \in 1 .. Size /\ From(tail, head) + 1 \in 1 .. Size /\ i # From(tail, head) + 1
      BY <1>3, RingAssumption
    <3>2. At(tail, i) # head /\ At(tail, i) \in Slots
      BY <1>3, <3>1, AtFrom, AtInjective
    <3>3. ring'[At(tail, i)] = ring[At(tail, i)]
      BY <1>1, <1>8, <3>2 DEF IInv, TypeOK
    <3> QED
      BY <1>3, <3>3
  <2>2. Contents' = Start(w)
    <3>1. Entries(ring', tail, From(tail, head)) = Start(w)
      BY <1>3, <2>1, EntriesAre
    <3> QED
      BY <1>1, <3>1, ContentsAre
  <2>3. ring'[head] = func[w] /\ ~Full'
    BY <1>1, <1>3, <1>8 DEF IInv, TypeOK, Full
  <2>4. \A v \in Workers : pc'[v] \in Pushing => v = w /\ pc'[v] = "publish"
    BY <1>2, <1>8
  <2>5. before' \in Seq(Handlers) /\ Len(before') <= Size - 1
    BY <1>1, <1>2 DEF QInv
  <2>6. QInv'
    BY <1>1, <1>2, <1>5, <1>6, <1>8, <2>2, <2>3, <2>4, <2>5 DEF QInv, Pushing
  <2>7. Queued' = Queued
    BY <1>1, <1>2, <1>8 DEF Queued
  <2> QED
    BY <1>1, <1>8, <2>6, <2>7, QueuedKept
<1> QED
  BY <1>7, <1>8

\* The head goes past the slot that Store() filled.
LEMMA PublishAppends ==
  ASSUME IInv, QInv, NEW w \in Workers, Publish(w)
  PROVE  /\ Contents' = Append(Start(w), func[w]) /\ Len(Start(w)) < Size - 1
         /\ Count' = Len(Start(w)) + 1
<1>1. /\ pc[w] = "publish" /\ head' = Wrap(head + 1) /\ tail' = tail /\ ring' = ring
  BY DEF Publish, Goto
<1>2. /\ head \in Slots /\ tail \in Slots /\ From(tail, head) \in 0 .. Size - 1
      /\ func[w] \in Handlers /\ Start(w) \in Seq(Handlers)
      /\ Len(Start(w)) = From(tail, head)
      /\ \A i \in 1 .. From(tail, head) : Start(w)[i] = ring[At(tail, i)]
  BY <1>1, StartFacts
<1>3. Wrap(head + 1) # tail /\ ring[head] = func[w]
  BY <1>1 DEF QInv, Full
<1>4. From(tail, head') = From(tail, head) + 1 /\ From(tail, head) < Size - 1
  BY <1>1, <1>2, <1>3, FromNext
<1> DEFINE n == From(tail, head)
           s == Append(Start(w), func[w])
<1>5. /\ s \in Seq(Handlers) /\ Len(s) = n + 1 /\ s[n + 1] = func[w]
      /\ \A i \in 1 .. n : s[i] = Start(w)[i]
  BY <1>2
<1>6. ASSUME NEW i \in 1 .. n + 1
      PROVE  ring[At(tail, i)] = s[i]
  <2>1. CASE i = n + 1
    BY <1>2, <1>3, <1>5, <2>1, AtFrom
  <2>2. CASE i # n + 1
    <3>1. i \in 1 .. n
      BY <1>2, <2>2
    <3> QED
      BY <1>2, <1>5, <3>1
  <2> QED
    BY <2>1, <2>2
<1>7. n + 1 \in Nat
  BY <1>2
<1>8. Entries(ring, tail, n + 1) = s
  BY <1>5, <1>6, <1>7, EntriesAre
<1> QED
  BY <1>1, <1>2, <1>4, <1>8, ContentsAre

LEMMA PublishQueue ==
  ASSUME IInv, QInv, NEW w \in Workers, Publish(w)
  PROVE  QInv' /\ Queue!Next
<1>1. /\ pc[w] = "publish" /\ pc' = [pc EXCEPT ![w] = "unlock"]
      /\ allocated' = allocated /\ before' = before
      /\ func' = func /\ once' = once /\ taken' = taken /\ ret' = [ret EXCEPT ![w] = 0]
      /\ w \in Threads
  BY DEF Publish, Goto, callVars, Threads
<1>2. /\ pc'[w] = "unlock" /\ InPush /\ ~InPush'
      /\ \A v \in Workers : v # w => pc'[v] = pc[v] /\ pc'[v] \notin Pushing
  BY <1>1, Inside DEF Held, Pushing
<1>3. Contents' = Append(Start(w), func[w]) /\ Len(Start(w)) < Size - 1
  BY PublishAppends
<1>4. func[w] \in Handlers /\ Start(w) \in Seq(Handlers)
  BY <1>1, StartFacts
<1>5. Queued = before /\ Queued' = Append(Start(w), func[w])
  BY <1>2, <1>3 DEF Queued
<1>6. Queue!Next
  BY <1>1, <1>3, <1>4, <1>5, Scheduled
<1>7. \A v \in Workers : pc'[v] # "idle" => func'[v] \in Handlers
  BY <1>1, <1>2 DEF QInv
<1>8. allocated' /\ \A v \in Workers : pc'[v] \notin Pushing
  BY <1>1, <1>2 DEF QInv, Pushing
<1>9. Contents' \in Seq(Handlers)
  BY <1>3, <1>4
<1>10. QInv'
  BY <1>2, <1>7, <1>8, <1>9 DEF QInv, Pushing
<1> QED
  BY <1>6, <1>10

LEMMA PopQueue ==
  ASSUME IInv, QInv, Pop
  PROVE  QInv' /\ Queue!Next
<1>1. /\ pc[Main] = "pop" /\ pc' = [pc EXCEPT ![Main] = "unlock"] /\ Main \in Threads
      /\ ring' = ring /\ head' = head /\ allocated' = allocated /\ func' = func /\ ret' = ret
      /\ IF ~allocated \/ head = tail
         THEN taken' = NULL /\ tail' = tail
         ELSE taken' = ring[tail] /\ tail' = Wrap(tail + 1)
  BY DEF Pop, Goto, callVars, Threads
<1>2. /\ ~InPush /\ ~InPush'
      /\ \A v \in Workers : pc'[v] = pc[v] /\ pc'[v] \notin Pushing
  BY <1>1, Inside, ThreadsAssumption DEF Held, Pushing
<1>3. /\ head \in Slots /\ tail \in Slots /\ From(tail, head) \in 0 .. Size - 1
      /\ Contents \in Seq(Handlers)
  <2>1. head \in Slots /\ tail \in Slots /\ Contents \in Seq(Handlers)
    BY <1>2 DEF IInv, TypeOK, QInv
  <2> QED
    BY <2>1, AtFrom
<1>4. Len(Contents) = From(tail, head)
      /\ \A i \in 1 .. From(tail, head) : Contents[i] = ring[At(tail, i)]
  <2>1. Contents = Entries(ring, tail, From(tail, head))
    BY ContentsAre
  <2>2. DOMAIN Contents = 1 .. From(tail, head)
    BY <2>1 DEF Entries
  <2>3. DOMAIN Contents = 1 .. Len(Contents) /\ Len(Contents) \in Nat
    BY <1>3
  <2>4. Len(Contents) = From(tail, head)
    BY <1>3, <2>2, <2>3
  <2> QED
    BY <2>1, <2>4 DEF Entries
<1>5. \A v \in Workers : pc'[v] # "idle" => func'[v] \in Handlers
  BY <1>1, <1>2 DEF QInv
<1>6. CASE ~allocated \/ head = tail
  <2>1. Contents' = Contents
    BY <1>1, <1>6 DEF Contents, Count, Slot
  <2>2. Contents = <<>>
    <3>1. From(tail, head) = 0
      BY <1>3, <1>6, AtFrom DEF QInv
    <3> QED
      BY <1>3, <1>4, <3>1
  <2>3. Queue!Take
    BY <1>1, <1>2, <1>6, <2>1, <2>2 DEF Queue!Take
  <2>4. QInv'
    BY <1>1, <1>2, <1>3, <1>5, <1>6, <2>1 DEF QInv, Pushing
  <2> QED
    BY <2>3, <2>4 DEF Queue!Next
<1>7. CASE ~(~allocated \/ head = tail)
  <2>1. taken' = ring[tail] /\ tail' = Wrap(tail + 1) /\ head # tail /\ allocated
    BY <1>1, <1>7
  <2>2. /\ From(tail', head) = From(tail, head) - 1 /\ From(tail, head) > 0 /\ At(tail, 1) = tail
        /\ \A i \in 1 .. Size - 1 : At(tail', i) = At(tail, i + 1)
    BY <1>3, <2>1, NextTail
  <2>3. Contents # <<>> /\ Head(Contents) = ring[tail]
    BY <1>3, <1>4, <2>2
  <2>4. /\ Tail(Contents) \in Seq(Handlers) /\ Len(Tail(Contents)) = From(tail, head) - 1
        /\ \A i \in 1 .. From(tail, head) - 1 : Tail(Contents)[i] = Contents[i + 1]
    BY <1>3, <1>4, <2>3
  <2>5. ASSUME NEW i \in 1 .. From(tail, head) - 1
        PROVE  ring[At(tail', i)] = Tail(Contents)[i]
    <3>1. i \in 1 .. Size - 1 /\ i + 1 \in 1 .. From(tail, head)
      BY <1>3, RingAssumption
    <3> QED
      BY <1>4, <2>2, <2>4, <3>1
  <2>6. From(tail, head) - 1 \in Nat
    BY <1>3, <2>2
  <2>7. Entries(ring, tail', From(tail, head) - 1) = Tail(Contents)
    BY <2>4, <2>5, <2>6, EntriesAre
  <2>8. Contents' = Tail(Contents)
    BY <1>1, <2>2, <2>7, ContentsAre
  <2>9. Queue!Take
    BY <1>1, <1>2, <2>1, <2>3, <2>8 DEF Queue!Take
  <2>10. QInv'
    BY <1>1, <1>2, <1>5, <2>1, <2>4, <2>8 DEF QInv, Pushing
  <2> QED
    BY <2>9, <2>10 DEF Queue!Next
<1> QED
  BY <1>6, <1>7

\* Every step of the threads is a step of the queue or leaves it as it is.
LEMMA QueueStep ==
  IInv /\ QInv /\ [Next]_vars => QInv' /\ [Queue!Next]_Queue!absVars
<1> SUFFICES ASSUME IInv, QInv, [Next]_vars
             PROVE  QInv' /\ [Queue!Next]_Queue!absVars
  OBVIOUS
<1> USE DEF Pushing, Goto
<1>1. ASSUME NEW w \in Workers, NEW h \in Handlers, NEW o \in BOOLEAN, CallPush(w, h, o)
      PROVE  QInv' /\ UNCHANGED Queue!absVars
  <2>1. w \in Threads /\ DOMAIN func = Workers /\ DOMAIN once = Workers
    BY DEF Threads, IInv, TypeOK
  <2> QED
    BY <1>1, <2>1, QuietStep DEF CallPush
<1>2. CASE CallPop
  <2>1. Main \in Threads /\ Main \notin Workers
    BY ThreadsAssumption DEF Threads
  <2> QED
    BY <1>2, <2>1, QuietStep DEF CallPop, callVars
<1>3. ASSUME NEW t \in Threads, LockStep(t)
      PROVE  QInv' /\ UNCHANGED Queue!absVars
  <2>1. ASSUME t \in Workers, pc[t] # "idle"
        PROVE  func[t] \in Handlers
    BY <2>1 DEF QInv
  <2>2. CASE CheckMutex(t)
    BY <2>1, <2>2, QuietStep DEF CheckMutex, callVars
  <2>3. CASE AllocMutex(t)
    BY <2>1, <2>3, QuietStep DEF AllocMutex, callVars
  <2>4. CASE InitMutex(t)
    BY <2>1, <2>4, QuietStep DEF InitMutex, callVars
  <2>5. CASE Acquire(t)
    BY <2>1, <2>5, QuietStep DEF Acquire, callVars
  <2>6. CASE Unlock(t)
    BY <2>6, UnlockQueue
  <2> QED
    BY <1>3, <2>2, <2>3, <2>4, <2>5, <2>6 DEF LockStep
<1>4. ASSUME NEW w \in Workers, PushStep(w)
      PROVE  QInv' /\ [Queue!Next]_Queue!absVars
  BY <1>4, EnterQueue, CompactStepQueue, CompactDoneQueue, StoreQueue, PublishQueue
     DEF PushStep
<1>5. CASE UNCHANGED vars
  <2>1. /\ ring' = ring /\ head' = head /\ tail' = tail /\ allocated' = allocated
        /\ pc' = pc /\ func' = func /\ once' = once /\ src' = src /\ dst' = dst
        /\ ret' = ret /\ taken' = taken /\ before' = before
    BY <1>5 DEF vars, ringVars, callVars
  <2>2. (InPush' <=> InPush) /\ Contents' = Contents /\ (Full' <=> Full)
    BY <2>1 DEF InPush, Contents, Count, Slot, Full
  <2>3. \A w \in Workers : Start(w)' = Start(w) /\ Others(w)' = Others(w)
    BY <2>1 DEF Start, Others
  <2>4. QInv'
    BY <2>1, <2>2, <2>3 DEF QInv
  <2> QED
    BY <2>1, <2>2, <2>4, QueuedKept DEF Queued
<1> QED
  BY <1>1, <1>2, <1>3, <1>4, <1>5, PopQueue DEF Next

\* For any number of threads, any callbacks and any ring size, the ring under
\* its mutex is the bounded FIFO of AwakeQueue: no callback is lost, doubled or
\* reordered, Fl::awake_once() takes out exactly the copies of its callback,
\* and a refused call changes nothing, if the first call is made alone.
THEOREM QueueRefined == FirstCallAlone = TRUE /\ Spec => QueueSpec
  BY IInvInit, IInvStep, InitIsQueue, QueueStep, PTL DEF Spec, QueueSpec, Queue!Spec
-----------------------------------------------------------------------------
\* The stores of lock_function_std() are seen in program order.
LockInOrder == StoreOrders = {"owner"}

\* The mutex is held from pthread_mutex_lock() to pthread_mutex_unlock(), the
\* counter is the nesting of its holder, and whoever finds itself to be the
\* owner while the counter is not zero really holds the lock.
LockHolding ==
  /\ \A t \in Threads : holds[t] > 0 => mutex = t /\ owner = t
  /\ counter > 0 => mutex \in Threads
  /\ \A t \in Threads : mutex = t => counter = holds[t]
  /\ \A t \in Threads : lockPc[t] = "own" => mutex = t /\ counter = 0
  /\ \A t \in Threads : lockPc[t] = "count" => mutex = t /\ owner = t
  /\ \A t \in Threads : lockPc[t] = "release" => mutex = t /\ counter = 0
  /\ \A t \in Threads : lockPc[t] = "owner" /\ owner = t => holds[t] > 0

LockIInv ==
  /\ LockInOrder
  /\ LockTypeOK
  /\ \A t \in Threads : lockPc[t] # "late"
  /\ LockHolding

\* The invariant that carries the proofs is inductive.
LEMMA LockIInvInit == LockInOrder /\ LockInit => LockIInv
  BY LockAssumption, ThreadsAssumption
     DEF Threads, LockInOrder, LockInit, LockIInv, LockTypeOK, LockHolding

LEMMA LockIInvStep == LockIInv /\ [LockNext]_lockVars => LockIInv'
<1> SUFFICES ASSUME LockIInv, [LockNext]_lockVars
             PROVE  LockIInv'
  OBVIOUS
<1> USE LockAssumption, ThreadsAssumption
       DEF Threads, LockIInv, LockTypeOK, LockHolding, LockGoto, LockInOrder
<1>1. ASSUME NEW t \in Threads, CallLock(t)
      PROVE  LockIInv'
  BY <1>1 DEF CallLock
<1>2. ASSUME NEW t \in Threads, ReadCounter(t)
      PROVE  LockIInv'
  BY <1>2 DEF ReadCounter
<1>3. ASSUME NEW t \in Threads, ReadOwner(t)
      PROVE  LockIInv'
  BY <1>3 DEF ReadOwner
<1>4. ASSUME NEW t \in Threads, LockMutex(t)
      PROVE  LockIInv'
  BY <1>4 DEF LockMutex
<1>5. ASSUME NEW t \in Threads, NEW v \in StoreOrders, FirstStore(t, v)
      PROVE  LockIInv'
  BY <1>5 DEF FirstStore
<1>6. ASSUME NEW t \in Threads, SecondStore(t)
      PROVE  LockIInv'
  BY <1>6 DEF SecondStore
<1>7. ASSUME NEW t \in Threads, Uncount(t)
      PROVE  LockIInv'
  BY <1>7 DEF Uncount
<1>8. ASSUME NEW t \in Threads, UnlockMutex(t)
      PROVE  LockIInv'
  BY <1>8 DEF UnlockMutex
<1>9. CASE UNCHANGED lockVars
  BY <1>9 DEF lockVars
<1> QED
  BY <1>1, <1>2, <1>3, <1>4, <1>5, <1>6, <1>7, <1>8, <1>9
     DEF LockNext, LockFunctionStep, UnlockStep

\* For any number of threads, if the stores are seen in program order,
\* lock_function_std() and unlock_function_std() keep the variables in their types.
THEOREM LockTypeCorrect == LockInOrder /\ LockStdSpec => []LockTypeOK
<1>1. LockIInv => LockTypeOK
  BY DEF LockIInv
<1> QED
  BY LockIInvInit, LockIInvStep, <1>1, PTL DEF LockStdSpec

\* For any number of threads and any nesting, two threads never hold the lock
\* at the same time, although counter and owner are read without it, if the
\* stores to both are seen in program order.
THEOREM LockExclusion == LockInOrder /\ LockStdSpec => []MutualExclusion
<1>1. LockIInv => MutualExclusion
  BY DEF LockIInv, LockHolding, MutualExclusion, LockTypeOK
<1> QED
  BY LockIInvInit, LockIInvStep, <1>1, PTL DEF LockStdSpec

\* The counter is the nesting of the thread that holds the lock: the mutex is
\* released by the last Fl::unlock() and by no earlier one, with the same proviso.
THEOREM LockCounterCorrect == LockInOrder /\ LockStdSpec => []CounterIsNesting
<1>1. LockIInv => CounterIsNesting
  BY DEF LockIInv, LockHolding, CounterIsNesting, LockTypeOK
<1> QED
  BY LockIInvInit, LockIInvStep, <1>1, PTL DEF LockStdSpec
-----------------------------------------------------------------------------
\* Fl::lock() was called before any window was shown: the pipe is the first
\* descriptor.
PipeLockedFirst == PipeIndex = 1

\* The frames below the running one are in callbacks; there are none above it.
PipeStackShape ==
  /\ phase[depth] # "none"
  /\ \A d \in Frames : d < depth => phase[d] \in {"handler", "callback"}
  /\ \A d \in Frames : d > depth => phase[d] = "none"

\* The main thread owns the lock exactly while it is not in poll(), a worker
\* exactly during its Fl::lock() section.
PipeOwnership ==
  /\ uiOwner = Main <=> phase[depth] \notin {"poll", "relock"}
  /\ \A w \in Workers : wpc[w] = "ui" <=> uiOwner = w

\* Bytes in the pipe or about to be written, against the flag: they are equal
\* but for the byte that thread_awake_cb() is about to read.
PipeTokens ==
  /\ \A v, w \in Workers : wpc[v] = "write" /\ wpc[w] = "write" => v = w
  /\ pipe + (IF Writing THEN 1 ELSE 0) = pending + (IF Running("read") THEN 1 ELSE 0)

\* From select() to read() the byte stays in the pipe, and the pipe, being the
\* first descriptor, is served before any callback can run a nested loop.
PipeByteThere ==
  /\ Running("relock") /\ 1 \in ready[depth] => pipe > 0
  /\ Running("dispatch") /\ next[depth] = 1 /\ 1 \in ready[depth] => pipe > 0
  /\ Running("clear") \/ Running("read") => pipe > 0
  /\ \A d \in Frames :
       phase[d] \in {"clear", "read", "drain", "handler", "callback"} => next[d] > 1

\* A queued callback has a wake-up under way or is about to be popped.
PipeWakeup ==
  queued > 0 => \/ pending = 1
                \/ \E w \in Workers : wpc[w] = "signal"
                \/ Running("read") \/ Running("drain")
                \/ InHandler

PipeIInv ==
  /\ PipeLockedFirst
  /\ PipeTypeOK
  /\ PipeStackShape
  /\ PipeOwnership
  /\ PipeTokens
  /\ PipeByteThere
  /\ PipeWakeup

LEMMA PipeIInvInit == PipeLockedFirst /\ PipeInit => PipeIInv
<1> SUFFICES ASSUME PipeLockedFirst, PipeInit
             PROVE  PipeIInv
  OBVIOUS
<1> USE PipeAssumption, ThreadsAssumption DEF PipeLockedFirst
<1>1. PipeTypeOK
  BY DEF PipeInit, PipeTypeOK, Frames, UserFds, Phases
<1>2. phase[depth] = "call" /\ ~Writing
  BY DEF PipeInit, Frames, Writing
<1> QED
  BY <1>1, <1>2
     DEF PipeInit, PipeIInv, PipeStackShape, PipeOwnership, PipeTokens, PipeByteThere,
         PipeWakeup, Frames, Running

-----------------------------------------------------------------------------
(* Steps of the workers.  They leave the frames alone.                     *)

LEMMA PipeWorkerStepInv ==
  ASSUME NEW w \in Workers, PipeIInv, WorkerStep(w)
  PROVE  PipeIInv'
<1> USE PipeAssumption, ThreadsAssumption DEF PipeIInv, PipeLockedFirst
<1>0. /\ depth' = depth /\ phase' = phase /\ blocks' = blocks /\ ready' = ready /\ next' = next
      /\ readable' = readable
  BY DEF WorkerStep, LockUI, UnlockUI, CallAwake, Push,
         Signal, Write, frameVars
<1>1. PipeStackShape'
  BY <1>0 DEF PipeStackShape
<1>2. \A p : Running(p)' <=> Running(p)
  BY <1>0 DEF Running
<1>3. InHandler' <=> InHandler
  BY <1>0 DEF InHandler
<1>4. CASE LockUI(w)
  <2>1. PipeTypeOK'
    BY <1>0, <1>4 DEF LockUI, PipeTypeOK, sharedVars
  <2>2. Writing' <=> Writing
    BY <1>4 DEF LockUI, Writing, PipeTypeOK
  <2> QED
    BY <1>0, <1>1, <1>2, <1>3, <1>4, <2>1, <2>2
       DEF LockUI, PipeOwnership, PipeTokens, PipeByteThere, PipeWakeup,
           sharedVars, PipeTypeOK
<1>5. CASE UnlockUI(w)
  <2>1. PipeTypeOK'
    BY <1>0, <1>5 DEF UnlockUI, PipeTypeOK, sharedVars
  <2>2. Writing' <=> Writing
    BY <1>5 DEF UnlockUI, Writing, PipeTypeOK
  <2> QED
    BY <1>0, <1>1, <1>2, <1>3, <1>5, <2>1, <2>2
       DEF UnlockUI, PipeOwnership, PipeTokens, PipeByteThere, PipeWakeup,
           sharedVars, PipeTypeOK
<1>6. CASE CallAwake(w)
  <2>1. PipeTypeOK'
    BY <1>0, <1>6 DEF CallAwake, PipeTypeOK, sharedVars
  <2>2. Writing' <=> Writing
    BY <1>6 DEF CallAwake, Writing, PipeTypeOK
  <2> QED
    BY <1>0, <1>1, <1>2, <1>3, <1>6, <2>1, <2>2
       DEF CallAwake, PipeOwnership, PipeTokens, PipeByteThere, PipeWakeup,
           sharedVars, PipeTypeOK
<1>7. CASE Push(w)
  <2>1. PipeTypeOK'
    BY <1>0, <1>7 DEF Push, PipeTypeOK
  <2>2. Writing' <=> Writing
    BY <1>7 DEF Push, Writing, PipeTypeOK
  <2> QED
    BY <1>0, <1>1, <1>2, <1>3, <1>7, <2>1, <2>2
       DEF Push, PipeOwnership, PipeTokens, PipeByteThere, PipeWakeup, PipeTypeOK
<1>8. CASE Signal(w)
  <2>1. PipeTypeOK'
    BY <1>0, <1>8 DEF Signal, PipeTypeOK
  <2>2. PipeOwnership' /\ PipeByteThere' /\ PipeWakeup'
    BY <1>0, <1>2, <1>8 DEF Signal, PipeOwnership, PipeByteThere, PipeWakeup,
                            PipeTypeOK
  <2>3. CASE pending = 0
    <3>1. ~Writing
      BY <2>3 DEF PipeTokens, PipeByteThere, PipeTypeOK
    <3>2. Writing'
      BY <1>8, <2>3 DEF Signal, Writing, PipeTypeOK
    <3>3. \A v \in Workers : wpc'[v] = "write" => v = w
      BY <1>8, <3>1 DEF Signal, Writing, PipeTypeOK
    <3> QED
      BY <1>0, <1>1, <1>2, <1>8, <2>1, <2>2, <2>3, <3>1, <3>2, <3>3 DEF Signal,
          PipeTokens, PipeTypeOK
  <2>4. CASE pending = 1
    <3>1. Writing' <=> Writing
      BY <1>8, <2>4 DEF Signal, Writing, PipeTypeOK
    <3> QED
      BY <1>0, <1>1, <1>2, <1>8, <2>1, <2>2, <2>4, <3>1 DEF Signal, PipeTokens,
          PipeTypeOK
  <2> QED
    BY <2>3, <2>4 DEF PipeTypeOK
<1>9. CASE Write(w)
  <2>1. Writing
    BY <1>9 DEF Write, Writing
  <2>2. pipe < PipeCapacity
    BY <2>1 DEF PipeTokens, PipeTypeOK
  <2>3. PipeTypeOK'
    BY <1>0, <1>9, <2>2 DEF Write, PipeTypeOK
  <2>4. ~Writing'
    BY <1>9 DEF Write, Writing, PipeTokens, PipeTypeOK
  <2> QED
    BY <1>0, <1>1, <1>2, <1>3, <1>9, <2>1, <2>2, <2>3, <2>4
       DEF Write, PipeOwnership, PipeTokens, PipeByteThere, PipeWakeup, PipeTypeOK
<1> QED
  BY <1>4, <1>5, <1>6, <1>7, <1>8, <1>9 DEF WorkerStep

LEMMA PipeInputInv ==
  ASSUME NEW f \in UserFds, PipeIInv, Input(f)
  PROVE  PipeIInv'
<1>1. PipeTypeOK'
  BY DEF PipeIInv, Input, PipeTypeOK, sharedVars, workerVars,
         frameVars, UserFds
<1> QED
  BY <1>1 DEF PipeIInv, PipeLockedFirst, Input, PipeStackShape, PipeOwnership,
              PipeTokens, PipeByteThere, PipeWakeup,
              InHandler, Running, Writing, sharedVars,
              workerVars, frameVars

-----------------------------------------------------------------------------
(* Steps of the main thread.  All but NestedWait and WaitReturn change only  *)
(* the running frame.                                                        *)

LEMMA PipeMainStepInv ==
  ASSUME PipeIInv, MainStep
  PROVE  PipeIInv'
<1> USE PipeAssumption, ThreadsAssumption DEF PipeIInv, PipeLockedFirst, Running,
                           Become, Phases, Frames
<1>0. ASSUME wpc' = wpc
      PROVE  Writing' <=> Writing
  BY <1>0 DEF Writing
<1>1. CASE BeginPoll
  <2>1. PipeTypeOK'
    BY <1>1 DEF BeginPoll, PipeTypeOK, sharedVars, workerVars
  <2>2. Writing' <=> Writing
    BY <1>0, <1>1 DEF BeginPoll, workerVars
  <2> QED
    BY <1>1, <2>1, <2>2
       DEF BeginPoll, PipeStackShape, PipeOwnership, PipeTokens, PipeByteThere,
           PipeWakeup, InHandler, PipeTypeOK,
           sharedVars, workerVars
<1>2. CASE EndPoll
  <2>1. PipeTypeOK'
    BY <1>2 DEF EndPoll, ReadyNow, PipeTypeOK, sharedVars,
                workerVars, UserFds
  <2>2. Writing' <=> Writing
    BY <1>0, <1>2 DEF EndPoll, workerVars
  <2>3. 1 \in ReadyNow => pipe > 0
    BY DEF ReadyNow, PipeTypeOK, UserFds
  <2> QED
    BY <1>2, <2>1, <2>2, <2>3
       DEF EndPoll, PipeStackShape, PipeOwnership, PipeTokens, PipeByteThere,
           PipeWakeup, InHandler, PipeTypeOK,
           sharedVars, workerVars
<1>3. CASE Relock
  <2>1. PipeTypeOK'
    BY <1>3 DEF Relock, PipeTypeOK, sharedVars, workerVars
  <2>2. Writing' <=> Writing
    BY <1>0, <1>3 DEF Relock, workerVars
  <2> QED
    BY <1>3, <2>1, <2>2
       DEF Relock, PipeStackShape, PipeOwnership, PipeTokens, PipeByteThere,
           PipeWakeup, InHandler, PipeTypeOK,
           sharedVars, workerVars
<1>4. CASE Dispatch
  <2>1. PipeTypeOK'
    BY <1>4 DEF Dispatch, PipeTypeOK, sharedVars, workerVars
  <2>2. Writing' <=> Writing
    BY <1>0, <1>4 DEF Dispatch, workerVars
  <2>3. /\ next'[depth] > 1
        /\ phase'[depth] \in {"dispatch", "clear", "callback"}
        /\ phase'[depth] = "clear" => pipe > 0
    BY <1>4 DEF Dispatch, PipeByteThere, PipeTypeOK
  <2>4. /\ phase[depth] = "dispatch" /\ depth' = depth /\ depth \in Frames
        /\ \A d \in Frames : d # depth => phase'[d] = phase[d] /\ next'[d] = next[d]
        /\ wpc' = wpc /\ uiOwner' = uiOwner /\ pipe' = pipe /\ pending' = pending /\ queued' = queued
    BY <1>4 DEF Dispatch, PipeTypeOK, sharedVars, workerVars
  <2>5. PipeStackShape' /\ PipeOwnership'
    BY <2>3, <2>4 DEF PipeStackShape, PipeOwnership
  <2>6. PipeTokens' /\ PipeByteThere'
    <3>1. ASSUME NEW d \in Frames,
                 phase'[d] \in {"clear", "read", "drain", "handler", "callback"}
          PROVE  next'[d] > 1
      <4>1. CASE d = depth
        BY <2>3, <4>1
      <4>2. CASE d # depth
        BY <2>4, <3>1, <4>2 DEF PipeByteThere
      <4> QED
        BY <4>1, <4>2
    <3>2. next'[depth] # 1 /\ phase'[depth] \notin {"read", "relock"}
      <4>1. next'[depth] \in Int
        BY <2>1, <2>4 DEF PipeTypeOK
      <4> QED
        BY <2>3, <4>1
    <3>3. PipeByteThere'
      BY <2>3, <2>4, <3>1, <3>2 DEF PipeByteThere
    <3> QED
      BY <2>2, <2>4, <3>2, <3>3 DEF PipeTokens
  <2>7. PipeWakeup'
    BY <2>4 DEF PipeWakeup, InHandler
  <2> QED
    BY <2>1, <2>5, <2>6, <2>7
<1>5. CASE ClearPending
  <2>1. PipeTypeOK'
    BY <1>5 DEF ClearPending, PipeTypeOK, workerVars
  <2>2. Writing' <=> Writing
    BY <1>0, <1>5 DEF ClearPending, workerVars
  <2>3. pending = 1
    BY <1>5 DEF ClearPending, PipeTokens, PipeByteThere, PipeTypeOK
  <2> QED
    BY <1>5, <2>1, <2>2, <2>3
       DEF ClearPending, PipeStackShape, PipeOwnership, PipeTokens, PipeByteThere,
           PipeWakeup, InHandler, PipeTypeOK,
           workerVars
<1>6. CASE ReadByte
  <2>1. PipeTypeOK'
    BY <1>6 DEF ReadByte, PipeTypeOK, workerVars
  <2>2. Writing' <=> Writing
    BY <1>0, <1>6 DEF ReadByte, workerVars
  <2>3. /\ depth \in Frames /\ phase[depth] = "read" /\ phase' = [phase EXCEPT ![depth] = "drain"]
        /\ phase \in [Frames -> Phases] /\ pipe' = pipe - 1 /\ depth' = depth /\ next' = next
        /\ wpc' = wpc /\ uiOwner' = uiOwner /\ pending' = pending
    BY <1>6 DEF ReadByte, PipeTypeOK, workerVars
  <2>4. phase'[depth'] = "drain" /\ \A d \in Frames : d # depth => phase'[d] = phase[d]
    BY <2>3
  <2>5. PipeStackShape' /\ PipeOwnership'
    BY <2>3, <2>4 DEF PipeStackShape, PipeOwnership
  <2>6. PipeTokens'
    BY <1>6, <2>2, <2>3, <2>4 DEF PipeTokens, PipeTypeOK
  <2>7. PipeByteThere'
    BY <2>3, <2>4 DEF PipeByteThere
  <2>8. PipeWakeup'
    BY <2>3, <2>4 DEF PipeWakeup
  <2> QED
    BY <2>1, <2>5, <2>6, <2>7, <2>8
<1>7. CASE Drain
  <2>1. PipeTypeOK'
    BY <1>7, SMTT(40) DEF Drain, PipeTypeOK, workerVars
  <2>2. Writing' <=> Writing
    BY <1>0, <1>7 DEF Drain, workerVars
  <2> QED
    BY <1>7, <2>1, <2>2, SMTT(40)
       DEF Drain, PipeStackShape, PipeOwnership, PipeTokens, PipeByteThere,
           PipeWakeup, InHandler, PipeTypeOK,
           workerVars
<1>8. CASE ThreadMessage
  <2>1. PipeTypeOK'
    BY <1>8 DEF ThreadMessage, PipeTypeOK, workerVars, frameVars
  <2>2. Writing' <=> Writing
    BY <1>0, <1>8 DEF ThreadMessage, workerVars
  <2> QED
    BY <1>8, <2>1, <2>2
       DEF ThreadMessage, PipeStackShape, PipeOwnership, PipeTokens, PipeByteThere,
           PipeWakeup, InHandler, PipeTypeOK,
           workerVars, frameVars
<1>9. CASE CallbackReturns
  <2>1. PipeTypeOK'
    BY <1>9 DEF CallbackReturns, PipeTypeOK, sharedVars, workerVars
  <2>2. Writing' <=> Writing
    BY <1>0, <1>9 DEF CallbackReturns, workerVars
  <2> QED
    BY <1>9, <2>1, <2>2
       DEF CallbackReturns, PipeStackShape, PipeOwnership, PipeTokens,
           PipeByteThere, PipeWakeup, InHandler, PipeTypeOK,
           sharedVars, workerVars
<1>10. CASE WaitReturn
  <2>1. PipeTypeOK'
    BY <1>10 DEF WaitReturn, PipeTypeOK, sharedVars, workerVars
  <2>2. Writing' <=> Writing
    BY <1>0, <1>10 DEF WaitReturn, workerVars
  <2>3. /\ phase[depth] = "dispatch" /\ depth \in Frames
        /\ \A d \in Frames : d # depth => phase'[d] = phase[d] /\ next'[d] = next[d]
        /\ wpc' = wpc /\ uiOwner' = uiOwner /\ pipe' = pipe /\ pending' = pending /\ queued' = queued
    BY <1>10 DEF WaitReturn, PipeTypeOK, sharedVars, workerVars
  <2>4. \/ depth' = depth /\ depth = 1 /\ phase'[depth] = "call"
        \/ depth' = depth - 1 /\ depth > 1 /\ phase'[depth] = "none"
             /\ phase'[depth - 1] \in {"handler", "callback"} /\ depth - 1 \in Frames
    BY <1>10 DEF WaitReturn, PipeStackShape, PipeTypeOK
  <2>5. PipeStackShape'
    <3>1. phase'[depth'] # "none"
      BY <2>4
    <3>2. ASSUME NEW d \in Frames, d < depth'
          PROVE  phase'[d] \in {"handler", "callback"}
      <4>1. d < depth /\ d # depth
        BY <2>3, <2>4, <3>2
      <4> QED
        BY <2>3, <4>1 DEF PipeStackShape
    <3>3. ASSUME NEW d \in Frames, d > depth'
          PROVE  phase'[d] = "none"
      <4>1. CASE d = depth
        BY <2>3, <2>4, <3>3, <4>1
      <4>2. CASE d > depth
        BY <2>3, <4>2 DEF PipeStackShape
      <4> QED
        BY <2>3, <2>4, <3>3, <4>1, <4>2
    <3> QED
      BY <3>1, <3>2, <3>3 DEF PipeStackShape
  <2>6. PipeOwnership' /\ PipeTokens'
    BY <2>2, <2>3, <2>4 DEF PipeOwnership, PipeTokens
  <2>7. PipeByteThere'
    <3>1. phase'[depth'] \in {"call", "handler", "callback"}
      BY <2>4
    <3>2. ASSUME NEW d \in Frames,
                 phase'[d] \in {"clear", "read", "drain", "handler", "callback"}
          PROVE  next'[d] > 1
      <4>1. d # depth
        BY <2>4, <3>2
      <4> QED
        BY <2>3, <3>2, <4>1 DEF PipeByteThere
    <3> QED
      BY <3>1, <3>2 DEF PipeByteThere
  <2>8. PipeWakeup'
    BY <2>3 DEF PipeWakeup, InHandler
  <2> QED
    BY <2>1, <2>5, <2>6, <2>7, <2>8
<1>11. ASSUME NEW b \in NestedBlocks, NestedWait(b)
       PROVE  PipeIInv'
  <2>1. PipeTypeOK'
    BY <1>11 DEF NestedWait, PipeTypeOK, sharedVars, workerVars
  <2>2. Writing' <=> Writing
    BY <1>0, <1>11 DEF NestedWait, workerVars
  <2> QED
    BY <1>11, <2>1, <2>2, SMTT(40)
       DEF NestedWait, PipeStackShape, PipeOwnership, PipeTokens, PipeByteThere,
           PipeWakeup, InHandler, PipeTypeOK,
           sharedVars, workerVars
<1> QED
  BY <1>1, <1>2, <1>3, <1>4, <1>5, <1>6, <1>7, <1>8, <1>9, <1>10, <1>11 DEF MainStep

LEMMA PipeIInvStep == PipeIInv /\ [PipeNext]_pipeVars => PipeIInv'
<1> SUFFICES ASSUME PipeIInv, [PipeNext]_pipeVars
             PROVE  PipeIInv'
  OBVIOUS
<1>1. CASE UNCHANGED pipeVars
  BY <1>1 DEF pipeVars, sharedVars, workerVars, frameVars, PipeIInv,
              PipeLockedFirst, PipeTypeOK, PipeStackShape,
              PipeOwnership, PipeTokens, PipeByteThere, PipeWakeup, InHandler,
              Running, Writing
<1> QED
  BY <1>1, PipeWorkerStepInv, PipeInputInv, PipeMainStepInv DEF PipeNext

-----------------------------------------------------------------------------
\* Every variable keeps its type: in particular the queue never underflows and
\* the number of bytes in the pipe stays within its capacity.
THEOREM PipeTypeCorrect == PipeLockedFirst /\ PipeSpec => []PipeTypeOK
<1>1. PipeIInv => PipeTypeOK
  BY DEF PipeIInv
<1> QED
  BY PipeIInvInit, PipeIInvStep, <1>1, PTL DEF PipeSpec

\* The main thread and the workers exclude each other through the lock.
THEOREM PipeLockExclusion == PipeLockedFirst /\ PipeSpec => []LockExcludes
<1>1. PipeIInv => LockExcludes
  BY PipeAssumption, ThreadsAssumption DEF PipeIInv, PipeLockedFirst, PipeOwnership,
                        LockExcludes, PipeTypeOK
<1> QED
  BY PipeIInvInit, PipeIInvStep, <1>1, PTL DEF PipeSpec

\* At most two bytes are ever in the pipe, so the non-blocking write of
\* Fl::awake() never drops a wake-up.
THEOREM PipeNeverFull == PipeLockedFirst /\ PipeSpec => []PipeBounded
<1>1. PipeIInv => PipeBounded
  BY DEF PipeIInv, PipeTokens, PipeBounded, PipeTypeOK
<1> QED
  BY PipeIInvInit, PipeIInvStep, <1>1, PTL DEF PipeSpec

\* For any number of workers and nested event loops, thread_awake_cb() never
\* blocks in read().
THEOREM PipeReadDoesNotBlock == PipeLockedFirst /\ PipeSpec => []ReadNeverBlocks
<1>1. PipeIInv => ReadNeverBlocks
  BY DEF PipeIInv, PipeByteThere, ReadNeverBlocks
<1> QED
  BY PipeIInvInit, PipeIInvStep, <1>1, PTL DEF PipeSpec

\* For any number of workers and nested event loops, the main thread does not
\* go to sleep on a queued callback without a wake-up under way, unless it is
\* inside an awake callback.
THEOREM PipeWakeupNotLost == PipeLockedFirst /\ PipeSpec => []NoLostWakeup
<1>1. PipeIInv => NoLostWakeup
  BY DEF PipeIInv, PipeTokens, PipeWakeup, NoLostWakeup, PipeTypeOK, Running,
         Writing
<1> QED
  BY PipeIInvInit, PipeIInvStep, <1>1, PTL DEF PipeSpec
=============================================================================
