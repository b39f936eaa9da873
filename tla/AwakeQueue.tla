----------------------------- MODULE AwakeQueue -----------------------------
(***************************************************************************)
(* What the awake queue promises its callers: a bounded FIFO of callbacks. *)
(* Fl::awake(cb, data) appends a callback or is refused when the queue is  *)
(* full; Fl::awake_once(cb, data) first removes every queued copy of the   *)
(* callback; the event loop takes callbacks from the front.  Each call is  *)
(* one atomic step here.  FlAwakeRing is shown to implement this module.   *)
(***************************************************************************)
EXTENDS Integers, Sequences, Subsequences

CONSTANTS
  Workers,    \* threads that call Fl::awake() / Fl::awake_once()
  Handlers,   \* (function, data) pairs
  Capacity,   \* how many callbacks the queue holds
  None        \* "no callback was taken"

VARIABLES
  queue,      \* callbacks scheduled and not yet taken, oldest first
  ret,        \* worker -> return value of its latest call: 0 or -1
  taken       \* the callback most recently taken by the event loop, or None

absVars == <<queue, ret, taken>>

Without(q, h) == Kept(q, Handlers \ {h})

Init ==
  /\ queue = <<>>
  /\ ret = [w \in Workers |-> 0]
  /\ taken = None

\* A call of a worker starts from the queue q: the whole queue for awake(),
\* the queue without the callback for awake_once().
Schedule(w, h, q) ==
  \/ /\ Len(q) < Capacity
     /\ queue' = Append(q, h)
     /\ ret' = [ret EXCEPT ![w] = 0]
     /\ UNCHANGED taken
  \/ /\ Len(q) = Capacity
     /\ ret' = [ret EXCEPT ![w] = -1]
     /\ UNCHANGED <<queue, taken>>

Awake(w, h)     == Schedule(w, h, queue)
AwakeOnce(w, h) == Schedule(w, h, Without(queue, h))

Take ==
  \/ /\ queue # <<>>
     /\ taken' = Head(queue)
     /\ queue' = Tail(queue)
     /\ UNCHANGED ret
  \/ /\ queue = <<>>
     /\ taken' = None
     /\ UNCHANGED <<queue, ret>>

Next ==
  \/ \E w \in Workers, h \in Handlers : Awake(w, h) \/ AwakeOnce(w, h)
  \/ Take

Spec == Init /\ [][Next]_absVars
=============================================================================
