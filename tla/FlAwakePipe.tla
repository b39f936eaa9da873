----------------------------- MODULE FlAwakePipe ----------------------------
(***************************************************************************)
(* How worker threads wake the event loop on X11/Wayland: Fl::awake()      *)
(* writes one byte to a pipe unless pipe_pending says that one is on its   *)
(* way, poll_or_select_with_delay() sees the pipe readable and calls       *)
(* thread_awake_cb(), which clears the flag, reads the byte and runs every *)
(* queued callback.  Callbacks may run the event loop again (a dialog, or  *)
(* Fl::check()), so the main thread is a stack of nested Fl::wait() calls, *)
(* each with its own snapshot of the descriptors that were ready.          *)
(*                                                                         *)
(* The queue of callbacks is the atomic queue of AwakeQueue (implemented   *)
(* by FlAwakeRing) reduced to its length.  The program has called          *)
(* Fl::lock(), so the pipe exists and the main thread owns the lock        *)
(* whenever it is not inside poll() or select().                           *)
(***************************************************************************)
EXTENDS Integers, FlThreads

CONSTANTS
  MaxDepth,      \* bound on nested Fl::wait() calls
  Nfds,          \* nfds: how many descriptors are watched
  PipeIndex,     \* the position of the awake pipe among them
  Capacity,      \* callbacks the ring holds
  PipeCapacity,  \* bytes the kernel pipe holds; a full pipe drops the write
  MaxCalls,      \* bound on the Fl::awake() calls of each worker
  NestedBlocks   \* may a callback call Fl::wait() (TRUE), Fl::check() (FALSE)

ASSUME PipeAssumption ==
  /\ MaxDepth \in Nat \ {0} /\ Nfds \in Nat \ {0} /\ PipeIndex \in 1 .. Nfds
  /\ Capacity \in Nat \ {0} /\ PipeCapacity \in Nat /\ PipeCapacity >= 2
  /\ MaxCalls \in Nat
  /\ NestedBlocks \subseteq BOOLEAN

Frames  == 1 .. MaxDepth
UserFds == (1 .. Nfds) \ {PipeIndex}

VARIABLES
  \* shared by all threads
  queued,     \* number of callbacks in the awake ring
  pending,    \* pipe_pending: a byte is in the pipe or about to be
  pipe,       \* bytes in thread_filedes
  message,    \* thread_message_
  uiOwner,    \* who holds fltk_mutex
  \* workers
  wpc,        \* worker -> where it is
  calls,      \* worker -> Fl::awake() calls made so far
  \* environment
  readable,   \* the user's descriptors that have input
  \* main thread: one frame for every active Fl::wait(), the last one running
  depth,      \* number of active Fl::wait() calls
  phase,      \* frame -> what it is doing
  blocks,     \* frame -> its time_to_wait is not zero
  ready,      \* frame -> fdt: the descriptors select() reported
  next        \* frame -> the loop variable i of the dispatch loop

sharedVars == <<queued, pending, pipe, message>>
workerVars == <<wpc, calls>>
frameVars  == <<depth, phase, blocks, ready, next>>
pipeVars == <<sharedVars, uiOwner, workerVars, readable, frameVars>>

PipeInit ==
  /\ queued = 0 /\ pending = 0 /\ pipe = 0 /\ message = NULL
  /\ uiOwner = Main
  /\ wpc = [w \in Workers |-> "idle"] /\ calls = [w \in Workers |-> 0]
  /\ readable = {}
  /\ depth = 1
  /\ phase = [d \in Frames |-> IF d = 1 THEN "call" ELSE "none"]
  /\ blocks = [d \in Frames |-> d = 1]
  /\ ready = [d \in Frames |-> {}]
  /\ next = [d \in Frames |-> 1]

-----------------------------------------------------------------------------
(* Worker threads                                                          *)

\* Fl::lock(); update widgets; Fl::unlock().
LockUI(w) ==
  /\ wpc[w] = "idle" /\ uiOwner = NULL
  /\ calls[w] < MaxCalls
  /\ uiOwner' = w
  /\ wpc' = [wpc EXCEPT ![w] = "ui"]
  /\ UNCHANGED <<sharedVars, calls, readable, frameVars>>

UnlockUI(w) ==
  /\ wpc[w] = "ui"
  /\ uiOwner' = NULL
  /\ wpc' = [wpc EXCEPT ![w] = "push"]
  /\ UNCHANGED <<sharedVars, calls, readable, frameVars>>

\* A program may also call Fl::awake() without having taken the lock.
CallAwake(w) ==
  /\ wpc[w] = "idle" /\ calls[w] < MaxCalls
  /\ wpc' = [wpc EXCEPT ![w] = "push"]
  /\ UNCHANGED <<sharedVars, uiOwner, calls, readable, frameVars>>

\* push_awake_handler(): one more callback, unless the ring is full; with
\* awake_once() any number k of equal ones are removed first.  Plain
\* Fl::awake() and Fl::awake(msg) push nothing.
Push(w) ==
  /\ wpc[w] = "push"
  /\ \/ \E k \in 0 .. queued :
          queued' = IF queued - k < Capacity THEN queued - k + 1 ELSE queued
     \/ UNCHANGED queued
  /\ wpc' = [wpc EXCEPT ![w] = "signal"]
  /\ UNCHANGED <<pending, pipe, message, uiOwner, calls, readable, frameVars>>

\* Fl_Posix_System_Driver::awake(msg): thread_message_ = msg and
\* pipe_pending.exchange(1).
Signal(w) ==
  /\ wpc[w] = "signal"
  /\ message' \in {NULL, w}
  /\ pending' = 1
  /\ wpc' = [wpc EXCEPT ![w] = IF pending = 0 THEN "write" ELSE "idle"]
  /\ calls' = [calls EXCEPT ![w] = @ + 1]
  /\ UNCHANGED <<queued, pipe, uiOwner, readable, frameVars>>

\* The write side is O_NONBLOCK: writing to a full pipe does nothing.
Write(w) ==
  /\ wpc[w] = "write"
  /\ pipe' = IF pipe < PipeCapacity THEN pipe + 1 ELSE pipe
  /\ wpc' = [wpc EXCEPT ![w] = "idle"]
  /\ UNCHANGED <<queued, pending, message, uiOwner, calls, readable, frameVars>>

WorkerStep(w) ==
  LockUI(w) \/ UnlockUI(w) \/ CallAwake(w) \/ Push(w) \/ Signal(w) \/ Write(w)

\* Input arrives on a descriptor of the user (the X server, a socket).
Input(f) ==
  /\ f \notin readable
  /\ readable' = readable \union {f}
  /\ UNCHANGED <<sharedVars, uiOwner, workerVars, frameVars>>

-----------------------------------------------------------------------------
(* The main thread: the frame that runs is phase[depth]                    *)

Running(p) == phase[depth] = p
Become(p)  == phase' = [phase EXCEPT ![depth] = p]

\* fl_unlock_function(), and the thread is inside poll() or select().
BeginPoll ==
  /\ Running("call")
  /\ uiOwner' = NULL
  /\ Become("poll")
  /\ UNCHANGED <<sharedVars, workerVars, readable, depth, blocks, ready, next>>

ReadyNow == readable \union (IF pipe > 0 THEN {PipeIndex} ELSE {})

EndPoll ==
  /\ Running("poll")
  /\ blocks[depth] => ReadyNow # {}
  /\ ready' = [ready EXCEPT ![depth] = ReadyNow]
  /\ Become("relock")
  /\ UNCHANGED <<sharedVars, uiOwner, workerVars, readable, depth, blocks, next>>

\* Mutant: the event loop does not call fl_lock_function() after poll().
RelockMissing ==
  /\ Running("relock")
  /\ Become("dispatch")
  /\ next' = [next EXCEPT ![depth] = 1]
  /\ UNCHANGED <<sharedVars, uiOwner, workerVars, readable, depth, blocks, ready>>

\* fl_lock_function(), then the dispatch loop from i = 0.
Relock ==
  /\ Running("relock") /\ uiOwner = NULL
  /\ uiOwner' = Main
  /\ Become("dispatch")
  /\ next' = [next EXCEPT ![depth] = 1]
  /\ UNCHANGED <<sharedVars, workerVars, readable, depth, blocks, ready>>

\* Mutant: callbacks are called without looking at the reported events.
DispatchUnchecked ==
  /\ Running("dispatch") /\ next[depth] <= Nfds
  /\ next' = [next EXCEPT ![depth] = @ + 1]
  /\ Become(IF next[depth] = PipeIndex THEN "clear" ELSE "callback")
  /\ readable' = readable \ {next[depth]}
  /\ UNCHANGED <<sharedVars, uiOwner, workerVars, depth, blocks, ready>>

\* if (FD_ISSET(fd[i].fd, &fdt)) fd[i].cb(...), for the descriptor whose turn
\* it is: the snapshot decides, whatever happened to the descriptor since.
Dispatch ==
  /\ Running("dispatch") /\ next[depth] <= Nfds
  /\ next' = [next EXCEPT ![depth] = @ + 1]
  /\ Become(CASE next[depth] \notin ready[depth] -> "dispatch"
              [] next[depth] = PipeIndex /\ PipeIndex \in ready[depth] -> "clear"
              [] OTHER -> "callback")
  /\ readable' = readable \ ({next[depth]} \intersect ready[depth])
  /\ UNCHANGED <<sharedVars, uiOwner, workerVars, depth, blocks, ready>>

\* thread_awake_cb(): pipe_pending.store(0) ...
ClearPending ==
  /\ Running("clear")
  /\ pending' = 0
  /\ Become("read")
  /\ UNCHANGED <<queued, pipe, message, uiOwner, workerVars, readable, depth,
                 blocks, ready, next>>

\* ... read(fd, &dummy, 1), which blocks while the pipe is empty ...
ReadByte ==
  /\ Running("read") /\ pipe > 0
  /\ pipe' = pipe - 1
  /\ Become("drain")
  /\ UNCHANGED <<queued, pending, message, uiOwner, workerVars, readable, depth,
                 blocks, ready, next>>

\* ... and while (pop_awake_handler(func, data) == 0) (*func)(data).
Drain ==
  /\ Running("drain")
  /\ \/ queued > 0 /\ queued' = queued - 1 /\ Become("handler")
     \/ queued = 0 /\ UNCHANGED queued /\ Become("dispatch")
  /\ UNCHANGED <<pending, pipe, message, uiOwner, workerVars, readable, depth,
                 blocks, ready, next>>

\* Fl::thread_message(), called by a callback.
ThreadMessage ==
  /\ Running("handler") \/ Running("callback")
  /\ message # NULL
  /\ message' = NULL
  /\ UNCHANGED <<queued, pending, pipe, uiOwner, workerVars, readable, frameVars>>

\* A callback of the user runs the event loop.
NestedWait(b) ==
  /\ Running("handler") \/ Running("callback")
  /\ depth < MaxDepth
  /\ depth' = depth + 1
  /\ phase' = [phase EXCEPT ![depth + 1] = "call"]
  /\ blocks' = [blocks EXCEPT ![depth + 1] = b]
  /\ UNCHANGED <<sharedVars, uiOwner, workerVars, readable, ready, next>>

\* Mutant: thread_awake_cb() runs one callback per wake-up: "if", not "while".
CallbackReturnsOnce ==
  /\ Running("handler") \/ Running("callback")
  /\ Become("dispatch")
  /\ UNCHANGED <<sharedVars, uiOwner, workerVars, readable, depth, blocks, ready,
                 next>>

\* A callback of the user returns.
CallbackReturns ==
  /\ \/ Running("handler") /\ Become("drain")
     \/ Running("callback") /\ Become("dispatch")
  /\ UNCHANGED <<sharedVars, uiOwner, workerVars, readable, depth, blocks, ready,
                 next>>

\* The dispatch loop is over: Fl::wait() returns to the callback that called
\* it, or to Fl::run(), which calls it again.
WaitReturn ==
  /\ Running("dispatch") /\ next[depth] > Nfds
  /\ depth' = IF depth = 1 THEN 1 ELSE depth - 1
  /\ Become(IF depth = 1 THEN "call" ELSE "none")
  /\ ready' = [ready EXCEPT ![depth] = {}]
  /\ blocks' = [blocks EXCEPT ![depth] = (depth = 1)]
  /\ next' = [next EXCEPT ![depth] = 1]
  /\ UNCHANGED <<sharedVars, uiOwner, workerVars, readable>>

MainStep ==
  \/ BeginPoll \/ EndPoll \/ Relock \/ Dispatch
  \/ ClearPending \/ ReadByte \/ Drain
  \/ ThreadMessage \/ CallbackReturns \/ WaitReturn
  \/ \E b \in NestedBlocks : NestedWait(b)

PipeNext ==
  \/ \E w \in Workers : WorkerStep(w)
  \/ \E f \in UserFds : Input(f)
  \/ MainStep

PipeSpec == PipeInit /\ [][PipeNext]_pipeVars

\* The main thread keeps running, fltk_mutex is obtained by who keeps asking,
\* and every callback returns however often it runs a nested loop; a worker
\* finishes what it began.
PipeFairSpec ==
  /\ PipeSpec
  /\ WF_pipeVars(MainStep) /\ SF_pipeVars(Relock)
  /\ \A d \in Frames : SF_pipeVars(depth = d /\ CallbackReturns)
  /\ \A w \in Workers : WF_pipeVars(UnlockUI(w) \/ Push(w) \/ Signal(w) \/ Write(w))

-----------------------------------------------------------------------------
Phases == {"none", "call", "poll", "relock", "dispatch", "clear", "read",
           "drain", "handler", "callback"}

PipeTypeOK ==
  /\ queued \in 0 .. Capacity /\ pending \in {0, 1} /\ pipe \in 0 .. PipeCapacity
  /\ message \in Workers \union {NULL}
  /\ uiOwner \in Workers \union {Main, NULL}
  /\ wpc \in [Workers -> {"idle", "ui", "push", "signal", "write"}]
  /\ calls \in [Workers -> Nat]
  /\ readable \subseteq UserFds
  /\ depth \in Frames
  /\ phase \in [Frames -> Phases]
  /\ blocks \in [Frames -> BOOLEAN]
  /\ ready \in [Frames -> SUBSET (1 .. Nfds)]
  /\ next \in [Frames -> 1 .. Nfds + 1]

Writing == \E w \in Workers : wpc[w] = "write"

\* The lock excludes: while the main thread runs callbacks no worker is in its
\* Fl::lock() section, and never are two workers.
LockExcludes ==
  /\ \A w \in Workers : wpc[w] = "ui" => phase[depth] \in {"poll", "relock"}
  /\ \A v, w \in Workers : wpc[v] = "ui" /\ wpc[w] = "ui" => v = w

\* pipe_pending keeps the pipe from overflowing ("Only write to the pipe if
\* there is no data waiting"): at most one worker is about to write, and no
\* write ever finds more than one byte in the pipe.
PipeBounded ==
  /\ \A v, w \in Workers : wpc[v] = "write" /\ wpc[w] = "write" => v = w
  /\ pipe + (IF Writing THEN 1 ELSE 0) <= 2

\* thread_awake_cb() finds its byte: read() never blocks the main thread,
\* which holds the lock at that moment.
ReadNeverBlocks == Running("read") => pipe > 0

\* No callback is left behind by the race between pipe_pending.store(0),
\* read() and a worker's exchange(1): when the main thread sleeps in poll()
\* and is not inside an awake callback, a queued callback has its wake-up in
\* the pipe, or a worker is about to put it there.
InHandler == \E d \in Frames : phase[d] = "handler"
NoLostWakeup ==
  /\ Running("poll") /\ ~InHandler /\ queued > 0
  => pipe > 0 \/ \E w \in Workers : wpc[w] \in {"signal", "write"}

\* Fl::awake(cb, data): "The callback will be executed during the main
\* thread's next event handling cycle", the ones of a nested loop included:
\* the main thread does not go to sleep on a queue nobody will wake it for.
NestedLoopWakes ==
  /\ Running("poll") /\ blocks[depth] /\ queued > 0
  => pipe > 0 \/ \E w \in Workers : wpc[w] \in {"signal", "write"}

\* A callback of the frame d has started a loop that may sleep for ever.
InnerBlocks(d) == \E e \in Frames : d < e /\ e <= depth /\ blocks[e]

\* Every callback that was queued is taken in the end, even if no thread ever
\* calls Fl::awake() again, unless a callback runs a blocking loop of its own.
QueueDrains == queued > 0 ~> queued = 0 \/ InnerBlocks(1)

\* Fl::wait() "then handles the events and calls the callbacks and then
\* returns": the main thread does not stay between select() and the return,
\* unless a callback runs a blocking loop of its own.
Handling(d) == phase[d] \in {"dispatch", "clear", "read", "drain", "handler", "callback"}
WaitReturns == \A d \in Frames : Handling(d) ~> ~Handling(d) \/ InnerBlocks(d)
=============================================================================
