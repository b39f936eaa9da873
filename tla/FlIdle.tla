------------------------------- MODULE FlIdle -------------------------------
(***************************************************************************)
(* Idle callbacks: the linked ring of Fl_add_idle.cxx, and Fl::wait()      *)
(* calling the next one through run_idle() (Fl.cxx).  An idle callback,    *)
(* and any other callback, may add and remove idle callbacks and run       *)
(* Fl::wait() again.                                                       *)
(***************************************************************************)
EXTENDS FlEntries, FiniteSets, SequencesExt, Subsequences

VARIABLES
  first, last,   \* the entry to call next, the entry just called
  freelist,      \* entries to reuse
  idle_,         \* Fl::Private::idle_ is set to call_idle
  in_idle        \* run_idle()'s recursion guard

ringVars == <<first, last, freelist, nxt, handler, allocated, idle_>>
idleVars == <<ringVars, in_idle, stack>>

IdleInit ==
  /\ NoEntries
  /\ first = 0 /\ last = 0 /\ freelist = 0
  /\ idle_ = FALSE /\ in_idle = FALSE

\* A call of Fl::wait() runs the idle callback of an entry (the entry's
\* number) or the callbacks of events (0).
Running == IF stack = <<>> THEN 0 ELSE Last(stack)

\* The entries from first to last, as the loops of remove_idle() and has_idle()
\* meet them.
Ring ==
  LET met == Follow(nxt, first, MaxEntries)
  IN  IF first = 0 THEN <<>> ELSE SubSeq(met, 1, SelectInSeq(met, LAMBDA e : e = last))

-----------------------------------------------------------------------------
add_idle(h) ==
  LET p == IF freelist # 0 THEN freelist ELSE allocated + 1
  IN  /\ freelist # 0 \/ allocated < MaxEntries
      /\ freelist' = IF freelist # 0 THEN nxt[freelist] ELSE 0
      /\ allocated' = IF freelist # 0 THEN allocated ELSE p
      /\ handler' = [handler EXCEPT ![p] = h]
      /\ last' = p
      /\ IF first # 0
         THEN /\ nxt' = [nxt EXCEPT ![last] = p, ![p] = first]
              /\ UNCHANGED <<first, idle_>>
         ELSE /\ nxt' = [nxt EXCEPT ![p] = p]
              /\ first' = p
              /\ idle_' = TRUE
      /\ UNCHANGED <<in_idle, stack>>

\* Mutant: the predecessor keeps pointing at the removed entry.
RemoveKeepsLink(h) ==
  LET i == SelectInSeq(Ring, LAMBDA e : handler[e] = h)
      p == Ring[i]
      l == IF i = 1 THEN last ELSE Ring[i - 1]
  IN  /\ i > 0
      /\ IF l = p THEN first' = 0 /\ last' = 0 /\ idle_' = FALSE
                  ELSE last' = l /\ first' = nxt[p] /\ UNCHANGED idle_
      /\ nxt' = [nxt EXCEPT ![p] = freelist]
      /\ freelist' = p
      /\ UNCHANGED <<handler, allocated, in_idle, stack>>

\* The first entry that matches, counted from first, leaves the ring; the
\* ring then starts behind it.
remove_idle(h) ==
  LET i == SelectInSeq(Ring, LAMBDA e : handler[e] = h)
      p == Ring[i]
      l == IF i = 1 THEN last ELSE Ring[i - 1]
  IN  /\ i > 0
      /\ IF l = p
         THEN /\ first' = 0 /\ last' = 0
              /\ idle_' = FALSE
              /\ nxt' = [nxt EXCEPT ![p] = freelist]
         ELSE /\ last' = l /\ first' = nxt[p]
              /\ nxt' = [nxt EXCEPT ![l] = nxt[p], ![p] = freelist]
              /\ UNCHANGED idle_
      /\ freelist' = p
      /\ UNCHANGED <<handler, allocated, in_idle, stack>>

\* Mutant: call_idle() does not advance the ring.
BeginIdleWaitStays ==
  /\ Depth < MaxDepth
  /\ IF idle_ /\ ~in_idle
     THEN in_idle' = TRUE /\ stack' = Append(stack, first)
     ELSE stack' = Append(stack, 0) /\ UNCHANGED in_idle
  /\ UNCHANGED ringVars

\* Fl::wait() is called: run_idle(), call_idle().
BeginIdleWait ==
  /\ Depth < MaxDepth
  /\ IF idle_ /\ ~in_idle
     THEN /\ in_idle' = TRUE
          /\ last' = first /\ first' = nxt[first]
          /\ stack' = Append(stack, first)
     ELSE /\ stack' = Append(stack, 0)
          /\ UNCHANGED <<in_idle, first, last>>
  /\ UNCHANGED <<freelist, nxt, handler, allocated, idle_>>

\* The idle callback returns to run_idle(); Fl::wait() goes on to its events.
IdleReturns ==
  /\ Running # 0
  /\ in_idle' = FALSE
  /\ stack' = [stack EXCEPT ![Depth] = 0]
  /\ UNCHANGED ringVars

EndIdleWait ==
  /\ stack # <<>> /\ Running = 0
  /\ stack' = Front(stack)
  /\ UNCHANGED <<ringVars, in_idle>>

IdleNext ==
  \/ \E h \in Handlers : add_idle(h) \/ remove_idle(h)
  \/ BeginIdleWait \/ IdleReturns \/ EndIdleWait

IdleSpec == IdleInit /\ [][IdleNext]_idleVars

\* Fl::run() calls Fl::wait() again and again; every callback returns, however
\* often it runs a nested loop.
IdleFairSpec ==
  /\ IdleSpec
  /\ WF_idleVars(stack = <<>> /\ BeginIdleWait)
  /\ \A d \in 1 .. MaxDepth : SF_idleVars(Depth = d /\ IdleReturns) /\ SF_idleVars(Depth = d /\ EndIdleWait)
-----------------------------------------------------------------------------
IdleTypeOK ==
  /\ {first, last, freelist} \subseteq Entries \union {0}
  /\ first = 0 <=> last = 0
  /\ nxt \in [Entries -> Entries \union {0}]
  /\ handler \in [Entries -> Handlers]
  /\ allocated \in 0 .. MaxEntries
  /\ idle_ \in BOOLEAN /\ in_idle \in BOOLEAN
  /\ Depth <= MaxDepth /\ \A d \in 1 .. Depth : stack[d] \in Entries \union {0}

\* The pointers form one ring, "last->next == first", and one free list; every
\* allocated entry is in exactly one of them, once, also when the callback that
\* is running removed itself or its neighbours.  Fl::idle() is set exactly while
\* the ring is not empty: call_idle() never finds it empty, and Fl::wait() does
\* not spin for nothing.  "FLTK will not recursively call the idle callback".
RingClosed ==
  LET freed == Kept(Follow(nxt, freelist, MaxEntries), Entries)
  IN  /\ IdleTypeOK
      /\ first # 0 => nxt[last] = first
      /\ Len(Ring) + Len(freed) = allocated
      /\ ToSet(Ring \o freed) = 1 .. allocated
      /\ idle_ <=> first # 0
      /\ Cardinality({d \in 1 .. Depth : stack[d] # 0}) <= 1

\* "all idle callbacks are called in turn": if from some time on a callback
\* only removes itself, before it adds others, whoever is on the ring is called
\* sooner or later, or removed.  remove_idle() of another entry moves first, so
\* a program that keeps doing that can keep a callback from being called.
RemovesItself ==
  \A h \in Handlers : remove_idle(h) => last = Running /\ freelist' = Running
InTurn ==
  <>[][RemovesItself]_idleVars
    => \A e \in Entries : e \in ToSet(Ring) ~> Running = e \/ e \notin ToSet(Ring)
=============================================================================
