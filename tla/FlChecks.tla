------------------------------ MODULE FlChecks ------------------------------
(***************************************************************************)
(* Check callbacks (Fl.cxx): the linked list of add_check() and            *)
(* remove_check(), and run_checks(), which Fl::wait() calls before it      *)
(* flushes and sleeps.  A check may add and remove checks and may call     *)
(* Fl::wait() again; the static pointer next_check is shared by all the    *)
(* nested calls.                                                           *)
(***************************************************************************)
EXTENDS FlEntries, SequencesExt, Subsequences

VARIABLES
  first_check,  \* the list
  next_check,   \* the check that the running pass calls next
  free_check    \* entries to reuse

listVars == <<first_check, free_check, nxt, handler, allocated>>
vars == <<listVars, next_check, stack>>

\* A call of Fl::wait(): its phase, the checks that its pass has yet to call
\* and the ones it has called (both history).
Frame(ph, todo) == [phase |-> ph, todo |-> todo, called |-> {}]

Init ==
  /\ NoEntries
  /\ first_check = 0 /\ next_check = 0 /\ free_check = 0

Top   == stack[Depth]
Phase == IF stack = <<>> THEN "main" ELSE Top.phase
UserCode == Phase \in {"main", "callback", "events"}

\* The entries of a list that starts at the pointer p.
ListFrom(p) == Kept(Follow(nxt, p, MaxEntries), Entries)
Checks == ListFrom(first_check)

\* The entries that match, and those that do not.
Matching(h) == {e \in Entries : handler[e] = h}
Others(h)   == Entries \ Matching(h)

\* The pointer to the first entry of s, and s linked up with the list at tail
\* behind it.
First(s, tail) == IF s = <<>> THEN tail ELSE Head(s)
Link(s, tail) ==
  [e \in Entries |->
     IF e \notin ToSet(s) THEN nxt[e]
     ELSE LET i == CHOOSE k \in 1 .. Len(s) : s[k] = e
          IN  IF i = Len(s) THEN tail ELSE s[i + 1]]
-----------------------------------------------------------------------------
add_check(h) ==
  LET t == IF free_check # 0 THEN free_check ELSE allocated + 1
  IN  /\ UserCode
      /\ free_check # 0 \/ allocated < MaxEntries
      /\ free_check' = IF free_check # 0 THEN nxt[free_check] ELSE 0
      /\ allocated' = IF free_check # 0 THEN allocated ELSE t
      /\ handler' = [handler EXCEPT ![t] = h]
      /\ nxt' = [nxt EXCEPT ![t] = first_check]
      /\ next_check' = IF next_check = first_check THEN t ELSE next_check
      /\ first_check' = t
      /\ UNCHANGED stack

Forget(ts) ==
  stack' = [i \in 1 .. Depth |-> [stack[i] EXCEPT !.todo = @ \ ts, !.called = @ \ ts]]

\* Mutant: next_check is left on an entry that is freed.
RemoveKeepsNext(h) ==
  LET gone == Kept(Checks, Matching(h))
      kept == Kept(Checks, Others(h))
  IN  /\ UserCode /\ gone # <<>>
      /\ first_check' = First(kept, 0)
      /\ free_check' = First(Reverse(gone), free_check)
      /\ nxt' = [e \in Entries |-> IF e \in ToSet(kept) THEN Link(kept, 0)[e]
                                   ELSE Link(Reverse(gone), free_check)[e]]
      /\ Forget(ToSet(gone))
      /\ UNCHANGED <<handler, allocated, next_check>>

\* Every entry that matches goes to the free list; next_check moves on to the
\* next entry that stays.
remove_check(h) ==
  LET gone == Kept(Checks, Matching(h))
      kept == Kept(Checks, Others(h))
  IN  /\ UserCode /\ gone # <<>>
      /\ next_check' = First(Kept(ListFrom(next_check), Others(h)), 0)
      /\ first_check' = First(kept, 0)
      /\ free_check' = First(Reverse(gone), free_check)
      /\ nxt' = [e \in Entries |-> IF e \in ToSet(kept) THEN Link(kept, 0)[e]
                                   ELSE Link(Reverse(gone), free_check)[e]]
      /\ Forget(ToSet(gone))
      /\ UNCHANGED <<handler, allocated>>

\* Mutant: run_checks() starts a pass whatever next_check says.
BeginWaitUnguarded ==
  /\ UserCode /\ Depth < MaxDepth
  /\ next_check' = first_check
  /\ stack' = Append(stack, Frame("checks", ToSet(Checks)))
  /\ UNCHANGED listVars

\* Fl::wait() is called; run_checks() starts a pass unless one is under way.
BeginWait ==
  /\ UserCode /\ Depth < MaxDepth
  /\ stack' = Append(stack, IF next_check = first_check
                            THEN Frame("checks", ToSet(Checks))
                            ELSE Frame("events", {}))
  /\ UNCHANGED <<listVars, next_check>>

\* Mutant: the check to call next is found after the callback, from the list.
RunCheckRestarts ==
  /\ Phase = "checks" /\ next_check # 0
  /\ next_check' = IF nxt[next_check] = 0 THEN 0 ELSE nxt[nxt[next_check]]
  /\ stack' = [stack EXCEPT ![Depth] = [phase |-> "callback", todo |-> @.todo \ {next_check},
                                        called |-> @.called \union {next_check}]]
  /\ UNCHANGED listVars

RunCheck ==
  /\ Phase = "checks" /\ next_check # 0
  /\ next_check' = nxt[next_check]
  /\ stack' = [stack EXCEPT ![Depth] = [phase |-> "callback", todo |-> @.todo \ {next_check},
                                        called |-> @.called \union {next_check}]]
  /\ UNCHANGED listVars

CheckReturns ==
  /\ Phase = "callback"
  /\ stack' = [stack EXCEPT ![Depth].phase = "checks"]
  /\ UNCHANGED <<listVars, next_check>>

\* The pass is over; Fl::wait() goes on to sleep and to its events.
EndChecks ==
  /\ Phase = "checks" /\ next_check = 0
  /\ next_check' = first_check
  /\ stack' = [stack EXCEPT ![Depth] = Frame("events", @.todo)]
  /\ UNCHANGED listVars

EndWait ==
  /\ Phase = "events"
  /\ stack' = Front(stack)
  /\ UNCHANGED <<listVars, next_check>>

Next ==
  \/ \E h \in Handlers : add_check(h) \/ remove_check(h)
  \/ BeginWait \/ RunCheck \/ CheckReturns \/ EndChecks \/ EndWait

Spec == Init /\ [][Next]_vars

\* The program keeps running; every callback returns, however many checks it
\* adds or removes and however often it runs a nested loop.
FairSpec ==
  /\ Spec
  /\ WF_vars(RunCheck \/ EndChecks) /\ WF_vars(stack = <<>> /\ BeginWait)
  /\ \A d \in 1 .. MaxDepth : SF_vars(Depth = d /\ CheckReturns) /\ SF_vars(Depth = d /\ EndWait)
-----------------------------------------------------------------------------
TypeOK ==
  /\ {first_check, next_check, free_check} \subseteq Entries \union {0}
  /\ first_check = 0 => next_check = 0
  /\ nxt \in [Entries -> Entries \union {0}]
  /\ handler \in [Entries -> Handlers]
  /\ allocated \in 0 .. MaxEntries
  /\ Depth <= MaxDepth
  /\ \A d \in 1 .. Depth : stack[d] \in [phase : {"checks", "callback", "events"},
                                        todo : SUBSET Entries, called : SUBSET Entries]

\* The list and the free list are disjoint chains that hold every entry once,
\* and next_check never dangles: it is null or an entry of the list, however
\* callbacks and nested loops changed the list meanwhile.
ListsIntact ==
  LET freed == ListFrom(free_check)
  IN  /\ TypeOK
      /\ Len(Checks) + Len(freed) = allocated
      /\ ToSet(Checks \o freed) = 1 .. allocated
      /\ next_check # 0 => next_check \in ToSet(Checks)

\* A pass leaves nobody out: when it ends, every check that was there when it
\* began, and was not removed, has been called.
NoneLeftOut == \A d \in 1 .. Depth : stack[d].phase = "events" => stack[d].todo = {}

\* A pass calls each check once, unless it is removed and added again: nested
\* loops do not move next_check back.
CalledOnce == [][RunCheck => next_check \notin Top.called]_vars

\* "checks are a bit messy so that add/remove and wait may be called from inside
\* them without causing an infinite loop": every pass ends.  A check that
\* removes and adds itself makes the pass endless.
PassEnds == \A d \in 1 .. MaxDepth :
  (Depth >= d /\ stack[d].phase \in {"checks", "callback"})
    ~> (Depth < d \/ stack[d].phase = "events")

\* Every pass ends if from some time on no check is removed, however often the
\* checks nest event loops and add checks.
NoRemoval == \A h \in Handlers : ~remove_check(h)
PassEndsUnlessRemoving == <>[][NoRemoval]_vars => PassEnds
=============================================================================
