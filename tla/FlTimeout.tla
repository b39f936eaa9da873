----------------------------- MODULE FlTimeout ------------------------------
(***************************************************************************)
(* The timer queue (Fl_Timeout.cxx) and the part of Fl::wait() that runs   *)
(* it: do_timeouts(), the sleep limited by time_to_wait(), and the event   *)
(* callbacks that follow.  A timer's callback, and any event callback, may *)
(* add, repeat and remove timers and may run Fl::wait() again, so the      *)
(* calls of Fl::wait() form a stack.                                       *)
(*                                                                         *)
(* One tick of the clock is 0.001 s, the shortest delay repeat_timeout()   *)
(* sets.  Timer entries are numbered; the lists are sequences of numbers.  *)
(***************************************************************************)
EXTENDS Integers, Sequences, SequencesExt, Subsequences

CONSTANTS
  Callbacks,   \* callback functions
  Data,        \* their user data
  NULL,        \* the null data pointer, a member of Data
  Delays,      \* delays the program asks for, in ticks
  MaxTimers,   \* bound on the timer entries allocated
  MaxClock,    \* bound on the clock
  MaxDepth     \* bound on nested Fl::wait() calls

ASSUME TimeoutAssumption ==
  /\ Callbacks # {} /\ NULL \in Data /\ Delays \subseteq Nat
  /\ MaxTimers \in Nat /\ MaxClock \in Nat /\ MaxDepth \in Nat \ {0}

Timers == 1 .. MaxTimers

VARIABLES
  clock,       \* what gettimeofday() returns
  prev,        \* elapsed_time(): the clock at its latest call
  active,      \* first_timeout: timers waiting, by time
  current,     \* current_timeout: timers whose callbacks run, latest first
  free,        \* free_timeout: entries to reuse
  allocated,   \* entries allocated with new: 1 .. allocated
  time, skip,  \* fields of the entries
  callback, data,
  due,         \* history: when the entry's callback was asked for
  stack        \* the calls of Fl::wait(), innermost last

lists  == <<active, current, free, allocated>>
fields == <<time, skip, callback, data, due>>
vars   == <<clock, prev, lists, fields, stack>>

\* A call of Fl::wait(): its phase, the timer whose callback it runs (0 for
\* none), when its poll() ends, and, as history, the entries inserted since its
\* do_timeouts() began.
NewFrame == [phase |-> "timeouts", timer |-> 0, until |-> 0, new |-> {}]

Init ==
  /\ clock = 0 /\ prev = 0
  /\ active = <<>> /\ current = <<>> /\ free = <<>> /\ allocated = 0
  /\ time = [t \in Timers |-> 0] /\ skip = [t \in Timers |-> 0]
  /\ callback \in [Timers -> {CHOOSE c \in Callbacks : TRUE}]
  /\ data = [t \in Timers |-> NULL]
  /\ due = [t \in Timers |-> 0]
  /\ stack = <<>>

Depth == Len(stack)
Top   == stack[Depth]
SetTop(f) == stack' = [stack EXCEPT ![Depth] = f]

\* The program's own code runs: before its first Fl::wait(), in a timer's
\* callback, or in the callback of an event.
Phase == IF stack = <<>> THEN "main" ELSE Top.phase
UserCode == Phase \in {"main", "callback", "events"}

Tick ==
  /\ clock < MaxClock
  /\ clock' = clock + 1
  /\ UNCHANGED <<prev, lists, fields, stack>>

-----------------------------------------------------------------------------
(* elapse_timeouts(): the timers of both lists lose the time since the     *)
(* latest call.                                                            *)
Listed == ToSet(active) \union ToSet(current)
Elapsed(tm, ts) == [t \in Timers |-> IF t \in ts THEN tm[t] - (clock - prev) ELSE tm[t]]

\* Mutant: insert() compares the wrong way round.
InsertReversed(seq, t, tm) ==
  LET earlier == SelectInSeq(seq, LAMBDA u : tm[u] < tm[t])
  IN  IF earlier = 0 THEN Append(seq, t) ELSE InsertAt(seq, earlier, t)

\* insert(): before the first timer that expires later.
Insert(seq, t, tm) ==
  LET later == SelectInSeq(seq, LAMBDA u : tm[u] > tm[t])
  IN  IF later = 0 THEN Append(seq, t) ELSE InsertAt(seq, later, t)

\* get(): an entry of the free list, or a new one.
HasEntry == free # <<>> \/ allocated < MaxTimers
Entry    == IF free # <<>> THEN Head(free) ELSE allocated + 1

\* elapse_timeouts(); get(); insert(): a timer that expires after delay.
Schedule(delay, cb, d, when) ==
  LET t  == Entry
      tm == [Elapsed(time, Listed) EXCEPT ![t] = delay]
  IN  /\ prev' = clock
      /\ time' = tm
      /\ active' = Insert(active, t, tm)
      /\ IF free # <<>> THEN free' = Tail(free) /\ UNCHANGED allocated
                        ELSE allocated' = t /\ UNCHANGED free
      /\ skip' = [skip EXCEPT ![t] = 1]
      /\ callback' = [callback EXCEPT ![t] = cb]
      /\ data' = [data EXCEPT ![t] = d]
      /\ due' = [due EXCEPT ![t] = when]
      /\ stack' = [i \in 1 .. Depth |-> [stack[i] EXCEPT !.new = @ \union {t}]]
      /\ UNCHANGED <<clock, current>>

\* Mutant: add_timeout() does not call elapse_timeouts() first.
AddWithoutElapse(delay, cb, d) ==
  /\ UserCode /\ HasEntry
  /\ time' = [time EXCEPT ![Entry] = delay]
  /\ active' = Insert(active, Entry, time')
  /\ IF free # <<>> THEN free' = Tail(free) /\ UNCHANGED allocated
                    ELSE allocated' = allocated + 1 /\ UNCHANGED free
  /\ skip' = [skip EXCEPT ![Entry] = 1]
  /\ callback' = [callback EXCEPT ![Entry] = cb]
  /\ data' = [data EXCEPT ![Entry] = d]
  /\ due' = [due EXCEPT ![Entry] = clock + delay]
  /\ UNCHANGED <<clock, prev, current, stack>>

add_timeout(delay, cb, d) ==
  /\ UserCode /\ HasEntry
  /\ Schedule(delay, cb, d, clock + delay)

\* The delay counts from when the running timer was due, not from now; if
\* that is past already, the new timer is set to 0.001 s.
repeat_timeout(delay, cb, d) ==
  /\ UserCode /\ HasEntry
  /\ IF current = <<>>
     THEN Schedule(delay, cb, d, clock + delay)
     ELSE LET tm == delay + Elapsed(time, Listed)[Head(current)]
          IN  Schedule(IF tm < 0 THEN 1 ELSE tm, cb, d,
                       IF due[Head(current)] + delay < clock
                       THEN clock + 1 ELSE due[Head(current)] + delay)

\* The history of the entries ts, which are freed, is forgotten.
Forget(ts) == due' = [t \in Timers |-> IF t \in ts THEN 0 ELSE due[t]]
Without(st, ts) == [i \in 1 .. Len(st) |-> [st[i] EXCEPT !.new = @ \ ts]]

\* The entries ts leave the active list; each is pushed on the free list.
Discard(ts) ==
  /\ active' = Kept(active, Timers \ ts)
  /\ free' = Reverse(Kept(active, ts)) \o free
  /\ Forget(ts)
  /\ stack' = Without(stack, ts)
  /\ UNCHANGED <<clock, prev, current, allocated, time, skip, callback, data>>

Matches(t, cb, d) == callback[t] = cb /\ (data[t] = d \/ d = NULL)

remove_timeout(cb, d) ==
  /\ UserCode
  /\ Discard({t \in ToSet(active) : Matches(t, cb, d)})

\* Only the first one that matches.
remove_next_timeout(cb, d) ==
  /\ UserCode
  /\ LET i == SelectInSeq(active, LAMBDA t : Matches(t, cb, d))
     IN  i > 0 /\ Discard({active[i]})

\* Fl::ready(): elapse_timeouts(), and a look at the first timer and at poll().
ready ==
  /\ UserCode
  /\ prev' = clock /\ time' = Elapsed(time, Listed)
  /\ UNCHANGED <<clock, lists, skip, callback, data, due, stack>>

-----------------------------------------------------------------------------
(* Fl::wait()                                                              *)

\* The program calls Fl::wait(); do_timeouts() clears the skip flags of the
\* timers that exist now and elapses them.
BeginWait ==
  /\ UserCode /\ Depth < MaxDepth
  /\ skip' = [t \in Timers |-> IF t \in ToSet(active) THEN 0 ELSE skip[t]]
  /\ IF active = <<>> THEN UNCHANGED <<prev, time>>
                      ELSE prev' = clock /\ time' = Elapsed(time, Listed)
  /\ stack' = Append(stack, NewFrame)
  /\ UNCHANGED <<clock, lists, callback, data, due>>

\* Mutant: the loop takes the first timer without looking at its skip flag.
CandidateIgnoresSkip == IF active = <<>> THEN 0 ELSE 1

\* The loop looks for the first timer that is not skipped, but only if the
\* very first one has expired.
Candidate == SelectInSeq(active, LAMBDA t : skip[t] = 0)
MayRun ==
  /\ active # <<>> /\ time[Head(active)] <= 0
  /\ Candidate > 0 /\ time[active[Candidate]] <= 0

\* Mutant: make_current() appends to the list of current timers.
RunTimerQueues ==
  /\ Phase = "timeouts" /\ MayRun
  /\ active' = RemoveAt(active, Candidate)
  /\ current' = Append(current, active[Candidate])
  /\ SetTop([Top EXCEPT !.phase = "callback", !.timer = active[Candidate]])
  /\ UNCHANGED <<clock, prev, free, allocated, fields>>

\* make_current() and the call of the callback.
RunTimer ==
  /\ Phase = "timeouts" /\ MayRun
  /\ active' = RemoveAt(active, Candidate)
  /\ current' = <<active[Candidate]>> \o current
  /\ SetTop([Top EXCEPT !.phase = "callback", !.timer = active[Candidate]])
  /\ UNCHANGED <<clock, prev, free, allocated, fields>>

\* The callback returns: release() pops the stack of current timers and
\* frees the entry, elapse_timeouts() follows.
CallbackReturns ==
  /\ Phase = "callback"
  /\ current' = Tail(current)
  /\ free' = <<Top.timer>> \o free
  /\ prev' = clock
  /\ time' = Elapsed(time, ToSet(active) \union ToSet(current'))
  /\ Forget({Top.timer})
  /\ stack' = Without([stack EXCEPT ![Depth] = [Top EXCEPT !.phase = "timeouts", !.timer = 0]],
                      {Top.timer})
  /\ UNCHANGED <<clock, active, allocated, skip, callback, data>>

\* time_to_wait(ttw) of the timers tm.
time_to_wait(ttw, tm) ==
  IF active = <<>> THEN ttw
  ELSE IF tm[Head(active)] < 0 THEN 0
  ELSE IF tm[Head(active)] < ttw THEN tm[Head(active)] ELSE ttw

\* Mutant: the time to wait is not computed anew after the screen was flushed.
SleepStale(ttw) ==
  /\ Phase = "timeouts" /\ ~MayRun
  /\ SetTop([Top EXCEPT !.phase = "sleep", !.until = clock + time_to_wait(ttw, time)])
  /\ UNCHANGED <<clock, prev, time, lists, skip, callback, data, due>>

\* No timer is left to run: poll() is entered for at most ttw, for a time
\* that ends with the next timer; elapse_timeouts() comes first unless
\* there is nothing to wait for.
Sleep(ttw) ==
  /\ Phase = "timeouts" /\ ~MayRun
  /\ IF time_to_wait(ttw, time) <= 0
     THEN /\ SetTop([Top EXCEPT !.phase = "sleep", !.until = clock])
          /\ UNCHANGED <<prev, time>>
     ELSE LET tm == Elapsed(time, Listed)
          IN  /\ prev' = clock /\ time' = tm
              /\ SetTop([Top EXCEPT !.phase = "sleep",
                                    !.until = clock + time_to_wait(ttw, tm)])
  /\ UNCHANGED <<clock, lists, skip, callback, data, due>>

\* poll() ends, at the latest when its time is over; the callbacks of the
\* descriptors that are ready run.
Wake ==
  /\ Phase = "sleep"
  /\ SetTop([Top EXCEPT !.phase = "events", !.until = 0])
  /\ UNCHANGED <<clock, prev, lists, fields>>

EndWait ==
  /\ Phase = "events"
  /\ stack' = Front(stack)
  /\ UNCHANGED <<clock, prev, lists, fields>>

UserCall ==
  \E cb \in Callbacks, d \in Data :
    \/ \E delay \in Delays : add_timeout(delay, cb, d) \/ repeat_timeout(delay, cb, d)
    \/ remove_timeout(cb, d) \/ remove_next_timeout(cb, d)

Step ==
  \/ BeginWait \/ RunTimer \/ CallbackReturns \/ Wake \/ EndWait
  \/ \E ttw \in {0, MaxClock} : Sleep(ttw)

Next == Tick \/ UserCall \/ ready \/ Step

Spec == Init /\ [][Next]_vars

\* Fl::run() calls Fl::wait() again and again; a callback returns however many
\* timers it adds or removes.
FairSpec ==
  /\ Spec
  /\ WF_vars(RunTimer \/ Wake \/ \E ttw \in {0, MaxClock} : Sleep(ttw))
  /\ WF_vars(stack = <<>> /\ BeginWait)
  /\ SF_vars(CallbackReturns) /\ SF_vars(EndWait)

-----------------------------------------------------------------------------
TypeOK ==
  /\ clock \in 0 .. MaxClock /\ prev \in 0 .. clock
  /\ {active, current, free} \subseteq Seq(Timers)
  /\ allocated \in 0 .. MaxTimers
  /\ time \in [Timers -> Int] /\ skip \in [Timers -> {0, 1}]
  /\ callback \in [Timers -> Callbacks] /\ data \in [Timers -> Data]
  /\ due \in [Timers -> Nat]
  /\ stack \in Seq([phase : {"timeouts", "callback", "sleep", "events"},
                     timer : Timers \union {0}, until : Nat, new : SUBSET Timers])
  /\ Depth <= MaxDepth

\* "Fl_Timeout objects are maintained in three queues": every entry is in
\* exactly one of them, once, whatever callbacks do to the queues while a
\* pass of do_timeouts() is under way.  release(): "The first timer in the current
\* list *should* be this", also when callbacks run nested event loops that run
\* other timers.
EachInOneList ==
  LET all == active \o current \o free
  IN  /\ TypeOK
      /\ Len(all) = allocated
      /\ ToSet(all) = 1 .. allocated
      /\ Phase = "callback" => current # <<>> /\ Head(current) = Top.timer

\* No drift: the remaining time of a listed timer is exactly what is left
\* until it was asked for, however often and from where the queue was
\* elapsed, and for repeat_timeout() counted from when the running timer was
\* due.
NoDrift == \A t \in Listed : prev + time[t] = due[t]

\* A callback is never called before its time, and of the timers that are not
\* skipped the one that is due first is called.
EarliestDueFirst ==
  [][RunTimer => LET t == Head(current')
                 IN  /\ due[t] <= clock
                     /\ \A u \in ToSet(active) : skip[u] = 0 => due[t] <= due[u]]_vars

\* "skip timers inserted during timeout handling (issue #450)": a pass of
\* do_timeouts() only calls timers that were there when it began.
SkipsInserted ==
  \A i \in 1 .. Depth : stack[i].timer # 0 => stack[i].timer \notin stack[i].new

\* poll() does not sleep past the next timer: it ends at once or when the
\* next timer is due.
NoOversleep ==
  \A t \in ToSet(active) :
    Phase = "sleep" => Top.until <= clock \/ Top.until <= due[t]

\* A pass of do_timeouts() ends, although its callbacks may go on adding timers
\* that expire at once: the program gets to its events.  A nested loop makes
\* new timers eligible, so callbacks must not go on nesting loops for ever.
PassEnds ==
  <>[][BeginWait => stack = <<>>]_vars => (Phase = "timeouts" ~> Phase = "sleep")

\* No timer starves: once it is due, it is called (or removed), whatever
\* timers other callbacks keep adding and repeating.
DueTimerRuns ==
  \A t \in Timers : t \in ToSet(active) /\ due[t] <= clock ~> t \notin ToSet(active)
=============================================================================
