----------------------------- MODULE FlFdTable ------------------------------
(***************************************************************************)
(* The table of file descriptors (Fl_Unix_System_Driver's add_fd() and     *)
(* remove_fd()) and the loop that dispatches their callbacks               *)
(* (poll_or_select_with_delay(), built with select()).  The table changes  *)
(* while it is walked: callbacks add and remove descriptors, themselves    *)
(* included, and may run the loop again; other threads change it while the *)
(* main thread is inside select() and has released the lock.               *)
(*                                                                         *)
(* A descriptor's events are a subset of Events (POLLIN, POLLOUT, POLLERR).*)
(* Every table entry carries a history: what each pass under way has done  *)
(* with it.                                                                *)
(***************************************************************************)
EXTENDS Integers, Sequences, SequencesExt, FiniteSetsExt, Subsequences

CONSTANTS
  Fds,         \* descriptor numbers
  Events,      \* POLLIN, POLLOUT, ...
  EventsOf,    \* descriptor -> the events the program may ask for
  MaxEntries,  \* bound on the entries of the table
  MaxDepth     \* bound on nested passes

ASSUME FdAssumption ==
  /\ Fds \subseteq Nat /\ EventsOf \in [Fds -> SUBSET Events]
  /\ MaxEntries \in Nat /\ MaxDepth \in Nat \ {0}

VARIABLES
  fd,       \* fd[0 .. nfds-1]: the table
  fdsets,   \* event -> the descriptors watched for it
  maxfd,    \* no descriptor in the table is larger
  ready,    \* the kernel's view: <<descriptor, event>> pairs that are ready
  stack     \* the calls of poll_or_select_with_delay(), innermost last

table == <<fd, fdsets, maxfd>>
vars  == <<table, ready, stack>>

Passes == 1 .. MaxDepth

\* What a pass knows of an entry: it was registered after the pass copied
\* fdsets ("late"), before that ("waiting"), or its callback was called.
Marks == {"late", "waiting", "called"}

Entries == [fd : Fds, events : (SUBSET Events) \ {{}}, mark : [Passes -> Marks]]

Init ==
  /\ fd = <<>>
  /\ fdsets = [e \in Events |-> {}]
  /\ maxfd = 0
  /\ ready = {}
  /\ stack = <<>>

Depth == Len(stack)
Top   == stack[Depth]
Phase == IF stack = <<>> THEN "main" ELSE Top.phase
SetTop(f) == stack' = [stack EXCEPT ![Depth] = f]

\* The table changes in the program's own code, or in another thread that holds
\* the lock during select() and then calls Fl::awake().
MayChange == Phase \in {"main", "callback", "select"}
Note(removing) ==
  stack' = [d \in 1 .. Depth |->
              [stack[d] EXCEPT !.removed = @ \/ removing,
                               !.awake = @ \/ (d = Depth /\ Phase = "select")]]

-----------------------------------------------------------------------------
LargestFd(t) == IF t = <<>> THEN -1 ELSE Max({t[i].fd : i \in 1 .. Len(t)})

\* The entries without the events evs of the descriptor n; an entry with no
\* events left is taken out, the ones behind it move down.
Without(t, n, evs) ==
  LET masked == [i \in 1 .. Len(t) |->
                   IF t[i].fd = n THEN [t[i] EXCEPT !.events = @ \ evs] ELSE t[i]]
  IN  Kept(masked, Entries)

\* Nothing is asked of a descriptor that is removed: the program closes it.
remove_fd(n, evs) ==
  /\ MayChange
  /\ fd' = Without(fd, n, evs)
  /\ fdsets' = [e \in Events |-> IF e \in evs THEN fdsets[e] \ {n} ELSE fdsets[e]]
  /\ maxfd' = LargestFd(fd')
  /\ ready' = {p \in ready : p[1] # n \/ p[2] \notin evs}
  /\ Note(Len(fd') < Len(fd))

NewEntry(n, evs) ==
  [fd |-> n, events |-> evs, mark |-> [d \in Passes |-> "late"]]

\* Mutant: a new entry becomes the first one.
AddInFront(n, evs) ==
  LET kept == Without(fd, n, evs)
  IN  /\ MayChange
      /\ Len(kept) < MaxEntries
      /\ fd' = <<NewEntry(n, evs)>> \o kept
      /\ fdsets' = [e \in Events |-> IF e \in evs THEN fdsets[e] \union {n} ELSE fdsets[e]]
      /\ maxfd' = LargestFd(fd')
      /\ UNCHANGED ready
      /\ Note(Len(kept) < Len(fd))

\* Mutant: the callback that was registered before is not removed.
AddTwice(n, evs) ==
  /\ MayChange
  /\ Len(fd) < MaxEntries
  /\ fd' = Append(fd, NewEntry(n, evs))
  /\ fdsets' = [e \in Events |-> IF e \in evs THEN fdsets[e] \union {n} ELSE fdsets[e]]
  /\ maxfd' = LargestFd(fd')
  /\ UNCHANGED ready
  /\ Note(FALSE)

\* remove_fd(n, events), then a new entry at the end.
add_fd(n, evs) ==
  LET kept == Without(fd, n, evs)
  IN  /\ MayChange
      /\ Len(kept) < MaxEntries
      /\ fd' = Append(kept, NewEntry(n, evs))
      /\ fdsets' = [e \in Events |-> IF e \in evs THEN fdsets[e] \union {n} ELSE fdsets[e]]
      /\ maxfd' = IF n > LargestFd(kept) THEN n ELSE LargestFd(kept)
      /\ UNCHANGED ready
      /\ Note(Len(kept) < Len(fd))

\* Input arrives, or output becomes possible, on a descriptor in the table.
Input(n, e) ==
  /\ <<n, e>> \notin ready /\ n \in fdsets[e]
  /\ ready' = ready \union {<<n, e>>}
  /\ UNCHANGED <<table, stack>>

-----------------------------------------------------------------------------
(* poll_or_select_with_delay()                                             *)

SetMark(t, d, m) == [i \in 1 .. Len(t) |-> [t[i] EXCEPT !.mark[d] = m]]

\* Fl::wait() is called by the program or by a callback: fdt is a copy of
\* fdsets, the lock is released, select() looks at descriptors up to maxfd.
BeginSelect ==
  /\ Phase \in {"main", "callback"} /\ Depth < MaxDepth
  /\ stack' = Append(stack,
       [phase |-> "select", next |-> 1, removed |-> FALSE, awake |-> FALSE,
        fdt |-> [e \in Events |-> {n \in fdsets[e] : n <= maxfd}]])
  /\ fd' = SetMark(fd, Depth + 1, "waiting")
  /\ UNCHANGED <<fdsets, maxfd, ready>>

Reported == [e \in Events |-> {n \in Top.fdt[e] : <<n, e>> \in ready}]

\* select() returns when something is ready, or was woken by Fl::awake(); a
\* nested call is a poll that does not wait.
EndSelect ==
  /\ Phase = "select"
  /\ Top.awake \/ Depth > 1 \/ \E e \in Events : Reported[e] # {}
  /\ SetTop([Top EXCEPT !.phase = "dispatch", !.fdt = Reported, !.awake = FALSE])
  /\ UNCHANGED <<table, ready>>

Entry   == fd[Top.next]
Revents == {e \in Events : Entry.fd \in Top.fdt[e]}

\* if (fd[i].events & revents) fd[i].cb(f, fd[i].arg): the callback reads what
\* there is to read, and may do more.
Dispatch ==
  /\ Phase = "dispatch" /\ Top.next <= Len(fd)
  /\ IF Entry.events \intersect Revents = {}
     THEN /\ SetTop([Top EXCEPT !.next = @ + 1])
          /\ UNCHANGED <<fd, ready>>
     ELSE /\ SetTop([Top EXCEPT !.phase = "callback", !.next = @ + 1])
          /\ fd' = [fd EXCEPT ![Top.next].mark[Depth] = "called"]
          /\ ready' = {p \in ready : p[1] # Entry.fd \/ p[2] \notin Entry.events \intersect Revents}
  /\ UNCHANGED <<fdsets, maxfd>>

CallbackReturns ==
  /\ Phase = "callback"
  /\ SetTop([Top EXCEPT !.phase = "dispatch"])
  /\ UNCHANGED <<table, ready>>

\* Mutant: the loop ends before the last entry.
EndPassEarly ==
  /\ Phase = "dispatch" /\ Top.next >= Len(fd)
  /\ stack' = Front(stack)
  /\ fd' = SetMark(fd, Depth, "late")
  /\ UNCHANGED <<fdsets, maxfd, ready>>

EndPass ==
  /\ Phase = "dispatch" /\ Top.next > Len(fd)
  /\ stack' = Front(stack)
  /\ fd' = SetMark(fd, Depth, "late")
  /\ UNCHANGED <<fdsets, maxfd, ready>>

Next ==
  \/ \E n \in Fds : \E evs \in (SUBSET EventsOf[n]) \ {{}} :
       add_fd(n, evs) \/ remove_fd(n, evs)
  \/ \E n \in Fds, e \in Events : Input(n, e)
  \/ BeginSelect \/ EndSelect \/ Dispatch \/ CallbackReturns \/ EndPass

Spec == Init /\ [][Next]_vars

\* Fl::run() calls Fl::wait() again and again, and callbacks return.
FairSpec ==
  /\ Spec
  /\ WF_vars(EndSelect) /\ WF_vars(Dispatch) /\ WF_vars(EndPass)
  /\ WF_vars(stack = <<>> /\ BeginSelect)
  /\ \A d \in Passes : SF_vars(Depth = d /\ CallbackReturns)
-----------------------------------------------------------------------------
TypeOK ==
  /\ fd \in Seq(Entries)
  /\ Len(fd) <= MaxEntries
  /\ fdsets \in [Events -> SUBSET Fds]
  /\ maxfd \in Fds \union {-1, 0}
  /\ ready \subseteq Fds \X Events
  /\ stack \in Seq([phase : {"select", "dispatch", "callback"}, next : 1 .. MaxEntries + 1,
                     removed : BOOLEAN, awake : BOOLEAN, fdt : [Events -> SUBSET Fds]])
  /\ Depth <= MaxDepth

Registered(n, e) == \E i \in 1 .. Len(fd) : fd[i].fd = n /\ e \in fd[i].events

\* What select() is told agrees with the table after any sequence of add_fd()
\* and remove_fd() with overlapping event masks: the sets hold the registered
\* descriptors, maxfd is not below any of them, and "There can only be one
\* callback of each type for a file descriptor."
TableConsistent ==
  /\ TypeOK
  /\ \A n \in Fds, e \in Events : n \in fdsets[e] <=> Registered(n, e)
  /\ LargestFd(fd) <= maxfd
  /\ \A i, j \in 1 .. Len(fd) :
       fd[i].fd = fd[j].fd /\ fd[i].events \intersect fd[j].events # {} => i = j

\* A pass calls the callback of an entry at most once, however the entries
\* shift below the loop index and whatever nested passes do.
CalledOnce ==
  [][\A d \in Passes : Depth = d /\ Dispatch /\ Phase' = "callback"
       => Entry.mark[d] # "called"]_vars

\* As long as nothing was removed, a pass calls every callback that select()
\* reported, entries added meanwhile notwithstanding.
NoneSkipped ==
  [][\A i \in 1 .. Len(fd) :
       EndPass /\ ~Top.removed
       => \/ fd[i].mark[Depth] # "waiting"
          \/ \A e \in fd[i].events : fd[i].fd \notin Top.fdt[e]]_vars

\* No pass under way has had an entry removed below it.
Undisturbed == \A d \in 1 .. Depth : ~stack[d].removed

\* A removal during a pass makes it skip the entry behind the removed one.
\* Once passes are not disturbed in this way any more, every descriptor that is
\* ready is served, or removed.
ReadyServed ==
  <>[]Undisturbed =>
    \A n \in Fds, e \in Events :
      (<<n, e>> \in ready /\ Registered(n, e))
        ~> ~(<<n, e>> \in ready /\ Registered(n, e))
=============================================================================
