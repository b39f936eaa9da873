# TLA+ models of the FLTK core

FLTK is a GUI toolkit: a C++ library whose main thread runs an event loop
(`Fl::wait()`, `Fl::run()`) and calls the program's callbacks. This directory
models the part of it in which ordering, nesting and threads matter: how other
threads post work to the event loop, the global lock, timers, descriptors, idle
and check callbacks, the life and death of widgets; and two data structures that
long sequences of calls put at risk, the text buffer with its undo and the list
of a browser. TLC checks the models on small instances; TLAPS proves the
main safety properties for every value of the constants.

All source paths are relative to the repository (`src/Fl.cxx` is the file
`Fl.cxx` of the library).

## 1. Inventory

| Part | State | Operations | Talks to |
|---|---|---|---|
| Awake queue (`Fl_lock.cxx`) | `awake_ring_`, head, tail, `ring_mutex` | `Fl::awake(cb,d)`, `Fl::awake_once`, `pop_awake_handler` | any thread pushes, the event loop pops |
| Awake pipe (`Fl_Posix_System_Driver.cxx`) | `thread_filedes`, `pipe_pending`, `thread_message_` | `awake(msg)`, `thread_awake_cb`, `thread_message` | written by workers, read in the dispatch loop |
| Global lock (`Fl_Posix_System_Driver.cxx`) | `fltk_mutex`, `owner`, `counter` | `Fl::lock`, `Fl::unlock` | released by the event loop around `poll`/`select` |
| Descriptor dispatch (`Fl_Unix_Screen_Driver.cxx`) | `fd[]`, `nfds`, `fdsets`, `maxfd` | `add_fd`, `remove_fd`, `poll_or_select_with_delay` | callbacks may change the table |
| Timers (`Fl_Timeout.cxx`) | lists `first_timeout`, `current_timeout`, `free_timeout` | `add/repeat/remove/remove_next_timeout`, `do_timeouts`, `time_to_wait` | run by `Fl::wait()`, bound its sleep |
| Idle callbacks (`Fl_add_idle.cxx`, `Fl.cxx`) | pointer ring `first`, `last`, `freelist`, `idle_`, `in_idle` | `add_idle`, `remove_idle`, `call_idle`, `run_idle` | run by `Fl::wait()`, make it not sleep |
| Check callbacks (`Fl.cxx`) | list `first_check`, `next_check`, `free_check` | `add_check`, `remove_check`, `run_checks` | run by `Fl::wait()` before it sleeps |
| Event loop (`Fl.cxx`, `Fl_System_Driver.cxx`, `Fl_Unix_System_Driver.cxx`) | the nesting of calls | `wait`, `check`, `ready`, `run`, `flush` | calls all the parts above |
| Widget lifecycle (`Fl.cxx`, `Fl_Widget.cxx`) | `dwidgets`, `widget_watch`, `obj_queue` | `delete_widget`, `do_widget_deletion`, `watch/release/clear_widget_pointer`, `readqueue` | destructors, trackers |
| Widget tree (`Fl_Group.cxx`) | `array_`, `children_`, `parent_`, `savedfocus_`, `resizable_` | `insert`, `remove`, `clear`, `delete_child` | destructors |
| Focus and event delivery (`Fl.cxx`, `Fl_Window.cxx`) | `focus_`, `pushed_`, `belowmouse_`, `modal_`, `grab_` | `handle_`, `fl_fix_focus`, `fl_throw_focus` | windows, groups |
| Handler lists (`Fl.cxx`) | event, system and clipboard handlers | add, remove, walk | handlers that change the list |
| Pools (`Fl_Widget.cxx`, `Fl_Tooltip.cxx`, `Fl_Shared_Image.cxx`) | reference counts | acquire, release | widgets |
| Text buffer (`Fl_Text_Buffer.cxx`) | `mBuf`, `mGapStart`, `mGapEnd`, `mLength`, selections, `mUndo`, `mUndoList`, `mRedoList` | `insert`, `remove`, `replace`, `text`, `select`, `undo`, `redo`, `canUndo`, line search | modify callbacks of displays and style buffers |
| Input fields (`Fl_Input_.cxx`) | text, mark, position, undo | `replace`, `cut`, `undo` | the undo buffer shared by all fields |
| Browsers (`Fl_Browser.cxx`, `Fl_Browser_.cxx`) | `first`, `last`, `cache`, `cacheline`, `lines`, `full_height_`, `top_`, `selection_` | `insert`, `remove`, `move`, `swap`, `sort`, `text`, `select`, `show`, `hide`, `clear` | the list tells `Fl_Browser_` what it changes (`deleting`, `inserting`, ...) |

What is hard here, and hard to test:

* **Threads**: a push may interleave with another push, with a pop, and with
  the lazy allocation of the mutex that should prevent it; a wake-up byte, the
  `pipe_pending` flag and the queue are three pieces of state that are changed
  one after the other by two threads; `owner` and `counter` of the lock are
  read without the lock.
* **Re-entrancy**: every callback may run `Fl::wait()` again. Timers, checks,
  idle callbacks and the dispatch loop all keep state across a callback
  (`current_timeout`, `next_check`, `in_idle`, the `select()` snapshot), and a
  nested loop uses the same state.
* **Callbacks that change the list being walked**: add, remove and re-add of
  timers, checks and idle callbacks, themselves included, with free lists that
  recycle entries at once.
* **Destructors that run the program**: deleting a widget runs code that may
  construct, move, schedule and delete other widgets while an array of children
  or the list of scheduled deletions is being walked, and global pointers
  (focus, pushed, trackers) must not outlive their widget.
* **Long sequences of edits**: edits that join an undo event or start one, undo
  and redo that are edits themselves, a gap that moves, positions (selections,
  cached lines) that must follow changes made elsewhere.
* **Time**: remaining times are decremented by whoever happens to look; drift,
  early calls, oversleeping and starvation.

`PROJECT.json` lists these as hazards, each at its line, with the properties
that would catch it.

## 2. Modules

| Module | Models | Source |
|---|---|---|
| `FlThreads` | the threads of a program, shared by the next three parts | |
| `AwakeQueue` | what the awake queue promises: an atomic bounded FIFO | `Fl_lock.cxx` |
| `FlAwakeRing` | ring buffer and ring mutex, one action per shared access; refines `AwakeQueue` | `Fl_lock.cxx`, `Fl_Posix_System_Driver.cxx` |
| `FlAwakePipe` | wake-up protocol: workers, pipe, lock, the nested event loops and their dispatch | `Fl_Posix_System_Driver.cxx`, `Fl_Unix_Screen_Driver.cxx` |
| `FlLockStd` | `lock_function_std()` / `unlock_function_std()`, one action per shared access | `Fl_Posix_System_Driver.cxx` |
| `FlThreadProofs` | proofs about `FlAwakeRing`, `FlAwakePipe` and `FlLockStd`, the refinement of `AwakeQueue` included | |
| `Subsequences` | what a loop over a list keeps of it (`Kept`), and the entries that a chain of pointers leads through (`Follow`) | |
| `SequenceLemmas` | lemmas about sequences (`Kept`, `InsertAt`, `RemoveAt`, `Front`, `Reverse`, distinct elements) and chains of pointers (`Follow`) for the proofs | |
| `FlTimeout` | timer lists, `do_timeouts()`, the sleep of `Fl::wait()` | `Fl_Timeout.cxx`, `Fl_System_Driver.cxx`, `Fl_Unix_System_Driver.cxx` |
| `FlFdTable`, `MCFdTable` | descriptor table, `select()` sets, dispatch loop | `Fl_Unix_System_Driver.cxx`, `Fl_Unix_Screen_Driver.cxx` |
| `FlTimeoutProofs`, `FlFdTableProofs`, `FlWidgetsProofs` | proofs about these modules | |
| `FlEntries` | linked entries with a free list, which idle and check callbacks are kept in | `Fl.cxx`, `Fl_add_idle.cxx` |
| `FlIdle` | idle ring, `call_idle()`, `run_idle()` | `Fl_add_idle.cxx`, `Fl.cxx` |
| `FlChecks` | check list, `run_checks()` | `Fl.cxx` |
| `FlEntriesProofs` | proofs about `FlChecks` and `FlIdle` | |
| `FlWidgets`, `MCWidgets` | widget tree, destructors, `delete_widget()`, trackers, focus | `Fl_Widget.cxx`, `Fl_Group.cxx`, `Fl.cxx` |
| `EditHistory` | what the text buffer promises: a text and the texts that undo and redo lead to | `Fl_Text_Buffer.cxx` |
| `FlTextBuffer`, `MCTextBuffer` | gap buffer, selection, callbacks, undo events, lines; refines `EditHistory` | `Fl_Text_Buffer.cxx`, `Fl_Text_Buffer.H` |
| `FlTextBufferProofs` | proofs about `FlTextBuffer`, the refinement included | |
| `BrowserRows` | what the browser promises: numbered rows and a selected one | `Fl_Browser.cxx` |
| `FlBrowser`, `MCBrowser` | linked list of lines, line cache, `sort()`, `top_` and `selection_`; refines `BrowserRows` | `Fl_Browser.cxx`, `Fl_Browser_.cxx` |
| `FlBrowserProofs` | proofs about `FlBrowser` | |

Definitions whose comment begins with "Mutant:" are deliberate errors. Each one
replaces a definition of the model to show that a property notices the error;
they are not part of any specification.

`FlAwakePipe`, `FlLockStd` and `FlIdle` share a proof module with other
components; their specifications are therefore named `PipeSpec`, `LockStdSpec`
and `IdleSpec`, and so are their parts.

### FlAwakeRing

State: the pointer `ring_mutex` and, per mutex, whether its memory reads as
locked; `awake_ring_`, head and tail; for every thread its position in the call
(`pc`) and its local variables. `lock_ring()` is `CheckMutex`, `AllocMutex`,
`InitMutex`, `Acquire`; `unlock_ring()` is `Unlock`; `push_awake_handler()` is
`Enter` (allocation of the ring), `CompactStep`/`CompactDone` (the loop of
`awake_once`), `Store` (full test, slot write) and `Publish` (head);
`pop_awake_handler()` is `Pop`. Memory that `malloc()` returned and that is not
initialized yet reads as locked or free, by choice. The function pointer and its
data are one value.

`FirstCallAlone` says that the call that allocates the mutex does not overlap
with any other. The code does not enforce it; the run `ring_race` drops it.

### FlAwakePipe

The main thread is a stack of frames, one per active `Fl::wait()`, each with its
phase, its `select()` snapshot (`ready`) and its position in the dispatch loop
(`next`). `Fl_Posix_System_Driver::awake()` is `Signal` (the atomic exchange of
`pipe_pending`) and `Write`; `thread_awake_cb()` is `ClearPending`, `ReadByte`
(which has to wait for a byte) and `Drain`. The queue is the one of `AwakeQueue`
reduced to its length: `Push` allows everything `push_awake_handler()` can do to
the length. The lock is an owner, which is what `MutualExclusion` of `FlLockStd`
allows, with the proviso made there. `PipeIndex` is the position of the pipe in
the descriptor table: 1 when `Fl::lock()` is called before anything else
registers a descriptor, as the manual asks ("must call Fl::lock() once before
any windows are shown"), larger when a window is shown first, as
`test/threads.cxx` does. The library is built with `select()` by default, and
the model has its dispatch loop.

### FlLockStd

One action per access to `counter`, `owner` and the mutex. `StoreOrders` says in
which order the two plain stores of `lock_function_std()` may become visible.
With both orders allowed TLC finds a violation of `MutualExclusion` (a thread
whose id is still in `owner` sees the new counter and skips the mutex;
`FlLockStd_reorder.cfg` reproduces it), so the
results below rest on `StoreOrders = {"owner"}`, an ordering that the source
neither requests nor guarantees.

### FlTimeout

Entries are numbers, lists are sequences, `time` is in ticks of 0.001 s. The
history variable `due` keeps when a timer was asked for; the frames of the stack
keep which entries were inserted during their pass. `Sleep` is the second half
of `Fl_System_Driver::wait()` and `Fl_Unix_System_Driver::wait()`: it computes
the time to wait, elapses the timers and computes it again. `Fl::ready()` elapses
the timers and calls none.

### FlFdTable

`fd` is the table, `fdsets` and `maxfd` are what `select()` is told, and a frame
of the stack is a call of `poll_or_select_with_delay()` with its copy `fdt` and
its loop index `next`. `add_fd()` and `remove_fd()` are called by callbacks, by
the program between two calls of `Fl::wait()`, and by other threads while the
main thread is inside `select()` without the lock; such a thread then calls
`Fl::awake()`, which ends `select()`. Each entry carries, as history, what every
pass under way has done with it. `FlAwakePipe` has the same loop over a fixed
table.

### FlIdle, FlChecks

The linked structures are modelled with their pointers (`nxt`), so that a
mistake in relinking shows as a broken ring or list. The stack of `Fl::wait()`
calls tells whose callback runs. `FlEntries` declares what both are made of; each
of them has entries and a stack of its own.

### FlWidgets

A widget is its address, which a later widget may get again. The stack holds the
calls under way: callbacks (`do_callback`, with its tracker), the part of a
destructor that is the program's (`user`), `clear()` with its loop index and the
pointer it puts aside, `~Fl_Widget()` (`Destroy`), and the loop of
`do_widget_deletion()`. Callbacks nest, also of one widget; `watch` is the list
`widget_watch`, an entry being the place of the call whose tracker it points to.
A tracker enters it when the callback begins (`watch_widget_pointer`), leaves it
when the callback returns (`release_widget_pointer`), and `~Fl_Widget()` clears
the ones that point to it (`clear_widget_pointer`). `clear()` ends by freeing
`array_` and leaves `children_` as it is: a group that still has a child then
goes into `lost`, for every later use of its array is one of a null pointer. In
`callback` and `user` the program may do everything: construct, insert, remove,
schedule, delete, clear, set the focus. `visible_r()` is "not inside a scheduled
widget": nothing else hides widgets here. Which leaf takes the focus when it is
thrown is any.

The program keeps the rules of the documentation: it does not schedule or delete
what is inside a group that is scheduled or being deleted. Four situations are
excluded because the code does not handle them; `PROJECT.json` has them as
hazards:

* deleting or moving the widget that a `clear()` under way has put aside as the
  pushed one;
* constructing a widget at an address that the deletion loop still lists;
* running the event loop in a destructor;
* putting a widget into a group, by its constructor or by `insert()`, while the
  loop of a `clear()` of that group is under way (`Clearing`). The loop counts
  down from the number of children it found: it does not reach what is added
  behind its index, and `free(array_)` (`Fl_Group.cxx:421`) takes the array away
  from a group with `children_` 1, or `~Fl_Widget()` leaves the child with a
  deleted parent. The constant `Adding` lifts this rule: with it `NoDangling`
  fails (`MCWidgets_adding.cfg`), and every theorem about `FlWidgets` has
  `~Adding` as its hypothesis. Moving a child within the group is allowed.

A fifth one came up in the proof. A destructor, or a callback that runs inside
it, may move a widget that is itself being deleted, or holds one that is, into a
group whose `clear()` is under way: that `clear()` finds it in its array later
and deletes it a second time. It takes a destructor inside a destructor, both
moving widgets, which is more than the instance of the run `widgets` has; the
induction step for `insert()` failed on it. `Insert` therefore has the guard that
nobody moves what is being deleted into a group that deletes its children.

### FlTextBuffer

The buffer is a record and its member functions are operators, so that a
property can say what `undo()` would do. The bytes in the gap are all `Garbage`;
a function that reads the gap gives itself away. `mirror` is the text as a
listener knows it from the arguments of the modify callbacks; `past` and
`future` are the texts that undo and redo should lead to. `Redo` is taken only
while there is something to redo by this history: the run `text_redo` shows that
`can_redo()` says yes in other cases too. The three selections of the code are
updated by the same function, and one is modelled.

### FlBrowser

The item list with its pointers, `find_line()` and `lineno()` with the cache they
read and change, and the notifications of `Fl_Browser_`. `rows` and `value` are
read off the list after every operation; they are the variables of
`BrowserRows`. Freed items are blank. An item is any value other than the null
pointer, which is 0. `Spacing` is `linespacing()`, which the code adds to the
height of a line wherever it counts it: also in `_remove()` and `textsize()` for
a hidden line, whose spacing `hide()` has subtracted. With a spacing other than
0, the default, `full_height()` is then not "the accumulated height of *all* the
items in the browser that are not hidden with hide()" (`Fl_Browser.cxx:521`), and
`HeightShown` fails (`MCBrowser_spacing.cfg`: insert, hide, `textsize()`; hiding a
line and removing it has the same effect). `Beyond` is how far behind the end lines
are inserted: with 1, as the documentation allows, `FindsLines` fails
(`MCBrowser_beyond.cfg`).

## 3. Runs

| Run | Result | What it shows |
|---|---|---|
| `ring` | pass | two workers and the event loop on a ring of 3 slots: `RingExclusive`, `LockReleased` (also on the path of a full ring) and `QueueSpec`, the refinement of `AwakeQueue` |
| `ring_race` | violation | without `FirstCallAlone`: `AcceptedIsQueued` fails, a callback reported as scheduled is overwritten |
| `pipe` | pass | `LockExcludes`, `ReadNeverBlocks`, `NoLostWakeup`, and under fairness `QueueDrains`, `WaitReturns` |
| `lock` | pass | `MutualExclusion`, `CounterIsNesting`, and `LockObtained` under fairness |
| `timeout` | pass | with nested loops: `EachInOneList`, `NoDrift`, `NoOversleep`, `EarliestDueFirst`; under fairness `DueTimerRuns`, and `PassEnds` once callbacks nest no more loops |
| `fd_table` | pass | `TableConsistent`; a pass calls no entry twice (`CalledOnce`) and, if no entry was removed, leaves out none that was reported (`NoneSkipped`); under fairness `ReadyServed` once passes are no longer disturbed by removals |
| `idle` | pass | `RingClosed` (no recursive call included), and `InTurn` if callbacks end up removing only themselves |
| `checks` | pass | `ListsIntact`, `NoneLeftOut`, `CalledOnce`, and `PassEndsUnlessRemoving` |
| `text` | pass | `HistorySpec`, the refinement of `EditHistory`; `ListenersInSync`, `EventsKept` (`can_undo()` tells the truth), `SelectionFollows`, `LinesAgree` |
| `text_redo` | violation | `RedoRepeatsUndo`: after `undo()`, an edit that joins the current event keeps the redo list, and `redo()` applies an event made for another text |
| `widgets` | pass | by the rules of section 2, with nested callbacks: `NoDangling`, `DeletedOnce`, `TrackersTell`, `NoneForgotten` |
| `browser` | pass | `RowsSpec`, the refinement of `BrowserRows`; `ListIntact`, `FindsLines`; without `linespacing()` `HeightShown` |

The two violations are behaviours of the code that contradict a line of its
documentation; `PROJECT.json` quotes the lines under `findings`. Other
configurations reproduce behaviours that the passing runs exclude by a constant
or leave to a weaker property:

| Configuration | Property that fails | Behaviour |
|---|---|---|
| `FlAwakePipe_stale.cfg` | `WaitReturns` | with the pipe second in the table, a nested `Fl::check()` reads the byte the outer snapshot reported; the outer `read()` blocks for ever with the lock held |
| `FlAwakePipe_nested.cfg` | `NestedLoopWakes` | an awake callback that runs a blocking loop: the callbacks behind it have no wake-up, although `Fl_lock.cxx:232` has them executed in the "next event handling cycle" |
| `FlTimeout_nested.cfg` | `SkipsInserted` | a nested pass clears the skip flags of the outer one, which then calls timers inserted during it (`Fl_Timeout.cxx:542`) |
| `FlChecks_loop.cfg` | `PassEnds` | a check that removes and adds itself is called for ever (`Fl.cxx:555`: "without causing an infinite loop") |
| `FlLockStd_reorder.cfg` | `MutualExclusion` | the two stores of `lock_function_std()` become visible in the other order |
| `MCBrowser_beyond.cfg` | `FindsLines` | `insert()` behind the end caches the line asked for, and not the one where the item is |
| `MCBrowser_spacing.cfg` | `HeightShown` | with `linespacing()` 1, `textsize()` and `remove()` count the spacing of hidden lines (`Fl_Browser.cxx:258`, 720) |
| `MCWidgets_adding.cfg` | `NoDangling` | a child's destructor adds a widget to the group being cleared, whose array `clear()` then frees (`Fl_Group.cxx:421`) |

### Bounds

* `ring`: 2 workers, 2 callbacks, 3 slots: the smallest ring in which
  compaction can keep one entry, drop another and wrap; full (2 entries), empty
  and wrapped states all occur, and two pushes and a pop compete for the mutex.
* `pipe`: 2 workers with 2 calls each, 2 nested frames, 2 descriptors, a pipe of
  3 bytes: a second worker is needed to signal between the clear and the read,
  a second call to signal after it. Pipe capacity 3 exceeds the proved maximum
  of 2 bytes, so a full pipe would show.
* `lock`: 3 threads, nesting 2: one holder, one that reads a stale `owner`, one
  that waits.
* `timeout`: 3 entries, delays 0 and 1, clock 0..2, 2 nested loops: a running
  timer, one inserted during the pass and one that is overtaken.
* `fd_table`: 2 descriptors, one watched for two events, 2 entries, 2 nested
  calls: an entry in front of the index can be removed, replaced by one at the
  end, or split by its events, while an outer pass holds an older snapshot.
  Without liveness the same properties were checked with 3 entries.
* `idle`: 3 callbacks, 3 entries, 2 loops; `checks`: 2 callbacks, 3 entries, 3
  loops (the third shows that a second nested call sees the state the first one
  left).

* `text`: texts of at most 3 bytes and 2 newlines, insertions of 0, 1 and 2
  bytes, a preferred gap of 1, two events in the lists (one while something is
  selected): edits before, at, inside and behind the gap, growing and exhausted
  gaps, joined and separate events, yanks, undo of an undo.
* `widgets`: the window, a group and two leaves, three calls deep when the
  program makes another, and two when that is a callback: a leaf's destructor runs
  inside the `clear()` of a group inside a callback or the deletion loop, and two
  callbacks, of one leaf or of both, are under way when a leaf is deleted.
* `browser`: 3 lines, 4 addresses, 2 texts: one line between two others to be
  found from the cache, neighbours and ends to be swapped, equal texts to be
  sorted, an item to be replaced in a full list.

`widgets` and `browser` use the symmetry of the leaves and of the addresses; they
check no liveness, and no definition distinguishes these values. The other runs
use none.

### Fairness

* Threads that are inside a library call go on (weak fairness of their steps),
  and a mutex that is released again and again is obtained (strong fairness of
  the acquisition), which is what pthreads gives in practice.
* Callbacks of the program return, however often they nest a loop or change the
  lists (strong fairness per nesting level). A callback that never returns is a
  property of the program, not of the library.
* The program calls `Fl::wait()` again and again, as `Fl::run()` does.
* Nothing is assumed about workers starting calls, input arriving, or the clock
  advancing.

## 4. Proofs

Checked by TLAPS for every value of the constants that satisfies the `ASSUME`
of the module.

| Theorem | Statement | Argument |
|---|---|---|
| `FlThreadProofs!TypeCorrect`, `Exclusion`, `Released` | with `FirstCallAlone`: `[]TypeOK`, `[]RingExclusive`, `[]LockReleased` | `IInv`: until `ring_mutex` is settled only one thread is in a call (`SetUpAlone`); from then on every thread that waits or holds was given that mutex, and it is locked exactly while someone is inside (`OneMutex`) |
| `FlThreadProofs!QueueRefined` | with `FirstCallAlone`: `QueueSpec`, the refinement of `AwakeQueue` | `IInv` and `QInv`, see below |
| `FlThreadProofs!LockTypeCorrect`, `LockExclusion`, `LockCounterCorrect` | with stores in order (`LockInOrder`): `[]LockTypeOK`, `[]MutualExclusion`, `[]CounterIsNesting` | `LockIInv`: the counter is not zero only while some thread holds the mutex, and `owner` is a thread's own id only if that thread was the last to lock; a thread that skips the mutex is therefore its holder |
| `FlThreadProofs!PipeTypeCorrect`, `PipeLockExclusion`, `PipeNeverFull`, `PipeReadDoesNotBlock`, `PipeWakeupNotLost` | with the pipe first in the table (`PipeLockedFirst`): the invariants of the run `pipe`, and that the pipe never holds more than two bytes | `pipe_pending`, the bytes in the pipe, a worker about to write and the phase of the main thread add up; a frame that was told "pipe readable" and has not dispatched it is the innermost one, since the pipe is the first descriptor it looks at |
| `FlTimeoutProofs!InvariantHolds`, `EntriesAreKept`, `TimersDoNotDrift`, `SleepEndsInTime`, `DueFirstRunsFirst` | `[]IInv`, `[]EachInOneList`, `[]NoDrift`, `[]NoOversleep`, `EarliestDueFirst` | `IInv`: the three lists are disjoint, without repetition, and hold every entry (`ListsOK`); the current list is the sequence of timers that the calls of `Fl::wait()` run, innermost first (`StackOK`); the active list is in the order of its times (`Sorted`). `insert()`, elapsing, removal and `release()` are shown to keep these one by one |
| `FlFdTableProofs!InvariantHolds`, `TableAgrees`, `NoSecondCall`, `PassIsComplete` | `[]IInv`, `[]TableConsistent`, `CalledOnce`, `NoneSkipped` | `IInv`: no two entries watch the same event of a descriptor; no pass has called what is at its index or behind it (`NotCalledYet`); a pass below which nothing was removed has left out nothing that was reported (`NoneLeftOut`). Removal moves entries to smaller indices only, `add_fd()` adds behind every index |
| `FlWidgetsProofs!InvariantHolds`, `PointersAreGood`, `NoneDeletedTwice`, `TrackersTellTruth`, `DeletionsHappen` | with `~Adding`: `[](IInv /\ WInv)`, `[]NoDangling`, `[]DeletedOnce`, `[]TrackersTell`, `[]NoneForgotten` | `IInv` and `WInv`, see below |
| `FlEntriesProofs!InvariantHolds`, `ListsStayIntact`, `PassesLeaveNoneOut`, `NoSecondCall` | `[]IInv`, `[]ListsIntact`, `[]NoneLeftOut`, `CalledOnce` | the check list, see below |
| `FlEntriesProofs!RingStaysClosed` | `[]RingClosed` | `IdleInv`: there are sequences `R` and `F`, disjoint and together all entries allocated; `R` is the ring from `first` round to it, `F` the free list; `idle_` is set exactly while `R` is not empty; at most one call of `Fl::wait()` runs an idle callback (`OneIdle`) |
| `FlTextBufferProofs!BufferInvariant`, `ListenersKnow`, `EventsAreKept`, `SelectionsFollow`, `LinesAlwaysAgree`, `BufferImplementsHistory` | `[]IInv`, `[]ListenersInSync`, `[]EventsKept`, `[]SelectionFollows`, `[]LinesAgree`, `HistorySpec` | the text buffer, see below |
| `FlBrowserProofs!BrowserInvariant`, `ListStaysIntact`, `LinesFound`, `RowsRefined` | with `Beyond = 0`: `[]IInv`, `[]ListIntact`, `[]FindsLines`, `RowsSpec` | the browser, see below |
| `FlBrowserProofs!HeightStaysRight` | with `Beyond = 0` and `Spacing = 0`: `[]HeightShown` | the same `IInv` |

The invariants are not inductive as they stand: mutual exclusion says nothing
about which mutex a waiting thread was given, `ReadNeverBlocks` says nothing
about the byte between `select()` and `read()`, `EarliestDueFirst` needs the
order of the whole list, `CalledOnce` the index of every pass under way. The
conjuncts of each `IInv` supply that; TLC checked each `IInv` before it was
proved.

**The ring and its queue.** The refinement needs what the ring holds in the
middle of a push. `QInv` says it with the history variable `before`, the queue
when the push began: during the compaction of `awake_once` the slots up to the
write position hold what is kept of the entries read so far, and those from the
read position on are still the old ones (`Compacted`); when the callback is
stored the ring holds `before`, or what compaction keeps of it (`Start`). The
lemmas are about indices modulo the ring size, for any size. TLC checked `QInv`
on the instance of the run `ring` (1,548,429 distinct states).

**The check list.** `IInv` says that there are two sequences, the list `C` and
the free list `F`, which are the chains of pointers from `first_check` and
`free_check`, disjoint and together all entries allocated (`Lists`), and that
`next_check` points into `C` or is null (`At`). The other half is about the calls
under way (`PassOK`): the innermost pass has yet to call only what `next_check`
will still meet, and meets nothing it has called; a pass with another one inside
has called nothing that is still in the list, because a nested pass runs only
when `next_check` was at the first check. TLC checked it with 4 entries, 2
handlers and 3 nested loops (614,449 distinct states) before it was proved.

**The text buffer.** `IInv` has the layout of the gap (`GapOK`), a selection that
lies in the text (`SelOK`), and the history: the undo list with the current event
is a `Story` of the past texts, each event leading back from one text to the one
before it, and the last events of the redo list lead through the future ones
(`Ahead`). `NoJoin` is the part that was hard to find: an event that is redone
must not join the event that is current then, or two steps of the history become
one; it holds because undoing an event makes an inverse whose position or kind
keeps it apart. `LinesAgree` is a statement about one text and needs no other
state: it follows from lemmas on counting newlines in a segment, by induction
over the length, and on the searches across the gap reading the text of
`TextOf()`.

**The browser.** The null pointer stands for both ends of the list: with `first`
as what follows it and `last` as what precedes it, the pointers are a ring, and
`Link()` sets one edge of it. `Good(B, s)` says that `B`'s ring is the sequence
`s` closed by null, that the cached line is the item of `s` with its number, and
that `top_` and `selection_` are in `s`; `IInv` adds that `s` is what is allocated
and, if there is no spacing, that the height is that of its shown items. Unlinking,
inserting, replacing and exchanging items, neighbours or not, each have a lemma
about the ring. A walk of `find_line()` or `lineno()` is a recursive function of
the number of steps (`WalkFacts`). `sort()` is an induction over its rounds and, in each, over its
comparisons: every one leaves a list of the same items and a pointer into it.

For the refinement of `BrowserRows`, `rows` and `value` are what is read off `s`
(`Reads`), and each operation on `s` is the same operation on the rows. What
`sort()` leaves takes more: in a round the item reached is the biggest so far
(`Biggest`), after it the lines behind are in their final place (`Settled`), and
equal items are in their old order (`Stable`); the selection stays on its line
although every exchange gives it to another item (`SwapStays`). `BrowserRows`
gives a row the place after all that precede it; that a settled and stable list
has every item at that place is `Placed`, by counting. TLC
checked `IInv` on the instance of the run `browser`. `Beyond = 0` excludes lines
inserted behind the end, for which `FindsLines` is false
(`MCBrowser_beyond.cfg`).

The invariant of the widgets has four parts; the first three make up `IInv`:

* `Tree`: parents and arrays of children agree, the tree has no cycle and the
  window is at its top (`Rooted`), and focus, pushed and savedfocus point into
  it. `clear()` needs the absence of cycles: the child it deletes is not above
  the group.
* `Calls`: what each call under way knows (`Framed`: the group of a `clear()`
  has no more children than there are rounds left, the pointer that `clear()`
  put aside exists); a later call never works on a group that holds the widget of
  an earlier one or the widget it put aside (`Nested`); only callbacks are below
  the deletion loop (`Looped`). `Nested` is why a destructor never deletes the
  widget of a call it runs in.
* `Lists`: the entries of `dwidgets` are different, the ones the loop has passed
  are gone or being deleted and the others exist (`Awaited`); no scheduled widget
  is inside another or inside one that is being deleted (`Single`); whoever was
  asked to be deleted is an entry as long as it exists (`Promised`).
* `WInv`: no group has lost its array, which follows from `Framed` at the end of
  each `clear()`; the watch list holds the places of the callbacks under way, each
  one once, and every tracker points to its widget or was cleared when that was
  deleted (`Watched`).

TLC checked both on the instance of the run `widgets` with calls two deep
(474,369 distinct states).

`contains()` walks up the tree; its model `UpFrom` is a recursive function with as
many steps as there are widgets. The lemma `UpClosed` shows that this is enough:
each step meets a new widget or none, and there are no more than
`Cardinality(Widgets)` (`FiniteSetTheorems`). From it follow the lemmas on what
cutting and grafting a subtree changes above other widgets.

Facts about recursive functions (`Kept`, `UpFrom`, `Follow`, the newline counts of
the text buffer, the rounds of `sort()`) are proved by induction over
a set of numbers: the set of the `n` that satisfy the claim contains 0 and with
`n` also `n + 1` (`NatInduct` in `SequenceLemmas`, from the well-foundedness of
the natural numbers). This needs no operator as a parameter.

Assumptions on the constants are those of the modules: finitely many widgets and
browser items, the window one of the groups, the null pointer none of the
widgets, threads or items; at least one handler; texts that are sequences of
bytes, and a value for the contents of the gap that is no byte; natural numbers
for the bounds. The bounds on nesting, on lines and on table sizes are
arbitrary. Five groups of theorems have a hypothesis that the code does not
enforce (`FirstCallAlone`, `LockInOrder`, `PipeLockedFirst`, `~Adding`, and
`Beyond = 0` with `Spacing = 0`), which the table names: each excludes a
behaviour that a run or a configuration of section 3 reproduces.

Only model-checked: the liveness properties (the prover has no rule for
fairness or `ENABLED`). No module uses `RECURSIVE`; chains of pointers are
recursive functions.

## 5. Not modelled

`PROJECT.json` lists every part. Left out for good: drawing, fonts, colours,
image decoders, vendored libraries, the other platforms' drivers, the interface
builder, device and protocol additions that are byte-level parsing. These are
most of the repository's lines, and nothing in them is a question for a model
checker. The recursive-mutex variant of the lock only forwards to pthreads.
The `has_...` queries change no state.

Of the parts that are modelled: the readqueue of the default callback, grab and
modal windows; `copy()`, files, string search and characters of several bytes of
the text buffer; multi-selection, mouse, keyboard and scrolling of browsers; the
`poll()` build of the descriptor table.

## 6. Plan

Done: awake queue, wake-up protocol, lock, timers, descriptor table, idle and
check callbacks, widgets, text buffer, browser list.

Modules worth adding, in this order:

1. `FlFdTable`: the `poll()` build (whose `remove_fd()` loses a reduced event
   mask when entries move down) and descriptor numbers reused during a pass.
2. `FlHandlers`: event and clipboard handler lists walked while they change.
3. `FlWait`: the composition of checks, timers, idle callbacks, flush, sleep and
   deletion in `Fl::wait()`.
4. `FlPools`: reference counts of pooled strings and shared images.
5. `FlInput`: the undo buffer that all input fields share.
