----------------------------- MODULE FlWidgets ------------------------------
(***************************************************************************)
(* The life of widgets (src/Fl_Widget.cxx, src/Fl_Group.cxx, src/Fl.cxx):   *)
(* the tree, destructors that run the program's code, deletion deferred to  *)
(* the event loop, tracked widgets, and the global pointers to widgets.     *)
(*                                                                          *)
(* A widget is its address, so a widget that is constructed after another   *)
(* one was deleted may be the same.  The program's code runs in callbacks   *)
(* and in the destructors of its subclasses; stack holds the calls under    *)
(* way.  The window Win is always there and has the keyboard focus of the   *)
(* system (fl_xfocus).                                                      *)
(*                                                                          *)
(* The rules that the program is taken to keep are guards: it deletes or    *)
(* schedules nothing that a group, a destructor or the event loop will      *)
(* delete (OnlyTheGroup, MayDelete, the guards of Clear and of Insert), it  *)
(* does not touch what a clear() under way has put aside (Saved), it does   *)
(* not run the event loop in a destructor (BeginLoop), and, unless Adding,  *)
(* it puts no widget into a group while a clear() of that group is under    *)
(* way.  The code checks none of them.                                      *)
(*                                                                          *)
(* Abstracted: belowmouse_, the selection requestor and the tooltip, which  *)
(* fl_throw_focus() clears by the same test as pushed_; resizable_, which   *)
(* is reset where savedfocus_ is; which widgets accept FL_FOCUS (any may);  *)
(* labels, images, user data; no grab and no modal window.                  *)
(***************************************************************************)
EXTENDS Integers, Sequences, SequencesExt, FiniteSets, Subsequences

CONSTANTS
  Widgets, Groups, Win, NULL,
  MaxStack,     \* bound on the calls under way when the program makes another
  MaxCallbacks, \* the same when that is a callback
  Adding        \* whether destructors of children add to the group being cleared

ASSUME WidgetsAssumption ==
  /\ Win \in Groups /\ Groups \subseteq Widgets /\ NULL \notin Widgets /\ IsFiniteSet(Widgets)
  /\ MaxStack \in Nat /\ MaxCallbacks \in Nat /\ Adding \in BOOLEAN

VARIABLES
  live,         \* the widgets that exist
  parent, children, savedfocus,
  lost,         \* the groups whose array_ was freed while they had children
  focus, pushed,
  dwidgets,     \* the widgets scheduled for deletion
  wanted,       \* history: the widgets delete_widget() was called for
  stack,        \* the calls under way, the innermost one last
  watch         \* widget_watch: where the trackers are, as places in stack

tree  == <<live, parent, children, savedfocus, lost>>
vars  == <<tree, focus, pushed, dwidgets, wanted, stack, watch>>

Init ==
  /\ live = {Win}
  /\ parent = [w \in Widgets |-> NULL]
  /\ children = [g \in Groups |-> <<>>]
  /\ savedfocus = [g \in Groups |-> NULL]
  /\ lost = {} /\ focus = NULL /\ pushed = NULL
  /\ dwidgets = <<>> /\ wanted = {} /\ stack = <<>> /\ watch = <<>>
-----------------------------------------------------------------------------
Depth == Len(stack)
Top   == stack[Depth]
Frames(pcs) == {i \in 1 .. Depth : stack[i].pc \in pcs}

\* A call: where it is, its widget, its loop index, the pointer it put aside
\* (the tracker of do_callback(), the local variable pushed of clear()), whether
\* the group is destroyed after clear(), and, as history, whether w was deleted.
Frame(pc, w) == [pc |-> pc, w |-> w, i |-> 0, saved |-> NULL, delete |-> FALSE, gone |-> FALSE]

Push(frame) == Depth < MaxStack /\ stack' = Append(stack, frame)
SetTop(frame) == stack' = [stack EXCEPT ![Depth] = frame]

\* Fl_Widget::contains() walks up from the widget, here with parents par.
UpFrom(par, w) ==
  LET up[n \in 0 .. Cardinality(Widgets)] ==
        LET below == up[n - 1]
        IN  IF n = 0 THEN {w} ELSE below \union {par[x] : x \in below \ {NULL}}
  IN  up[Cardinality(Widgets)] \ {NULL}
Holds(par, w, o) == w \in UpFrom(par, o)
Within(w) == {o \in live : Holds(parent, w, o)}

Scheduled == ToSet(dwidgets)

\* Widgets whose destructor or clear() is under way, and those of destructors.
Acting == Frames({"user", "clear", "widget"})
Busy   == {stack[i].w : i \in Acting}
Dying  == {stack[i].w : i \in {j \in Acting : stack[j].delete}}

\* Groups whose clear() has read children() already: it does not see what is
\* added behind its index.
Clearing == {stack[i].w : i \in Frames({"clear", "widget"})}

\* The loop of do_widget_deletion() has come to the n-th entry of the list.
Handled(n) == \E i \in Frames({"loop"}) : n <= stack[i].i

\* What the clear() calls under way have put aside to restore it.
Saved == {stack[i].saved : i \in Frames({"clear"})}

\* The program's code runs: between callbacks, in a callback, in a destructor.
UserCode == stack # <<>> => Top.pc \in {"callback", "user"}

\* "When deleting groups or windows, you must only delete the group or window
\* widget and not the individual child widgets."
OnlyTheGroup(par, sched) ==
  \A w \in sched : UpFrom(par, w) \intersect (sched \union Busy) \subseteq {w}
-----------------------------------------------------------------------------
\* FL_UNFOCUS is sent to p and its ancestors; every group keeps the child that
\* had the focus.
Unfocus(par, sf, p) ==
  [g \in Groups |->
     IF p = NULL \/ g \notin UpFrom(par, p) THEN sf[g]
     ELSE IF g = p THEN NULL
     ELSE CHOOSE c \in UpFrom(par, p) : par[c] = g]

\* The leaves of Win that may take the focus: visible_r() and FL_FOCUS accepted.
Takers(par, lv, sched) ==
  {w \in lv \ Groups : Holds(par, Win, w) /\ UpFrom(par, w) \intersect sched = {}}

\* fl_fix_focus(), with the focus f: unless it is inside Win, one of takers gets
\* it, or Win itself.
FixFocus(par, sf, f, takers) ==
  IF f # NULL /\ Holds(par, Win, f) THEN focus' = f /\ savedfocus' = sf
  ELSE focus' \in {Win} \union takers /\ savedfocus' = Unfocus(par, sf, f)

\* fl_throw_focus(w)
ThrowFocus(w, par, sf, f, takers) ==
  /\ pushed' = IF pushed # NULL /\ Holds(par, w, pushed) THEN NULL ELSE pushed
  /\ FixFocus(par, sf, IF f # NULL /\ Holds(par, w, f) THEN NULL ELSE f, takers)

\* Fl::focus(w)
Focus(w) ==
  /\ UserCode /\ w \in live \ Groups /\ w # focus
  /\ focus' = w /\ savedfocus' = Unfocus(parent, savedfocus, focus)
  /\ UNCHANGED <<live, parent, children, lost, pushed, dwidgets, wanted, stack, watch>>

\* Fl::pushed(w) when a mouse button goes down, Fl::pushed(0) when it goes up.
SetPushed(w) ==
  /\ stack = <<>> /\ w \in (live \ Groups) \union {NULL} /\ w # pushed
  /\ pushed' = w
  /\ UNCHANGED <<tree, focus, dwidgets, wanted, stack, watch>>
-----------------------------------------------------------------------------
Outside(g, w) == IF g = NULL THEN <<>> ELSE Kept(children[g], Widgets \ {w})

\* g->find(w), for a child of g.
find(g, w) == SelectInSeq(children[g], LAMBDA c : c = w) - 1

\* Fl_Widget(), with the current group g.  Not at an address that the loop of
\* do_widget_deletion() has in its list still: delete_widget() would ignore it.
New(w, g) ==
  /\ UserCode /\ w \notin live \union Scheduled
  /\ g \in (live \intersect Groups) \union {NULL} /\ (g \in Clearing => Adding)
  /\ live' = live \union {w}
  /\ parent' = [parent EXCEPT ![w] = g]
  /\ children' = [c \in Groups |-> IF c = g THEN Append(children[g], w) ELSE children[c]]
  /\ UNCHANGED <<savedfocus, lost, focus, pushed, dwidgets, wanted, stack, watch>>

\* Mutant: a child that moves to another group stays in the old one's array.
InsertKeepsOld(g, w) ==
  /\ UserCode /\ w \in live \ (Busy \union {Win}) /\ g \in live \intersect Groups
  /\ (g \in Clearing => Adding) /\ parent[w] # g
  /\ ~Holds(parent, w, g) /\ Within(w) \intersect Saved = {}
  /\ UpFrom(parent, g) \intersect Busy # {} => Within(w) \intersect Busy = {}
  /\ OnlyTheGroup([parent EXCEPT ![w] = g], Scheduled)
  /\ \E index \in 0 .. Len(children[g]) :
       children' = [children EXCEPT ![g] = InsertAt(@, index + 1, w)]
  /\ parent' = [parent EXCEPT ![w] = g]
  /\ UNCHANGED <<live, savedfocus, lost, focus, pushed, dwidgets, wanted, stack, watch>>

\* g->insert(w, index) for any index, from another group, from none, or within g.
\* Nobody moves what is being deleted into a group that deletes its children.
Insert(g, w) ==
  /\ UserCode /\ w \in live \ (Busy \union {Win}) /\ g \in live \intersect Groups
  /\ (g \in Clearing => Adding \/ parent[w] = g)
  /\ ~Holds(parent, w, g) /\ Within(w) \intersect Saved = {}
  /\ UpFrom(parent, g) \intersect Busy # {} => Within(w) \intersect Busy = {}
  /\ OnlyTheGroup([parent EXCEPT ![w] = g], Scheduled)
  /\ \E index \in 0 .. Len(children[g]) :
       LET old == parent[w]
           at  == IF old = g /\ index > find(g, w) THEN index - 1 ELSE index
       IN  /\ children' = [c \in Groups |->
                             IF c = g THEN InsertAt(Outside(g, w), at + 1, w)
                             ELSE IF c = old THEN Outside(old, w) ELSE children[c]]
           /\ savedfocus' = [c \in Groups |->
                               IF c = old /\ c # g /\ savedfocus[c] = w THEN NULL ELSE savedfocus[c]]
  /\ parent' = [parent EXCEPT ![w] = g]
  /\ UNCHANGED <<live, lost, focus, pushed, dwidgets, wanted, stack, watch>>

\* What remove(w) of its parent leaves of children and savedfocus.
Orphaned(w) ==
  [ch |-> [c \in Groups |-> IF c = parent[w] THEN Outside(c, w) ELSE children[c]],
   sf |-> [c \in Groups |-> IF c = parent[w] /\ savedfocus[c] = w THEN NULL ELSE savedfocus[c]],
   pa |-> [parent EXCEPT ![w] = NULL]]

\* parent->remove(w)
RemoveChild(w) ==
  /\ UserCode /\ w \in live \ Busy /\ parent[w] # NULL
  /\ children' = Orphaned(w).ch /\ savedfocus' = Orphaned(w).sf /\ parent' = Orphaned(w).pa
  /\ UNCHANGED <<live, lost, focus, pushed, dwidgets, wanted, stack, watch>>
-----------------------------------------------------------------------------
\* Fl::delete_widget(w): hide() sends FL_HIDE, which takes the focus from a
\* widget inside w, and throws the focus.
delete_widget(w) ==
  /\ UserCode /\ w \in live \ (Busy \union {Win})
  /\ OnlyTheGroup(parent, Scheduled \union {w})
  /\ wanted' = wanted \union {w}
  /\ dwidgets' = IF w \in Scheduled THEN dwidgets ELSE Append(dwidgets, w)
  /\ IF UpFrom(parent, w) \intersect Scheduled = {}
     THEN LET inside == focus # NULL /\ focus # w /\ Holds(parent, w, focus)
              sf == IF inside THEN Unfocus(parent, savedfocus, focus) ELSE savedfocus
          IN  ThrowFocus(w, parent, sf, IF inside THEN NULL ELSE focus,
                         Takers(parent, live, Scheduled \union {w}))
     ELSE UNCHANGED <<focus, savedfocus, pushed>>
  /\ UNCHANGED <<live, parent, children, lost, stack, watch>>

\* Nobody deletes what a destructor, a clear() or the event loop is about to
\* delete, or the widget that clear() put aside.
MayDelete(w) ==
  /\ UserCode /\ w \in live \ {Win}
  /\ Within(w) \intersect (Scheduled \union Busy \union Saved) = {}

Destructor(w) == [Frame("user", w) EXCEPT !.delete = TRUE]

\* delete w
Delete(w) ==
  /\ Push(Destructor(w)) /\ MayDelete(w)
  /\ UNCHANGED <<tree, focus, pushed, dwidgets, wanted, watch>>

\* g->clear() up to its loop, with its frame on top of the calls below.
EnterClear(below, frame) ==
  LET g == frame.w
  IN  /\ savedfocus' = [savedfocus EXCEPT ![g] = NULL]
      /\ pushed' = g
      /\ stack' = Append(below,
                         [frame EXCEPT !.pc = "clear", !.i = Len(children[g]),
                            !.saved = IF pushed # NULL /\ Holds(parent, g, pushed)
                                      THEN g ELSE pushed])
      /\ UNCHANGED <<live, parent, children, lost, focus, dwidgets, wanted, watch>>

\* g->clear(), called by the program.
Clear(g) ==
  /\ UserCode /\ Depth < MaxStack /\ g \in (live \intersect Groups) \ Busy
  /\ (Within(g) \ {g}) \intersect (Scheduled \union Busy \union Saved) = {}
  /\ EnterClear(stack, Frame("clear", g))

\* The program's part of a destructor is over: ~Fl_Group() calls clear().
UserDone ==
  /\ stack # <<>> /\ Top.pc = "user"
  /\ IF Top.w \in Groups THEN EnterClear(Front(stack), Top)
     ELSE SetTop([Top EXCEPT !.pc = "widget"])
          /\ UNCHANGED <<tree, focus, pushed, dwidgets, wanted, watch>>

\* Mutant: the index moves on although the array has shrunk.
ClearStepSkips ==
  /\ stack # <<>> /\ Top.pc = "clear" /\ Top.i > 0
  /\ IF Top.i > Len(children[Top.w])
     THEN SetTop([Top EXCEPT !.i = @ - 1]) /\ UNCHANGED tree
     ELSE LET w == children[Top.w][Top.i]
          IN  /\ stack' = Append([stack EXCEPT ![Depth].i = IF @ > 1 THEN @ - 2 ELSE 0],
                                 Destructor(w))
              /\ children' = Orphaned(w).ch /\ savedfocus' = Orphaned(w).sf
              /\ parent' = Orphaned(w).pa /\ UNCHANGED <<live, lost>>
  /\ UNCHANGED <<focus, pushed, dwidgets, wanted, watch>>

\* One round of the loop of clear(): "some children may have been deleted, so
\* check always"; delete_child(i) removes the child and deletes it.
ClearStep ==
  /\ stack # <<>> /\ Top.pc = "clear" /\ Top.i > 0
  /\ IF Top.i > Len(children[Top.w])
     THEN SetTop([Top EXCEPT !.i = @ - 1]) /\ UNCHANGED tree
     ELSE LET w == children[Top.w][Top.i]
          IN  /\ stack' = Append([stack EXCEPT ![Depth].i = @ - 1], Destructor(w))
              /\ children' = Orphaned(w).ch /\ savedfocus' = Orphaned(w).sf
              /\ parent' = Orphaned(w).pa /\ UNCHANGED <<live, lost>>
  /\ UNCHANGED <<focus, pushed, dwidgets, wanted, watch>>

\* The end of clear(): the array is freed, with children_ as it is, and pushed_
\* is what it was before.
ClearDone ==
  /\ stack # <<>> /\ Top.pc = "clear" /\ Top.i = 0
  /\ pushed' = IF Top.saved = Top.w THEN pushed ELSE Top.saved
  /\ IF Top.delete THEN SetTop([Top EXCEPT !.pc = "widget", !.saved = NULL])
     ELSE stack' = Front(stack)
  /\ lost' = IF children[Top.w] = <<>> THEN lost ELSE lost \union {Top.w}
  /\ UNCHANGED <<live, parent, children, savedfocus, focus, dwidgets, wanted, watch>>

\* Fl::watch_widget_pointer() and release_widget_pointer() for the tracker in the
\* call at place p.
watch_widget_pointer(p)   == watch' = IF p \in ToSet(watch) THEN watch ELSE Append(watch, p)
release_widget_pointer(p) == watch' = Kept(watch, ToSet(watch) \ {p})

\* Mutant: only the first pointer to the widget that is found is cleared.
ClearFirstPointer(w, calls) ==
  LET n == SelectInSeq(watch, LAMBDA p : calls[p].saved = w)
  IN  [i \in DOMAIN calls |->
         IF n > 0 /\ i = watch[n] THEN [calls[i] EXCEPT !.saved = NULL] ELSE calls[i]]

\* Fl::clear_widget_pointer(w): every pointer of the list that is w is cleared.
clear_widget_pointer(w, calls) ==
  [i \in DOMAIN calls |->
     IF i \in ToSet(watch) /\ calls[i].saved = w THEN [calls[i] EXCEPT !.saved = NULL]
     ELSE calls[i]]

\* History: the callbacks whose widget is deleted now.
Witness(w, calls) ==
  [i \in DOMAIN calls |->
     [calls[i] EXCEPT !.gone = @ \/ (calls[i].pc = "callback" /\ calls[i].w = w)]]

\* ~Fl_Widget()
Destroy ==
  /\ stack # <<>> /\ Top.pc = "widget"
  /\ LET w == Top.w
         o == Orphaned(w)
     IN  /\ live' = live \ {w} /\ lost' = lost \ {w} /\ wanted' = wanted \ {w}
         /\ parent' = o.pa /\ children' = o.ch
         /\ ThrowFocus(w, o.pa, o.sf, focus, Takers(o.pa, live \ {w}, Scheduled \ {w}))
         /\ stack' = Witness(w, clear_widget_pointer(w, Front(stack)))
  /\ UNCHANGED <<dwidgets, watch>>

\* do_callback() of w, with its tracker; the program's code runs.
do_callback(w) ==
  /\ UserCode /\ w \in live \ Groups /\ Depth < MaxCallbacks
  /\ Push([Frame("callback", w) EXCEPT !.saved = w])
  /\ watch_widget_pointer(Depth + 1)
  /\ UNCHANGED <<tree, focus, pushed, dwidgets, wanted>>

CallbackReturns ==
  /\ stack # <<>> /\ Top.pc = "callback"
  /\ stack' = Front(stack)
  /\ release_widget_pointer(Depth)
  /\ UNCHANGED <<tree, focus, pushed, dwidgets, wanted>>

\* Fl::wait() begins with do_widget_deletion(); it is not called in destructors.
BeginLoop ==
  /\ UserCode /\ Busy = {} /\ dwidgets # <<>>
  /\ Push(Frame("loop", NULL))
  /\ UNCHANGED <<tree, focus, pushed, dwidgets, wanted, watch>>

\* Mutant: the loop leaves out the last entry.
LoopStepLeavesLast ==
  /\ stack # <<>> /\ Top.pc = "loop"
  /\ IF Top.i + 1 < Len(dwidgets)
     THEN /\ stack' = Append([stack EXCEPT ![Depth].i = @ + 1], Destructor(dwidgets[Top.i + 1]))
          /\ UNCHANGED dwidgets
     ELSE dwidgets' = <<>> /\ stack' = Front(stack)
  /\ UNCHANGED <<tree, focus, pushed, wanted, watch>>

\* One round of the loop of do_widget_deletion(), which reads num_dwidgets each
\* time; after the last one the list is empty.
LoopStep ==
  /\ stack # <<>> /\ Top.pc = "loop"
  /\ IF Top.i < Len(dwidgets)
     THEN /\ stack' = Append([stack EXCEPT ![Depth].i = @ + 1], Destructor(dwidgets[Top.i + 1]))
          /\ UNCHANGED dwidgets
     ELSE dwidgets' = <<>> /\ stack' = Front(stack)
  /\ UNCHANGED <<tree, focus, pushed, wanted, watch>>
-----------------------------------------------------------------------------
UserCall ==
  /\ UserCode
  /\ \/ \E w \in Widgets :
          \/ Focus(w) \/ RemoveChild(w) \/ delete_widget(w) \/ Delete(w) \/ do_callback(w)
          \/ \E g \in Groups \union {NULL} : New(w, g)
          \/ \E g \in Groups : Insert(g, w)
     \/ \E w \in Widgets \union {NULL} : SetPushed(w)
     \/ \E g \in Groups : Clear(g)

Step == UserDone \/ ClearStep \/ ClearDone \/ Destroy \/ CallbackReturns \/ LoopStep

Next == UserCall \/ BeginLoop \/ Step

Spec == Init /\ [][Next]_vars
-----------------------------------------------------------------------------
TypeOK ==
  /\ live \subseteq Widgets /\ wanted \subseteq Widgets /\ lost \subseteq Groups
  /\ parent \in [Widgets -> Groups \union {NULL}]
  /\ children \in [Groups -> Seq(Widgets)]
  /\ savedfocus \in [Groups -> Widgets \union {NULL}]
  /\ focus \in Widgets \union {NULL} /\ pushed \in Widgets \union {NULL}
  /\ dwidgets \in Seq(Widgets)
  /\ stack \in Seq([pc : {"user", "clear", "widget", "callback", "loop"},
                    w : Widgets \union {NULL}, i : Nat, saved : Widgets \union {NULL},
                    delete : BOOLEAN, gone : BOOLEAN])
  /\ watch \in Seq(Nat)

\* parent() and the arrays of children agree, and both ends of the link exist.
TreeAgrees ==
  /\ \A w \in Widgets :
       parent[w] # NULL => {w, parent[w]} \subseteq live /\ w \in ToSet(children[parent[w]])
  /\ \A g \in Groups : \A i \in 1 .. Len(children[g]) :
       /\ parent[children[g][i]] = g
       /\ \A j \in 1 .. Len(children[g]) : children[g][i] = children[g][j] => i = j

\* No pointer to a deleted widget is left anywhere, although destructors run the
\* program's code in the middle of it: parents and arrays of children agree, a
\* group with children has an array_, savedfocus_ is a child, and focus_ and pushed_
\* are widgets that exist.  With Adding it does not hold: clear() frees the array of
\* a group that has got another child since its loop began.
NoDangling ==
  /\ TypeOK /\ TreeAgrees /\ lost = {}
  /\ {focus, pushed} \subseteq live \union {NULL}
  /\ \A g \in Groups : savedfocus[g] # NULL => savedfocus[g] \in ToSet(children[g])

\* No widget is deleted twice: whoever is deleted, or is still to be deleted by
\* the loop of do_widget_deletion(), exists and is there once; and a group that
\* is destroyed has no children left.
DeletedOnce ==
  /\ Busy \subseteq live
  /\ \A n \in 1 .. Len(dwidgets) : ~Handled(n) => dwidgets[n] \in live \ Dying
  /\ \A i, j \in Acting : stack[i].w = stack[j].w => i = j
  /\ \A i \in Frames({"widget"}) :
       stack[i].w \in Groups => children[stack[i].w] = <<>>

\* Fl_Widget_Tracker tells whether the widget was deleted since, also when another
\* widget has its address now and when several callbacks of one widget are under
\* way; and the watch list holds every tracker that exists once and nothing else,
\* so that clear_widget_pointer() writes into no call that has returned.
TrackersTell ==
  /\ \A i \in Frames({"callback"}) : stack[i].gone <=> stack[i].saved = NULL
  /\ ToSet(watch) = Frames({"callback"})
  /\ \A m, n \in 1 .. Len(watch) : watch[m] = watch[n] => m = n

\* A deletion that was asked for happens: when do_widget_deletion() has emptied
\* the list, every widget that delete_widget() was called for is deleted, also
\* when destructors asked for it while the loop was under way.
NoneForgotten == dwidgets = <<>> => wanted = {}
=============================================================================
