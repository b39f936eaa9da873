-------------------------- MODULE FlFdTableProofs ---------------------------
(***************************************************************************)
(* Proofs about FlFdTable for any descriptors and events, any size of the  *)
(* table and any depth of nested passes.                                   *)
(***************************************************************************)
EXTENDS FlFdTable, SequenceLemmas

Frame == [phase : {"select", "dispatch", "callback"}, next : 1 .. MaxEntries + 1,
          removed : BOOLEAN, awake : BOOLEAN, fdt : [Events -> SUBSET Fds]]

\* The entry of a descriptor for an event.
Watches(x, n, e) == x.fd = n /\ e \in x.events

\* No two entries watch the same descriptor for the same event.
Unique(t) ==
  \A i, j \in 1 .. Len(t) :
    t[i].fd = t[j].fd /\ t[i].events \intersect t[j].events # {} => i = j

\* A pass has not called what is at its index or behind it.
NotCalledYet(t, st) ==
  \A d \in 1 .. Len(st) : \A i \in 1 .. Len(t) : i >= st[d].next => t[i].mark[d] # "called"

\* A pass has left out nothing that select() reported, unless an entry was
\* removed below it.
NoneLeftOut(t, st) ==
  \A d \in 1 .. Len(st) :
    ~st[d].removed =>
      \A i \in 1 .. Len(t) :
        i < st[d].next /\ t[i].mark[d] = "waiting" =>
          \A e \in t[i].events : t[i].fd \notin st[d].fdt[e]

\* A pass inside select() has not begun to dispatch.
SelectFirst(st) == \A d \in 1 .. Len(st) : st[d].phase = "select" => st[d].next = 1

\* The inductive invariant.
IInv ==
  /\ TableConsistent
  /\ NotCalledYet(fd, stack)
  /\ NoneLeftOut(fd, stack)
  /\ SelectFirst(stack)

-----------------------------------------------------------------------------
(* The largest descriptor.                                                 *)
LEMMA EntryFd == \A x \in Entries : x.fd \in Fds /\ x.fd \in Nat
  BY FdAssumption DEF Entries

LEMMA LargestExists ==
  \A t \in Seq(Entries) : t # <<>> => \E i \in 1 .. Len(t) : \A j \in 1 .. Len(t) : t[j].fd <= t[i].fd
<1> DEFINE T == {t \in Seq(Entries) :
                   t # <<>> => \E i \in 1 .. Len(t) : \A j \in 1 .. Len(t) : t[j].fd <= t[i].fd}
<1>1. <<>> \in T
  OBVIOUS
<1>2. ASSUME NEW t \in Seq(Entries), NEW x \in Entries, t \in T
      PROVE  Append(t, x) \in T
  <2> DEFINE u == Append(t, x)
             n == Len(t) + 1
  <2>1. /\ u \in Seq(Entries) /\ Len(u) = n /\ u[n] = x /\ Len(t) \in Nat /\ n \in 1 .. n
        /\ \A i \in 1 .. Len(t) : u[i] = t[i]
    OBVIOUS
  <2>2. \A y \in Entries : y.fd \in Fds /\ y.fd \in Nat
    BY EntryFd
  <2>3. \A i \in 1 .. n : u[i].fd \in Int
    <3>1. \A i \in 1 .. n : u[i] \in Entries
      BY <2>1
    <3> QED
      BY <2>2, <3>1
  <2> HIDE DEF u
  <2>4. \A j \in 1 .. n : j \in 1 .. Len(t) \/ j = n
    BY <2>1
  <2>5. \E i \in 1 .. n : \A j \in 1 .. n : u[j].fd <= u[i].fd
    <3>1. CASE t = <<>>
      <4>1. \A j \in 1 .. n : j = n
        BY <3>1
      <4>2. u[n].fd <= u[n].fd
        BY <2>1, <2>3
      <4> QED
        BY <2>1, <4>1, <4>2
    <3>2. CASE t # <<>>
      <4>1. PICK i \in 1 .. Len(t) : \A j \in 1 .. Len(t) : t[j].fd <= t[i].fd
        BY <1>2, <3>2
      <4>2. i \in 1 .. n /\ u[i] = t[i]
        BY <2>1
      <4>3. CASE x.fd <= t[i].fd
        <5>1. \A j \in 1 .. n : u[j].fd <= u[i].fd
          BY <2>1, <2>4, <4>1, <4>2, <4>3
        <5> QED
          BY <4>2, <5>1
      <4>4. CASE ~ (x.fd <= t[i].fd)
        <5>1. u[i].fd < u[n].fd
          BY <2>1, <2>3, <4>2, <4>4
        <5>2. \A j \in 1 .. n : u[j].fd <= u[n].fd
          <6>1. ASSUME NEW j \in 1 .. n PROVE u[j].fd <= u[n].fd
            <7>1. CASE j = n
              BY <2>3, <7>1
            <7>2. CASE j \in 1 .. Len(t)
              <8>1. u[j].fd <= u[i].fd
                BY <2>1, <4>1, <4>2, <7>2
              <8> QED
                BY <2>1, <2>3, <4>2, <5>1, <8>1
            <7> QED
              BY <2>4, <7>1, <7>2
          <6> QED
            BY <6>1
        <5> QED
          BY <2>1, <5>2
      <4> QED
        BY <4>3, <4>4
    <3> QED
      BY <3>1, <3>2
  <2> QED
    BY <2>1, <2>5 DEF u
<1> HIDE DEF T
<1>3. Seq(Entries) \subseteq T
  BY <1>1, <1>2, SeqInduct
<1> QED
  BY <1>3 DEF T

LEMMA LargestFacts ==
  ASSUME NEW t \in Seq(Entries)
  PROVE  /\ LargestFd(t) \in Fds \union {-1} /\ LargestFd(t) \in Int
         /\ \A i \in 1 .. Len(t) : t[i].fd <= LargestFd(t)
         /\ \A m \in Int : m >= -1 /\ (\A i \in 1 .. Len(t) : t[i].fd <= m) => LargestFd(t) <= m
<1>0. \A i \in 1 .. Len(t) : t[i].fd \in Fds /\ t[i].fd \in Nat
  BY EntryFd
<1>1. CASE t = <<>>
  BY <1>1 DEF LargestFd
<1>2. CASE t # <<>>
  <2> DEFINE S == {t[i].fd : i \in 1 .. Len(t)}
  <2>1. PICK i \in 1 .. Len(t) : \A j \in 1 .. Len(t) : t[j].fd <= t[i].fd
    BY <1>2, LargestExists
  <2>2. t[i].fd \in S /\ \A y \in S : t[i].fd >= y
    BY <1>0, <2>1
  <2>3. Max(S) \in S /\ \A y \in S : Max(S) >= y
    BY <2>2 DEF Max
  <2>4. LargestFd(t) = Max(S)
    BY <1>2 DEF LargestFd
  <2>5. LargestFd(t) \in S /\ \A y \in S : LargestFd(t) >= y
    BY <2>3, <2>4
  <2> QED
    BY <1>0, <2>5
<1> QED
  BY <1>1, <1>2

-----------------------------------------------------------------------------
(* What remove_fd() leaves of the table.                                   *)

\* Every entry was at its place or behind it before; if none was taken out, the
\* entries have fewer events at most.
Shrunk(k, t) ==
  /\ \A a \in 1 .. Len(k) : \E m \in a .. Len(t) : k[a].mark = t[m].mark
  /\ Len(k) = Len(t) =>
       \A i \in 1 .. Len(t) : /\ k[i].fd = t[i].fd /\ k[i].events \subseteq t[i].events
                              /\ k[i].mark = t[i].mark

LEMMA WithoutFacts ==
  ASSUME NEW t \in Seq(Entries), NEW n \in Fds, NEW evs \in SUBSET Events
  PROVE  LET k == Without(t, n, evs)
         IN  /\ k \in Seq(Entries) /\ Len(k) <= Len(t)
             /\ \A m \in Fds, e \in Events :
                  (\E i \in 1 .. Len(k) : Watches(k[i], m, e))
                    <=> (\E i \in 1 .. Len(t) : Watches(t[i], m, e)) /\ ~(m = n /\ e \in evs)
             /\ Unique(t) => Unique(k)
             /\ Shrunk(k, t)
<1> DEFINE Raw == [fd : Fds, events : SUBSET Events, mark : [Passes -> Marks]]
           Mask(x) == IF x.fd = n THEN [x EXCEPT !.events = @ \ evs] ELSE x
           q == [i \in 1 .. Len(t) |-> Mask(t[i])]
           k == Kept(q, Entries)
<1>1. \A x \in Entries : /\ Mask(x) \in Raw /\ Mask(x).fd = x.fd /\ Mask(x).mark = x.mark
                         /\ Mask(x).events = IF x.fd = n THEN x.events \ evs ELSE x.events
                         /\ Mask(x).events \subseteq x.events
                         /\ Mask(x) \in Entries <=> Mask(x).events # {}
  <2>1. SUFFICES ASSUME NEW x \in Entries
                 PROVE /\ Mask(x) \in Raw /\ Mask(x).fd = x.fd /\ Mask(x).mark = x.mark
                       /\ Mask(x).events = IF x.fd = n THEN x.events \ evs ELSE x.events
                       /\ Mask(x).events \subseteq x.events
                       /\ Mask(x) \in Entries <=> Mask(x).events # {}
    OBVIOUS
  <2>2. CASE x.fd = n
    BY <2>2 DEF Entries
  <2>3. CASE x.fd # n
    BY <2>3 DEF Entries
  <2> QED
    BY <2>2, <2>3
<1>2. /\ Len(t) \in Nat /\ \A i \in 1 .. Len(t) : t[i] \in Entries /\ q[i] = Mask(t[i])
      /\ DOMAIN q = 1 .. Len(t) /\ q = [i \in DOMAIN q |-> q[i]]
  OBVIOUS
<1>3. Without(t, n, evs) = k
  BY DEF Without
<1> HIDE DEF Raw, Mask, q
<1>0. ASSUME NEW i \in 1 .. Len(t)
      PROVE  /\ q[i] \in Raw /\ q[i].fd = t[i].fd /\ q[i].mark = t[i].mark
             /\ q[i].events = IF t[i].fd = n THEN t[i].events \ evs ELSE t[i].events
             /\ q[i].events \subseteq t[i].events
             /\ q[i] \in Entries <=> q[i].events # {}
  <2> DEFINE x == t[i]
  <2>1. x \in Entries /\ q[i] = Mask(x)
    BY <1>2
  <2> HIDE DEF x
  <2>2. /\ Mask(x) \in Raw /\ Mask(x).fd = x.fd /\ Mask(x).mark = x.mark
        /\ Mask(x).events = IF x.fd = n THEN x.events \ evs ELSE x.events
        /\ Mask(x).events \subseteq x.events
        /\ Mask(x) \in Entries <=> Mask(x).events # {}
    BY <1>1, <2>1
  <2> QED
    BY <2>1, <2>2 DEF x
<1>4. q \in Seq(Raw) /\ Len(q) = Len(t)
  <2>1. \A i \in 1 .. Len(t) : q[i] \in Raw
    BY <1>0
  <2> QED
    BY <1>2, <2>1, FunctionIsSeq
<1>5. k \in Seq(Entries) /\ InOrder(k, q) /\ Len(k) <= Len(q)
      /\ ToSet(k) = ToSet(q) \intersect Entries /\ (Len(k) = Len(q) => k = q)
  BY <1>4, KeptIn, KeptInOrder, KeptSet, KeptAll
<1> HIDE DEF k
<1>6. ASSUME NEW m \in Fds, NEW e \in Events
      PROVE  (\E i \in 1 .. Len(k) : Watches(k[i], m, e))
               <=> (\E i \in 1 .. Len(t) : Watches(t[i], m, e)) /\ ~(m = n /\ e \in evs)
  <2>1. ASSUME NEW i \in 1 .. Len(k), Watches(k[i], m, e)
        PROVE  (\E j \in 1 .. Len(t) : Watches(t[j], m, e)) /\ ~(m = n /\ e \in evs)
    <3>1. k[i] \in ToSet(k)
      BY <1>5 DEF ToSet
    <3>2. k[i] \in ToSet(q)
      BY <1>5, <3>1
    <3>3. PICK j \in 1 .. Len(t) : k[i] = q[j]
      BY <1>2, <3>2 DEF ToSet
    <3>4. /\ q[j].fd = t[j].fd
          /\ q[j].events = IF t[j].fd = n THEN t[j].events \ evs ELSE t[j].events
      BY <1>0
    <3> QED
      BY <2>1, <3>3, <3>4 DEF Watches
  <2>2. ASSUME NEW j \in 1 .. Len(t), Watches(t[j], m, e), ~(m = n /\ e \in evs)
        PROVE  \E i \in 1 .. Len(k) : Watches(k[i], m, e)
    <3>1. /\ q[j].fd = t[j].fd /\ (q[j] \in Entries <=> q[j].events # {})
          /\ q[j].events = IF t[j].fd = n THEN t[j].events \ evs ELSE t[j].events
      BY <1>0
    <3>2. Watches(q[j], m, e) /\ q[j] \in Entries
      BY <2>2, <3>1 DEF Watches
    <3>3. q[j] \in ToSet(q)
      BY <1>2 DEF ToSet
    <3>4. q[j] \in ToSet(k)
      BY <1>5, <3>2, <3>3
    <3>5. PICK i \in 1 .. Len(k) : k[i] = q[j]
      <4>1. DOMAIN k = 1 .. Len(k)
        BY <1>5
      <4> QED
        BY <3>4, <4>1 DEF ToSet
    <3> QED
      BY <3>2, <3>5
  <2> QED
    BY <2>1, <2>2
<1>7. ASSUME Unique(t) PROVE Unique(k)
  <2>1. ASSUME NEW a \in 1 .. Len(k), NEW c \in 1 .. Len(k), a < c,
               k[a].fd = k[c].fd, k[a].events \intersect k[c].events # {}
        PROVE  FALSE
    <3>1. PICK i \in 1 .. Len(t), j \in 1 .. Len(t) : i < j /\ k[a] = q[i] /\ k[c] = q[j]
      BY <1>4, <1>5, <2>1 DEF InOrder
    <3>2. /\ q[i].fd = t[i].fd /\ q[i].events \subseteq t[i].events
          /\ q[j].fd = t[j].fd /\ q[j].events \subseteq t[j].events
      BY <1>0
    <3>3. t[i].fd = t[j].fd /\ t[i].events \intersect t[j].events # {}
      BY <2>1, <3>1, <3>2
    <3>4. i = j
      BY <1>7, <3>3 DEF Unique
    <3> QED
      BY <3>1, <3>4
  <2>2. ASSUME NEW a \in 1 .. Len(k), NEW c \in 1 .. Len(k),
               k[a].fd = k[c].fd, k[a].events \intersect k[c].events # {}
        PROVE  a = c
    <3>1. a < c \/ c < a \/ a = c
      BY <1>5
    <3> QED
      BY <2>1, <2>2, <3>1
  <2> QED
    BY <2>2 DEF Unique
<1>8. ASSUME NEW a \in 1 .. Len(k)
      PROVE  \E m \in a .. Len(t) : k[a].mark = t[m].mark
  <2>1. PICK m \in a .. Len(t) : k[a] = q[m]
    BY <1>4, <1>5 DEF InOrder
  <2>2. m \in 1 .. Len(t)
    BY <1>2, <1>5
  <2> QED
    BY <1>0, <2>1, <2>2
<1>9. ASSUME Len(k) = Len(t), NEW i \in 1 .. Len(t)
      PROVE  k[i].fd = t[i].fd /\ k[i].events \subseteq t[i].events /\ k[i].mark = t[i].mark
  BY <1>0, <1>4, <1>5, <1>9
<1>10. Shrunk(k, t)
  BY <1>8, <1>9 DEF Shrunk
<1> QED
  BY <1>3, <1>4, <1>5, <1>6, <1>7, <1>10

-----------------------------------------------------------------------------
(* What the parts of the invariant say, in the form the steps use.         *)
LEMMA TypeFacts ==
  ASSUME TypeOK
  PROVE  /\ fd \in Seq(Entries) /\ Len(fd) <= MaxEntries /\ Len(fd) \in Nat
         /\ fdsets \in [Events -> SUBSET Fds] /\ maxfd \in Fds \union {-1, 0} /\ maxfd \in Int
         /\ ready \subseteq Fds \X Events
         /\ stack \in Seq(Frame) /\ Len(stack) <= MaxDepth /\ Len(stack) \in Nat
         /\ \A d \in 1 .. Len(stack) : d \in Passes
<1>1. fd \in Seq(Entries) /\ stack \in Seq(Frame) /\ Len(stack) <= MaxDepth
  BY DEF TypeOK, Frame, Depth
<1>2. maxfd \in Fds \union {-1, 0} /\ maxfd \in Int
  BY FdAssumption DEF TypeOK
<1>3. Len(fd) \in Nat /\ Len(stack) \in Nat
  BY <1>1
<1>4. \A d \in 1 .. Len(stack) : d \in Passes
  BY <1>1, <1>3, FdAssumption DEF Passes
<1> QED
  BY <1>1, <1>2, <1>3, <1>4 DEF TypeOK

\* A call of add_fd() or remove_fd() leaves every pass where it is.
LEMMA NoteFacts ==
  ASSUME stack \in Seq(Frame), NEW b \in BOOLEAN, Note(b)
  PROVE  /\ stack' \in Seq(Frame) /\ Len(stack') = Len(stack)
         /\ \A d \in 1 .. Len(stack) :
              /\ stack'[d].phase = stack[d].phase /\ stack'[d].next = stack[d].next
              /\ stack'[d].fdt = stack[d].fdt
              /\ ~stack'[d].removed => ~stack[d].removed /\ ~b
<1> DEFINE Noted(f, c) == [f EXCEPT !.removed = @ \/ b, !.awake = @ \/ c]
<1>1. ASSUME NEW f \in Frame, NEW c \in BOOLEAN
      PROVE  /\ Noted(f, c) \in Frame /\ Noted(f, c).phase = f.phase /\ Noted(f, c).next = f.next
             /\ Noted(f, c).fdt = f.fdt /\ (~Noted(f, c).removed => ~f.removed /\ ~b)
  BY DEF Frame
<1>2. Len(stack) \in Nat /\ \A d \in 1 .. Len(stack) : stack[d] \in Frame
  OBVIOUS
<1>3. /\ DOMAIN stack' = 1 .. Len(stack) /\ stack' = [d \in DOMAIN stack' |-> stack'[d]]
      /\ \A d \in 1 .. Len(stack) :
           stack'[d] = Noted(stack[d], d = Depth /\ Phase = "select")
  BY DEF Note, Depth
<1> HIDE DEF Noted
<1>4. ASSUME NEW d \in 1 .. Len(stack)
      PROVE  /\ stack'[d] \in Frame
             /\ stack'[d].phase = stack[d].phase /\ stack'[d].next = stack[d].next
             /\ stack'[d].fdt = stack[d].fdt /\ (~stack'[d].removed => ~stack[d].removed /\ ~b)
  <2> DEFINE c == d = Depth /\ Phase = "select"
  <2>1. c \in BOOLEAN /\ stack'[d] = Noted(stack[d], c)
    BY <1>3
  <2> HIDE DEF c
  <2> QED
    BY <1>1, <1>2, <2>1
<1>5. stack' \in Seq(Frame) /\ Len(stack') = Len(stack)
  BY <1>2, <1>3, <1>4, FunctionIsSeq
<1> QED
  BY <1>4, <1>5

\* The passes after the table has lost events of a descriptor.
LEMMA PassesAfterRemoval ==
  ASSUME NEW t \in Seq(Entries), NEW k \in Seq(Entries), Len(k) <= Len(t), Shrunk(k, t),
         NEW st \in Seq(Frame), NEW su \in Seq(Frame), Len(su) = Len(st),
         \A d \in 1 .. Len(st) :
           /\ su[d].phase = st[d].phase /\ su[d].next = st[d].next /\ su[d].fdt = st[d].fdt
           /\ ~su[d].removed => ~st[d].removed /\ ~(Len(k) < Len(t)),
         NotCalledYet(t, st), NoneLeftOut(t, st), SelectFirst(st)
  PROVE  NotCalledYet(k, su) /\ NoneLeftOut(k, su) /\ SelectFirst(su)
<1>1. /\ \A a \in 1 .. Len(k) : \E m \in a .. Len(t) : k[a].mark = t[m].mark
      /\ Len(k) = Len(t) =>
           \A i \in 1 .. Len(t) : /\ k[i].fd = t[i].fd /\ k[i].events \subseteq t[i].events
                                  /\ k[i].mark = t[i].mark
  BY DEF Shrunk
<1>2. Len(k) \in Nat /\ Len(t) \in Nat
  BY <1>1
<1>3. ASSUME NEW d \in 1 .. Len(su), NEW a \in 1 .. Len(k), a >= su[d].next
      PROVE  k[a].mark[d] # "called"
  <2>1. PICK m \in a .. Len(t) : k[a].mark = t[m].mark
    BY <1>1
  <2>2. st[d].next \in Nat
    <3>1. st[d] \in Frame
      OBVIOUS
    <3> QED
      BY <3>1, FdAssumption DEF Frame
  <2>3. m \in 1 .. Len(t) /\ m >= st[d].next
    BY <1>2, <1>3, <2>2
  <2> QED
    BY <2>1, <2>3 DEF NotCalledYet
<1>4. ASSUME NEW d \in 1 .. Len(su), ~su[d].removed, NEW i \in 1 .. Len(k),
             i < su[d].next, k[i].mark[d] = "waiting", NEW e \in k[i].events
      PROVE  k[i].fd \notin su[d].fdt[e]
  <2>1. ~st[d].removed /\ Len(k) = Len(t)
    BY <1>1, <1>2, <1>4
  <2>2. k[i].fd = t[i].fd /\ k[i].events \subseteq t[i].events /\ k[i].mark = t[i].mark
    BY <1>1, <2>1
  <2> QED
    BY <1>4, <2>1, <2>2 DEF NoneLeftOut
<1>5. SelectFirst(su)
  BY DEF SelectFirst
<1> QED
  BY <1>3, <1>4, <1>5 DEF NotCalledYet, NoneLeftOut

LEMMA InitIInv == Init => IInv
<1> SUFFICES ASSUME Init PROVE IInv
  OBVIOUS
<1>1. TypeOK
  BY FdAssumption DEF Init, TypeOK, Depth
<1>2. LargestFd(fd) <= maxfd
  BY DEF Init, LargestFd
<1>3. TableConsistent
  BY <1>1, <1>2 DEF Init, TableConsistent, Registered
<1> QED
  BY <1>3 DEF Init, IInv, NotCalledYet, NoneLeftOut, SelectFirst

LEMMA RemoveStep ==
  ASSUME IInv, NEW n \in Fds, NEW evs \in SUBSET Events, remove_fd(n, evs)
  PROVE  IInv'
<1> DEFINE k == Without(fd, n, evs)
<1>1. /\ TypeOK /\ Unique(fd) /\ \A m \in Fds, e \in Events : m \in fdsets[e] <=> Registered(m, e)
  BY DEF IInv, TableConsistent, Unique
<1>2. /\ fd' = k /\ maxfd' = LargestFd(k)
      /\ fdsets' = [e \in Events |-> IF e \in evs THEN fdsets[e] \ {n} ELSE fdsets[e]]
      /\ ready' = {p \in ready : p[1] # n \/ p[2] \notin evs}
      /\ Note(Len(k) < Len(fd))
  BY DEF remove_fd
<1>3. /\ k \in Seq(Entries) /\ Len(k) <= Len(fd) /\ Unique(k)
      /\ Shrunk(k, fd)
      /\ \A m \in Fds, e \in Events :
           (\E i \in 1 .. Len(k) : Watches(k[i], m, e))
             <=> (\E i \in 1 .. Len(fd) : Watches(fd[i], m, e)) /\ ~(m = n /\ e \in evs)
  BY <1>1, WithoutFacts, TypeFacts
<1> HIDE DEF k
<1>4. /\ stack' \in Seq(Frame) /\ Len(stack') = Len(stack)
      /\ \A d \in 1 .. Len(stack) :
           /\ stack'[d].phase = stack[d].phase /\ stack'[d].next = stack[d].next
           /\ stack'[d].fdt = stack[d].fdt
           /\ ~stack'[d].removed => ~stack[d].removed /\ ~(Len(k) < Len(fd))
  <2> DEFINE b == Len(k) < Len(fd)
  <2>1. b \in BOOLEAN /\ Note(b)
    BY <1>2
  <2> HIDE DEF b
  <2>2. /\ stack' \in Seq(Frame) /\ Len(stack') = Len(stack)
        /\ \A d \in 1 .. Len(stack) :
             /\ stack'[d].phase = stack[d].phase /\ stack'[d].next = stack[d].next
             /\ stack'[d].fdt = stack[d].fdt
             /\ ~stack'[d].removed => ~stack[d].removed /\ ~b
    BY <1>1, <2>1, NoteFacts, TypeFacts
  <2> QED
    BY <2>2 DEF b
<1>5. NotCalledYet(k, stack') /\ NoneLeftOut(k, stack') /\ SelectFirst(stack')
  BY <1>1, <1>3, <1>4, PassesAfterRemoval, TypeFacts DEF IInv
<1>6. TypeOK'
  <2>1. Len(k) <= MaxEntries /\ Len(stack') <= MaxDepth
    BY <1>1, <1>3, <1>4, TypeFacts, FdAssumption
  <2>2. fdsets' \in [Events -> SUBSET Fds] /\ ready' \subseteq Fds \X Events
    BY <1>1, <1>2, TypeFacts
  <2>3. maxfd' \in Fds \union {-1, 0}
    BY <1>2, <1>3, LargestFacts
  <2> QED
    BY <1>2, <1>3, <1>4, <2>1, <2>2, <2>3 DEF TypeOK, Frame, Depth
<1>7. ASSUME NEW m \in Fds, NEW e \in Events
      PROVE  m \in fdsets'[e] <=> Registered(m, e)'
  <2>1. m \in fdsets'[e] <=> m \in fdsets[e] /\ ~(m = n /\ e \in evs)
    BY <1>2
  <2> QED
    BY <1>1, <1>2, <1>3, <2>1 DEF Registered, Watches
<1>8. LargestFd(fd') <= maxfd'
  BY <1>2, <1>3, LargestFacts
<1>9. TableConsistent'
  BY <1>2, <1>3, <1>6, <1>7, <1>8 DEF TableConsistent, Unique
<1> QED
  BY <1>2, <1>5, <1>9 DEF IInv

\* The new entry of add_fd() is the only one for its events, and no pass under
\* way counts it.
LEMMA AddStep ==
  ASSUME IInv, NEW n \in Fds, NEW evs \in (SUBSET Events) \ {{}}, add_fd(n, evs)
  PROVE  IInv'
<1> DEFINE k == Without(fd, n, evs)
           x == NewEntry(n, evs)
           u == Append(k, x)
           l == Len(k) + 1
           top == LargestFd(k)
<1>1. /\ TypeOK /\ Unique(fd) /\ \A m \in Fds, e \in Events : m \in fdsets[e] <=> Registered(m, e)
  BY DEF IInv, TableConsistent, Unique
<1>2. /\ fd' = u /\ Len(k) < MaxEntries
      /\ maxfd' = IF n > top THEN n ELSE top
      /\ fdsets' = [e \in Events |-> IF e \in evs THEN fdsets[e] \union {n} ELSE fdsets[e]]
      /\ ready' = ready /\ Note(Len(k) < Len(fd))
  BY DEF add_fd
<1>3. /\ k \in Seq(Entries) /\ Len(k) <= Len(fd) /\ Unique(k)
      /\ Shrunk(k, fd)
      /\ \A m \in Fds, e \in Events :
           (\E i \in 1 .. Len(k) : Watches(k[i], m, e))
             <=> (\E i \in 1 .. Len(fd) : Watches(fd[i], m, e)) /\ ~(m = n /\ e \in evs)
  <2>1. evs \in SUBSET Events
    OBVIOUS
  <2> QED
    BY <1>1, <2>1, WithoutFacts, TypeFacts
<1> HIDE DEF k
<1>4. /\ stack' \in Seq(Frame) /\ Len(stack') = Len(stack)
      /\ \A d \in 1 .. Len(stack) :
           /\ stack'[d].phase = stack[d].phase /\ stack'[d].next = stack[d].next
           /\ stack'[d].fdt = stack[d].fdt
           /\ ~stack'[d].removed => ~stack[d].removed /\ ~(Len(k) < Len(fd))
  <2> DEFINE b == Len(k) < Len(fd)
  <2>1. b \in BOOLEAN /\ Note(b)
    BY <1>2
  <2> HIDE DEF b
  <2>2. /\ stack' \in Seq(Frame) /\ Len(stack') = Len(stack)
        /\ \A d \in 1 .. Len(stack) :
             /\ stack'[d].phase = stack[d].phase /\ stack'[d].next = stack[d].next
             /\ stack'[d].fdt = stack[d].fdt
             /\ ~stack'[d].removed => ~stack[d].removed /\ ~b
    BY <1>1, <2>1, NoteFacts, TypeFacts
  <2> QED
    BY <2>2 DEF b
<1>5. NotCalledYet(k, stack') /\ NoneLeftOut(k, stack') /\ SelectFirst(stack')
  BY <1>1, <1>3, <1>4, PassesAfterRemoval, TypeFacts DEF IInv
<1>6. /\ x \in Entries /\ x.fd = n /\ x.events = evs /\ \A d \in Passes : x.mark[d] = "late"
  BY DEF NewEntry, Entries, Marks
<1> HIDE DEF x
<1>7. /\ u \in Seq(Entries) /\ Len(u) = l /\ u[l] = x /\ Len(k) \in Nat
      /\ \A i \in 1 .. Len(k) : u[i] = k[i]
  BY <1>3, <1>6
<1>8. \A i \in 1 .. Len(u) : i \in 1 .. Len(k) \/ i = l
  BY <1>7
<1>9. l \in 1 .. Len(u) /\ \A i \in 1 .. Len(k) : i \in 1 .. Len(u)
  BY <1>7
<1> HIDE DEF u, l
<1>10. top \in Fds \union {-1} /\ top \in Int /\ n \in Nat /\ \A i \in 1 .. Len(k) : k[i].fd <= top
  BY <1>3, LargestFacts, FdAssumption
<1> HIDE DEF top
<1>11. TypeOK'
  <2>1. Len(u) <= MaxEntries /\ Len(stack') <= MaxDepth
    BY <1>1, <1>2, <1>4, <1>7, TypeFacts, FdAssumption DEF l
  <2>2. fdsets' \in [Events -> SUBSET Fds] /\ ready' \subseteq Fds \X Events
    BY <1>1, <1>2, TypeFacts
  <2>3. maxfd' \in Fds \union {-1, 0}
    BY <1>2, <1>10
  <2> QED
    BY <1>2, <1>4, <1>7, <2>1, <2>2, <2>3 DEF TypeOK, Frame, Depth
<1>12. ASSUME NEW m \in Fds, NEW e \in Events
       PROVE  m \in fdsets'[e] <=> Registered(m, e)'
  <2>1. m \in fdsets'[e] <=> m \in fdsets[e] \/ (m = n /\ e \in evs)
    BY <1>2
  <2>2. Registered(m, e)' <=> (\E i \in 1 .. Len(k) : Watches(k[i], m, e)) \/ Watches(x, m, e)
    BY <1>2, <1>7, <1>8, <1>9 DEF Registered, Watches
  <2>3. Watches(x, m, e) <=> m = n /\ e \in evs
    BY <1>6 DEF Watches
  <2>4. Registered(m, e) <=> \E i \in 1 .. Len(fd) : Watches(fd[i], m, e)
    BY DEF Registered, Watches
  <2> QED
    BY <1>1, <1>3, <2>1, <2>2, <2>3, <2>4
<1>13. LargestFd(fd') <= maxfd'
  <2>1. maxfd' \in Int /\ maxfd' >= -1 /\ top <= maxfd' /\ n <= maxfd'
    BY <1>2, <1>10, FdAssumption
  <2>2. \A i \in 1 .. Len(k) : k[i].fd \in Int
    BY <1>3, EntryFd
  <2>3. \A i \in 1 .. Len(u) : u[i].fd <= maxfd'
    BY <1>6, <1>7, <1>8, <1>10, <2>1, <2>2
  <2> QED
    BY <1>2, <1>7, <2>1, <2>3, LargestFacts
<1>14. Unique(u)
  <2>1. ASSUME NEW i \in 1 .. Len(k), NEW e \in evs
        PROVE  ~Watches(k[i], n, e)
    BY <1>3
  <2>2. ASSUME NEW i \in 1 .. Len(k), k[i].fd = n
        PROVE  k[i].events \intersect evs = {}
    BY <2>1, <2>2 DEF Watches
  <2> QED
    BY <1>3, <1>6, <1>7, <1>8, <2>2 DEF Unique
<1>15. TableConsistent'
  BY <1>2, <1>11, <1>12, <1>13, <1>14 DEF TableConsistent, Unique
<1>16. NotCalledYet(u, stack') /\ NoneLeftOut(u, stack')
  <2>1. \A d \in 1 .. Len(stack') : x.mark[d] = "late"
    BY <1>1, <1>4, <1>6, TypeFacts
  <2>2. NotCalledYet(u, stack')
    BY <1>5, <1>7, <1>8, <2>1 DEF NotCalledYet
  <2>3. NoneLeftOut(u, stack')
    BY <1>5, <1>7, <1>8, <2>1 DEF NoneLeftOut
  <2> QED
    BY <2>2, <2>3
<1> QED
  BY <1>2, <1>5, <1>15, <1>16 DEF IInv

-----------------------------------------------------------------------------
(* The steps of poll_or_select_with_delay().                               *)
LEMMA InPass ==
  ASSUME TypeOK, Phase # "main"
  PROVE  /\ stack # <<>> /\ Depth = Len(stack) /\ Len(stack) \in 1 .. Len(stack)
         /\ Len(stack) \in Passes
         /\ Top = stack[Len(stack)] /\ Top \in Frame /\ Top.phase = Phase
<1>1. stack # <<>>
  BY DEF Phase
<1>2. Len(stack) \in 1 .. Len(stack) /\ stack \in Seq(Frame)
  BY <1>1, TypeFacts
<1>3. Len(stack) \in Passes
  BY <1>2, TypeFacts
<1> QED
  BY <1>1, <1>2, <1>3 DEF Phase, Top, Depth

LEMMA SetTopFacts ==
  ASSUME TypeOK, stack # <<>>, NEW f \in Frame, SetTop(f)
  PROVE  /\ stack' \in Seq(Frame) /\ Len(stack') = Len(stack)
         /\ stack'[Len(stack)] = f
         /\ \A d \in 1 .. Len(stack) : d # Len(stack) => stack'[d] = stack[d]
<1>1. stack \in Seq(Frame) /\ stack' = [stack EXCEPT ![Len(stack)] = f]
  BY TypeFacts DEF SetTop, Depth
<1>2. Len(stack) \in 1 .. Len(stack)
  BY <1>1
<1> QED
  BY <1>1, <1>2

LEMMA SetMarkFacts ==
  ASSUME NEW t \in Seq(Entries), NEW d \in Passes, NEW m \in Marks
  PROVE  LET u == SetMark(t, d, m)
         IN  /\ u \in Seq(Entries) /\ Len(u) = Len(t)
             /\ \A i \in 1 .. Len(t) :
                  /\ u[i].fd = t[i].fd /\ u[i].events = t[i].events /\ u[i].mark[d] = m
                  /\ \A c \in Passes : c # d => u[i].mark[c] = t[i].mark[c]
<1> DEFINE u == SetMark(t, d, m)
           Put(x) == [x EXCEPT !.mark[d] = m]
<1>1. ASSUME NEW x \in Entries
      PROVE  /\ Put(x) \in Entries /\ Put(x).fd = x.fd /\ Put(x).events = x.events
             /\ Put(x).mark[d] = m /\ \A c \in Passes : c # d => Put(x).mark[c] = x.mark[c]
  BY DEF Entries
<1>2. /\ Len(t) \in Nat /\ \A i \in 1 .. Len(t) : t[i] \in Entries /\ u[i] = Put(t[i])
      /\ DOMAIN u = 1 .. Len(t) /\ u = [i \in DOMAIN u |-> u[i]]
  BY DEF SetMark
<1> HIDE DEF Put, u
<1>3. ASSUME NEW i \in 1 .. Len(t)
      PROVE  /\ u[i] \in Entries
             /\ u[i].fd = t[i].fd /\ u[i].events = t[i].events /\ u[i].mark[d] = m
             /\ \A c \in Passes : c # d => u[i].mark[c] = t[i].mark[c]
  BY <1>1, <1>2
<1>4. u \in Seq(Entries) /\ Len(u) = Len(t)
  BY <1>2, <1>3, FunctionIsSeq
<1> QED
  BY <1>3, <1>4 DEF u

\* A step that changes nothing of the table but the marks.
LEMMA SameTable ==
  ASSUME TableConsistent, TypeOK', Len(fd') = Len(fd),
         \A i \in 1 .. Len(fd) : fd'[i].fd = fd[i].fd /\ fd'[i].events = fd[i].events,
         fdsets' = fdsets, maxfd' = maxfd
  PROVE  TableConsistent'
<1>1. \A m, e : Registered(m, e)' <=> Registered(m, e)
  BY DEF Registered
<1>2. LargestFd(fd') = LargestFd(fd)
  <2>1. fd \in Seq(Entries) /\ fd' \in Seq(Entries)
    BY DEF TableConsistent, TypeOK
  <2>2. fd = <<>> <=> fd' = <<>>
    BY <2>1
  <2>3. {fd'[i].fd : i \in 1 .. Len(fd')} = {fd[i].fd : i \in 1 .. Len(fd)}
    OBVIOUS
  <2> QED
    BY <2>2, <2>3 DEF LargestFd
<1>3. \A i, j \in 1 .. Len(fd') :
        fd'[i].fd = fd'[j].fd /\ fd'[i].events \intersect fd'[j].events # {} => i = j
  BY DEF TableConsistent
<1>4. \A n \in Fds, e \in Events : n \in fdsets'[e] <=> Registered(n, e)'
  BY <1>1 DEF TableConsistent
<1> QED
  BY <1>2, <1>3, <1>4 DEF TableConsistent

LEMMA InputStep ==
  ASSUME IInv, NEW n \in Fds, NEW e \in Events, Input(n, e)
  PROVE  IInv'
<1>1. UNCHANGED <<fd, fdsets, maxfd, stack>> /\ ready' = ready \union {<<n, e>>}
  BY DEF Input, table
<1>2. TypeOK'
  BY <1>1 DEF IInv, TableConsistent, TypeOK, Depth
<1>3. TableConsistent'
  BY <1>1, <1>2, SameTable DEF IInv
<1> QED
  BY <1>1, <1>3 DEF IInv

\* A new pass has called nothing, and is about all entries there are.
LEMMA BeginSelectStep == IInv /\ BeginSelect => IInv'
<1> SUFFICES ASSUME IInv, BeginSelect PROVE IInv'
  OBVIOUS
<1> DEFINE f == [phase |-> "select", next |-> 1, removed |-> FALSE, awake |-> FALSE,
                 fdt |-> [e \in Events |-> {n \in fdsets[e] : n <= maxfd}]]
           l == Len(stack) + 1
<1>1. TypeOK /\ TableConsistent
  BY DEF IInv, TableConsistent
<1>2. /\ Len(stack) < MaxDepth /\ stack' = Append(stack, f) /\ fd' = SetMark(fd, l, "waiting")
      /\ UNCHANGED <<fdsets, maxfd, ready>>
  BY DEF BeginSelect, Depth
<1>3. f \in Frame /\ f.phase = "select" /\ f.next = 1
  <2>1. [e \in Events |-> {n \in fdsets[e] : n <= maxfd}] \in [Events -> SUBSET Fds]
    BY <1>1, TypeFacts
  <2>2. 1 \in 1 .. MaxEntries + 1
    BY FdAssumption
  <2> QED
    BY <2>1, <2>2 DEF Frame
<1> HIDE DEF f
<1>4. l \in Passes /\ Len(stack) \in Nat /\ stack \in Seq(Frame) /\ "waiting" \in Marks
  BY <1>1, <1>2, TypeFacts, FdAssumption DEF Passes, Marks
<1>5. /\ stack' \in Seq(Frame) /\ Len(stack') = l /\ stack'[l] = f
      /\ \A d \in 1 .. Len(stack) : stack'[d] = stack[d] /\ d # l /\ d \in Passes
  BY <1>1, <1>2, <1>3, <1>4, TypeFacts
<1>6. \A d \in 1 .. l : d \in 1 .. Len(stack) \/ d = l
  BY <1>4
<1> HIDE DEF l
<1>7. /\ fd' \in Seq(Entries) /\ Len(fd') = Len(fd)
      /\ \A i \in 1 .. Len(fd) :
           /\ fd'[i].fd = fd[i].fd /\ fd'[i].events = fd[i].events /\ fd'[i].mark[l] = "waiting"
           /\ \A c \in Passes : c # l => fd'[i].mark[c] = fd[i].mark[c]
  <2>1. fd \in Seq(Entries)
    BY <1>1, TypeFacts
  <2> DEFINE u == SetMark(fd, l, "waiting")
  <2>2. /\ u \in Seq(Entries) /\ Len(u) = Len(fd)
        /\ \A i \in 1 .. Len(fd) :
             /\ u[i].fd = fd[i].fd /\ u[i].events = fd[i].events /\ u[i].mark[l] = "waiting"
             /\ \A c \in Passes : c # l => u[i].mark[c] = fd[i].mark[c]
    BY <1>4, <2>1, SetMarkFacts
  <2> HIDE DEF u
  <2>3. fd' = u
    BY <1>2 DEF u
  <2> QED
    BY <2>2, <2>3
<1>8. TypeOK'
  <2>1. Len(stack') <= MaxDepth /\ Len(fd') <= MaxEntries
    BY <1>1, <1>2, <1>4, <1>5, <1>7, TypeFacts, FdAssumption DEF l
  <2> QED
    BY <1>1, <1>2, <1>5, <1>7, <2>1 DEF TypeOK, Frame, Depth
<1>9. TableConsistent'
  BY <1>1, <1>2, <1>7, <1>8, SameTable
<1>10. NotCalledYet(fd', stack')
  <2>1. ASSUME NEW d \in 1 .. l, NEW i \in 1 .. Len(fd), i >= stack'[d].next
        PROVE  fd'[i].mark[d] # "called"
    <3>1. CASE d = l
      BY <1>7, <3>1
    <3>2. CASE d \in 1 .. Len(stack)
      BY <1>5, <1>7, <2>1, <3>2 DEF IInv, NotCalledYet
    <3> QED
      BY <1>6, <3>1, <3>2
  <2> QED
    BY <1>5, <1>7, <2>1 DEF NotCalledYet
<1>11. NoneLeftOut(fd', stack')
  <2>1. ASSUME NEW d \in 1 .. l, ~stack'[d].removed, NEW i \in 1 .. Len(fd), i < stack'[d].next,
               fd'[i].mark[d] = "waiting", NEW e \in fd'[i].events
        PROVE  fd'[i].fd \notin stack'[d].fdt[e]
    <3>1. CASE d = l
      BY <1>3, <1>5, <2>1, <3>1
    <3>2. CASE d \in 1 .. Len(stack)
      BY <1>5, <1>7, <2>1, <3>2 DEF IInv, NoneLeftOut
    <3> QED
      BY <1>6, <3>1, <3>2
  <2> QED
    BY <1>5, <1>7, <2>1 DEF NoneLeftOut
<1>12. SelectFirst(stack')
  BY <1>3, <1>5, <1>6 DEF IInv, SelectFirst
<1> QED
  BY <1>9, <1>10, <1>11, <1>12 DEF IInv

\* select() returns before any entry was looked at.
LEMMA EndSelectStep == IInv /\ EndSelect => IInv'
<1> SUFFICES ASSUME IInv, EndSelect PROVE IInv'
  OBVIOUS
<1> DEFINE f == [Top EXCEPT !.phase = "dispatch", !.fdt = Reported, !.awake = FALSE]
           l == Len(stack)
<1>1. TypeOK /\ TableConsistent
  BY DEF IInv, TableConsistent
<1>2. Phase = "select" /\ SetTop(f) /\ UNCHANGED <<fd, fdsets, maxfd, ready>>
  BY DEF EndSelect, table
<1>3. /\ stack # <<>> /\ l \in 1 .. l /\ Top = stack[l] /\ Top \in Frame /\ Top.phase = "select"
  BY <1>1, <1>2, InPass
<1>4. Top.next = 1
  BY <1>3 DEF IInv, SelectFirst
<1>5. f \in Frame /\ f.phase = "dispatch" /\ f.next = 1
  <2>1. Reported \in [Events -> SUBSET Fds]
    BY <1>3 DEF Reported, Frame
  <2> QED
    BY <1>3, <1>4, <2>1 DEF Frame
<1> HIDE DEF f
<1>6. /\ stack' \in Seq(Frame) /\ Len(stack') = l /\ stack'[l] = f
      /\ \A d \in 1 .. l : d # l => stack'[d] = stack[d]
  BY <1>1, <1>2, <1>3, <1>5, SetTopFacts
<1>7. TypeOK'
  <2>1. Len(stack') <= MaxDepth
    BY <1>1, <1>6, TypeFacts
  <2> QED
    BY <1>1, <1>2, <1>6, <2>1 DEF TypeOK, Frame, Depth
<1>8. TableConsistent'
  BY <1>1, <1>2, <1>7, SameTable
<1>9. \A d \in 1 .. l : stack'[d].next = stack[d].next
  BY <1>3, <1>4, <1>5, <1>6
<1>10. NotCalledYet(fd', stack')
  BY <1>2, <1>6, <1>9 DEF IInv, NotCalledYet
<1>11. NoneLeftOut(fd', stack')
  <2>1. ASSUME NEW d \in 1 .. l, ~stack'[d].removed, NEW i \in 1 .. Len(fd), i < stack'[d].next,
               fd[i].mark[d] = "waiting", NEW e \in fd[i].events
        PROVE  fd[i].fd \notin stack'[d].fdt[e]
    <3>1. CASE d = l
      BY <1>5, <1>6, <2>1, <3>1
    <3>2. CASE d # l
      BY <1>6, <2>1, <3>2 DEF IInv, NoneLeftOut
    <3> QED
      BY <3>1, <3>2
  <2> QED
    BY <1>2, <1>6, <2>1 DEF NoneLeftOut
<1>12. SelectFirst(stack')
  BY <1>5, <1>6 DEF IInv, SelectFirst
<1> QED
  BY <1>8, <1>10, <1>11, <1>12 DEF IInv

\* The loop moves on: either the entry's callback is called and marked, or
\* select() reported nothing for it.
LEMMA DispatchStep == IInv /\ Dispatch => IInv'
<1> SUFFICES ASSUME IInv, Dispatch PROVE IInv'
  OBVIOUS
<1> DEFINE l == Len(stack)
           j == Top.next
           none == Entry.events \intersect Revents = {}
           called == [fd EXCEPT ![j].mark[l] = "called"]
<1>1. TypeOK /\ TableConsistent
  BY DEF IInv, TableConsistent
<1>2. /\ Phase = "dispatch" /\ j <= Len(fd) /\ UNCHANGED <<fdsets, maxfd>>
      /\ none => SetTop([Top EXCEPT !.next = @ + 1]) /\ fd' = fd /\ ready' = ready
      /\ ~none => /\ SetTop([Top EXCEPT !.phase = "callback", !.next = @ + 1])
                  /\ fd' = called
                  /\ ready' \subseteq ready
  BY DEF Dispatch, Depth
<1>3. /\ stack # <<>> /\ l \in 1 .. l /\ Top = stack[l] /\ Top \in Frame /\ Top.phase = "dispatch"
      /\ l \in Passes
  BY <1>1, <1>2, InPass
<1>4. j \in 1 .. Len(fd) /\ j \in Nat /\ j + 1 \in 1 .. MaxEntries + 1
  <2>1. j \in 1 .. MaxEntries + 1
    BY <1>3 DEF Frame
  <2> QED
    BY <1>1, <1>2, <2>1, TypeFacts, FdAssumption
<1>5. PICK f \in Frame : /\ SetTop(f) /\ f.next = j + 1 /\ f.fdt = Top.fdt /\ f.phase # "select"
                         /\ f.removed = Top.removed
  <2> DEFINE f1 == [Top EXCEPT !.next = @ + 1]
             f2 == [Top EXCEPT !.phase = "callback", !.next = @ + 1]
  <2>1. f1 \in Frame /\ f1.next = j + 1 /\ f1.fdt = Top.fdt /\ f1.phase = Top.phase
        /\ f1.removed = Top.removed
    BY <1>3, <1>4 DEF Frame
  <2>2. f2 \in Frame /\ f2.next = j + 1 /\ f2.fdt = Top.fdt /\ f2.phase = "callback"
        /\ f2.removed = Top.removed
    BY <1>3, <1>4 DEF Frame
  <2>3. SetTop(f1) \/ SetTop(f2)
    BY <1>2
  <2> HIDE DEF f1, f2
  <2> QED
    BY <1>3, <2>1, <2>2, <2>3
<1>6. /\ stack' \in Seq(Frame) /\ Len(stack') = l /\ stack'[l] = f
      /\ \A d \in 1 .. l : d # l => stack'[d] = stack[d]
  BY <1>1, <1>3, <1>5, SetTopFacts
<1>7. fd \in Seq(Entries) /\ fd[j] \in Entries /\ Entry = fd[j] /\ \A d \in 1 .. l : d \in Passes
  BY <1>1, <1>4, TypeFacts DEF Entry
<1>8. /\ fd' \in Seq(Entries) /\ Len(fd') = Len(fd)
      /\ \A i \in 1 .. Len(fd) :
           /\ fd'[i].fd = fd[i].fd /\ fd'[i].events = fd[i].events
           /\ i # j => fd'[i] = fd[i]
           /\ \A c \in Passes : c # l => fd'[i].mark[c] = fd[i].mark[c]
      /\ ~none => fd'[j].mark[l] = "called"
  <2>1. CASE none
    BY <1>2, <1>7, <2>1
  <2>2. CASE ~none
    <3> DEFINE x == [fd[j] EXCEPT !.mark[l] = "called"]
    <3>1. /\ x \in Entries /\ x.fd = fd[j].fd /\ x.events = fd[j].events /\ x.mark[l] = "called"
          /\ \A c \in Passes : c # l => x.mark[c] = fd[j].mark[c]
      BY <1>3, <1>7 DEF Entries, Marks
    <3>2. fd' = [fd EXCEPT ![j] = x]
      BY <1>2, <2>2
    <3> HIDE DEF x
    <3>3. fd' \in Seq(Entries) /\ Len(fd') = Len(fd) /\ fd'[j] = x
          /\ \A i \in 1 .. Len(fd) : i # j => fd'[i] = fd[i]
      BY <1>4, <1>7, <3>1, <3>2
    <3> QED
      BY <3>1, <3>3
  <2> QED
    BY <2>1, <2>2
<1>9. TypeOK'
  <2>1. Len(stack') <= MaxDepth /\ Len(fd') <= MaxEntries
    BY <1>1, <1>6, <1>8, TypeFacts
  <2>2. ready' \subseteq Fds \X Events
    BY <1>1, <1>2, TypeFacts
  <2> QED
    BY <1>1, <1>2, <1>6, <1>8, <2>1, <2>2 DEF TypeOK, Frame, Depth
<1>10. TableConsistent'
  BY <1>1, <1>2, <1>8, <1>9, SameTable
<1>11. NotCalledYet(fd', stack')
  <2>1. ASSUME NEW d \in 1 .. l, NEW i \in 1 .. Len(fd), i >= stack'[d].next
        PROVE  fd'[i].mark[d] # "called"
    <3>1. CASE d = l
      <4>1. i # j /\ i >= j
        BY <1>4, <1>5, <1>6, <2>1, <3>1
      <4> QED
        BY <1>3, <1>8, <3>1, <4>1 DEF IInv, NotCalledYet
    <3>2. CASE d # l
      <4>1. stack'[d] = stack[d] /\ fd'[i].mark[d] = fd[i].mark[d]
        BY <1>6, <1>7, <1>8, <3>2
      <4>2. i >= stack[d].next
        BY <2>1, <4>1
      <4> QED
        BY <4>1, <4>2 DEF IInv, NotCalledYet
    <3> QED
      BY <3>1, <3>2
  <2> QED
    BY <1>6, <1>8, <2>1 DEF NotCalledYet
<1>12. NoneLeftOut(fd', stack')
  <2>1. ASSUME NEW d \in 1 .. l, ~stack'[d].removed, NEW i \in 1 .. Len(fd), i < stack'[d].next,
               fd'[i].mark[d] = "waiting", NEW e \in fd[i].events
        PROVE  fd[i].fd \notin stack'[d].fdt[e]
    <3>1. CASE d # l
      BY <1>6, <1>7, <1>8, <2>1, <3>1 DEF IInv, NoneLeftOut
    <3>2. CASE d = l /\ i = j
      <4>1. none
        BY <1>8, <2>1, <3>2
      <4>2. e \in Events
        BY <1>7, <3>2 DEF Entries
      <4>3. fd[j].fd \notin Top.fdt[e]
        BY <1>7, <2>1, <3>2, <4>1, <4>2 DEF Revents
      <4> QED
        BY <1>5, <1>6, <3>2, <4>3
    <3>3. CASE d = l /\ i # j
      <4>1. i < j /\ fd[i].mark[l] = "waiting" /\ ~stack[l].removed /\ stack'[l].fdt = stack[l].fdt
        BY <1>3, <1>4, <1>5, <1>6, <1>8, <2>1, <3>3
      <4> QED
        BY <1>3, <2>1, <3>3, <4>1 DEF IInv, NoneLeftOut
    <3> QED
      BY <3>1, <3>2, <3>3
  <2> QED
    BY <1>6, <1>8, <2>1 DEF NoneLeftOut
<1>13. SelectFirst(stack')
  BY <1>5, <1>6 DEF IInv, SelectFirst
<1> QED
  BY <1>10, <1>11, <1>12, <1>13 DEF IInv

LEMMA CallbackReturnsStep == IInv /\ CallbackReturns => IInv'
<1> SUFFICES ASSUME IInv, CallbackReturns PROVE IInv'
  OBVIOUS
<1> DEFINE f == [Top EXCEPT !.phase = "dispatch"]
           l == Len(stack)
<1>1. TypeOK /\ TableConsistent
  BY DEF IInv, TableConsistent
<1>2. Phase = "callback" /\ SetTop(f) /\ UNCHANGED <<fd, fdsets, maxfd, ready>>
  BY DEF CallbackReturns, table
<1>3. stack # <<>> /\ l \in 1 .. l /\ Top = stack[l] /\ Top \in Frame
  BY <1>1, <1>2, InPass
<1>4. /\ f \in Frame /\ f.phase = "dispatch" /\ f.next = Top.next /\ f.fdt = Top.fdt
      /\ f.removed = Top.removed
  BY <1>3 DEF Frame
<1> HIDE DEF f
<1>5. /\ stack' \in Seq(Frame) /\ Len(stack') = l /\ stack'[l] = f
      /\ \A d \in 1 .. l : d # l => stack'[d] = stack[d]
  BY <1>1, <1>2, <1>3, <1>4, SetTopFacts
<1>6. TypeOK'
  <2>1. Len(stack') <= MaxDepth
    BY <1>1, <1>5, TypeFacts
  <2> QED
    BY <1>1, <1>2, <1>5, <2>1 DEF TypeOK, Frame, Depth
<1>7. TableConsistent'
  BY <1>1, <1>2, <1>6, SameTable
<1>8. \A d \in 1 .. l : /\ stack'[d].next = stack[d].next /\ stack'[d].fdt = stack[d].fdt
                        /\ stack'[d].removed = stack[d].removed
                        /\ stack'[d].phase = "select" => stack[d].phase = "select"
  BY <1>3, <1>4, <1>5
<1>9. NotCalledYet(fd', stack') /\ SelectFirst(stack')
  BY <1>2, <1>5, <1>8 DEF IInv, NotCalledYet, SelectFirst
<1>10. NoneLeftOut(fd', stack')
  BY <1>2, <1>5, <1>8 DEF IInv, NoneLeftOut
<1> QED
  BY <1>7, <1>9, <1>10 DEF IInv

LEMMA EndPassStep == IInv /\ EndPass => IInv'
<1> SUFFICES ASSUME IInv, EndPass PROVE IInv'
  OBVIOUS
<1> DEFINE l == Len(stack)
<1>1. TypeOK /\ TableConsistent
  BY DEF IInv, TableConsistent
<1>2. Phase = "dispatch" /\ stack' = Front(stack) /\ fd' = SetMark(fd, l, "late")
      /\ UNCHANGED <<fdsets, maxfd, ready>>
  BY DEF EndPass, Depth
<1>3. stack # <<>> /\ l \in Passes /\ fd \in Seq(Entries) /\ "late" \in Marks
  BY <1>1, <1>2, InPass, TypeFacts DEF Marks
<1>4. /\ stack' \in Seq(Frame) /\ Len(stack') = l - 1 /\ l \in Nat
      /\ \A d \in 1 .. l - 1 : stack'[d] = stack[d] /\ d \in 1 .. l /\ d # l /\ d \in Passes
  <2>1. /\ Front(stack) \in Seq(Frame) /\ l \in Nat \ {0} /\ Len(Front(stack)) = l - 1
        /\ \A d \in 1 .. l - 1 : Front(stack)[d] = stack[d]
    BY <1>1, <1>3, FrontLast, TypeFacts
  <2>2. \A d \in 1 .. l - 1 : d \in 1 .. l /\ d # l
    BY <2>1
  <2> QED
    BY <1>1, <1>2, <2>1, <2>2, TypeFacts
<1> DEFINE u == SetMark(fd, l, "late")
<1>5. /\ u \in Seq(Entries) /\ Len(u) = Len(fd)
      /\ \A i \in 1 .. Len(fd) :
           /\ u[i].fd = fd[i].fd /\ u[i].events = fd[i].events
           /\ \A c \in Passes : c # l => u[i].mark[c] = fd[i].mark[c]
  BY <1>3, SetMarkFacts
<1>6. fd' = u
  BY <1>2
<1> HIDE DEF u
<1>7. TypeOK'
  <2>1. Len(stack') <= MaxDepth /\ Len(fd') <= MaxEntries
    BY <1>1, <1>4, <1>5, <1>6, TypeFacts, FdAssumption
  <2> QED
    BY <1>1, <1>2, <1>4, <1>5, <1>6, <2>1 DEF TypeOK, Frame, Depth
<1>8. TableConsistent'
  BY <1>1, <1>2, <1>5, <1>6, <1>7, SameTable
<1> HIDE DEF l
<1>9. l = Len(stack)
  BY DEF l
<1>10. NotCalledYet(fd', stack')
  BY <1>4, <1>5, <1>6, <1>9 DEF IInv, NotCalledYet
<1>11. NoneLeftOut(fd', stack')
  <2>1. ASSUME NEW d \in 1 .. l - 1, ~stack'[d].removed, NEW i \in 1 .. Len(fd),
               i < stack'[d].next, u[i].mark[d] = "waiting", NEW e \in u[i].events
        PROVE  u[i].fd \notin stack'[d].fdt[e]
    <3>1. stack'[d] = stack[d] /\ d \in 1 .. Len(stack) /\ d # l /\ d \in Passes
      BY <1>4, <1>9
    <3>2. u[i].fd = fd[i].fd /\ u[i].events = fd[i].events /\ u[i].mark[d] = fd[i].mark[d]
      BY <1>5, <3>1
    <3> QED
      BY <2>1, <3>1, <3>2 DEF IInv, NoneLeftOut
  <2> QED
    BY <1>4, <1>5, <1>6, <2>1 DEF NoneLeftOut
<1>12. SelectFirst(stack')
  BY <1>4, <1>9 DEF IInv, SelectFirst
<1> QED
  BY <1>8, <1>10, <1>11, <1>12 DEF IInv

LEMMA NextIInv == IInv /\ [Next]_vars => IInv'
<1> SUFFICES ASSUME IInv, [Next]_vars PROVE IInv'
  OBVIOUS
<1>1. ASSUME NEW n \in Fds, NEW evs \in (SUBSET EventsOf[n]) \ {{}},
             add_fd(n, evs) \/ remove_fd(n, evs)
      PROVE  IInv'
  <2>1. evs \in SUBSET Events /\ evs \in (SUBSET Events) \ {{}}
    BY FdAssumption
  <2> QED
    BY <1>1, <2>1, AddStep, RemoveStep
<1>2. ASSUME NEW n \in Fds, NEW e \in Events, Input(n, e)
      PROVE  IInv'
  BY <1>2, InputStep
<1>3. CASE BeginSelect \/ EndSelect \/ Dispatch \/ CallbackReturns \/ EndPass
  BY <1>3, BeginSelectStep, EndSelectStep, DispatchStep, CallbackReturnsStep, EndPassStep
<1>4. CASE UNCHANGED vars
  <2>1. UNCHANGED <<fd, fdsets, maxfd, ready, stack>>
    BY <1>4 DEF vars, table
  <2>2. TypeOK'
    BY <2>1 DEF IInv, TableConsistent, TypeOK, Depth
  <2> QED
    BY <2>1, <2>2, SameTable DEF IInv
<1> QED
  BY <1>1, <1>2, <1>3, <1>4 DEF Next

-----------------------------------------------------------------------------
\* The inductive invariant holds in every state of every behaviour.
THEOREM InvariantHolds == Spec => []IInv
  BY InitIInv, NextIInv, PTL DEF Spec

\* The sets select() gets, maxfd and the table agree after any sequence of
\* add_fd() and remove_fd().
THEOREM TableAgrees == Spec => []TableConsistent
<1>1. IInv => TableConsistent
  BY DEF IInv
<1> QED
  BY InvariantHolds, <1>1, PTL

\* A pass of the dispatch loop calls no entry twice.
THEOREM NoSecondCall == Spec => CalledOnce
<1> DEFINE Once == \A d \in Passes : Depth = d /\ Dispatch /\ Phase' = "callback"
                                       => Entry.mark[d] # "called"
<1>1. IInv /\ [Next]_vars => [Once]_vars
  <2> SUFFICES ASSUME IInv, NEW d \in Passes, Depth = d, Dispatch
               PROVE  Entry.mark[d] # "called"
    OBVIOUS
  <2>1. TypeOK /\ Phase = "dispatch" /\ Top.next <= Len(fd)
    BY DEF IInv, TableConsistent, Dispatch
  <2>2. Top = stack[Len(stack)] /\ Top \in Frame /\ Len(stack) \in 1 .. Len(stack) /\ d = Len(stack)
    BY <2>1, InPass
  <2>3. Top.next \in 1 .. Len(fd) /\ Top.next >= stack[d].next
    <3>1. Top.next \in 1 .. MaxEntries + 1
      BY <2>2 DEF Frame
    <3> QED
      BY <2>1, <2>2, <3>1, TypeFacts, FdAssumption
  <2> QED
    BY <2>2, <2>3 DEF IInv, NotCalledYet, Entry
<1>2. [][Once]_vars => CalledOnce
  BY PTL DEF CalledOnce
<1> QED
  BY <1>1, <1>2, InvariantHolds, PTL DEF Spec

\* A pass below which nothing was removed ends with every callback called that
\* select() reported.
THEOREM PassIsComplete == Spec => NoneSkipped
<1> DEFINE All == \A i \in 1 .. Len(fd) :
                    EndPass /\ ~Top.removed
                    => \/ fd[i].mark[Depth] # "waiting"
                       \/ \A e \in fd[i].events : fd[i].fd \notin Top.fdt[e]
<1>1. IInv /\ [Next]_vars => [All]_vars
  <2> SUFFICES ASSUME IInv, NEW i \in 1 .. Len(fd), EndPass, ~Top.removed,
                      fd[i].mark[Depth] = "waiting"
               PROVE  \A e \in fd[i].events : fd[i].fd \notin Top.fdt[e]
    OBVIOUS
  <2>1. TypeOK /\ Phase = "dispatch" /\ Top.next > Len(fd)
    BY DEF IInv, TableConsistent, EndPass
  <2>2. Top = stack[Len(stack)] /\ Top \in Frame /\ Len(stack) \in 1 .. Len(stack) /\ Depth = Len(stack)
    BY <2>1, InPass
  <2>3. i < stack[Len(stack)].next
    <3>1. Top.next \in 1 .. MaxEntries + 1
      BY <2>2 DEF Frame
    <3> QED
      BY <2>1, <2>2, <3>1, TypeFacts, FdAssumption
  <2> QED
    BY <2>2, <2>3 DEF IInv, NoneLeftOut
<1>2. [][All]_vars => NoneSkipped
  BY PTL DEF NoneSkipped
<1> QED
  BY <1>1, <1>2, InvariantHolds, PTL DEF Spec
=============================================================================
