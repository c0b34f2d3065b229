------------------------ MODULE HarnessApproval_proofs ------------------------
(* HarnessApproval for any number of approvals, messages, failures and closings: *)
(* the route and its barrier, whose decision counts, and what the chat is told.  *)
EXTENDS HarnessApproval, FiniteSetTheorems, SequenceTheorems, TLAPS

-----------------------------------------------------------------------------
(* Types                                                                    *)

Closing == {"no", "asked", "accepted", "refused", "failed", "rejected", "resolved"}
Entry == [of : Approval \cup {NoOne}, inactive : BOOLEAN, resolving : BOOLEAN,
          presented : BOOLEAN, delivered : BOOLEAN, sending : BOOLEAN,
          barrier : BOOLEAN, notified : BOOLEAN, closing : Closing,
          behind : SUBSET Pending]

\* What a task may have to tell; that it is an outcome needs more than types.
Text == Outcome \cup {"none", "unasked", "open"}
Task == [pc : Pc, item : Pending \cup {NoOne}, next : Pending \cup {NoOne}, text : Text,
         says : Decision \cup {"none", "other", "stranger"},
         claimed : Pending \cup {NoOne}, before : SUBSET Reply,
         shown : BOOLEAN, deferred : BOOLEAN]
Events == [kind : {"requested", "resolved"}, ask : Approval]

Types ==
  /\ ask \in [Approval -> {"unasked", "open"} \cup Decision]
  /\ stream \in Seq(Events)
  /\ connected \in BOOLEAN
  /\ route \in Seq(Pending)
  /\ item \in [Pending -> Entry]
  /\ at \in [Thread -> Task]
  /\ told \in [Pending -> Seq(Text)]

-----------------------------------------------------------------------------
(* The route: the invariant of a state whose entries are it, whose route is rt  *)
(* and where the chat was told tl.                                              *)

In(rt, p)     == \E i \in 1..Len(rt) : rt[i] = p
HeadOf(rt, p) == rt # <<>> /\ Head(rt) = p

\* An entry is in the route once, from its request until it is removed, behind
\* those it queued behind.
Once(rt)        == \A i, j \in 1..Len(rt) : rt[i] = rt[j] => i = j
Lively(it, rt)  == \A p \in Pending : In(rt, p) <=> it[p].of # NoOne /\ ~it[p].inactive
Ordered(it, rt) == \A i, j \in 1..Len(rt) : i < j => rt[i] \in it[rt[j]].behind

\* Nobody knows an entry that was not created.
Known(it, p)  == p # NoOne => it[p].of # NoOne
Fresh(it, tl) == \A p \in Pending : it[p].of = NoOne => it[p] = Unused /\ tl[p] = <<>>
Behind(it)    == \A p \in Pending : \A q \in it[p].behind : it[q].of # NoOne

\* Only the head of the route is shown, or waits behind the barrier.
HeadOnly(it, rt) ==
  \A p \in Pending : In(rt, p) /\ (it[p].sending \/ it[p].presented \/ it[p].barrier)
    => HeadOf(rt, p)

\* What becomes of an entry, in which order.
Stages(it, rt) ==
  \A p \in Pending :
    /\ it[p].barrier => ~it[p].sending /\ ~it[p].presented
    /\ it[p].sending => ~it[p].presented
    /\ it[p].presented => it[p].delivered
    /\ it[p].closing # "no" => it[p].inactive
    /\ In(rt, p) => \A q \in it[p].behind : it[q].closing = "no"

Shape(it, rt, tl) ==
  /\ it \in [Pending -> Entry] /\ rt \in Seq(Pending) /\ tl \in [Pending -> Seq(Text)]
  /\ Once(rt) /\ Lively(it, rt) /\ Ordered(it, rt) /\ Fresh(it, tl) /\ Behind(it)
  /\ HeadOnly(it, rt) /\ Stages(it, rt)

-----------------------------------------------------------------------------
(* The tasks                                                                *)

Tells(t)  == at[t].pc \in {"notify", "confirm"}
Deciding  == {"submit", "accepted", "refused", "failed"}
Claiming  == Deciding \cup {"waiting", "notify"}
HandlerPc == {"idle", "settle", "present", "shown", "confirm", "notify"}
ReplyPc   == Pc \ {"settle", "confirm"}

\* What task t is about.
Fits(t, it) ==
  /\ Known(it, at[t].item) /\ Known(it, at[t].next) /\ Known(it, at[t].claimed)
  /\ at[t].pc \in {"settle", "present", "shown", "confirm", "notify"} => at[t].item # NoOne
  /\ Tells(t) => it[at[t].item].inactive
  /\ t = Handler => at[t].pc \in HandlerPc /\ at[t].claimed = NoOne
  /\ t # Handler =>
       /\ at[t].pc \in ReplyPc
       /\ at[t].pc \in Claiming => at[t].item = at[t].claimed /\ at[t].claimed # NoOne
       /\ at[t].pc \in {"idle", "coming", "done"} => at[t].claimed = NoOne
       /\ at[t].pc \in Deciding => it[at[t].item].presented /\ at[t].says \in Decision

\* The barrier of an entry is up while the one task that has the outcome before
\* it to tell is under way.
Barrier(T, it) ==
  /\ \A p \in Pending : it[p].barrier <=> \E t \in T : Tells(t) /\ at[t].next = p
  /\ \A t, u \in T : Tells(t) /\ Tells(u) /\ at[t].next = at[u].next /\ at[t].next # NoOne
                     => t = u

\* Of two messages that claimed the same entry one waits for the other.
Waits(r, q) == at[r].pc = "waiting" /\ q \in at[r].before
Serial ==
  \A r, q \in Reply : r # q /\ at[r].claimed = at[q].claimed /\ at[r].claimed # NoOne =>
    Waits(r, q) \/ Waits(q, r)

\* Whoever claimed the entry that task t claimed waits for t.
First(t) ==
  \A q \in Reply \ {t} : at[q].claimed = at[t].claimed /\ at[t].claimed # NoOne => Waits(q, t)

Tasks(T, it) ==
  at \in [Thread -> Task] /\ (\A t \in T : Fits(t, it)) /\ Barrier(T, it) /\ Serial

RouteInv == Types /\ Shape(item, route, told) /\ Tasks(Thread, item)

-----------------------------------------------------------------------------
(* What the shared operators do                                             *)

\* The numbers of tasks and entries.
LEMMA Numbers ==
  /\ Handler \in Thread /\ Handler \notin Reply /\ Reply \subseteq Thread
  /\ Thread = {Handler} \cup Reply
  /\ NoOne \notin Pending /\ NoOne \notin Approval
  BY DEF Thread, Handler, Reply, NoOne, Pending, Approval

\* A task begins and ends with a value of its type, and so does an entry.
LEMMA Constants ==
  /\ Idle \in Task /\ Done \in Task /\ Unused \in Entry
  /\ Idle.pc = "idle" /\ Idle.item = NoOne /\ Idle.claimed = NoOne /\ Idle.next = NoOne
  /\ Done.pc = "done" /\ Done.item = NoOne /\ Done.claimed = NoOne /\ Done.next = NoOne
<1>1. Idle \in Task
  BY DEF Idle, Task, Pc, Text
<1>2. Done \in Task
  BY <1>1 DEF Done, Task, Pc
<1>3. Unused \in Entry
  BY DEF Unused, Entry, Closing
<1>4. Idle.pc = "idle" /\ Idle.item = NoOne /\ Idle.claimed = NoOne /\ Idle.next = NoOne
  BY DEF Idle
<1> QED
  BY <1>1, <1>2, <1>3, <1>4 DEF Done, Task

\* Taking an entry out of the route leaves the others, in their order.
LEMMA Splice ==
  ASSUME NEW p \in Pending, route \in Seq(Pending), Once(route), route' = Without(p)
  PROVE  /\ route' \in Seq(Pending)
         /\ ~In(route, p) => route' = route
         /\ \A q \in Pending : In(route', q) <=> In(route, q) /\ q # p
         /\ Once(route')
         /\ \A i, j \in 1..Len(route') : i < j =>
              \E k, l \in 1..Len(route) : k < l /\ route'[i] = route[k] /\ route'[j] = route[l]
         /\ HeadOf(route, p) /\ Len(route) > 1 => HeadOf(route', route[2])
         /\ HeadOf(route, p) /\ ~(Len(route) > 1) => route' = <<>>
         /\ ~HeadOf(route, p) => \A q \in Pending : HeadOf(route, q) => HeadOf(route', q)
<1>1. CASE ~In(route, p)
  <2>1. route' = route
    BY <1>1 DEF Without, In, Queued
  <2> QED
    BY <1>1, <2>1 DEF HeadOf, In, Once
<1>2. CASE In(route, p)
  <2>1. PICK k \in 1..Len(route) : route[k] = p
    BY <1>2 DEF In
  <2>2. /\ route \in Seq(Pending) /\ Len(route) \in Nat
        /\ \A i \in 1..Len(route) : route[i] \in Pending
        /\ \A i \in 1..Len(route) : route[i] = p <=> i = k
    BY <2>1 DEF Once
  <2>3. (CHOOSE i \in 1..Len(route) : route[i] = p) = k
    BY <2>2
  <2>4. route' = SubSeq(route, 1, k - 1) \o SubSeq(route, k + 1, Len(route))
    BY <1>2, <2>3 DEF Without, RemoveAt, In, Queued
  <2>5. /\ route' \in Seq(Pending) /\ Len(route') = Len(route) - 1
        /\ \A i \in 1..Len(route') : route'[i] = IF i < k THEN route[i] ELSE route[i + 1]
    <3> DEFINE s == SubSeq(route, 1, k - 1)
               u == SubSeq(route, k + 1, Len(route))
    <3>1. s \in Seq(Pending) /\ Len(s) = k - 1 /\ \A i \in 1..(k - 1) : s[i] = route[i]
      BY <2>1, <2>2, SubSeqProperties
    <3>2. /\ u \in Seq(Pending) /\ Len(u) = Len(route) - k
          /\ \A i \in 1..(Len(route) - k) : u[i] = route[k + i]
      BY <2>1, <2>2, SubSeqProperties
    <3>3. route' = s \o u
      BY <2>4
    <3> HIDE DEF s, u
    <3>4. /\ s \o u \in Seq(Pending) /\ Len(s \o u) = Len(s) + Len(u)
          /\ \A i \in 1..(Len(s) + Len(u)) :
               (s \o u)[i] = IF i <= Len(s) THEN s[i] ELSE u[i - Len(s)]
      BY <3>1, <3>2, ConcatProperties
    <3>5. Len(s \o u) = Len(route) - 1
      BY <2>1, <2>2, <3>1, <3>2, <3>4
    <3>6. ASSUME NEW i \in 1..(Len(route) - 1)
          PROVE  (s \o u)[i] = IF i < k THEN route[i] ELSE route[i + 1]
      <4>1. (s \o u)[i] = IF i <= k - 1 THEN s[i] ELSE u[i - (k - 1)]
        BY <2>1, <2>2, <3>1, <3>2, <3>4
      <4>2. CASE i < k
        BY <4>1, <4>2, <2>1, <2>2, <3>1
      <4>3. CASE ~(i < k)
        BY <4>1, <4>3, <2>1, <2>2, <3>2
      <4> QED
        BY <4>2, <4>3
    <3> QED
      BY <3>3, <3>4, <3>5, <3>6
  <2>6. \A q \in Pending : In(route', q) <=> In(route, q) /\ q # p
    <3> TAKE q \in Pending
    <3>1. In(route', q) => In(route, q) /\ q # p
      BY <2>1, <2>2, <2>5 DEF In
    <3>2. ASSUME In(route, q), q # p PROVE In(route', q)
      <4>1. PICK i \in 1..Len(route) : route[i] = q
        BY <3>2 DEF In
      <4>2. CASE i < k
        <5>1. i \in 1..Len(route') /\ route'[i] = q
          BY <4>1, <4>2, <2>1, <2>2, <2>5
        <5> QED
          BY <5>1 DEF In
      <4>3. CASE i > k
        <5>1. i - 1 \in 1..Len(route') /\ route'[i - 1] = q
          BY <4>1, <4>3, <2>1, <2>2, <2>5
        <5> QED
          BY <5>1 DEF In
      <4> QED
        BY <4>1, <4>2, <4>3, <3>2, <2>1
    <3> QED
      BY <3>1, <3>2
  <2>7. Once(route')
    BY <2>1, <2>2, <2>5 DEF Once
  <2>8. ASSUME NEW i \in 1..Len(route'), NEW j \in 1..Len(route'), i < j
        PROVE  \E m, l \in 1..Len(route) : m < l /\ route'[i] = route[m] /\ route'[j] = route[l]
    <3>1. /\ (IF i < k THEN i ELSE i + 1) \in 1..Len(route)
          /\ (IF j < k THEN j ELSE j + 1) \in 1..Len(route)
          /\ (IF i < k THEN i ELSE i + 1) < (IF j < k THEN j ELSE j + 1)
      BY <2>1, <2>2, <2>5, <2>8
    <3>2. /\ route'[i] = route[IF i < k THEN i ELSE i + 1]
          /\ route'[j] = route[IF j < k THEN j ELSE j + 1]
      BY <2>5
    <3> QED
      BY <3>1, <3>2
  <2>9. /\ HeadOf(route, p) /\ Len(route) > 1 => HeadOf(route', route[2])
        /\ HeadOf(route, p) /\ ~(Len(route) > 1) => route' = <<>>
        /\ ~HeadOf(route, p) => \A q \in Pending : HeadOf(route, q) => HeadOf(route', q)
    <3>1. HeadOf(route, p) <=> k = 1
      BY <2>1, <2>2 DEF HeadOf
    <3> QED
      BY <3>1, <2>1, <2>2, <2>5 DEF HeadOf
  <2> QED
    BY <1>2, <2>5, <2>6, <2>7, <2>8, <2>9
<1> QED
  BY <1>1, <1>2

\* All but whether a prompt is on its way stays as it is in it.
Same(it) ==
  \A q \in Pending :
    /\ item'[q].of = it[q].of /\ item'[q].inactive = it[q].inactive
    /\ item'[q].resolving = it[q].resolving /\ item'[q].presented = it[q].presented
    /\ item'[q].delivered = it[q].delivered /\ item'[q].barrier = it[q].barrier
    /\ item'[q].notified = it[q].notified /\ item'[q].closing = it[q].closing
    /\ item'[q].behind = it[q].behind

\* The fields of a task that presents.
LEMMA PresentingTask ==
  ASSUME NEW p \in Pending, NEW pc \in {"present", "shown"}, NEW c \in Pending \cup {NoOne}
  PROVE  LET a == [Idle EXCEPT !.pc = pc, !.item = p, !.claimed = c]
         IN  a.pc = pc /\ a.item = p /\ a.claimed = c /\ a.next = NoOne
  BY Constants DEF Task

\* #present sends the prompt of a head that was not shown, or waits, or is over.
LEMMA PresentDoes ==
  ASSUME NEW t \in Thread, NEW p \in Pending \cup {NoOne}, NEW it \in [Pending -> Entry],
         NEW rt \in Seq(Pending), at \in [Thread -> Task], Present(t, p, it, rt)
  PROVE  /\ item' \in [Pending -> Entry] /\ Same(it)
         /\ \A q \in Pending : q # p => item'[q] = it[q]
         /\ at' \in [Thread -> Task] /\ \A u \in Thread \ {t} : at'[u] = at[u]
         /\ \/ at'[t] = Over(t) /\ item' = it
            \/ /\ Presentable(it, rt, p) /\ p \in Pending
               /\ at'[t].item = p /\ at'[t].next = NoOne /\ at'[t].claimed = at[t].claimed
               /\ \/ it[p].barrier /\ ~item'[p].sending /\ at'[t].pc = "present"
                  \/ ~it[p].barrier /\ item'[p].sending /\ at'[t].pc = "shown"
<1>1. CASE ~Presentable(it, rt, p)
  <2>1. item' = it /\ at' = [at EXCEPT ![t] = Over(t)]
    BY <1>1 DEF Present
  <2>2. Over(t) \in Task
    BY Constants DEF Over
  <2> QED
    BY <2>1, <2>2 DEF Same
<1>2. CASE Presentable(it, rt, p)
  <2> DEFINE pc == IF it[p].barrier THEN "present" ELSE "shown"
             task == [Idle EXCEPT !.pc = pc, !.item = p, !.claimed = at[t].claimed]
  <2>1. p \in Pending
    BY <1>2 DEF Presentable
  <2>2. /\ item' = [it EXCEPT ![p].sending = ~it[p].barrier]
        /\ at' = [at EXCEPT ![t] = task]
    BY <1>2 DEF Present
  <2>3. task \in Task /\ task.pc = pc
    BY <2>1, Constants DEF Task, Pc
  <2>4. item' \in [Pending -> Entry] /\ Same(it) /\ \A q \in Pending : q # p => item'[q] = it[q]
    BY <2>1, <2>2 DEF Same, Entry
  <2>5. item'[p].sending = ~it[p].barrier
    BY <2>1, <2>2 DEF Entry
  <2>6. at'[t] = task /\ at' \in [Thread -> Task] /\ \A u \in Thread \ {t} : at'[u] = at[u]
    BY <2>2, <2>3
  <2>7. /\ at'[t].pc = pc /\ at'[t].item = p /\ at'[t].next = NoOne
        /\ at'[t].claimed = at[t].claimed
    <3>1. at[t].claimed \in Pending \cup {NoOne}
      BY DEF Task
    <3> QED
      BY <2>1, <2>6, <3>1, PresentingTask
  <2> HIDE DEF task
  <2> QED
    BY <1>2, <2>1, <2>4, <2>5, <2>6, <2>7
<1> QED
  BY <1>1, <1>2

\* #present keeps the invariant of a state in which everybody but its caller is
\* accounted for.
LEMMA PresentFits ==
  ASSUME NEW t \in Thread, NEW p \in Pending \cup {NoOne}, NEW it, NEW rt,
         Present(t, p, it, rt), route' = rt, Shape(it, rt, told'), Known(it, p), Tasks(Thread \ {t}, it),
         First(t), Known(it, at[t].claimed), t = Handler => at[t].claimed = NoOne
  PROVE  Shape(item, route, told)' /\ Tasks(Thread, item)'
<1> DEFINE a == at'[t]
<1>1. /\ it \in [Pending -> Entry] /\ rt \in Seq(Pending) /\ at \in [Thread -> Task]
      /\ told' \in [Pending -> Seq(Text)]
      /\ \A q \in Pending : it[q].behind \subseteq Pending
      /\ \A i \in 1..Len(rt) : rt[i] \in Pending
  BY DEF Shape, Tasks, Entry
<1>2. /\ item' \in [Pending -> Entry] /\ Same(it)
      /\ \A q \in Pending : q # p => item'[q] = it[q]
      /\ at' \in [Thread -> Task] /\ \A u \in Thread \ {t} : at'[u] = at[u]
      /\ \/ a = Over(t) /\ item' = it
         \/ /\ Presentable(it, rt, p) /\ p \in Pending
            /\ a.item = p /\ a.next = NoOne /\ a.claimed = at[t].claimed
            /\ \/ it[p].barrier /\ ~item'[p].sending /\ a.pc = "present"
               \/ ~it[p].barrier /\ item'[p].sending /\ a.pc = "shown"
  BY <1>1, PresentDoes
<1>3. \/ a = Over(t) /\ item' = it
      \/ /\ a.pc \in {"present", "shown"} /\ a.item = p /\ p \in Pending
         /\ a.next = NoOne /\ a.claimed = at[t].claimed
  BY <1>2
<1>4. a.pc \in {"idle", "done", "present", "shown"}
  BY <1>3, Constants DEF Over
<1>5. Shape(item, route, told)'
  <2>0. Same(it)
    BY <1>2
  <2>1. Once(route') /\ Lively(item', route') /\ Ordered(item', route') /\ Behind(item')
    <3>1. Once(route')
      BY DEF Shape
    <3>2. Lively(item', route')
      BY <2>0 DEF Shape, Lively, Same
    <3>3. Ordered(item', route')
      BY <1>1, <2>0 DEF Shape, Ordered, Same
    <3>4. Behind(item')
      BY <1>1, <2>0 DEF Shape, Behind, Same
    <3> QED
      BY <3>1, <3>2, <3>3, <3>4
  <2>2. Fresh(item', told')
    BY <1>2, Numbers DEF Shape, Fresh, Same, Known
  <2>3. HeadOnly(item', route')
    BY <1>2 DEF Shape, HeadOnly, Same, Presentable, HeadOf
  <2>4. Stages(item', route')
    <3> SUFFICES ASSUME NEW q \in Pending
                 PROVE  /\ item'[q].barrier => ~item'[q].sending /\ ~item'[q].presented
                        /\ item'[q].sending => ~item'[q].presented
                        /\ item'[q].presented => item'[q].delivered
                        /\ item'[q].closing # "no" => item'[q].inactive
                        /\ In(route', q) => \A s \in item'[q].behind : item'[s].closing = "no"
      BY DEF Stages
    <3>1. /\ it[q].barrier => ~it[q].sending /\ ~it[q].presented
          /\ it[q].sending => ~it[q].presented
          /\ it[q].presented => it[q].delivered
          /\ it[q].closing # "no" => it[q].inactive
          /\ In(rt, q) => \A s \in it[q].behind : it[s].closing = "no"
      BY DEF Shape, Stages
    <3>2. In(route', q) => \A s \in item'[q].behind : item'[s].closing = "no"
      BY <1>1, <2>0, <3>1 DEF Same
    <3>3. item'[q].sending => it[q].sending \/ (~it[q].barrier /\ ~it[q].presented)
      BY <1>2 DEF Presentable
    <3> QED
      BY <2>0, <3>1, <3>2, <3>3 DEF Same
  <2> QED
    BY <1>1, <1>2, <2>1, <2>2, <2>3, <2>4 DEF Shape
<1>6. \A u \in Thread \ {t} : Fits(u, item)'
  <2> SUFFICES ASSUME NEW u \in Thread \ {t} PROVE Fits(u, item)'
    OBVIOUS
  <2>1. Fits(u, it) /\ at'[u] = at[u] /\ at[u] \in Task
    BY <1>1, <1>2 DEF Tasks
  <2>2. /\ at[u].item \in Pending \cup {NoOne} /\ at[u].next \in Pending \cup {NoOne}
        /\ at[u].claimed \in Pending \cup {NoOne}
    BY <2>1 DEF Task
  <2> QED
    BY <1>2, <2>1, <2>2 DEF Fits, Known, Tells, Same, Claiming
<1>7. Fits(t, item)'
  <2>1. CASE a = Over(t)
    BY <2>1, Constants, Numbers DEF Over, Fits, Known, Tells, Claiming, Deciding, HandlerPc, ReplyPc, Pc
  <2>2. CASE /\ a.pc \in {"present", "shown"} /\ a.item = p /\ p \in Pending
             /\ a.next = NoOne /\ a.claimed = at[t].claimed
    <3>1. Known(item', p) /\ Known(item', at[t].claimed) /\ p # NoOne
      <4>1. at[t].claimed \in Pending \cup {NoOne}
        BY <1>1 DEF Task
      <4> QED
        BY <1>2, <2>2, <4>1, Numbers DEF Known, Same
    <3> QED
      BY <2>2, <3>1 DEF Fits, Known, Tells, Claiming, Deciding, HandlerPc, ReplyPc, Pc
  <2> QED
    BY <1>3, <2>1, <2>2
<1>8. Barrier(Thread, item)'
  <2>1. ~Tells(t)' /\ \A u \in Thread \ {t} : at'[u] = at[u]
    BY <1>2, <1>4 DEF Tells
  <2>2. \A q \in Pending : item'[q].barrier = it[q].barrier
    BY <1>2 DEF Same
  <2> QED
    BY <2>1, <2>2 DEF Tasks, Barrier, Tells
<1>9. Serial'
  <2>1. a.claimed = NoOne \/ a.claimed = at[t].claimed
    BY <1>3, Constants DEF Over
  <2> QED
    BY <1>2, <2>1, Numbers DEF Tasks, Serial, First, Waits
<1> QED
  BY <1>2, <1>5, <1>6, <1>7, <1>8, <1>9 DEF Tasks

\* #remove: the entry is taken out of the route, and the next one is at its head
\* if the removed one was; it was neither shown nor barred so far.
LEMMA Removed ==
  ASSUME NEW t \in Thread, NEW p \in Pending, NEW it, RouteInv, item[p].of # NoOne,
         it = [item EXCEPT ![p].inactive = TRUE], route' = Without(p), told' = told, ~Tells(t)
  PROVE  /\ Shape(it, route', told) /\ Tasks(Thread \ {t}, it)
         /\ NextOf(p) \in Pending \cup {NoOne}
         /\ NextOf(p) # NoOne =>
              /\ HeadOf(route, p) /\ NextOf(p) # p
              /\ HeadOf(route', NextOf(p)) /\ In(route', NextOf(p))
              /\ ~item[NextOf(p)].barrier /\ ~item[NextOf(p)].sending
              /\ ~item[NextOf(p)].presented /\ item[NextOf(p)].of # NoOne
              /\ ~item[NextOf(p)].inactive
<1>1. /\ route \in Seq(Pending) /\ item \in [Pending -> Entry] /\ at \in [Thread -> Task]
      /\ Shape(item, route, told) /\ Tasks(Thread, item) /\ Once(route)
      /\ Lively(item, route) /\ HeadOnly(item, route) /\ Stages(item, route)
  BY DEF RouteInv, Types, Shape
<1>2. /\ route' \in Seq(Pending)
      /\ ~In(route, p) => route' = route
      /\ \A q \in Pending : In(route', q) <=> In(route, q) /\ q # p
      /\ Once(route')
      /\ \A i, j \in 1..Len(route') : i < j =>
           \E k, l \in 1..Len(route) : k < l /\ route'[i] = route[k] /\ route'[j] = route[l]
      /\ HeadOf(route, p) /\ Len(route) > 1 => HeadOf(route', route[2])
      /\ HeadOf(route, p) /\ ~(Len(route) > 1) => route' = <<>>
      /\ ~HeadOf(route, p) => \A q \in Pending : HeadOf(route, q) => HeadOf(route', q)
  BY <1>1, Splice
<1>3. /\ it \in [Pending -> Entry] /\ it[p].inactive
      /\ \A q \in Pending : it[q].inactive = (item[q].inactive \/ q = p)
      /\ \A q \in Pending : q # p => it[q] = item[q]
      /\ \A q \in Pending :
           /\ it[q].of = item[q].of /\ it[q].presented = item[q].presented
           /\ it[q].delivered = item[q].delivered /\ it[q].sending = item[q].sending
           /\ it[q].barrier = item[q].barrier /\ it[q].closing = item[q].closing
           /\ it[q].behind = item[q].behind /\ it[q].behind \subseteq Pending
  BY <1>1 DEF Entry
<1>4. Shape(it, route', told)
  <2>1. Lively(it, route')
    BY <1>1, <1>2, <1>3 DEF Lively
  <2>2. Ordered(it, route')
    <3> SUFFICES ASSUME NEW i \in 1..Len(route'), NEW j \in 1..Len(route'), i < j
                 PROVE  route'[i] \in it[route'[j]].behind
      BY DEF Ordered
    <3>1. PICK k, l \in 1..Len(route) : k < l /\ route'[i] = route[k] /\ route'[j] = route[l]
      BY <1>2
    <3>2. route[k] \in item[route[l]].behind /\ route[l] \in Pending
      BY <1>1, <3>1 DEF Shape, Ordered
    <3> QED
      BY <1>3, <3>1, <3>2
  <2>3. Fresh(it, told) /\ Behind(it)
    BY <1>1, <1>3 DEF Shape, Fresh, Behind
  <2>4. HeadOnly(it, route')
    BY <1>1, <1>2, <1>3 DEF HeadOnly, HeadOf
  <2>5. Stages(it, route')
    BY <1>1, <1>2, <1>3 DEF Stages
  <2> QED
    BY <1>1, <1>2, <1>3, <2>1, <2>2, <2>3, <2>4, <2>5 DEF Shape
<1>5. Tasks(Thread \ {t}, it)
  <2>1. \A u \in Thread : Fits(u, it)
    <3> SUFFICES ASSUME NEW u \in Thread PROVE Fits(u, it)
      OBVIOUS
    <3>1. Fits(u, item)
      BY <1>1 DEF Tasks
    <3>2. /\ at[u].item \in Pending \cup {NoOne} /\ at[u].next \in Pending \cup {NoOne}
          /\ at[u].claimed \in Pending \cup {NoOne}
      BY <1>1 DEF Task
    <3> QED
      BY <1>3, <3>1, <3>2 DEF Fits, Known, Tells, Claiming
  <2>2. Barrier(Thread \ {t}, it)
    BY <1>1, <1>3 DEF Tasks, Barrier
  <2> QED
    BY <1>1, <2>1, <2>2 DEF Tasks
<1>6. CASE NextOf(p) = NoOne
  BY <1>4, <1>5, <1>6
<1>7. CASE NextOf(p) # NoOne
  <2>1. Len(route) > 1 /\ Head(route) = p /\ NextOf(p) = route[2]
    BY <1>7 DEF NextOf
  <2>2. route[2] \in Pending /\ 1 \in 1..Len(route) /\ 2 \in 1..Len(route) /\ route[1] = p
    BY <1>1, <2>1
  <2>3. route[2] # p /\ In(route, route[2]) /\ ~HeadOf(route, route[2]) /\ HeadOf(route, p)
    BY <1>1, <2>1, <2>2 DEF Once, In, HeadOf
  <2>4. HeadOf(route', route[2]) /\ In(route', route[2])
    BY <1>2, <2>1, <2>2, <2>3
  <2>5. /\ ~item[route[2]].barrier /\ ~item[route[2]].sending /\ ~item[route[2]].presented
        /\ item[route[2]].of # NoOne /\ ~item[route[2]].inactive
    BY <1>1, <2>2, <2>3 DEF HeadOnly, Lively
  <2> QED
    BY <1>4, <1>5, <2>1, <2>2, <2>3, <2>4, <2>5
<1> QED
  BY <1>6, <1>7

\* #transition: the barrier of the next entry is up while the outcome of this one
\* is told; with nothing to tell the next one is presented at once.
LEMMA TransitionFits ==
  ASSUME NEW t \in Thread, NEW p \in Pending, NEW text \in Text,
         NEW pc \in {"promote", "notify", "confirm"}, Transition(t, p, text, pc),
         RouteInv, item[p].of # NoOne, told' = told, ~Tells(t), First(t),
         t = Handler \/ (at[t].claimed = p /\ pc # "confirm")
  PROVE  Shape(item, route, told)' /\ Tasks(Thread, item)'
<1> DEFINE n  == NextOf(p)
           it == [item EXCEPT ![p].inactive = TRUE]
<1>1. /\ route \in Seq(Pending) /\ item \in [Pending -> Entry] /\ at \in [Thread -> Task]
      /\ Shape(item, route, told) /\ Tasks(Thread, item)
      /\ at[t].claimed \in Pending \cup {NoOne}
  BY DEF RouteInv, Types, Task
<1>2. route' = Without(p)
  BY DEF Transition
<1>3. /\ Shape(it, route', told) /\ Tasks(Thread \ {t}, it)
      /\ n \in Pending \cup {NoOne}
      /\ n # NoOne =>
           /\ HeadOf(route, p) /\ n # p
           /\ HeadOf(route', n) /\ In(route', n)
           /\ ~item[n].barrier /\ ~item[n].sending /\ ~item[n].presented
           /\ item[n].of # NoOne /\ ~item[n].inactive
  BY <1>2, Removed
<1>4. /\ it \in [Pending -> Entry] /\ it[p].inactive
      /\ \A q \in Pending : q # p => it[q] = item[q]
      /\ it[p].of = item[p].of
      /\ \A q \in Pending : it[q].behind \subseteq Pending
  BY <1>1 DEF Entry
<1>5. Known(it, n) /\ Known(it, at[t].claimed) /\ (t = Handler => at[t].claimed = NoOne)
  <2>1. Fits(t, item)
    BY <1>1 DEF Tasks
  <2> QED
    BY <1>1, <1>3, <1>4, <2>1 DEF Known, Fits
<1>6. CASE pc = "promote"
  <2>1. Present(t, n, it, Without(p))
    BY <1>6 DEF Transition
  <2> HIDE DEF n, it
  <2> QED
    BY <1>2, <1>3, <1>5, <2>1, PresentFits
<1>7. CASE pc # "promote"
  <2> DEFINE a == at'[t]
  <2>1. /\ \A q \in Pending : item'[q] =
             IF q = p THEN [it[q] EXCEPT !.notified = @ \/ (t = Handler /\ pc = "notify")]
             ELSE IF q = n THEN [it[q] EXCEPT !.barrier = TRUE] ELSE it[q]
        /\ item' = [q \in Pending |-> item'[q]]
    BY <1>7 DEF Transition
  <2>2. at' = [at EXCEPT ![t] = [Idle EXCEPT !.pc = pc, !.item = p, !.next = n,
                                             !.text = text, !.claimed = at[t].claimed]]
    BY <1>7 DEF Transition
  <2> HIDE DEF n, it
  <2>3. /\ item' \in [Pending -> Entry]
        /\ \A q \in Pending :
             /\ item'[q].of = it[q].of /\ item'[q].inactive = it[q].inactive
             /\ item'[q].presented = it[q].presented /\ item'[q].delivered = it[q].delivered
             /\ item'[q].sending = it[q].sending /\ item'[q].closing = it[q].closing
             /\ item'[q].behind = it[q].behind
             /\ q # n => item'[q].barrier = it[q].barrier
             /\ q # p /\ q # n => item'[q] = it[q]
        /\ n # NoOne => item'[n].barrier
    <3>1. \A q \in Pending : it[q] \in Entry
      BY <1>4
    <3>2. ASSUME NEW q \in Pending PROVE item'[q] \in Entry
      <4>1. CASE q = p
        <5> DEFINE told0 == it[p].notified \/ (t = Handler /\ pc = "notify")
        <5>1. item'[p] = [it[p] EXCEPT !.notified = told0] /\ told0 \in BOOLEAN
          BY <2>1
        <5> HIDE DEF told0
        <5> QED
          BY <3>1, <4>1, <5>1 DEF Entry
      <4>2. CASE q # p /\ q = n
        BY <2>1, <3>1, <4>2 DEF Entry
      <4>3. CASE q # p /\ q # n
        BY <2>1, <3>1, <4>3
      <4> QED
        BY <4>1, <4>2, <4>3
    <3> QED
      BY <1>3, <2>1, <3>1, <3>2 DEF Entry
  <2>4. /\ at' \in [Thread -> Task] /\ \A u \in Thread \ {t} : at'[u] = at[u]
        /\ a.pc = pc /\ a.item = p /\ a.next = n /\ a.text = text /\ a.claimed = at[t].claimed
    <3>1. pc \in Pc
      BY <1>7 DEF Pc
    <3> QED
      BY <1>1, <1>3, <2>2, <3>1, Constants DEF Task
  <2>5. Shape(item, route, told)'
    <3>1. /\ Once(route') /\ Lively(it, route') /\ Ordered(it, route') /\ Fresh(it, told)
          /\ Behind(it) /\ HeadOnly(it, route') /\ Stages(it, route')
          /\ route' \in Seq(Pending) /\ told \in [Pending -> Seq(Text)]
          /\ \A i \in 1..Len(route') : route'[i] \in Pending
      BY <1>3 DEF Shape
    <3>2. Lively(item', route')
      BY <3>1, <2>3 DEF Lively
    <3>3. Ordered(item', route')
      BY <3>1, <2>3 DEF Ordered
    <3>4. Fresh(item', told')
      <4>1. n # NoOne => it[n].of # NoOne
        BY <1>3, <1>4
      <4> SUFFICES ASSUME NEW q \in Pending, item'[q].of = NoOne
                   PROVE  item'[q] = Unused /\ told'[q] = <<>>
        BY DEF Fresh
      <4>2. it[q].of = NoOne /\ q # p
        BY <1>4, <2>3
      <4>3. q # n
        BY <4>1, <4>2, Numbers
      <4>4. item'[q] = it[q]
        BY <2>3, <4>2, <4>3
      <4> QED
        BY <3>1, <4>2, <4>4 DEF Fresh
    <3>7. Behind(item')
      BY <1>4, <3>1, <2>3 DEF Behind
    <3>5. HeadOnly(item', route')
      <4> SUFFICES ASSUME NEW q \in Pending, In(route', q),
                          item'[q].sending \/ item'[q].presented \/ item'[q].barrier
                   PROVE  HeadOf(route', q)
        BY DEF HeadOnly
      <4>1. CASE q = n
        BY <1>3, <4>1, Numbers
      <4>2. CASE q # n
        BY <3>1, <2>3, <4>2 DEF HeadOnly
      <4> QED
        BY <4>1, <4>2
    <3>6. Stages(item', route')
      <4>1. n # NoOne => ~item'[n].sending /\ ~item'[n].presented
        BY <1>3, <1>4, <2>3
      <4> SUFFICES ASSUME NEW q \in Pending
                   PROVE  /\ item'[q].barrier => ~item'[q].sending /\ ~item'[q].presented
                          /\ item'[q].sending => ~item'[q].presented
                          /\ item'[q].presented => item'[q].delivered
                          /\ item'[q].closing # "no" => item'[q].inactive
                          /\ In(route', q) => \A s \in item'[q].behind : item'[s].closing = "no"
        BY DEF Stages
      <4>2. /\ it[q].barrier => ~it[q].sending /\ ~it[q].presented
            /\ it[q].sending => ~it[q].presented
            /\ it[q].presented => it[q].delivered
            /\ it[q].closing # "no" => it[q].inactive
            /\ In(route', q) => \A s \in it[q].behind : it[s].closing = "no"
        BY <3>1 DEF Stages
      <4>3. In(route', q) => \A s \in item'[q].behind : item'[s].closing = "no"
        BY <1>4, <2>3, <4>2
      <4> QED
        BY <2>3, <4>1, <4>2, <4>3, Numbers
    <3> QED
      BY <2>3, <3>1, <3>2, <3>3, <3>4, <3>5, <3>6, <3>7 DEF Shape
  <2>6. \A u \in Thread : Fits(u, item)'
    <3>1. ASSUME NEW u \in Thread \ {t} PROVE Fits(u, item)'
      <4>1. Fits(u, it) /\ at'[u] = at[u]
        BY <1>3, <2>4 DEF Tasks
      <4>2. /\ at[u].item \in Pending \cup {NoOne} /\ at[u].next \in Pending \cup {NoOne}
            /\ at[u].claimed \in Pending \cup {NoOne}
        BY <1>1 DEF Task
      <4> QED
        BY <2>3, <4>1, <4>2 DEF Fits, Known, Tells, Claiming
    <3>2. Fits(t, item)'
      <4>1. p # NoOne /\ item'[p].inactive
        BY <1>4, <2>3, Numbers
      <4>2. Known(item', p) /\ Known(item', n) /\ Known(item', at[t].claimed)
        BY <1>1, <1>3, <1>4, <1>5, <2>3 DEF Known
      <4> QED
        BY <1>5, <1>7, <2>4, <4>1, <4>2
           DEF Fits, Tells, Claiming, Deciding, HandlerPc, ReplyPc, Pc
    <3> QED
      BY <3>1, <3>2
  <2>7. Barrier(Thread, item)'
    <3>1. Tells(t)' /\ at'[t].next = n
      BY <1>7, <2>4 DEF Tells
    <3>2. \A u \in Thread \ {t} : Tells(u)' = Tells(u) /\ at'[u].next = at[u].next
      BY <2>4 DEF Tells
    <3>3. Barrier(Thread \ {t}, it)
      BY <1>3 DEF Tasks
    <3>4. \A u \in Thread \ {t} : Tells(u) /\ n # NoOne => at[u].next # n
      BY <1>3, <1>4, <3>3 DEF Barrier
    <3> QED
      BY <1>3, <2>3, <3>1, <3>2, <3>3, <3>4, Numbers DEF Barrier
  <2>8. Serial'
    <3> SUFFICES ASSUME NEW r \in Reply, NEW q \in Reply, r # q,
                        at'[r].claimed = at'[q].claimed, at'[r].claimed # NoOne
                 PROVE  Waits(r, q)' \/ Waits(q, r)'
      BY DEF Serial
    <3>1. /\ r # t => Waits(r, q)' = Waits(r, q) /\ at'[r] = at[r]
          /\ q # t => Waits(q, r)' = Waits(q, r) /\ at'[q] = at[q]
      BY <2>4, Numbers DEF Waits
    <3>2. CASE r # t /\ q # t
      BY <1>1, <3>1, <3>2 DEF Tasks, Serial
    <3>3. CASE r = t
      BY <2>4, <3>1, <3>3 DEF First
    <3>4. CASE q = t
      BY <2>4, <3>1, <3>4 DEF First
    <3> QED
      BY <3>2, <3>3, <3>4
  <2> QED
    BY <2>4, <2>5, <2>6, <2>7, <2>8 DEF Tasks
<1> QED
  BY <1>6, <1>7

-----------------------------------------------------------------------------
(* Steps that leave the route alone                                         *)

\* A settled approval is decided, and the socket is told.
LEMMA SettlesTypes ==
  ASSUME NEW a \in Approval, NEW outcome \in Decision, Types, Settles(a, outcome)
  PROVE  /\ ask' \in [Approval -> {"unasked", "open"} \cup Decision]
         /\ stream' \in Seq(Events)
<1>1. Event("resolved", a) \in Events
  BY DEF Event, Events
<1> QED
  BY <1>1 DEF Types, Settles

\* What the harness does changes neither the route nor the tasks.
LEMMA Unmoved ==
  ASSUME RouteInv, UNCHANGED <<route, item, at, told>>
  PROVE  Shape(item, route, told)' /\ Tasks(Thread, item)'
<1>1. Shape(item, route, told)'
  BY DEF RouteInv
<1>2. Tasks(Thread, item)'
  BY DEF RouteInv, Tasks, Fits, Known, Tells, Barrier, Serial, Waits
<1> QED
  BY <1>1, <1>2

\* The harness and its socket.
LEMMA HarnessSide ==
  ASSUME RouteInv,
         \/ \E a \in Approval : AskFor(a) \/ SettledElsewhere(a)
         \/ Disconnect \/ Reconnect \/ QuestionMoves
  PROVE  RouteInv'
<1>1. UNCHANGED <<route, item, at, told>>
  BY DEF AskFor, SettledElsewhere, Disconnect, Reconnect, QuestionMoves
<1>2. /\ ask' \in [Approval -> {"unasked", "open"} \cup Decision]
      /\ stream' \in Seq(Events) /\ connected' \in BOOLEAN
  <2>1. ASSUME NEW a \in Approval, AskFor(a)
        PROVE  /\ ask' \in [Approval -> {"unasked", "open"} \cup Decision]
               /\ stream' \in Seq(Events) /\ connected' \in BOOLEAN
    <3>1. Event("requested", a) \in Events
      BY DEF Event, Events
    <3> QED
      BY <2>1, <3>1 DEF RouteInv, Types, AskFor
  <2>2. ASSUME NEW a \in Approval, SettledElsewhere(a)
        PROVE  /\ ask' \in [Approval -> {"unasked", "open"} \cup Decision]
               /\ stream' \in Seq(Events) /\ connected' \in BOOLEAN
    <3>1. PICK outcome \in Elsewhere : Settles(a, outcome)
      BY <2>2 DEF SettledElsewhere
    <3>2. outcome \in Decision
      BY InputAssumption
    <3> QED
      BY <2>2, <3>1, <3>2, SettlesTypes DEF RouteInv, Types, SettledElsewhere
  <2>3. CASE Reconnect
    <3> DEFINE O == {a \in Approval : ask[a] = "open"}
    <3>1. PICK s \in InOrder(O) : stream' = [i \in DOMAIN s |-> Event("requested", s[i])]
      BY <2>3 DEF Reconnect
    <3>2. s \in [1..Cardinality(O) -> O]
      BY DEF InOrder
    <3>3. Cardinality(O) \in Nat
      <4>1. IsFiniteSet(Approval)
        BY BoundsAssumption, FS_Interval DEF Approval
      <4> QED
        BY <4>1, FS_Subset, FS_CardinalityType
    <3>4. \A i \in 1..Cardinality(O) : Event("requested", s[i]) \in Events
      BY <3>2 DEF Event, Events
    <3>5. stream' \in Seq(Events)
      BY <3>1, <3>2, <3>3, <3>4
    <3> QED
      BY <2>3, <3>5 DEF RouteInv, Types, Reconnect
  <2>4. CASE Disconnect \/ QuestionMoves
    BY <2>4 DEF RouteInv, Types, Disconnect, QuestionMoves
  <2> QED
    BY <2>1, <2>2, <2>3, <2>4
<1>3. Shape(item, route, told)' /\ Tasks(Thread, item)'
  BY <1>1, Unmoved
<1> QED
  BY <1>2, <1>3 DEF RouteInv, Types, Shape, Tasks

\* What a message's task may become, but for the tasks of the route.
Suits(a) ==
  /\ Known(item, a.item) /\ Known(item, a.next) /\ Known(item, a.claimed)
  /\ a.pc \in ReplyPc \ {"notify", "present", "shown"}
  /\ a.pc \in Claiming => a.item = a.claimed /\ a.claimed # NoOne
  /\ a.pc \in {"idle", "coming", "done"} => a.claimed = NoOne
  /\ a.pc \in Deciding => item[a.item].presented /\ a.says \in Decision

\* One task of a message changes.
LEMMA ReplyMoves ==
  ASSUME NEW r \in Reply, NEW a \in Task, RouteInv, at' = [at EXCEPT ![r] = a],
         UNCHANGED <<route, item, told>>, ~Tells(r), Suits(a),
         \A q \in Reply \ {r} : at[q].claimed = a.claimed /\ a.claimed # NoOne =>
           (a.pc = "waiting" /\ q \in a.before) \/ Waits(q, r)
  PROVE  Shape(item, route, told)' /\ Tasks(Thread, item)'
<1>1. at \in [Thread -> Task] /\ Tasks(Thread, item)
  BY DEF RouteInv, Tasks
<1>2. /\ at' \in [Thread -> Task] /\ at'[r] = a
      /\ \A u \in Thread \ {r} : at'[u] = at[u]
  BY <1>1, Numbers
<1>3. \A u \in Thread \ {r} : Fits(u, item)'
  BY <1>1, <1>2 DEF Tasks, Fits, Known, Tells
<1>4. Fits(r, item)'
  BY <1>2, Numbers DEF Suits, Fits, Known, Tells, ReplyPc
<1>5. ~Tells(r)'
  BY <1>2 DEF Suits, Tells, ReplyPc
<1>6. Barrier(Thread, item)'
  BY <1>1, <1>2, <1>5 DEF Tasks, Barrier, Tells
<1>7. Serial'
  <2> SUFFICES ASSUME NEW s \in Reply, NEW q \in Reply, s # q,
                      at'[s].claimed = at'[q].claimed, at'[s].claimed # NoOne
               PROVE  Waits(s, q)' \/ Waits(q, s)'
    BY DEF Serial
  <2>1. /\ s # r => Waits(s, q)' = Waits(s, q) /\ at'[s] = at[s]
        /\ q # r => Waits(q, s)' = Waits(q, s) /\ at'[q] = at[q]
    BY <1>2, Numbers DEF Waits
  <2>2. CASE s # r /\ q # r
    BY <1>1, <2>1, <2>2 DEF Tasks, Serial
  <2>3. CASE s = r
    BY <1>2, <2>1, <2>3 DEF Waits
  <2>4. CASE q = r
    BY <1>2, <2>1, <2>4 DEF Waits
  <2> QED
    BY <2>2, <2>3, <2>4
<1>8. Shape(item, route, told)'
  BY DEF RouteInv
<1> QED
  BY <1>2, <1>3, <1>4, <1>6, <1>7, <1>8 DEF Tasks

\* A message whose turn it is, and one past its turn, is waited for.
LEMMA TurnIsFirst ==
  ASSUME NEW r \in Reply, RouteInv, at[r].pc = "waiting" => IsTurn(r)
  PROVE  First(r)
<1> SUFFICES ASSUME NEW q \in Reply \ {r}, at[q].claimed = at[r].claimed, at[r].claimed # NoOne
             PROVE  Waits(q, r)
  BY DEF First
<1>1. Waits(r, q) \/ Waits(q, r)
  BY DEF RouteInv, Tasks, Serial
<1>2. Fits(q, item) /\ q # Handler
  BY Numbers DEF RouteInv, Tasks
<1>3. ~Waits(r, q)
  BY <1>2 DEF Waits, IsTurn, Fits
<1> QED
  BY <1>1, <1>3

\* What a task of a message is known to be.
LEMMA ReplyFits ==
  ASSUME NEW r \in Reply, RouteInv
  PROVE  /\ at[r] \in Task /\ at \in [Thread -> Task] /\ r \in Thread /\ r # Handler
         /\ Known(item, at[r].item) /\ Known(item, at[r].next) /\ Known(item, at[r].claimed)
         /\ at[r].pc \in ReplyPc
         /\ at[r].pc \in Claiming => at[r].item = at[r].claimed /\ at[r].claimed # NoOne
         /\ at[r].pc \in {"idle", "coming", "done"} => at[r].claimed = NoOne
         /\ at[r].pc \in Deciding => item[at[r].item].presented /\ at[r].says \in Decision
  BY Numbers DEF RouteInv, Types, Tasks, Fits

\* A task that is done.
LEMMA DoneSuits == Suits(Done)
  BY Constants DEF Suits, Known, ReplyPc, Pc, Claiming, Deciding

\* Messages come, are claimed, put off and turned away.
LEMMA MessageSteps ==
  ASSUME NEW r \in Reply, RouteInv,
         Send(r) \/ Claim(r) \/ PreflightFails(r) \/ QuestionFirst(r) \/ SubmitFailed(r)
  PROVE  RouteInv'
<1>1. UNCHANGED <<ask, stream, connected, route, item, told>>
  BY DEF Send, Claim, PreflightFails, QuestionFirst, SubmitFailed, env
<1> DEFINE Moves ==
      \E a \in Task :
        /\ at' = [at EXCEPT ![r] = a] /\ Suits(a) /\ ~Tells(r)
        /\ \A q \in Reply \ {r} : at[q].claimed = a.claimed /\ a.claimed # NoOne =>
             (a.pc = "waiting" /\ q \in a.before) \/ Waits(q, r)
<1>2. Moves
  <2>1. ASSUME at' = [at EXCEPT ![r] = Done], at[r].pc \in {"coming", "waiting", "failed"}
        PROVE  Moves
    <3>1. Done \in Task /\ Suits(Done) /\ Done.claimed = NoOne
      BY Constants, DoneSuits
    <3> QED
      BY <2>1, <3>1 DEF Tells
  <2>2. CASE Send(r)
    <3>1. PICK says \in Says :
            at' = [at EXCEPT ![r] = [Idle EXCEPT !.pc = "coming", !.says = says]]
      BY <2>2 DEF Send
    <3> DEFINE a == [Idle EXCEPT !.pc = "coming", !.says = says]
    <3>2. says \in Decision \cup {"other", "stranger"}
      BY InputAssumption
    <3>3. a \in Task /\ a.pc = "coming" /\ a.item = NoOne /\ a.next = NoOne /\ a.claimed = NoOne
      BY <3>2, Constants DEF Task, Pc
    <3>4. at[r].pc = "idle" /\ at' = [at EXCEPT ![r] = a]
      BY <2>2, <3>1 DEF Send
    <3> HIDE DEF a
    <3>5. Suits(a) /\ ~Tells(r)
      BY <3>3, <3>4 DEF Suits, Known, ReplyPc, Pc, Claiming, Deciding, Tells
    <3> QED
      BY <3>3, <3>4, <3>5
  <2>3. CASE Claim(r)
    <3>1. CASE question = "open" \/ route = <<>> \/ at[r].says = "stranger"
      BY <2>1, <2>3, <3>1 DEF Claim
    <3>2. CASE ~(question = "open" \/ route = <<>> \/ at[r].says = "stranger")
      <4> DEFINE p == Head(route)
                 b == {q \in Reply : at[q].claimed = p}
                 a == [at[r] EXCEPT !.pc = "waiting", !.item = p, !.claimed = p, !.before = b,
                                    !.shown = item[p].presented, !.deferred = QuestionPending]
      <4>1. at' = [at EXCEPT ![r] = a] /\ at[r].pc = "coming"
        BY <2>3, <3>2 DEF Claim
      <4>2. p \in Pending /\ In(route, p)
        BY <3>2 DEF RouteInv, Types, In
      <4>3. item[p].of # NoOne /\ item[p].presented \in BOOLEAN
        BY <4>2 DEF RouteInv, Types, Shape, Lively, Entry
      <4>4. at[r] \in Task /\ Known(item, at[r].next)
        BY ReplyFits
      <4>5. QuestionPending \in BOOLEAN /\ b \in SUBSET Reply
        BY DEF QuestionPending
      <4> HIDE DEF b, p
      <4>6. a \in Task /\ a.pc = "waiting" /\ a.item = p /\ a.claimed = p /\ a.next = at[r].next
            /\ a.before = b
        BY <4>2, <4>3, <4>4, <4>5 DEF Task, Pc
      <4> HIDE DEF a
      <4>7. Suits(a) /\ ~Tells(r)
        BY <4>1, <4>2, <4>3, <4>4, <4>6, Numbers
           DEF Suits, Known, ReplyPc, Pc, Claiming, Deciding, Tells
      <4>8. \A q \in Reply \ {r} : at[q].claimed = a.claimed => q \in a.before
        BY <4>6 DEF b
      <4> QED
        BY <4>1, <4>6, <4>7, <4>8
    <3> QED
      BY <3>1, <3>2
  <2>4. CASE PreflightFails(r)
    BY <2>1, <2>4 DEF PreflightFails
  <2>5. CASE QuestionFirst(r)
    <3>1. at[r].pc = "waiting" /\ IsTurn(r)
      BY <2>5 DEF QuestionFirst
    <3>2. CASE at' = [at EXCEPT ![r] = Done]
      BY <2>1, <3>1, <3>2
    <3>3. CASE at' = [at EXCEPT ![r] = [@ EXCEPT !.deferred = FALSE]]
      <4> DEFINE a == [at[r] EXCEPT !.deferred = FALSE]
      <4>1. at' = [at EXCEPT ![r] = a] /\ at[r] \in Task
        BY <3>3, ReplyFits
      <4>2. a \in Task /\ a.pc = at[r].pc /\ a.item = at[r].item /\ a.next = at[r].next
            /\ a.claimed = at[r].claimed
        BY <4>1 DEF Task
      <4> HIDE DEF a
      <4>3. Suits(a) /\ ~Tells(r)
        BY <3>1, <4>2, ReplyFits DEF Suits, Deciding, ReplyPc, Pc, Tells
      <4>4. \A q \in Reply \ {r} : at[q].claimed = a.claimed /\ a.claimed # NoOne => Waits(q, r)
        BY <3>1, <4>2, TurnIsFirst DEF First
      <4> QED
        BY <4>1, <4>2, <4>3, <4>4
    <3> QED
      BY <2>5, <3>2, <3>3 DEF QuestionFirst
  <2>6. CASE SubmitFailed(r)
    BY <2>1, <2>6 DEF SubmitFailed
  <2> QED
    BY <2>2, <2>3, <2>4, <2>5, <2>6
<1>3. Shape(item, route, told)' /\ Tasks(Thread, item)'
  BY <1>1, <1>2, ReplyMoves
<1> QED
  BY <1>1, <1>3 DEF RouteInv, Types, Tasks

\* The decision of a message is answered by the harness, or its call fails.
LEMMA RespondSteps ==
  ASSUME NEW r \in Reply, RouteInv, RespondArrives(r) \/ RespondFails(r)
  PROVE  RouteInv'
<1>1. /\ UNCHANGED <<connected, route, item, told>> /\ at[r].pc = "submit"
      /\ \E pc \in {"accepted", "refused", "failed"} : at' = [at EXCEPT ![r].pc = pc]
      /\ UNCHANGED <<ask, stream>> \/ Settles(item[at[r].item].of, at[r].says)
  BY DEF RespondArrives, RespondFails, env
<1>2. /\ ask' \in [Approval -> {"unasked", "open"} \cup Decision]
      /\ stream' \in Seq(Events)
  <2>1. at[r].says \in Decision /\ at[r].item \in Pending /\ Known(item, at[r].item)
    BY <1>1, ReplyFits DEF Claiming, Deciding, Task
  <2>2. item[at[r].item].of \in Approval
    BY <2>1, Numbers DEF RouteInv, Types, Entry, Known
  <2> QED
    BY <1>1, <2>1, <2>2, SettlesTypes DEF RouteInv, Types
<1>3. PICK pc \in {"accepted", "refused", "failed"} : at' = [at EXCEPT ![r].pc = pc]
  BY <1>1
<1> DEFINE a == [at[r] EXCEPT !.pc = pc]
<1>4. at' = [at EXCEPT ![r] = a] /\ at[r] \in Task
  BY <1>3, ReplyFits
<1>5. /\ a \in Task /\ a.pc = pc /\ a.item = at[r].item /\ a.next = at[r].next
      /\ a.claimed = at[r].claimed /\ a.says = at[r].says
  BY <1>4 DEF Task, Pc
<1> HIDE DEF a
<1>6. Suits(a) /\ ~Tells(r)
  BY <1>1, <1>5, ReplyFits DEF Suits, Deciding, Claiming, ReplyPc, Pc, Tells
<1>7. \A q \in Reply \ {r} : at[q].claimed = a.claimed /\ a.claimed # NoOne => Waits(q, r)
  BY <1>1, <1>5, TurnIsFirst DEF First
<1>8. Shape(item, route, told)' /\ Tasks(Thread, item)'
  BY <1>1, <1>4, <1>5, <1>6, <1>7, ReplyMoves
<1> QED
  BY <1>1, <1>2, <1>8 DEF RouteInv, Types, Shape, Tasks

-----------------------------------------------------------------------------
(* Steps that present an entry                                              *)

\* A task that does not tell an outcome may be left out of the barrier.
LEMMA WithoutQuiet ==
  ASSUME NEW t \in Thread, RouteInv, ~Tells(t)
  PROVE  Tasks(Thread \ {t}, item)
  BY DEF RouteInv, Tasks, Barrier

\* A message's task shows the prompt, or submits its decision.
LEMMA RunReplyStep ==
  ASSUME NEW r \in Reply, RouteInv, RunReply(r)
  PROVE  RouteInv'
<1> DEFINE p == at[r].item
<1>1. /\ at[r].pc = "waiting" /\ IsTurn(r) /\ First(r)
      /\ UNCHANGED <<ask, stream, connected, route, told>>
  BY TurnIsFirst DEF RunReply
<1>2. /\ at[r] \in Task /\ p \in Pending /\ Known(item, p) /\ Known(item, at[r].claimed)
      /\ at[r].claimed = p /\ r \in Thread /\ r # Handler /\ ~Tells(r)
      /\ Known(item, at[r].next)
  BY <1>1, ReplyFits DEF Claiming, Task, Tells
<1>3. CASE Present(r, p, item, route)
  <2>1. Shape(item, route, told') /\ route' = route /\ Tasks(Thread \ {r}, item)
    BY <1>1, <1>2, WithoutQuiet DEF RouteInv
  <2>2. Shape(item, route, told)' /\ Tasks(Thread, item)'
    BY <1>1, <1>2, <1>3, <2>1, PresentFits
  <2> QED
    BY <1>1, <2>2 DEF RouteInv, Types, Shape, Tasks
<1>4. CASE /\ UNCHANGED item
           /\ \/ at' = [at EXCEPT ![r] = Done]
              \/ /\ at' = [at EXCEPT ![r] = [@ EXCEPT !.pc = "submit"]]
                 /\ item[p].presented /\ at[r].says \in Decision
  <2>1. CASE at' = [at EXCEPT ![r] = Done]
    <3>1. Done \in Task /\ Suits(Done) /\ Done.claimed = NoOne
      BY Constants, DoneSuits
    <3>2. Shape(item, route, told)' /\ Tasks(Thread, item)'
      BY <1>1, <1>2, <1>4, <2>1, <3>1, ReplyMoves
    <3> QED
      BY <1>1, <1>4, <3>2 DEF RouteInv, Types, Tasks
  <2>2. CASE /\ at' = [at EXCEPT ![r] = [@ EXCEPT !.pc = "submit"]]
             /\ item[p].presented /\ at[r].says \in Decision
    <3> DEFINE a == [at[r] EXCEPT !.pc = "submit"]
    <3>1. at' = [at EXCEPT ![r] = a]
      BY <2>2
    <3>2. /\ a \in Task /\ a.pc = "submit" /\ a.item = at[r].item /\ a.next = at[r].next
          /\ a.claimed = at[r].claimed /\ a.says = at[r].says
      BY <1>2 DEF Task, Pc
    <3> HIDE DEF a
    <3>3. Suits(a)
      BY <1>2, <2>2, <3>2, Numbers DEF Suits, Claiming, ReplyPc, Pc
    <3>4. \A q \in Reply \ {r} : at[q].claimed = a.claimed /\ a.claimed # NoOne => Waits(q, r)
      BY <1>1, <3>2 DEF First
    <3>5. Shape(item, route, told)' /\ Tasks(Thread, item)'
      BY <1>1, <1>2, <1>4, <3>1, <3>2, <3>3, <3>4, ReplyMoves
    <3> QED
      BY <1>1, <1>4, <3>5 DEF RouteInv, Types, Tasks
  <2> QED
    BY <1>4, <2>1, <2>2
<1> QED
  BY <1>3, <1>4 DEF RunReply

\* A task that waited for the barrier presents its entry.
LEMMA PresentResumesStep ==
  ASSUME NEW t \in Thread, RouteInv, PresentResumes(t)
  PROVE  RouteInv'
<1> DEFINE p == at[t].item
<1>1. /\ at[t].pc = "present" /\ Present(t, p, item, route)
      /\ UNCHANGED <<ask, stream, connected, route, told>>
  BY DEF PresentResumes
<1>2. /\ at[t] \in Task /\ p \in Pending \cup {NoOne} /\ Known(item, p)
      /\ Known(item, at[t].claimed) /\ ~Tells(t) /\ (t = Handler => at[t].claimed = NoOne)
  BY <1>1 DEF RouteInv, Types, Tasks, Fits, Task, Tells
<1>3. First(t)
  <2>1. CASE t \in Reply
    BY <1>1, <2>1, TurnIsFirst
  <2>2. CASE t = Handler
    BY <1>2, <2>2 DEF First
  <2> QED
    BY <2>1, <2>2, Numbers
<1>4. Shape(item, route, told') /\ route' = route /\ Tasks(Thread \ {t}, item)
  BY <1>1, <1>2, WithoutQuiet DEF RouteInv
<1>5. Shape(item, route, told)' /\ Tasks(Thread, item)'
  BY <1>1, <1>2, <1>3, <1>4, PresentFits
<1> QED
  BY <1>1, <1>5 DEF RouteInv, Types, Shape, Tasks

\* The outcome is told, the barrier comes down and the next entry is presented.
LEMMA NoticeSentStep ==
  ASSUME NEW t \in Thread, RouteInv, NoticeSent(t)
  PROVE  RouteInv'
<1> DEFINE n  == at[t].next
           it == [q \in Pending |-> IF q = n THEN [item[q] EXCEPT !.barrier = FALSE]
                                    ELSE item[q]]
<1>1. /\ at[t].pc = "notify" /\ Present(t, n, it, route)
      /\ UNCHANGED <<ask, stream, connected, route>>
      /\ \/ told' = told
         \/ told' = [told EXCEPT ![at[t].item] = Append(@, at[t].text)]
  BY DEF NoticeSent, env
<1>2. /\ at[t] \in Task /\ n \in Pending \cup {NoOne} /\ Known(item, n) /\ at[t].item \in Pending
      /\ Known(item, at[t].item) /\ at[t].claimed \in Pending \cup {NoOne}
      /\ Known(item, at[t].claimed) /\ Tells(t) /\ (t = Handler => at[t].claimed = NoOne)
  BY <1>1 DEF RouteInv, Types, Tasks, Fits, Task, Tells
<1>3. First(t)
  <2>1. CASE t \in Reply
    BY <1>1, <2>1, TurnIsFirst
  <2>2. CASE t = Handler
    BY <1>2, <2>2 DEF First
  <2> QED
    BY <2>1, <2>2, Numbers
<1>4. told' \in [Pending -> Seq(Text)] /\ \A q \in Pending : q # at[t].item => told'[q] = told[q]
  <2>1. at[t].text \in Text /\ told \in [Pending -> Seq(Text)]
    BY <1>2 DEF Task, RouteInv, Types
  <2>2. CASE told' = told
    BY <2>1, <2>2
  <2>3. CASE told' = [told EXCEPT ![at[t].item] = Append(@, at[t].text)]
    <3>1. Append(told[at[t].item], at[t].text) \in Seq(Text)
      BY <1>2, <2>1
    <3> QED
      BY <1>2, <2>1, <2>3, <3>1
  <2> QED
    BY <1>1, <2>2, <2>3
<1>5. /\ item \in [Pending -> Entry]
      /\ it \in [Pending -> Entry]
      /\ \A q \in Pending :
           /\ it[q].of = item[q].of /\ it[q].inactive = item[q].inactive
           /\ it[q].presented = item[q].presented /\ it[q].delivered = item[q].delivered
           /\ it[q].sending = item[q].sending /\ it[q].closing = item[q].closing
           /\ it[q].behind = item[q].behind /\ it[q].behind \subseteq Pending
           /\ it[q].barrier <=> item[q].barrier /\ q # n
           /\ q # n => it[q] = item[q]
  <2>1. item \in [Pending -> Entry]
    BY DEF RouteInv, Types
  <2>2. ASSUME NEW q \in Pending, q = n
        PROVE  /\ it[q] = [item[q] EXCEPT !.barrier = FALSE] /\ item[q] \in Entry
    BY <2>1, <2>2
  <2>3. ASSUME NEW q \in Pending, q # n
        PROVE  it[q] = item[q] /\ item[q] \in Entry
    BY <2>1, <2>3
  <2>4. it = [q \in Pending |-> it[q]]
    OBVIOUS
  <2> HIDE DEF it
  <2>5. ASSUME NEW q \in Pending
        PROVE  /\ it[q] \in Entry
               /\ it[q].of = item[q].of /\ it[q].inactive = item[q].inactive
               /\ it[q].presented = item[q].presented /\ it[q].delivered = item[q].delivered
               /\ it[q].sending = item[q].sending /\ it[q].closing = item[q].closing
               /\ it[q].behind = item[q].behind /\ it[q].behind \subseteq Pending
               /\ it[q].barrier <=> item[q].barrier /\ q # n
    <3>1. CASE q = n
      <4>1. /\ it[q] = [item[q] EXCEPT !.barrier = FALSE] /\ item[q] \in Entry
        BY <2>2, <3>1
      <4>2. it[q] \in Entry
        BY <4>1 DEF Entry
      <4>3. ~it[q].barrier
        BY <4>1 DEF Entry
      <4> QED
        BY <3>1, <4>1, <4>2, <4>3 DEF Entry
    <3>2. CASE q # n
      BY <2>3, <3>2 DEF Entry
    <3> QED
      BY <3>1, <3>2
  <2> QED
    BY <2>1, <2>3, <2>4, <2>5
<1> HIDE DEF it
<1>6. Shape(it, route, told')
  <2>1. /\ route \in Seq(Pending) /\ Once(route) /\ Lively(item, route) /\ Ordered(item, route)
        /\ Fresh(item, told) /\ Behind(item) /\ HeadOnly(item, route) /\ Stages(item, route)
        /\ \A i \in 1..Len(route) : route[i] \in Pending
    BY DEF RouteInv, Shape
  <2>2. Lively(it, route)
    BY <1>5, <2>1 DEF Lively
  <2>3. Ordered(it, route)
    BY <1>5, <2>1 DEF Ordered
  <2>4. Fresh(it, told')
    <3> SUFFICES ASSUME NEW q \in Pending, it[q].of = NoOne
                 PROVE  it[q] = Unused /\ told'[q] = <<>>
      BY DEF Fresh
    <3>1. q # n /\ q # at[t].item
      BY <1>2, <1>5, Numbers DEF Known
    <3> QED
      BY <1>4, <1>5, <2>1, <3>1 DEF Fresh
  <2>5. Behind(it)
    BY <1>5, <2>1 DEF Behind
  <2>6. HeadOnly(it, route)
    <3> SUFFICES ASSUME NEW q \in Pending, In(route, q),
                        it[q].sending \/ it[q].presented \/ it[q].barrier
                 PROVE  HeadOf(route, q)
      BY DEF HeadOnly
    <3>1. item[q].sending \/ item[q].presented \/ item[q].barrier
      BY <1>5
    <3> QED
      BY <2>1, <3>1 DEF HeadOnly
  <2>7. Stages(it, route)
    <3> SUFFICES ASSUME NEW q \in Pending
                 PROVE  /\ it[q].barrier => ~it[q].sending /\ ~it[q].presented
                        /\ it[q].sending => ~it[q].presented
                        /\ it[q].presented => it[q].delivered
                        /\ it[q].closing # "no" => it[q].inactive
                        /\ In(route, q) => \A s \in it[q].behind : it[s].closing = "no"
      BY DEF Stages
    <3>1. it[q].barrier => item[q].barrier
      BY <1>5
    <3> QED
      BY <1>5, <2>1, <3>1 DEF Stages
  <2> QED
    BY <1>4, <1>5, <2>1, <2>2, <2>3, <2>4, <2>5, <2>6, <2>7 DEF Shape
<1>7. Tasks(Thread \ {t}, it)
  <2>1. ASSUME NEW u \in Thread PROVE Fits(u, it)
    <3>1. Fits(u, item) /\ at[u] \in Task
      BY DEF RouteInv, Types, Tasks
    <3>2. /\ at[u].item \in Pending \cup {NoOne} /\ at[u].next \in Pending \cup {NoOne}
          /\ at[u].claimed \in Pending \cup {NoOne}
      BY <3>1 DEF Task
    <3> QED
      BY <1>5, <3>1, <3>2 DEF Fits, Known, Tells, Claiming
  <2>2. Barrier(Thread \ {t}, it)
    <3>1. Barrier(Thread, item)
      BY DEF RouteInv, Tasks
    <3>2. \A u \in Thread \ {t} : Tells(u) /\ n # NoOne => at[u].next # n
      BY <1>2, <3>1 DEF Barrier
    <3>3. ASSUME NEW q \in Pending
          PROVE  it[q].barrier <=> \E u \in Thread \ {t} : Tells(u) /\ at[u].next = q
      <4>1. CASE q = n
        BY <1>5, <3>2, <4>1, Numbers
      <4>2. CASE q # n
        <5>1. item[q].barrier <=> \E u \in Thread : Tells(u) /\ at[u].next = q
          BY <3>1 DEF Barrier
        <5> QED
          BY <1>5, <4>2, <5>1
      <4> QED
        BY <4>1, <4>2
    <3> QED
      BY <3>1, <3>3 DEF Barrier
  <2> QED
    BY <2>1, <2>2 DEF RouteInv, Tasks
<1>8. Known(it, n) /\ Known(it, at[t].claimed)
  BY <1>2, <1>5 DEF Known
<1>9. Shape(item, route, told)' /\ Tasks(Thread, item)'
  BY <1>1, <1>2, <1>3, <1>6, <1>7, <1>8, PresentFits
<1> QED
  BY <1>1, <1>9 DEF RouteInv, Types, Shape, Tasks

\* A submitted decision is confirmed and its entry removed.
LEMMA SubmittedStep ==
  ASSUME NEW r \in Reply, RouteInv, Submitted(r)
  PROVE  RouteInv'
<1> DEFINE p    == at[r].item
           text == IF at[r].pc = "accepted" THEN at[r].says ELSE "resolved"
           pc   == IF item[p].notified THEN "promote" ELSE "notify"
<1>1. /\ at[r].pc \in {"accepted", "refused"} /\ Transition(r, p, text, pc)
      /\ UNCHANGED <<ask, stream, connected, told>>
  BY DEF Submitted
<1>2. /\ at[r] \in Task /\ p \in Pending /\ item[p].of # NoOne /\ at[r].claimed = p
      /\ ~Tells(r) /\ at[r].says \in Decision /\ r \in Thread
  BY <1>1, ReplyFits, Numbers DEF Claiming, Deciding, Task, Tells, Known
<1>3. First(r)
  BY <1>1, TurnIsFirst
<1>4. text \in Text /\ pc \in {"promote", "notify", "confirm"} /\ pc # "confirm"
  BY <1>2 DEF Text, Outcome, Decision
<1> HIDE DEF text, pc
<1>5. Shape(item, route, told)' /\ Tasks(Thread, item)'
  BY <1>1, <1>2, <1>3, <1>4, TransitionFits
<1> QED
  BY <1>1, <1>5 DEF RouteInv, Types, Shape, Tasks

\* What the callbacks of the socket start from.
LEMMA HandlerFree ==
  ASSUME RouteInv, at[Handler].pc \in {"idle", "settle"}
  PROVE  /\ ~Tells(Handler) /\ First(Handler) /\ at[Handler].claimed = NoOne
         /\ Handler \in Thread /\ at[Handler].item \in Pending \cup {NoOne}
         /\ at[Handler].pc = "settle" => at[Handler].item # NoOne
         /\ Known(item, at[Handler].item)
<1>1. /\ Handler \in Thread /\ Fits(Handler, item) /\ at[Handler] \in Task
  BY Numbers DEF RouteInv, Types, Tasks
<1> QED
  BY <1>1 DEF Fits, Tells, First, Task

\* The stream after its first event.
LEMMA StreamGoesOn ==
  ASSUME Types, stream # <<>>
  PROVE  Tail(stream) \in Seq(Events) /\ Head(stream) \in Events /\ Head(stream).ask \in Approval
<1>1. Tail(stream) \in Seq(Events) /\ Head(stream) \in Events
  BY HeadTailProperties DEF Types
<1> QED
  BY <1>1 DEF Events

\* A request makes a new entry at the end of the route.
LEMMA NewEntry ==
  ASSUME NEW a \in Approval, NEW p \in Pending, NEW it, NEW rt, RouteInv, IsNew(p),
         it = [item EXCEPT ![p].of = a, ![p].behind = {route[i] : i \in 1..Len(route)}],
         rt = Append(route, p), at[Handler].pc = "idle"
  PROVE  Shape(it, rt, told) /\ Tasks(Thread \ {Handler}, it) /\ Known(it, p)
<1> DEFINE before == {route[i] : i \in 1..Len(route)}
<1>1. /\ route \in Seq(Pending) /\ item \in [Pending -> Entry] /\ at \in [Thread -> Task]
      /\ told \in [Pending -> Seq(Text)]
      /\ Once(route) /\ Lively(item, route) /\ Ordered(item, route) /\ Fresh(item, told)
      /\ Behind(item) /\ HeadOnly(item, route) /\ Stages(item, route)
      /\ \A i \in 1..Len(route) : route[i] \in Pending
  BY DEF RouteInv, Types, Shape
<1>2. item[p].of = NoOne /\ item[p] = Unused /\ a # NoOne
  BY <1>1, Numbers DEF IsNew, Fresh
<1>3. before \subseteq Pending
  BY <1>1
<1>4. /\ it \in [Pending -> Entry]
      /\ \A q \in Pending : q # p => it[q] = item[q]
      /\ it[p].of = a /\ it[p].behind = before
      /\ ~it[p].inactive /\ ~it[p].sending /\ ~it[p].presented /\ ~it[p].barrier
      /\ ~it[p].delivered /\ it[p].closing = "no"
  <2>1. it = [item EXCEPT ![p] = [item[p] EXCEPT !.of = a, !.behind = before]]
    BY <1>1
  <2>2. [item[p] EXCEPT !.of = a, !.behind = before] \in Entry
    <3>1. item[p] \in Entry /\ a \in Approval \cup {NoOne} /\ before \in SUBSET Pending
      BY <1>1, <1>3
    <3> HIDE DEF before
    <3> QED
      BY <3>1 DEF Entry
  <2>3. it[p] = [item[p] EXCEPT !.of = a, !.behind = before]
    BY <1>1, <2>1
  <2>4. /\ it[p].inactive = item[p].inactive /\ it[p].sending = item[p].sending
        /\ it[p].presented = item[p].presented /\ it[p].barrier = item[p].barrier
        /\ it[p].delivered = item[p].delivered /\ it[p].closing = item[p].closing
        /\ it[p].of = a /\ it[p].behind = before
    BY <1>1, <2>3 DEF Entry
  <2>5. /\ ~item[p].inactive /\ ~item[p].sending /\ ~item[p].presented /\ ~item[p].barrier
        /\ ~item[p].delivered /\ item[p].closing = "no"
    BY <1>2 DEF Unused
  <2>6. it \in [Pending -> Entry] /\ \A q \in Pending : q # p => it[q] = item[q]
    <3> HIDE DEF before
    <3> QED
      BY <1>1, <2>1, <2>2
  <2> QED
    BY <2>4, <2>5, <2>6
<1>5. ~In(route, p) /\ \A q \in Pending : In(route, q) => item[q].of # NoOne /\ ~item[q].inactive
  BY <1>1, <1>2 DEF Lively
<1>6. /\ rt \in Seq(Pending) /\ Len(rt) = Len(route) + 1 /\ rt[Len(rt)] = p
      /\ \A i \in 1..Len(route) : rt[i] = route[i]
      /\ \A q \in Pending : In(rt, q) <=> In(route, q) \/ q = p
      /\ \A q \in Pending : HeadOf(route, q) => HeadOf(rt, q)
  <2>1. /\ rt \in Seq(Pending) /\ Len(rt) = Len(route) + 1 /\ rt[Len(rt)] = p
        /\ \A i \in 1..Len(route) : rt[i] = route[i] /\ Len(route) \in Nat
        /\ rt # <<>> /\ Head(rt) = rt[1] /\ (route # <<>> => Head(route) = route[1])
    BY <1>1, AppendProperties
  <2>2. \A q \in Pending : In(rt, q) <=> In(route, q) \/ q = p
    <3> TAKE q \in Pending
    <3>1. Len(rt) \in 1..Len(rt) /\ \A i \in 1..Len(route) : i \in 1..Len(rt)
      BY <2>1
    <3>2. \A i \in 1..Len(rt) : i \in 1..Len(route) \/ i = Len(rt)
      BY <2>1
    <3> HIDE <1>1
    <3> QED
      BY <2>1, <3>1, <3>2 DEF In
  <2>3. \A q \in Pending : HeadOf(route, q) => HeadOf(rt, q)
    <3>1. route # <<>> => Len(route) >= 1
      BY <1>1
    <3> QED
      BY <2>1, <3>1 DEF HeadOf
  <2> QED
    BY <2>1, <2>2, <2>3
<1> HIDE DEF before
<1>7. Once(rt)
  BY <1>1, <1>5, <1>6 DEF Once, In
<1>8. Lively(it, rt)
  BY <1>1, <1>2, <1>4, <1>6 DEF Lively
<1>9. Ordered(it, rt)
  <2> SUFFICES ASSUME NEW i \in 1..Len(rt), NEW j \in 1..Len(rt), i < j
               PROVE  rt[i] \in it[rt[j]].behind
    BY DEF Ordered
  <2>1. i \in 1..Len(route) /\ rt[i] = route[i]
    BY <1>1, <1>6
  <2>2. CASE j = Len(rt)
    BY <1>4, <1>6, <2>1, <2>2 DEF before
  <2>3. CASE j # Len(rt)
    <3>1. j \in 1..Len(route) /\ rt[j] = route[j]
      BY <1>1, <1>6, <2>3
    <3>2. route[j] # p /\ route[j] \in Pending
      BY <1>1, <1>5, <3>1 DEF In
    <3> QED
      BY <1>1, <1>4, <2>1, <3>1, <3>2 DEF Ordered
  <2> QED
    BY <2>2, <2>3
<1>10. Fresh(it, told)
  BY <1>1, <1>2, <1>4 DEF Fresh
<1>11. Behind(it)
  <2> SUFFICES ASSUME NEW q \in Pending, NEW s \in it[q].behind PROVE it[s].of # NoOne
    BY DEF Behind
  <2>1. s \in Pending /\ item[s].of # NoOne
    <3>1. CASE q = p
      <4>1. s \in before
        BY <1>4, <3>1
      <4>2. PICK i \in 1..Len(route) : s = route[i]
        BY <4>1 DEF before
      <4> QED
        BY <1>1, <1>5, <4>2 DEF In
    <3>2. CASE q # p
      BY <1>1, <1>4, <3>2 DEF Behind, Entry
    <3> QED
      BY <3>1, <3>2
  <2> QED
    BY <1>2, <1>4, <2>1
<1>12. HeadOnly(it, rt)
  BY <1>1, <1>4, <1>6 DEF HeadOnly
<1>13. Stages(it, rt)
  <2> SUFFICES ASSUME NEW q \in Pending
               PROVE  /\ it[q].barrier => ~it[q].sending /\ ~it[q].presented
                      /\ it[q].sending => ~it[q].presented
                      /\ it[q].presented => it[q].delivered
                      /\ it[q].closing # "no" => it[q].inactive
                      /\ In(rt, q) => \A s \in it[q].behind : it[s].closing = "no"
    BY DEF Stages
  <2>1. CASE q = p
    <3>1. ASSUME NEW s \in it[p].behind PROVE it[s].closing = "no"
      <4>1. PICK i \in 1..Len(route) : s = route[i]
        BY <1>4, <3>1 DEF before
      <4>2. s \in Pending /\ In(route, s) /\ s # p
        BY <1>1, <1>5, <4>1 DEF In
      <4>3. item[s].closing = "no"
        BY <1>1, <1>5, <4>2 DEF Stages
      <4> QED
        BY <1>4, <4>2, <4>3
    <3> QED
      BY <1>4, <2>1, <3>1
  <2>2. CASE q # p
    <3>1. \A s \in it[q].behind : s \in Pending /\ s # p
      BY <1>1, <1>2, <1>4, <2>2 DEF Behind, Entry
    <3>2. In(rt, q) => In(route, q)
      BY <1>6, <2>2
    <3> QED
      BY <1>1, <1>4, <2>2, <3>1, <3>2 DEF Stages
  <2> QED
    BY <2>1, <2>2
<1>14. Tasks(Thread \ {Handler}, it)
  <2>1. ASSUME NEW u \in Thread PROVE Fits(u, it)
    <3>1. Fits(u, item) /\ at[u] \in Task
      BY DEF RouteInv, Types, Tasks
    <3>2. /\ at[u].item \in Pending \cup {NoOne} /\ at[u].next \in Pending \cup {NoOne}
          /\ at[u].claimed \in Pending \cup {NoOne}
      BY <3>1 DEF Task
    <3>3. /\ at[u].item # NoOne => at[u].item # p
          /\ at[u].next # NoOne => at[u].next # p
          /\ at[u].claimed # NoOne => at[u].claimed # p
      BY <1>2, <3>1 DEF Fits, Known
    <3> QED
      BY <1>4, <3>1, <3>2, <3>3 DEF Fits, Known, Tells, Claiming
  <2>2. Barrier(Thread \ {Handler}, it)
    <3>1. Barrier(Thread \ {Handler}, item)
      <4>1. ~Tells(Handler)
        BY HandlerFree
      <4> QED
        BY <4>1, Numbers, WithoutQuiet DEF Tasks
    <3>2. \A q \in Pending : it[q].barrier = item[q].barrier
      <4>1. item[p].barrier = FALSE /\ it[p].barrier = FALSE
        BY <1>1, <1>2, <1>4 DEF Unused, Entry
      <4> QED
        BY <1>4, <4>1
    <3> QED
      BY <3>1, <3>2 DEF Barrier
  <2> QED
    BY <2>1, <2>2 DEF RouteInv, Tasks
<1>15. Known(it, p)
  BY <1>2, <1>4 DEF Known
<1> QED
  BY <1>1, <1>4, <1>6, <1>7, <1>8, <1>9, <1>10, <1>11, <1>12, <1>13, <1>14, <1>15 DEF Shape

\* A request of the harness is shown, queued or turned down.
LEMMA RequestedStep ==
  ASSUME RouteInv, Requested
  PROVE  RouteInv'
<1> DEFINE a == Head(stream).ask
<1>1. /\ at[Handler].pc = "idle" /\ stream # <<>> /\ UNCHANGED <<connected, told>>
      /\ a \in Approval /\ Tail(stream) \in Seq(Events)
      /\ ~Tells(Handler) /\ First(Handler) /\ at[Handler].claimed = NoOne
      /\ Handler \in Thread /\ Known(item, NoOne)
      /\ Types /\ Shape(item, route, told) /\ Tasks(Thread, item)
      /\ Tasks(Thread \ {Handler}, item)
  BY StreamGoesOn, HandlerFree, WithoutQuiet DEF Requested, RouteInv, Known
<1> HIDE DEF a
<1>2. ASSUME NEW p \in Live(a), Present(Handler, p, item, route),
             stream' = Tail(stream), UNCHANGED <<ask, route>>
      PROVE  RouteInv'
  <2>1. p \in Pending /\ Known(item, p)
    BY <1>1, <1>2, Numbers DEF Live, Known
  <2>2. Shape(item, route, told)' /\ Tasks(Thread, item)'
    BY <1>1, <1>2, <2>1, PresentFits DEF Known
  <2> QED
    BY <1>1, <1>2, <2>2 DEF RouteInv, Types, Shape, Tasks
<1>3. ASSUME NEW p \in Pending, NEW it, NEW rt, IsNew(p),
             it = [item EXCEPT ![p].of = a, ![p].behind = {route[i] : i \in 1..Len(route)}],
             rt = Append(route, p), route' = rt, Present(Handler, p, it, rt),
             stream' = Tail(stream), UNCHANGED ask
      PROVE  RouteInv'
  <2>1. Shape(it, rt, told) /\ Tasks(Thread \ {Handler}, it) /\ Known(it, p)
    BY <1>1, <1>3, NewEntry
  <2>2. Shape(item, route, told)' /\ Tasks(Thread, item)'
    BY <1>1, <1>3, <2>1, PresentFits DEF Known
  <2> QED
    BY <1>1, <1>3, <2>2 DEF RouteInv, Types, Shape, Tasks
<1>4. ASSUME ask' = [ask EXCEPT ![a] = IF @ = "open" THEN "rejected" ELSE @],
             stream' = IF ask[a] = "open" /\ connected
                       THEN Append(Tail(stream), Event("resolved", a)) ELSE Tail(stream),
             UNCHANGED <<route, item, at>>
      PROVE  RouteInv'
  <2>1. Event("resolved", a) \in Events
    BY <1>1 DEF Event, Events
  <2>2. stream' \in Seq(Events)
    BY <1>1, <1>4, <2>1
  <2>3. ask' \in [Approval -> {"unasked", "open"} \cup Decision]
    BY <1>1, <1>4 DEF Types, Decision
  <2>4. Shape(item, route, told)' /\ Tasks(Thread, item)'
    BY <1>1, <1>4, Unmoved
  <2> QED
    BY <1>1, <1>4, <2>2, <2>3, <2>4 DEF RouteInv, Types
<1>5. \/ \E p \in Live(a) : /\ Present(Handler, p, item, route)
                            /\ stream' = Tail(stream) /\ UNCHANGED <<ask, route>>
      \/ \E p \in Pending :
           /\ IsNew(p) /\ route' = Append(route, p)
           /\ Present(Handler, p,
                      [item EXCEPT ![p].of = a, ![p].behind = {route[i] : i \in 1..Len(route)}],
                      Append(route, p))
           /\ stream' = Tail(stream) /\ UNCHANGED ask
      \/ /\ ask' = [ask EXCEPT ![a] = IF @ = "open" THEN "rejected" ELSE @]
         /\ stream' = IF ask[a] = "open" /\ connected
                      THEN Append(Tail(stream), Event("resolved", a)) ELSE Tail(stream)
         /\ UNCHANGED <<route, item, at>>
  BY DEF Requested, a
<1> QED
  BY <1>2, <1>3, <1>4, <1>5

\* The removal of an entry whose approval is settled.
LEMMA ResolveStep ==
  ASSUME NEW p \in Pending, RouteInv, item[p].of # NoOne, Resolve(p),
         at[Handler].pc \in {"idle", "settle"}, told' = told
  PROVE  Shape(item, route, told)' /\ Tasks(Thread, item)'
<1> DEFINE pc == IF item[p].sending THEN "confirm" ELSE IF item[p].presented THEN "notify" ELSE "promote"
<1>1. ask[item[p].of] \in Text /\ pc \in {"promote", "notify", "confirm"}
  <2>1. item[p].of \in Approval
    BY DEF RouteInv, Types, Entry
  <2> QED
    BY <2>1 DEF RouteInv, Types, Text, Outcome
<1>2. Transition(Handler, p, ask[item[p].of], pc)
  BY DEF Resolve
<1>3. ~Tells(Handler) /\ First(Handler) /\ Handler \in Thread
  BY HandlerFree
<1> HIDE DEF pc
<1> QED
  BY <1>1, <1>2, <1>3, TransitionFits

\* The fields of an entry move on while the route stays as it is.
MovesOn(q) ==
  /\ item'[q].of = item[q].of /\ item'[q].inactive = item[q].inactive
  /\ item'[q].behind = item[q].behind /\ item'[q].barrier = item[q].barrier
  /\ item'[q].closing = "no" <=> item[q].closing = "no"
  /\ item[q].of = NoOne => item'[q] = item[q] /\ told'[q] = told[q]
  /\ item'[q].sending => item[q].sending /\ ~item'[q].presented
  /\ item'[q].presented => item'[q].delivered /\ (item[q].presented \/ item[q].sending)
  /\ item[q].presented => item'[q].presented

\* The route keeps its shape while its entries move on.
LEMMA ShapeKept ==
  ASSUME RouteInv, route' = route, item' \in [Pending -> Entry], told' \in [Pending -> Seq(Text)],
         \A q \in Pending : MovesOn(q)
  PROVE  Shape(item, route, told)'
<1>1. /\ route \in Seq(Pending) /\ Once(route) /\ Lively(item, route) /\ Ordered(item, route)
      /\ Fresh(item, told) /\ Behind(item) /\ HeadOnly(item, route) /\ Stages(item, route)
      /\ item \in [Pending -> Entry]
      /\ \A i \in 1..Len(route) : route[i] \in Pending
  BY DEF RouteInv, Shape
<1>2. \A q \in Pending : item[q].behind \subseteq Pending
  BY <1>1 DEF Entry
<1>3. Lively(item', route)
  BY <1>1 DEF Lively, MovesOn
<1>4. Ordered(item', route)
  BY <1>1 DEF Ordered, MovesOn
<1>5. Fresh(item', told') /\ Behind(item')
  BY <1>1, <1>2 DEF Fresh, Behind, MovesOn
<1>6. HeadOnly(item', route)
  BY <1>1 DEF HeadOnly, MovesOn
<1>7. Stages(item', route)
  BY <1>1, <1>2 DEF Stages, MovesOn
<1> QED
  BY <1>1, <1>3, <1>4, <1>5, <1>6, <1>7 DEF Shape

\* A task goes on without touching the barrier, and none that waits for its turn.
GoesOn(t) ==
  \/ at'[t] = at[t]
  \/ /\ Fits(t, item)' /\ at[t].pc # "waiting"
     /\ Tells(t)' <=> Tells(t)
     /\ Tells(t) => at'[t].next = at[t].next
     /\ at'[t].claimed = NoOne \/ at'[t].claimed = at[t].claimed

\* ... and so do the tasks while they go on.
LEMMA TasksKept ==
  ASSUME RouteInv, at' \in [Thread -> Task], item' \in [Pending -> Entry],
         \A q \in Pending : MovesOn(q), \A t \in Thread : GoesOn(t)
  PROVE  Tasks(Thread, item)'
<1>1. /\ Tasks(Thread, item) /\ at \in [Thread -> Task]
  BY DEF RouteInv, Tasks
<1>2. ASSUME NEW t \in Thread PROVE Fits(t, item)'
  <2>1. CASE at'[t] = at[t]
    <3>1. /\ Fits(t, item)
          /\ at[t].item \in Pending \cup {NoOne} /\ at[t].next \in Pending \cup {NoOne}
          /\ at[t].claimed \in Pending \cup {NoOne}
      BY <1>1 DEF Tasks, Task
    <3> QED
      BY <2>1, <3>1 DEF Fits, Known, Tells, Claiming, MovesOn
  <2> QED
    BY <2>1 DEF GoesOn
<1>3. Barrier(Thread, item)'
  <2>1. \A t \in Thread : (Tells(t)' <=> Tells(t)) /\ (Tells(t) => at'[t].next = at[t].next)
    BY DEF GoesOn, Tells
  <2>2. \A q \in Pending : item'[q].barrier = item[q].barrier
    BY DEF MovesOn
  <2> QED
    BY <1>1, <2>1, <2>2 DEF Tasks, Barrier
<1>4. Serial'
  <2> SUFFICES ASSUME NEW r \in Reply, NEW q \in Reply, r # q,
                      at'[r].claimed = at'[q].claimed, at'[r].claimed # NoOne
               PROVE  Waits(r, q)' \/ Waits(q, r)'
    BY DEF Serial
  <2>1. at[r].claimed = at'[r].claimed /\ at[q].claimed = at'[q].claimed
    BY Numbers DEF GoesOn
  <2>2. Waits(r, q) \/ Waits(q, r)
    BY <1>1, <2>1 DEF Tasks, Serial
  <2>3. /\ at[r].pc = "waiting" => at'[r] = at[r]
        /\ at[q].pc = "waiting" => at'[q] = at[q]
    BY Numbers DEF GoesOn
  <2> QED
    BY <2>2, <2>3 DEF Waits
<1> QED
  BY <1>2, <1>3, <1>4 DEF Tasks

\* One entry changes.
LEMMA EntryMoves ==
  ASSUME NEW p \in Pending, NEW e \in Entry, RouteInv, item' = [item EXCEPT ![p] = e],
         item[p].of # NoOne, e.of = item[p].of, e.inactive = item[p].inactive,
         e.behind = item[p].behind, e.barrier = item[p].barrier,
         e.closing = "no" <=> item[p].closing = "no",
         e.sending => item[p].sending /\ ~e.presented,
         e.presented => e.delivered /\ (item[p].presented \/ item[p].sending),
         item[p].presented => e.presented,
         \A q \in Pending : item[q].of = NoOne => told'[q] = told[q]
  PROVE  item' \in [Pending -> Entry] /\ \A q \in Pending : MovesOn(q)
<1>1. item \in [Pending -> Entry] /\ Stages(item, route)
  BY DEF RouteInv, Types, Shape
<1>2. item'[p] = e /\ item' \in [Pending -> Entry] /\ \A q \in Pending : q # p => item'[q] = item[q]
  BY <1>1
<1> QED
  BY <1>1, <1>2 DEF MovesOn, Stages

\* handleResolved, and its end after the barrier.
LEMMA SettledSteps ==
  ASSUME RouteInv, Resolved \/ Settle
  PROVE  RouteInv'
<1>1. /\ at[Handler].pc \in {"idle", "settle"} /\ UNCHANGED <<ask, connected, told>>
      /\ stream' \in Seq(Events)
  BY StreamGoesOn DEF Resolved, Settle, RouteInv, Types
<1>2. /\ ~Tells(Handler) /\ at[Handler].claimed = NoOne /\ Handler \in Thread
      /\ Types /\ at \in [Thread -> Task]
  BY <1>1, HandlerFree DEF RouteInv, Types
<1>3. CASE UNCHANGED <<route, item, at>>
  BY <1>1, <1>2, <1>3, Unmoved DEF RouteInv, Types
<1>4. ASSUME NEW p \in Pending, item[p].of # NoOne, Resolve(p)
      PROVE  RouteInv'
  <2>1. Shape(item, route, told)' /\ Tasks(Thread, item)'
    BY <1>1, <1>4, ResolveStep
  <2> QED
    BY <1>1, <1>2, <2>1 DEF RouteInv, Types, Shape, Tasks
<1>5. ASSUME NEW p \in Pending, item[p].of # NoOne, UNCHANGED route,
             item' = [item EXCEPT ![p].resolving = TRUE],
             at' = [at EXCEPT ![Handler] = [Idle EXCEPT !.pc = "settle", !.item = p]]
      PROVE  RouteInv'
  <2> DEFINE e == [item[p] EXCEPT !.resolving = TRUE]
             a == [Idle EXCEPT !.pc = "settle", !.item = p]
  <2>1. item[p] \in Entry /\ Stages(item, route)
    BY <1>2 DEF Types, RouteInv, Shape
  <2>2. /\ e \in Entry /\ e.of = item[p].of /\ e.inactive = item[p].inactive
        /\ e.behind = item[p].behind /\ e.barrier = item[p].barrier
        /\ e.closing = item[p].closing /\ e.sending = item[p].sending
        /\ e.presented = item[p].presented /\ e.delivered = item[p].delivered
    BY <2>1 DEF Entry
  <2>3. item' = [item EXCEPT ![p] = e]
    BY <1>5
  <2> HIDE DEF e
  <2>4. item' \in [Pending -> Entry] /\ \A q \in Pending : MovesOn(q)
    <3>1. /\ e.sending => item[p].sending /\ ~e.presented
          /\ e.presented => e.delivered /\ (item[p].presented \/ item[p].sending)
      BY <2>1, <2>2 DEF Stages
    <3>2. item[p].of # NoOne /\ \A q \in Pending : item[q].of = NoOne => told'[q] = told[q]
      BY <1>1, <1>5
    <3> HIDE <1>5, <1>1
    <3> QED
      BY <2>2, <2>3, <3>1, <3>2, EntryMoves
  <2>5. Shape(item, route, told)'
    BY <1>1, <1>2, <1>5, <2>4, ShapeKept DEF Types
  <2>6. a \in Task /\ a.pc = "settle" /\ a.item = p /\ a.next = NoOne /\ a.claimed = NoOne
    BY Constants DEF Task, Pc
  <2>7. at' \in [Thread -> Task] /\ at'[Handler] = a /\ \A u \in Thread \ {Handler} : at'[u] = at[u]
    BY <1>2, <1>5, <2>6
  <2> HIDE DEF a
  <2>8. Fits(Handler, item)'
    <3>1. item'[p].of # NoOne /\ p # NoOne
      BY <1>5, <2>4, Numbers DEF MovesOn
    <3> QED
      BY <2>6, <2>7, <3>1 DEF Fits, Known, Tells, HandlerPc
  <2>9. \A t \in Thread : GoesOn(t)
    BY <1>1, <1>2, <2>6, <2>7, <2>8 DEF GoesOn, Tells
  <2>10. Tasks(Thread, item)'
    BY <2>4, <2>7, <2>9, TasksKept
  <2> QED
    BY <1>1, <1>2, <1>5, <2>4, <2>5, <2>7, <2>10 DEF RouteInv, Types
<1>6. ASSUME at' = [at EXCEPT ![Handler] = Idle], UNCHANGED <<route, item>>
      PROVE  RouteInv'
  <2>1. at' \in [Thread -> Task] /\ at'[Handler] = Idle /\ \A u \in Thread \ {Handler} : at'[u] = at[u]
    BY <1>2, <1>6, Constants
  <2>2. item' \in [Pending -> Entry] /\ \A q \in Pending : MovesOn(q)
    BY <1>1, <1>2, <1>6 DEF RouteInv, Types, Shape, Stages, MovesOn
  <2>3. Fits(Handler, item)'
    BY <2>1, Constants DEF Fits, Known, Tells, HandlerPc
  <2>4. \A t \in Thread : GoesOn(t)
    BY <1>1, <1>2, <2>1, <2>3, Constants DEF GoesOn, Tells
  <2>5. Tasks(Thread, item)'
    BY <2>1, <2>2, <2>4, TasksKept
  <2> QED
    BY <1>1, <1>2, <1>6, <2>1, <2>2, <2>5 DEF RouteInv, Types
<1>7. CASE Resolved
  <2>1. \/ UNCHANGED <<route, item, at>>
        \/ \E p \in Live(Head(stream).ask) :
             \/ Resolve(p)
             \/ /\ item' = [item EXCEPT ![p].resolving = TRUE] /\ UNCHANGED route
                /\ at' = [at EXCEPT ![Handler] = [Idle EXCEPT !.pc = "settle", !.item = p]]
    BY <1>7 DEF Resolved
  <2>2. \A p \in Live(Head(stream).ask) : p \in Pending /\ item[p].of # NoOne
    <3>1. Head(stream).ask \in Approval
      BY <1>2, <1>7, StreamGoesOn DEF Resolved
    <3> QED
      BY <3>1, Numbers DEF Live
  <2> QED
    BY <1>3, <1>4, <1>5, <2>1, <2>2
<1>8. CASE Settle
  <2> DEFINE p == at[Handler].item
  <2>1. p \in Pending /\ item[p].of # NoOne
    BY <1>2, <1>8, HandlerFree DEF Settle, Known
  <2>2. (at' = [at EXCEPT ![Handler] = Idle] /\ UNCHANGED <<route, item>>) \/ Resolve(p)
    BY <1>8 DEF Settle
  <2> HIDE DEF p
  <2> QED
    BY <1>4, <1>6, <2>1, <2>2
<1> QED
  BY <1>7, <1>8

\* A prompt arrives or is lost.
LEMMA PresentationSteps ==
  ASSUME NEW p \in Pending, RouteInv, PresentationArrives(p) \/ PresentationFails(p)
  PROVE  RouteInv'
<1>1. /\ item[p].sending /\ UNCHANGED <<ask, stream, route>> /\ connected' \in BOOLEAN
      /\ Types /\ Stages(item, route) /\ Fresh(item, told) /\ item[p] \in Entry
      /\ at \in [Thread -> Task] /\ Tasks(Thread, item)
  BY DEF PresentationArrives, PresentationFails, RouteInv, Types, Shape
<1>2. item[p].of # NoOne /\ ~item[p].presented /\ ~item[p].barrier
  BY <1>1 DEF Fresh, Stages, Unused
<1>3. /\ item' \in [Pending -> Entry] /\ \A q \in Pending : MovesOn(q)
      /\ told' \in [Pending -> Seq(Text)]
  <2>1. CASE PresentationArrives(p)
    <3> DEFINE late == item[p].inactive /\ ClosedOutcome(p) /\ ~item[p].notified
               n == item[p].notified \/ late \/ \E t \in Thread : ConfirmsFor(t, p)
               g == ~item[p].inactive
               e == [item[p] EXCEPT !.sending = FALSE, !.delivered = TRUE, !.presented = g,
                                    !.notified = n]
    <3>1. item' = [item EXCEPT ![p] = e]
      BY <1>1, <2>1 DEF PresentationArrives
    <3>2. told' = IF late THEN [told EXCEPT ![p] = Append(@, item[p].closing)] ELSE told
      BY <2>1 DEF PresentationArrives
    <3>3. n \in BOOLEAN /\ g \in BOOLEAN
      BY <1>1 DEF Entry
    <3>4. late => item[p].closing \in Text
      BY DEF ClosedOutcome, Text, Outcome, Decision
    <3> HIDE DEF late, n, g
    <3>5. /\ e \in Entry /\ e.of = item[p].of /\ e.inactive = item[p].inactive
          /\ e.behind = item[p].behind /\ e.barrier = item[p].barrier
          /\ e.closing = item[p].closing /\ ~e.sending /\ e.delivered
      BY <1>1, <3>3 DEF Entry
    <3> HIDE DEF e
    <3>6. told' \in [Pending -> Seq(Text)] /\ \A q \in Pending : q # p => told'[q] = told[q]
      BY <1>1, <3>2, <3>4 DEF Types
    <3>7. item' \in [Pending -> Entry] /\ \A q \in Pending : MovesOn(q)
      BY <1>1, <1>2, <3>1, <3>5, <3>6, EntryMoves
    <3> QED
      BY <3>6, <3>7
  <2>2. CASE PresentationFails(p)
    <3> DEFINE e == [item[p] EXCEPT !.sending = FALSE]
    <3>1. item' = [item EXCEPT ![p] = e] /\ told' = told
      BY <1>1, <2>2 DEF PresentationFails
    <3>2. /\ e \in Entry /\ e.of = item[p].of /\ e.inactive = item[p].inactive
          /\ e.behind = item[p].behind /\ e.barrier = item[p].barrier
          /\ e.closing = item[p].closing /\ ~e.sending /\ e.presented = item[p].presented
      BY <1>1 DEF Entry
    <3> HIDE DEF e
    <3>3. item' \in [Pending -> Entry] /\ \A q \in Pending : MovesOn(q)
      BY <1>1, <1>2, <3>1, <3>2, EntryMoves
    <3> QED
      BY <1>1, <3>1, <3>3 DEF Types
  <2> QED
    BY <2>1, <2>2
<1>4. Shape(item, route, told)'
  BY <1>1, <1>3, ShapeKept
<1>5. /\ at' = [t \in Thread |-> at'[t]]
      /\ \A t \in Thread :
           \/ at'[t] = at[t]
           \/ ShownTo(t, p) /\ at'[t] = Over(t)
           \/ /\ ConfirmsFor(t, p)
              /\ \/ at'[t] = [at[t] EXCEPT !.pc = "notify"]
                 \/ at'[t] = [at[t] EXCEPT !.pc = "notify", !.text = "none"]
  <2>1. CASE PresentationArrives(p)
    BY <2>1 DEF PresentationArrives
  <2>2. CASE PresentationFails(p)
    BY <2>2 DEF PresentationFails
  <2> QED
    BY <2>1, <2>2
<1>6. ASSUME NEW t \in Thread PROVE at'[t] \in Task /\ GoesOn(t)
  <2>1. at[t] \in Task /\ Fits(t, item)
    BY <1>1 DEF Tasks
  <2>2. CASE at'[t] = at[t]
    BY <2>1, <2>2 DEF GoesOn
  <2>3. CASE ShownTo(t, p) /\ at'[t] = Over(t)
    <3>1. /\ at'[t] \in Task /\ at'[t].item = NoOne /\ at'[t].next = NoOne /\ at'[t].claimed = NoOne
          /\ at'[t].pc = IF t = Handler THEN "idle" ELSE "done"
      BY <2>3, Constants DEF Over
    <3>2. Fits(t, item)' /\ ~Tells(t)' /\ ~Tells(t) /\ at[t].pc = "shown"
      BY <2>3, <3>1, Numbers
         DEF Fits, Known, Tells, HandlerPc, ReplyPc, Pc, Claiming, Deciding, ShownTo
    <3> QED
      BY <3>1, <3>2 DEF GoesOn
  <2>4. CASE /\ ConfirmsFor(t, p)
             /\ \/ at'[t] = [at[t] EXCEPT !.pc = "notify"]
                \/ at'[t] = [at[t] EXCEPT !.pc = "notify", !.text = "none"]
    <3>1. /\ at'[t] \in Task /\ at'[t].pc = "notify" /\ at'[t].item = at[t].item
          /\ at'[t].next = at[t].next /\ at'[t].claimed = at[t].claimed
      BY <2>1, <2>4 DEF Task, Pc, Text
    <3>2. t = Handler /\ at[t].pc = "confirm" /\ at[t].item = p
      BY <2>1, <2>4 DEF Fits, ReplyPc, ConfirmsFor
    <3>3. /\ at[t].next \in Pending \cup {NoOne} /\ at[t].claimed = NoOne
      BY <2>1, <3>2 DEF Fits, Task
    <3>4. Fits(t, item)'
      BY <1>2, <1>3, <2>1, <3>1, <3>2, <3>3, Numbers DEF Fits, Known, Tells, HandlerPc, MovesOn
    <3> QED
      BY <3>1, <3>2, <3>4 DEF GoesOn, Tells
  <2> QED
    BY <1>5, <2>2, <2>3, <2>4
<1>7. at' \in [Thread -> Task]
  BY <1>5, <1>6
<1>8. Tasks(Thread, item)'
  BY <1>3, <1>6, <1>7, TasksKept
<1> QED
  BY <1>1, <1>3, <1>4, <1>7, <1>8 DEF RouteInv, Types

\* The rejection of a closed entry is answered, lost, or told to the chat.
LEMMA ClosingSteps ==
  ASSUME NEW p \in Pending, RouteInv, CloseArrives(p) \/ CloseFails(p) \/ CloseAnswered(p)
  PROVE  RouteInv'
<1>1. /\ item[p].closing \in {"asked", "accepted", "refused"} /\ UNCHANGED <<connected, route, at>>
      /\ Types /\ Stages(item, route) /\ Fresh(item, told) /\ item[p] \in Entry
      /\ at \in [Thread -> Task]
  BY DEF CloseArrives, CloseFails, CloseAnswered, RouteInv, Types, Shape, env
<1>2. item[p].of # NoOne /\ item[p].of \in Approval
  <2>1. item[p].of # NoOne
    BY <1>1 DEF Fresh, Unused
  <2> QED
    BY <1>1, <2>1 DEF Entry
<1>3. /\ ask' \in [Approval -> {"unasked", "open"} \cup Decision]
      /\ stream' \in Seq(Events)
  <2>1. UNCHANGED <<ask, stream>> \/ Settles(item[p].of, "rejected")
    BY DEF CloseArrives, CloseFails, CloseAnswered
  <2>2. "rejected" \in Decision
    BY DEF Decision
  <2> QED
    BY <1>1, <1>2, <2>1, <2>2, SettlesTypes DEF Types
<1>4. /\ item' \in [Pending -> Entry] /\ \A q \in Pending : MovesOn(q)
      /\ told' \in [Pending -> Seq(Text)]
  <2>1. CASE CloseArrives(p) \/ CloseFails(p)
    <3>1. PICK c \in {"accepted", "refused", "failed"} : item' = [item EXCEPT ![p].closing = c]
      BY <2>1 DEF CloseArrives, CloseFails
    <3> DEFINE e == [item[p] EXCEPT !.closing = c]
    <3>2. item' = [item EXCEPT ![p] = e] /\ told' = told
      BY <1>1, <2>1, <3>1 DEF CloseArrives, CloseFails, env
    <3>3. /\ e \in Entry /\ e.of = item[p].of /\ e.inactive = item[p].inactive
          /\ e.behind = item[p].behind /\ e.barrier = item[p].barrier
          /\ e.closing = c /\ e.sending = item[p].sending /\ e.presented = item[p].presented
          /\ e.delivered = item[p].delivered
      BY <1>1 DEF Entry, Closing
    <3> HIDE DEF e
    <3>4. item' \in [Pending -> Entry] /\ \A q \in Pending : MovesOn(q)
      BY <1>1, <1>2, <3>2, <3>3, EntryMoves DEF Stages
    <3> QED
      BY <1>1, <3>2, <3>4 DEF Types
  <2>2. CASE CloseAnswered(p)
    <3> DEFINE c == IF item[p].closing = "accepted" THEN "rejected" ELSE "resolved"
               tells == (item[p].presented \/ item[p].delivered) /\ ~item[p].notified
               n == item[p].notified \/ tells
               e == [item[p] EXCEPT !.closing = c, !.notified = n]
    <3>1. item' = [item EXCEPT ![p] = e]
      BY <1>1, <2>2 DEF CloseAnswered
    <3>2. told' = IF tells THEN [told EXCEPT ![p] = Append(@, c)] ELSE told
      BY <2>2 DEF CloseAnswered
    <3>3. n \in BOOLEAN /\ c \in Closing \ {"no"} /\ c \in Text
      BY <1>1 DEF Entry, Closing, Text, Outcome, Decision
    <3> HIDE DEF c, tells, n
    <3>4. /\ e \in Entry /\ e.of = item[p].of /\ e.inactive = item[p].inactive
          /\ e.behind = item[p].behind /\ e.barrier = item[p].barrier
          /\ e.closing = c /\ e.sending = item[p].sending /\ e.presented = item[p].presented
          /\ e.delivered = item[p].delivered
      BY <1>1, <3>3 DEF Entry
    <3> HIDE DEF e
    <3>5. told' \in [Pending -> Seq(Text)] /\ \A q \in Pending : q # p => told'[q] = told[q]
      BY <1>1, <3>2, <3>3 DEF Types
    <3>6. item' \in [Pending -> Entry] /\ \A q \in Pending : MovesOn(q)
      BY <1>1, <1>2, <3>1, <3>3, <3>4, <3>5, EntryMoves DEF Stages
    <3> QED
      BY <3>5, <3>6
  <2> QED
    BY <2>1, <2>2
<1>5. Shape(item, route, told)'
  BY <1>1, <1>4, ShapeKept
<1>6. Tasks(Thread, item)'
  BY <1>1, <1>4, TasksKept DEF GoesOn
<1> QED
  BY <1>1, <1>3, <1>4, <1>5, <1>6 DEF RouteInv, Types

\* The turn ends: the whole route is closed.
LEMMA CloseRouteStep ==
  ASSUME RouteInv, CloseRoute
  PROVE  RouteInv'
<1>1. /\ route \in Seq(Pending) /\ Lively(item, route) /\ Fresh(item, told) /\ Behind(item)
      /\ Stages(item, route) /\ item \in [Pending -> Entry] /\ Types
      /\ told \in [Pending -> Seq(Text)] /\ at \in [Thread -> Task] /\ Tasks(Thread, item)
  BY DEF RouteInv, Types, Shape
<1>2. /\ UNCHANGED <<ask, stream, connected, at, told>> /\ route' = <<>>
      /\ item' = [p \in Pending |-> IF Queued(p)
                   THEN [item[p] EXCEPT !.inactive = TRUE, !.closing = "asked"]
                   ELSE item[p]]
  BY DEF CloseRoute
<1>3. /\ item' \in [Pending -> Entry]
      /\ \A p \in Pending :
           /\ item'[p].of = item[p].of /\ item'[p].behind = item[p].behind
           /\ item[p].behind \subseteq Pending
           /\ item'[p].barrier = item[p].barrier /\ item'[p].sending = item[p].sending
           /\ item'[p].presented = item[p].presented /\ item'[p].delivered = item[p].delivered
           /\ (item'[p].inactive <=> item[p].inactive \/ In(route, p))
           /\ ~In(route, p) => item'[p] = item[p]
           /\ item'[p].closing # "no" => item'[p].inactive
  <2>1. ASSUME NEW p \in Pending, Queued(p)
        PROVE  item'[p] = [item[p] EXCEPT !.inactive = TRUE, !.closing = "asked"] /\ In(route, p)
    BY <1>2, <2>1 DEF In, Queued
  <2>2. ASSUME NEW p \in Pending, ~Queued(p)
        PROVE  item'[p] = item[p] /\ ~In(route, p)
    BY <1>2, <2>2 DEF In, Queued
  <2>3. item' = [p \in Pending |-> item'[p]]
    BY <1>2
  <2>4. ASSUME NEW p \in Pending
        PROVE  /\ item'[p] \in Entry
               /\ item'[p].of = item[p].of /\ item'[p].behind = item[p].behind
               /\ item[p].behind \subseteq Pending
               /\ item'[p].barrier = item[p].barrier /\ item'[p].sending = item[p].sending
               /\ item'[p].presented = item[p].presented /\ item'[p].delivered = item[p].delivered
               /\ (item'[p].inactive <=> item[p].inactive \/ In(route, p))
               /\ ~In(route, p) => item'[p] = item[p]
               /\ item'[p].closing # "no" => item'[p].inactive
    <3>1. item[p] \in Entry
      BY <1>1
    <3>2. CASE Queued(p)
      <4>1. item'[p] = [item[p] EXCEPT !.inactive = TRUE, !.closing = "asked"] /\ In(route, p)
        BY <2>1, <3>2
      <4>2. "asked" \in Closing /\ item'[p] \in Entry
        BY <3>1, <4>1 DEF Entry, Closing
      <4>3. item'[p].inactive
        BY <3>1, <4>1 DEF Entry
      <4> QED
        BY <3>1, <4>1, <4>2, <4>3 DEF Entry
    <3>3. CASE ~Queued(p)
      BY <1>1, <2>2, <3>1, <3>3 DEF Entry, Stages
    <3> QED
      BY <3>2, <3>3
  <2> QED
    BY <2>3, <2>4
<1>4. Shape(item, route, told)'
  <2>1. route' \in Seq(Pending) /\ Len(route') = 0 /\ \A p \in Pending : ~In(route', p)
    <3>1. route' = <<>>
      BY <1>2
    <3>2. route' \in Seq(Pending) /\ Len(route') = 0 /\ 1..Len(route') = {}
      BY <3>1
    <3> QED
      BY <3>2 DEF In
  <2>2. Once(route') /\ Ordered(item', route')
    BY <2>1 DEF Once, Ordered
  <2>7. HeadOnly(item', route')
    BY <2>1 DEF HeadOnly
  <2>3. Lively(item', route')
    BY <1>1, <1>3, <2>1 DEF Lively
  <2>4. Fresh(item', told')
    <3> SUFFICES ASSUME NEW q \in Pending, item'[q].of = NoOne
                 PROVE  item'[q] = Unused /\ told'[q] = <<>>
      BY DEF Fresh
    <3>1. item[q].of = NoOne /\ told'[q] = told[q]
      BY <1>2, <1>3
    <3>2. ~In(route, q)
      BY <1>1, <3>1 DEF Lively
    <3> QED
      BY <1>1, <1>3, <3>1, <3>2 DEF Fresh
  <2>5. Behind(item')
    BY <1>1, <1>3 DEF Behind
  <2>6. Stages(item', route')
    <3> SUFFICES ASSUME NEW q \in Pending
                 PROVE  /\ item'[q].barrier => ~item'[q].sending /\ ~item'[q].presented
                        /\ item'[q].sending => ~item'[q].presented
                        /\ item'[q].presented => item'[q].delivered
                        /\ item'[q].closing # "no" => item'[q].inactive
                        /\ In(route', q) => \A s \in item'[q].behind : item'[s].closing = "no"
      BY DEF Stages
    <3>1. ~In(route', q)
      BY <2>1
    <3> QED
      BY <1>1, <1>3, <3>1 DEF Stages
  <2> QED
    BY <1>1, <1>2, <1>3, <2>1, <2>2, <2>3, <2>4, <2>5, <2>6, <2>7 DEF Shape
<1>5. Tasks(Thread, item)'
  <2>1. ASSUME NEW t \in Thread PROVE Fits(t, item)'
    <3>1. /\ Fits(t, item)
          /\ at[t].item \in Pending \cup {NoOne} /\ at[t].next \in Pending \cup {NoOne}
          /\ at[t].claimed \in Pending \cup {NoOne} /\ at' = at
      BY <1>1, <1>2 DEF Tasks, Task
    <3> QED
      BY <1>3, <3>1 DEF Fits, Known, Tells, Claiming
  <2>2. at' = at
    BY <1>2
  <2>3. Barrier(Thread, item)'
    <3>1. \A q \in Pending : item'[q].barrier = item[q].barrier
      BY <1>3
    <3> QED
      BY <1>1, <2>2, <3>1 DEF Tasks, Barrier, Tells
  <2>4. Serial'
    BY <1>1, <2>2 DEF Tasks, Serial, Waits
  <2> QED
    BY <1>1, <2>1, <2>2, <2>3, <2>4 DEF Tasks
<1> QED
  BY <1>1, <1>2, <1>3, <1>4, <1>5 DEF RouteInv, Types, Shape

\* Nothing happens.
LEMMA StutterStep ==
  ASSUME RouteInv, UNCHANGED vars
  PROVE  RouteInv'
<1>1. UNCHANGED <<ask, stream, connected, route, item, at, told>>
  BY DEF vars
<1> QED
  BY <1>1, Unmoved DEF RouteInv, Types

\* The first state.
LEMMA RouteInit ==
  ASSUME Init
  PROVE  RouteInv
<1>1. /\ ask = [a \in Approval |-> "unasked"] /\ stream = <<>> /\ connected = TRUE
      /\ route = <<>> /\ item = [p \in Pending |-> Unused]
      /\ at = [t \in Thread |-> Idle] /\ told = [p \in Pending |-> <<>>]
  BY DEF Init
<1>2. Types
  BY <1>1, Constants DEF Types
<1>3. \A p \in Pending : /\ item[p] = Unused /\ told[p] = <<>> /\ ~In(route, p)
                         /\ item[p].of = NoOne /\ ~item[p].sending /\ ~item[p].presented
                         /\ ~item[p].barrier /\ item[p].closing = "no" /\ item[p].behind = {}
  BY <1>1 DEF Unused, In
<1>4. Once(route) /\ Ordered(item, route)
  BY <1>1 DEF Once, Ordered
<1>5. /\ Lively(item, route) /\ Fresh(item, told) /\ Behind(item)
      /\ HeadOnly(item, route) /\ Stages(item, route)
  BY <1>3 DEF Lively, Fresh, Behind, HeadOnly, Stages
<1>6. Shape(item, route, told)
  BY <1>2, <1>4, <1>5 DEF Shape, Types
<1>7. \A t \in Thread : /\ at[t].pc = "idle" /\ at[t].item = NoOne /\ at[t].next = NoOne
                        /\ at[t].claimed = NoOne /\ ~Tells(t)
  BY <1>1, Constants DEF Tells
<1>8. \A t \in Thread : Fits(t, item)
  BY <1>7 DEF Fits, Known, HandlerPc, ReplyPc, Pc, Claiming, Deciding
<1>9. Barrier(Thread, item)
  BY <1>3, <1>7 DEF Barrier
<1>10. Serial
  BY <1>7, Numbers DEF Serial
<1> QED
  BY <1>2, <1>6, <1>8, <1>9, <1>10 DEF RouteInv, Types, Tasks

\* Every step keeps the route and the tasks in order.
LEMMA RouteStep ==
  ASSUME RouteInv, [Next]_vars
  PROVE  RouteInv'
<1>1. CASE HandlerStep
  <2>1. Handler \in Thread
    BY Numbers
  <2> QED
    BY <1>1, <2>1, RequestedStep, SettledSteps, PresentResumesStep, NoticeSentStep DEF HandlerStep
<1>2. ASSUME NEW r \in Reply, ReplyStep(r) \/ Send(r) \/ PreflightFails(r) \/ RespondFails(r)
      PROVE  RouteInv'
  <2>1. r \in Thread
    BY Numbers
  <2> QED
    BY <1>2, <2>1, MessageSteps, RespondSteps, RunReplyStep, SubmittedStep,
       PresentResumesStep, NoticeSentStep DEF ReplyStep
<1>3. ASSUME NEW p \in Pending, ItemStep(p) \/ PresentationFails(p) \/ CloseFails(p)
      PROVE  RouteInv'
  BY <1>3, PresentationSteps, ClosingSteps DEF ItemStep
<1>4. CASE \/ \E a \in Approval : AskFor(a) \/ SettledElsewhere(a)
           \/ Disconnect \/ Reconnect \/ QuestionMoves
  BY <1>4, HarnessSide
<1>5. CASE CloseRoute
  BY <1>5, CloseRouteStep
<1>6. CASE UNCHANGED vars
  BY <1>6, StutterStep
<1> QED
  BY <1>1, <1>2, <1>3, <1>4, <1>5, <1>6 DEF Next

\* The route holds each live entry once, in the order of the requests; only its
\* head is shown; the barrier is up exactly while one task tells the outcome
\* before; messages for one entry take turns (harness-approval.ts:275-577).
THEOREM Invariance == Spec => []RouteInv
  BY RouteInit, RouteStep, PTL DEF Spec

-----------------------------------------------------------------------------
(* What the chat is told: the invariant                                     *)

Decides(t) == at[t].pc \in Deciding
Truthful(p, text) == text \in Outcome /\ (text \in Decision => text = ask[item[p].of])

\* The harness settled what the queue takes for settled.
EventsDecided ==
  /\ \A i \in 1..Len(stream) : stream[i].kind = "resolved" => ask[stream[i].ask] \in Decision
  /\ at[Handler].pc = "settle" => ask[item[at[Handler].item].of] \in Decision

\* ... and it decided as a message, or the closing, was answered.
Answered ==
  /\ \A r \in Reply : at[r].pc = "accepted" => at[r].says = ask[item[at[r].item].of]
  /\ \A p \in Pending : item[p].closing \in {"accepted", "rejected"} =>
       ask[item[p].of] = "rejected"

LiveOnce ==
  \A p, q \in Pending : item[p].of = item[q].of /\ item[p].of # NoOne
    /\ ~item[p].inactive /\ ~item[q].inactive => p = q

\* A message decides on a removed entry only if the chat knows or the route was closed.
NoticedOrClosed ==
  \A r \in Reply : Decides(r) /\ item[at[r].item].inactive =>
    item[at[r].item].notified \/ item[at[r].item].closing # "no"

\* While an outcome is told, the next entry waits ahead of all that waited for it.
Ahead ==
  \A t \in Thread : Tells(t) => \A p \in Pending :
    In(route, p) /\ at[t].item \in item[p].behind => In(route, at[t].next)

Truths ==
  /\ \A t \in Thread : Tells(t) => at[t].text = "none" \/ Truthful(at[t].item, at[t].text)
  /\ \A p \in Pending : \A i \in 1..Len(told[p]) : Truthful(p, told[p][i])

\* One task at most tells the outcome of an entry.
OneTeller ==
  /\ \A t, u \in Thread : Tells(t) /\ Tells(u) /\ at[t].item = at[u].item => t = u
  /\ Tells(Handler) => item[at[Handler].item].closing = "no"

\* The outcomes of an entry that are told or about to be.
Speaks(p) == \E t \in Thread : Tells(t) /\ at[t].item = p /\ at[t].text # "none"
Count(p) == Len(told[p]) + (IF Speaks(p) THEN 1 ELSE 0)
Busy(p)  == \E r \in Reply : Decides(r) /\ at[r].item = p

Counted(p) ==
  /\ ~item[p].inactive => told[p] = <<>>
  /\ item[p].closing = "no" => Count(p) <= 1
  /\ item[p].closing # "no" => /\ Count(p) <= 2
                               /\ ~item[p].notified => Count(p) <= 1
                               /\ Busy(p) /\ item[p].notified => Count(p) <= 1
                               /\ Busy(p) /\ ~item[p].notified => Count(p) = 0

OutcomeInv ==
  /\ EventsDecided /\ Answered /\ LiveOnce /\ NoticedOrClosed /\ Ahead /\ Truths
  /\ OneTeller /\ \A p \in Pending : Counted(p)

-----------------------------------------------------------------------------
(* The kinds of steps                                                       *)

AskFinal == \A a \in Approval : ask[a] \in Decision => ask'[a] = ask[a]

Kept(q) ==
  /\ item'[q].of = item[q].of /\ item'[q].behind = item[q].behind
  /\ item'[q].inactive <=> item[q].inactive
  /\ item[q].notified => item'[q].notified
  /\ item'[q].closing = "no" <=> item[q].closing = "no"

New(q) ==
  /\ item[q].of = NoOne /\ item'[q].of \in Approval /\ ~item'[q].inactive
  /\ item'[q].closing = "no" /\ Live(item'[q].of) = {} /\ ~In(route, q)
  /\ \A s \in item'[q].behind : In(route, s)

\* A task that does not begin to tell, and decides only on an entry of the route.
Goes(t) ==
  /\ Tells(t)' => /\ Tells(t) /\ at'[t].item = at[t].item /\ at'[t].next = at[t].next
                  /\ at'[t].text = at[t].text \/ at'[t].text = "none"
  /\ Decides(t)' => /\ at'[t].item = at[t].item /\ at[t].item \in Pending
                    /\ item[at[t].item].of # NoOne
                    /\ Decides(t) \/ ~item[at[t].item].inactive

\* Whatever happens.
Always == AskFinal /\ EventsDecided' /\ Answered'

Calm ==
  /\ \A q \in Pending : Kept(q) \/ New(q)
  /\ \A q, s \in Pending : New(q) /\ New(s) => q = s
  /\ \A q \in Pending : In(route', q) <=> In(route, q) \/ New(q)
  /\ \A t \in Thread : Goes(t)

Quiet == Calm /\ told' = told

\* A task has told its outcome.
HasTold(t) ==
  /\ Calm /\ Tells(t) /\ ~Tells(t)' /\ \A u \in Thread : Decides(u)' => Decides(u) /\ at'[u] = at[u]
  /\ told' = IF at[t].text = "none" THEN told
             ELSE [told EXCEPT ![at[t].item] = Append(@, at[t].text)]
  /\ \A q \in Pending : Kept(q)

\* The outcome of the closing is told.
TellsClosing(p, text) ==
  /\ Calm /\ \A q \in Pending : Kept(q)
  /\ item[p].closing # "no" /\ ~item[p].notified /\ item'[p].notified /\ item[p].of # NoOne
  /\ Truthful(p, text) /\ told' = [told EXCEPT ![p] = Append(@, text)]

\* An entry leaves the route by task t, which may begin to tell.
Leaves(t, p) ==
  /\ told' = told /\ item[p].of # NoOne /\ ~item[p].barrier
  /\ \A q \in Pending :
       /\ item'[q].of = item[q].of /\ item'[q].behind = item[q].behind
       /\ item'[q].inactive <=> item[q].inactive \/ q = p
       /\ item[q].notified => item'[q].notified
       /\ item'[q].closing = item[q].closing
       /\ In(route', q) <=> In(route, q) /\ q # p
  /\ \A u \in Thread \ {t} : at'[u] = at[u]
  /\ ~Decides(t)' /\ ~Tells(t)
  /\ \/ t = Handler /\ ~item[p].inactive
     \/ t \in Reply /\ Decides(t) /\ at[t].item = p
  /\ \/ ~Tells(t)' /\ (t = Handler => ~item[p].presented)
     \/ /\ Tells(t)' /\ at'[t].item = p /\ at'[t].next = NextOf(p)
        /\ Truthful(p, at'[t].text)
        /\ IF t = Handler THEN item[p].sending \/ (item[p].presented /\ item'[p].notified)
           ELSE ~item[p].notified
  /\ HeadOf(route, p) => \A q \in Pending : In(route', q) => In(route', NextOf(p))

Closes ==
  /\ told' = told /\ at' = at /\ route' = <<>>
  /\ \A q \in Pending :
       /\ item'[q].of = item[q].of /\ item'[q].behind = item[q].behind
       /\ ~In(route, q) => item'[q] = item[q]
       /\ In(route, q) => item'[q].inactive /\ item'[q].closing # "no"
\* What the invariant of the route says about tasks and entries.
LEMMA RouteFacts ==
  ASSUME RouteInv
  PROVE  /\ route \in Seq(Pending) /\ item \in [Pending -> Entry] /\ at \in [Thread -> Task]
         /\ told \in [Pending -> Seq(Text)] /\ ~In(route, NoOne)
         /\ \A t \in Thread : Tells(t) =>
              /\ at[t].item \in Pending /\ item[at[t].item].of # NoOne
              /\ item[at[t].item].inactive
              /\ at[t].next \in Pending \cup {NoOne}
              /\ at[t].next # NoOne => item[at[t].next].barrier
         /\ \A r \in Reply : Decides(r) =>
              /\ at[r].item \in Pending /\ item[at[r].item].of # NoOne
              /\ item[at[r].item].presented /\ at[r].says \in Decision
         /\ ~Decides(Handler) /\ at[Handler].pc # "accepted"
         /\ \A r, s \in Reply : (Decides(r) \/ Tells(r)) /\ (Decides(s) \/ Tells(s))
              /\ at[r].item = at[s].item => r = s
         /\ \A p \in Pending :
              /\ In(route, p) <=> item[p].of # NoOne /\ ~item[p].inactive
              /\ item[p].of = NoOne => item[p] = Unused /\ told[p] = <<>>
              /\ item[p].closing # "no" => item[p].inactive
              /\ In(route, p) => \A q \in item[p].behind : item[q].closing = "no"
              /\ item[p].presented => ~item[p].sending /\ ~item[p].barrier
              /\ item[p].sending => ~item[p].barrier
              /\ In(route, p) /\ (item[p].sending \/ item[p].presented \/ item[p].barrier)
                   => HeadOf(route, p)
              /\ item[p].behind \subseteq Pending
              /\ item[p].of \in Approval \cup {NoOne}
<1>1. /\ route \in Seq(Pending) /\ item \in [Pending -> Entry] /\ at \in [Thread -> Task]
      /\ told \in [Pending -> Seq(Text)] /\ Lively(item, route) /\ Fresh(item, told)
      /\ HeadOnly(item, route) /\ Stages(item, route) /\ Tasks(Thread, item)
  BY DEF RouteInv, Types, Shape
<1>2. ~In(route, NoOne)
  BY <1>1, Numbers DEF In
<1>3. ASSUME NEW t \in Thread, Tells(t)
      PROVE  /\ at[t].item \in Pending /\ item[at[t].item].of # NoOne
             /\ item[at[t].item].inactive
             /\ at[t].next \in Pending \cup {NoOne}
             /\ at[t].next # NoOne => item[at[t].next].barrier
  <2>1. Fits(t, item) /\ at[t] \in Task
    BY <1>1 DEF Tasks
  <2>2. at[t].item \in Pending \cup {NoOne} /\ at[t].next \in Pending \cup {NoOne}
    BY <2>1 DEF Task
  <2>3. at[t].item # NoOne /\ item[at[t].item].of # NoOne /\ item[at[t].item].inactive
    BY <1>3, <2>1 DEF Fits, Tells, Known
  <2>4. at[t].next # NoOne => item[at[t].next].barrier
    BY <1>1, <1>3, <2>2 DEF Tasks, Barrier
  <2> QED
    BY <2>2, <2>3, <2>4
<1>4. ASSUME NEW r \in Reply
      PROVE  /\ Decides(r) => /\ at[r].item \in Pending /\ item[at[r].item].of # NoOne
                              /\ item[at[r].item].presented /\ at[r].says \in Decision
             /\ Decides(r) \/ Tells(r) =>
                  at[r].item = at[r].claimed /\ at[r].claimed # NoOne /\ at[r].pc # "waiting"
  <2>1. Fits(r, item) /\ at[r] \in Task /\ r # Handler
    BY <1>1, Numbers DEF Tasks
  <2>2. at[r].item \in Pending \cup {NoOne}
    BY <2>1 DEF Task
  <2>3. Decides(r) \/ Tells(r) =>
          at[r].item = at[r].claimed /\ at[r].claimed # NoOne /\ at[r].pc # "waiting"
    BY <2>1 DEF Fits, Decides, Deciding, Tells, Claiming, ReplyPc
  <2>4. Decides(r) => item[at[r].item].presented /\ at[r].says \in Decision /\ Known(item, at[r].item)
    BY <2>1 DEF Fits, Decides
  <2> QED
    BY <2>2, <2>3, <2>4 DEF Known
<1>5. ~Decides(Handler) /\ at[Handler].pc # "accepted"
  BY <1>1, Numbers DEF Tasks, Fits, HandlerPc, Decides, Deciding
<1>6. ASSUME NEW r \in Reply, NEW s \in Reply, Decides(r) \/ Tells(r), Decides(s) \/ Tells(s),
             at[r].item = at[s].item
      PROVE  r = s
  <2>1. /\ at[r].claimed = at[s].claimed /\ at[r].claimed # NoOne
        /\ at[r].pc # "waiting" /\ at[s].pc # "waiting"
    BY <1>4, <1>6
  <2> QED
    BY <1>1, <2>1 DEF Tasks, Serial, Waits
<1>7. ASSUME NEW p \in Pending
      PROVE  /\ In(route, p) <=> item[p].of # NoOne /\ ~item[p].inactive
             /\ item[p].of = NoOne => item[p] = Unused /\ told[p] = <<>>
             /\ item[p].closing # "no" => item[p].inactive
             /\ In(route, p) => \A q \in item[p].behind : item[q].closing = "no"
             /\ item[p].presented => ~item[p].sending /\ ~item[p].barrier
             /\ item[p].sending => ~item[p].barrier
             /\ In(route, p) /\ (item[p].sending \/ item[p].presented \/ item[p].barrier)
                  => HeadOf(route, p)
             /\ item[p].behind \subseteq Pending
             /\ item[p].of \in Approval \cup {NoOne}
  BY <1>1 DEF Lively, Fresh, Stages, HeadOnly, Entry
<1> QED
  BY <1>1, <1>2, <1>3, <1>4, <1>5, <1>6, <1>7

\* What is true stays true.
LEMMA TruthStays ==
  ASSUME NEW p \in Pending, NEW text, RouteInv, AskFinal, item[p].of # NoOne,
         item'[p].of = item[p].of, Truthful(p, text)
  PROVE  text \in Outcome /\ (text \in Decision => text = ask'[item'[p].of])
<1>1. item[p].of \in Approval
  BY RouteFacts
<1> QED
  BY <1>1 DEF Truthful, AskFinal

\* The two values of a count.
LEMMA CountIs ==
  ASSUME NEW p \in Pending, RouteInv
  PROVE  /\ Len(told[p]) \in Nat /\ Count(p) \in Nat
         /\ Speaks(p) => Count(p) = Len(told[p]) + 1
         /\ ~Speaks(p) => Count(p) = Len(told[p])
<1>1. Len(told[p]) \in Nat
  BY RouteFacts
<1>2. Speaks(p) => Count(p) = Len(told[p]) + 1
  BY DEF Count
<1>3. ~Speaks(p) => Count(p) = Len(told[p])
  <2> SUFFICES ASSUME ~Speaks(p) PROVE Count(p) = Len(told[p])
    OBVIOUS
  <2> QED
    BY <1>1 DEF Count
<1> QED
  BY <1>1, <1>2, <1>3

\* What a task that still tells an outcome was telling.
StillTells(t) ==
  /\ Tells(t) /\ at'[t].item = at[t].item /\ at'[t].next = at[t].next
  /\ at'[t].text = at[t].text \/ at'[t].text = "none"
  /\ at[t].item \in Pending /\ item[at[t].item].of # NoOne
  /\ item[at[t].item].inactive /\ Kept(at[t].item)
  /\ at[t].next \in Pending \cup {NoOne}
  /\ at'[t].text # "none" => Truthful(at[t].item, at[t].text)'

\* What a calm step keeps whatever the chat is told.
LEMMA CalmKeeps ==
  ASSUME RouteInv, OutcomeInv, AskFinal, Calm
  PROVE  /\ LiveOnce' /\ NoticedOrClosed' /\ Ahead' /\ OneTeller'
         /\ \A t \in Thread : Tells(t)' => StillTells(t)
         /\ \A p \in Pending : Busy(p)' => item[p].of # NoOne /\ (Busy(p) \/ ~item[p].inactive)
         /\ \A p \in Pending : item[p].of # NoOne => Kept(p)
<1>1. /\ \A q \in Pending : item[q].of # NoOne => Kept(q)
      /\ \A q \in Pending : Kept(q) \/ New(q)
      /\ \A q, s \in Pending : New(q) /\ New(s) => q = s
      /\ \A q \in Pending : In(route', q) <=> In(route, q) \/ New(q)
      /\ \A t \in Thread : Goes(t)
  BY DEF Calm, New
<1>2. LiveOnce'
  <2> SUFFICES ASSUME NEW p \in Pending, NEW q \in Pending, item'[p].of = item'[q].of,
                      item'[p].of # NoOne, ~item'[p].inactive, ~item'[q].inactive
               PROVE  p = q
    BY DEF LiveOnce
  <2>1. CASE Kept(p) /\ Kept(q)
    BY <2>1 DEF OutcomeInv, LiveOnce, Kept
  <2>2. CASE New(p) /\ New(q)
    BY <1>1, <2>2
  <2>3. CASE New(p) /\ Kept(q)
    BY <2>3 DEF New, Kept, Live
  <2>4. CASE Kept(p) /\ New(q)
    BY <2>4 DEF New, Kept, Live
  <2> QED
    BY <1>1, <2>1, <2>2, <2>3, <2>4
<1>3. NoticedOrClosed'
  <2> SUFFICES ASSUME NEW r \in Reply, Decides(r)', item'[at'[r].item].inactive
               PROVE  item'[at'[r].item].notified \/ item'[at'[r].item].closing # "no"
    BY DEF NoticedOrClosed
  <2>1. /\ at'[r].item = at[r].item /\ at[r].item \in Pending /\ item[at[r].item].of # NoOne
        /\ Decides(r) \/ ~item[at[r].item].inactive
    BY <1>1, Numbers DEF Goes
  <2>2. Kept(at[r].item)
    BY <1>1, <2>1
  <2> QED
    BY <2>1, <2>2 DEF OutcomeInv, NoticedOrClosed, Kept
<1>4. \A t \in Thread : Tells(t)' =>
        /\ Tells(t) /\ at'[t].item = at[t].item /\ at'[t].next = at[t].next
        /\ at'[t].text = at[t].text \/ at'[t].text = "none"
        /\ at[t].item \in Pending /\ item[at[t].item].of # NoOne
        /\ item[at[t].item].inactive /\ Kept(at[t].item)
        /\ at[t].next \in Pending \cup {NoOne}
  BY <1>1, RouteFacts DEF Goes
<1>5. Ahead'
  <2> SUFFICES ASSUME NEW t \in Thread, Tells(t)', NEW p \in Pending, In(route', p),
                      at'[t].item \in item'[p].behind
               PROVE  In(route', at'[t].next)
    BY DEF Ahead
  <2>1. CASE New(p)
    <3>1. In(route, at[t].item)
      BY <1>4, <2>1 DEF New
    <3>2. at[t].item \in Pending /\ item[at[t].item].inactive
      BY <1>4
    <3>3. ~In(route, at[t].item)
      BY <3>2, RouteFacts
    <3> QED
      BY <3>1, <3>3
  <2>2. CASE Kept(p)
    <3>1. In(route, p)
      BY <2>2, <1>1, Numbers DEF New, Kept
    <3>2. In(route, at[t].next)
      BY <1>4, <2>2, <3>1 DEF OutcomeInv, Ahead, Kept
    <3>3. at[t].next \in Pending
      BY <1>4, <3>2, RouteFacts
    <3> QED
      BY <1>1, <1>4, <3>2, <3>3
  <2> QED
    BY <1>1, <2>1, <2>2
<1>6. ASSUME NEW t \in Thread, Tells(t)', at'[t].text # "none"
      PROVE  Truthful(at[t].item, at[t].text)'
  <2>1. Truthful(at[t].item, at[t].text) /\ at'[t].text = at[t].text
    BY <1>4, <1>6 DEF OutcomeInv, Truths
  <2>2. item'[at[t].item].of = item[at[t].item].of
    BY <1>4, <1>6 DEF Kept
  <2> QED
    BY <1>4, <1>6, <2>1, <2>2, TruthStays DEF Truthful
<1>7. OneTeller'
  BY <1>4, Numbers DEF OutcomeInv, OneTeller, Kept
<1>8. \A p \in Pending : Busy(p)' => item[p].of # NoOne /\ (Busy(p) \/ ~item[p].inactive)
  BY <1>1, Numbers DEF Busy, Goes
<1> QED
  BY <1>1, <1>2, <1>3, <1>4, <1>5, <1>6, <1>7, <1>8 DEF StillTells

\* What was told stays true, and so does what is added.
LEMMA ToldTrue ==
  ASSUME NEW p \in Pending, NEW text, RouteInv, OutcomeInv, AskFinal, item[p].of # NoOne,
         \A q \in Pending : item[q].of # NoOne => item'[q].of = item[q].of,
         \/ told' = told
         \/ told' = [told EXCEPT ![p] = Append(@, text)] /\ Truthful(p, text)
  PROVE  \A q \in Pending : \A i \in 1..Len(told'[q]) : Truthful(q, told[q][i])'
<1> SUFFICES ASSUME NEW q \in Pending, NEW i \in 1..Len(told'[q]) PROVE Truthful(q, told[q][i])'
  OBVIOUS
<1>1. told[q] \in Seq(Text) /\ told \in [Pending -> Seq(Text)]
  BY RouteFacts
<1>2. \/ i \in 1..Len(told[q]) /\ told'[q][i] = told[q][i]
      \/ q = p /\ told'[q][i] = text /\ Truthful(p, text)
  <2>1. CASE told'[q] = told[q]
    BY <2>1
  <2>2. CASE q = p /\ told'[q] = Append(told[q], text) /\ Truthful(p, text)
    BY <1>1, <2>2
  <2> QED
    BY <1>1, <2>1, <2>2
<1>3. Truthful(q, told'[q][i]) /\ item[q].of # NoOne
  <2>1. CASE i \in 1..Len(told[q]) /\ told'[q][i] = told[q][i]
    <3>1. told[q] # <<>>
      BY <2>1
    <3> QED
      BY <2>1, <3>1, RouteFacts DEF OutcomeInv, Truths
  <2> QED
    BY <1>2, <2>1
<1> QED
  BY <1>3, TruthStays DEF Truthful

\* A step that tells nothing.
LEMMA QuietKeeps ==
  ASSUME RouteInv, OutcomeInv, Always, Quiet
  PROVE  OutcomeInv'
<1>1. /\ LiveOnce' /\ NoticedOrClosed' /\ Ahead' /\ OneTeller'
      /\ \A t \in Thread : Tells(t)' => StillTells(t)
      /\ \A p \in Pending : Busy(p)' => item[p].of # NoOne /\ (Busy(p) \/ ~item[p].inactive)
      /\ \A p \in Pending : item[p].of # NoOne => Kept(p)
      /\ told' = told /\ AskFinal
      /\ \A p \in Pending : Kept(p) \/ New(p)
  BY CalmKeeps DEF Quiet, Always, Calm
<1>2. Truths'
  <2>1. ASSUME NEW p \in Pending, NEW i \in 1..Len(told'[p])
        PROVE  Truthful(p, told[p][i])'
    <3>1. told[p] # <<>> /\ i \in 1..Len(told[p])
      BY <1>1, <2>1
    <3>2. item[p].of # NoOne
      BY <3>1, RouteFacts
    <3> QED
      BY <1>1, <2>1, <3>2, ToldTrue DEF Kept
  <2> QED
    BY <1>1, <2>1 DEF Truths, StillTells
<1>3. ASSUME NEW p \in Pending PROVE Counted(p)'
  <2>1. Speaks(p)' => Speaks(p) /\ item[p].of # NoOne
    BY <1>1 DEF Speaks, StillTells
  <2>2. Len(told[p]) \in Nat /\ Len(told'[p]) = Len(told[p])
    BY <1>1, RouteFacts
  <2>3. CASE New(p)
    <3>1. told[p] = <<>> /\ ~Speaks(p)' /\ ~item'[p].inactive /\ item'[p].closing = "no"
      BY <2>1, <2>3, RouteFacts DEF New
    <3>2. Count(p)' = 0 /\ told'[p] = <<>>
      BY <1>1, <3>1 DEF Count
    <3>3. Count(p)' <= 1
      BY <3>2
    <3> QED
      BY <3>1, <3>2, <3>3 DEF Counted
  <2>4. CASE Kept(p)
    <3>1. Count(p)' <= Count(p) /\ Count(p) \in Nat /\ Count(p)' \in Nat
      <4>1. CASE Speaks(p)'
        BY <2>1, <2>2, <4>1 DEF Count
      <4>2. CASE ~Speaks(p)'
        <5>1. Count(p)' = Len(told[p])
          BY <2>2, <4>2 DEF Count
        <5>2. Count(p) = Len(told[p]) \/ (Speaks(p) /\ Count(p) = Len(told[p]) + 1)
          BY CountIs
        <5> QED
          BY <2>2, <5>1, <5>2
      <4> QED
        BY <4>1, <4>2
    <3>2. item[p].closing # "no" => item[p].inactive
      BY RouteFacts
    <3>3. Counted(p)
      BY DEF OutcomeInv
    <3> HIDE DEF Count
    <3> QED
      BY <1>1, <2>4, <3>1, <3>2, <3>3 DEF Counted, Kept
  <2> QED
    BY <1>1, <2>3, <2>4
<1> QED
  BY <1>1, <1>2, <1>3 DEF OutcomeInv, Always

\* A task that has told its outcome.
LEMMA HasToldKeeps ==
  ASSUME NEW t \in Thread, RouteInv, OutcomeInv, Always, HasTold(t)
  PROVE  OutcomeInv'
<1> DEFINE q == at[t].item
<1>1. /\ Tells(t) /\ ~Tells(t)' /\ told \in [Pending -> Seq(Text)]
      /\ \A u \in Thread : Decides(u)' => Decides(u) /\ at'[u] = at[u]
      /\ \A p \in Pending : Kept(p)
  BY RouteFacts DEF HasTold
<1>2. /\ q \in Pending /\ item[q].of # NoOne /\ item[q].inactive
      /\ at[t].text = "none" \/ Truthful(q, at[t].text)
  BY <1>1, RouteFacts DEF OutcomeInv, Truths
<1>3. /\ LiveOnce' /\ NoticedOrClosed' /\ Ahead' /\ OneTeller'
      /\ \A u \in Thread : Tells(u)' => StillTells(u) /\ u # t
  BY <1>1, CalmKeeps DEF HasTold, Always
<1>4. /\ \A p \in Pending : p # q => told'[p] = told[p]
      /\ IF at[t].text = "none" THEN told'[q] = told[q] ELSE told'[q] = Append(told[q], at[t].text)
  BY <1>1, <1>2 DEF HasTold
<1>5. Truths'
  <2>1. \A p \in Pending : \A i \in 1..Len(told'[p]) : Truthful(p, told[p][i])'
    <3>1. \/ told' = told
          \/ told' = [told EXCEPT ![q] = Append(@, at[t].text)] /\ Truthful(q, at[t].text)
      BY <1>2 DEF HasTold
    <3>2. \A p \in Pending : item[p].of # NoOne => item'[p].of = item[p].of
      BY <1>1 DEF Kept
    <3> HIDE DEF q
    <3> QED
      BY <1>2, <3>1, <3>2, ToldTrue DEF Always
  <2> QED
    BY <1>3, <2>1 DEF Truths, StillTells
<1>6. ASSUME NEW p \in Pending PROVE Counted(p)'
  <2>1. Len(told[p]) \in Nat /\ told[p] \in Seq(Text) /\ Counted(p) /\ Kept(p)
    BY <1>1, RouteFacts DEF OutcomeInv
  <2>2. Busy(p)' => Busy(p)
    BY <1>1, Numbers DEF Busy
  <2>3. Count(p)' <= Count(p) /\ Count(p) \in Nat /\ Count(p)' \in Nat
    <3>1. Count(p) = Len(told[p]) \/ (Speaks(p) /\ Count(p) = Len(told[p]) + 1)
      BY CountIs
    <3>2. CASE p = q
      <4>1. ~Speaks(p)'
        BY <1>1, <1>3, <3>2 DEF OutcomeInv, OneTeller, Speaks, StillTells
      <4>2. Count(p)' = Len(told'[p]) /\ Len(told'[p]) \in Nat
        <5>1. told'[p] \in Seq(Text) \/ told'[p] = Append(told[p], at[t].text)
          BY <1>4, <2>1, <3>2
        <5>2. Len(told'[p]) \in Nat
          BY <2>1, <5>1
        <5> QED
          BY <4>1, <5>2 DEF Count
      <4>3. CASE at[t].text = "none"
        BY <1>4, <2>1, <3>1, <3>2, <4>2, <4>3
      <4>4. CASE at[t].text # "none"
        <5>1. Speaks(p)
          BY <1>1, <3>2, <4>4 DEF Speaks
        <5>2. Count(p) = Len(told[p]) + 1
          BY <5>1, <2>1 DEF Count
        <5>3. Len(told'[p]) = Len(told[p]) + 1
          BY <1>4, <2>1, <3>2, <4>4
        <5> QED
          BY <2>1, <4>2, <5>2, <5>3
      <4> QED
        BY <4>3, <4>4
    <3>3. CASE p # q
      <4>1. Speaks(p)' => Speaks(p)
        BY <1>3 DEF Speaks, StillTells
      <4>2. Len(told'[p]) = Len(told[p])
        BY <1>4, <3>3
      <4>3. CASE Speaks(p)'
        BY <2>1, <4>1, <4>2, <4>3 DEF Count
      <4>4. CASE ~Speaks(p)'
        <5>1. Count(p)' = Len(told[p])
          BY <2>1, <4>2, <4>4 DEF Count
        <5> QED
          BY <2>1, <3>1, <5>1
      <4> QED
        BY <4>3, <4>4
    <3> QED
      BY <3>2, <3>3
  <2>4. ~item[p].inactive => told'[p] = told[p]
    BY <1>2, <1>4
  <2> HIDE DEF Count
  <2> QED
    BY <2>1, <2>2, <2>3, <2>4 DEF Counted, Kept
<1> QED
  BY <1>3, <1>5, <1>6 DEF OutcomeInv, Always

\* The outcome of the closing is told at once.
LEMMA TellsClosingKeeps ==
  ASSUME NEW p \in Pending, NEW text, RouteInv, OutcomeInv, Always, TellsClosing(p, text)
  PROVE  OutcomeInv'
<1>1. /\ LiveOnce' /\ NoticedOrClosed' /\ Ahead' /\ OneTeller'
      /\ \A t \in Thread : Tells(t)' => StillTells(t)
      /\ \A q \in Pending : Busy(q)' => Busy(q) \/ ~item[q].inactive
      /\ \A q \in Pending : Kept(q)
      /\ item[p].closing # "no" /\ item[p].inactive /\ ~item[p].notified /\ item'[p].notified
      /\ told \in [Pending -> Seq(Text)]
      /\ told' = [told EXCEPT ![p] = Append(@, text)]
  BY CalmKeeps, RouteFacts DEF TellsClosing, Always
<1>2. Truths'
  <2>1. \A q \in Pending : \A i \in 1..Len(told'[q]) : Truthful(q, told[q][i])'
    BY <1>1, ToldTrue DEF TellsClosing, Always, Kept
  <2> QED
    BY <1>1, <2>1 DEF Truths, StillTells
<1>3. ASSUME NEW q \in Pending PROVE Counted(q)'
  <2>1. Len(told[q]) \in Nat /\ told[q] \in Seq(Text) /\ Counted(q) /\ Kept(q)
    BY <1>1 DEF OutcomeInv
  <2>2. /\ q = p => Len(told'[q]) = Len(told[q]) + 1
        /\ q # p => Len(told'[q]) = Len(told[q])
    <3>1. CASE q = p
      BY <1>1, <2>1, <3>1
    <3>2. CASE q # p
      BY <1>1, <2>1, <3>2
    <3> QED
      BY <3>1, <3>2
  <2>3. /\ q = p => Count(q)' <= Count(q) + 1
        /\ q # p => Count(q)' <= Count(q)
        /\ Count(q) \in Nat /\ Count(q)' \in Nat
    <3>1. Speaks(q)' => Speaks(q)
      BY <1>1 DEF Speaks, StillTells
    <3>2. CASE Speaks(q)'
      <4>1. Count(q)' = Len(told'[q]) + 1
        BY <3>2 DEF Count
      <4>2. Count(q) = Len(told[q]) + 1
        BY <3>1, <3>2, CountIs
      <4> QED
        BY <2>1, <2>2, <4>1, <4>2
    <3>3. CASE ~Speaks(q)'
      <4>1. Count(q)' = Len(told'[q])
        BY <2>1, <2>2, <3>3 DEF Count
      <4>2. Count(q) = Len(told[q]) \/ Count(q) = Len(told[q]) + 1
        BY CountIs
      <4> QED
        BY <2>1, <2>2, <4>1, <4>2
    <3> QED
      BY <3>2, <3>3
  <2> HIDE DEF Count
  <2>4. CASE q = p
    BY <1>1, <2>1, <2>3, <2>4 DEF Counted, Kept
  <2>5. CASE q # p
    <3>1. told'[q] = told[q]
      BY <1>1, <2>5
    <3>2. item[q].closing # "no" => item[q].inactive
      BY RouteFacts
    <3> QED
      BY <1>1, <2>1, <2>3, <2>5, <3>1, <3>2 DEF Counted, Kept
  <2> QED
    BY <2>4, <2>5
<1> QED
  BY <1>1, <1>2, <1>3 DEF OutcomeInv, Always

\* The route is closed.
LEMMA ClosesKeeps ==
  ASSUME RouteInv, OutcomeInv, Always, Closes
  PROVE  OutcomeInv'
<1>1. /\ told' = told /\ at' = at /\ route' = <<>> /\ AskFinal
      /\ \A q \in Pending :
           /\ item'[q].of = item[q].of /\ item'[q].behind = item[q].behind
           /\ ~In(route, q) => item'[q] = item[q]
           /\ In(route, q) => item'[q].inactive /\ item'[q].closing # "no"
           /\ In(route, q) <=> item[q].of # NoOne /\ ~item[q].inactive
           /\ item[q].closing # "no" => item[q].inactive
  BY RouteFacts DEF Closes, Always
<1>2. \A q \in Pending : item[q].inactive => ~In(route, q) /\ item'[q] = item[q]
  BY <1>1
<1>3. \A t \in Thread : Tells(t) => /\ at[t].item \in Pending /\ item[at[t].item].of # NoOne
                                   /\ item'[at[t].item] = item[at[t].item]
  BY <1>2, RouteFacts
<1>4. LiveOnce'
  BY <1>1 DEF OutcomeInv, LiveOnce
<1>5. NoticedOrClosed'
  <2>1. \A r \in Reply : Decides(r) => at[r].item \in Pending
    BY RouteFacts
  <2> QED
    BY <1>1, <1>2, <2>1 DEF OutcomeInv, NoticedOrClosed, Decides
<1>6. Ahead'
  BY <1>1 DEF Ahead, In
<1>7. Truths'
  <2>1. ASSUME NEW t \in Thread, Tells(t)', at'[t].text # "none"
        PROVE  Truthful(at[t].item, at[t].text)'
    <3>1. Tells(t)
      BY <1>1, <2>1 DEF Tells
    <3> QED
      BY <1>1, <1>3, <2>1, <3>1, TruthStays DEF OutcomeInv, Truths, Truthful
  <2>2. ASSUME NEW p \in Pending, NEW i \in 1..Len(told'[p])
        PROVE  Truthful(p, told[p][i])'
    <3>1. told[p] # <<>> /\ i \in 1..Len(told[p])
      BY <1>1, <2>2
    <3>2. item[p].of # NoOne
      BY <3>1, RouteFacts
    <3> QED
      BY <1>1, <2>2, <3>2, ToldTrue
  <2> QED
    BY <2>1, <2>2 DEF Truths
<1>8. OneTeller'
  <2>1. \A t \in Thread : Tells(t)' <=> Tells(t)
    BY <1>1 DEF Tells
  <2> QED
    BY <1>1, <1>3, <2>1, Numbers DEF OutcomeInv, OneTeller
<1>9. ASSUME NEW p \in Pending PROVE Counted(p)'
  <2>1. /\ Speaks(p)' <=> Speaks(p)
        /\ Busy(p)' <=> Busy(p)
    BY <1>1 DEF Speaks, Busy, Tells, Decides
  <2>2. Count(p)' = Count(p)
    BY <1>1, <2>1 DEF Count
  <2>3. Counted(p)
    BY DEF OutcomeInv
  <2> HIDE DEF Count
  <2>4. CASE ~In(route, p)
    <3>1. item'[p] = item[p]
      BY <1>1, <2>4
    <3> QED
      BY <1>1, <2>1, <2>2, <2>3, <3>1 DEF Counted
  <2>5. CASE In(route, p)
    <3>1. told[p] = <<>>
      BY <1>1, <2>3, <2>5 DEF Counted
    <3>2. ~Speaks(p)
      BY <1>1, <2>5, RouteFacts DEF Speaks
    <3>3. Count(p) = 0
      BY <3>1, <3>2, CountIs
    <3> QED
      BY <1>1, <2>2, <2>5, <3>3 DEF Counted
  <2> QED
    BY <2>4, <2>5
<1> QED
  BY <1>4, <1>5, <1>6, <1>7, <1>8, <1>9 DEF OutcomeInv, Always

\* An entry leaves the route.
LEMMA LeavesKeeps ==
  ASSUME NEW t \in Thread, NEW p \in Pending, RouteInv, OutcomeInv, Always, Leaves(t, p)
  PROVE  OutcomeInv'
<1>1. /\ told' = told /\ item[p].of # NoOne /\ ~item[p].barrier /\ AskFinal
      /\ \A q \in Pending :
           /\ item'[q].of = item[q].of /\ item'[q].behind = item[q].behind
           /\ item'[q].inactive <=> item[q].inactive \/ q = p
           /\ item[q].notified => item'[q].notified
           /\ item'[q].closing = item[q].closing
           /\ In(route', q) <=> In(route, q) /\ q # p
      /\ \A u \in Thread \ {t} : at'[u] = at[u]
      /\ ~Decides(t)' /\ ~Tells(t)
  BY DEF Leaves, Always
<1>2. \/ ~Tells(t)' /\ (t = Handler => ~item[p].presented)
      \/ /\ Tells(t)' /\ at'[t].item = p /\ at'[t].next = NextOf(p)
         /\ Truthful(p, at'[t].text)
         /\ IF t = Handler THEN item[p].sending \/ (item[p].presented /\ item'[p].notified)
            ELSE ~item[p].notified
  BY DEF Leaves
<1>3. \/ t = Handler /\ ~item[p].inactive
      \/ t \in Reply /\ Decides(t) /\ at[t].item = p
  BY DEF Leaves
<1>4. \A u \in Thread : u # t => /\ Tells(u)' <=> Tells(u)
                                /\ Decides(u)' <=> Decides(u)
  BY <1>1 DEF Tells, Decides
<1>5. ASSUME NEW u \in Thread, u # t, Tells(u)
      PROVE  /\ at[u].item \in Pending /\ item[at[u].item].of # NoOne /\ item[at[u].item].inactive
             /\ at[u].next \in Pending \cup {NoOne} /\ at[u].next # p
             /\ Tells(t)' => at[u].item # p
  <2>1. /\ at[u].item \in Pending /\ item[at[u].item].of # NoOne /\ item[at[u].item].inactive
        /\ at[u].next \in Pending \cup {NoOne} /\ at[u].next # p
    BY <1>1, <1>5, RouteFacts, Numbers
  <2>2. ASSUME Tells(t)', at[u].item = p PROVE FALSE
    <3>1. t \in Reply /\ Decides(t) /\ at[t].item = p /\ ~item[p].notified
      BY <1>2, <1>3, <2>1, <2>2, Numbers
    <3>2. item[p].closing # "no"
      BY <2>1, <2>2, <3>1 DEF OutcomeInv, NoticedOrClosed
    <3>3. CASE u = Handler
      BY <1>5, <2>2, <3>2, <3>3 DEF OutcomeInv, OneTeller
    <3>4. CASE u \in Reply
      BY <1>5, <2>2, <3>1, <3>4, RouteFacts
    <3> QED
      BY <3>3, <3>4, Numbers
  <2> QED
    BY <2>1, <2>2
<1>6. LiveOnce'
  BY <1>1 DEF OutcomeInv, LiveOnce
<1>7. NoticedOrClosed'
  <2> SUFFICES ASSUME NEW r \in Reply, Decides(r)', item'[at'[r].item].inactive
               PROVE  item'[at'[r].item].notified \/ item'[at'[r].item].closing # "no"
    BY DEF NoticedOrClosed
  <2>1. r # t /\ r \in Thread /\ at'[r] = at[r] /\ Decides(r)
    <3>1. r # t
      BY <1>1 DEF Decides
    <3> QED
      BY <1>1, <3>1, Numbers DEF Decides
  <2>2. at[r].item \in Pending /\ item[at[r].item].presented
    BY <2>1, RouteFacts
  <2>3. CASE at[r].item # p
    BY <1>1, <2>1, <2>2, <2>3 DEF OutcomeInv, NoticedOrClosed
  <2>4. CASE at[r].item = p
    <3>1. t = Handler
      BY <1>3, <2>1, <2>4, RouteFacts
    <3>2. ~item[p].sending
      BY <2>2, <2>4, RouteFacts
    <3>3. item'[p].notified
      BY <1>2, <2>2, <2>4, <3>1, <3>2
    <3> QED
      BY <2>1, <2>4, <3>3
  <2> QED
    BY <2>3, <2>4
<1>8. Ahead'
  <2> SUFFICES ASSUME NEW u \in Thread, Tells(u)', NEW q \in Pending, In(route', q),
                      at'[u].item \in item'[q].behind
               PROVE  In(route', at'[u].next)
    BY DEF Ahead
  <2>1. In(route, q) /\ q # p
    BY <1>1
  <2>2. CASE u # t
    <3>1. Tells(u) /\ at'[u] = at[u]
      BY <1>1, <2>2 DEF Tells
    <3>2. In(route, at[u].next)
      BY <1>1, <2>1, <3>1 DEF OutcomeInv, Ahead
    <3>3. at[u].next \in Pending /\ at[u].next # p
      BY <1>5, <2>2, <3>1, <3>2, RouteFacts
    <3> QED
      BY <1>1, <3>1, <3>2, <3>3
  <2>3. CASE u = t
    <3>1. at'[t].item = p /\ at'[t].next = NextOf(p) /\ p \in item[q].behind
      BY <1>1, <1>2, <2>3
    <3>2. HeadOf(route, p)
      <4>1. item[p].closing = "no"
        BY <2>1, <3>1, RouteFacts
      <4>2. item[p].sending \/ item[p].presented
        BY <1>2, <1>3, <2>3, RouteFacts
      <4>3. ~item[p].inactive
        <5>1. CASE t = Handler
          BY <1>3, <5>1, Numbers
        <5>2. CASE t # Handler
          BY <1>2, <1>3, <2>3, <4>1, <5>2 DEF OutcomeInv, NoticedOrClosed
        <5> QED
          BY <5>1, <5>2
      <4> QED
        BY <1>1, <4>2, <4>3, RouteFacts
    <3> QED
      BY <2>3, <3>1, <3>2 DEF Leaves
  <2> QED
    BY <2>2, <2>3
<1>9. Truths'
  <2>1. ASSUME NEW u \in Thread, Tells(u)', at'[u].text # "none"
        PROVE  Truthful(at[u].item, at[u].text)'
    <3>1. CASE u = t
      BY <1>1, <1>2, <2>1, <3>1, TruthStays DEF Truthful
    <3>2. CASE u # t
      <4>1. Tells(u) /\ at'[u] = at[u]
        BY <1>1, <2>1, <3>2 DEF Tells
      <4> QED
        BY <1>1, <1>5, <2>1, <3>2, <4>1, TruthStays DEF OutcomeInv, Truths, Truthful
    <3> QED
      BY <3>1, <3>2
  <2>2. ASSUME NEW q \in Pending, NEW i \in 1..Len(told'[q])
        PROVE  Truthful(q, told[q][i])'
    <3>1. told[q] # <<>> /\ i \in 1..Len(told[q])
      BY <1>1, <2>2
    <3>2. item[q].of # NoOne
      BY <3>1, RouteFacts
    <3> QED
      BY <1>1, <2>2, <3>2, ToldTrue
  <2> QED
    BY <2>1, <2>2 DEF Truths
<1>10. OneTeller'
  <2>1. ASSUME NEW u \in Thread, NEW w \in Thread, Tells(u)', Tells(w)', at'[u].item = at'[w].item
        PROVE  u = w
    <3>1. ASSUME NEW v \in Thread, v # t, Tells(v)'
          PROVE  Tells(v) /\ at'[v] = at[v] /\ (Tells(t)' => at[v].item # p /\ at'[t].item = p)
      <4>1. Tells(v) /\ at'[v] = at[v]
        BY <1>1, <3>1 DEF Tells
      <4> QED
        BY <1>2, <1>5, <3>1, <4>1
    <3>2. CASE u # t /\ w # t
      BY <2>1, <3>1, <3>2 DEF OutcomeInv, OneTeller
    <3>3. CASE u = t /\ w # t
      BY <2>1, <3>1, <3>3
    <3>4. CASE u # t /\ w = t
      BY <2>1, <3>1, <3>4
    <3> QED
      BY <3>2, <3>3, <3>4
  <2>2. Tells(Handler)' => item'[at'[Handler].item].closing = "no"
    <3>1. CASE t = Handler
      <4>1. ~item[p].inactive
        BY <1>3, <3>1, Numbers
      <4>2. item[p].closing = "no"
        BY <4>1, RouteFacts
      <4> QED
        BY <1>1, <1>2, <3>1, <4>2
    <3>2. CASE t # Handler
      <4> SUFFICES ASSUME Tells(Handler)' PROVE item'[at'[Handler].item].closing = "no"
        OBVIOUS
      <4>1. Tells(Handler) /\ at'[Handler] = at[Handler] /\ at[Handler].item \in Pending
        <5>1. Tells(Handler) /\ at'[Handler] = at[Handler]
          BY <1>1, <3>2, Numbers DEF Tells
        <5> QED
          BY <1>5, <3>2, <5>1, Numbers
      <4> QED
        BY <1>1, <4>1 DEF OutcomeInv, OneTeller
    <3> QED
      BY <3>1, <3>2
  <2> QED
    BY <2>1, <2>2 DEF OneTeller
<1>11. ASSUME NEW q \in Pending PROVE Counted(q)'
  <2>1. Counted(q) /\ Count(q) \in Nat /\ Len(told[q]) \in Nat
    BY CountIs DEF OutcomeInv
  <2>2. Busy(q)' => Busy(q) /\ ~(t \in Reply /\ Decides(t) /\ at[t].item = q)
    <3> SUFFICES ASSUME Busy(q)' PROVE Busy(q) /\ ~(t \in Reply /\ Decides(t) /\ at[t].item = q)
      OBVIOUS
    <3>1. PICK r \in Reply : at'[r].pc \in Deciding /\ at'[r].item = q
      BY DEF Busy, Decides
    <3>2. r # t
      BY <1>1, <3>1 DEF Decides
    <3>3. Decides(r) /\ at[r].item = q
      BY <1>1, <3>1, <3>2, Numbers DEF Decides
    <3> QED
      BY <3>2, <3>3, RouteFacts DEF Busy
  <2>3. Speaks(q)' => Speaks(q) \/ (q = p /\ Tells(t)')
    <3> SUFFICES ASSUME Speaks(q)', ~(q = p /\ Tells(t)') PROVE Speaks(q)
      OBVIOUS
    <3>1. PICK u \in Thread : Tells(u)' /\ at'[u].item = q /\ at'[u].text # "none"
      BY DEF Speaks
    <3>2. u # t
      BY <1>2, <3>1
    <3>3. Tells(u) /\ at'[u] = at[u]
      BY <1>1, <3>1, <3>2 DEF Tells
    <3> QED
      BY <3>1, <3>3 DEF Speaks
  <2>4. /\ Count(q)' \in Nat /\ Count(q)' <= Count(q) + 1
        /\ ~(q = p /\ Tells(t)') => Count(q)' <= Count(q)
    <3>1. CASE Speaks(q)'
      <4>1. Count(q)' = Len(told[q]) + 1
        BY <1>1, <3>1 DEF Count
      <4>2. Count(q) = Len(told[q]) \/ Count(q) = Len(told[q]) + 1
        BY CountIs
      <4>3. ~(q = p /\ Tells(t)') => Count(q) = Len(told[q]) + 1
        BY <2>3, <3>1, CountIs
      <4> QED
        BY <2>1, <4>1, <4>2, <4>3
    <3>2. CASE ~Speaks(q)'
      <4>1. Count(q)' = Len(told[q])
        BY <1>1, <2>1, <3>2 DEF Count
      <4>2. Count(q) = Len(told[q]) \/ Count(q) = Len(told[q]) + 1
        BY CountIs
      <4> QED
        BY <2>1, <4>1, <4>2
    <3> QED
      BY <3>1, <3>2
  <2> HIDE DEF Count
  <2>5. CASE q # p
    BY <1>1, <2>1, <2>2, <2>4, <2>5 DEF Counted
  <2>6. CASE q = p /\ ~item[p].inactive
    <3>1. told[p] = <<>> /\ ~Speaks(p) /\ item[p].closing = "no"
      BY <2>1, <2>6, RouteFacts DEF Counted, Speaks
    <3>2. Count(p) = 0
      BY <3>1, CountIs
    <3> QED
      BY <1>1, <2>4, <2>6, <3>1, <3>2 DEF Counted
  <2>7. CASE q = p /\ item[p].inactive
    <3>1. t \in Reply /\ Decides(t) /\ at[t].item = p /\ Busy(p) /\ ~Busy(p)' /\ t # Handler
      BY <1>3, <2>2, <2>7, Numbers DEF Busy
    <3>2. CASE Tells(t)'
      <4>1. ~item[p].notified /\ item[p].closing # "no"
        BY <1>2, <2>7, <3>1, <3>2 DEF OutcomeInv, NoticedOrClosed
      <4>2. Count(p) = 0
        BY <2>1, <2>7, <3>1, <4>1 DEF Counted
      <4> QED
        BY <1>1, <2>4, <2>7, <3>1, <4>1, <4>2 DEF Counted
    <3>3. CASE ~Tells(t)'
      BY <1>1, <2>1, <2>4, <2>7, <3>1, <3>3 DEF Counted
    <3> QED
      BY <3>2, <3>3
  <2> QED
    BY <2>5, <2>6, <2>7
<1> QED
  BY <1>6, <1>7, <1>8, <1>9, <1>10, <1>11 DEF OutcomeInv, Always

-----------------------------------------------------------------------------
(* Which step is of which kind                                              *)

\* A prompt is sent only for an entry of the route.
Starts == \A q \in Pending : item'[q].sending /\ ~item[q].sending => In(route', q)

\* A decision is submitted only for the head of the route, as the chat knows it.
Submits ==
  \A r \in Reply : at[r].pc # "submit" /\ at'[r].pc = "submit" =>
    /\ at'[r].item = at[r].claimed /\ at[r].shown /\ item[at'[r].item].delivered
    /\ route # <<>> /\ Head(route) = at'[r].item

StepKind ==
  \/ Quiet \/ Closes
  \/ \E t \in Thread : HasTold(t)
  \/ \E p \in Pending : \E text \in Text : TellsClosing(p, text)
  \/ \E t \in Thread : \E p \in Pending : Leaves(t, p)

Well == Always /\ Starts /\ Submits /\ StepKind

\* Entries that were created stay the entries of their approvals.
SameApprovals == \A q \in Pending : item[q].of # NoOne => item'[q].of = item[q].of

\* Events stay decided while one is handled and one is added.
LEMMA EventsKept ==
  ASSUME NEW base, NEW e \in Events, RouteInv, OutcomeInv, AskFinal, SameApprovals,
         base = stream \/ (stream # <<>> /\ base = Tail(stream)),
         stream' = base \/ stream' = Append(base, e),
         e.kind = "resolved" => ask'[e.ask] \in Decision,
         at'[Handler].pc = "settle" => at'[Handler] = at[Handler]
  PROVE  EventsDecided'
<1>1. /\ stream \in Seq(Events) /\ ask \in [Approval -> {"unasked", "open"} \cup Decision]
  BY DEF RouteInv, Types
<1>2. base \in Seq(Events) /\ \A i \in 1..Len(base) : \E j \in 1..Len(stream) : base[i] = stream[j]
  <2>1. CASE base = stream
    BY <1>1, <2>1
  <2>2. CASE stream # <<>> /\ base = Tail(stream)
    <3>1. /\ base \in Seq(Events) /\ Len(base) = Len(stream) - 1 /\ Len(stream) \in Nat
          /\ \A i \in 1..Len(base) : base[i] = stream[i + 1]
      BY <1>1, <2>2, HeadTailProperties
    <3> QED
      BY <3>1
  <2> QED
    BY <2>1, <2>2
<1>3. ASSUME NEW i \in 1..Len(stream'), stream'[i].kind = "resolved"
      PROVE  ask'[stream'[i].ask] \in Decision
  <2>1. \/ i \in 1..Len(base) /\ stream'[i] = base[i]
        \/ stream'[i] = e
    <3>1. CASE stream' = base
      BY <3>1
    <3>2. CASE stream' = Append(base, e)
      <4>1. /\ Len(stream') = Len(base) + 1 /\ Len(base) \in Nat
            /\ \A k \in 1..Len(base) : stream'[k] = base[k]
            /\ stream'[Len(base) + 1] = e
        BY <1>2, <3>2, AppendProperties
      <4>2. i \in 1..Len(base) \/ i = Len(base) + 1
        BY <4>1
      <4> QED
        BY <4>1, <4>2
    <3> QED
      BY <3>1, <3>2
  <2>2. CASE i \in 1..Len(base) /\ stream'[i] = base[i]
    <3>1. PICK j \in 1..Len(stream) : stream'[i] = stream[j]
      BY <1>2, <2>2
    <3>2. stream[j].kind = "resolved" /\ stream[j].ask \in Approval
      <4>1. stream[j] \in Events
        BY <1>1, ElementOfSeq
      <4> QED
        BY <1>3, <3>1, <4>1 DEF Events
    <3>3. ask[stream[j].ask] \in Decision
      BY <3>2 DEF OutcomeInv, EventsDecided
    <3>4. ask'[stream[j].ask] = ask[stream[j].ask]
      BY <3>2, <3>3 DEF AskFinal
    <3> QED
      BY <3>1, <3>3, <3>4
  <2>3. CASE stream'[i] = e
    BY <1>3, <2>3
  <2> QED
    BY <2>1, <2>2, <2>3
<1>4. at'[Handler].pc = "settle" => ask'[item'[at'[Handler].item].of] \in Decision
  <2> SUFFICES ASSUME at'[Handler].pc = "settle" PROVE ask'[item'[at'[Handler].item].of] \in Decision
    OBVIOUS
  <2>1. at'[Handler] = at[Handler] /\ at[Handler].pc = "settle"
    OBVIOUS
  <2>2. at[Handler].item \in Pending /\ item[at[Handler].item].of # NoOne
    BY <2>1, HandlerFree DEF Known
  <2>3. item[at[Handler].item].of \in Approval
    BY <2>2, RouteFacts
  <2> QED
    BY <2>1, <2>2, <2>3 DEF OutcomeInv, EventsDecided, AskFinal, SameApprovals
<1> QED
  BY <1>3, <1>4 DEF EventsDecided

\* Answers stay those of the harness where none is added.
LEMMA AnsweredKept ==
  ASSUME RouteInv, OutcomeInv, AskFinal, SameApprovals,
         \A q \in Pending : item'[q].closing \in {"accepted", "rejected"} =>
           item'[q].closing = item[q].closing,
         \A r \in Reply : at'[r].pc = "accepted" => at'[r] = at[r]
  PROVE  Answered'
<1>1. ASSUME NEW r \in Reply, at'[r].pc = "accepted"
      PROVE  at'[r].says = ask'[item'[at'[r].item].of]
  <2>1. at'[r] = at[r] /\ Decides(r) /\ at[r].pc = "accepted"
    BY <1>1 DEF Decides, Deciding
  <2>2. /\ at[r].item \in Pending /\ item[at[r].item].of # NoOne /\ at[r].says \in Decision
        /\ item[at[r].item].of \in Approval
    BY <2>1, RouteFacts
  <2> QED
    BY <2>1, <2>2 DEF OutcomeInv, Answered, AskFinal, SameApprovals
<1>2. ASSUME NEW q \in Pending, item'[q].closing \in {"accepted", "rejected"}
      PROVE  ask'[item'[q].of] = "rejected"
  <2>1. item[q].closing \in {"accepted", "rejected"} /\ item[q].closing # "no"
    BY <1>2
  <2>2. item[q].of # NoOne /\ item[q].of \in Approval
    BY <2>1, RouteFacts DEF Unused
  <2> QED
    BY <2>1, <2>2 DEF OutcomeInv, Answered, AskFinal, SameApprovals, Decision
<1> QED
  BY <1>1, <1>2 DEF Answered

\* A task that stays as it is goes on.
LEMMA Stays ==
  ASSUME NEW t \in Thread, RouteInv, at'[t] = at[t]
  PROVE  Goes(t)
<1>1. Tells(t)' => Tells(t)
  BY DEF Tells
<1>2. Decides(t)' => Decides(t)
  BY DEF Decides
<1>3. Decides(t) => at[t].item \in Pending /\ item[at[t].item].of # NoOne
  BY RouteFacts, Numbers
<1> QED
  BY <1>1, <1>2, <1>3 DEF Goes

Resting == {"idle", "coming", "waiting", "present", "shown", "settle", "done"}

\* One task at most moves, and none that tells or decides.
LEMMA QuietTask ==
  ASSUME NEW t \in Thread, RouteInv, OutcomeInv, AskFinal, EventsDecided', told' = told,
         \A u \in Thread \ {t} : at'[u] = at[u],
         at'[t] = at[t] \/ at'[t].pc \in Resting,
         \A q \in Pending : (Kept(q) /\ item'[q].closing = item[q].closing) \/ New(q),
         \A q, s \in Pending : New(q) /\ New(s) => q = s,
         \A q \in Pending : In(route', q) <=> In(route, q) \/ New(q),
         Starts
  PROVE  Well
<1>1. \A u \in Thread : Goes(u)
  <2>1. ASSUME at'[t].pc \in Resting PROVE Goes(t)
    BY <2>1 DEF Goes, Tells, Decides, Deciding, Resting
  <2> QED
    BY <2>1, Stays
<1>2. SameApprovals
  BY DEF SameApprovals, Kept, New
<1>3. Answered'
  <2>1. \A r \in Reply : at'[r].pc = "accepted" => at'[r] = at[r]
    BY Numbers DEF Resting
  <2>2. \A q \in Pending : item'[q].closing \in {"accepted", "rejected"} =>
           item'[q].closing = item[q].closing
    BY DEF New
  <2> QED
    BY <1>2, <2>1, <2>2, AnsweredKept
<1>4. Submits
  BY Numbers DEF Submits, Resting
<1> QED
  BY <1>1, <1>3, <1>4 DEF Well, Always, StepKind, Quiet, Calm

\* Entries and route stay as they are but for prompts on their way.
LEMMA KeptAll ==
  ASSUME \A q \in Pending : item'[q].of = item[q].of /\ item'[q].behind = item[q].behind
           /\ item'[q].inactive = item[q].inactive /\ item'[q].notified = item[q].notified
           /\ item'[q].closing = item[q].closing,
         route' = route, RouteInv
  PROVE  /\ \A q \in Pending : Kept(q) /\ item'[q].closing = item[q].closing
         /\ \A q, s \in Pending : New(q) /\ New(s) => q = s
         /\ \A q \in Pending : In(route', q) <=> In(route, q) \/ New(q)
         /\ SameApprovals
<1>1. \A q \in Pending : Kept(q) /\ item'[q].closing = item[q].closing
  BY DEF Kept
<1>2. \A q \in Pending : ~New(q)
  BY Numbers DEF New
<1> QED
  BY <1>1, <1>2 DEF SameApprovals

\* Any event will do where none is added.
LEMMA AnEvent == \E e \in Events : e.kind = "requested"
<1>1. Event("requested", 1) \in Events /\ Event("requested", 1).kind = "requested"
  BY BoundsAssumption DEF Event, Events, Approval
<1> QED
  BY <1>1

\* The harness and its socket.
LEMMA HarnessSideWell ==
  ASSUME RouteInv, OutcomeInv,
         \/ \E a \in Approval : AskFor(a) \/ SettledElsewhere(a)
         \/ Disconnect \/ Reconnect \/ QuestionMoves
  PROVE  Well
<1>1. /\ UNCHANGED <<route, item, at, told>>
      /\ ask \in [Approval -> {"unasked", "open"} \cup Decision] /\ stream \in Seq(Events)
  BY DEF AskFor, SettledElsewhere, Disconnect, Reconnect, QuestionMoves, RouteInv, Types
<1>2. AskFinal
  <2>1. ASSUME NEW a \in Approval, AskFor(a) \/ SettledElsewhere(a) PROVE AskFinal
    BY <1>1, <2>1 DEF AskFor, SettledElsewhere, Settles, AskFinal, Decision
  <2>2. CASE Disconnect \/ Reconnect \/ QuestionMoves
    BY <2>2 DEF Disconnect, Reconnect, QuestionMoves, AskFinal
  <2> QED
    BY <2>1, <2>2
<1>3. /\ \A q \in Pending : Kept(q) /\ item'[q].closing = item[q].closing
      /\ \A q, s \in Pending : New(q) /\ New(s) => q = s
      /\ \A q \in Pending : In(route', q) <=> In(route, q) \/ New(q)
      /\ SameApprovals
  BY <1>1, KeptAll
<1>4. EventsDecided'
  <2>1. ASSUME NEW a \in Approval, AskFor(a) PROVE EventsDecided'
    <3>1. /\ Event("requested", a) \in Events /\ Event("requested", a).kind = "requested"
          /\ stream' = stream \/ stream' = Append(stream, Event("requested", a))
      BY <2>1 DEF Event, Events, AskFor
    <3> QED
      BY <1>1, <1>2, <1>3, <3>1, EventsKept
  <2>2. ASSUME NEW a \in Approval, SettledElsewhere(a) PROVE EventsDecided'
    <3>1. PICK outcome \in Elsewhere : Settles(a, outcome)
      BY <2>2 DEF SettledElsewhere
    <3>2. outcome \in Decision /\ ask'[a] = outcome
      BY <1>1, <3>1, InputAssumption DEF Settles
    <3>3. /\ Event("resolved", a) \in Events /\ Event("resolved", a).ask = a
          /\ stream' = stream \/ stream' = Append(stream, Event("resolved", a))
      BY <3>1 DEF Event, Events, Settles
    <3> QED
      BY <1>1, <1>2, <1>3, <3>2, <3>3, EventsKept
  <2>3. CASE Reconnect
    <3> DEFINE O == {a \in Approval : ask[a] = "open"}
    <3>1. PICK s \in InOrder(O) : stream' = [i \in DOMAIN s |-> Event("requested", s[i])]
      BY <2>3 DEF Reconnect
    <3>2. s \in [1..Cardinality(O) -> O]
      BY DEF InOrder
    <3>3. Cardinality(O) \in Nat
      <4>1. IsFiniteSet(Approval)
        BY BoundsAssumption, FS_Interval DEF Approval
      <4> QED
        BY <4>1, FS_Subset, FS_CardinalityType
    <3>4. \A i \in 1..Len(stream') : stream'[i].kind = "requested"
      BY <3>1, <3>2, <3>3 DEF Event
    <3>5. at'[Handler].pc # "settle"
      BY <1>1, <2>3 DEF Reconnect
    <3> QED
      BY <3>4, <3>5 DEF EventsDecided
  <2>4. CASE Disconnect \/ QuestionMoves
    <3>1. stream' = stream
      BY <2>4 DEF Disconnect, QuestionMoves
    <3> QED
      BY <1>1, <1>2, <1>3, <3>1, AnEvent, EventsKept
  <2> QED
    BY <2>1, <2>2, <2>3, <2>4
<1>5. Starts
  BY <1>1 DEF Starts
<1> QED
  BY <1>1, <1>2, <1>3, <1>4, <1>5, Numbers, QuietTask

\* The events stay decided where the harness and its stream stay as they are.
LEMMA EventsSame ==
  ASSUME RouteInv, OutcomeInv, ask' = ask, stream' = stream, SameApprovals,
         at'[Handler].pc = "settle" => at'[Handler] = at[Handler]
  PROVE  AskFinal /\ EventsDecided'
<1>1. AskFinal
  BY DEF AskFinal
<1> QED
  BY <1>1, AnEvent, EventsKept

\* The harness settles an open approval.
LEMMA SettlesFinal ==
  ASSUME NEW a \in Approval, NEW outcome \in Decision, RouteInv, OutcomeInv,
         ask[a] = "open", Settles(a, outcome), SameApprovals,
         at'[Handler].pc = "settle" => at'[Handler] = at[Handler]
  PROVE  AskFinal /\ EventsDecided' /\ ask'[a] = outcome
<1>1. ask \in [Approval -> {"unasked", "open"} \cup Decision]
  BY DEF RouteInv, Types
<1>2. AskFinal /\ ask'[a] = outcome
  BY <1>1 DEF Settles, AskFinal, Decision
<1>3. /\ Event("resolved", a) \in Events /\ Event("resolved", a).ask = a
      /\ stream' = stream \/ stream' = Append(stream, Event("resolved", a))
  BY DEF Event, Events, Settles
<1> QED
  BY <1>2, <1>3, EventsKept

\* A task moves on, but neither tells nor decides.
LEMMA TaskRests ==
  ASSUME NEW t \in Thread, RouteInv, OutcomeInv, UNCHANGED <<ask, stream, route, item, told>>,
         \A u \in Thread \ {t} : at'[u] = at[u], at'[t].pc \in Resting \ {"settle"}
  PROVE  Well
<1>1. /\ \A q \in Pending : Kept(q) /\ item'[q].closing = item[q].closing
      /\ \A q, s \in Pending : New(q) /\ New(s) => q = s
      /\ \A q \in Pending : In(route', q) <=> In(route, q) \/ New(q)
      /\ SameApprovals
  BY KeptAll
<1>2. at'[Handler].pc = "settle" => at'[Handler] = at[Handler]
  BY Numbers
<1>3. AskFinal /\ EventsDecided'
  BY <1>1, <1>2, EventsSame
<1>4. Starts
  BY DEF Starts
<1> QED
  BY <1>1, <1>3, <1>4, QuietTask

\* Messages come, are claimed, put off and given up.
LEMMA MessagesWell ==
  ASSUME NEW r \in Reply, RouteInv, OutcomeInv,
         Send(r) \/ Claim(r) \/ PreflightFails(r) \/ QuestionFirst(r) \/ SubmitFailed(r)
  PROVE  Well
<1>1. at[r] \in Task /\ at \in [Thread -> Task] /\ r \in Thread
  BY ReplyFits
<1>2. UNCHANGED <<ask, stream, route, item, told>>
  BY DEF Send, Claim, PreflightFails, QuestionFirst, SubmitFailed
<1>3. /\ \A u \in Thread \ {r} : at'[u] = at[u]
      /\ at'[r].pc \in {"coming", "waiting", "done"}
  <2>1. CASE Send(r)
    <3>1. PICK says \in Says :
            at' = [at EXCEPT ![r] = [Idle EXCEPT !.pc = "coming", !.says = says]]
      BY <2>1 DEF Send
    <3> DEFINE a == [Idle EXCEPT !.pc = "coming", !.says = says]
    <3>2. a.pc = "coming" /\ at' = [at EXCEPT ![r] = a]
      BY <3>1, Constants DEF Task
    <3> HIDE DEF a
    <3> QED
      BY <1>1, <3>2
  <2>2. CASE Claim(r)
    <3>1. CASE question = "open" \/ route = <<>> \/ at[r].says = "stranger"
      BY <1>1, <2>2, <3>1, Constants DEF Claim
    <3>2. CASE ~(question = "open" \/ route = <<>> \/ at[r].says = "stranger")
      <4> DEFINE p == Head(route)
                 b == {q \in Reply : at[q].claimed = p}
                 a == [at[r] EXCEPT !.pc = "waiting", !.item = p, !.claimed = p, !.before = b,
                                    !.shown = item[p].presented, !.deferred = QuestionPending]
      <4>1. at' = [at EXCEPT ![r] = a]
        BY <2>2, <3>2 DEF Claim
      <4> HIDE DEF p, b
      <4>2. a.pc = "waiting"
        BY <1>1 DEF Task
      <4> HIDE DEF a
      <4> QED
        BY <1>1, <4>1, <4>2
    <3> QED
      BY <3>1, <3>2
  <2>3. CASE PreflightFails(r) \/ SubmitFailed(r)
    BY <1>1, <2>3, Constants DEF PreflightFails, SubmitFailed
  <2>4. CASE QuestionFirst(r)
    BY <1>1, <2>4, Constants DEF QuestionFirst, Task
  <2> QED
    BY <2>1, <2>2, <2>3, <2>4
<1> QED
  BY <1>1, <1>2, <1>3, TaskRests DEF Resting

\* #present changes nothing but the prompt it sends.
LEMMA PresentKeeps ==
  ASSUME NEW t \in Thread, NEW p \in Pending \cup {NoOne}, NEW it \in [Pending -> Entry],
         NEW rt \in Seq(Pending), at \in [Thread -> Task], Present(t, p, it, rt)
  PROVE  /\ \A q \in Pending :
              /\ item'[q].of = it[q].of /\ item'[q].behind = it[q].behind
              /\ item'[q].inactive = it[q].inactive /\ item'[q].notified = it[q].notified
              /\ item'[q].closing = it[q].closing
              /\ item'[q].sending /\ ~it[q].sending => HeadOf(rt, q) /\ ~it[q].barrier
         /\ \A u \in Thread \ {t} : at'[u] = at[u]
         /\ at'[t].pc \in Resting \ {"settle"}
<1>1. /\ Same(it) /\ \A q \in Pending : q # p => item'[q] = it[q]
      /\ \A u \in Thread \ {t} : at'[u] = at[u]
      /\ \/ at'[t] = Over(t) /\ item' = it
         \/ /\ Presentable(it, rt, p) /\ p \in Pending
            /\ \/ it[p].barrier /\ ~item'[p].sending /\ at'[t].pc = "present"
               \/ ~it[p].barrier /\ item'[p].sending /\ at'[t].pc = "shown"
  BY PresentDoes
<1>2. at'[t].pc \in Resting \ {"settle"}
  BY <1>1, Constants DEF Over, Resting
<1>3. ASSUME NEW q \in Pending, item'[q].sending, ~it[q].sending
      PROVE  HeadOf(rt, q) /\ ~it[q].barrier
  <2>1. q = p /\ Presentable(it, rt, p) /\ ~it[p].barrier
    BY <1>1, <1>3
  <2> QED
    BY <2>1 DEF Presentable, HeadOf
<1> QED
  BY <1>1, <1>2, <1>3 DEF Same

\* The head of a route is in it.
LEMMA HeadIn ==
  ASSUME NEW rt \in Seq(Pending), NEW q, HeadOf(rt, q)
  PROVE  In(rt, q)
<1>1. Len(rt) \in Nat /\ Len(rt) # 0 /\ rt[1] = q
  BY EmptySeq DEF HeadOf
<1> QED
  BY <1>1 DEF In

\* A task that asks for the prompt of an entry there is.
LEMMA PresentWell ==
  ASSUME NEW t \in Thread, NEW p \in Pending \cup {NoOne}, NEW base, RouteInv, OutcomeInv,
         Present(t, p, item, route), UNCHANGED <<ask, route, told>>,
         base = stream \/ (stream # <<>> /\ base = Tail(stream)), stream' = base
  PROVE  Well
<1>1. route \in Seq(Pending) /\ item \in [Pending -> Entry] /\ at \in [Thread -> Task]
  BY RouteFacts
<1>2. /\ \A q \in Pending :
           /\ item'[q].of = item[q].of /\ item'[q].behind = item[q].behind
           /\ item'[q].inactive = item[q].inactive /\ item'[q].notified = item[q].notified
           /\ item'[q].closing = item[q].closing
           /\ item'[q].sending /\ ~item[q].sending => HeadOf(route, q) /\ ~item[q].barrier
      /\ \A u \in Thread \ {t} : at'[u] = at[u]
      /\ at'[t].pc \in Resting \ {"settle"}
  BY <1>1, PresentKeeps, Zenon
<1>3. /\ \A q \in Pending : Kept(q) /\ item'[q].closing = item[q].closing
      /\ \A q, s \in Pending : New(q) /\ New(s) => q = s
      /\ \A q \in Pending : In(route', q) <=> In(route, q) \/ New(q)
      /\ SameApprovals
  BY <1>2, KeptAll
<1>4. Starts
  BY <1>1, <1>2, HeadIn DEF Starts
<1>5. AskFinal
  BY DEF AskFinal
<1>6. at'[Handler].pc = "settle" => at'[Handler] = at[Handler]
  BY <1>2, Numbers
<1>7. EventsDecided'
  BY <1>3, <1>5, <1>6, AnEvent, EventsKept
<1> QED
  BY <1>2, <1>3, <1>4, <1>5, <1>7, QuietTask

\* A task that waited for the barrier presents its entry.
LEMMA PresentResumesWell ==
  ASSUME NEW t \in Thread, RouteInv, OutcomeInv, PresentResumes(t)
  PROVE  Well
<1>1. at[t].item \in Pending \cup {NoOne}
  BY RouteFacts DEF Task
<1>2. Present(t, at[t].item, item, route) /\ UNCHANGED <<ask, stream, route, told>>
  BY DEF PresentResumes
<1> QED
  BY <1>1, <1>2, PresentWell

\* The task of a message goes on to submit its decision.
LEMMA SubmitsWell ==
  ASSUME NEW r \in Reply, RouteInv, OutcomeInv, UNCHANGED <<ask, stream, route, item, told>>,
         at[r].pc = "waiting", at' = [at EXCEPT ![r] = [@ EXCEPT !.pc = "submit"]],
         at[r].shown, item[at[r].item].presented, ~item[at[r].item].inactive
  PROVE  Well
<1> DEFINE p == at[r].item
           a == [at[r] EXCEPT !.pc = "submit"]
<1>1. at[r] \in Task /\ at \in [Thread -> Task] /\ r \in Thread /\ r # Handler
      /\ p \in Pending /\ item[p].of # NoOne /\ at[r].claimed = p
  BY ReplyFits DEF Claiming, Known, Task
<1>2. /\ at'[r] = a /\ a.pc = "submit" /\ a.item = p
      /\ \A u \in Thread \ {r} : at'[u] = at[u]
  BY <1>1 DEF Task
<1> HIDE DEF p, a
<1>3. /\ \A q \in Pending : Kept(q) /\ item'[q].closing = item[q].closing
      /\ \A q, s \in Pending : New(q) /\ New(s) => q = s
      /\ \A q \in Pending : In(route', q) <=> In(route, q) \/ New(q)
      /\ SameApprovals
  BY KeptAll
<1>4. ASSUME NEW u \in Thread PROVE Goes(u)
  <2>1. CASE u = r
    <3>1. at'[u].pc = "submit" /\ at'[u].item = p /\ at[u].item = p
          /\ p \in Pending /\ item[p].of # NoOne /\ ~item[p].inactive
      BY <1>1, <1>2, <2>1 DEF p
    <3> QED
      BY <3>1 DEF Goes, Tells
  <2>2. CASE u # r
    BY <1>2, <2>2, Stays
  <2> QED
    BY <2>1, <2>2
<1>5. /\ at'[Handler].pc = "settle" => at'[Handler] = at[Handler]
      /\ \A q \in Reply : at'[q].pc = "accepted" => at'[q] = at[q]
  BY <1>1, <1>2, Numbers
<1>6. Always
  <2>1. AskFinal /\ EventsDecided'
    BY <1>3, <1>5, EventsSame
  <2>2. Answered'
    BY <1>3, <1>5, <2>1, AnsweredKept
  <2> QED
    BY <2>1, <2>2 DEF Always
<1>7. Submits
  <2>1. item[p].presented /\ ~item[p].inactive
    BY DEF p
  <2>2. In(route, p)
    BY <1>1, <2>1, RouteFacts
  <2>3. HeadOf(route, p)
    BY <1>1, <2>1, <2>2, RouteFacts
  <2>4. item[p].delivered
    BY <1>1, <2>1 DEF RouteInv, Shape, Stages
  <2>5. ASSUME NEW q \in Reply, at[q].pc # "submit", at'[q].pc = "submit" PROVE q = r
    BY <1>2, <2>5, Numbers
  <2> QED
    BY <1>1, <1>2, <2>3, <2>4, <2>5 DEF Submits, HeadOf
<1>8. Starts
  BY DEF Starts
<1> QED
  BY <1>3, <1>4, <1>6, <1>7, <1>8 DEF Well, StepKind, Quiet, Calm

\* A message's task shows the prompt, submits its decision or ends.
LEMMA RunReplyWell ==
  ASSUME NEW r \in Reply, RouteInv, OutcomeInv, RunReply(r)
  PROVE  Well
<1>1. /\ at[r].pc = "waiting" /\ UNCHANGED <<ask, stream, route, told>>
  BY DEF RunReply
<1>2. at[r] \in Task /\ at \in [Thread -> Task] /\ r \in Thread /\ at[r].item \in Pending
  BY <1>1, ReplyFits DEF Claiming, Task
<1>3. CASE Present(r, at[r].item, item, route)
  BY <1>1, <1>2, <1>3, PresentWell
<1>4. CASE item' = item /\ at' = [at EXCEPT ![r] = Done]
  <2>1. at'[r].pc = "done" /\ \A u \in Thread \ {r} : at'[u] = at[u]
    BY <1>2, <1>4, Constants
  <2> QED
    BY <1>1, <1>2, <1>4, <2>1, TaskRests DEF Resting
<1>5. CASE /\ item' = item /\ at' = [at EXCEPT ![r] = [@ EXCEPT !.pc = "submit"]]
           /\ at[r].shown /\ item[at[r].item].presented /\ ~item[at[r].item].inactive
  BY <1>1, <1>5, SubmitsWell
<1> QED
  BY <1>3, <1>4, <1>5 DEF RunReply

\* The harness answers a message's decision, or the call fails.
LEMMA RespondWell ==
  ASSUME NEW r \in Reply, RouteInv, OutcomeInv, RespondArrives(r) \/ RespondFails(r)
  PROVE  Well
<1> DEFINE p == at[r].item
<1>1. /\ UNCHANGED <<route, item, told>> /\ at[r].pc = "submit"
      /\ \E pc \in {"accepted", "refused", "failed"} : at' = [at EXCEPT ![r].pc = pc]
      /\ \/ UNCHANGED <<ask, stream>> /\ at' # [at EXCEPT ![r].pc = "accepted"]
         \/ ask[item[p].of] = "open" /\ Settles(item[p].of, at[r].says)
  <2>1. at[r] \in Task /\ at \in [Thread -> Task] /\ r \in Thread
    BY ReplyFits
  <2>2. /\ [at EXCEPT ![r].pc = "refused"] # [at EXCEPT ![r].pc = "accepted"]
        /\ [at EXCEPT ![r].pc = "failed"] # [at EXCEPT ![r].pc = "accepted"]
    <3>1. /\ [at EXCEPT ![r].pc = "refused"][r].pc = "refused"
          /\ [at EXCEPT ![r].pc = "failed"][r].pc = "failed"
          /\ [at EXCEPT ![r].pc = "accepted"][r].pc = "accepted"
      BY <2>1 DEF Task
    <3> QED
      BY <3>1
  <2> QED
    BY <2>2 DEF RespondArrives, RespondFails
<1>2. PICK pc \in {"accepted", "refused", "failed"} : at' = [at EXCEPT ![r].pc = pc]
  BY <1>1
<1>3. /\ at[r] \in Task /\ at \in [Thread -> Task] /\ r \in Thread /\ r # Handler /\ Decides(r)
      /\ p \in Pending /\ item[p].of # NoOne /\ at[r].says \in Decision /\ item[p].of \in Approval
  BY <1>1, ReplyFits, RouteFacts DEF Decides, Deciding
<1>4. /\ at'[r].pc = pc /\ at'[r].item = p /\ at'[r].says = at[r].says
      /\ \A u \in Thread \ {r} : at'[u] = at[u]
  BY <1>2, <1>3 DEF Task
<1> HIDE DEF p
<1>5. /\ \A q \in Pending : Kept(q) /\ item'[q].closing = item[q].closing
      /\ \A q, s \in Pending : New(q) /\ New(s) => q = s
      /\ \A q \in Pending : In(route', q) <=> In(route, q) \/ New(q)
      /\ SameApprovals
  BY <1>1, KeptAll
<1>6. /\ at'[Handler].pc = "settle" => at'[Handler] = at[Handler]
  BY <1>3, <1>4, Numbers
<1>7. /\ AskFinal /\ EventsDecided'
      /\ pc = "accepted" => ask'[item[p].of] = at[r].says
  <2>1. CASE UNCHANGED <<ask, stream>> /\ at' # [at EXCEPT ![r].pc = "accepted"]
    BY <1>2, <1>5, <1>6, <2>1, EventsSame
  <2>2. CASE ask[item[p].of] = "open" /\ Settles(item[p].of, at[r].says)
    BY <1>3, <1>5, <1>6, <2>2, SettlesFinal
  <2> QED
    BY <1>1, <2>1, <2>2 DEF p
<1>8. ASSUME NEW u \in Thread PROVE Goes(u)
  <2>1. CASE u = r
    <3>1. ~(at'[u].pc \in {"notify", "confirm"}) /\ at'[u].item = at[u].item
          /\ at[u].item \in Pending /\ item[at[u].item].of # NoOne /\ Decides(u)
      BY <1>3, <1>4, <2>1 DEF p
    <3> QED
      BY <3>1 DEF Goes, Tells
  <2>2. CASE u # r
    BY <1>4, <2>2, Stays
  <2> QED
    BY <2>1, <2>2
<1>9. Answered'
  <2>1. ASSUME NEW q \in Reply, at'[q].pc = "accepted"
        PROVE  at'[q].says = ask'[item'[at'[q].item].of]
    <3>1. CASE q = r
      BY <1>1, <1>4, <1>7, <2>1, <3>1
    <3>2. CASE q # r
      <4>1. at'[q] = at[q] /\ Decides(q) /\ at[q].pc = "accepted"
        BY <1>4, <2>1, <3>2, Numbers DEF Decides, Deciding
      <4>2. /\ at[q].item \in Pending /\ item[at[q].item].of \in Approval
            /\ at[q].says \in Decision /\ at[q].says = ask[item[at[q].item].of]
        BY <4>1, RouteFacts DEF OutcomeInv, Answered
      <4> QED
        BY <1>1, <1>7, <4>1, <4>2 DEF AskFinal
    <3> QED
      BY <3>1, <3>2
  <2>2. ASSUME NEW q \in Pending, item'[q].closing \in {"accepted", "rejected"}
        PROVE  ask'[item'[q].of] = "rejected"
    <3>1. item[q].of \in Approval /\ ask[item[q].of] = "rejected"
      BY <1>1, <2>2, RouteFacts DEF OutcomeInv, Answered, Unused
    <3> QED
      BY <1>1, <1>7, <3>1 DEF AskFinal, Decision
  <2> QED
    BY <2>1, <2>2 DEF Answered
<1>10. Submits /\ Starts
  <2>1. \A q \in Reply : at'[q].pc = "submit" => at[q].pc = "submit"
    BY <1>4, Numbers
  <2> QED
    BY <1>1, <2>1 DEF Submits, Starts
<1> QED
  BY <1>1, <1>5, <1>7, <1>8, <1>9, <1>10 DEF Well, Always, StepKind, Quiet, Calm

\* One entry gets on: its place, its approval and whether it was closed stay.
LEMMA EntryKept ==
  ASSUME NEW p \in Pending, NEW e \in Entry, RouteInv, item' = [item EXCEPT ![p] = e],
         route' = route, e.of = item[p].of, e.inactive = item[p].inactive,
         e.behind = item[p].behind, item[p].notified => e.notified,
         e.closing = "no" <=> item[p].closing = "no",
         e.sending => item[p].sending
  PROVE  /\ \A q \in Pending : Kept(q)
         /\ \A q, s \in Pending : New(q) /\ New(s) => q = s
         /\ \A q \in Pending : In(route', q) <=> In(route, q) \/ New(q)
         /\ SameApprovals /\ Starts
         /\ item'[p] = e /\ \A q \in Pending \ {p} : item'[q] = item[q]
<1>1. item'[p] = e /\ \A q \in Pending \ {p} : item'[q] = item[q]
  BY RouteFacts
<1>2. \A q \in Pending : Kept(q)
  BY <1>1 DEF Kept
<1>3. \A q \in Pending : ~New(q)
  BY <1>2, Numbers DEF New, Kept
<1>4. SameApprovals
  BY <1>2 DEF SameApprovals, Kept
<1>5. Starts
  BY <1>1 DEF Starts
<1> QED
  BY <1>1, <1>2, <1>3, <1>4, <1>5

\* The prompt of an entry is in the chat, or was lost.
LEMMA PresentationWell ==
  ASSUME NEW p \in Pending, RouteInv, OutcomeInv, PresentationArrives(p) \/ PresentationFails(p)
  PROVE  Well
<1>1. /\ item[p].sending /\ UNCHANGED <<ask, stream, route>> /\ item[p] \in Entry
      /\ told \in [Pending -> Seq(Text)]
  BY RouteFacts DEF PresentationArrives, PresentationFails
<1>2. item[p].of # NoOne /\ item[p].of \in Approval
  BY <1>1, RouteFacts DEF Unused
<1> DEFINE late == item[p].inactive /\ ClosedOutcome(p) /\ ~item[p].notified
<1>3. \E e \in Entry :
        /\ item' = [item EXCEPT ![p] = e]
        /\ e.of = item[p].of /\ e.inactive = item[p].inactive
        /\ e.behind = item[p].behind /\ e.closing = item[p].closing
        /\ item[p].notified => e.notified
        /\ ~e.sending
        /\ \/ told' = told
           \/ late /\ e.notified /\ told' = [told EXCEPT ![p] = Append(@, item[p].closing)]
  <2>1. CASE PresentationArrives(p)
    <3> DEFINE n == item[p].notified \/ late \/ \E t \in Thread : ConfirmsFor(t, p)
               g == ~item[p].inactive
               e == [item[p] EXCEPT !.sending = FALSE, !.delivered = TRUE, !.presented = g,
                                    !.notified = n]
    <3>1. item' = [item EXCEPT ![p] = e]
      BY <1>1, <2>1 DEF PresentationArrives
    <3>2. told' = IF late THEN [told EXCEPT ![p] = Append(@, item[p].closing)] ELSE told
      BY <2>1 DEF PresentationArrives
    <3>3. n \in BOOLEAN /\ g \in BOOLEAN /\ (late => n = TRUE) /\ (item[p].notified => n = TRUE)
      BY <1>1 DEF Entry
    <3> HIDE DEF late, n, g
    <3>4. /\ e \in Entry /\ e.of = item[p].of /\ e.inactive = item[p].inactive
          /\ e.behind = item[p].behind
          /\ e.closing = item[p].closing /\ ~e.sending /\ e.notified = n
      BY <1>1, <3>3 DEF Entry
    <3> HIDE DEF e
    <3> QED
      BY <3>1, <3>2, <3>3, <3>4
  <2>2. CASE PresentationFails(p)
    <3> DEFINE e == [item[p] EXCEPT !.sending = FALSE]
    <3>1. item' = [item EXCEPT ![p] = e] /\ told' = told
      BY <1>1, <2>2 DEF PresentationFails
    <3>2. /\ e \in Entry /\ e.of = item[p].of /\ e.inactive = item[p].inactive
          /\ e.behind = item[p].behind /\ e.closing = item[p].closing /\ ~e.sending
          /\ e.notified = item[p].notified
      BY <1>1 DEF Entry
    <3> HIDE DEF e
    <3> QED
      BY <3>1, <3>2
  <2> QED
    BY <2>1, <2>2
<1>4. PICK e \in Entry :
        /\ item' = [item EXCEPT ![p] = e]
        /\ e.of = item[p].of /\ e.inactive = item[p].inactive
        /\ e.behind = item[p].behind /\ e.closing = item[p].closing
        /\ item[p].notified => e.notified
        /\ ~e.sending
        /\ \/ told' = told
           \/ late /\ e.notified /\ told' = [told EXCEPT ![p] = Append(@, item[p].closing)]
  BY <1>3
<1>5. /\ \A q \in Pending : Kept(q)
      /\ \A q, s \in Pending : New(q) /\ New(s) => q = s
      /\ \A q \in Pending : In(route', q) <=> In(route, q) \/ New(q)
      /\ SameApprovals /\ Starts
      /\ item'[p] = e /\ \A q \in Pending \ {p} : item'[q] = item[q]
  BY <1>1, <1>4, EntryKept
<1>6. \A t \in Thread :
        \/ at'[t] = at[t]
        \/ ShownTo(t, p) /\ at'[t] = Over(t)
        \/ /\ ConfirmsFor(t, p)
           /\ \/ at'[t] = [at[t] EXCEPT !.pc = "notify"]
              \/ at'[t] = [at[t] EXCEPT !.pc = "notify", !.text = "none"]
  <2>1. CASE PresentationArrives(p)
    BY <2>1 DEF PresentationArrives
  <2>2. CASE PresentationFails(p)
    BY <2>2 DEF PresentationFails
  <2> QED
    BY <2>1, <2>2
<1>7. ASSUME NEW t \in Thread
      PROVE  /\ Goes(t)
             /\ at'[t].pc \in {"settle", "accepted", "submit"} => at'[t] = at[t]
  <2>1. at[t] \in Task
    BY RouteFacts
  <2>2. CASE at'[t] = at[t]
    BY <2>2, Stays
  <2>3. CASE ShownTo(t, p) /\ at'[t] = Over(t)
    <3>1. at'[t].pc \in {"idle", "done"}
      BY <2>3, Constants DEF Over
    <3> QED
      BY <3>1 DEF Goes, Tells, Decides, Deciding
  <2>4. CASE /\ ConfirmsFor(t, p)
             /\ \/ at'[t] = [at[t] EXCEPT !.pc = "notify"]
                \/ at'[t] = [at[t] EXCEPT !.pc = "notify", !.text = "none"]
    <3>1. /\ at'[t].pc = "notify" /\ at'[t].item = at[t].item
          /\ at'[t].next = at[t].next /\ (at'[t].text = at[t].text \/ at'[t].text = "none")
          /\ at[t].pc = "confirm"
      BY <2>1, <2>4 DEF Task, ConfirmsFor
    <3> QED
      BY <3>1 DEF Goes, Tells, Decides, Deciding
  <2> QED
    BY <1>6, <2>2, <2>3, <2>4
<1>8. Calm
  <2>1. \A q \in Pending : Kept(q) \/ New(q)
    BY <1>5
  <2>2. \A t \in Thread : Goes(t)
    BY <1>7
  <2> QED
    BY <1>5, <2>1, <2>2 DEF Calm
<1>9. Always
  <2>1. AskFinal /\ EventsDecided'
    <3>1. at'[Handler].pc = "settle" => at'[Handler] = at[Handler]
      BY <1>7, Numbers
    <3> QED
      BY <1>1, <1>5, <3>1, EventsSame
  <2>2. /\ \A q \in Pending : item'[q].closing \in {"accepted", "rejected"} =>
             item'[q].closing = item[q].closing
        /\ \A r \in Reply : at'[r].pc = "accepted" => at'[r] = at[r]
    <3>1. \A r \in Reply : at'[r].pc = "accepted" => at'[r] = at[r]
      BY <1>7, Numbers
    <3> QED
      BY <1>4, <1>5, <3>1
  <2> QED
    BY <1>5, <2>1, <2>2, AnsweredKept DEF Always
<1>10. Submits
  <2>1. \A r \in Reply : at'[r].pc = "submit" => at'[r] = at[r]
    BY <1>7, Numbers
  <2> QED
    BY <2>1 DEF Submits
<1>11. CASE told' = told
  BY <1>5, <1>8, <1>9, <1>10, <1>11 DEF Well, StepKind, Quiet
<1>12. CASE late /\ e.notified /\ told' = [told EXCEPT ![p] = Append(@, item[p].closing)]
  <2>1. item[p].closing \in {"rejected", "resolved"} /\ ~item[p].notified
    BY <1>12 DEF ClosedOutcome
  <2>2. Truthful(p, item[p].closing)
    BY <2>1 DEF OutcomeInv, Answered, Truthful, Outcome, Decision
  <2>3. item[p].closing \in Text
    BY <2>1 DEF Text, Outcome, Decision
  <2>4. TellsClosing(p, item[p].closing)
    BY <1>2, <1>5, <1>8, <1>12, <2>1, <2>2 DEF TellsClosing
  <2> QED
    BY <1>5, <1>9, <1>10, <2>3, <2>4 DEF Well, StepKind
<1> QED
  BY <1>4, <1>11, <1>12

\* Nothing moves but one entry, and neither its approval nor what is known of it.
LEMMA NobodyMoves ==
  ASSUME RouteInv, at' = at
  PROVE  /\ \A t \in Thread : Goes(t)
         /\ Submits
         /\ at'[Handler].pc = "settle" => at'[Handler] = at[Handler]
         /\ \A r \in Reply : at'[r].pc = "accepted" => at'[r] = at[r]
<1>1. \A t \in Thread : Goes(t)
  BY Stays
<1>2. Submits
  BY DEF Submits
<1> QED
  BY <1>1, <1>2

\* The rejection of a closed entry arrives, or fails.
LEMMA CloseCallWell ==
  ASSUME NEW p \in Pending, RouteInv, OutcomeInv, CloseArrives(p) \/ CloseFails(p)
  PROVE  Well
<1>1. /\ item[p].closing = "asked" /\ UNCHANGED <<route, at, told>> /\ item[p] \in Entry
      /\ \E c \in {"accepted", "refused", "failed"} :
           /\ item' = [item EXCEPT ![p].closing = c]
           /\ \/ UNCHANGED <<ask, stream>> /\ c # "accepted"
              \/ ask[item[p].of] = "open" /\ Settles(item[p].of, "rejected")
  <2>1. item[p].closing = "asked" /\ UNCHANGED <<route, at, told>> /\ item[p] \in Entry
    BY RouteFacts DEF CloseArrives, CloseFails, env
  <2>2. CASE CloseArrives(p)
    <3>1. CASE ask[item[p].of] = "open"
      BY <2>1, <2>2, <3>1 DEF CloseArrives
    <3>2. CASE ask[item[p].of] # "open"
      BY <2>1, <2>2, <3>2 DEF CloseArrives
    <3> QED
      BY <3>1, <3>2
  <2>3. CASE CloseFails(p)
    BY <2>1, <2>3 DEF CloseFails
  <2> QED
    BY <2>2, <2>3
<1>2. PICK c \in {"accepted", "refused", "failed"} :
        /\ item' = [item EXCEPT ![p].closing = c]
        /\ \/ UNCHANGED <<ask, stream>> /\ c # "accepted"
           \/ ask[item[p].of] = "open" /\ Settles(item[p].of, "rejected")
  BY <1>1
<1> DEFINE e == [item[p] EXCEPT !.closing = c]
<1>3. /\ item' = [item EXCEPT ![p] = e]
      /\ e \in Entry /\ e.of = item[p].of /\ e.inactive = item[p].inactive
      /\ e.behind = item[p].behind /\ e.closing = c /\ e.notified = item[p].notified
      /\ e.sending = item[p].sending
  BY <1>1, <1>2 DEF Entry, Closing
<1> HIDE DEF e
<1>4. /\ \A q \in Pending : Kept(q)
      /\ \A q, s \in Pending : New(q) /\ New(s) => q = s
      /\ \A q \in Pending : In(route', q) <=> In(route, q) \/ New(q)
      /\ SameApprovals /\ Starts
      /\ item'[p] = e /\ \A q \in Pending \ {p} : item'[q] = item[q]
  <2>1. e.closing = "no" <=> item[p].closing = "no"
    BY <1>1, <1>3
  <2>2. item[p].notified => e.notified
    BY <1>3
  <2>3. e.sending => item[p].sending
    BY <1>3
  <2> QED
    BY <1>1, <1>3, <2>1, <2>2, <2>3, EntryKept
<1>5. item[p].of \in Approval
  BY <1>1, RouteFacts DEF Unused
<1>6. /\ AskFinal /\ EventsDecided'
      /\ c = "accepted" => ask'[item[p].of] = "rejected"
  <2>1. CASE UNCHANGED <<ask, stream>> /\ c # "accepted"
    BY <1>1, <1>4, <2>1, NobodyMoves, EventsSame
  <2>2. CASE ask[item[p].of] = "open" /\ Settles(item[p].of, "rejected")
    BY <1>1, <1>4, <1>5, <2>2, NobodyMoves, SettlesFinal DEF Decision
  <2> QED
    BY <1>2, <2>1, <2>2
<1>7. Answered'
  <2>1. ASSUME NEW r \in Reply, at'[r].pc = "accepted"
        PROVE  at'[r].says = ask'[item'[at'[r].item].of]
    <3>1. Decides(r) /\ at[r].pc = "accepted"
      BY <1>1, <2>1 DEF Decides, Deciding
    <3>2. /\ at[r].item \in Pending /\ item[at[r].item].of # NoOne /\ at[r].says \in Decision
          /\ item[at[r].item].of \in Approval /\ at[r].says = ask[item[at[r].item].of]
      BY <3>1, RouteFacts DEF OutcomeInv, Answered
    <3> QED
      BY <1>1, <1>4, <1>6, <3>2 DEF AskFinal, SameApprovals
  <2>2. ASSUME NEW q \in Pending, item'[q].closing \in {"accepted", "rejected"}
        PROVE  ask'[item'[q].of] = "rejected"
    <3>1. CASE q = p
      BY <1>3, <1>4, <1>6, <2>2, <3>1
    <3>2. CASE q # p
      <4>1. item'[q] = item[q]
        BY <1>4, <3>2
      <4>2. item[q].of \in Approval /\ ask[item[q].of] = "rejected"
        BY <2>2, <4>1, RouteFacts DEF OutcomeInv, Answered, Unused
      <4> QED
        BY <1>6, <4>1, <4>2 DEF AskFinal, Decision
    <3> QED
      BY <3>1, <3>2
  <2> QED
    BY <2>1, <2>2 DEF Answered
<1>8. Submits /\ \A t \in Thread : Goes(t)
  BY <1>1, NobodyMoves
<1>9. Calm
  <2>1. \A q \in Pending : Kept(q) \/ New(q)
    BY <1>4
  <2> QED
    BY <1>4, <1>8, <2>1 DEF Calm
<1> QED
  BY <1>1, <1>4, <1>6, <1>7, <1>8, <1>9 DEF Well, Always, StepKind, Quiet

\* The rejection was answered: the chat is told, unless it was.
LEMMA CloseAnsweredWell ==
  ASSUME NEW p \in Pending, RouteInv, OutcomeInv, CloseAnswered(p)
  PROVE  Well
<1> DEFINE c == IF item[p].closing = "accepted" THEN "rejected" ELSE "resolved"
           tells == (item[p].presented \/ item[p].delivered) /\ ~item[p].notified
           n == item[p].notified \/ tells
           e == [item[p] EXCEPT !.closing = c, !.notified = n]
<1>1. /\ item[p].closing \in {"accepted", "refused"} /\ UNCHANGED <<ask, stream, route, at>>
      /\ item[p] \in Entry /\ item[p].of # NoOne /\ item[p].of \in Approval
      /\ told \in [Pending -> Seq(Text)]
  BY RouteFacts DEF CloseAnswered, Unused
<1>2. /\ item' = [item EXCEPT ![p] = e]
      /\ told' = IF tells THEN [told EXCEPT ![p] = Append(@, c)] ELSE told
  BY <1>1 DEF CloseAnswered
<1>3. /\ n \in BOOLEAN /\ c \in Closing \ {"no"} /\ c \in Text /\ c \in Outcome
      /\ item[p].notified => n
      /\ tells => n /\ ~item[p].notified
      /\ c \in {"rejected", "accepted"} => item[p].closing = "accepted" /\ c = "rejected"
  BY <1>1 DEF Entry, Closing, Text, Outcome, Decision
<1>4. c = "rejected" \/ c = "resolved"
  OBVIOUS
<1> HIDE DEF c, tells, n
<1>5. /\ e \in Entry /\ e.of = item[p].of /\ e.inactive = item[p].inactive
      /\ e.behind = item[p].behind /\ e.closing = c /\ e.notified = n
      /\ e.sending = item[p].sending
  BY <1>1, <1>3 DEF Entry
<1> HIDE DEF e
<1>6. /\ \A q \in Pending : Kept(q)
      /\ \A q, s \in Pending : New(q) /\ New(s) => q = s
      /\ \A q \in Pending : In(route', q) <=> In(route, q) \/ New(q)
      /\ SameApprovals /\ Starts
      /\ item'[p] = e /\ \A q \in Pending \ {p} : item'[q] = item[q]
  <2>1. e.closing = "no" <=> item[p].closing = "no"
    BY <1>1, <1>3, <1>5
  <2>2. item[p].notified => e.notified
    BY <1>3, <1>5
  <2>3. e.sending => item[p].sending
    BY <1>5
  <2> QED
    BY <1>1, <1>2, <1>5, <2>1, <2>2, <2>3, EntryKept
<1>7. Submits /\ \A t \in Thread : Goes(t)
  BY <1>1, NobodyMoves
<1>8. Calm
  <2>1. \A q \in Pending : Kept(q) \/ New(q)
    BY <1>6
  <2> QED
    BY <1>6, <1>7, <2>1 DEF Calm
<1>9. c = "rejected" => ask[item[p].of] = "rejected"
  BY <1>3 DEF OutcomeInv, Answered
<1>10. Always
  <2>1. AskFinal /\ EventsDecided'
    BY <1>1, <1>6, NobodyMoves, EventsSame
  <2>2. Answered'
    <3>1. ASSUME NEW r \in Reply, at'[r].pc = "accepted"
          PROVE  at'[r].says = ask'[item'[at'[r].item].of]
      <4>1. Decides(r) /\ at[r].pc = "accepted"
        BY <1>1, <3>1 DEF Decides, Deciding
      <4>2. /\ at[r].item \in Pending /\ item[at[r].item].of # NoOne
            /\ at[r].says = ask[item[at[r].item].of]
        BY <4>1, RouteFacts DEF OutcomeInv, Answered
      <4> QED
        BY <1>1, <1>6, <4>2 DEF SameApprovals
    <3>2. ASSUME NEW q \in Pending, item'[q].closing \in {"accepted", "rejected"}
          PROVE  ask'[item'[q].of] = "rejected"
      <4>1. CASE q = p
        BY <1>1, <1>4, <1>5, <1>6, <1>9, <3>2, <4>1
      <4>2. CASE q # p
        <5>1. item'[q] = item[q]
          BY <1>6, <4>2
        <5> QED
          BY <1>1, <3>2, <5>1 DEF OutcomeInv, Answered
      <4> QED
        BY <4>1, <4>2
    <3> QED
      BY <3>1, <3>2 DEF Answered
  <2> QED
    BY <2>1, <2>2 DEF Always
<1>11. CASE ~tells
  <2>1. told' = told
    BY <1>2, <1>11
  <2> QED
    BY <1>6, <1>7, <1>8, <1>10, <2>1 DEF Well, StepKind, Quiet
<1>12. CASE tells
  <2>1. told' = [told EXCEPT ![p] = Append(@, c)]
    BY <1>2, <1>12
  <2>2. item'[p].notified /\ ~item[p].notified
    BY <1>3, <1>5, <1>6, <1>12
  <2>3. Truthful(p, c)
    BY <1>3, <1>4, <1>9 DEF Truthful, Decision
  <2>4. TellsClosing(p, c)
    BY <1>1, <1>6, <1>8, <2>1, <2>2, <2>3 DEF TellsClosing
  <2> QED
    BY <1>3, <1>6, <1>7, <1>10, <2>4 DEF Well, StepKind
<1> QED
  BY <1>11, <1>12

\* The turn ends: the whole route is closed.
LEMMA CloseRouteWell ==
  ASSUME RouteInv, OutcomeInv, CloseRoute
  PROVE  Well
<1>1. /\ route' = <<>> /\ UNCHANGED <<ask, stream, at, told>>
      /\ item' = [q \in Pending |-> IF Queued(q)
                    THEN [item[q] EXCEPT !.inactive = TRUE, !.closing = "asked"]
                    ELSE item[q]]
      /\ item \in [Pending -> Entry]
  BY RouteFacts DEF CloseRoute
<1>2. ASSUME NEW q \in Pending
      PROVE  /\ item'[q].of = item[q].of /\ item'[q].behind = item[q].behind
             /\ item'[q].sending = item[q].sending
             /\ ~In(route, q) => item'[q] = item[q]
             /\ In(route, q) => item'[q].inactive /\ item'[q].closing = "asked"
  <2>1. In(route, q) <=> Queued(q)
    BY DEF In, Queued
  <2>2. item[q] \in Entry
    BY <1>1
  <2>3. CASE Queued(q)
    <3>1. item'[q] = [item[q] EXCEPT !.inactive = TRUE, !.closing = "asked"]
      BY <1>1, <2>3
    <3> QED
      BY <2>1, <2>2, <2>3, <3>1 DEF Entry
  <2>4. CASE ~Queued(q)
    BY <1>1, <2>1, <2>4
  <2> QED
    BY <2>3, <2>4
<1>3. SameApprovals /\ Starts
  BY <1>2 DEF SameApprovals, Starts
<1>4. Always
  <2>1. AskFinal /\ EventsDecided'
    BY <1>1, <1>3, NobodyMoves, EventsSame
  <2>2. \A q \in Pending : item'[q].closing \in {"accepted", "rejected"} =>
          item'[q].closing = item[q].closing
    BY <1>2
  <2> QED
    BY <1>1, <1>3, <2>1, <2>2, NobodyMoves, AnsweredKept DEF Always
<1>5. Closes
  BY <1>1, <1>2 DEF Closes
<1> QED
  BY <1>1, <1>3, <1>4, <1>5, NobodyMoves DEF Well, StepKind

\* A notice is in the chat: the barrier comes down and the next prompt follows.
LEMMA NoticeSentWell ==
  ASSUME NEW t \in Thread, RouteInv, OutcomeInv, NoticeSent(t)
  PROVE  Well
<1> DEFINE n  == at[t].next
           it == [q \in Pending |-> IF q = n THEN [item[q] EXCEPT !.barrier = FALSE]
                                    ELSE item[q]]
<1>1. /\ at[t].pc = "notify" /\ Present(t, n, it, route)
      /\ UNCHANGED <<ask, stream, route>>
      /\ told' = IF at[t].text = "none" THEN told
                 ELSE [told EXCEPT ![at[t].item] = Append(@, at[t].text)]
  BY DEF NoticeSent
<1>2. /\ at[t] \in Task /\ at \in [Thread -> Task] /\ n \in Pending \cup {NoOne} /\ Tells(t)
      /\ route \in Seq(Pending) /\ item \in [Pending -> Entry]
  BY <1>1, RouteFacts DEF Task, Tells
<1>3. /\ it \in [Pending -> Entry]
      /\ \A q \in Pending :
           /\ it[q].of = item[q].of /\ it[q].behind = item[q].behind
           /\ it[q].inactive = item[q].inactive /\ it[q].notified = item[q].notified
           /\ it[q].closing = item[q].closing /\ it[q].sending = item[q].sending
  <2> HIDE DEF n
  <2>1. ASSUME NEW q \in Pending
        PROVE  /\ it[q] \in Entry
               /\ it[q].of = item[q].of /\ it[q].behind = item[q].behind
               /\ it[q].inactive = item[q].inactive /\ it[q].notified = item[q].notified
               /\ it[q].closing = item[q].closing /\ it[q].sending = item[q].sending
    <3>1. item[q] \in Entry
      BY <1>2
    <3>2. CASE q = n
      <4>1. it[q] = [item[q] EXCEPT !.barrier = FALSE]
        BY <3>2
      <4> QED
        BY <3>1, <4>1 DEF Entry
    <3>3. CASE q # n
      BY <3>1, <3>3
    <3> QED
      BY <3>2, <3>3
  <2>2. it \in [Pending -> Entry]
    <3>1. it = [q \in Pending |-> it[q]]
      OBVIOUS
    <3> QED
      BY <2>1, <3>1, Zenon
  <2> QED
    BY <2>1, <2>2
<1> HIDE DEF n, it
<1>4. /\ \A q \in Pending :
           /\ item'[q].of = it[q].of /\ item'[q].behind = it[q].behind
           /\ item'[q].inactive = it[q].inactive /\ item'[q].notified = it[q].notified
           /\ item'[q].closing = it[q].closing
           /\ item'[q].sending /\ ~it[q].sending => HeadOf(route, q) /\ ~it[q].barrier
      /\ \A u \in Thread \ {t} : at'[u] = at[u]
      /\ at'[t].pc \in Resting \ {"settle"}
  BY <1>1, <1>2, <1>3, PresentKeeps, Zenon
<1>5. /\ \A q \in Pending : Kept(q) /\ item'[q].closing = item[q].closing
      /\ \A q, s \in Pending : New(q) /\ New(s) => q = s
      /\ \A q \in Pending : In(route', q) <=> In(route, q) \/ New(q)
      /\ SameApprovals
  BY <1>1, <1>3, <1>4, KeptAll
<1>6. Starts
  BY <1>1, <1>2, <1>3, <1>4, HeadIn DEF Starts
<1>7. /\ ~Tells(t)' /\ \A u \in Thread : Goes(u)
      /\ \A u \in Thread : Decides(u)' => Decides(u) /\ at'[u] = at[u]
  <2>1. ~(at'[t].pc \in {"notify", "confirm"}) /\ at'[t].pc \notin Deciding
    BY <1>4 DEF Resting, Deciding
  <2>2. ~Tells(t)' /\ Goes(t)
    BY <2>1 DEF Goes, Tells, Decides
  <2>3. ASSUME NEW u \in Thread PROVE Goes(u)
    BY <1>4, <2>2, Stays
  <2>4. ASSUME NEW u \in Thread, at'[u].pc \in Deciding PROVE at[u].pc \in Deciding /\ at'[u] = at[u]
    BY <1>4, <2>1, <2>4
  <2> QED
    BY <2>2, <2>3, <2>4 DEF Decides
<1>8. Always
  <2>1. /\ at'[Handler].pc = "settle" => at'[Handler] = at[Handler]
        /\ \A r \in Reply : at'[r].pc = "accepted" => at'[r] = at[r]
    BY <1>4, Numbers DEF Resting
  <2>2. AskFinal /\ EventsDecided'
    BY <1>1, <1>5, <2>1, EventsSame
  <2>3. Answered'
    BY <1>5, <2>1, <2>2, AnsweredKept
  <2> QED
    BY <2>2, <2>3 DEF Always
<1>9. Submits
  BY <1>4, Numbers DEF Submits, Resting
<1>10. Calm
  BY <1>5, <1>7 DEF Calm
<1>11. HasTold(t)
  BY <1>1, <1>2, <1>5, <1>7, <1>10 DEF HasTold
<1> QED
  BY <1>6, <1>8, <1>9, <1>11 DEF Well, StepKind

\* A request: an entry is shown again, a new one joins the route, or it is rejected.
LEMMA RequestedWell ==
  ASSUME RouteInv, OutcomeInv, Requested
  PROVE  Well
<1> DEFINE a == Head(stream).ask
<1>1. /\ at[Handler].pc = "idle" /\ stream # <<>> /\ told' = told
      /\ a \in Approval /\ Handler \in Thread
      /\ route \in Seq(Pending) /\ item \in [Pending -> Entry] /\ at \in [Thread -> Task]
      /\ ask \in [Approval -> {"unasked", "open"} \cup Decision]
  BY StreamGoesOn, RouteFacts, Numbers DEF Requested, RouteInv, Types
<1> HIDE DEF a
<1>2. ASSUME NEW p \in Live(a), Present(Handler, p, item, route),
             stream' = Tail(stream), UNCHANGED <<ask, route>>
      PROVE  Well
  <2>1. p \in Pending \cup {NoOne}
    BY DEF Live
  <2> QED
    BY <1>1, <1>2, <2>1, PresentWell
<1>3. ASSUME NEW p \in Pending, NEW it, NEW rt, IsNew(p), Live(a) = {},
             it = [item EXCEPT ![p].of = a, ![p].behind = {route[i] : i \in 1..Len(route)}],
             rt = Append(route, p), route' = rt, Present(Handler, p, it, rt),
             stream' = Tail(stream), UNCHANGED ask
      PROVE  Well
  <2> DEFINE before == {route[i] : i \in 1..Len(route)}
  <2>1. item[p].of = NoOne /\ item[p] = Unused /\ ~In(route, p) /\ a # NoOne
    BY <1>1, <1>3, RouteFacts, Numbers DEF IsNew
  <2>2. before \subseteq Pending /\ \A s \in before : In(route, s)
    BY <1>1 DEF In
  <2>3. /\ it \in [Pending -> Entry]
        /\ \A q \in Pending \ {p} : it[q] = item[q]
        /\ it[p].of = a /\ it[p].behind = before
        /\ ~it[p].inactive /\ it[p].closing = "no" /\ ~it[p].sending
    <3> DEFINE e == [item[p] EXCEPT !.of = a, !.behind = before]
    <3>1. it = [item EXCEPT ![p] = e]
      BY <1>1, <1>3
    <3>2. item[p] \in Entry /\ a \in Approval \cup {NoOne} /\ before \in SUBSET Pending
      BY <1>1, <2>2
    <3> HIDE DEF before
    <3>3. e \in Entry /\ e.of = a /\ e.behind = before /\ e.inactive = item[p].inactive
          /\ e.closing = item[p].closing /\ e.sending = item[p].sending
      BY <3>2 DEF Entry
    <3>4. ~item[p].inactive /\ item[p].closing = "no" /\ ~item[p].sending
      BY <2>1 DEF Unused
    <3> HIDE DEF e
    <3> QED
      BY <1>1, <3>1, <3>3, <3>4
  <2> HIDE DEF before
  <2>4. /\ \A q \in Pending :
             /\ item'[q].of = it[q].of /\ item'[q].behind = it[q].behind
             /\ item'[q].inactive = it[q].inactive /\ item'[q].notified = it[q].notified
             /\ item'[q].closing = it[q].closing
             /\ item'[q].sending /\ ~it[q].sending => HeadOf(rt, q) /\ ~it[q].barrier
        /\ \A u \in Thread \ {Handler} : at'[u] = at[u]
        /\ at'[Handler].pc \in Resting \ {"settle"}
    <3>1. rt \in Seq(Pending) /\ p \in Pending \cup {NoOne}
      BY <1>1, <1>3
    <3>2. it \in [Pending -> Entry] /\ at \in [Thread -> Task] /\ Handler \in Thread
      BY <1>1, <2>3
    <3>3. Present(Handler, p, it, rt)
      BY <1>3
    <3> QED
      BY <3>1, <3>2, <3>3, PresentKeeps
  <2>5. New(p)
    <3>1. item'[p].of = a /\ item'[p].behind = before /\ ~item'[p].inactive
          /\ item'[p].closing = "no"
      BY <2>3, <2>4
    <3>2. Live(item'[p].of) = {}
      BY <1>3, <3>1
    <3> QED
      BY <1>1, <2>1, <2>2, <3>1, <3>2 DEF New
  <2>6. ASSUME NEW q \in Pending \ {p}
        PROVE  Kept(q) /\ item'[q].closing = item[q].closing /\ ~New(q)
    <3>1. it[q] = item[q]
      BY <2>3
    <3>2. Kept(q) /\ item'[q].closing = item[q].closing
      BY <2>4, <3>1 DEF Kept
    <3> QED
      BY <3>2, Numbers DEF New, Kept
  <2>7. \A q \in Pending : In(route', q) <=> In(route, q) \/ New(q)
    <3>1. /\ Len(rt) = Len(route) + 1 /\ Len(route) \in Nat
          /\ \A i \in 1..Len(route) : rt[i] = route[i]
          /\ rt[Len(route) + 1] = p
      BY <1>1, <1>3, AppendProperties
    <3>2. \A q \in Pending : In(rt, q) <=> In(route, q) \/ q = p
      BY <3>1 DEF In
    <3> QED
      BY <1>3, <2>5, <2>6, <3>2
  <2>8. Starts
    <3> SUFFICES ASSUME NEW q \in Pending, item'[q].sending, ~item[q].sending
                 PROVE  In(route', q)
      BY DEF Starts
    <3>1. ~it[q].sending
      BY <2>3
    <3>2. HeadOf(rt, q)
      BY <2>4, <3>1
    <3>3. rt \in Seq(Pending) /\ route' = rt
      BY <1>1, <1>3
    <3> QED
      BY <3>2, <3>3, HeadIn
  <2>9. SameApprovals
    BY <2>1, <2>6 DEF SameApprovals, Kept
  <2>10. AskFinal
    BY <1>3 DEF AskFinal
  <2>11. EventsDecided'
    <3>1. at'[Handler].pc # "settle"
      BY <2>4
    <3> QED
      BY <1>1, <1>3, <2>9, <2>10, <3>1, AnEvent, EventsKept
  <2>12. at'[Handler].pc \in Resting
    BY <2>4
  <2>13. \A q \in Pending : (Kept(q) /\ item'[q].closing = item[q].closing) \/ New(q)
    BY <2>5, <2>6
  <2>14. \A q, s \in Pending : New(q) /\ New(s) => q = s
    BY <2>6
  <2> QED
    BY <1>1, <2>4, <2>7, <2>8, <2>10, <2>11, <2>12, <2>13, <2>14, QuietTask
<1>4. ASSUME ask' = [ask EXCEPT ![a] = IF @ = "open" THEN "rejected" ELSE @],
             stream' = IF ask[a] = "open" /\ connected
                       THEN Append(Tail(stream), Event("resolved", a)) ELSE Tail(stream),
             UNCHANGED <<route, item, at>>
      PROVE  Well
  <2>1. /\ \A q \in Pending : Kept(q) /\ item'[q].closing = item[q].closing
        /\ \A q, s \in Pending : New(q) /\ New(s) => q = s
        /\ \A q \in Pending : In(route', q) <=> In(route, q) \/ New(q)
        /\ SameApprovals
    BY <1>4, KeptAll
  <2>2. AskFinal
    BY <1>1, <1>4 DEF AskFinal, Decision
  <2>3. ASSUME ask[a] = "open" PROVE EventsDecided'
    <3>1. /\ Event("resolved", a) \in Events /\ Event("resolved", a).ask = a
          /\ stream' = Tail(stream) \/ stream' = Append(Tail(stream), Event("resolved", a))
      BY <1>1, <1>4 DEF Event, Events
    <3>2. ask'[a] \in Decision
      BY <1>1, <1>4, <2>3 DEF Decision
    <3> DEFINE base == Tail(stream)
               e == Event("resolved", a)
    <3>4. /\ e \in Events /\ e.ask = a /\ (stream' = base \/ stream' = Append(base, e))
          /\ base = stream \/ (stream # <<>> /\ base = Tail(stream))
      BY <1>1, <3>1
    <3>5. at'[Handler].pc = "settle" => at'[Handler] = at[Handler]
      BY <1>4
    <3>6. e.kind = "resolved" => ask'[e.ask] \in Decision
      BY <3>2, <3>4
    <3> HIDE DEF base, e
    <3> QED
      BY <2>1, <2>2, <3>4, <3>5, <3>6, EventsKept
  <2>4. ASSUME ask[a] # "open" PROVE EventsDecided'
    <3>1. stream' = Tail(stream)
      BY <1>4, <2>4
    <3> DEFINE base == Tail(stream)
    <3>3. stream' = base /\ (base = stream \/ (stream # <<>> /\ base = Tail(stream)))
      BY <1>1, <3>1
    <3>4. at'[Handler].pc = "settle" => at'[Handler] = at[Handler]
      BY <1>4
    <3> HIDE DEF base
    <3>5. PICK e \in Events : e.kind = "requested"
      BY AnEvent
    <3> QED
      BY <2>1, <2>2, <3>3, <3>4, <3>5, EventsKept
  <2>5. EventsDecided'
    BY <2>3, <2>4
  <2>6. Starts
    BY <1>4 DEF Starts
  <2> QED
    BY <1>1, <1>4, <2>1, <2>2, <2>5, <2>6, QuietTask
<1>5. \/ \E p \in Live(a) : /\ Present(Handler, p, item, route)
                            /\ stream' = Tail(stream) /\ UNCHANGED <<ask, route>>
      \/ \E p \in Pending :
           /\ Live(a) = {} /\ IsNew(p) /\ route' = Append(route, p)
           /\ Present(Handler, p,
                      [item EXCEPT ![p].of = a, ![p].behind = {route[i] : i \in 1..Len(route)}],
                      Append(route, p))
           /\ stream' = Tail(stream) /\ UNCHANGED ask
      \/ /\ ask' = [ask EXCEPT ![a] = IF @ = "open" THEN "rejected" ELSE @]
         /\ stream' = IF ask[a] = "open" /\ connected
                      THEN Append(Tail(stream), Event("resolved", a)) ELSE Tail(stream)
         /\ UNCHANGED <<route, item, at>>
  BY DEF Requested, a
<1> QED
  BY <1>2, <1>3, <1>4, <1>5

\* #transition takes the entry out of the route, and its task tells or goes on.
LEMMA TransitionDoes ==
  ASSUME NEW t \in Thread, NEW p \in Pending, NEW text \in Text,
         NEW pc \in {"promote", "notify", "confirm"}, Transition(t, p, text, pc),
         RouteInv, item[p].of # NoOne, told' = told, ~Tells(t)
  PROVE  /\ \A u \in Thread \ {t} : at'[u] = at[u]
         /\ \A q \in Pending :
              /\ item'[q].of = item[q].of /\ item'[q].behind = item[q].behind
              /\ item'[q].inactive <=> item[q].inactive \/ q = p
              /\ item[q].notified => item'[q].notified
              /\ item'[q].closing = item[q].closing
              /\ In(route', q) <=> In(route, q) /\ q # p
         /\ Starts
         /\ pc = "promote" => at'[t].pc \in Resting \ {"settle"}
         /\ pc # "promote" => /\ at'[t].pc = pc /\ at'[t].item = p
                              /\ at'[t].next = NextOf(p) /\ at'[t].text = text
         /\ t = Handler /\ pc = "notify" => item'[p].notified
         /\ HeadOf(route, p) => \A q \in Pending : In(route', q) => In(route', NextOf(p))
<1> DEFINE n  == NextOf(p)
           it == [item EXCEPT ![p].inactive = TRUE]
<1>1. /\ route \in Seq(Pending) /\ item \in [Pending -> Entry] /\ at \in [Thread -> Task]
      /\ at[t].claimed \in Pending \cup {NoOne}
  BY RouteFacts DEF Task
<1>2. route' = Without(p)
  BY DEF Transition
<1>3. /\ Shape(it, route', told)
      /\ n \in Pending \cup {NoOne}
      /\ n # NoOne => /\ n # p /\ In(route', n)
                      /\ ~item[n].barrier /\ ~item[n].sending /\ ~item[n].presented
  BY <1>2, Removed
<1>4. /\ it \in [Pending -> Entry]
      /\ \A q \in Pending :
           /\ it[q].of = item[q].of /\ it[q].behind = item[q].behind
           /\ it[q].inactive <=> item[q].inactive \/ q = p
           /\ it[q].notified = item[q].notified /\ it[q].closing = item[q].closing
           /\ it[q].sending = item[q].sending
  <2> DEFINE e == [item[p] EXCEPT !.inactive = TRUE]
  <2>1. it = [item EXCEPT ![p] = e]
    BY <1>1
  <2>2. /\ e \in Entry /\ e.of = item[p].of /\ e.behind = item[p].behind /\ e.inactive
        /\ e.notified = item[p].notified /\ e.closing = item[p].closing
        /\ e.sending = item[p].sending
    BY <1>1 DEF Entry
  <2> HIDE DEF e, it
  <2>3. it[p] = e /\ \A q \in Pending \ {p} : it[q] = item[q]
    BY <1>1, <2>1
  <2>4. it \in [Pending -> Entry]
    BY <1>1, <2>1, <2>2
  <2> QED
    BY <2>2, <2>3, <2>4
<1>5. ASSUME NEW q \in Pending PROVE In(route', q) <=> In(route, q) /\ q # p
  <2>1. In(route', q) <=> it[q].of # NoOne /\ ~it[q].inactive
    BY <1>3 DEF Shape, Lively
  <2>2. In(route, q) <=> item[q].of # NoOne /\ ~item[q].inactive
    BY RouteFacts
  <2> QED
    BY <1>4, <2>1, <2>2
<1>6. ASSUME HeadOf(route, p), NEW q \in Pending, In(route', q) PROVE In(route', n)
  <2>1. In(route, q) /\ q # p
    BY <1>5, <1>6
  <2>2. PICK i \in 1..Len(route) : route[i] = q
    BY <2>1 DEF In
  <2>3. Len(route) \in Nat /\ route[1] = p /\ i # 1
    BY <1>1, <1>6, <2>1, <2>2 DEF HeadOf
  <2>4. Len(route) > 1 /\ Head(route) = p
    BY <1>6, <2>3 DEF HeadOf
  <2>5. n = route[2] /\ route[2] \in Pending
    BY <1>1, <2>3, <2>4 DEF NextOf
  <2>6. n # NoOne
    BY <2>5, Numbers
  <2> QED
    BY <1>3, <2>6
<1>7. CASE pc = "promote"
  <2>1. Present(t, n, it, route')
    BY <1>2, <1>7 DEF Transition
  <2>2. route' \in Seq(Pending)
    BY <1>3 DEF Shape
  <2> HIDE DEF n, it
  <2>3. /\ \A q \in Pending :
             /\ item'[q].of = it[q].of /\ item'[q].behind = it[q].behind
             /\ item'[q].inactive = it[q].inactive /\ item'[q].notified = it[q].notified
             /\ item'[q].closing = it[q].closing
             /\ item'[q].sending /\ ~it[q].sending => HeadOf(route', q) /\ ~it[q].barrier
        /\ \A u \in Thread \ {t} : at'[u] = at[u]
        /\ at'[t].pc \in Resting \ {"settle"}
    BY <1>1, <1>3, <1>4, <2>1, <2>2, PresentKeeps
  <2>4. Starts
    <3> SUFFICES ASSUME NEW q \in Pending, item'[q].sending, ~item[q].sending
                 PROVE  In(route', q)
      BY DEF Starts
    <3>1. HeadOf(route', q)
      BY <1>4, <2>3
    <3> QED
      BY <2>2, <3>1, HeadIn
  <2>5. ASSUME NEW q \in Pending
        PROVE  /\ item'[q].of = item[q].of /\ item'[q].behind = item[q].behind
               /\ item'[q].inactive <=> item[q].inactive \/ q = p
               /\ item[q].notified => item'[q].notified
               /\ item'[q].closing = item[q].closing
    BY <1>4, <2>3
  <2> QED
    BY <1>5, <1>6, <1>7, <2>3, <2>4, <2>5 DEF n
<1>8. CASE pc # "promote"
  <2> DEFINE a == [Idle EXCEPT !.pc = pc, !.item = p, !.next = n, !.text = text,
                               !.claimed = at[t].claimed]
  <2>1. /\ at' = [at EXCEPT ![t] = a]
        /\ item' = [q \in Pending |->
              IF q = p THEN [it[q] EXCEPT !.notified = @ \/ (t = Handler /\ pc = "notify")]
              ELSE IF q = n THEN [it[q] EXCEPT !.barrier = TRUE]
              ELSE it[q]]
    BY <1>8 DEF Transition
  <2> HIDE DEF n, it
  <2>2. a.pc = pc /\ a.item = p /\ a.next = n /\ a.text = text
    BY Constants DEF Task
  <2> HIDE DEF a
  <2>3. at'[t] = a /\ \A u \in Thread \ {t} : at'[u] = at[u]
    BY <1>1, <2>1
  <2>4. ASSUME NEW q \in Pending
        PROVE  /\ item'[q].of = it[q].of /\ item'[q].behind = it[q].behind
               /\ item'[q].inactive = it[q].inactive
               /\ item'[q].notified <=> it[q].notified \/ (q = p /\ t = Handler /\ pc = "notify")
               /\ item'[q].closing = it[q].closing /\ item'[q].sending = it[q].sending
    <3>1. it[q] \in Entry
      BY <1>4
    <3>2. CASE q = p
      <4>1. item'[q] = [it[q] EXCEPT !.notified = @ \/ (t = Handler /\ pc = "notify")]
        BY <2>1, <3>2
      <4> QED
        BY <3>1, <3>2, <4>1 DEF Entry
    <3>3. CASE q # p /\ q = n
      <4>1. item'[q] = [it[q] EXCEPT !.barrier = TRUE]
        BY <2>1, <3>3
      <4> QED
        BY <3>1, <3>3, <4>1 DEF Entry
    <3>4. CASE q # p /\ q # n
      <4>1. item'[q] = it[q]
        BY <2>1, <3>4
      <4> QED
        BY <3>4, <4>1
    <3> QED
      BY <3>2, <3>3, <3>4
  <2>5. Starts
    BY <1>4, <2>4 DEF Starts
  <2>6. ASSUME NEW q \in Pending
        PROVE  /\ item'[q].of = item[q].of /\ item'[q].behind = item[q].behind
               /\ item'[q].inactive <=> item[q].inactive \/ q = p
               /\ item[q].notified => item'[q].notified
               /\ item'[q].closing = item[q].closing
    BY <1>4, <2>4
  <2>7. t = Handler /\ pc = "notify" => item'[p].notified
    BY <2>4
  <2> QED
    BY <1>5, <1>6, <1>8, <2>2, <2>3, <2>5, <2>6, <2>7 DEF n
<1> QED
  BY <1>7, <1>8

\* What a transition has to know to keep the chat told truly and once.
LEMMA TransitionWell ==
  ASSUME NEW t \in Thread, NEW p \in Pending, NEW text \in Text,
         NEW pc \in {"promote", "notify", "confirm"}, Transition(t, p, text, pc),
         RouteInv, OutcomeInv, item[p].of # NoOne, ~Tells(t), NEW base,
         UNCHANGED <<ask, told>>, base = stream \/ (stream # <<>> /\ base = Tail(stream)),
         stream' = base, ~item[p].barrier, Truthful(p, text),
         \/ t = Handler /\ ~item[p].inactive
         \/ t \in Reply /\ Decides(t) /\ at[t].item = p,
         t = Handler => CASE pc = "promote" -> ~item[p].presented
                          [] pc = "notify" -> item[p].presented
                          [] pc = "confirm" -> item[p].sending,
         t \in Reply => pc # "confirm" /\ (pc = "notify" => ~item[p].notified)
  PROVE  Well
<1>1. /\ \A u \in Thread \ {t} : at'[u] = at[u]
      /\ \A q \in Pending :
           /\ item'[q].of = item[q].of /\ item'[q].behind = item[q].behind
           /\ item'[q].inactive <=> item[q].inactive \/ q = p
           /\ item[q].notified => item'[q].notified
           /\ item'[q].closing = item[q].closing
           /\ In(route', q) <=> In(route, q) /\ q # p
      /\ Starts
      /\ pc = "promote" => at'[t].pc \in Resting \ {"settle"}
      /\ pc # "promote" => /\ at'[t].pc = pc /\ at'[t].item = p
                           /\ at'[t].next = NextOf(p) /\ at'[t].text = text
      /\ t = Handler /\ pc = "notify" => item'[p].notified
      /\ HeadOf(route, p) => \A q \in Pending : In(route', q) => In(route', NextOf(p))
  BY TransitionDoes
<1>2. at'[t].pc \notin {"settle", "submit", "accepted", "refused", "failed"}
  BY <1>1 DEF Resting
<1>3. SameApprovals
  BY <1>1 DEF SameApprovals
<1>4. Always
  <2>1. AskFinal
    BY DEF AskFinal
  <2>2. /\ at'[Handler].pc = "settle" => at'[Handler] = at[Handler]
        /\ \A r \in Reply : at'[r].pc = "accepted" => at'[r] = at[r]
    BY <1>1, <1>2, Numbers
  <2>3. EventsDecided'
    BY <1>3, <2>1, <2>2, AnEvent, EventsKept
  <2>4. Answered'
    BY <1>1, <1>3, <2>1, <2>2, AnsweredKept
  <2> QED
    BY <2>1, <2>3, <2>4 DEF Always
<1>5. Submits
  BY <1>1, <1>2, Numbers DEF Submits
<1>6. ~Decides(t)'
  BY <1>2 DEF Decides, Deciding
<1>7. CASE pc = "promote"
  <2>1. ~Tells(t)'
    BY <1>1, <1>7 DEF Tells, Resting
  <2>2. t = Handler => ~item[p].presented
    BY <1>7
  <2>3. Leaves(t, p)
    BY <1>1, <1>6, <2>1, <2>2 DEF Leaves
  <2> QED
    BY <1>1, <1>4, <1>5, <2>3 DEF Well, StepKind
<1>8. CASE pc # "promote"
  <2>1. Tells(t)'
    BY <1>1, <1>8 DEF Tells
  <2>2. /\ at'[t].item = p /\ at'[t].next = NextOf(p) /\ at'[t].text = text
        /\ Truthful(p, at'[t].text)
    BY <1>1, <1>8
  <2>3. t = Handler => item[p].sending \/ (item[p].presented /\ item'[p].notified)
    BY <1>1, <1>8
  <2>4. t # Handler => ~item[p].notified
    BY <1>8, Numbers
  <2>5. Leaves(t, p)
    BY <1>1, <1>6, <2>1, <2>2, <2>3, <2>4 DEF Leaves
  <2> QED
    BY <1>1, <1>4, <1>5, <2>5 DEF Well, StepKind
<1> QED
  BY <1>7, <1>8

\* A submitted decision was answered.
LEMMA SubmittedWell ==
  ASSUME NEW r \in Reply, RouteInv, OutcomeInv, Submitted(r)
  PROVE  Well
<1> DEFINE p    == at[r].item
           text == IF at[r].pc = "accepted" THEN at[r].says ELSE "resolved"
           pc   == IF item[p].notified THEN "promote" ELSE "notify"
<1>1. /\ at[r].pc \in {"accepted", "refused"} /\ Transition(r, p, text, pc)
      /\ UNCHANGED <<ask, stream, told>>
  BY DEF Submitted
<1>2. Decides(r) /\ ~Tells(r) /\ r \in Thread /\ r # Handler
  BY <1>1, Numbers DEF Decides, Deciding, Tells
<1>3. p \in Pending /\ item[p].of # NoOne /\ at[r].says \in Decision /\ item[p].presented
  BY <1>2, RouteFacts
<1>4. ~item[p].barrier
  BY <1>3, RouteFacts
<1>5. text \in Text /\ Truthful(p, text)
  BY <1>3 DEF Text, Outcome, Decision, Truthful, OutcomeInv, Answered
<1>6. /\ pc \in {"promote", "notify", "confirm"} /\ pc # "confirm"
      /\ pc = "notify" => ~item[p].notified
  OBVIOUS
<1> HIDE DEF text, pc
<1> DEFINE base == stream
<1>7. base = stream \/ (stream # <<>> /\ base = Tail(stream))
  OBVIOUS
<1>8. stream' = base
  BY <1>1
<1> HIDE DEF base
<1> QED
  BY <1>1, <1>2, <1>3, <1>4, <1>5, <1>6, <1>7, <1>8, TransitionWell DEF p

\* The removal of an entry whose approval is settled.
LEMMA ResolveWell ==
  ASSUME NEW p \in Pending, NEW base, RouteInv, OutcomeInv, Resolve(p), item[p].of # NoOne,
         ~item[p].inactive, ~item[p].barrier, at[Handler].pc \in {"idle", "settle"},
         ask[item[p].of] \in Decision, UNCHANGED <<ask, told>>,
         base = stream \/ (stream # <<>> /\ base = Tail(stream)), stream' = base
  PROVE  Well
<1> DEFINE text == ask[item[p].of]
           pc   == IF item[p].sending THEN "confirm"
                   ELSE IF item[p].presented THEN "notify" ELSE "promote"
<1>1. Transition(Handler, p, text, pc)
  BY DEF Resolve
<1>2. ~Tells(Handler) /\ Handler \in Thread /\ Handler \notin Reply
  BY HandlerFree, Numbers
<1>3. text \in Text /\ Truthful(p, text)
  BY DEF Text, Outcome, Truthful
<1>4. /\ pc \in {"promote", "notify", "confirm"}
      /\ CASE pc = "promote" -> ~item[p].presented
           [] pc = "notify" -> item[p].presented
           [] pc = "confirm" -> item[p].sending
  OBVIOUS
<1> HIDE DEF text, pc
<1> QED
  BY <1>1, <1>2, <1>3, <1>4, TransitionWell

\* The harness says that an approval is settled, before and behind the barrier.
LEMMA SettledWell ==
  ASSUME RouteInv, OutcomeInv, Resolved \/ Settle
  PROVE  Well
<1>1. /\ at[Handler].pc \in {"idle", "settle"} /\ UNCHANGED <<ask, told>>
      /\ at \in [Thread -> Task] /\ item \in [Pending -> Entry] /\ Handler \in Thread
      /\ stream \in Seq(Events)
  BY RouteFacts, Numbers DEF Resolved, Settle, RouteInv, Types
<1>2. CASE Resolved
  <2> DEFINE a == Head(stream).ask
             base == Tail(stream)
  <2>1. /\ stream # <<>> /\ Head(stream).kind = "resolved" /\ a \in Approval
        /\ stream' = base /\ (base = stream \/ (stream # <<>> /\ base = Tail(stream)))
    BY <1>1, <1>2, StreamGoesOn DEF Resolved, RouteInv
  <2>2. ask[a] \in Decision
    <3>1. 1 \in 1..Len(stream) /\ Head(stream) = stream[1]
      BY <1>1, <2>1, EmptySeq
    <3> QED
      BY <2>1, <3>1 DEF OutcomeInv, EventsDecided
  <2>3. \/ UNCHANGED <<route, item, at>>
        \/ \E p \in Live(a) :
             \/ ~item[p].barrier /\ Resolve(p)
             \/ /\ item' = [item EXCEPT ![p].resolving = TRUE] /\ UNCHANGED route
                /\ at' = [at EXCEPT ![Handler] = [Idle EXCEPT !.pc = "settle", !.item = p]]
    BY <1>2 DEF Resolved
  <2> HIDE DEF a, base
  <2>4. CASE UNCHANGED <<route, item, at>>
    <3>1. /\ \A q \in Pending : Kept(q) /\ item'[q].closing = item[q].closing
          /\ \A q, s \in Pending : New(q) /\ New(s) => q = s
          /\ \A q \in Pending : In(route', q) <=> In(route, q) \/ New(q)
          /\ SameApprovals
      BY <2>4, KeptAll
    <3>2. AskFinal
      BY <1>1 DEF AskFinal
    <3>3. at'[Handler].pc = "settle" => at'[Handler] = at[Handler]
      BY <2>4
    <3>4. EventsDecided'
      BY <2>1, <3>1, <3>2, <3>3, AnEvent, EventsKept
    <3>5. Starts
      BY <2>4 DEF Starts
    <3> QED
      BY <1>1, <2>4, <3>1, <3>2, <3>4, <3>5, QuietTask
  <2>5. ASSUME NEW p \in Live(a), ~item[p].barrier, Resolve(p) PROVE Well
    <3>1. p \in Pending /\ item[p].of = a /\ ~item[p].inactive /\ item[p].of # NoOne
      BY <2>1, Numbers DEF Live
    <3> QED
      <4>1. ask[item[p].of] \in Decision /\ item[p].of # NoOne /\ ~item[p].inactive
            /\ ~item[p].barrier
        BY <2>2, <2>5, <3>1
      <4>2. at[Handler].pc \in {"idle", "settle"} /\ UNCHANGED <<ask, told>> /\ Resolve(p)
        BY <1>1, <2>5
      <4>3. stream' = base /\ (base = stream \/ (stream # <<>> /\ base = Tail(stream)))
        BY <2>1
      <4> HIDE <1>1, <2>1, <2>5
      <4> QED
        BY <3>1, <4>1, <4>2, <4>3, ResolveWell
  <2>6. ASSUME NEW p \in Live(a), UNCHANGED route, item' = [item EXCEPT ![p].resolving = TRUE],
               at' = [at EXCEPT ![Handler] = [Idle EXCEPT !.pc = "settle", !.item = p]]
        PROVE  Well
    <3> DEFINE e == [item[p] EXCEPT !.resolving = TRUE]
               b == [Idle EXCEPT !.pc = "settle", !.item = p]
    <3>1. p \in Pending /\ item[p].of = a /\ item' = [item EXCEPT ![p] = e]
      BY <2>6 DEF Live
    <3>2. /\ e \in Entry /\ e.of = item[p].of /\ e.inactive = item[p].inactive
          /\ e.behind = item[p].behind /\ e.notified = item[p].notified
          /\ e.closing = item[p].closing /\ e.sending = item[p].sending
      <4>1. item[p] \in Entry
        BY <1>1, <3>1
      <4> QED
        BY <4>1 DEF Entry
    <3> HIDE DEF e
    <3>3. /\ \A q \in Pending : Kept(q)
          /\ \A q, s \in Pending : New(q) /\ New(s) => q = s
          /\ \A q \in Pending : In(route', q) <=> In(route, q) \/ New(q)
          /\ SameApprovals /\ Starts
          /\ item'[p] = e /\ \A q \in Pending \ {p} : item'[q] = item[q]
      <4>1. e.closing = "no" <=> item[p].closing = "no"
        BY <3>2
      <4>2. item[p].notified => e.notified
        BY <3>2
      <4>3. e.sending => item[p].sending
        BY <3>2
      <4>4. route' = route
        BY <2>6
      <4> QED
        BY <3>1, <3>2, <4>1, <4>2, <4>3, <4>4, EntryKept
    <3>4. b.pc = "settle" /\ b.item = p
      BY Constants DEF Task
    <3> HIDE DEF b
    <3>5. at'[Handler] = b /\ \A u \in Thread \ {Handler} : at'[u] = at[u]
      BY <1>1, <2>6 DEF b
    <3>6. AskFinal
      BY <1>1 DEF AskFinal
    <3>7. EventsDecided'
      <4>1. ASSUME NEW i \in 1..Len(stream'), stream'[i].kind = "resolved"
            PROVE  ask'[stream'[i].ask] \in Decision
        <5>1. stream \in Seq(Events) /\ stream # <<>> /\ stream' = Tail(stream)
          BY <1>1, <2>1 DEF base
        <5>2. i + 1 \in 1..Len(stream) /\ stream'[i] = stream[i + 1]
          BY <5>1
        <5> QED
          BY <1>1, <4>1, <5>2 DEF OutcomeInv, EventsDecided
      <4>2. ask'[item'[at'[Handler].item].of] \in Decision
        BY <1>1, <2>2, <3>1, <3>2, <3>3, <3>4, <3>5
      <4> QED
        BY <4>1, <4>2 DEF EventsDecided
    <3>8. \A q \in Pending : item'[q].closing = item[q].closing
      BY <3>2, <3>3
    <3>9. at'[Handler].pc \in Resting
      BY <3>4, <3>5 DEF Resting
    <3>10. \A q \in Pending : (Kept(q) /\ item'[q].closing = item[q].closing) \/ New(q)
      BY <3>3, <3>8
    <3> QED
      BY <1>1, <3>3, <3>5, <3>6, <3>7, <3>9, <3>10, QuietTask
  <2> QED
    BY <2>3, <2>4, <2>5, <2>6
<1>3. CASE Settle
  <2> DEFINE p == at[Handler].item
             base == stream
  <2>1. p \in Pending /\ item[p].of # NoOne /\ at[Handler].pc = "settle" /\ ~item[p].barrier
    BY <1>1, <1>3, HandlerFree DEF Settle, Known
  <2>2. ask[item[p].of] \in Decision
    BY <2>1 DEF OutcomeInv, EventsDecided
  <2>3. stream' = base /\ (base = stream \/ (stream # <<>> /\ base = Tail(stream)))
    BY <1>3 DEF Settle
  <2>4. \/ at' = [at EXCEPT ![Handler] = Idle] /\ UNCHANGED <<route, item>>
        \/ ~item[p].inactive /\ Resolve(p)
    BY <1>3 DEF Settle
  <2> HIDE DEF p
  <2>5. CASE at' = [at EXCEPT ![Handler] = Idle] /\ UNCHANGED <<route, item>>
    <3>1. at'[Handler].pc = "idle" /\ \A u \in Thread \ {Handler} : at'[u] = at[u]
      BY <1>1, <2>5, Constants
    <3> QED
      BY <1>1, <2>3, <2>5, <3>1, TaskRests DEF Resting
  <2>6. CASE ~item[p].inactive /\ Resolve(p)
    <3> HIDE DEF base
    <3> QED
      BY <1>1, <2>1, <2>2, <2>3, <2>6, ResolveWell
  <2> QED
    BY <2>4, <2>5, <2>6
<1> QED
  BY <1>2, <1>3

-----------------------------------------------------------------------------
(* Every step                                                               *)

\* A step of something else.
LEMMA StutterWell ==
  ASSUME RouteInv, OutcomeInv, UNCHANGED vars
  PROVE  Well
<1>1. UNCHANGED <<ask, stream, route, item, at, told>>
  BY DEF vars
<1>2. /\ \A q \in Pending : Kept(q) /\ item'[q].closing = item[q].closing
      /\ \A q, s \in Pending : New(q) /\ New(s) => q = s
      /\ \A q \in Pending : In(route', q) <=> In(route, q) \/ New(q)
      /\ SameApprovals
  BY <1>1, KeptAll
<1>3. AskFinal /\ EventsDecided'
  BY <1>1, <1>2, EventsSame
<1>4. Starts
  BY <1>1 DEF Starts
<1> QED
  BY <1>1, <1>2, <1>3, <1>4, Numbers, QuietTask

\* Every step is of one of the kinds.
LEMMA NextWell ==
  ASSUME RouteInv, OutcomeInv, [Next]_vars
  PROVE  Well
<1>1. CASE HandlerStep
  <2>1. Handler \in Thread
    BY Numbers
  <2> QED
    BY <1>1, <2>1, RequestedWell, SettledWell, PresentResumesWell, NoticeSentWell DEF HandlerStep
<1>2. ASSUME NEW r \in Reply, ReplyStep(r) \/ Send(r) \/ PreflightFails(r) \/ RespondFails(r)
      PROVE  Well
  <2>1. r \in Thread
    BY Numbers
  <2> QED
    BY <1>2, <2>1, MessagesWell, RespondWell, RunReplyWell, SubmittedWell,
       PresentResumesWell, NoticeSentWell DEF ReplyStep
<1>3. ASSUME NEW p \in Pending, ItemStep(p) \/ PresentationFails(p) \/ CloseFails(p)
      PROVE  Well
  BY <1>3, PresentationWell, CloseCallWell, CloseAnsweredWell DEF ItemStep
<1>4. CASE \/ \E a \in Approval : AskFor(a) \/ SettledElsewhere(a)
           \/ Disconnect \/ Reconnect \/ QuestionMoves
  BY <1>4, HarnessSideWell
<1>5. CASE CloseRoute
  BY <1>5, CloseRouteWell
<1>6. CASE UNCHANGED vars
  BY <1>6, StutterWell
<1> QED
  BY <1>1, <1>2, <1>3, <1>4, <1>5, <1>6 DEF Next

\* ... and every kind keeps the outcomes in order.
LEMMA OutcomeStep ==
  ASSUME RouteInv, OutcomeInv, Well
  PROVE  OutcomeInv'
<1>1. Always /\ StepKind
  BY DEF Well
<1> QED
  BY <1>1, QuietKeeps, ClosesKeeps, HasToldKeeps, TellsClosingKeeps, LeavesKeeps DEF StepKind

\* Nothing was told at first.
LEMMA OutcomeInit ==
  ASSUME Init
  PROVE  OutcomeInv
<1>1. /\ ask = [a \in Approval |-> "unasked"] /\ stream = <<>>
      /\ route = <<>> /\ item = [p \in Pending |-> Unused]
      /\ at = [t \in Thread |-> Idle] /\ told = [p \in Pending |-> <<>>]
  BY DEF Init
<1>2. \A t \in Thread : /\ at[t].pc = "idle" /\ ~Tells(t) /\ ~Decides(t)
  BY <1>1, Constants DEF Tells, Decides, Deciding
<1>3. \A p \in Pending : /\ told[p] = <<>> /\ item[p].of = NoOne /\ ~item[p].inactive
                         /\ item[p].closing = "no"
  BY <1>1 DEF Unused
<1>4. EventsDecided /\ Answered /\ LiveOnce
  BY <1>1, <1>2, <1>3, Numbers DEF EventsDecided, Answered, LiveOnce
<1>5. NoticedOrClosed /\ Ahead /\ Truths /\ OneTeller
  BY <1>2, <1>3, Numbers DEF NoticedOrClosed, Ahead, Truths, OneTeller
<1>6. ASSUME NEW p \in Pending PROVE Counted(p)
  <2>1. ~Speaks(p)
    BY <1>2 DEF Speaks
  <2>2. Count(p) = 0
    BY <1>3, <2>1, RouteInit, CountIs
  <2> QED
    BY <1>3, <2>2 DEF Counted
<1> QED
  BY <1>4, <1>5, <1>6 DEF OutcomeInv

\* What the chat is told, with the route behind it: outcomes the harness decided,
\* by one task at a time, and at most two for an entry (harness-approval.ts:418-543).
THEOREM OutcomeInvariance == Spec => [](RouteInv /\ OutcomeInv)
<1>1. Init => RouteInv /\ OutcomeInv
  BY RouteInit, OutcomeInit
<1>2. RouteInv /\ OutcomeInv /\ [Next]_vars => (RouteInv /\ OutcomeInv)'
  BY RouteStep, NextWell, OutcomeStep
<1> QED
  BY <1>1, <1>2, PTL DEF Spec

-----------------------------------------------------------------------------
(* The properties                                                           *)

\* A message decides only on the head of the route, for which it was claimed after
\* its prompt was shown (harness-approval.ts:309).
THEOREM DecisionsForTheShown == Spec => DecisionForTheShown
<1>1. RouteInv /\ OutcomeInv /\ [Next]_vars =>
        [\A r \in Reply : at[r].pc # "submit" /\ at'[r].pc = "submit" =>
           LET p == at'[r].item IN
             /\ p = at[r].claimed /\ at[r].shown /\ item[p].delivered
             /\ route # <<>> /\ Head(route) = p]_vars
  BY NextWell DEF Well, Submits
<1> QED
  BY <1>1, OutcomeInvariance, PTL DEF Spec, DecisionForTheShown

\* What is on its way to the chat is behind no outcome that is still to be told.
NothingBefore ==
  \A p \in Pending : In(route, p) /\ item[p].sending =>
    \A q \in item[p].behind : \A t \in Thread :
      at[t].item = q => at[t].pc \notin {"confirm", "notify"}

\* It follows from the barrier: only the head is behind it, and only while it waits.
LEMMA PromptsInOrder ==
  ASSUME RouteInv, OutcomeInv
  PROVE  NothingBefore
<1> SUFFICES ASSUME NEW p \in Pending, In(route, p), item[p].sending, NEW t \in Thread,
                    at[t].item \in item[p].behind, Tells(t)
             PROVE  FALSE
  BY DEF NothingBefore, Tells
<1>1. In(route, at[t].next)
  BY DEF OutcomeInv, Ahead
<1>2. at[t].next \in Pending /\ item[at[t].next].barrier
  BY <1>1, RouteFacts
<1>3. HeadOf(route, p) /\ HeadOf(route, at[t].next) /\ ~item[p].barrier
  BY <1>1, <1>2, RouteFacts
<1> QED
  BY <1>2, <1>3 DEF HeadOf

\* A prompt is sent only when the outcomes of those it waited behind have been told
\* (harness-approval.ts:423-425, 532-543).
THEOREM PromptsAfterOutcomes == Spec => PromptAfterOutcome
<1>1. RouteInv /\ OutcomeInv => NothingBefore
  BY PromptsInOrder
<1>2. RouteInv /\ OutcomeInv /\ [Next]_vars /\ NothingBefore' =>
        [\A p \in Pending : ~item[p].sending /\ item'[p].sending =>
           \A q \in item'[p].behind : \A t \in Thread :
             at'[t].item = q => at'[t].pc \notin {"confirm", "notify"}]_vars
  <2> SUFFICES ASSUME RouteInv, OutcomeInv, [Next]_vars, NothingBefore',
                      NEW p \in Pending, ~item[p].sending, item'[p].sending,
                      NEW q \in item'[p].behind, NEW t \in Thread, at'[t].item = q
               PROVE  at'[t].pc \notin {"confirm", "notify"}
    OBVIOUS
  <2>1. In(route', p)
    BY NextWell DEF Well, Starts
  <2>2. In(route, p)' <=> In(route', p)
    BY DEF In
  <2> QED
    BY <2>1, <2>2 DEF NothingBefore, In
<1> QED
  BY <1>1, <1>2, OutcomeInvariance, PTL DEF Spec, PromptAfterOutcome

\* The chat is told only what the harness has decided
\* (harness-approval.ts:418-474, 501-530).
THEOREM NoticesAreTruthful == Spec => []NoticesTruthful
<1>1. RouteInv /\ OutcomeInv => NoticesTruthful
  BY DEF OutcomeInv, Truths, Truthful, NoticesTruthful
<1> QED
  BY <1>1, OutcomeInvariance, PTL

\* One outcome is told for a prompt, and one more if the route was closed
\* (harness-approval.test.ts:380).
THEOREM OutcomesAreFinal == Spec => []OneFinalOutcome
<1>1. RouteInv /\ OutcomeInv => OneFinalOutcome
  <2> SUFFICES ASSUME RouteInv, OutcomeInv, NEW p \in Pending
               PROVE  Len(told[p]) <= IF item[p].closing = "no" THEN 1 ELSE 2
    BY DEF OneFinalOutcome
  <2>1. Len(told[p]) \in Nat /\ Count(p) \in Nat /\ Len(told[p]) <= Count(p)
    BY CountIs
  <2>2. Counted(p)
    BY DEF OutcomeInv
  <2> QED
    BY <2>1, <2>2 DEF Counted
<1> QED
  BY <1>1, OutcomeInvariance, PTL

-----------------------------------------------------------------------------
(* The shape of the state                                                   *)

\* What a task has to say that tells nothing stays nothing.
Utters(t) == at'[t].text \in {at[t].text, "none"} \/ Tells(t)'
Speechless == \A t \in Thread : Utters(t)
Texts == \A t \in Thread : at[t].text \in Outcome \cup {"none"}

\* A task begins and ends with nothing to tell.
LEMMA Silent == Idle.text = "none" /\ Done.text = "none"
<1>1. Idle.text = "none"
  BY DEF Idle
<1> QED
  BY <1>1, Constants DEF Done, Task

\* #present gives a task nothing to tell.
LEMMA PresentSilent ==
  ASSUME NEW t \in Thread, NEW p, NEW it, NEW rt, at \in [Thread -> Task], Present(t, p, it, rt)
  PROVE  at'[t].text = "none" /\ \A u \in Thread \ {t} : at'[u] = at[u]
<1>1. CASE at' = [at EXCEPT ![t] = Over(t)]
  BY <1>1, Silent DEF Over
<1>2. ASSUME NEW pc, NEW q, NEW c, at' = [at EXCEPT ![t] = [Idle EXCEPT !.pc = pc, !.item = q, !.claimed = c]]
      PROVE  at'[t].text = "none" /\ \A u \in Thread \ {t} : at'[u] = at[u]
  <2> DEFINE a == [Idle EXCEPT !.pc = pc, !.item = q, !.claimed = c]
  <2>1. a.text = "none"
    BY Silent, Constants DEF Task
  <2>2. at' = [at EXCEPT ![t] = a]
    BY <1>2
  <2> HIDE DEF a
  <2> QED
    BY <2>1, <2>2
<1>3. CASE Presentable(it, rt, p)
  <2>1. at' = [at EXCEPT ![t] = [Idle EXCEPT !.pc = IF it[p].barrier THEN "present" ELSE "shown",
                                             !.item = p, !.claimed = at[t].claimed]]
    BY <1>3 DEF Present
  <2> QED
    BY <1>2, <2>1
<1>4. CASE ~Presentable(it, rt, p)
  BY <1>1, <1>4 DEF Present
<1> QED
  BY <1>3, <1>4

\* One task moves.
LEMMA OneSilent ==
  ASSUME NEW t \in Thread, \A u \in Thread \ {t} : at'[u] = at[u],
         at'[t].text \in {at[t].text, "none"} \/ at'[t].pc \in {"notify", "confirm"}
  PROVE  Speechless
BY DEF Speechless, Utters, Tells

\* #transition gives a text only to a task that tells.
LEMMA TransitionSilent ==
  ASSUME NEW t \in Thread, NEW p, NEW text, NEW pc \in {"promote", "notify", "confirm"},
         at \in [Thread -> Task], Transition(t, p, text, pc)
  PROVE  Speechless
<1>1. CASE pc = "promote"
  <2>1. Present(t, NextOf(p), [item EXCEPT ![p].inactive = TRUE], Without(p))
    BY <1>1 DEF Transition
  <2> QED
    BY <2>1, PresentSilent, OneSilent
<1>2. CASE pc # "promote"
  <2> DEFINE a == [Idle EXCEPT !.pc = pc, !.item = p, !.next = NextOf(p), !.text = text,
                               !.claimed = at[t].claimed]
  <2>1. at' = [at EXCEPT ![t] = a]
    BY <1>2 DEF Transition
  <2>2. a.pc = pc
    BY Constants DEF Task
  <2> HIDE DEF a
  <2> QED
    BY <1>2, <2>1, <2>2, OneSilent
<1> QED
  BY <1>1, <1>2

\* No step gives a text to a task that tells nothing.
LEMMA NextSilent ==
  ASSUME RouteInv, [Next]_vars
  PROVE  Speechless
<1>1. at \in [Thread -> Task] /\ Handler \in Thread /\ Reply \subseteq Thread
  BY RouteFacts, Numbers
<1>2. CASE UNCHANGED at
  BY <1>2 DEF Speechless, Utters
<1>3. ASSUME NEW t \in Thread, PresentResumes(t) \/ NoticeSent(t) PROVE Speechless
  <2>1. \E p, it : Present(t, p, it, route)
    BY <1>3 DEF PresentResumes, NoticeSent
  <2> QED
    BY <1>1, <2>1, PresentSilent, OneSilent
<1>4. CASE Requested
  <2>1. at' = at \/ \E p, it, rt : Present(Handler, p, it, rt)
    BY <1>4 DEF Requested
  <2> QED
    BY <1>1, <1>2, <2>1, PresentSilent, OneSilent
<1>5. ASSUME NEW p, Resolve(p) PROVE Speechless
  <2> DEFINE pc == IF item[p].sending THEN "confirm"
                   ELSE IF item[p].presented THEN "notify" ELSE "promote"
  <2>1. Transition(Handler, p, ask[item[p].of], pc) /\ pc \in {"promote", "notify", "confirm"}
    BY <1>5 DEF Resolve
  <2> HIDE DEF pc
  <2> QED
    BY <1>1, <2>1, TransitionSilent
<1>6. CASE Resolved \/ Settle
  <2>1. \/ at' = at \/ \E p : Resolve(p)
        \/ at' = [at EXCEPT ![Handler] = Idle]
        \/ \E p : at' = [at EXCEPT ![Handler] = [Idle EXCEPT !.pc = "settle", !.item = p]]
    BY <1>6 DEF Resolved, Settle
  <2>2. CASE at' = [at EXCEPT ![Handler] = Idle]
    BY <1>1, <2>2, Silent, OneSilent
  <2>3. ASSUME NEW p, at' = [at EXCEPT ![Handler] = [Idle EXCEPT !.pc = "settle", !.item = p]]
        PROVE  Speechless
    <3> DEFINE a == [Idle EXCEPT !.pc = "settle", !.item = p]
    <3>1. at' = [at EXCEPT ![Handler] = a] /\ a.text = "none"
      BY <2>3, Silent, Constants DEF Task
    <3> HIDE DEF a
    <3> QED
      BY <1>1, <3>1, OneSilent
  <2> QED
    BY <1>2, <1>5, <2>1, <2>2, <2>3
<1>7. ASSUME NEW r \in Reply, NEW a, at' = [at EXCEPT ![r] = a], a.text \in {at[r].text, "none"}
      PROVE  Speechless
  BY <1>1, <1>7, OneSilent
<1>8. ASSUME NEW r \in Reply, Send(r) \/ Claim(r) PROVE Speechless
  <2>1. CASE Send(r)
    <3>1. PICK says \in Says :
            at' = [at EXCEPT ![r] = [Idle EXCEPT !.pc = "coming", !.says = says]]
      BY <2>1 DEF Send
    <3> DEFINE a == [Idle EXCEPT !.pc = "coming", !.says = says]
    <3>2. at' = [at EXCEPT ![r] = a] /\ a.text = "none"
      BY <3>1, Silent, Constants DEF Task
    <3> HIDE DEF a
    <3> QED
      BY <1>7, <3>2
  <2>2. CASE Claim(r)
    <3> DEFINE p == Head(route)
               b == {q \in Reply : at[q].claimed = p}
               a == [at[r] EXCEPT !.pc = "waiting", !.item = p, !.claimed = p, !.before = b,
                                  !.shown = item[p].presented, !.deferred = QuestionPending]
    <3>1. at' = [at EXCEPT ![r] = a] \/ at' = [at EXCEPT ![r] = Done]
      BY <2>2 DEF Claim
    <3> HIDE DEF p, b
    <3>2. a.text = at[r].text
      BY <1>1 DEF Task
    <3> HIDE DEF a
    <3> QED
      BY <1>7, <3>1, <3>2, Silent
  <2> QED
    BY <1>8, <2>1, <2>2
<1>9. ASSUME NEW r \in Reply,
             \/ PreflightFails(r) \/ QuestionFirst(r) \/ SubmitFailed(r)
             \/ RunReply(r) \/ RespondArrives(r) \/ RespondFails(r)
      PROVE  Speechless
  <2>1. \/ at' = [at EXCEPT ![r] = Done]
        \/ at' = [at EXCEPT ![r] = [@ EXCEPT !.deferred = FALSE]]
        \/ \E pc : at' = [at EXCEPT ![r] = [@ EXCEPT !.pc = pc]]
        \/ Present(r, at[r].item, item, route)
    BY <1>9 DEF PreflightFails, QuestionFirst, SubmitFailed, RunReply, RespondArrives, RespondFails
  <2>2. CASE at' = [at EXCEPT ![r] = Done]
    BY <1>7, <2>2, Silent
  <2>3. CASE at' = [at EXCEPT ![r] = [@ EXCEPT !.deferred = FALSE]]
    <3>1. [at[r] EXCEPT !.deferred = FALSE].text = at[r].text
      BY <1>1 DEF Task
    <3> QED
      BY <1>7, <2>3, <3>1
  <2>4. ASSUME NEW pc, at' = [at EXCEPT ![r] = [@ EXCEPT !.pc = pc]] PROVE Speechless
    <3>1. [at[r] EXCEPT !.pc = pc].text = at[r].text
      BY <1>1 DEF Task
    <3> QED
      BY <1>7, <2>4, <3>1
  <2>5. CASE Present(r, at[r].item, item, route)
    BY <1>1, <2>5, PresentSilent, OneSilent
  <2> QED
    BY <2>1, <2>2, <2>3, <2>4, <2>5
<1>10. ASSUME NEW r \in Reply, Submitted(r) PROVE Speechless
  <2> DEFINE text == IF at[r].pc = "accepted" THEN at[r].says ELSE "resolved"
             pc   == IF item[at[r].item].notified THEN "promote" ELSE "notify"
  <2>1. Transition(r, at[r].item, text, pc) /\ pc \in {"promote", "notify", "confirm"}
    BY <1>10 DEF Submitted
  <2> HIDE DEF text, pc
  <2> QED
    BY <1>1, <2>1, TransitionSilent
<1>11. ASSUME NEW p \in Pending, PresentationArrives(p) \/ PresentationFails(p) PROVE Speechless
  <2>1. \A t \in Thread :
          \/ at'[t] = at[t]
          \/ at'[t] = Over(t)
          \/ at'[t] = [at[t] EXCEPT !.pc = "notify"]
          \/ at'[t] = [at[t] EXCEPT !.pc = "notify", !.text = "none"]
    <3>1. CASE PresentationArrives(p)
      BY <3>1 DEF PresentationArrives
    <3>2. CASE PresentationFails(p)
      BY <3>2 DEF PresentationFails
    <3> QED
      BY <1>11, <3>1, <3>2
  <2>2. ASSUME NEW t \in Thread PROVE Utters(t)
    <3>1. at[t] \in Task
      BY <1>1
    <3>2. at'[t].text \in {at[t].text, "none"}
      BY <2>1, <3>1, Silent DEF Over, Task
    <3> QED
      BY <3>2 DEF Utters
  <2> QED
    BY <2>2 DEF Speechless
<1>12. UNCHANGED at \/ \/ Requested \/ Resolved \/ Settle
                       \/ \E t \in Thread : PresentResumes(t) \/ NoticeSent(t)
                       \/ \E r \in Reply :
                            \/ Send(r) \/ Claim(r) \/ Submitted(r)
                            \/ PreflightFails(r) \/ QuestionFirst(r) \/ SubmitFailed(r)
                            \/ RunReply(r) \/ RespondArrives(r) \/ RespondFails(r)
                       \/ \E p \in Pending : PresentationArrives(p) \/ PresentationFails(p)
  <2>1. CASE UNCHANGED vars
    BY <2>1 DEF vars
  <2>2. CASE HandlerStep
    BY <1>1, <2>2 DEF HandlerStep
  <2>3. ASSUME NEW r \in Reply, ReplyStep(r) \/ Send(r) \/ PreflightFails(r) \/ RespondFails(r)
        PROVE  \/ \E t \in Thread : PresentResumes(t) \/ NoticeSent(t)
               \/ \E q \in Reply :
                    \/ Send(q) \/ Claim(q) \/ Submitted(q)
                    \/ PreflightFails(q) \/ QuestionFirst(q) \/ SubmitFailed(q)
                    \/ RunReply(q) \/ RespondArrives(q) \/ RespondFails(q)
    BY <1>1, <2>3, Zenon DEF ReplyStep
  <2>4. ASSUME NEW p \in Pending, ItemStep(p) \/ PresentationFails(p) \/ CloseFails(p)
        PROVE  UNCHANGED at \/ PresentationArrives(p) \/ PresentationFails(p)
    BY <2>4 DEF ItemStep, CloseArrives, CloseAnswered, CloseFails
  <2>5. CASE \/ \E a \in Approval : AskFor(a) \/ SettledElsewhere(a)
             \/ Disconnect \/ Reconnect \/ QuestionMoves \/ CloseRoute
    BY <2>5 DEF AskFor, SettledElsewhere, Disconnect, Reconnect, QuestionMoves, CloseRoute
  <2> QED
    BY <2>1, <2>2, <2>3, <2>4, <2>5, Zenon DEF Next
<1> QED
  BY <1>2, <1>3, <1>4, <1>6, <1>8, <1>9, <1>10, <1>11, <1>12, Zenon

\* The route holds a live entry once, no other at all.
LEMMA PlacesOf ==
  ASSUME RouteInv, NEW p \in Pending
  PROVE  Cardinality({i \in 1..Len(route) : route[i] = p})
           = IF item[p].of # NoOne /\ ~item[p].inactive THEN 1 ELSE 0
<1> DEFINE S == {i \in 1..Len(route) : route[i] = p}
<1>1. CASE In(route, p)
  <2>1. PICK i \in 1..Len(route) : route[i] = p
    BY <1>1 DEF In
  <2>2. \A j \in 1..Len(route) : route[j] = p => j = i
    BY <2>1 DEF RouteInv, Shape, Once
  <2>3. S = {i}
    BY <2>1, <2>2
  <2>4. item[p].of # NoOne /\ ~item[p].inactive
    BY <1>1, RouteFacts
  <2> HIDE DEF S
  <2>5. Cardinality(S) = 1
    BY <2>3, FS_Singleton
  <2> QED
    BY <2>4, <2>5 DEF S
<1>2. CASE ~In(route, p)
  <2>1. S = {}
    BY <1>2 DEF In
  <2>2. ~(item[p].of # NoOne /\ ~item[p].inactive)
    BY <1>2, RouteFacts
  <2> HIDE DEF S
  <2>3. Cardinality(S) = 0
    BY <2>1, FS_EmptySet
  <2> QED
    BY <2>2, <2>3 DEF S
<1> QED
  BY <1>1, <1>2

\* Two live entries are never for the same approval.
LEMMA LiveAtMostOnce ==
  ASSUME RouteInv, OutcomeInv, NEW a \in Approval
  PROVE  Cardinality(Live(a)) <= 1
<1>1. CASE Live(a) = {}
  <2>1. Cardinality(Live(a)) = 0
    BY <1>1, FS_EmptySet
  <2> QED
    BY <2>1
<1>2. CASE Live(a) # {}
  <2>1. PICK p \in Live(a) : TRUE
    BY <1>2
  <2>2. \A q \in Live(a) : q = p
    BY <2>1, Numbers DEF Live, OutcomeInv, LiveOnce
  <2>3. Live(a) = {p}
    BY <2>1, <2>2
  <2>4. Cardinality(Live(a)) = 1
    BY <2>3, FS_Singleton
  <2> QED
    BY <2>4
<1> QED
  BY <1>1, <1>2

\* No task has a text at first.
LEMMA TextsInit == Init => Texts
<1> SUFFICES ASSUME Init, NEW t \in Thread PROVE at[t].text \in Outcome \cup {"none"}
  BY DEF Texts
<1>1. at[t] = Idle
  BY DEF Init
<1> QED
  BY <1>1, Silent

\* A text that is to be told is an outcome.
LEMMA TextsStep ==
  ASSUME RouteInv, Texts, OutcomeInv', [Next]_vars
  PROVE  Texts'
<1> SUFFICES ASSUME NEW t \in Thread PROVE at'[t].text \in Outcome \cup {"none"}
  BY DEF Texts
<1>1. Utters(t)
  BY NextSilent DEF Speechless
<1>2. CASE at'[t].text \in {at[t].text, "none"}
  BY <1>2 DEF Texts
<1>3. CASE Tells(t)'
  BY <1>3 DEF OutcomeInv, Truths, Truthful, Tells
<1> QED
  BY <1>1, <1>2, <1>3 DEF Utters

\* The shape of the state follows from the three invariants.
LEMMA TypesFollow ==
  ASSUME RouteInv, OutcomeInv, Texts
  PROVE  TypeOK
<1>1. /\ ask \in [Approval -> {"unasked", "open"} \cup Decision]
      /\ stream \in Seq([kind : {"requested", "resolved"}, ask : Approval])
      /\ connected \in BOOLEAN
      /\ route \in Seq(Pending)
  BY DEF RouteInv, Types, Events
<1>2. at \in [Thread -> [pc : Pc, item : Pending \cup {NoOne},
                        next : Pending \cup {NoOne}, text : Outcome \cup {"none"},
                        says : Decision \cup {"none", "other", "stranger"},
                        claimed : Pending \cup {NoOne},
                        before : SUBSET Reply, shown : BOOLEAN, deferred : BOOLEAN]]
  <2>1. at \in [Thread -> Task]
    BY RouteFacts
  <2>2. ASSUME NEW t \in Thread
        PROVE  at[t] \in [pc : Pc, item : Pending \cup {NoOne},
                        next : Pending \cup {NoOne}, text : Outcome \cup {"none"},
                        says : Decision \cup {"none", "other", "stranger"},
                        claimed : Pending \cup {NoOne},
                        before : SUBSET Reply, shown : BOOLEAN, deferred : BOOLEAN]
    <3>1. at[t] \in Task /\ at[t].text \in Outcome \cup {"none"}
      BY <2>1 DEF Texts
    <3> QED
      BY <3>1 DEF Task
  <2> QED
    BY <2>1, <2>2
<1>3. told \in [Pending -> Seq(Outcome)]
  <2>1. told \in [Pending -> Seq(Text)]
    BY RouteFacts
  <2>2. ASSUME NEW p \in Pending PROVE told[p] \in Seq(Outcome)
    <3>1. told[p] \in Seq(Text) /\ \A i \in 1..Len(told[p]) : told[p][i] \in Outcome
      BY <2>1 DEF OutcomeInv, Truths, Truthful
    <3> QED
      BY <3>1
  <2> QED
    BY <2>1, <2>2
<1>4. \A a \in Approval : Cardinality(Live(a)) <= 1
  BY LiveAtMostOnce
<1>5. ASSUME NEW p \in Pending
      PROVE  /\ Cardinality({i \in 1..Len(route) : route[i] = p})
                  = IF item[p].of # NoOne /\ ~item[p].inactive THEN 1 ELSE 0
             /\ item[p].barrier = \E t \in Thread : /\ at[t].pc \in {"notify", "confirm"}
                                                    /\ at[t].next = p
             /\ (item[p].sending \/ item[p].presented) /\ Queued(p) => Head(route) = p
  <2>1. item[p].barrier \in BOOLEAN
    BY RouteFacts DEF Entry
  <2>2. item[p].barrier <=> \E t \in Thread : at[t].pc \in {"notify", "confirm"} /\ at[t].next = p
    BY DEF RouteInv, Tasks, Barrier, Tells
  <2>3. item[p].barrier = \E t \in Thread : /\ at[t].pc \in {"notify", "confirm"}
                                            /\ at[t].next = p
    BY <2>1, <2>2
  <2>4. (item[p].sending \/ item[p].presented) /\ Queued(p) => Head(route) = p
    <3>1. Queued(p) => In(route, p)
      BY DEF Queued, In
    <3>2. In(route, p) /\ (item[p].sending \/ item[p].presented) => HeadOf(route, p)
      BY RouteFacts
    <3> QED
      BY <3>1, <3>2 DEF HeadOf
  <2> QED
    BY <2>3, <2>4, PlacesOf
<1> QED
  BY <1>1, <1>2, <1>3, <1>4, <1>5 DEF TypeOK

\* The shape of the state: no approval has two live entries, the route holds each of
\* them once, only its head is shown, and the barrier is up exactly while a task has
\* the outcome before it still to tell (harness-approval.ts:358-364, 532-577).
THEOREM TypeCorrect == Spec => []TypeOK
<1>1. Init => Texts
  BY TextsInit
<1>2. RouteInv /\ Texts /\ OutcomeInv' /\ [Next]_vars => Texts'
  BY TextsStep
<1>3. RouteInv /\ OutcomeInv /\ Texts => TypeOK
  BY TypesFollow
<1> QED
  BY <1>1, <1>2, <1>3, OutcomeInvariance, PTL DEF Spec
=============================================================================
