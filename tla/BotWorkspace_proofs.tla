------------------------ MODULE BotWorkspace_proofs ------------------------
(* BotWorkspace for any number of projects, conversations, turns, requests and *)
(* mishaps: the write queue, the two controllers, what is stored and used.     *)
EXTENDS BotWorkspace, SequenceTheorems, TLAPS

-----------------------------------------------------------------------------
(* Types                                                                    *)

Then == {"none", "gate", "create", "bind", "switch", "choose", "delete"}
Task == [pc : PC, then : Then, key : Key, held : BOOLEAN, run : Nat, inc : Nat,
         gen : Nat, session : 0..MaxSessions, row : Project \cup {None},
         items : SUBSET Project]
Sessions == [Key -> 0..MaxSessions]
OpKind == {"set", "bind", "persist", "ensure", "begin", "abort", "retire", "finish"}
Operation == [kind : OpKind, by : Caller, step : {"queued", "clear", "persist", "save"},
              prev : Project \cup {None}, inc : Nat, gen : Nat,
              row : Project \cup {None}, session : 0..MaxSessions]
Write == [by : Caller \cup {Op}, sessions : Sessions]
Memory == [project : Project \cup {None, Absent}, gen : Nat, nextGen : Nat, inc : Nat,
           nextInc : Nat, removing : BOOLEAN, removal : Nat, unconfirmed : BOOLEAN]
Disk == [configured : BOOLEAN, project : Project \cup {None, Absent}, sessions : Sessions]
Host == [live : SUBSET Project, of : Seq(Project)]
Scope == [run : Nat, inc : Nat]

Types ==
  /\ host \in Host /\ Len(host.of) <= MaxSessions
  /\ ws \in Memory /\ ops \in Seq(Operation) /\ sess \in Sessions /\ stq \in Seq(Write)
  /\ bad \subseteq Caller \cup {Op} /\ disk \in Disk /\ at \in [Caller -> Task]
  /\ outer \in Request \cup {None} /\ inner \in Request \cup {None} /\ scope \in Scope
  /\ mishaps \in Nat

\* A generation is used once, and what was captured is one used before.
Gens ==
  /\ ws.gen < ws.nextGen
  /\ \A c \in Caller : at[c].gen < ws.nextGen
  /\ \A i \in 1..Len(ops) : ops[i].gen < ws.nextGen

-----------------------------------------------------------------------------
(* The write queue: every operation has its caller waiting for it            *)

ChatPC == Waiting \cup
  {"idle", "fetch", "apply", "state", "clear", "writing", "lock", "probe", "quiet",
   "create", "keep", "save", "ask", "asked", "ended", "adopt", "adopted", "binding",
   "items", "setting", "leave"}
Fenced == {"fencing", "remove", "stop", "commit", "retiring", "cleanup", "cleaning",
           "ensuring", "scope", "fail", "unsafe", "finishing"}
Path(want) ==
  CASE want = "none"   -> {"idle", "ended"}
    [] want = "choose" -> {"choose", "items", "setting", "fail", "leave"}
    [] want = "bind"   -> {"bind", "config", "ensuring", "scope", "fail", "leave"}
    [] want = "delete" -> {"delete", "leave"} \cup Fenced
    [] OTHER           -> {}

Roles ==
  /\ \A c \in Caller \ Request : at[c].pc \in ChatPC
  /\ \A r \in Request : at[r].pc \in Path(at[r].then)

Place(kind) ==
  CASE kind = "set"    -> "setting"  [] kind = "bind"  -> "binding"
    [] kind = "ensure" -> "ensuring" [] kind = "begin" -> "fencing"
    [] kind = "retire" -> "retiring" [] kind = "persist" -> "writing"
    [] OTHER -> "finishing"
Steps(kind) ==
  CASE kind = "set"   -> {"queued", "clear", "persist"}
    [] kind = "bind"  -> {"queued", "save"}
    [] kind = "begin" -> {"queued", "clear"}
    [] OTHER          -> {"queued"}

Line ==
  /\ \A i \in 1..Len(ops) : at[ops[i].by].pc = Place(ops[i].kind)
  /\ \A i, j \in 1..Len(ops) : ops[i].by = ops[j].by => i = j
  /\ \A c \in Caller : at[c].pc \in Queued => \E i \in 1..Len(ops) : ops[i].by = c
  /\ \A i \in 1..Len(ops) : ops[i].step \in Steps(ops[i].kind) /\ (i > 1 => ops[i].step = "queued")

Base == Types /\ Gens /\ Roles /\ Line

-----------------------------------------------------------------------------
(* What the shared operators do                                             *)

\* The names of the callers are different.
LEMMA Names ==
  /\ Other \in Caller /\ Turn \subseteq Caller /\ Request \subseteq Caller
  /\ Caller \ Request = Turn \cup {Other}
  /\ \A t \in Turn : t \notin Request /\ t # Other
  /\ Op \notin Caller /\ None \notin Request /\ None \notin Project /\ Absent \notin Project
  /\ Absent # None
  BY NamesDiffer DEF Caller, Op

\* A caller begins idle and ends as if it were, but for where it is.
LEMMA IdleTyped ==
  ASSUME Types, NEW p \in PC
  PROVE  /\ Idle \in Task /\ Ended(p) \in Task
         /\ Idle.pc = "idle" /\ Idle.then = "none" /\ ~Idle.held /\ Idle.gen = 0
         /\ Ended(p).pc = p /\ Ended(p).then = "none" /\ ~Ended(p).held /\ Ended(p).gen = 0
<1>1. at[Other].key \in Key
  BY Names DEF Types, Task
<1>2. (CHOOSE k \in Key : TRUE) \in Key
  BY <1>1
<1>3. 0 \in 0..MaxSessions
  BY BoundsAreNat
<1>4. "idle" \in PC
  BY DEF PC
<1> QED
  BY <1>2, <1>3, <1>4 DEF Idle, Ended, Task, Then

\* The others stay where they are.
Others(c) == \A d \in Caller \ {c} : at'[d] = at[d]
Same(c) ==
  /\ at'[c].then = at[c].then /\ at'[c].key = at[c].key /\ at'[c].held = at[c].held
  /\ at'[c].run = at[c].run /\ at'[c].inc = at[c].inc /\ at'[c].gen = at[c].gen
  /\ at'[c].session = at[c].session /\ at'[c].row = at[c].row
Went(c, p) == at' \in [Caller -> Task] /\ Others(c) /\ at'[c].pc = p /\ Same(c)

LEMMA Puts ==
  ASSUME Types, NEW c \in Caller, NEW e \in Task, at' = [at EXCEPT ![c] = e]
  PROVE  at' \in [Caller -> Task] /\ Others(c) /\ at'[c] = e
  BY DEF Types, Others

LEMMA Goes ==
  ASSUME Types, NEW c \in Caller, NEW p \in PC, Go(c, p)
  PROVE  Went(c, p)
<1> DEFINE e == [at[c] EXCEPT !.pc = p]
<1>1. at[c] \in Task
  BY DEF Types
<1>2. /\ e \in Task /\ e.pc = p /\ e.then = at[c].then /\ e.key = at[c].key
      /\ e.held = at[c].held /\ e.run = at[c].run /\ e.inc = at[c].inc
      /\ e.gen = at[c].gen /\ e.session = at[c].session /\ e.row = at[c].row
  BY <1>1 DEF Task
<1>3. at' = [at EXCEPT ![c] = e]
  BY DEF Go
<1> HIDE DEF e
<1> QED
  BY <1>2, <1>3, Puts DEF Went, Same

\* A request that fails goes where it leaves what it holds; a turn is over.
LEMMA Fails ==
  ASSUME Types, NEW c \in Caller, at' = Failed(c)
  PROVE  /\ c \in Request => Went(c, "fail")
         /\ c \notin Request => /\ at' \in [Caller -> Task] /\ Others(c)
                                /\ at'[c] = Ended("ended")
<1>0. "fail" \in PC /\ "ended" \in PC
  BY DEF PC
<1>1. ASSUME c \in Request PROVE Went(c, "fail")
  <2>1. Go(c, "fail")
    BY <1>1 DEF Failed, Go
  <2> QED
    BY <2>1, <1>0, Goes
<1>2. ASSUME c \notin Request
      PROVE  at' \in [Caller -> Task] /\ Others(c) /\ at'[c] = Ended("ended")
  <2>1. at' = [at EXCEPT ![c] = Ended("ended")]
    BY <1>2 DEF Failed
  <2> QED
    BY <2>1, <1>0, IdleTyped, Puts
<1> QED
  BY <1>1, <1>2

\* Where a reconciliation leaves its caller: waiting if there is no project.
LEMMA Readies ==
  ASSUME Types, NEW c \in Caller, at' = Readied(c)
  PROVE  /\ at' \in [Caller -> Task] /\ Others(c) /\ Same(c)
         /\ at'[c].pc \in Waiting \cup {"lock", "quiet", "adopt", "leave"}
         /\ at'[c].pc \in Waiting => ws.unconfirmed
<1> DEFINE p == IF ws.unconfirmed THEN Wait(at[c].then) ELSE AfterReady(at[c].then)
           e == [at[c] EXCEPT !.items = {}, !.pc = p]
<1>1. at[c] \in Task
  BY DEF Types
<1>2. p \in Waiting \cup {"lock", "quiet", "adopt", "leave"} /\ (p \in Waiting => ws.unconfirmed)
  BY DEF Wait, AfterReady, Waiting
<1>3. p \in PC
  BY <1>2 DEF PC
<1>4. at' = [at EXCEPT ![c] = e]
  BY DEF Readied
<1> HIDE DEF p
<1>5. /\ e \in Task /\ e.pc = p /\ e.then = at[c].then /\ e.key = at[c].key
      /\ e.held = at[c].held /\ e.run = at[c].run /\ e.inc = at[c].inc
      /\ e.gen = at[c].gen /\ e.session = at[c].session /\ e.row = at[c].row
  BY <1>1, <1>3 DEF Task
<1> HIDE DEF e
<1> QED
  BY <1>2, <1>4, <1>5, Puts DEF Same

\* An operation joins the queue with what its caller has captured.
LEMMA Queues ==
  ASSUME Types, NEW c \in Caller, NEW kind \in OpKind, NEW row \in Project \cup {None},
         QueueWith(c, kind, row)
  PROVE  \E o \in Operation :
           /\ ops' = Append(ops, o) /\ o.kind = kind /\ o.by = c /\ o.step = "queued"
           /\ o.gen = at[c].gen /\ o.row = row /\ o.session = at[c].session
<1> DEFINE o == [kind |-> kind, by |-> c, step |-> "queued", prev |-> None,
                 inc |-> at[c].inc, gen |-> at[c].gen, row |-> row,
                 session |-> at[c].session]
<1>1. at[c] \in Task
  BY DEF Types
<1>2. o \in Operation
  BY <1>1 DEF Operation, Task
<1>3. ops' = Append(ops, o)
  BY DEF QueueWith
<1> QED
  BY <1>2, <1>3

\* What holds of the operations of a queue holds of a shorter one, and of a longer
\* one if it holds of what joins it.
LEMMA Joined ==
  ASSUME NEW S, NEW q \in Seq(S), NEW o \in S
  PROVE  /\ Append(q, o) \in Seq(S) /\ Len(Append(q, o)) = Len(q) + 1
         /\ \A i \in 1..Len(q) : Append(q, o)[i] = q[i]
         /\ Append(q, o)[Len(q) + 1] = o
  BY AppendProperties

LEMMA Shorter ==
  ASSUME NEW S, NEW q \in Seq(S), q # <<>>
  PROVE  /\ Tail(q) \in Seq(S) /\ Len(Tail(q)) = Len(q) - 1 /\ Len(q) \in Nat /\ Len(q) >= 1
         /\ \A i \in 1..Len(Tail(q)) : i + 1 \in 1..Len(q) /\ Tail(q)[i] = q[i + 1]
         /\ Head(q) = q[1] /\ q[1] \in S /\ 1 \in 1..Len(q)
<1>1. Len(q) \in Nat /\ Len(q) >= 1
  BY EmptySeq, LenProperties
<1>2. Tail(q) \in Seq(S) /\ Len(Tail(q)) = Len(q) - 1 /\ Head(q) = q[1]
  BY HeadTailProperties
<1>3. \A i \in 1..Len(Tail(q)) : Tail(q)[i] = q[i + 1]
  BY HeadTailProperties
<1>4. q[1] \in S
  BY <1>1, ElementOfSeq
<1> QED
  BY <1>1, <1>2, <1>3, <1>4

\* The operation at the head.
LEMMA Heads ==
  ASSUME Types, ops # <<>>
  PROVE  /\ Run = ops[1] /\ Run \in Operation /\ 1 \in 1..Len(ops) /\ Run.by \in Caller
         /\ at[Run.by] \in Task
<1>1. Run = ops[1] /\ ops[1] \in Operation /\ 1 \in 1..Len(ops)
  BY Shorter DEF Types, Run
<1> QED
  BY <1>1 DEF Operation, Types

LEMMA InLine ==
  ASSUME Types
  PROVE  \A i \in 1..Len(ops) : ops[i] \in Operation /\ ops[i].by \in Caller
<1>1. ops \in Seq(Operation)
  BY DEF Types
<1>2. \A i \in 1..Len(ops) : ops[i] \in Operation
  BY <1>1, ElementOfSeq
<1> QED
  BY <1>2 DEF Operation

\* Who waits for an operation is in one of the places for it.
LEMMA Places == \A kind : Place(kind) \in Queued
  BY DEF Place, Queued

Aside(d) == at'[d].pc = at[d].pc \/ (at[d].pc \notin Queued /\ at'[d].pc \notin Queued)

LEMMA LineStays ==
  ASSUME Types, Line, ops' = ops, \A d \in Caller : Aside(d)
  PROVE  Line'
<1>1. \A i \in 1..Len(ops) : ops[i].by \in Caller
  BY InLine
<1>2. \A i \in 1..Len(ops) : at'[ops[i].by].pc = at[ops[i].by].pc
  BY <1>1, Places DEF Line, Aside
<1> QED
  BY <1>1, <1>2 DEF Line, Aside

LEMMA LineJoins ==
  ASSUME Types, Line, NEW c \in Caller, at[c].pc \notin Queued, NEW o \in Operation,
         ops' = Append(ops, o), o.by = c, o.step = "queued", at'[c].pc = Place(o.kind),
         \A d \in Caller \ {c} : Aside(d)
  PROVE  Line'
<1> DEFINE n == Len(ops)
<1>0. ops \in Seq(Operation) /\ n \in Nat
  BY LenProperties DEF Types
<1>1. /\ Len(ops') = n + 1 /\ ops'[n + 1] = o
      /\ \A i \in 1..n : ops'[i] = ops[i]
  BY <1>0, Joined
<1>2. \A i \in 1..n : ops[i].by \in Caller
  BY InLine
<1>3. \A i \in 1..n : ops[i].by # c /\ at'[ops[i].by].pc = at[ops[i].by].pc
  BY <1>2, Places DEF Line, Aside
<1>4. \A i \in 1..n + 1 : i \in 1..n \/ i = n + 1
  BY <1>0
<1>5. \A i \in 1..Len(ops') : at'[ops'[i].by].pc = Place(ops'[i].kind)
  BY <1>1, <1>3, <1>4 DEF Line
<1>6. \A i, j \in 1..Len(ops') : ops'[i].by = ops'[j].by => i = j
  BY <1>1, <1>3, <1>4 DEF Line
<1>7. \A d \in Caller : at'[d].pc \in Queued => \E i \in 1..Len(ops') : ops'[i].by = d
  <2> SUFFICES ASSUME NEW d \in Caller, at'[d].pc \in Queued
               PROVE  \E i \in 1..Len(ops') : ops'[i].by = d
    OBVIOUS
  <2>1. CASE d = c
    BY <1>0, <1>1, <2>1
  <2>2. CASE d # c
    <3>1. PICK i \in 1..n : ops[i].by = d
      BY <2>2 DEF Line, Aside
    <3> QED
      BY <3>1, <1>0, <1>1
  <2> QED
    BY <2>1, <2>2
<1>8. "queued" \in Steps(o.kind)
  BY DEF Steps
<1>9. \A i \in 1..Len(ops') : ops'[i].step \in Steps(ops'[i].kind) /\ (i > 1 => ops'[i].step = "queued")
  BY <1>1, <1>4, <1>8 DEF Line
<1> QED
  BY <1>5, <1>6, <1>7, <1>9 DEF Line

LEMMA LineLeaves ==
  ASSUME Types, Line, ops # <<>>, ops' = Tail(ops), at'[Run.by].pc \notin Queued,
         \A d \in Caller \ {Run.by} : Aside(d)
  PROVE  Line'
<1> DEFINE n == Len(ops)
<1>0. ops \in Seq(Operation) /\ n \in Nat
  BY LenProperties DEF Types
<1>1. /\ Len(ops') = n - 1 /\ n >= 1 /\ Run = ops[1]
      /\ \A i \in 1..Len(ops') : i + 1 \in 1..n /\ ops'[i] = ops[i + 1]
  BY <1>0, Shorter DEF Run
<1>2. \A i \in 1..n : ops[i].by \in Caller
  BY InLine
<1>3. \A i \in 1..n : i # 1 => ops[i].by # Run.by /\ at'[ops[i].by].pc = at[ops[i].by].pc
  BY <1>0, <1>1, <1>2, Places DEF Line, Aside
<1>4. \A i \in 1..Len(ops') : i + 1 # 1
  BY <1>0, <1>1
<1>5. \A i \in 1..Len(ops') : at'[ops'[i].by].pc = Place(ops'[i].kind)
  BY <1>1, <1>3, <1>4 DEF Line
<1>6. \A i, j \in 1..Len(ops') : ops'[i].by = ops'[j].by => i = j
  <2> SUFFICES ASSUME NEW i \in 1..Len(ops'), NEW j \in 1..Len(ops'), ops'[i].by = ops'[j].by
               PROVE  i = j
    OBVIOUS
  <2>1. i + 1 = j + 1
    BY <1>1 DEF Line
  <2> QED
    BY <2>1, <1>0, <1>1
<1>7. \A d \in Caller : at'[d].pc \in Queued => \E i \in 1..Len(ops') : ops'[i].by = d
  <2> SUFFICES ASSUME NEW d \in Caller, at'[d].pc \in Queued
               PROVE  \E i \in 1..Len(ops') : ops'[i].by = d
    OBVIOUS
  <2>1. d # Run.by /\ at[d].pc \in Queued
    BY DEF Aside
  <2>2. PICK i \in 1..n : ops[i].by = d
    BY <2>1 DEF Line
  <2>3. i # 1
    BY <2>1, <2>2, <1>1
  <2>4. i - 1 \in 1..Len(ops') /\ ops'[i - 1] = ops[i]
    BY <2>3, <1>0, <1>1
  <2> QED
    BY <2>2, <2>4
<1>8. \A i \in 1..Len(ops') : ops'[i].step \in Steps(ops'[i].kind) /\ (i > 1 => ops'[i].step = "queued")
  <2> SUFFICES ASSUME NEW i \in 1..Len(ops')
               PROVE  ops'[i].step \in Steps(ops'[i].kind) /\ ops'[i].step = "queued"
    OBVIOUS
  <2>1. i + 1 > 1
    BY <1>0, <1>1
  <2> QED
    BY <2>1, <1>1 DEF Line
<1> QED
  BY <1>5, <1>6, <1>7, <1>8 DEF Line

\* The running operation goes on to its next step.
LEMMA LineSteps ==
  ASSUME Types, Line, ops # <<>>, NEW o \in Operation, ops' = [ops EXCEPT ![1] = o],
         o.kind = Run.kind, o.by = Run.by, o.step \in Steps(o.kind),
         \A d \in Caller : Aside(d)
  PROVE  Line'
<1> DEFINE n == Len(ops)
<1>0. ops \in Seq(Operation) /\ n \in Nat /\ 1 \in 1..n /\ Run = ops[1]
  BY Heads, LenProperties DEF Types
<1>1. Len(ops') = n /\ ops'[1] = o /\ \A i \in 1..n : i # 1 => ops'[i] = ops[i]
  BY <1>0
<1>2. \A i \in 1..n : ops'[i].kind = ops[i].kind /\ ops'[i].by = ops[i].by
  BY <1>0, <1>1
<1>3. \A i \in 1..n : ops[i].by \in Caller
  BY InLine
<1>4. \A i \in 1..n : at'[ops[i].by].pc = at[ops[i].by].pc
  BY <1>3, Places DEF Line, Aside
<1>5. \A i \in 1..Len(ops') : at'[ops'[i].by].pc = Place(ops'[i].kind)
  BY <1>1, <1>2, <1>4 DEF Line
<1>6. \A i, j \in 1..Len(ops') : ops'[i].by = ops'[j].by => i = j
  BY <1>1, <1>2 DEF Line
<1>7. \A c \in Caller : at'[c].pc \in Queued => \E i \in 1..Len(ops') : ops'[i].by = c
  BY <1>1, <1>2 DEF Line, Aside
<1>8. \A i \in 1..Len(ops') : ops'[i].step \in Steps(ops'[i].kind) /\ (i > 1 => ops'[i].step = "queued")
  BY <1>0, <1>1 DEF Line
<1> QED
  BY <1>5, <1>6, <1>7, <1>8 DEF Line

-----------------------------------------------------------------------------
(* Steps of the chat, and what every one of them keeps                       *)

Unbinds ==
  /\ ws.project \in Project
  /\ ws' = [Bump(ws) EXCEPT !.project = None, !.unconfirmed = TRUE]
Creates ==
  /\ host' \in Host /\ Len(host'.of) <= MaxSessions /\ host'.live = host.live
  /\ \E p \in Project : host'.of = Append(host.of, p)
\* Caller c asks for an operation of one of these kinds, or for none.
Asks(c, kinds) ==
  /\ at[c].pc \notin Queued
  /\ \/ ops' = ops /\ at'[c].pc \notin Queued
     \/ \E o \in Operation :
          /\ ops' = Append(ops, o) /\ o.by = c /\ o.step = "queued" /\ o.kind \in kinds
          /\ o.gen = at[c].gen /\ at'[c].pc = Place(o.kind)
          /\ o.kind = "set" => at[c].pc = "items" /\ o.row = at[c].row
          /\ o.kind = "bind" => /\ at[c].pc = "adopted" /\ o.session = at[c].session
                               /\ o.row = host.of[o.session]
Saves(c) == (sess' = sess /\ stq' = stq) \/ \E s \in Sessions : Save(c, s)

ChatStep(c) ==
  /\ c \in Caller \ Request /\ at' \in [Caller -> Task] /\ Others(c)
  /\ at'[c].pc \in ChatPC /\ at'[c].gen \in {at[c].gen, ws.gen, 0}
  /\ at'[c].pc \in Waiting => ws.unconfirmed
  /\ at'[c].held => at'[c].pc \notin {"idle", "asked", "ended"}
  /\ host' = host \/ Creates
  /\ ws' = ws \/ Unbinds
  /\ bad' \subseteq bad /\ Saves(c) /\ Asks(c, {"set", "bind", "persist"})
  /\ UNCHANGED <<disk, outer, inner, scope, mishaps>>

LEMMA Writes ==
  ASSUME Types, NEW c \in Caller \cup {Op}, NEW s \in Sessions, Save(c, s)
  PROVE  /\ sess' = s /\ sess' \in Sessions /\ stq' \in Seq(Write) /\ Len(stq) \in Nat
         /\ Len(stq') = Len(stq) + 1
         /\ \A i \in 1..Len(stq) : stq'[i] = stq[i]
         /\ stq'[Len(stq) + 1] = [by |-> c, sessions |-> s]
<1>1. [by |-> c, sessions |-> s] \in Write
  BY DEF Write
<1>2. stq \in Seq(Write)
  BY DEF Types
<1>3. stq' = Append(stq, [by |-> c, sessions |-> s]) /\ sess' = s
  BY DEF Save
<1> QED
  BY <1>1, <1>2, <1>3, Joined, LenProperties

\* A fresh generation is newer than all that were captured.
LEMMA Bumps ==
  ASSUME Types, Gens
  PROVE  /\ Bump(ws) \in Memory /\ Bump(ws).gen = ws.nextGen
         /\ Bump(ws).nextGen = ws.nextGen + 1 /\ Bump(ws).project = ws.project
         /\ Bump(ws).inc = ws.inc /\ Bump(ws).nextInc = ws.nextInc
         /\ Bump(ws).removing = ws.removing /\ Bump(ws).unconfirmed = ws.unconfirmed
         /\ Bump(ws).removal = ws.removal
<1>1. ws \in Memory
  BY DEF Types
<1>2. ws.nextGen \in Nat /\ ws.nextGen + 1 \in Nat
  BY <1>1 DEF Memory
<1> QED
  BY <1>1, <1>2 DEF Memory, Bump

LEMMA UnbindFacts ==
  ASSUME Types, Gens, Unbinds
  PROVE  /\ ws' \in Memory /\ ws'.gen = ws.nextGen /\ ws'.nextGen = ws.nextGen + 1
         /\ ws'.project = None /\ ws'.unconfirmed /\ ws'.removing = ws.removing
         /\ ws'.inc = ws.inc
<1> DEFINE b == Bump(ws)
<1>1. /\ b \in Memory /\ b.gen = ws.nextGen /\ b.nextGen = ws.nextGen + 1
      /\ b.removing = ws.removing /\ b.inc = ws.inc
  BY Bumps
<1>2. ws' = [b EXCEPT !.project = None, !.unconfirmed = TRUE]
  BY DEF Unbinds
<1> HIDE DEF b
<1> QED
  BY <1>1, <1>2 DEF Memory

\* Generations stay behind the next one if callers and operations capture those there are.
LEMMA GensKept ==
  ASSUME Types, Gens, ws' \in Memory, ws'.gen < ws'.nextGen, ws.nextGen <= ws'.nextGen,
         at' \in [Caller -> Task], \A d \in Caller : at'[d].gen \in {at[d].gen, ws.gen, 0},
         \A i \in 1..Len(ops') : (\E j \in 1..Len(ops) : ops'[i].gen = ops[j].gen)
                                 \/ \E d \in Caller : ops'[i].gen = at[d].gen
  PROVE  Gens'
<1>1. ws \in Memory /\ ws.gen \in Nat /\ ws.nextGen \in Nat /\ ws'.nextGen \in Nat
  BY DEF Types, Memory
<1>2. \A d \in Caller : at[d].gen \in Nat
  BY DEF Types, Task
<1>3. \A j \in 1..Len(ops) : ops[j].gen \in Nat
  BY InLine DEF Operation
<1>4. \A d \in Caller : at'[d].gen < ws'.nextGen
  BY <1>1, <1>2 DEF Gens
<1>5. \A i \in 1..Len(ops') : ops'[i].gen < ws'.nextGen
  BY <1>1, <1>2, <1>3 DEF Gens
<1> QED
  BY <1>4, <1>5 DEF Gens

\* The queue after caller c has asked for an operation or not.
LEMMA AsksKeep ==
  ASSUME Base, NEW c \in Caller, NEW kinds, Asks(c, kinds), \A d \in Caller \ {c} : Aside(d)
  PROVE  /\ ops' \in Seq(Operation) /\ Line'
         /\ \A i \in 1..Len(ops') : (\E j \in 1..Len(ops) : ops'[i].gen = ops[j].gen)
                                    \/ \E d \in Caller : ops'[i].gen = at[d].gen
<1>0. Types /\ Line /\ ops \in Seq(Operation) /\ Len(ops) \in Nat
  BY LenProperties DEF Base, Types
<1>1. CASE ops' = ops /\ at'[c].pc \notin Queued
  <2>1. \A d \in Caller : Aside(d)
    BY <1>1 DEF Asks, Aside
  <2>2. Line'
    BY <2>1, <1>0, <1>1, LineStays
  <2> QED
    BY <2>2, <1>0, <1>1
<1>2. CASE \E o \in Operation :
          /\ ops' = Append(ops, o) /\ o.by = c /\ o.step = "queued"
          /\ o.gen = at[c].gen /\ at'[c].pc = Place(o.kind)
  <2>1. PICK o \in Operation :
          /\ ops' = Append(ops, o) /\ o.by = c /\ o.step = "queued"
          /\ o.gen = at[c].gen /\ at'[c].pc = Place(o.kind)
    BY <1>2
  <2>2. at[c].pc \notin Queued
    BY DEF Asks
  <2>3. Line'
    BY <2>1, <2>2, <1>0, LineJoins
  <2>4. /\ Len(ops') = Len(ops) + 1 /\ ops'[Len(ops) + 1] = o /\ ops' \in Seq(Operation)
        /\ \A i \in 1..Len(ops) : ops'[i] = ops[i]
    BY <2>1, <1>0, Joined
  <2>5. \A i \in 1..Len(ops) + 1 : i \in 1..Len(ops) \/ i = Len(ops) + 1
    BY <1>0
  <2> QED
    BY <2>1, <2>3, <2>4, <2>5
<1> QED
  BY <1>1, <1>2 DEF Asks

LEMMA ChatBase ==
  ASSUME Base, NEW c, ChatStep(c)
  PROVE  Base'
<1>0. c \in Caller /\ c \notin Request /\ Types /\ Gens /\ at' \in [Caller -> Task]
  BY DEF ChatStep, Base
<1>1. \A d \in Caller \ {c} : Aside(d)
  BY DEF ChatStep, Others, Aside
<1>2. /\ ops' \in Seq(Operation) /\ Line'
      /\ \A i \in 1..Len(ops') : (\E j \in 1..Len(ops) : ops'[i].gen = ops[j].gen)
                                 \/ \E d \in Caller : ops'[i].gen = at[d].gen
  BY <1>0, <1>1, AsksKeep DEF ChatStep
<1>3. ws' \in Memory /\ ws'.gen < ws'.nextGen /\ ws.nextGen <= ws'.nextGen
  <2>1. CASE ws' = ws
    BY <2>1, <1>0 DEF Types, Memory, Gens
  <2>2. CASE Unbinds
    <3>1. ws.nextGen \in Nat
      BY <1>0 DEF Types, Memory
    <3> QED
      BY <3>1, <2>2, <1>0, UnbindFacts
  <2> QED
    BY <2>1, <2>2 DEF ChatStep
<1>4. \A d \in Caller : at'[d].gen \in {at[d].gen, ws.gen, 0}
  BY DEF ChatStep, Others
<1>5. Gens'
  BY <1>0, <1>2, <1>3, <1>4, GensKept
<1>6. sess' \in Sessions /\ stq' \in Seq(Write)
  <2>1. CASE sess' = sess /\ stq' = stq
    BY <2>1, <1>0 DEF Types
  <2>2. CASE \E s \in Sessions : Save(c, s)
    BY <2>2, <1>0, Writes
  <2> QED
    BY <2>1, <2>2 DEF ChatStep, Saves
<1>7. host' \in Host /\ Len(host'.of) <= MaxSessions
  BY <1>0 DEF ChatStep, Creates, Types
<1>8. Types'
  <2>1. /\ bad' \subseteq bad
        /\ disk' = disk /\ outer' = outer /\ inner' = inner /\ scope' = scope /\ mishaps' = mishaps
    BY DEF ChatStep
  <2>2. bad' \subseteq Caller \cup {Op}
    BY <2>1, <1>0 DEF Types
  <2>3. /\ disk' \in Disk /\ outer' \in Request \cup {None} /\ inner' \in Request \cup {None}
        /\ scope' \in Scope /\ mishaps' \in Nat
    BY <2>1, <1>0 DEF Types
  <2> QED
    BY <2>2, <2>3, <1>0, <1>2, <1>3, <1>6, <1>7 DEF Types
<1>9. Roles'
  <2>1. \A d \in Caller \ {c} : at'[d] = at[d]
    BY DEF ChatStep, Others
  <2>2. at'[c].pc \in ChatPC
    BY DEF ChatStep
  <2> QED
    BY <2>1, <2>2, <1>0, Names DEF Base, Roles
<1> QED
  BY <1>2, <1>5, <1>8, <1>9 DEF Base

\* Where a caller of the chat goes keeps it among its places.
LEMMA ChatPlaces ==
  /\ {"lock", "quiet", "adopt", "leave", "fetch", "apply", "state", "clear", "writing", "probe",
      "create", "keep", "save", "ask", "asked", "ended", "adopted", "binding", "items",
      "setting", "idle"} \cup Waiting \subseteq ChatPC
  /\ ChatPC \subseteq PC /\ Queued \cap ChatPC = {"writing", "binding", "setting"}
  BY DEF ChatPC, PC, Queued, Waiting

\* A step of the chat that changes only where its caller is.
LEMMA ChatMove ==
  ASSUME Base, NEW c \in Caller \ Request, Quiet, UNCHANGED <<ws, ops>>, Saves(c),
         bad' \subseteq bad, at' \in [Caller -> Task], Others(c),
         at[c].pc \notin Queued, at'[c].pc \notin Queued, at'[c].pc \in ChatPC,
         at'[c].gen \in {at[c].gen, ws.gen, 0}, at'[c].pc \in Waiting => ws.unconfirmed,
         at'[c].held => at'[c].pc \notin {"idle", "asked", "ended"}
  PROVE  ChatStep(c)
  BY DEF ChatStep, Quiet, Asks

LEMMA ChatFetch ==
  ASSUME Base, NEW c \in Caller \ Request, Fetch(c)
  PROVE  ChatStep(c)
<1>0. Types
  BY DEF Base
<1>1. Quiet /\ UNCHANGED <<ws, ops>> /\ Saves(c) /\ bad' \subseteq bad /\ at[c].pc \notin Queued
  BY DEF Fetch, Saves, Queued
<1>2. CASE at' = [at EXCEPT ![c].pc = "apply", ![c].items = host.live]
  <2> DEFINE e == [at[c] EXCEPT !.pc = "apply", !.items = host.live]
  <2>1. at[c] \in Task /\ host.live \subseteq Project /\ "apply" \in PC
    BY <1>0 DEF Types, Host, PC
  <2>2. e \in Task /\ e.pc = "apply" /\ e.gen = at[c].gen
    BY <2>1 DEF Task
  <2>3. at' = [at EXCEPT ![c] = e]
    BY <1>2
  <2> HIDE DEF e
  <2>4. at' \in [Caller -> Task] /\ Others(c) /\ at'[c] = e
    BY <2>2, <2>3, <1>0, Puts
  <2>5. e.pc \in ChatPC /\ e.pc \notin Queued /\ e.pc \notin Waiting /\ e.pc \notin {"idle", "asked", "ended"}
    BY <2>2, ChatPlaces DEF Queued, Waiting
  <2> QED
    BY <2>2, <2>4, <2>5, <1>1, ChatMove
<1>3. CASE at' = Readied(c)
  <2>1. /\ at' \in [Caller -> Task] /\ Others(c) /\ Same(c)
        /\ at'[c].pc \in Waiting \cup {"lock", "quiet", "adopt", "leave"}
        /\ at'[c].pc \in Waiting => ws.unconfirmed
    BY <1>0, <1>3, Readies
  <2>2. at'[c].pc \in ChatPC /\ at'[c].pc \notin Queued /\ at'[c].pc \notin {"idle", "asked", "ended"}
    BY <2>1, ChatPlaces DEF Queued, Waiting
  <2> QED
    BY <2>1, <2>2, <1>1, ChatMove DEF Same
<1> QED
  BY <1>2, <1>3 DEF Fetch

\* A turn that goes to p, or is over.
LEMMA ChatGoes ==
  ASSUME Base, NEW c \in Caller \ Request, NEW p, Quiet, UNCHANGED <<ws, ops>>, Saves(c),
         bad' \subseteq bad, at[c].pc \notin Queued, Went(c, p),
         p \in {"fetch", "apply", "state", "clear", "probe", "keep", "save"}
  PROVE  ChatStep(c)
<1>1. p \in ChatPC /\ p \notin Queued /\ p \notin Waiting /\ p \notin {"idle", "asked", "ended"}
  BY ChatPlaces DEF Queued, Waiting
<1> QED
  BY <1>1, ChatMove DEF Went, Same

LEMMA ChatEnds ==
  ASSUME Base, NEW c \in Caller \ Request, NEW p \in {"ended", "asked"}, Quiet, UNCHANGED <<ws, ops>>,
         Saves(c), bad' \subseteq bad, at[c].pc \notin Queued,
         at' \in [Caller -> Task], Others(c), at'[c] = Ended(p)
  PROVE  ChatStep(c)
<1>1. p \in ChatPC /\ p \notin Queued /\ p \notin Waiting
  BY ChatPlaces DEF Queued, Waiting
<1>2. Types /\ p \in PC
  BY <1>1, ChatPlaces DEF Base
<1>3. Ended(p).pc = p /\ Ended(p).gen = 0 /\ ~Ended(p).held
  BY <1>2, IdleTyped
<1> QED
  BY <1>1, <1>3, ChatMove

LEMMA NoSessionTyped == NoSession \in Sessions
  BY BoundsAreNat DEF NoSession, Sessions

\* A caller of the chat asks for an operation.
LEMMA ChatAsks ==
  ASSUME Base, NEW c \in Caller \ Request, NEW kind \in {"set", "bind", "persist"},
         NEW row \in Project \cup {None}, QueueWith(c, kind, row), Went(c, Place(kind)),
         at[c].pc \notin Queued, UNCHANGED <<disk, outer, inner, scope, mishaps>>,
         host' = host, ws' = ws \/ Unbinds, bad' \subseteq bad, Saves(c),
         kind = "set" => at[c].pc = "items" /\ row = at[c].row,
         kind = "bind" => at[c].pc = "adopted" /\ row = host.of[at[c].session]
  PROVE  ChatStep(c)
<1>0. Types /\ kind \in OpKind
  BY DEF Base, OpKind
<1>1. PICK o \in Operation :
         /\ ops' = Append(ops, o) /\ o.kind = kind /\ o.by = c /\ o.step = "queued"
         /\ o.gen = at[c].gen /\ o.row = row /\ o.session = at[c].session
  BY <1>0, Queues
<1>2. at'[c].pc = Place(kind)
  BY DEF Went
<1>3. Asks(c, {"set", "bind", "persist"})
  BY <1>1, <1>2 DEF Asks
<1>4. /\ Place(kind) \in ChatPC /\ Place(kind) \notin Waiting
      /\ Place(kind) \notin {"idle", "asked", "ended"}
  BY ChatPlaces DEF Place, Waiting
<1> QED
  BY <1>3, <1>4 DEF Went, Same, ChatStep

LEMMA ChatApply ==
  ASSUME Base, NEW c \in Caller \ Request, Apply(c)
  PROVE  ChatStep(c)
<1>0. Types /\ Quiet /\ bad' = bad /\ at[c].pc = "apply" /\ at[c].pc \notin Queued /\ c \in Caller
  BY DEF Base, Apply, Queued
<1>1. CASE at' = Readied(c) /\ UNCHANGED <<ws, ops, sess, stq>>
  <2>1. /\ at' \in [Caller -> Task] /\ Others(c) /\ Same(c)
        /\ at'[c].pc \in Waiting \cup {"lock", "quiet", "adopt", "leave"}
        /\ at'[c].pc \in Waiting => ws.unconfirmed
    BY <1>0, <1>1, Readies
  <2>2. at'[c].pc \in ChatPC /\ at'[c].pc \notin Queued /\ at'[c].pc \notin {"idle", "asked", "ended"}
    BY <2>1, ChatPlaces DEF Queued, Waiting
  <2>3. Saves(c)
    BY <1>1 DEF Saves
  <2> QED
    BY <2>1, <2>2, <2>3, <1>0, <1>1, ChatMove DEF Same
<1>2. ASSUME Unbinds, Save(c, NoSession), Go(c, "clear"), UNCHANGED ops
      PROVE  ChatStep(c)
  <2>1. Went(c, "clear") /\ Saves(c)
    BY <1>0, <1>2, Goes, NoSessionTyped DEF PC, Saves
  <2>2. at'[c].pc \in ChatPC /\ at'[c].pc \notin Queued /\ at'[c].pc \notin Waiting
        /\ at'[c].pc \notin {"idle", "asked", "ended"}
    BY <2>1, ChatPlaces DEF Went, Queued, Waiting
  <2> QED
    BY <2>1, <2>2, <1>0, <1>2 DEF ChatStep, Quiet, Asks, Went, Same
<1>3. ASSUME Unbinds, Go(c, "state"), UNCHANGED <<ops, sess, stq>>
      PROVE  ChatStep(c)
  <2>1. Went(c, "state") /\ Saves(c)
    BY <1>0, <1>3, Goes DEF PC, Saves
  <2>2. at'[c].pc \in ChatPC /\ at'[c].pc \notin Queued /\ at'[c].pc \notin Waiting
        /\ at'[c].pc \notin {"idle", "asked", "ended"}
    BY <2>1, ChatPlaces DEF Went, Queued, Waiting
  <2> QED
    BY <2>1, <2>2, <1>0, <1>3 DEF ChatStep, Quiet, Asks, Went, Same
<1>4. ASSUME Unbinds, Queue(c, "persist"), Go(c, "writing"), UNCHANGED <<sess, stq>>
      PROVE  ChatStep(c)
  <2>1. Went(c, "writing") /\ Saves(c) /\ Place("persist") = "writing"
    BY <1>0, <1>4, Goes DEF PC, Saves, Place, Queued
  <2>2. QueueWith(c, "persist", at[c].row) /\ at[c].row \in Project \cup {None}
    BY <1>0, <1>4 DEF Queue, Types, Task
  <2> QED
    BY <2>1, <2>2, <1>0, <1>4, ChatAsks DEF Quiet
<1> QED
  BY <1>0, <1>1, <1>2, <1>3, <1>4 DEF Apply, Unbinds

LEMMA ChatClears ==
  ASSUME Base, NEW c \in Caller \ Request, ClearForPage(c)
  PROVE  ChatStep(c)
<1>1. Types /\ Quiet /\ bad' = bad /\ at[c].pc \notin Queued /\ UNCHANGED <<ws, ops>> /\ Go(c, "clear")
  BY DEF Base, ClearForPage, Queued
<1>2. Saves(c)
  BY NoSessionTyped DEF ClearForPage, Saves
<1>3. Went(c, "clear")
  BY <1>1, Goes DEF PC
<1> QED
  BY <1>1, <1>2, <1>3, ChatGoes

LEMMA ChatCleared ==
  ASSUME Base, NEW c \in Caller \ Request, Cleared(c)
  PROVE  ChatStep(c)
<1>0. Types /\ Quiet /\ bad' \subseteq bad /\ at[c].pc = "clear" /\ at[c].pc \notin Queued
      /\ UNCHANGED <<ws, sess, stq>> /\ c \in Caller
  BY DEF Base, Cleared, Settled, Queued
<1>1. Saves(c)
  BY <1>0 DEF Saves
<1>2. CASE at' = Failed(c) /\ UNCHANGED ops
  <2>1. at' \in [Caller -> Task] /\ Others(c) /\ at'[c] = Ended("ended")
    BY <1>0, <1>2, Fails
  <2> QED
    BY <2>1, <1>0, <1>1, <1>2, ChatEnds
<1>3. CASE Queue(c, "persist") /\ Go(c, "writing")
  <2>1. Went(c, "writing") /\ Place("persist") = "writing"
    BY <1>0, <1>3, Goes DEF PC, Place, Queued
  <2>2. QueueWith(c, "persist", at[c].row) /\ at[c].row \in Project \cup {None}
    BY <1>0, <1>3 DEF Queue, Types, Task
  <2> QED
    BY <2>1, <2>2, <1>0, <1>1, ChatAsks DEF Quiet
<1> QED
  BY <1>2, <1>3 DEF Cleared

LEMMA ChatMessage ==
  ASSUME Base, NEW t \in Turn, Message(t)
  PROVE  /\ ChatStep(t) /\ at'[t].pc \in {"items", "fetch"}
         /\ at'[t].pc = "items" => at'[t].row \in Project
<1>0. Types /\ t \in Caller \ Request /\ Quiet /\ UNCHANGED <<ws, ops, sess, stq, bad>>
      /\ at[t].pc \notin Queued
  BY Names DEF Base, Message, Queued
<1>1. PICK k \in Key, next \in Kind, r \in Project :
        at' = [at EXCEPT ![t] =
                [Idle EXCEPT !.pc = IF next = "switch" THEN "items" ELSE "fetch",
                   !.then = next, !.key = k, !.run = scope.run, !.inc = scope.inc,
                   !.row = IF next = "switch" THEN r ELSE None]]
  BY DEF Message
<1> DEFINE p == IF next = "switch" THEN "items" ELSE "fetch"
           w == IF next = "switch" THEN r ELSE None
           e == [Idle EXCEPT !.pc = p, !.then = next, !.key = k, !.run = scope.run,
                             !.inc = scope.inc, !.row = w]
<1>2. /\ Idle \in Task /\ Idle.gen = 0 /\ scope.run \in Nat /\ scope.inc \in Nat
      /\ w \in Project \cup {None} /\ next \in Then /\ p \in PC /\ p \in {"items", "fetch"}
      /\ p = "items" => w \in Project
  BY <1>0, IdleTyped, KindsKnown DEF PC, Types, Scope, Then
<1>3. at' = [at EXCEPT ![t] = e]
  BY <1>1
<1> HIDE DEF p, w
<1>4. e \in Task /\ e.pc = p /\ e.gen = 0 /\ e.row = w
  BY <1>2 DEF Task
<1> HIDE DEF e
<1>5. at' \in [Caller -> Task] /\ Others(t) /\ at'[t] = e
  BY <1>0, <1>3, <1>4, Puts
<1>6. p \in ChatPC /\ p \notin Queued /\ p \notin Waiting /\ p \notin {"idle", "asked", "ended"}
  BY <1>2, ChatPlaces DEF Queued, Waiting
<1>7. ChatStep(t)
  BY <1>0, <1>4, <1>5, <1>6, ChatMove DEF Saves
<1> QED
  BY <1>2, <1>4, <1>5, <1>7

LEMMA ChatResolve ==
  ASSUME Base, NEW t \in Turn, Resolve(t)
  PROVE  /\ ChatStep(t)
         /\ at'[t].pc \in {"fetch", "probe"} /\ at'[t].gen = ws.gen
         /\ at'[t].pc = "probe" => at'[t].session = sess[at[t].key] /\ at'[t].session # 0
<1>0. /\ Types /\ t \in Caller \ Request /\ Quiet /\ UNCHANGED <<ws, ops, sess, stq, bad>>
      /\ at[t].pc \notin Queued /\ at[t] \in Task
  BY Names DEF Base, Resolve, Queued, Types
<1> DEFINE s == IF Current(t) THEN sess[at[t].key] ELSE 0
           p == IF s = 0 THEN "fetch" ELSE "probe"
           n == IF s = 0 THEN "create" ELSE at[t].then
           e == [at[t] EXCEPT !.pc = p, !.then = n, !.held = TRUE, !.session = s, !.gen = ws.gen]
<1>1. /\ s \in 0..MaxSessions /\ ws.gen \in Nat /\ (s # 0 => s = sess[at[t].key])
  <2>1. sess \in [Key -> 0..MaxSessions] /\ at[t].key \in Key /\ ws \in Memory
    BY <1>0 DEF Types, Sessions, Task
  <2>2. sess[at[t].key] \in 0..MaxSessions /\ 0 \in 0..MaxSessions
    BY <2>1, BoundsAreNat
  <2> QED
    BY <2>1, <2>2 DEF Memory
<1>2. at' = [at EXCEPT ![t] = e]
  BY DEF Resolve
<1> HIDE DEF s
<1>3. p \in PC /\ p \in {"fetch", "probe"} /\ n \in Then /\ (p = "probe" => s # 0)
  BY <1>0 DEF PC, Task, Then
<1> HIDE DEF p, n
<1>4. e \in Task /\ e.pc = p /\ e.gen = ws.gen /\ e.session = s
  BY <1>0, <1>1, <1>3 DEF Task
<1> HIDE DEF e
<1>5. at' \in [Caller -> Task] /\ Others(t) /\ at'[t] = e
  BY <1>0, <1>2, <1>4, Puts
<1>6. p \in ChatPC /\ p \notin Queued /\ p \notin Waiting /\ p \notin {"idle", "asked", "ended"}
  BY <1>3, ChatPlaces DEF Queued, Waiting
<1>7. ChatStep(t)
  BY <1>0, <1>4, <1>5, <1>6, ChatMove DEF Saves
<1> QED
  BY <1>1, <1>3, <1>4, <1>5, <1>7

LEMMA ChatProbe ==
  ASSUME Base, NEW t \in Turn, Probe(t)
  PROVE  /\ ChatStep(t)
         /\ at'[t].pc \in {"fetch", "ask"} /\ at'[t].gen = at[t].gen
         /\ at'[t].session = at[t].session
<1>0. /\ Types /\ t \in Caller \ Request /\ Quiet /\ UNCHANGED <<ws, ops, sess, stq, bad>>
      /\ at[t].pc \notin Queued /\ at[t] \in Task
  BY Names DEF Base, Probe, Queued, Types
<1> DEFINE e == [at[t] EXCEPT !.pc = "ask", !.held = FALSE]
           f == [at[t] EXCEPT !.pc = "fetch", !.then = "create"]
<1>1. at' = [at EXCEPT ![t] = e] \/ at' = [at EXCEPT ![t] = f]
  BY DEF Probe
<1>2. /\ e \in Task /\ e.pc = "ask" /\ e.gen = at[t].gen /\ e.session = at[t].session
      /\ f \in Task /\ f.pc = "fetch" /\ f.gen = at[t].gen /\ f.session = at[t].session
  BY <1>0 DEF Task, PC, Then
<1> HIDE DEF e, f
<1>3. at' \in [Caller -> Task] /\ Others(t) /\ at'[t] \in {e, f}
  BY <1>0, <1>1, <1>2, Puts
<1>4. at'[t].pc \in {"fetch", "ask"} /\ at'[t].gen = at[t].gen /\ at'[t].session = at[t].session
  BY <1>2, <1>3
<1>5. /\ at'[t].pc \in ChatPC /\ at'[t].pc \notin Queued /\ at'[t].pc \notin Waiting
      /\ at'[t].pc \notin {"idle", "asked", "ended"}
  BY <1>4, ChatPlaces DEF Queued, Waiting
<1>6. ChatStep(t)
  BY <1>0, <1>3, <1>4, <1>5, ChatMove DEF Saves
<1> QED
  BY <1>4, <1>6

LEMMA ChatCreate ==
  ASSUME Base, NEW t \in Turn, Create(t)
  PROVE  /\ ChatStep(t)
         /\ at'[t].pc \in {"create", "ended"}
         /\ at'[t].pc = "create" =>
              ws.project \in Project /\ at'[t].row = ws.project /\ at'[t].gen = ws.gen
<1>0. /\ Types /\ t \in Caller \ Request /\ Quiet /\ UNCHANGED <<ws, ops, sess, stq, bad>>
      /\ at[t].pc \notin Queued /\ at[t] \in Task /\ Saves(t)
  BY Names DEF Base, Create, Queued, Types, Saves
<1>1. CASE Current(t) /\ ws.project \in Project
  <2> DEFINE e == [at[t] EXCEPT !.pc = "create", !.row = ws.project, !.gen = ws.gen]
  <2>1. at' = [at EXCEPT ![t] = e]
    BY <1>1 DEF Create
  <2>2. ws.gen \in Nat
    BY <1>0 DEF Types, Memory
  <2>3. e \in Task /\ e.pc = "create" /\ e.gen = ws.gen /\ e.row = ws.project
    BY <2>2, <1>0, <1>1 DEF Task, PC
  <2> HIDE DEF e
  <2>4. at' \in [Caller -> Task] /\ Others(t) /\ at'[t] = e
    BY <1>0, <2>1, <2>3, Puts
  <2>5. /\ e.pc \in ChatPC /\ e.pc \notin Queued /\ e.pc \notin Waiting
        /\ e.pc \notin {"idle", "asked", "ended"}
    BY <2>3, ChatPlaces DEF Queued, Waiting
  <2>6. ChatStep(t)
    BY <1>0, <2>3, <2>4, <2>5, ChatMove
  <2> QED
    BY <1>1, <2>3, <2>4, <2>6
<1>2. CASE ~(Current(t) /\ ws.project \in Project)
  <2>1. at' = Failed(t)
    BY <1>2 DEF Create
  <2>2. at' \in [Caller -> Task] /\ Others(t) /\ at'[t] = Ended("ended")
    BY <1>0, <2>1, Fails
  <2>3. at'[t].pc = "ended"
    BY <1>0, <2>2, IdleTyped DEF PC
  <2> QED
    BY <2>2, <2>3, <1>0, ChatEnds
<1> QED
  BY <1>1, <1>2

LEMMA ChatCreated ==
  ASSUME Base, NEW t \in Turn, Created(t), at[t].row \in Project
  PROVE  /\ ChatStep(t)
         /\ at'[t].pc \in {"keep", "ended"}
         /\ at'[t].pc = "keep" =>
              /\ at'[t].row = at[t].row /\ at'[t].gen = at[t].gen
              /\ at'[t].session = Len(host.of) + 1 /\ host'.of = Append(host.of, at[t].row)
<1>0. /\ Types /\ t \in Caller \ Request /\ UNCHANGED <<ws, ops, sess, stq, bad>> /\ Saves(t)
      /\ UNCHANGED <<disk, outer, inner, scope, mishaps>>
      /\ at[t].pc = "create" /\ at[t].pc \notin Queued /\ at[t] \in Task
  BY Names DEF Base, Created, Queued, Types, Saves
<1>1. CASE at[t].row \in host.live /\ Len(host.of) < MaxSessions
  <2> DEFINE n == Len(host.of) + 1
             e == [at[t] EXCEPT !.pc = "keep", !.session = n]
  <2>1. /\ at' = [at EXCEPT ![t] = e]
        /\ host' = [host EXCEPT !.of = Append(host.of, at[t].row)]
    BY <1>1 DEF Created
  <2>2. host \in Host /\ host.of \in Seq(Project) /\ Len(host.of) \in Nat
    BY <1>0, LenProperties DEF Types, Host
  <2>3. n \in 0..MaxSessions
    BY <2>2, <1>1, BoundsAreNat
  <2> DEFINE of == Append(host.of, at[t].row)
  <2>4. of \in Seq(Project) /\ Len(of) = n /\ n <= MaxSessions /\ host' = [host EXCEPT !.of = of]
    BY <2>1, <2>2, <2>3, Joined
  <2> HIDE DEF of
  <2>5. host' \in Host /\ host'.of = of /\ host'.live = host.live /\ Len(host'.of) <= MaxSessions
    BY <2>2, <2>4 DEF Host
  <2> USE DEF of
  <2> HIDE DEF n
  <2>6. e \in Task /\ e.pc = "keep" /\ e.gen = at[t].gen /\ e.row = at[t].row /\ e.session = n
    BY <1>0, <2>3 DEF Task, PC
  <2> HIDE DEF e
  <2>7. at' \in [Caller -> Task] /\ Others(t) /\ at'[t] = e
    BY <1>0, <2>1, <2>6, Puts
  <2>8. /\ e.pc \in ChatPC /\ e.pc \notin Queued /\ e.pc \notin Waiting
        /\ e.pc \notin {"idle", "asked", "ended"}
    BY <2>6, ChatPlaces DEF Queued, Waiting
  <2>9. ChatStep(t)
    BY <1>0, <2>5, <2>6, <2>7, <2>8 DEF ChatStep, Asks, Creates
  <2> QED
    BY <2>5, <2>6, <2>7, <2>9 DEF n
<1>2. CASE ~(at[t].row \in host.live /\ Len(host.of) < MaxSessions)
  <2>1. at' = Failed(t) /\ host' = host
    BY <1>2 DEF Created
  <2>2. at' \in [Caller -> Task] /\ Others(t) /\ at'[t] = Ended("ended")
    BY <1>0, <2>1, Fails
  <2>3. at'[t].pc = "ended"
    BY <1>0, <2>2, IdleTyped DEF PC
  <2> QED
    BY <2>1, <2>2, <2>3, <1>0, ChatEnds DEF Quiet
<1> QED
  BY <1>1, <1>2

\* A turn that starts again has given back what it held.
LEMMA Agains ==
  ASSUME Types, NEW c \in Caller
  PROVE  /\ Again(at[c]) \in Task /\ Again(at[c]).pc = "fetch" /\ Again(at[c]).gen = 0
         /\ ~Again(at[c]).held
<1>1. at[c] \in Task /\ 0 \in 0..MaxSessions
  BY BoundsAreNat DEF Types
<1> QED
  BY <1>1 DEF Again, Task, PC, Then

LEMMA ChatAgain ==
  ASSUME Base, NEW t \in Caller \ Request, at' = [at EXCEPT ![t] = Again(at[t])],
         Quiet, UNCHANGED <<ws, ops, sess, stq, bad>>, at[t].pc \notin Queued
  PROVE  ChatStep(t) /\ at'[t].pc = "fetch"
<1>1. Types
  BY DEF Base
<1>2. at' \in [Caller -> Task] /\ Others(t) /\ at'[t] = Again(at[t])
  BY <1>1, Agains, Puts
<1>3. at'[t].pc = "fetch" /\ at'[t].gen = 0
  BY <1>1, <1>2, Agains
<1>4. "fetch" \in ChatPC /\ "fetch" \notin Queued /\ "fetch" \notin Waiting
  BY ChatPlaces DEF Queued, Waiting
<1> QED
  BY <1>2, <1>3, <1>4, ChatMove DEF Saves

LEMMA ChatKeep ==
  ASSUME Base, NEW t \in Turn, Keep(t)
  PROVE  /\ ChatStep(t)
         /\ at'[t].pc \in {"fetch", "save"}
         /\ at'[t].pc = "save" =>
              at'[t].gen = at[t].gen /\ at'[t].session = at[t].session /\ CurrentSession(t)
<1>0. /\ Types /\ t \in Caller \ Request /\ Quiet /\ UNCHANGED <<ws, ops, bad>>
      /\ at[t].pc \notin Queued /\ at[t] \in Task
  BY Names DEF Base, Keep, Queued, Types
<1>1. CASE CurrentSession(t)
  <2>1. Save(t, [sess EXCEPT ![at[t].key] = at[t].session]) /\ Go(t, "save")
    BY <1>1 DEF Keep
  <2>2. [sess EXCEPT ![at[t].key] = at[t].session] \in Sessions
    BY <1>0 DEF Types, Sessions, Task
  <2>3. Went(t, "save") /\ Saves(t)
    BY <1>0, <2>1, <2>2, Goes DEF Saves, PC
  <2>4. ChatStep(t)
    BY <1>0, <2>3, ChatGoes
  <2> QED
    BY <1>1, <2>3, <2>4 DEF Went, Same
<1>2. CASE ~CurrentSession(t)
  <2>1. at' = [at EXCEPT ![t] = Again(at[t])] /\ UNCHANGED <<sess, stq>>
    BY <1>2 DEF Keep
  <2>2. ChatStep(t) /\ at'[t].pc = "fetch"
    BY <1>0, <2>1, ChatAgain
  <2> QED
    BY <2>2
<1> QED
  BY <1>1, <1>2

LEMMA ChatKept ==
  ASSUME Base, NEW t \in Turn, Kept(t)
  PROVE  /\ ChatStep(t)
         /\ at'[t].pc \in {"ask", "ended"}
         /\ at'[t].pc = "ask" => at'[t].gen = at[t].gen /\ at'[t].session = at[t].session
<1>0. /\ Types /\ t \in Caller \ Request /\ Quiet /\ UNCHANGED <<ws, ops, sess, stq>>
      /\ bad' \subseteq bad /\ at[t].pc \notin Queued /\ at[t] \in Task /\ Saves(t)
  BY Names DEF Base, Kept, Settled, Queued, Types, Saves
<1>1. CASE t \in bad
  <2>1. at' \in [Caller -> Task] /\ Others(t) /\ at'[t] = Ended("ended")
    BY <1>0, <1>1, Fails DEF Kept
  <2>2. at'[t].pc = "ended"
    BY <1>0, <2>1, IdleTyped DEF PC
  <2> QED
    BY <2>1, <2>2, <1>0, ChatEnds
<1>2. CASE t \notin bad
  <2> DEFINE e == [at[t] EXCEPT !.pc = "ask", !.held = FALSE]
  <2>1. at' = [at EXCEPT ![t] = e]
    BY <1>2 DEF Kept
  <2>2. e \in Task /\ e.pc = "ask" /\ e.gen = at[t].gen /\ e.session = at[t].session
    BY <1>0 DEF Task, PC
  <2> HIDE DEF e
  <2>3. at' \in [Caller -> Task] /\ Others(t) /\ at'[t] = e
    BY <1>0, <2>1, <2>2, Puts
  <2>4. /\ e.pc \in ChatPC /\ e.pc \notin Queued /\ e.pc \notin Waiting
        /\ e.pc \notin {"idle", "asked", "ended"}
    BY <2>2, ChatPlaces DEF Queued, Waiting
  <2>5. ChatStep(t)
    BY <1>0, <2>2, <2>3, <2>4, ChatMove
  <2> QED
    BY <2>2, <2>3, <2>5
<1> QED
  BY <1>1, <1>2

LEMMA ChatAsk ==
  ASSUME Base, NEW t \in Turn, Ask(t)
  PROVE  ChatStep(t) /\ at'[t].pc \in {"asked", "fetch"} /\ (at'[t].pc = "asked" => CurrentSession(t))
<1>0. /\ Types /\ t \in Caller \ Request /\ Quiet /\ UNCHANGED <<ws, ops, sess, stq, bad>>
      /\ at[t].pc \notin Queued /\ Saves(t)
  BY Names DEF Base, Ask, Queued, Saves
<1>1. CASE CurrentSession(t)
  <2>1. at' = [at EXCEPT ![t] = Ended("asked")]
    BY <1>1 DEF Ask
  <2>2. Ended("asked") \in Task /\ Ended("asked").pc = "asked"
    BY <1>0, IdleTyped DEF PC
  <2>3. at' \in [Caller -> Task] /\ Others(t) /\ at'[t] = Ended("asked")
    BY <1>0, <2>1, <2>2, Puts
  <2>4. ChatStep(t)
    BY <1>0, <2>3, ChatEnds
  <2> QED
    BY <1>1, <2>2, <2>3, <2>4
<1>2. CASE ~CurrentSession(t)
  <2>1. at' = [at EXCEPT ![t] = Again(at[t])]
    BY <1>2 DEF Ask
  <2>2. ChatStep(t) /\ at'[t].pc = "fetch"
    BY <1>0, <2>1, ChatAgain
  <2> QED
    BY <2>2
<1> QED
  BY <1>1, <1>2

LEMMA ChatAdopt ==
  ASSUME Base, NEW t \in Turn, Adopt(t)
  PROVE  /\ ChatStep(t)
         /\ at'[t].pc \in {"adopted", "ended"}
         /\ at'[t].pc = "adopted" => at'[t].session \in 1..Len(host.of)
<1>0. /\ Types /\ t \in Caller \ Request /\ Quiet /\ UNCHANGED <<ws, ops, sess, stq, bad>>
      /\ at[t].pc \notin Queued /\ at[t] \in Task /\ Saves(t)
  BY Names DEF Base, Adopt, Queued, Types, Saves
<1>1. CASE Current(t) /\ host.of # <<>>
  <2>1. host.of \in Seq(Project) /\ Len(host.of) \in Nat /\ DOMAIN host.of = 1..Len(host.of)
        /\ Len(host.of) <= MaxSessions
    BY <1>0, LenProperties DEF Types, Host
  <2>2. PICK s \in DOMAIN host.of :
          at' = [at EXCEPT ![t].pc = "adopted", ![t].session = s, ![t].gen = ws.gen]
    BY <1>1 DEF Adopt
  <2> DEFINE e == [at[t] EXCEPT !.pc = "adopted", !.session = s, !.gen = ws.gen]
  <2>3. at' = [at EXCEPT ![t] = e]
    BY <2>2
  <2>4. s \in 0..MaxSessions /\ s \in 1..Len(host.of)
    BY <2>1, <2>2, BoundsAreNat
  <2>5. ws.gen \in Nat
    BY <1>0 DEF Types, Memory
  <2>6. e \in Task /\ e.pc = "adopted" /\ e.gen = ws.gen /\ e.session = s
    BY <1>0, <2>4, <2>5 DEF Task, PC
  <2> HIDE DEF e
  <2>7. at' \in [Caller -> Task] /\ Others(t) /\ at'[t] = e
    BY <1>0, <2>3, <2>6, Puts
  <2>8. /\ e.pc \in ChatPC /\ e.pc \notin Queued /\ e.pc \notin Waiting
        /\ e.pc \notin {"idle", "asked", "ended"}
    BY <2>6, ChatPlaces DEF Queued, Waiting
  <2>9. ChatStep(t)
    BY <1>0, <2>6, <2>7, <2>8, ChatMove
  <2> QED
    BY <2>4, <2>6, <2>7, <2>9
<1>2. CASE ~(Current(t) /\ host.of # <<>>)
  <2>1. at' \in [Caller -> Task] /\ Others(t) /\ at'[t] = Ended("ended")
    BY <1>0, <1>2, Fails DEF Adopt
  <2>2. at'[t].pc = "ended"
    BY <1>0, <2>1, IdleTyped DEF PC
  <2> QED
    BY <2>1, <2>2, <1>0, ChatEnds
<1> QED
  BY <1>1, <1>2

LEMMA ChatAdopted ==
  ASSUME Base, NEW t \in Turn, Adopted(t)
  PROVE  ChatStep(t) /\ at'[t].pc \in {"binding", "ended"}
<1>0. /\ Types /\ t \in Caller \ Request /\ t \in Caller /\ Quiet /\ UNCHANGED <<ws, sess, stq, bad>>
      /\ at[t].pc = "adopted" /\ at[t].pc \notin Queued /\ at[t] \in Task /\ Saves(t)
  BY Names DEF Base, Adopted, Queued, Types, Saves
<1>1. CASE CurrentSession(t) /\ host.of[at[t].session] = ws.project
  <2>1. QueueWith(t, "bind", ws.project) /\ Go(t, "binding")
    BY <1>1 DEF Adopted
  <2>2. ws.project \in Project \cup {None}
    BY <1>0, <1>1 DEF Types, Memory, CurrentSession, Current, Has
  <2>3. Went(t, "binding") /\ Place("bind") = "binding"
    BY <1>0, <2>1, Goes DEF PC, Place, Queued
  <2>4. ChatStep(t)
    BY <1>0, <1>1, <2>1, <2>2, <2>3, ChatAsks DEF Quiet
  <2> QED
    BY <2>3, <2>4 DEF Went
<1>2. CASE ~(CurrentSession(t) /\ host.of[at[t].session] = ws.project)
  <2>1. at' \in [Caller -> Task] /\ Others(t) /\ at'[t] = Ended("ended") /\ ops' = ops
    BY <1>0, <1>2, Fails DEF Adopted
  <2>2. at'[t].pc = "ended"
    BY <1>0, <2>1, IdleTyped DEF PC
  <2> QED
    BY <2>1, <2>2, <1>0, ChatEnds
<1> QED
  BY <1>1, <1>2

LEMMA ChatSwitches ==
  ASSUME Base, NEW t \in Turn, SetProject(t)
  PROVE  ChatStep(t) /\ at'[t].pc \in {"setting", "ended"}
<1>0. /\ Types /\ t \in Caller \ Request /\ t \in Caller /\ Quiet /\ UNCHANGED <<ws, sess, stq, bad>>
      /\ at[t].pc = "items" /\ at[t].pc \notin Queued /\ at[t] \in Task /\ Saves(t)
  BY Names DEF Base, SetProject, Queued, Types, Saves, Quiet
<1>1. CASE Queue(t, "set") /\ Go(t, "setting")
  <2>1. Went(t, "setting") /\ Place("set") = "setting"
    BY <1>0, <1>1, Goes DEF PC, Place, Queued
  <2>2. QueueWith(t, "set", at[t].row) /\ at[t].row \in Project \cup {None}
    BY <1>0, <1>1 DEF Queue, Task
  <2>3. ChatStep(t)
    BY <2>1, <2>2, <1>0, ChatAsks DEF Quiet
  <2> QED
    BY <2>1, <2>3 DEF Went
<1>2. CASE at' = Failed(t) /\ UNCHANGED ops
  <2>1. at' \in [Caller -> Task] /\ Others(t) /\ at'[t] = Ended("ended")
    BY <1>0, <1>2, Fails
  <2>2. at'[t].pc = "ended"
    BY <1>0, <2>1, IdleTyped DEF PC
  <2> QED
    BY <2>1, <2>2, <1>0, <1>2, ChatEnds
<1> QED
  BY <1>1, <1>2 DEF SetProject

LEMMA ChatOther ==
  ASSUME Base, OtherStarts \/ OtherEnds
  PROVE  ChatStep(Other)
<1>0. /\ Types /\ Other \in Caller \ Request /\ Quiet /\ UNCHANGED <<ws, ops, sess, stq, bad>>
      /\ at[Other].pc \notin Queued /\ Saves(Other)
  BY Names DEF Base, OtherStarts, OtherEnds, Queued, Saves
<1>1. CASE OtherStarts
  <2>1. Go(Other, "fetch")
    BY <1>1 DEF OtherStarts, Go
  <2>2. Went(Other, "fetch")
    BY <1>0, <2>1, Goes DEF PC
  <2> QED
    BY <1>0, <2>2, ChatGoes
<1>2. CASE OtherEnds
  <2>1. at' = [at EXCEPT ![Other] = Ended("ended")]
    BY <1>2 DEF OtherEnds
  <2>2. at' \in [Caller -> Task] /\ Others(Other) /\ at'[Other] = Ended("ended")
    BY <1>0, <2>1, Puts, IdleTyped DEF PC
  <2> QED
    BY <1>0, <2>2, ChatEnds
<1> QED
  BY <1>1, <1>2

-----------------------------------------------------------------------------
(* Steps of the settings page                                                *)

PageKinds == {"set", "begin", "retire", "ensure", "abort", "finish"}
PageSaves(r) ==
  \/ sess' = sess /\ stq' = stq
  \/ Save(r, NoSession)
  \/ at[r].pc = "cleaning" /\ sess' = disk.sessions /\ stq' = stq
RequestStep(r) ==
  /\ r \in Request /\ at' \in [Caller -> Task] /\ Others(r)
  /\ at'[r].pc \in Path(at'[r].then) /\ at'[r].gen \in {at[r].gen, 0}
  /\ UNCHANGED <<host, ws>>
  /\ disk' \in Disk /\ disk'.project = disk.project /\ disk'.sessions = disk.sessions
  /\ bad' \subseteq bad /\ PageSaves(r) /\ Asks(r, PageKinds)
  /\ outer' \in Request \cup {None} /\ inner' \in Request \cup {None}
  /\ scope' \in Scope /\ mishaps' \in Nat

LEMMA RequestBase ==
  ASSUME Base, NEW r, RequestStep(r)
  PROVE  Base'
<1>0. r \in Caller /\ r \in Request /\ Types /\ Gens /\ at' \in [Caller -> Task]
  BY Names DEF RequestStep, Base
<1>1. \A d \in Caller \ {r} : Aside(d)
  BY DEF RequestStep, Others, Aside
<1>2. /\ ops' \in Seq(Operation) /\ Line'
      /\ \A i \in 1..Len(ops') : (\E j \in 1..Len(ops) : ops'[i].gen = ops[j].gen)
                                 \/ \E d \in Caller : ops'[i].gen = at[d].gen
  BY <1>0, <1>1, AsksKeep DEF RequestStep
<1>3. ws' = ws /\ ws' \in Memory /\ ws'.gen < ws'.nextGen /\ ws.nextGen <= ws'.nextGen
  BY <1>0 DEF RequestStep, Types, Memory, Gens
<1>4. \A d \in Caller : at'[d].gen \in {at[d].gen, ws.gen, 0}
  BY DEF RequestStep, Others
<1>5. Gens'
  BY <1>0, <1>2, <1>3, <1>4, GensKept
<1>6. sess' \in Sessions /\ stq' \in Seq(Write)
  <2>1. CASE sess' = sess /\ stq' = stq
    BY <2>1, <1>0 DEF Types
  <2>2. CASE Save(r, NoSession)
    BY <2>2, <1>0, Writes, NoSessionTyped
  <2>3. CASE sess' = disk.sessions /\ stq' = stq
    BY <2>3, <1>0 DEF Types, Disk
  <2> QED
    BY <2>1, <2>2, <2>3 DEF RequestStep, PageSaves
<1>7. host' \in Host /\ Len(host'.of) <= MaxSessions
  BY <1>0 DEF RequestStep, Types
<1>8. Types'
  <2>1. bad' \subseteq Caller \cup {Op}
    BY <1>0 DEF RequestStep, Types
  <2>2. /\ disk' \in Disk /\ outer' \in Request \cup {None} /\ inner' \in Request \cup {None}
        /\ scope' \in Scope /\ mishaps' \in Nat
    BY DEF RequestStep
  <2> QED
    BY <2>1, <2>2, <1>0, <1>2, <1>3, <1>6, <1>7 DEF Types
<1>9. Roles'
  <2>1. \A d \in Caller \ {r} : at'[d] = at[d]
    BY DEF RequestStep, Others
  <2>2. at'[r].pc \in Path(at'[r].then)
    BY DEF RequestStep
  <2> QED
    BY <2>1, <2>2, <1>0, Names DEF Base, Roles
<1> QED
  BY <1>2, <1>5, <1>8, <1>9 DEF Base

\* Where a request is tells what it wants.
LEMMA Wants ==
  ASSUME Base, NEW r \in Request
  PROVE  /\ at[r] \in Task /\ r \in Caller /\ r \notin Turn /\ at[r].pc \notin Waiting
         /\ at[r].pc \in {"choose", "items", "setting"} <=> at[r].then = "choose" /\ at[r].pc \notin {"fail", "leave"}
         /\ at[r].pc \in {"bind", "config"} => at[r].then = "bind"
         /\ at[r].pc \in {"ensuring", "scope"} => at[r].then \in {"bind", "delete"}
         /\ at[r].pc \in {"fail", "leave"} => at[r].then \in {"choose", "bind", "delete"}
         /\ at[r].pc \in {"delete", "fencing", "remove", "stop", "commit", "retiring", "cleanup",
                          "cleaning", "unsafe", "finishing"} => at[r].then = "delete"
         /\ at[r].pc \in {"idle", "ended"} <=> at[r].then = "none"
<1>1. r \in Caller /\ r \notin Turn /\ at[r] \in Task
  BY Names DEF Base, Types
<1>2. at[r].pc \in Path(at[r].then) /\ at[r].then \in Then
  BY <1>1 DEF Base, Roles, Task
<1> QED
  BY <1>1, <1>2 DEF Path, Then, Fenced, Waiting

\* A request that goes on without asking for an operation.
LEMMA RequestGoes ==
  ASSUME Base, NEW r \in Request, NEW p, Went(r, p), p \in Path(at[r].then),
         p \notin Queued, at[r].pc \notin Queued, UNCHANGED <<host, ws, ops>>, PageSaves(r), bad' = bad,
         disk' \in Disk, disk'.project = disk.project, disk'.sessions = disk.sessions,
         outer' \in Request \cup {None}, inner' \in Request \cup {None},
         scope' \in Scope, mishaps' \in Nat
  PROVE  RequestStep(r)
  BY DEF RequestStep, Went, Same, Asks

LEMMA RequestAsks ==
  ASSUME Base, NEW r \in Request, NEW kind \in PageKinds, Queue(r, kind), Went(r, Place(kind)),
         Place(kind) \in Path(at[r].then), at[r].pc \notin Queued,
         UNCHANGED <<host, ws>>, PageSaves(r), bad' \subseteq bad,
         disk' \in Disk, disk'.project = disk.project, disk'.sessions = disk.sessions,
         outer' \in Request \cup {None}, inner' \in Request \cup {None},
         scope' \in Scope, mishaps' \in Nat, kind = "set" => at[r].pc = "items"
  PROVE  RequestStep(r)
<1>0. Types /\ kind \in OpKind /\ r \in Caller /\ at[r].row \in Project \cup {None}
      /\ QueueWith(r, kind, at[r].row)
  BY Wants DEF Base, OpKind, PageKinds, Queue, Task
<1>1. PICK o \in Operation :
         /\ ops' = Append(ops, o) /\ o.kind = kind /\ o.by = r /\ o.step = "queued"
         /\ o.gen = at[r].gen /\ o.row = at[r].row /\ o.session = at[r].session
  BY <1>0, Queues
<1>2. Asks(r, PageKinds)
  BY <1>1 DEF Asks, Went, PageKinds
<1> QED
  BY <1>2 DEF RequestStep, Went, Same

LEMMA RequestInvoke ==
  ASSUME Base, NEW r \in Request, Invoke(r)
  PROVE  /\ RequestStep(r)
         /\ at'[r].pc \in {"choose", "delete", "bind"} /\ at'[r].then = at'[r].pc
         /\ at'[r].pc = "choose" => at'[r].row \in Project
<1>0. /\ Types /\ Quiet /\ UNCHANGED <<ws, ops, sess, stq, bad>> /\ at[r].pc = "idle"
      /\ at[r].pc \notin Queued /\ PageSaves(r) /\ r \in Caller
  BY Wants DEF Base, Invoke, Queued, PageSaves
<1>1. PICK want \in May[r], p \in Project :
        at' = [at EXCEPT ![r] = [Idle EXCEPT !.pc = want, !.then = want, !.inc = ws.inc,
                                   !.row = IF want = "choose" THEN p ELSE None]]
  BY DEF Invoke
<1> DEFINE w == IF want = "choose" THEN p ELSE None
           e == [Idle EXCEPT !.pc = want, !.then = want, !.inc = ws.inc, !.row = w]
<1>2. /\ Idle \in Task /\ Idle.gen = 0 /\ ws.inc \in Nat /\ w \in Project \cup {None}
      /\ want \in {"choose", "delete", "bind"} /\ want \in Then /\ want \in PC
      /\ (want = "choose" => w \in Project)
  BY <1>0, IdleTyped, MayIsKnown DEF PC, Types, Memory, Then
<1>3. at' = [at EXCEPT ![r] = e]
  BY <1>1
<1> HIDE DEF w
<1>4. e \in Task /\ e.pc = want /\ e.then = want /\ e.gen = 0 /\ e.row = w
  BY <1>2 DEF Task
<1> HIDE DEF e
<1>5. at' \in [Caller -> Task] /\ Others(r) /\ at'[r] = e
  BY <1>0, <1>3, <1>4, Puts
<1>6. want \in Path(want) /\ want \notin Queued
  BY <1>2 DEF Path, Queued
<1>7. /\ disk' \in Disk /\ disk' = disk /\ outer' \in Request \cup {None}
      /\ inner' \in Request \cup {None} /\ scope' \in Scope /\ mishaps' \in Nat /\ host' = host
  BY <1>0 DEF Quiet, Types
<1>8. Asks(r, PageKinds)
  BY <1>0, <1>4, <1>5, <1>6 DEF Asks
<1>9. RequestStep(r)
  BY <1>0, <1>4, <1>5, <1>6, <1>7, <1>8 DEF RequestStep
<1> QED
  BY <1>2, <1>4, <1>5, <1>9

\* The incarnation of a runtime that is stopped, and of one that starts.
LEMMA Scopes ==
  ASSUME Types
  PROVE  /\ Stopped \in Scope /\ Stopped.inc = 0
         /\ Started(ws.inc) \in Scope /\ Started(ws.inc).inc = ws.inc
<1>1. scope \in [run : Nat, inc : Nat] /\ ws.inc \in Nat
  BY DEF Types, Scope, Memory
<1>2. Stopped \in [run : Nat, inc : Nat] /\ Stopped.inc = 0
  BY <1>1 DEF Stopped
<1>3. Started(ws.inc) \in [run : Nat, inc : Nat] /\ Started(ws.inc).inc = ws.inc
  BY <1>1 DEF Started
<1> QED
  BY <1>2, <1>3 DEF Scope

\* What a request leaves as it is keeps its type.
LEMMA PageTypes ==
  ASSUME Base
  PROVE  /\ disk \in Disk /\ outer \in Request \cup {None} /\ inner \in Request \cup {None}
         /\ scope \in Scope /\ mishaps \in Nat /\ Types
         /\ disk' = [disk EXCEPT !.configured = TRUE] =>
              /\ disk' \in Disk /\ disk'.project = disk.project /\ disk'.sessions = disk.sessions
              /\ disk'.configured
         /\ disk' = [disk EXCEPT !.configured = FALSE] =>
              /\ disk' \in Disk /\ disk'.project = disk.project /\ disk'.sessions = disk.sessions
              /\ ~disk'.configured
  BY DEF Base, Types, Disk

LEMMA RequestChoose ==
  ASSUME Base, NEW r \in Request, Choose(r)
  PROVE  RequestStep(r) /\ \E p \in {"items", "fail"} : Went(r, p)
<1>0. /\ Types /\ r \in Caller /\ at[r].pc \in {"choose"} /\ at[r].pc \notin Queued
      /\ at[r].then = "choose" /\ UNCHANGED <<host, ws, ops>> /\ bad' = bad
  BY Wants DEF Base, Choose, Queued, Quiet
<1>1. PICK p \in {"items", "fail"} : Go(r, p)
  BY <1>0 DEF Choose
<1>2. Went(r, p)
  BY <1>0, <1>1, Goes DEF PC
<1>3. p \in Path(at[r].then) /\ p \notin Queued
  BY <1>0 DEF Path, Fenced, Queued
<1>4. PageSaves(r)
  BY DEF Choose, PageSaves, Quiet
<1>5. /\ disk' \in Disk /\ disk'.project = disk.project /\ disk'.sessions = disk.sessions
      /\ outer' \in Request \cup {None} /\ inner' \in Request \cup {None}
      /\ scope' \in Scope /\ mishaps' \in Nat
  BY PageTypes, Scopes, <1>0 DEF Choose, Quiet, Happens
<1>6. RequestStep(r)
  BY <1>0, <1>2, <1>3, <1>4, <1>5, RequestGoes
<1> QED
  BY <1>2, <1>6

LEMMA RequestKnown ==
  ASSUME Base, NEW r \in Request, Known(r)
  PROVE  RequestStep(r) /\ \E p \in {"stop", "unsafe"} : Went(r, p)
<1>0. /\ Types /\ r \in Caller /\ at[r].pc \in {"remove"} /\ at[r].pc \notin Queued
      /\ at[r].then = "delete" /\ UNCHANGED <<host, ws, ops>> /\ bad' = bad
  BY Wants DEF Base, Known, Queued, Quiet
<1>1. PICK p \in {"stop", "unsafe"} : Go(r, p)
  BY <1>0 DEF Known
<1>2. Went(r, p)
  BY <1>0, <1>1, Goes DEF PC
<1>3. p \in Path(at[r].then) /\ p \notin Queued
  BY <1>0 DEF Path, Fenced, Queued
<1>4. PageSaves(r)
  BY DEF Known, PageSaves, Quiet
<1>5. /\ disk' \in Disk /\ disk'.project = disk.project /\ disk'.sessions = disk.sessions
      /\ outer' \in Request \cup {None} /\ inner' \in Request \cup {None}
      /\ scope' \in Scope /\ mishaps' \in Nat
  BY PageTypes, Scopes, <1>0 DEF Known, Quiet, Happens
<1>6. RequestStep(r)
  BY <1>0, <1>2, <1>3, <1>4, <1>5, RequestGoes
<1> QED
  BY <1>2, <1>6

LEMMA RequestStop ==
  ASSUME Base, NEW r \in Request, StopRuntime(r)
  PROVE  RequestStep(r) /\ Went(r, IF at[r].pc = "stop" THEN "commit" ELSE "config")
<1> DEFINE p == IF at[r].pc = "stop" THEN "commit" ELSE "config"
<1>0. /\ Types /\ r \in Caller /\ at[r].pc \in {"stop", "bind"} /\ at[r].pc \notin Queued
      /\ (at[r].pc = "stop" => at[r].then = "delete") /\ (at[r].pc = "bind" => at[r].then = "bind")
      /\ UNCHANGED <<host, ws, ops>> /\ bad' = bad
  BY Wants DEF Base, StopRuntime, Queued
<1>1. Go(r, p)
  BY <1>0 DEF StopRuntime
<1>2. p \in Path(at[r].then) /\ p \notin Queued /\ p \in PC
  BY <1>0 DEF Path, Fenced, Queued, PC
<1>3. Went(r, p)
  BY <1>0, <1>1, <1>2, Goes
<1>4. PageSaves(r)
  BY DEF StopRuntime, PageSaves
<1>5. /\ disk' \in Disk /\ disk'.project = disk.project /\ disk'.sessions = disk.sessions
      /\ outer' \in Request \cup {None} /\ inner' \in Request \cup {None}
      /\ scope' \in Scope /\ mishaps' \in Nat
  BY PageTypes, Scopes, <1>0 DEF StopRuntime
<1>6. RequestStep(r)
  BY <1>0, <1>2, <1>3, <1>4, <1>5, RequestGoes
<1> QED
  BY <1>3, <1>6

LEMMA RequestDelete ==
  ASSUME Base, NEW r \in Request, Delete(r)
  PROVE  RequestStep(r) /\ \E p \in {"fencing"} : Went(r, p)
<1>0. /\ Types /\ r \in Caller /\ at[r].pc = "delete" /\ at[r].pc \notin Queued
      /\ at[r].then = "delete" /\ UNCHANGED <<host, ws>> /\ bad' \subseteq bad
  BY Wants DEF Base, Delete, Queued, Quiet
<1>1. PageSaves(r)
  BY <1>0 DEF Delete, PageSaves, Quiet
<1>2. /\ disk' \in Disk /\ disk'.project = disk.project /\ disk'.sessions = disk.sessions
      /\ outer' \in Request \cup {None} /\ inner' \in Request \cup {None}
      /\ scope' \in Scope /\ mishaps' \in Nat
  BY PageTypes, Scopes, <1>0 DEF Delete, Quiet, Happens
<1>3. ASSUME Queue(r, "begin"), Go(r, "fencing")
      PROVE  RequestStep(r) /\ Went(r, "fencing")
  <2>1. /\ Place("begin") = "fencing" /\ "begin" \in PageKinds /\ "fencing" \in PC
        /\ "fencing" \in Path(at[r].then)
    BY <1>0 DEF Place, PageKinds, PC, Path, Fenced, Queued
  <2>2. Went(r, "fencing")
    BY <1>0, <1>3, <2>1, Goes
  <2>3. RequestStep(r)
    BY <1>0, <1>1, <1>2, <1>3, <2>1, <2>2, RequestAsks
  <2> QED
    BY <2>2, <2>3
<1> QED
  BY <1>3 DEF Delete

LEMMA RequestCommit ==
  ASSUME Base, NEW r \in Request, Commit(r)
  PROVE  RequestStep(r) /\ \E p \in {"retiring", "ensuring"} : Went(r, p)
<1>0. /\ Types /\ r \in Caller /\ at[r].pc = "commit" /\ at[r].pc \notin Queued
      /\ at[r].then = "delete" /\ UNCHANGED <<host, ws>> /\ bad' \subseteq bad
  BY Wants DEF Base, Commit, Queued, Quiet
<1>1. PageSaves(r)
  BY <1>0 DEF Commit, PageSaves, Quiet
<1>2. /\ disk' \in Disk /\ disk'.project = disk.project /\ disk'.sessions = disk.sessions
      /\ outer' \in Request \cup {None} /\ inner' \in Request \cup {None}
      /\ scope' \in Scope /\ mishaps' \in Nat
  <2>1. /\ disk' = disk \/ disk' = [disk EXCEPT !.configured = FALSE]
        /\ mishaps' = mishaps \/ mishaps' = mishaps + 1
        /\ outer' = outer /\ inner' = inner /\ scope' = scope
    BY DEF Commit, Happens
  <2>2. disk' \in Disk /\ disk'.project = disk.project /\ disk'.sessions = disk.sessions
    BY <2>1, PageTypes
  <2>3. /\ outer' \in Request \cup {None} /\ inner' \in Request \cup {None} /\ scope' \in Scope
    BY <1>0, <2>1, PageTypes, Scopes
  <2>4. mishaps' \in Nat
    BY <2>1, PageTypes
  <2> QED
    BY <2>2, <2>3, <2>4
<1>3. ASSUME Queue(r, "retire"), Go(r, "retiring")
      PROVE  RequestStep(r) /\ Went(r, "retiring")
  <2>1. /\ Place("retire") = "retiring" /\ "retire" \in PageKinds /\ "retiring" \in PC
        /\ "retiring" \in Path(at[r].then)
    BY <1>0 DEF Place, PageKinds, PC, Path, Fenced, Queued
  <2>2. Went(r, "retiring")
    BY <1>0, <1>3, <2>1, Goes
  <2>3. RequestStep(r)
    BY <1>0, <1>1, <1>2, <1>3, <2>1, <2>2, RequestAsks
  <2> QED
    BY <2>2, <2>3
<1>4. ASSUME Queue(r, "ensure"), Go(r, "ensuring")
      PROVE  RequestStep(r) /\ Went(r, "ensuring")
  <2>1. /\ Place("ensure") = "ensuring" /\ "ensure" \in PageKinds /\ "ensuring" \in PC
        /\ "ensuring" \in Path(at[r].then)
    BY <1>0 DEF Place, PageKinds, PC, Path, Fenced, Queued
  <2>2. Went(r, "ensuring")
    BY <1>0, <1>4, <2>1, Goes
  <2>3. RequestStep(r)
    BY <1>0, <1>1, <1>2, <1>4, <2>1, <2>2, RequestAsks
  <2> QED
    BY <2>2, <2>3
<1> QED
  BY <1>3, <1>4 DEF Commit

LEMMA RequestCleanup ==
  ASSUME Base, NEW r \in Request, Cleanup(r)
  PROVE  RequestStep(r) /\ \E p \in {"cleaning"} : Went(r, p)
<1>0. /\ Types /\ r \in Caller /\ at[r].pc = "cleanup" /\ at[r].pc \notin Queued
      /\ at[r].then = "delete" /\ UNCHANGED <<host, ws>> /\ bad' \subseteq bad
  BY Wants DEF Base, Cleanup, Queued, Quiet
<1>1. PageSaves(r)
  BY <1>0 DEF Cleanup, PageSaves, Quiet
<1>2. /\ disk' \in Disk /\ disk'.project = disk.project /\ disk'.sessions = disk.sessions
      /\ outer' \in Request \cup {None} /\ inner' \in Request \cup {None}
      /\ scope' \in Scope /\ mishaps' \in Nat
  BY PageTypes, Scopes, <1>0 DEF Cleanup, Quiet, Happens
<1>3. ASSUME Go(r, "cleaning"), UNCHANGED ops, bad' = bad
      PROVE  RequestStep(r) /\ Went(r, "cleaning")
  <2>1. "cleaning" \in PC /\ "cleaning" \in Path(at[r].then) /\ "cleaning" \notin Queued
    BY <1>0 DEF PC, Path, Fenced, Queued
  <2>2. Went(r, "cleaning")
    BY <1>0, <1>3, <2>1, Goes
  <2>3. RequestStep(r)
    BY <1>0, <1>1, <1>2, <1>3, <2>1, <2>2, RequestGoes
  <2> QED
    BY <2>2, <2>3
<1> QED
  BY <1>3 DEF Cleanup

LEMMA RequestCleanedUp ==
  ASSUME Base, NEW r \in Request, CleanedUp(r)
  PROVE  RequestStep(r) /\ \E p \in {"finishing"} : Went(r, p)
<1>0. /\ Types /\ r \in Caller /\ at[r].pc = "cleaning" /\ at[r].pc \notin Queued
      /\ at[r].then = "delete" /\ UNCHANGED <<host, ws>> /\ bad' \subseteq bad
  BY Wants DEF Base, CleanedUp, Queued, Quiet, Settled
<1>1. PageSaves(r)
  BY <1>0 DEF CleanedUp, PageSaves, Quiet, Settled
<1>2. /\ disk' \in Disk /\ disk'.project = disk.project /\ disk'.sessions = disk.sessions
      /\ outer' \in Request \cup {None} /\ inner' \in Request \cup {None}
      /\ scope' \in Scope /\ mishaps' \in Nat
  BY PageTypes, Scopes, <1>0 DEF CleanedUp, Quiet, Happens, Settled
<1>3. ASSUME Queue(r, "finish"), Go(r, "finishing")
      PROVE  RequestStep(r) /\ Went(r, "finishing")
  <2>1. /\ Place("finish") = "finishing" /\ "finish" \in PageKinds /\ "finishing" \in PC
        /\ "finishing" \in Path(at[r].then)
    BY <1>0 DEF Place, PageKinds, PC, Path, Fenced, Queued
  <2>2. Went(r, "finishing")
    BY <1>0, <1>3, <2>1, Goes
  <2>3. RequestStep(r)
    BY <1>0, <1>1, <1>2, <1>3, <2>1, <2>2, RequestAsks
  <2> QED
    BY <2>2, <2>3
<1> QED
  BY <1>3 DEF CleanedUp

LEMMA RequestSaveConfig ==
  ASSUME Base, NEW r \in Request, SaveConfig(r)
  PROVE  RequestStep(r) /\ \E p \in {"ensuring", "fail"} : Went(r, p)
<1>0. /\ Types /\ r \in Caller /\ at[r].pc = "config" /\ at[r].pc \notin Queued
      /\ at[r].then = "bind" /\ UNCHANGED <<host, ws>> /\ bad' \subseteq bad
  BY Wants DEF Base, SaveConfig, Queued, Quiet
<1>1. PageSaves(r)
  BY <1>0 DEF SaveConfig, PageSaves, Quiet
<1>2. /\ disk' \in Disk /\ disk'.project = disk.project /\ disk'.sessions = disk.sessions
      /\ outer' \in Request \cup {None} /\ inner' \in Request \cup {None}
      /\ scope' \in Scope /\ mishaps' \in Nat
  <2>1. /\ disk' = disk \/ disk' = [disk EXCEPT !.configured = TRUE]
        /\ mishaps' = mishaps \/ mishaps' = mishaps + 1
        /\ outer' = outer /\ inner' = inner /\ scope' \in {scope, Stopped}
    BY DEF SaveConfig, Happens
  <2>2. disk' \in Disk /\ disk'.project = disk.project /\ disk'.sessions = disk.sessions
    BY <2>1, PageTypes
  <2>3. /\ outer' \in Request \cup {None} /\ inner' \in Request \cup {None} /\ scope' \in Scope
    BY <1>0, <2>1, PageTypes, Scopes
  <2>4. mishaps' \in Nat
    BY <2>1, PageTypes
  <2> QED
    BY <2>2, <2>3, <2>4
<1>3. ASSUME Queue(r, "ensure"), Go(r, "ensuring")
      PROVE  RequestStep(r) /\ Went(r, "ensuring")
  <2>1. /\ Place("ensure") = "ensuring" /\ "ensure" \in PageKinds /\ "ensuring" \in PC
        /\ "ensuring" \in Path(at[r].then)
    BY <1>0 DEF Place, PageKinds, PC, Path, Fenced, Queued
  <2>2. Went(r, "ensuring")
    BY <1>0, <1>3, <2>1, Goes
  <2>3. RequestStep(r)
    BY <1>0, <1>1, <1>2, <1>3, <2>1, <2>2, RequestAsks
  <2> QED
    BY <2>2, <2>3
<1>4. ASSUME Go(r, "fail"), UNCHANGED ops, bad' = bad
      PROVE  RequestStep(r) /\ Went(r, "fail")
  <2>1. "fail" \in PC /\ "fail" \in Path(at[r].then) /\ "fail" \notin Queued
    BY <1>0 DEF PC, Path, Fenced, Queued
  <2>2. Went(r, "fail")
    BY <1>0, <1>4, <2>1, Goes
  <2>3. RequestStep(r)
    BY <1>0, <1>1, <1>2, <1>4, <2>1, <2>2, RequestGoes
  <2> QED
    BY <2>2, <2>3
<1> QED
  BY <1>3, <1>4 DEF SaveConfig

LEMMA RequestUnsafe ==
  ASSUME Base, NEW r \in Request, DeleteFails(r)
  PROVE  RequestStep(r) /\ \E p \in {"finishing"} : Went(r, p)
<1>0. /\ Types /\ r \in Caller /\ at[r].pc = "unsafe" /\ at[r].pc \notin Queued
      /\ at[r].then = "delete" /\ UNCHANGED <<host, ws>> /\ bad' \subseteq bad
  BY Wants DEF Base, DeleteFails, Queued, Quiet
<1>1. PageSaves(r)
  BY <1>0 DEF DeleteFails, PageSaves, Quiet
<1>2. /\ disk' \in Disk /\ disk'.project = disk.project /\ disk'.sessions = disk.sessions
      /\ outer' \in Request \cup {None} /\ inner' \in Request \cup {None}
      /\ scope' \in Scope /\ mishaps' \in Nat
  BY PageTypes, Scopes, <1>0 DEF DeleteFails, Quiet, Happens
<1>3. ASSUME Queue(r, "abort"), Go(r, "finishing")
      PROVE  RequestStep(r) /\ Went(r, "finishing")
  <2>1. /\ Place("abort") = "finishing" /\ "abort" \in PageKinds /\ "finishing" \in PC
        /\ "finishing" \in Path(at[r].then)
    BY <1>0 DEF Place, PageKinds, PC, Path, Fenced, Queued
  <2>2. Went(r, "finishing")
    BY <1>0, <1>3, <2>1, Goes
  <2>3. RequestStep(r)
    BY <1>0, <1>1, <1>2, <1>3, <2>1, <2>2, RequestAsks
  <2> QED
    BY <2>2, <2>3
<1>4. ASSUME Queue(r, "finish"), Go(r, "finishing")
      PROVE  RequestStep(r) /\ Went(r, "finishing")
  <2>1. /\ Place("finish") = "finishing" /\ "finish" \in PageKinds /\ "finishing" \in PC
        /\ "finishing" \in Path(at[r].then)
    BY <1>0 DEF Place, PageKinds, PC, Path, Fenced, Queued
  <2>2. Went(r, "finishing")
    BY <1>0, <1>4, <2>1, Goes
  <2>3. RequestStep(r)
    BY <1>0, <1>1, <1>2, <1>4, <2>1, <2>2, RequestAsks
  <2> QED
    BY <2>2, <2>3
<1> QED
  BY <1>3, <1>4 DEF DeleteFails

LEMMA RequestSetProject ==
  ASSUME Base, NEW r \in Request, SetProject(r)
  PROVE  RequestStep(r) /\ \E p \in {"setting", "fail"} : Went(r, p)
<1>0. /\ Types /\ r \in Caller /\ at[r].pc = "items" /\ at[r].pc \notin Queued
      /\ at[r].then = "choose" /\ UNCHANGED <<host, ws>> /\ bad' \subseteq bad
  BY Wants DEF Base, SetProject, Queued, Quiet
<1>1. PageSaves(r)
  BY <1>0 DEF SetProject, PageSaves, Quiet
<1>2. /\ disk' \in Disk /\ disk'.project = disk.project /\ disk'.sessions = disk.sessions
      /\ outer' \in Request \cup {None} /\ inner' \in Request \cup {None}
      /\ scope' \in Scope /\ mishaps' \in Nat
  BY PageTypes, Scopes, <1>0 DEF SetProject, Quiet, Happens
<1>3. ASSUME Queue(r, "set"), Go(r, "setting")
      PROVE  RequestStep(r) /\ Went(r, "setting")
  <2>1. /\ Place("set") = "setting" /\ "set" \in PageKinds /\ "setting" \in PC
        /\ "setting" \in Path(at[r].then)
    BY <1>0 DEF Place, PageKinds, PC, Path, Fenced, Queued
  <2>2. Went(r, "setting")
    BY <1>0, <1>3, <2>1, Goes
  <2>3. RequestStep(r)
    BY <1>0, <1>1, <1>2, <1>3, <2>1, <2>2, RequestAsks
  <2> QED
    BY <2>2, <2>3
<1>4. ASSUME Go(r, "fail"), UNCHANGED ops, bad' = bad
      PROVE  RequestStep(r) /\ Went(r, "fail")
  <2>1. "fail" \in PC /\ "fail" \in Path(at[r].then) /\ "fail" \notin Queued
    BY <1>0 DEF PC, Path, Fenced, Queued
  <2>2. Went(r, "fail")
    BY <1>0, <1>4, <2>1, Goes
  <2>3. RequestStep(r)
    BY <1>0, <1>1, <1>2, <1>4, <2>1, <2>2, RequestGoes
  <2> QED
    BY <2>2, <2>3
<1>5. CASE at' = Failed(r) /\ UNCHANGED ops
  <2>1. Go(r, "fail") /\ bad' = bad
    BY <1>5 DEF Failed, Go, SetProject
  <2> QED
    BY <2>1, <1>4, <1>5
<1> QED
  BY <1>3, <1>5 DEF SetProject

LEMMA RequestStart ==
  ASSUME Base, NEW r \in Request, StartRuntime(r)
  PROVE  /\ RequestStep(r) /\ at[r].then \in {"bind", "delete"}
         /\ Went(r, IF at[r].then = "bind" THEN "leave" ELSE "unsafe")
<1> DEFINE p == IF at[r].then = "bind" THEN "leave" ELSE "unsafe"
<1>0. /\ Types /\ r \in Caller /\ at[r].pc = "scope" /\ at[r].pc \notin Queued
      /\ at[r].then \in {"bind", "delete"} /\ UNCHANGED <<host, ws, ops>> /\ bad' = bad
  BY Wants DEF Base, StartRuntime, Queued
<1>1. Go(r, p)
  BY <1>0 DEF StartRuntime
<1>2. p \in Path(at[r].then) /\ p \notin Queued /\ p \in PC
  BY <1>0 DEF Path, Fenced, Queued, PC
<1>3. Went(r, p)
  BY <1>0, <1>1, <1>2, Goes
<1>4. PageSaves(r)
  BY DEF StartRuntime, PageSaves
<1>5. /\ disk' \in Disk /\ disk'.project = disk.project /\ disk'.sessions = disk.sessions
      /\ outer' \in Request \cup {None} /\ inner' \in Request \cup {None}
      /\ scope' \in Scope /\ mishaps' \in Nat
  BY PageTypes, Scopes, <1>0 DEF StartRuntime
<1>6. RequestStep(r)
  BY <1>0, <1>2, <1>3, <1>4, <1>5, RequestGoes
<1> QED
  BY <1>0, <1>3, <1>6

LEMMA RequestLeave ==
  ASSUME Base, NEW r \in Request, Leave(r)
  PROVE  /\ RequestStep(r)
         /\ \/ at[r].then = "delete" /\ inner = r /\ Went(r, "unsafe")
            \/ /\ ~(at[r].then = "delete" /\ inner = r)
               /\ at'[r].pc = "ended" /\ at'[r].then = "none"
<1>0. /\ Types /\ r \in Caller /\ at[r].pc \in {"fail", "leave"} /\ at[r].pc \notin Queued
      /\ UNCHANGED <<host, ws, ops>> /\ bad' = bad
  BY Wants DEF Base, Leave, Queued
<1>1. PageSaves(r)
  BY DEF Leave, PageSaves
<1>2. /\ disk' \in Disk /\ disk'.project = disk.project /\ disk'.sessions = disk.sessions
      /\ outer' \in Request \cup {None} /\ inner' \in Request \cup {None}
      /\ scope' \in Scope /\ mishaps' \in Nat
  BY PageTypes, <1>0 DEF Leave
<1>3. CASE at[r].then = "delete" /\ inner = r
  <2>1. Go(r, "unsafe")
    BY <1>3 DEF Leave
  <2>2. "unsafe" \in Path(at[r].then) /\ "unsafe" \notin Queued /\ "unsafe" \in PC
    BY <1>3 DEF Path, Fenced, Queued, PC
  <2>3. Went(r, "unsafe")
    BY <1>0, <2>1, <2>2, Goes
  <2>4. RequestStep(r)
    BY <1>0, <1>1, <1>2, <2>2, <2>3, RequestGoes
  <2> QED
    BY <1>3, <2>3, <2>4
<1>4. CASE ~(at[r].then = "delete" /\ inner = r)
  <2>1. at' = [at EXCEPT ![r] = Ended("ended")]
    BY <1>4 DEF Leave
  <2>2. /\ Ended("ended") \in Task /\ Ended("ended").pc = "ended" /\ Ended("ended").then = "none"
        /\ Ended("ended").gen = 0
    BY <1>0, IdleTyped DEF PC
  <2>3. at' \in [Caller -> Task] /\ Others(r) /\ at'[r] = Ended("ended")
    BY <1>0, <2>1, <2>2, Puts
  <2>4. "ended" \in Path("none") /\ "ended" \notin Queued
    BY DEF Path, Queued
  <2>5. Asks(r, PageKinds)
    BY <1>0, <2>2, <2>3, <2>4 DEF Asks
  <2>6. RequestStep(r)
    BY <1>0, <1>1, <1>2, <2>2, <2>3, <2>4, <2>5 DEF RequestStep
  <2> QED
    BY <1>4, <2>2, <2>3, <2>6
<1> QED
  BY <1>3, <1>4

-----------------------------------------------------------------------------
(* Steps of the write queue                                                  *)

\* Whoever waited for a project is woken or turned away, the others stay.
Wakes(a, d) ==
  \/ a[d] = at[d]
  \/ /\ at[d].pc \in Waiting
     /\ a[d].pc \in {"lock", "quiet", "adopt", "leave", "fetch", "ended"}
     /\ a[d].gen \in {at[d].gen, 0} /\ (a[d].held => a[d].pc # "ended")
WakesAll(a) == a \in [Caller -> Task] /\ \A d \in Caller : Wakes(a, d)

LEMMA Wokens ==
  ASSUME Types
  PROVE  WakesAll(at) /\ WakesAll(Woken(at)) /\ WakesAll(Rejected(at))
         /\ \A d \in Caller : Woken(at)[d].pc \notin Waiting /\ Rejected(at)[d].pc \notin Waiting
<1>1. WakesAll(at)
  BY DEF Types, WakesAll, Wakes
<1>2. ASSUME NEW d \in Caller
      PROVE  /\ Woken(at)[d] \in Task /\ Wakes(Woken(at), d) /\ Woken(at)[d].pc \notin Waiting
  <2>1. at[d] \in Task
    BY DEF Types
  <2>2. CASE at[d].pc \in Waiting
    <3> DEFINE p == AfterReady(at[d].then)
               e == [at[d] EXCEPT !.pc = p]
    <3>1. p \in {"lock", "quiet", "adopt", "leave"}
      BY DEF AfterReady
    <3>2. p \in PC /\ p \notin Waiting
      BY <3>1 DEF PC, Waiting
    <3>3. Woken(at)[d] = e
      BY <2>2 DEF Woken
    <3> HIDE DEF p
    <3>4. e \in Task /\ e.pc = p /\ e.gen = at[d].gen
      BY <2>1, <3>2 DEF Task
    <3> HIDE DEF e
    <3> QED
      BY <2>2, <3>1, <3>2, <3>3, <3>4 DEF Wakes
  <2>3. CASE at[d].pc \notin Waiting
    BY <2>1, <2>3 DEF Woken, Wakes
  <2> QED
    BY <2>2, <2>3
<1>3. ASSUME NEW d \in Caller
      PROVE  /\ Rejected(at)[d] \in Task /\ Wakes(Rejected(at), d) /\ Rejected(at)[d].pc \notin Waiting
  <2>1. at[d] \in Task /\ "ended" \notin Waiting /\ "fetch" \notin Waiting /\ "ended" \in PC
    BY DEF Types, Waiting, PC
  <2>2. CASE at[d].pc = "waitBind"
    <3>1. Rejected(at)[d] = Ended("ended") /\ at[d].pc \in Waiting
      BY <2>2 DEF Rejected, Waiting
    <3> QED
      BY <2>1, <3>1, IdleTyped DEF Wakes
  <2>3. CASE at[d].pc \in Waiting /\ at[d].pc # "waitBind"
    <3>1. Rejected(at)[d] = Again(at[d])
      BY <2>3 DEF Rejected
    <3> QED
      BY <2>1, <2>3, <3>1, Agains DEF Wakes
  <2>4. CASE at[d].pc \notin Waiting
    BY <2>1, <2>4 DEF Rejected, Wakes
  <2> QED
    BY <2>2, <2>3, <2>4
<1>4. Woken(at) \in [Caller -> Task]
  BY <1>2 DEF Woken
<1>5. Rejected(at) \in [Caller -> Task]
  BY <1>3 DEF Rejected
<1> QED
  BY <1>1, <1>2, <1>3, <1>4, <1>5 DEF WakesAll

\* The caller of the running operation waits for it.
LEMMA Runner ==
  ASSUME Base, ops # <<>>
  PROVE  /\ Run \in Operation /\ Run = ops[1] /\ Run.by \in Caller /\ 1 \in 1..Len(ops)
         /\ at[Run.by] \in Task /\ at[Run.by].pc = Place(Run.kind)
         /\ at[Run.by].pc \in Queued /\ at[Run.by].pc \notin Waiting
         /\ Run.by \in Request => Run.kind \in PageKinds
         /\ Run.by \notin Request => Run.kind \in {"set", "bind", "persist"}
         /\ Run.step \in Steps(Run.kind)
<1>1. /\ Run \in Operation /\ Run = ops[1] /\ Run.by \in Caller /\ 1 \in 1..Len(ops)
      /\ at[Run.by] \in Task
  BY Heads DEF Base
<1>2. at[Run.by].pc = Place(Run.kind) /\ Run.kind \in OpKind /\ Run.step \in Steps(Run.kind)
  BY <1>1 DEF Base, Line, Operation
<1>3. at[Run.by].pc \in Queued /\ at[Run.by].pc \notin Waiting
  BY <1>2 DEF Place, Queued, Waiting
<1>4. ASSUME Run.by \in Request PROVE Run.kind \in PageKinds
  <2>1. Run.kind # "bind" /\ Run.kind # "persist"
    BY <1>2, <1>4 DEF Base, Roles, Path, Fenced, Place
  <2> QED
    BY <1>2, <2>1 DEF OpKind, PageKinds
<1>5. ASSUME Run.by \notin Request PROVE Run.kind \in {"set", "bind", "persist"}
  <2>1. at[Run.by].pc \in ChatPC
    BY <1>1, <1>5 DEF Base, Roles
  <2>2. Place(Run.kind) \in {"writing", "binding", "setting"}
    BY <2>1, <1>2, <1>3, ChatPlaces
  <2> QED
    BY <2>2, <1>2 DEF Place, OpKind
<1> QED
  BY <1>1, <1>2, <1>3, <1>4, <1>5

\* Where a caller goes when its operation has ended well.
After(kind) ==
  CASE kind = "begin" -> "remove" [] kind = "retire" -> "cleanup"
    [] kind = "ensure" -> "scope" [] OTHER -> "leave"

\* The running operation leaves the queue and its caller goes on.
Leaves ==
  /\ ops # <<>> /\ ops' = Tail(ops) /\ at' \in [Caller -> Task]
  /\ \A d \in Caller \ {Run.by} : Wakes(at', d)
  /\ at'[Run.by].pc \notin Queued /\ at'[Run.by].gen \in {at[Run.by].gen, 0}
  /\ at'[Run.by].pc \in Waiting => Run.kind = "persist" /\ ws.unconfirmed
  /\ at'[Run.by].held => at'[Run.by].pc \notin {"idle", "asked", "ended"}
  /\ Run.by \in Request => /\ at'[Run.by].then = at[Run.by].then
                           /\ at'[Run.by].pc \in {After(Run.kind), "fail"}
  /\ at'[Run.by].pc = "fail" => Run.kind \in {"set", "ensure"}
  /\ Run.by \notin Request => at'[Run.by].pc \in ChatPC \ {"create", "keep", "probe", "save", "ask",
                                                          "items", "adopted"}

LEMMA Ends ==
  ASSUME Base, ops # <<>>, NEW a, WakesAll(a), End(a)
  PROVE  Leaves /\ at'[Run.by].pc # "fail" /\ at'[Run.by].pc \notin Waiting
         /\ \A d \in Caller \ {Run.by} : at'[d] = a[d]
<1> DEFINE b == Run.by
           p == After(Run.kind)
           e == [at[b] EXCEPT !.pc = p]
<1>0. /\ b \in Caller /\ at[b] \in Task /\ at[b].pc \notin Waiting /\ Run.kind \in OpKind
      /\ b \in Request => Run.kind \in PageKinds
      /\ b \notin Request => Run.kind \in {"set", "bind", "persist"}
      /\ Types /\ Base /\ at[b].pc = Place(Run.kind)
  BY Runner DEF Operation, Base
<1>1. a[b] = at[b] /\ a \in [Caller -> Task]
  BY <1>0 DEF WakesAll, Wakes
<1>2. ops' = Tail(ops) /\ at' = [a EXCEPT ![b] = Returned(at[b])]
  BY <1>1 DEF End
<1>3. p \in PC /\ p \notin Queued /\ p \notin Waiting /\ p # "fail" /\ p \notin {"idle", "asked", "ended"}
  BY DEF After, PC, Queued, Waiting
<1>4. /\ e \in Task /\ e.pc = p /\ e.then = at[b].then /\ e.gen = at[b].gen
  BY <1>0, <1>3 DEF Task
<1>5. CASE b \in Turn /\ Run.kind \in {"set", "bind"}
  <2>1. Returned(at[b]) = Ended("ended")
    BY <1>5 DEF Returned
  <2>2. /\ Ended("ended") \in Task /\ Ended("ended").pc = "ended" /\ Ended("ended").gen = 0
        /\ ~Ended("ended").held
    BY <1>0, IdleTyped DEF PC
  <2>3. at'[b] = Ended("ended") /\ at' \in [Caller -> Task] /\ \A d \in Caller \ {b} : at'[d] = a[d]
    BY <1>0, <1>1, <1>2, <2>1, <2>2
  <2>4. "ended" \notin Queued /\ "ended" \notin Waiting /\ "ended" \in ChatPC /\ b \notin Request
    BY <1>5, ChatPlaces, Names DEF Queued, Waiting
  <2>5. Leaves
    BY <1>0, <1>2, <2>2, <2>3, <2>4 DEF Leaves, WakesAll, Wakes
  <2> QED
    BY <2>2, <2>3, <2>4, <2>5
<1>6. CASE ~(b \in Turn /\ Run.kind \in {"set", "bind"})
  <2>1. Returned(at[b]) = e
    BY <1>6 DEF Returned, After
  <2>2. b \notin Request => p = "leave" /\ p \in ChatPC
    BY <1>0, ChatPlaces DEF After
  <2> HIDE DEF e
  <2>3. at'[b] = e /\ at' \in [Caller -> Task] /\ \A d \in Caller \ {b} : at'[d] = a[d]
    BY <1>0, <1>1, <1>2, <1>4, <2>1
  <2>4. Leaves
    BY <1>0, <1>2, <1>3, <1>4, <2>2, <2>3 DEF Leaves, WakesAll, Wakes
  <2> QED
    BY <1>3, <1>4, <2>3, <2>4
<1> QED
  BY <1>5, <1>6

LEMMA EndsBadly ==
  ASSUME Base, ops # <<>>, Run.kind \in {"set", "bind", "persist", "ensure"}, EndFails
  PROVE  Leaves /\ at'[Run.by].pc \in {"fail", "ended"} /\ Others(Run.by)
<1> DEFINE b == Run.by
<1>0. /\ b \in Caller /\ at[b] \in Task /\ Types
      /\ b \in Request => Run.kind \in {"set", "ensure"}
  BY Runner DEF Base, PageKinds
<1>1. ops' = Tail(ops) /\ at' = Failed(b)
  BY DEF EndFails
<1>2. CASE b \in Request
  <2>1. Went(b, "fail")
    BY <1>0, <1>1, <1>2, Fails
  <2>2. "fail" \notin Queued /\ "fail" \notin Waiting
    BY DEF Queued, Waiting
  <2> QED
    BY <1>0, <1>1, <1>2, <2>1, <2>2 DEF Leaves, Went, Same, Others, Wakes
<1>3. CASE b \notin Request
  <2>1. at' \in [Caller -> Task] /\ Others(b) /\ at'[b] = Ended("ended")
    BY <1>0, <1>1, <1>3, Fails
  <2>2. at'[b].pc = "ended" /\ at'[b].gen = 0 /\ ~at'[b].held
    BY <1>0, <2>1, IdleTyped DEF PC
  <2>3. "ended" \notin Queued /\ "ended" \notin Waiting /\ "ended" \in ChatPC
    BY ChatPlaces DEF Queued, Waiting
  <2> QED
    BY <1>1, <1>3, <2>1, <2>2, <2>3 DEF Leaves, Others, Wakes
<1> QED
  BY <1>2, <1>3

\* The running operation goes on.
Proceeds ==
  /\ WakesAll(at')
  /\ \E o \in Operation :
       /\ ops' = [ops EXCEPT ![1] = o] /\ o.kind = Run.kind /\ o.by = Run.by /\ o.gen = Run.gen
       /\ o.row = Run.row /\ o.session = Run.session /\ o.step \in Steps(Run.kind)

OpStep ==
  /\ ops # <<>> /\ UNCHANGED <<host, outer, inner, scope>>
  /\ mishaps' \in Nat /\ disk' \in Disk /\ disk'.configured = disk.configured
  /\ ws' \in Memory /\ ws'.gen < ws'.nextGen /\ ws.nextGen <= ws'.nextGen
  /\ bad' \subseteq bad /\ Saves(Op) /\ (Leaves \/ Proceeds)

LEMMA OpBase ==
  ASSUME Base, OpStep
  PROVE  Base'
<1> DEFINE n == Len(ops)
<1>0. /\ ops # <<>> /\ Types /\ Gens /\ Line /\ at' \in [Caller -> Task] /\ Run.by \in Caller
      /\ Run \in Operation /\ Run = ops[1] /\ 1 \in 1..n /\ ops \in Seq(Operation) /\ n \in Nat
  BY Runner, LenProperties DEF OpStep, Base, Types, Leaves, Proceeds, WakesAll
<1>1. ASSUME NEW d \in Caller, Wakes(at', d)
      PROVE  Aside(d) /\ at'[d].gen \in {at[d].gen, ws.gen, 0}
             /\ (d \in Request => at'[d] = at[d]) /\ (at'[d] = at[d] \/ at'[d].pc \in ChatPC)
  <2>1. {"lock", "quiet", "adopt", "leave", "fetch", "ended"} \subseteq ChatPC
        /\ {"lock", "quiet", "adopt", "leave", "fetch", "ended"} \cap Queued = {}
        /\ Waiting \cap Queued = {}
    BY ChatPlaces DEF Queued, Waiting
  <2>2. d \in Request => at[d].pc \notin Waiting
    BY Wants
  <2> QED
    BY <1>1, <2>1, <2>2 DEF Wakes, Aside
<1>2. /\ ops' \in Seq(Operation) /\ Line' /\ \A d \in Caller : at'[d].gen \in {at[d].gen, ws.gen, 0}
      /\ \A i \in 1..Len(ops') : \E j \in 1..n : ops'[i].gen = ops[j].gen
      /\ \A d \in Caller \ {Run.by} : at'[d] = at[d] \/ (d \notin Request /\ at'[d].pc \in ChatPC)
      /\ Run.by \in Request => at'[Run.by].pc \in Path(at'[Run.by].then)
      /\ Run.by \notin Request => at'[Run.by].pc \in ChatPC
  <2>1. CASE Leaves
    <3>1. \A d \in Caller \ {Run.by} : Aside(d)
      BY <2>1, <1>1 DEF Leaves
    <3>2. Line'
      BY <2>1, <3>1, <1>0, LineLeaves DEF Leaves
    <3>3. ops' \in Seq(Operation) /\ \A i \in 1..Len(ops') : i + 1 \in 1..n /\ ops'[i] = ops[i + 1]
      BY <2>1, <1>0, Shorter DEF Leaves
    <3>4. \A d \in Caller : at'[d].gen \in {at[d].gen, ws.gen, 0}
      BY <2>1, <1>1 DEF Leaves
    <3>5. Run.by \in Request => at'[Run.by].pc \in Path(at'[Run.by].then)
      <4> SUFFICES ASSUME Run.by \in Request PROVE at'[Run.by].pc \in Path(at'[Run.by].then)
        OBVIOUS
      <4>1. /\ at'[Run.by].then = at[Run.by].then /\ at'[Run.by].pc \in {After(Run.kind), "fail"}
            /\ Run.kind \in PageKinds /\ at[Run.by].pc = Place(Run.kind)
        BY <2>1, <1>0, Runner DEF Leaves
      <4>2. at[Run.by].pc \in Path(at[Run.by].then) /\ at[Run.by].then \in Then
        BY <1>0, Runner DEF Base, Roles, Task
      <4> QED
        BY <4>1, <4>2 DEF After, Path, Place, PageKinds, Fenced, Then
    <3> QED
      BY <2>1, <3>2, <3>3, <3>4, <3>5, <1>1 DEF Leaves
  <2>2. CASE Proceeds
    <3>1. PICK o \in Operation :
            /\ ops' = [ops EXCEPT ![1] = o] /\ o.kind = Run.kind /\ o.by = Run.by /\ o.gen = Run.gen
            /\ o.step \in Steps(Run.kind)
      BY <2>2 DEF Proceeds
    <3>2. \A d \in Caller : Aside(d) /\ at'[d].gen \in {at[d].gen, ws.gen, 0}
            /\ (d \in Request => at'[d] = at[d]) /\ (at'[d] = at[d] \/ at'[d].pc \in ChatPC)
      BY <2>2, <1>1 DEF Proceeds, WakesAll
    <3>3. Line'
      BY <3>1, <3>2, <1>0, LineSteps
    <3>4. ops' \in Seq(Operation) /\ Len(ops') = n /\ ops'[1] = o
          /\ \A i \in 1..n : i # 1 => ops'[i] = ops[i]
      BY <3>1, <1>0
    <3>5. \A i \in 1..Len(ops') : \E j \in 1..n : ops'[i].gen = ops[j].gen
      BY <3>1, <3>4, <1>0
    <3>6. Run.by \in Request => at'[Run.by].pc \in Path(at'[Run.by].then)
      BY <3>2, <1>0 DEF Base, Roles
    <3>7. Run.by \notin Request => at'[Run.by].pc \in ChatPC
      BY <3>2, <1>0 DEF Base, Roles
    <3> QED
      BY <3>2, <3>3, <3>4, <3>5, <3>6, <3>7
  <2> QED
    BY <2>1, <2>2 DEF OpStep
<1>3. Gens'
  BY <1>0, <1>2, GensKept DEF OpStep
<1>4. sess' \in Sessions /\ stq' \in Seq(Write)
  <2>1. CASE sess' = sess /\ stq' = stq
    BY <2>1, <1>0 DEF Types
  <2>2. CASE \E s \in Sessions : Save(Op, s)
    BY <2>2, <1>0, Writes
  <2> QED
    BY <2>1, <2>2 DEF OpStep, Saves
<1>5. Types'
  <2>1. bad' \subseteq Caller \cup {Op}
    BY <1>0 DEF OpStep, Types
  <2>2. /\ disk' \in Disk /\ outer' \in Request \cup {None} /\ inner' \in Request \cup {None}
        /\ scope' \in Scope /\ mishaps' \in Nat /\ ws' \in Memory
        /\ host' \in Host /\ Len(host'.of) <= MaxSessions
    BY <1>0 DEF OpStep, Types
  <2> QED
    BY <2>1, <2>2, <1>0, <1>2, <1>4 DEF Types
<1>6. Roles'
  <2>1. \A d \in Caller \ Request : at'[d].pc \in ChatPC
    BY <1>2 DEF Base, Roles
  <2>2. \A r \in Request : at'[r].pc \in Path(at'[r].then)
    BY <1>2, Names DEF Base, Roles
  <2> QED
    BY <2>1, <2>2 DEF Roles
<1> QED
  BY <1>2, <1>3, <1>5, <1>6 DEF Base

\* A step of the write queue that changes of the store in memory at most what does
\* not make generations come back.
LEMMA Generations ==
  ASSUME Types, Gens
  PROVE  /\ ws \in Memory /\ ws.gen < ws.nextGen /\ ws.nextGen <= ws.nextGen /\ ws.nextGen \in Nat
         /\ Confirmed(ws) \in Memory /\ Confirmed(ws).gen = ws.gen
         /\ Confirmed(ws).nextGen = ws.nextGen /\ Confirmed(ws).project = ws.project
         /\ ~Confirmed(ws).unconfirmed /\ Confirmed(ws).inc = ws.inc
         /\ Confirmed(ws).removing = ws.removing
<1>1. ws \in Memory /\ ws.nextGen \in Nat
  BY DEF Types, Memory
<1>2. ws.gen < ws.nextGen /\ ws.nextGen <= ws.nextGen
  BY <1>1 DEF Gens
<1> QED
  BY <1>1, <1>2 DEF Confirmed, Memory

\* The operation goes on to its next step and nothing else changes for its caller.
LEMMA StepProceeds ==
  ASSUME Base, ops # <<>>, NEW step \in Steps(Run.kind), Step(step), WakesAll(at')
  PROVE  Proceeds
<1> DEFINE o == [Run EXCEPT !.step = step]
<1>1. Run \in Operation /\ Run = ops[1] /\ 1 \in 1..Len(ops)
  BY Runner
<1>2. step \in {"queued", "clear", "persist", "save"}
  BY DEF Steps
<1>3. /\ o \in Operation /\ o.kind = Run.kind /\ o.by = Run.by /\ o.gen = Run.gen /\ o.row = Run.row
      /\ o.session = Run.session /\ o.step = step
  BY <1>1, <1>2 DEF Operation
<1>4. ops' = [ops EXCEPT ![1] = o]
  BY <1>1 DEF Step
<1> HIDE DEF o
<1> QED
  BY <1>3, <1>4 DEF Proceeds

LEMMA NoWrite == sess' = sess /\ stq' = stq => Saves(Op)
  BY DEF Saves
LEMMA ClearWrite == Save(Op, NoSession) => Saves(Op)
  BY NoSessionTyped DEF Saves

LEMMA OpSetBegins ==
  ASSUME Base, SetBegins
  PROVE  OpStep
<1>0. /\ ops # <<>> /\ Types /\ Gens /\ Run.kind = "set"
      /\ UNCHANGED <<host, outer, inner, scope>> /\ mishaps' \in Nat /\ disk' \in Disk
      /\ disk'.configured = disk.configured /\ bad' \subseteq bad
  BY DEF SetBegins, Running, Run, Base, Types
<1>1. CASE EndFails /\ UNCHANGED <<ws, sess, stq>>
  <2>1. Leaves
    BY <1>0, <1>1, EndsBadly
  <2> QED
    BY <2>1, <1>0, <1>1, Generations, NoWrite DEF OpStep
<1>2. CASE ws' = Confirmed(ws) /\ End(Woken(at)) /\ UNCHANGED <<sess, stq>>
  <2>1. Leaves
    BY <1>0, <1>2, Ends, Wokens
  <2> QED
    BY <2>1, <1>0, <1>2, Generations, NoWrite DEF OpStep
<1>3. CASE /\ ws' = Bump(ws) /\ Save(Op, NoSession) /\ UNCHANGED at
           /\ ops' = [ops EXCEPT ![1].step = "clear", ![1].prev = ws.project]
           /\ Has
  <2> DEFINE o == [Run EXCEPT !.step = "clear", !.prev = ws.project]
  <2>1. Run \in Operation /\ Run = ops[1] /\ 1 \in 1..Len(ops)
    BY <1>0, Runner
  <2>2. ws.project \in Project \cup {None}
    BY <1>0, <1>3 DEF Types, Memory, Has
  <2>3. /\ o \in Operation /\ o.kind = Run.kind /\ o.by = Run.by /\ o.gen = Run.gen /\ o.row = Run.row
        /\ o.session = Run.session /\ o.step = "clear"
    BY <2>1, <2>2 DEF Operation
  <2>4. ops' = [ops EXCEPT ![1] = o]
    BY <2>1, <1>3
  <2> HIDE DEF o
  <2>5. "clear" \in Steps(Run.kind) /\ WakesAll(at')
    BY <1>0, <1>3, Wokens DEF Steps
  <2>6. Proceeds
    BY <2>3, <2>4, <2>5 DEF Proceeds
  <2>7. ws' \in Memory /\ ws'.gen < ws'.nextGen /\ ws.nextGen <= ws'.nextGen
    BY <1>0, <1>3, Bumps, Generations
  <2> QED
    BY <2>6, <2>7, <1>0, <1>3, ClearWrite DEF OpStep
<1> QED
  BY <1>1, <1>2, <1>3 DEF SetBegins

LEMMA OpSetCleared ==
  ASSUME Base, SetCleared
  PROVE  OpStep
<1>0. /\ ops # <<>> /\ Types /\ Gens /\ Run.kind = "set" /\ Saves(Op)
      /\ UNCHANGED <<host, outer, inner, scope>> /\ mishaps' \in Nat /\ disk' \in Disk
      /\ disk'.configured = disk.configured /\ bad' \subseteq bad
  BY NoWrite DEF SetCleared, Running, Run, Base, Types, Settled
<1>1. CASE Op \in bad
  <2>1. EndFails /\ ws' = ws
    BY <1>1 DEF SetCleared
  <2>2. Leaves
    BY <1>0, <2>1, EndsBadly
  <2> QED
    BY <2>1, <2>2, <1>0, Generations DEF OpStep
<1>2. CASE Op \notin bad
  <2>1. ws' = [ws EXCEPT !.project = Run.row] /\ Step("persist") /\ at' = at
    BY <1>2 DEF SetCleared
  <2>2. "persist" \in Steps(Run.kind) /\ WakesAll(at') /\ Run.row \in Project \cup {None}
    BY <1>0, <2>1, Wokens, Runner DEF Steps, Operation
  <2>3. Proceeds
    BY <1>0, <2>1, <2>2, StepProceeds
  <2>4. ws \in Memory /\ ws.gen < ws.nextGen /\ ws.nextGen \in Nat
    BY <1>0, Generations
  <2>5. ws' \in Memory /\ ws'.gen < ws'.nextGen /\ ws.nextGen <= ws'.nextGen
    BY <2>1, <2>2, <2>4 DEF Memory
  <2> QED
    BY <2>3, <2>5, <1>0 DEF OpStep
<1> QED
  BY <1>1, <1>2

LEMMA OpSetPersists ==
  ASSUME Base, SetPersists
  PROVE  OpStep
<1>0. /\ ops # <<>> /\ Types /\ Gens /\ Run.kind = "set" /\ Saves(Op)
      /\ UNCHANGED <<host, outer, inner, scope>> /\ bad' \subseteq bad /\ mishaps \in Nat
      /\ disk \in Disk /\ ws \in Memory /\ Run \in Operation
  BY NoWrite, Heads DEF SetPersists, Running, Run, Base, Types
<1>1. CASE /\ disk' = [disk EXCEPT !.project = ws.project]
           /\ ws' = Confirmed(ws) /\ End(Woken(at)) /\ UNCHANGED mishaps
  <2>1. Leaves
    BY <1>0, <1>1, Ends, Wokens
  <2>2. disk' \in Disk /\ disk'.configured = disk.configured
    BY <1>0, <1>1 DEF Disk, Memory
  <2> QED
    BY <2>1, <2>2, <1>0, <1>1, Generations DEF OpStep
<1>2. CASE Happens /\ ws' = [ws EXCEPT !.project = Run.prev] /\ EndFails /\ UNCHANGED disk
  <2>1. Leaves
    BY <1>0, <1>2, EndsBadly
  <2>2. ws.gen < ws.nextGen /\ ws.nextGen \in Nat
    BY <1>0, Generations
  <2>3. ws' \in Memory /\ ws'.gen < ws'.nextGen /\ ws.nextGen <= ws'.nextGen
    BY <1>0, <1>2, <2>2 DEF Memory, Operation
  <2>4. mishaps' \in Nat
    BY <1>0, <1>2 DEF Happens
  <2> QED
    BY <2>1, <2>3, <2>4, <1>0, <1>2 DEF OpStep
<1> QED
  BY <1>1, <1>2 DEF SetPersists

LEMMA OpBindBegins ==
  ASSUME Base, BindBegins
  PROVE  OpStep
<1>0. /\ ops # <<>> /\ Types /\ Gens /\ Run.kind = "bind"
      /\ UNCHANGED <<host, outer, inner, scope>> /\ mishaps' \in Nat /\ disk' \in Disk
      /\ disk'.configured = disk.configured /\ bad' \subseteq bad /\ ws' = ws
  BY DEF BindBegins, Running, Run, Base, Types
<1>1. CASE EndFails /\ UNCHANGED <<sess, stq>>
  <2>1. Leaves
    BY <1>0, <1>1, EndsBadly
  <2> QED
    BY <2>1, <1>0, <1>1, Generations, NoWrite DEF OpStep
<1>2. CASE /\ Save(Op, [sess EXCEPT ![at[Run.by].key] = Run.session])
           /\ Step("save") /\ UNCHANGED at
  <2>1. "save" \in Steps(Run.kind) /\ WakesAll(at') /\ Run \in Operation
    BY <1>0, <1>2, Wokens, Runner DEF Steps
  <2>2. Proceeds
    BY <1>0, <1>2, <2>1, StepProceeds
  <2>3. [sess EXCEPT ![at[Run.by].key] = Run.session] \in Sessions
    BY <1>0, <2>1 DEF Types, Sessions, Operation
  <2>4. Saves(Op)
    BY <1>2, <2>3 DEF Saves
  <2> QED
    BY <2>2, <2>4, <1>0, Generations DEF OpStep
<1> QED
  BY <1>1, <1>2 DEF BindBegins

\* BindEnds and RemovalBegun: the state has been written.
LEMMA OpEnds ==
  ASSUME Base, BindEnds \/ RemovalBegun
  PROVE  OpStep
<1>0. /\ ops # <<>> /\ Types /\ Gens /\ End(at) /\ Saves(Op)
      /\ UNCHANGED <<host, outer, inner, scope>> /\ mishaps' \in Nat /\ disk' \in Disk
      /\ disk'.configured = disk.configured /\ bad' \subseteq bad /\ ws' = ws
  BY NoWrite DEF BindEnds, RemovalBegun, Running, Base, Types, Settled
<1>1. Leaves
  BY <1>0, Ends, Wokens
<1> QED
  BY <1>0, <1>1, Generations DEF OpStep

LEMMA OpPersistAll ==
  ASSUME Base, PersistAll
  PROVE  /\ OpStep /\ Others(Run.by) /\ Run.by \notin Request
         /\ Run.by \in Turn => at'[Run.by].pc \in Waiting \cup {"lock", "quiet", "adopt", "leave", "ended"}
<1>0. /\ ops # <<>> /\ Types /\ Gens /\ Run.kind = "persist" /\ Saves(Op)
      /\ UNCHANGED <<host, outer, inner, scope>> /\ bad' \subseteq bad /\ ws' = ws
      /\ disk \in Disk /\ mishaps \in Nat
  BY NoWrite DEF PersistAll, Running, Run, Base, Types
<1>1. /\ Run.by \in Caller /\ Run.by \notin Request
  BY <1>0, Runner DEF PageKinds
<1>2. CASE /\ disk' = [disk EXCEPT !.project = ws.project] /\ UNCHANGED mishaps
           /\ ops' = Tail(ops) /\ at' = Readied(Run.by)
  <2>1. /\ at' \in [Caller -> Task] /\ Others(Run.by) /\ Same(Run.by)
        /\ at'[Run.by].pc \in Waiting \cup {"lock", "quiet", "adopt", "leave"}
        /\ at'[Run.by].pc \in Waiting => ws.unconfirmed
    BY <1>0, <1>1, <1>2, Readies
  <2>2. /\ at'[Run.by].pc \notin Queued /\ at'[Run.by].pc \notin {"idle", "asked", "ended"}
        /\ at'[Run.by].pc \in ChatPC \ {"create", "keep", "probe", "save", "ask", "items", "adopted"}
        /\ at'[Run.by].pc # "fail"
    BY <2>1, ChatPlaces DEF Queued, Waiting
  <2>3. Leaves
    BY <1>0, <1>1, <1>2, <2>1, <2>2 DEF Leaves, Others, Same, Wakes
  <2>4. disk' \in Disk /\ disk'.configured = disk.configured
    BY <1>0, <1>2 DEF Disk, Types, Memory
  <2> QED
    BY <1>0, <1>1, <1>2, <2>1, <2>3, <2>4, Generations DEF OpStep
<1>3. CASE Happens /\ EndFails /\ UNCHANGED disk
  <2>1. Leaves /\ at'[Run.by].pc \in {"fail", "ended"} /\ Others(Run.by)
    BY <1>0, <1>3, EndsBadly
  <2>2. at'[Run.by].pc # "fail"
    BY <2>1, <1>1 DEF Leaves, ChatPC, Waiting
  <2>3. mishaps' \in Nat
    BY <1>0, <1>3 DEF Happens
  <2> QED
    BY <1>0, <1>1, <1>3, <2>1, <2>2, <2>3, Generations DEF OpStep
<1> QED
  BY <1>2, <1>3 DEF PersistAll

LEMMA OpEnsure ==
  ASSUME Base, Ensure
  PROVE  OpStep
<1>0. /\ ops # <<>> /\ Types /\ Gens /\ Run.kind = "ensure" /\ Saves(Op)
      /\ UNCHANGED <<host, outer, inner, scope>> /\ bad' \subseteq bad
      /\ disk \in Disk /\ mishaps \in Nat /\ ws \in Memory
  BY NoWrite DEF Ensure, Running, Run, Base, Types
<1>1. /\ ws.gen < ws.nextGen /\ ws.nextGen \in Nat /\ ws.nextGen <= ws.nextGen /\ ws.nextInc \in Nat
      /\ ws.gen \in Nat
  BY <1>0, Generations DEF Memory
<1>2. CASE End(at) /\ UNCHANGED <<ws, disk, mishaps>>
  <2>1. Leaves
    BY <1>0, <1>2, Ends, Wokens
  <2> QED
    BY <2>1, <1>0, <1>1, <1>2 DEF OpStep
<1>3. CASE /\ ws' = [Bump(ws) EXCEPT !.project = None, !.unconfirmed = TRUE,
                                     !.inc = ws.nextInc, !.nextInc = @ + 1]
           /\ End(at) /\ disk' = [disk EXCEPT !.project = None] /\ UNCHANGED mishaps
  <2>1. Leaves
    BY <1>0, <1>3, Ends, Wokens
  <2>2. disk' \in Disk /\ disk'.configured = disk.configured
    BY <1>0, <1>3 DEF Disk
  <2>3. ws' \in Memory /\ ws'.gen = ws.nextGen /\ ws'.nextGen = ws.nextGen + 1
    <3> DEFINE b == Bump(ws)
    <3>1. b \in Memory /\ b.gen = ws.nextGen /\ b.nextGen = ws.nextGen + 1 /\ b.nextInc = ws.nextInc
      BY <1>0, Bumps
    <3>2. ws' = [b EXCEPT !.project = None, !.unconfirmed = TRUE, !.inc = ws.nextInc,
                          !.nextInc = ws.nextInc + 1]
      BY <1>3, <3>1
    <3> HIDE DEF b
    <3>3. ws.nextInc + 1 \in Nat
      BY <1>1
    <3> QED
      BY <1>1, <3>1, <3>2, <3>3 DEF Memory
  <2>4. ws'.gen < ws'.nextGen /\ ws.nextGen <= ws'.nextGen
    BY <1>1, <2>3
  <2> QED
    BY <2>1, <2>2, <2>3, <2>4, <1>0, <1>3 DEF OpStep
<1>4. CASE /\ ws' = [ws EXCEPT !.nextGen = @ + 1, !.nextInc = @ + 1]
           /\ Happens /\ EndFails /\ UNCHANGED disk
  <2>1. Leaves
    BY <1>0, <1>4, EndsBadly
  <2>2. ws' \in Memory /\ ws'.gen = ws.gen /\ ws'.nextGen = ws.nextGen + 1
    <3>1. ws' = [ws EXCEPT !.nextGen = ws.nextGen + 1, !.nextInc = ws.nextInc + 1]
      BY <1>4
    <3>2. ws.nextInc + 1 \in Nat /\ ws.nextGen + 1 \in Nat
      BY <1>1
    <3> QED
      BY <1>0, <3>1, <3>2 DEF Memory
  <2>3. ws'.gen < ws'.nextGen /\ ws.nextGen <= ws'.nextGen
    BY <1>1, <2>2
  <2>4. mishaps' \in Nat
    BY <1>0, <1>4 DEF Happens
  <2> QED
    BY <2>1, <2>2, <2>3, <2>4, <1>0, <1>4 DEF OpStep
<1> QED
  BY <1>2, <1>3, <1>4 DEF Ensure

LEMMA OpRemovalBegins ==
  ASSUME Base, RemovalBegins
  PROVE  OpStep
<1>0. /\ ops # <<>> /\ Types /\ Gens /\ Run.kind = "begin" /\ Saves(Op)
      /\ UNCHANGED <<host, outer, inner, scope>> /\ bad' \subseteq bad
      /\ disk' \in Disk /\ disk'.configured = disk.configured /\ mishaps' \in Nat /\ ws \in Memory
  BY ClearWrite DEF RemovalBegins, Running, Run, Base, Types
<1>1. Step("clear") /\ WakesAll(at') /\ "clear" \in Steps(Run.kind)
  BY <1>0, Wokens DEF RemovalBegins, Steps
<1>2. Proceeds
  BY <1>0, <1>1, StepProceeds
<1>3. ws' = [Bump(ws) EXCEPT !.removing = TRUE, !.removal = ws.inc]
  BY DEF RemovalBegins
<1>4. ws' \in Memory /\ ws'.gen = ws.nextGen /\ ws'.nextGen = ws.nextGen + 1
  BY <1>0, <1>3, Bumps DEF Memory
<1>5. ws'.gen < ws'.nextGen /\ ws.nextGen <= ws'.nextGen
  BY <1>0, <1>4, Generations
<1> QED
  BY <1>0, <1>2, <1>4, <1>5 DEF OpStep

LEMMA OpRemovalAborted ==
  ASSUME Base, RemovalAborted
  PROVE  OpStep
<1>0. /\ ops # <<>> /\ Types /\ Gens /\ Run.kind = "abort" /\ Saves(Op) /\ End(at)
      /\ UNCHANGED <<host, outer, inner, scope>> /\ bad' \subseteq bad
      /\ disk' \in Disk /\ disk'.configured = disk.configured /\ mishaps' \in Nat /\ ws \in Memory
  BY NoWrite DEF RemovalAborted, Running, Run, Base, Types
<1>1. Leaves
  BY <1>0, Ends, Wokens
<1>2. ws' = ws \/ ws' = [Bump(ws) EXCEPT !.removing = FALSE]
  BY DEF RemovalAborted
<1>3. /\ ws.nextGen \in Nat /\ ws.gen < ws.nextGen /\ ws.nextGen <= ws.nextGen
      /\ ws.nextGen < ws.nextGen + 1 /\ ws.nextGen <= ws.nextGen + 1
  BY <1>0, Generations
<1>4. ws' \in Memory /\ ws'.gen < ws'.nextGen /\ ws.nextGen <= ws'.nextGen
  <2>1. CASE ws' = ws
    BY <2>1, <1>0, <1>3
  <2>2. CASE ws' = [Bump(ws) EXCEPT !.removing = FALSE]
    <3>1. ws' \in Memory /\ ws'.gen = ws.nextGen /\ ws'.nextGen = ws.nextGen + 1
      BY <2>2, <1>0, Bumps DEF Memory
    <3> QED
      BY <3>1, <1>3
  <2> QED
    BY <2>1, <2>2, <1>2
<1> QED
  BY <1>0, <1>1, <1>4 DEF OpStep

\* A bot that is retired is forgotten, and nobody waits for its project.
LEMMA Retires ==
  ASSUME Base, ops # <<>>, Retire
  PROVE  /\ Leaves /\ disk' \in Disk /\ disk'.configured = disk.configured /\ mishaps' \in Nat
         /\ ws' \in Memory /\ ws'.project = Absent /\ ws'.gen = 0 /\ ws'.nextGen = ws.nextGen
         /\ ~ws'.removing /\ ~ws'.unconfirmed
         /\ disk'.sessions = disk.sessions /\ disk'.project \in {disk.project, Absent}
         /\ \A d \in Caller : at'[d].pc \notin Waiting
         /\ at'[Run.by].pc # "fail"
<1>0. /\ Types /\ ws \in Memory /\ disk \in Disk /\ mishaps \in Nat
  BY DEF Base, Types
<1>1. ws' = Confirmed([ws EXCEPT !.project = Absent, !.gen = 0, !.inc = 0, !.removing = FALSE])
      /\ End(Woken(at))
  BY DEF Retire
<1>2. /\ Leaves /\ at'[Run.by].pc \notin Waiting /\ at'[Run.by].pc # "fail"
      /\ \A d \in Caller \ {Run.by} : at'[d] = Woken(at)[d]
  BY <1>0, <1>1, Ends, Wokens
<1>3. \A d \in Caller : at'[d].pc \notin Waiting
  BY <1>0, <1>2, Wokens
<1>4. /\ ws' \in Memory /\ ws'.project = Absent /\ ws'.gen = 0 /\ ws'.nextGen = ws.nextGen
      /\ ~ws'.removing /\ ~ws'.unconfirmed
  BY <1>0, <1>1 DEF Confirmed, Memory
<1>5. /\ disk' \in Disk /\ disk'.configured = disk.configured /\ mishaps' \in Nat
      /\ disk'.sessions = disk.sessions /\ disk'.project \in {disk.project, Absent}
  <2>1. CASE disk' = [disk EXCEPT !.project = Absent] /\ UNCHANGED mishaps
    BY <1>0, <2>1 DEF Disk
  <2>2. CASE Happens /\ UNCHANGED disk
    BY <1>0, <2>2 DEF Happens
  <2> QED
    BY <2>1, <2>2 DEF Retire
<1> QED
  BY <1>2, <1>3, <1>4, <1>5

LEMMA OpRetired ==
  ASSUME Base, Retired
  PROVE  OpStep
<1>0. /\ ops # <<>> /\ Types /\ Gens /\ Run.kind = "retire" /\ Saves(Op) /\ Retire
      /\ UNCHANGED <<host, outer, inner, scope>> /\ bad' \subseteq bad
  BY NoWrite DEF Retired, Running, Run, Base
<1>1. ws.gen \in Nat /\ ws.gen < ws.nextGen /\ ws.nextGen \in Nat
  BY <1>0 DEF Types, Memory, Gens
<1>2. 0 < ws.nextGen /\ ws.nextGen <= ws.nextGen
  BY <1>1
<1> QED
  BY <1>0, <1>2, Retires DEF OpStep

LEMMA OpRemovalEnds ==
  ASSUME Base, RemovalEnds
  PROVE  OpStep
<1>0. /\ ops # <<>> /\ Types /\ Gens /\ Run.kind = "finish" /\ Saves(Op)
      /\ UNCHANGED <<host, outer, inner, scope>> /\ bad' \subseteq bad
  BY NoWrite DEF RemovalEnds, Running, Run, Base
<1>1. ws.gen \in Nat /\ ws.gen < ws.nextGen /\ ws.nextGen \in Nat
  BY <1>0 DEF Types, Memory, Gens
<1>2. 0 < ws.nextGen /\ ws.nextGen <= ws.nextGen
  BY <1>1
<1>3. CASE Retire
  BY <1>0, <1>2, <1>3, Retires DEF OpStep
<1>4. CASE ws' = [ws EXCEPT !.removing = FALSE] /\ End(at) /\ UNCHANGED <<disk, mishaps>>
  <2>1. Leaves
    BY <1>0, <1>4, Ends, Wokens
  <2>2. ws' \in Memory /\ ws'.gen = ws.gen /\ ws'.nextGen = ws.nextGen
    BY <1>0, <1>4 DEF Types, Memory
  <2>3. disk' \in Disk /\ disk'.configured = disk.configured /\ mishaps' \in Nat
    BY <1>0, <1>4 DEF Types
  <2> QED
    BY <2>1, <2>2, <2>3, <1>0, <1>1, <1>2 DEF OpStep
<1> QED
  BY <1>3, <1>4 DEF RemovalEnds

\* The operations that run.
Operations ==
  \/ SetBegins \/ SetCleared \/ SetPersists \/ BindBegins \/ BindEnds \/ PersistAll \/ Ensure
  \/ RemovalBegins \/ RemovalBegun \/ RemovalAborted \/ Retired \/ RemovalEnds

LEMMA OperationSteps ==
  ASSUME Base, Operations
  PROVE  OpStep
  BY OpSetBegins, OpSetCleared, OpSetPersists, OpBindBegins, OpEnds, OpPersistAll, OpEnsure,
     OpRemovalBegins, OpRemovalAborted, OpRetired, OpRemovalEnds DEF Operations

LEMMA RequestSteps ==
  ASSUME Base, NEW r \in Request, Invoke(r) \/ Settings(r)
  PROVE  RequestStep(r)
  BY RequestInvoke, RequestChoose, RequestSetProject, RequestDelete, RequestKnown, RequestStop,
     RequestCommit, RequestCleanup, RequestCleanedUp, RequestUnsafe, RequestSaveConfig,
     RequestStart, RequestLeave DEF Settings

\* Where a turn has read a session or a project.
Reading == {"probe", "create", "keep", "save", "ask", "items", "adopted"}

\* A reconciliation leaves its caller where nothing has been read.
LEMMA Reconciled ==
  ASSUME Base, NEW c \in Caller \ Request, Reconcile(c)
  PROVE  ChatStep(c) /\ at'[c].pc \notin Reading
<1>0. Types /\ c \in Caller /\ at \in [Caller -> Task]
  BY DEF Base, Types
<1>1. ChatStep(c)
  BY ChatFetch, ChatApply, ChatClears, ChatCleared DEF Reconcile
<1>2. ASSUME at' = Readied(c) PROVE at'[c].pc \notin Reading
  BY <1>0, <1>2, Readies DEF Reading, Waiting
<1>3. ASSUME NEW p \in {"clear", "state", "writing"}, Go(c, p) PROVE at'[c].pc \notin Reading
  BY <1>0, <1>3 DEF Go, Reading, Task
<1>4. ASSUME at' = Failed(c) PROVE at'[c].pc \notin Reading
  <2>1. at'[c].pc = "ended"
    BY <1>0, <1>4, Fails, IdleTyped DEF PC
  <2> QED
    BY <2>1 DEF Reading
<1>5. ASSUME at' = [at EXCEPT ![c].pc = "apply", ![c].items = host.live] PROVE at'[c].pc \notin Reading
  BY <1>0, <1>5 DEF Reading, Task
<1> QED
  BY <1>1, <1>2, <1>3, <1>4, <1>5 DEF Reconcile, Fetch, Apply, ClearForPage, Cleared

\* What a turn is about to create has a project.
Rows == \A t \in Turn : at[t].pc = "create" => at[t].row \in Project

ChatActions(t) == Message(t) \/ Reconcile(t) \/ SetProject(t) \/ Chat(t)

LEMMA ChatSteps ==
  ASSUME Base, Rows, NEW t \in Turn, ChatActions(t)
  PROVE  ChatStep(t) /\ (at'[t].pc = "create" => at'[t].row \in Project)
<1>0. t \in Caller \ Request /\ "create" \in Reading
  BY Names DEF Reading
<1>1. CASE Message(t)
  BY <1>1, ChatMessage
<1>2. CASE Reconcile(t)
  BY <1>0, <1>2, Reconciled
<1>3. CASE SetProject(t)
  BY <1>3, ChatSwitches
<1>4. CASE Resolve(t) \/ Probe(t)
  BY <1>4, ChatResolve, ChatProbe
<1>5. CASE Create(t)
  BY <1>5, ChatCreate
<1>6. CASE Created(t)
  <2>1. at[t].row \in Project
    BY <1>6 DEF Created, Rows
  <2> QED
    BY <1>6, <2>1, ChatCreated
<1>7. CASE Keep(t) \/ Kept(t) \/ Ask(t)
  BY <1>7, ChatKeep, ChatKept, ChatAsk
<1>8. CASE Adopt(t) \/ Adopted(t)
  BY <1>8, ChatAdopt, ChatAdopted
<1> QED
  BY <1>1, <1>2, <1>3, <1>4, <1>5, <1>6, <1>7, <1>8 DEF ChatActions, Chat

-----------------------------------------------------------------------------
(* The rest of the world                                                     *)

LEMMA WriteBase ==
  ASSUME Base, WriteState
  PROVE  /\ Base' /\ stq # <<>> /\ stq' = Tail(stq) /\ Head(stq) \in Write
         /\ \/ disk' = [disk EXCEPT !.sessions = Head(stq).sessions] /\ bad' = bad
            \/ disk' = disk /\ bad' = bad \cup {Head(stq).by}
         /\ disk'.configured = disk.configured /\ disk'.project = disk.project
         /\ UNCHANGED <<host, ws, ops, sess, at, outer, inner, scope>>
<1>0. /\ UNCHANGED <<host, ws, ops, sess, at, outer, inner, scope>> /\ stq # <<>> /\ stq' = Tail(stq)
      /\ Types /\ stq \in Seq(Write) /\ disk \in Disk /\ mishaps \in Nat
  BY DEF WriteState, Base, Types
<1>1. Head(stq) \in Write /\ stq' \in Seq(Write)
  BY <1>0, Shorter
<1>2. \/ disk' = [disk EXCEPT !.sessions = Head(stq).sessions] /\ bad' = bad /\ mishaps' = mishaps
      \/ disk' = disk /\ bad' = bad \cup {Head(stq).by} /\ mishaps' = mishaps + 1
  BY DEF WriteState, Happens
<1>3. /\ disk' \in Disk /\ disk'.configured = disk.configured /\ disk'.project = disk.project
      /\ bad' \subseteq Caller \cup {Op} /\ mishaps' \in Nat
  <2>1. CASE disk' = [disk EXCEPT !.sessions = Head(stq).sessions] /\ bad' = bad /\ mishaps' = mishaps
    BY <2>1, <1>0, <1>1 DEF Disk, Write, Types
  <2>2. CASE disk' = disk /\ bad' = bad \cup {Head(stq).by} /\ mishaps' = mishaps + 1
    BY <2>2, <1>0, <1>1 DEF Write, Types
  <2> QED
    BY <1>2, <2>1, <2>2
<1>4. Types'
  BY <1>0, <1>1, <1>3 DEF Types
<1>5. Gens' /\ Roles' /\ Line'
  BY <1>0 DEF Base, Gens, Roles, Line
<1> QED
  BY <1>0, <1>1, <1>2, <1>3, <1>4, <1>5 DEF Base

LEMMA DeleteBase ==
  ASSUME Base, DeleteProject
  PROVE  /\ Base' /\ host'.of = host.of
         /\ UNCHANGED <<ws, ops, sess, stq, bad, disk, at, outer, inner, scope>>
<1>0. /\ UNCHANGED <<ws, ops, sess, stq, bad, disk, at, outer, inner, scope>> /\ Types
      /\ host \in Host /\ mishaps \in Nat /\ mishaps' = mishaps + 1
  BY DEF DeleteProject, Happens, Base, Types
<1>1. PICK p \in host.live : host' = [host EXCEPT !.live = host.live \ {p}]
  BY DEF DeleteProject
<1>2. host' \in Host /\ host'.of = host.of
  BY <1>0, <1>1 DEF Host
<1>3. Types'
  BY <1>0, <1>2 DEF Types
<1>4. Gens' /\ Roles' /\ Line'
  BY <1>0 DEF Base, Gens, Roles, Line
<1> QED
  BY <1>0, <1>2, <1>3, <1>4 DEF Base

\* After a restart the store holds what was stored, unless the bot or its project is gone.
Loads(p, sessions) ==
  /\ ws'.project = p /\ ws'.unconfirmed = (p = None) /\ ~ws'.removing
  /\ sess' = sessions /\ disk'.sessions = sessions /\ disk'.project = p
  /\ p # Absent => disk.configured
  /\ p \in Project => p = disk.project /\ sessions = disk.sessions
  /\ scope'.inc # 0 => p # Absent /\ scope'.inc = ws'.inc

LEMMA CrashBase ==
  ASSUME Base, CrashRestart
  PROVE  /\ Base' /\ disk'.configured = disk.configured /\ host' = host
         /\ ops' = <<>> /\ stq' = <<>> /\ bad' = {} /\ outer' = None /\ inner' = None
         /\ \E p \in Project \cup {None, Absent}, sessions \in Sessions : Loads(p, sessions)
         /\ \A c \in Caller : \/ at[c].pc \in {"idle", "asked"} /\ at'[c] = at[c]
                              \/ at'[c] = Ended("ended")
<1>0. /\ Types /\ host \in Host /\ ws \in Memory /\ disk \in Disk /\ at \in [Caller -> Task]
      /\ scope \in Scope /\ mishaps \in Nat /\ mishaps' = mishaps + 1 /\ disk.sessions \in Sessions
      /\ ops' = <<>> /\ stq' = <<>> /\ bad' = {} /\ outer' = None /\ inner' = None /\ host' = host
  BY DEF CrashRestart, Happens, Base, Types, Disk
<1>1. PICK catalog \in {host.live, Project} :
       LET known == IF disk.project = Absent THEN None ELSE disk.project
           gone == known \in Project \ catalog
           project == IF ~disk.configured THEN Absent ELSE IF gone THEN None ELSE known
           sessions == IF disk.configured /\ gone THEN NoSession ELSE disk.sessions
           here == project # Absent
       IN  /\ ws' = [project |-> project, gen |-> IF here THEN ws.nextGen ELSE 0,
                     nextGen |-> ws.nextGen + 1, inc |-> IF here THEN ws.nextInc ELSE 0,
                     nextInc |-> ws.nextInc + 1, removing |-> FALSE, removal |-> 0,
                     unconfirmed |-> project = None]
           /\ sess' = sessions
           /\ disk' = [disk EXCEPT !.project = project, !.sessions = sessions]
           /\ scope' \in {Stopped} \cup (IF here THEN {Started(ws.nextInc)} ELSE {})
  BY DEF CrashRestart
<1> DEFINE known == IF disk.project = Absent THEN None ELSE disk.project
           gone == known \in Project \ catalog
           project == IF ~disk.configured THEN Absent ELSE IF gone THEN None ELSE known
           sessions == IF disk.configured /\ gone THEN NoSession ELSE disk.sessions
           here == project # Absent
           gen == IF here THEN ws.nextGen ELSE 0
           inc == IF here THEN ws.nextInc ELSE 0
<1>2. /\ ws' = [project |-> project, gen |-> gen, nextGen |-> ws.nextGen + 1, inc |-> inc,
                nextInc |-> ws.nextInc + 1, removing |-> FALSE, removal |-> 0,
                unconfirmed |-> project = None]
      /\ sess' = sessions
      /\ disk' = [disk EXCEPT !.project = project, !.sessions = sessions]
      /\ scope' = Stopped \/ (here /\ scope' = Started(ws.nextInc))
  BY <1>1
<1>3. /\ project \in Project \cup {None, Absent} /\ (project # Absent => disk.configured)
      /\ project \in Project => project = disk.project
  BY <1>0, Names DEF Disk
<1>4. sessions \in Sessions
  BY <1>0, NoSessionTyped
<1>5. project \in Project => sessions = disk.sessions
  BY Names
<1>6. /\ ws.nextGen \in Nat /\ ws.nextInc \in Nat /\ gen \in Nat /\ inc \in Nat
      /\ gen < ws.nextGen + 1
      /\ here => inc = ws.nextInc
  BY <1>0 DEF Memory, Base, Gens
<1>7. /\ Stopped \in Scope /\ Stopped.inc = 0 /\ Started(ws.nextInc) \in Scope
      /\ Started(ws.nextInc).inc = ws.nextInc
  BY <1>0, <1>6 DEF Stopped, Started, Scope
<1> HIDE DEF sessions, gen, inc, project
<1>8. /\ ws' \in Memory /\ ws'.project = project /\ ws'.unconfirmed = (project = None) /\ ~ws'.removing
      /\ ws'.gen = gen /\ ws'.nextGen = ws.nextGen + 1 /\ ws'.inc = inc
  BY <1>2, <1>3, <1>6 DEF Memory
<1>9. /\ disk' \in Disk /\ disk'.sessions = sessions /\ disk'.project = project
      /\ disk'.configured = disk.configured
  BY <1>0, <1>2, <1>3, <1>4 DEF Disk
<1>10. scope' \in Scope /\ (scope'.inc # 0 => project # Absent /\ scope'.inc = inc)
  BY <1>2, <1>6, <1>7
<1>11. \A c \in Caller : /\ at'[c] \in Task /\ at'[c].gen \in {at[c].gen, 0}
                         /\ \/ at[c].pc \in {"idle", "asked"} /\ at'[c] = at[c]
                            \/ at'[c] = Ended("ended")
  <2>1. Ended("ended") \in Task /\ Ended("ended").gen = 0
    BY <1>0, IdleTyped DEF PC
  <2> QED
    BY <1>0, <2>1 DEF CrashRestart
<1>12. at' \in [Caller -> Task]
  BY <1>11 DEF CrashRestart
<1>13. Types'
  BY <1>0, <1>2, <1>4, <1>8, <1>9, <1>10, <1>12 DEF Types
<1>14. Gens'
  <2>1. Len(ops') = 0
    BY <1>0
  <2>2. \A c \in Caller : at'[c].gen < ws'.nextGen
    <3> SUFFICES ASSUME NEW c \in Caller PROVE at'[c].gen < ws'.nextGen
      OBVIOUS
    <3>1. at[c].gen < ws.nextGen /\ at[c].gen \in Nat /\ at'[c].gen \in {at[c].gen, 0}
      BY <1>0, <1>11 DEF Base, Gens, Task
    <3> QED
      BY <3>1, <1>6, <1>8
  <2> QED
    BY <2>1, <2>2, <1>6, <1>8 DEF Gens
<1>15. /\ Ended("ended").pc = "ended" /\ Ended("ended").then = "none"
       /\ "ended" \in ChatPC /\ "ended" \in Path("none") /\ "ended" \notin Queued
  BY <1>0, IdleTyped, ChatPlaces DEF PC, Path, Queued
<1>16. Roles'
  BY <1>11, <1>15, Names DEF Base, Roles
<1>17. Line'
  <2>1. Len(ops') = 0
    BY <1>0
  <2>2. \A c \in Caller : at'[c].pc \notin Queued
    BY <1>11, <1>15 DEF Queued
  <2> QED
    BY <2>1, <2>2 DEF Line
<1>18. Loads(project, sessions)
  BY <1>2, <1>3, <1>5, <1>8, <1>9, <1>10 DEF Loads
<1> QED
  BY <1>0, <1>3, <1>4, <1>9, <1>11, <1>13, <1>14, <1>16, <1>17, <1>18 DEF Base

-----------------------------------------------------------------------------
(* Every step is one of these                                               *)

ByChat(c) ==
  /\ ChatStep(c)
  /\ \/ c \in Turn /\ ChatActions(c) /\ (at'[c].pc = "create" => at'[c].row \in Project)
     \/ c = Other /\ (Reconcile(c) \/ OtherStarts \/ OtherEnds)
ByPage(r) == RequestStep(r) /\ (Invoke(r) \/ Settings(r))
ByQueue == OpStep /\ Operations
Kinds ==
  \/ \E c \in Turn \cup {Other} : ByChat(c)
  \/ \E r \in Request : ByPage(r)
  \/ ByQueue \/ WriteState \/ DeleteProject \/ CrashRestart
  \/ UNCHANGED vars

LEMMA EveryStep ==
  ASSUME Base, Rows, [Next]_vars
  PROVE  Kinds
<1>1. ASSUME NEW t \in Turn, Message(t) \/ Reconcile(t) \/ SetProject(t) \/ Chat(t)
      PROVE  Kinds
  <2>1. ChatActions(t)
    BY <1>1 DEF ChatActions
  <2>2. ByChat(t)
    BY <2>1, ChatSteps DEF ByChat
  <2> QED
    BY <2>2 DEF Kinds
<1>2. ASSUME NEW r \in Request, Invoke(r) \/ Settings(r)
      PROVE  Kinds
  <2>1. ByPage(r)
    BY <1>2, RequestSteps DEF ByPage
  <2> QED
    BY <2>1 DEF Kinds
<1>3. ASSUME OtherStarts \/ Reconcile(Other) \/ OtherEnds
      PROVE  Kinds
  <2>1. Other \in Caller \ Request
    BY Names
  <2>2. ChatStep(Other)
    BY <1>3, <2>1, ChatOther, Reconciled
  <2>3. ByChat(Other)
    BY <1>3, <2>2 DEF ByChat
  <2> QED
    BY <2>3 DEF Kinds
<1>4. ASSUME Store PROVE Kinds
  BY <1>4, OperationSteps DEF Store, Operations, ByQueue, Kinds
<1>5. ASSUME DeleteProject \/ CrashRestart \/ UNCHANGED vars PROVE Kinds
  BY <1>5 DEF Kinds
<1> QED
  BY <1>1, <1>2, <1>3, <1>4, <1>5 DEF Next

\* The callers that a step leaves alone.
LEMMA TurnsOfPage ==
  ASSUME Base, NEW r \in Request, RequestStep(r)
  PROVE  \A d \in Caller \ Request : at'[d] = at[d]
  BY Names DEF RequestStep, Others

LEMMA PageOfTurns ==
  ASSUME Base, NEW c, ChatStep(c)
  PROVE  \A r \in Request : at'[r] = at[r]
  BY Names DEF ChatStep, Others

LEMMA StutterBase ==
  ASSUME Base, UNCHANGED vars
  PROVE  Base'
  BY DEF Base, Types, Gens, Roles, Line, vars

LEMMA BaseKept ==
  ASSUME Base, Rows, Kinds
  PROVE  Base' /\ Rows'
<1>1. ASSUME NEW c \in Turn \cup {Other}, ByChat(c) PROVE Base' /\ Rows'
  <2>1. ChatStep(c) /\ (c \in Turn /\ at'[c].pc = "create" => at'[c].row \in Project)
    BY <1>1, Names DEF ByChat
  <2>2. Base'
    BY <2>1, ChatBase
  <2>3. Rows'
    BY <2>1, Names DEF Rows, ChatStep, Others
  <2> QED
    BY <2>2, <2>3
<1>2. ASSUME NEW r \in Request, ByPage(r) PROVE Base' /\ Rows'
  <2>1. RequestStep(r)
    BY <1>2 DEF ByPage
  <2>2. Base'
    BY <2>1, RequestBase
  <2>3. Rows'
    BY <2>1, Names, TurnsOfPage DEF Rows
  <2> QED
    BY <2>2, <2>3
<1>3. ASSUME ByQueue PROVE Base' /\ Rows'
  <2>1. OpStep
    BY <1>3 DEF ByQueue
  <2>2. Base'
    BY <2>1, OpBase
  <2>3. ASSUME NEW t \in Turn, at'[t].pc = "create" PROVE at'[t].row \in Project
    <3>1. t \in Caller /\ t \notin Request
      BY Names
    <3>2. at'[t] = at[t]
      <4>1. ASSUME Wakes(at', t) PROVE at'[t] = at[t]
        BY <2>3, <4>1 DEF Wakes
      <4>2. CASE Leaves
        BY <2>3, <3>1, <4>1, <4>2 DEF Leaves
      <4>3. CASE Proceeds
        BY <3>1, <4>1, <4>3 DEF Proceeds, WakesAll
      <4> QED
        BY <2>1, <4>2, <4>3 DEF OpStep
    <3> QED
      BY <2>3, <3>2 DEF Rows
  <2> QED
    BY <2>2, <2>3 DEF Rows
<1>4. ASSUME WriteState PROVE Base' /\ Rows'
  BY <1>4, WriteBase DEF Rows
<1>5. ASSUME DeleteProject PROVE Base' /\ Rows'
  BY <1>5, DeleteBase DEF Rows
<1>6. ASSUME CrashRestart PROVE Base' /\ Rows'
  <2>1. Base' /\ \A c \in Caller : at'[c].pc # "create"
    <3>1. Ended("ended").pc = "ended"
      BY IdleTyped DEF Base, PC
    <3> QED
      BY <1>6, <3>1, CrashBase
  <2> QED
    BY <2>1, Names DEF Rows
<1>7. ASSUME UNCHANGED vars PROVE Base' /\ Rows'
  BY <1>7, StutterBase DEF Rows, vars
<1> QED
  BY <1>1, <1>2, <1>3, <1>4, <1>5, <1>6, <1>7 DEF Kinds

-----------------------------------------------------------------------------
(* Who waits for a project                                                   *)

Waiters ==
  /\ ws.unconfirmed => ws.project # Absent
  /\ \A t \in Turn : at[t].pc \in Waiting => ws.unconfirmed
  /\ \A t \in Turn : at[t].held => Busy(t)

\* An operation that leaves the project confirmed leaves nobody waiting for it.
Empties ==
  /\ ws'.unconfirmed => ws'.project # Absent
  /\ ws.unconfirmed => ws'.unconfirmed \/ \A d \in Caller : at'[d].pc \notin Waiting

LEMMA ConfirmEmpties ==
  ASSUME Base, ops # <<>>, ws' = Confirmed(ws), End(Woken(at))
  PROVE  Empties
<1>1. /\ at'[Run.by].pc \notin Waiting
      /\ \A d \in Caller \ {Run.by} : at'[d] = Woken(at)[d]
  BY Ends, Wokens DEF Base
<1>2. \A d \in Caller : at'[d].pc \notin Waiting
  BY <1>1, Wokens DEF Base
<1>3. ~ws'.unconfirmed
  BY Generations DEF Base
<1> QED
  BY <1>2, <1>3 DEF Empties

LEMMA OperationEmpties ==
  ASSUME Base, Waiters, Operations
  PROVE  Empties
<1>0. /\ Types /\ ws \in Memory /\ Gens
      /\ ws.unconfirmed => ws.project # Absent
  BY DEF Base, Types, Waiters
<1>1. ASSUME ws' = ws PROVE Empties
  BY <1>0, <1>1 DEF Empties
<1>2. ASSUME ws'.project # Absent, ws'.unconfirmed = ws.unconfirmed PROVE Empties
  BY <1>2 DEF Empties
<1>3. ASSUME ops # <<>>, Retire PROVE Empties
  BY <1>3, Retires DEF Empties
<1>4. CASE SetBegins
  <2>0. ops # <<>>
    BY <1>4 DEF SetBegins, Running
  <2>1. ASSUME Has, ws' = Bump(ws) PROVE Empties
    BY <1>0, <1>2, <2>1, Bumps DEF Has
  <2> QED
    BY <1>1, <1>4, <2>0, <2>1, ConfirmEmpties DEF SetBegins
<1>5. CASE SetCleared
  <2>0. ops # <<>> /\ Run \in Operation
    BY <1>5, Runner DEF SetCleared, Running
  <2>1. ASSUME ws' = [ws EXCEPT !.project = Run.row] PROVE Empties
    <3>1. Run.row # Absent
      BY <2>0, Names DEF Operation
    <3> QED
      BY <1>0, <1>2, <2>1, <3>1 DEF Memory
  <2> QED
    BY <1>1, <1>5, <2>1 DEF SetCleared
<1>6. CASE SetPersists
  <2>0. ops # <<>> /\ Run \in Operation
    BY <1>6, Runner DEF SetPersists, Running
  <2>1. ASSUME ws' = [ws EXCEPT !.project = Run.prev] PROVE Empties
    <3>1. Run.prev # Absent
      BY <2>0, Names DEF Operation
    <3> QED
      BY <1>0, <1>2, <2>1, <3>1 DEF Memory
  <2> QED
    BY <1>6, <2>0, <2>1, ConfirmEmpties DEF SetPersists
<1>7. CASE BindBegins \/ BindEnds \/ PersistAll \/ RemovalBegun
  BY <1>1, <1>7 DEF BindBegins, BindEnds, PersistAll, RemovalBegun
<1>8. CASE Ensure
  <2>1. ASSUME NEW b \in Memory,
               ws' = [b EXCEPT !.project = None, !.unconfirmed = TRUE,
                               !.inc = ws.nextInc, !.nextInc = @ + 1]
        PROVE  Empties
    <3>1. ws'.project = None /\ ws'.unconfirmed
      BY <2>1 DEF Memory
    <3> QED
      BY <3>1, Names DEF Empties
  <2>2. ASSUME ws.project = Absent, ws' = [ws EXCEPT !.nextGen = @ + 1, !.nextInc = @ + 1]
        PROVE  Empties
    <3>1. ws'.unconfirmed = ws.unconfirmed /\ ws'.project = ws.project
      BY <1>0, <2>2 DEF Memory
    <3> QED
      BY <1>0, <3>1 DEF Empties
  <2> QED
    BY <1>0, <1>1, <1>8, <2>1, <2>2, Bumps DEF Ensure
<1>9. CASE RemovalBegins \/ RemovalAborted
  <2> DEFINE b == Bump(ws)
  <2>1. b \in Memory /\ b.project = ws.project /\ b.unconfirmed = ws.unconfirmed
    BY <1>0, Bumps
  <2>2. \/ ws' = [b EXCEPT !.removing = TRUE, !.removal = ws.inc]
        \/ ws' = [b EXCEPT !.removing = FALSE] \/ ws' = ws
    BY <1>9 DEF RemovalBegins, RemovalAborted
  <2> HIDE DEF b
  <2>3. ws'.unconfirmed = ws.unconfirmed /\ ws'.project = ws.project
    BY <2>1, <2>2 DEF Memory
  <2> QED
    BY <1>0, <2>3 DEF Empties
<1>10. CASE Retired
  BY <1>3, <1>10 DEF Retired, Running
<1>11. CASE RemovalEnds
  <2>1. ASSUME ws' = [ws EXCEPT !.removing = FALSE] PROVE Empties
    <3>1. ws'.unconfirmed = ws.unconfirmed /\ ws'.project = ws.project
      BY <1>0, <2>1 DEF Memory
    <3> QED
      BY <1>0, <3>1 DEF Empties
  <2> QED
    BY <1>3, <1>11, <2>1 DEF RemovalEnds, Running
<1> QED
  BY <1>4, <1>5, <1>6, <1>7, <1>8, <1>9, <1>10, <1>11 DEF Operations

LEMMA WaitersKept ==
  ASSUME Base, Waiters, Kinds
  PROVE  Waiters'
<1>0. \A t \in Turn : t \in Caller /\ t \notin Request
  BY Names
<1>1. ASSUME NEW c \in Turn \cup {Other}, ByChat(c) PROVE Waiters'
  <2>1. ChatStep(c) /\ Types /\ Gens
    BY <1>1 DEF ByChat, Base
  <2>2. /\ ws.unconfirmed => ws'.unconfirmed
        /\ ws'.unconfirmed => ws'.project # Absent
    BY <2>1, UnbindFacts, Names DEF ChatStep, Waiters
  <2>3. ASSUME NEW t \in Turn
        PROVE  /\ at'[t].pc \in Waiting => ws'.unconfirmed
               /\ at'[t].held => at'[t].pc \notin {"idle", "asked", "ended"}
    <3>1. CASE t = c
      BY <3>1, <2>1, <2>2 DEF ChatStep
    <3>2. CASE t # c
      BY <3>2, <1>0, <2>1, <2>2 DEF ChatStep, Others, Waiters, Busy
    <3> QED
      BY <3>1, <3>2
  <2> QED
    BY <2>2, <2>3 DEF Waiters, Busy
<1>2. ASSUME NEW r \in Request, ByPage(r) PROVE Waiters'
  <2>1. RequestStep(r) /\ ws' = ws
    BY <1>2 DEF ByPage, RequestStep
  <2>2. \A t \in Turn : at'[t] = at[t]
    BY <1>0, <2>1, TurnsOfPage
  <2> QED
    BY <2>1, <2>2 DEF Waiters, Busy
<1>3. ASSUME ByQueue PROVE Waiters'
  <2>1. OpStep /\ Empties
    BY <1>3, OperationEmpties DEF ByQueue
  <2>2. ASSUME NEW t \in Turn
        PROVE  /\ at'[t].pc \in Waiting => ws.unconfirmed
               /\ at'[t].held => at'[t].pc \notin {"idle", "asked", "ended"}
    <3>1. ASSUME Wakes(at', t)
          PROVE  /\ at'[t].pc \in Waiting => ws.unconfirmed
                 /\ at'[t].held => at'[t].pc \notin {"idle", "asked", "ended"}
      BY <3>1 DEF Wakes, Waiters, Busy
    <3>2. CASE Leaves
      BY <1>0, <3>1, <3>2 DEF Leaves
    <3>3. CASE Proceeds
      BY <1>0, <3>1, <3>3 DEF Proceeds, WakesAll
    <3> QED
      BY <2>1, <3>2, <3>3 DEF OpStep
  <2>3. ASSUME NEW t \in Turn, at'[t].pc \in Waiting PROVE ws'.unconfirmed
    BY <1>0, <2>1, <2>2, <2>3 DEF Empties
  <2> QED
    BY <2>1, <2>2, <2>3 DEF Waiters, Busy, Empties
<1>4. ASSUME WriteState PROVE Waiters'
  BY <1>4, WriteBase DEF Waiters, Busy
<1>5. ASSUME DeleteProject PROVE Waiters'
  BY <1>5, DeleteBase DEF Waiters, Busy
<1>6. ASSUME CrashRestart PROVE Waiters'
  <2>1. ws'.unconfirmed => ws'.project # Absent
    <3>1. PICK p \in Project \cup {None, Absent}, sessions \in Sessions : Loads(p, sessions)
      BY <1>6, CrashBase
    <3> QED
      BY <3>1, Names DEF Loads
  <2>2. Ended("ended").pc = "ended" /\ ~Ended("ended").held
    BY IdleTyped DEF Base, PC
  <2>3. ASSUME NEW t \in Turn PROVE at'[t].pc \notin Waiting /\ ~at'[t].held
    <3>1. \/ at[t].pc \in {"idle", "asked"} /\ at'[t] = at[t]
          \/ at'[t] = Ended("ended")
      BY <1>0, <1>6, CrashBase
    <3> QED
      BY <2>2, <3>1 DEF Waiters, Busy, Waiting
  <2> QED
    BY <2>1, <2>3 DEF Waiters
<1>7. ASSUME UNCHANGED vars PROVE Waiters'
  BY <1>7 DEF Waiters, Busy, vars
<1> QED
  BY <1>1, <1>2, <1>3, <1>4, <1>5, <1>6, <1>7 DEF Kinds

-----------------------------------------------------------------------------
(* Who holds the transitions of the two controllers                          *)

Inside == {"commit", "retiring", "ensuring", "scope", "cleanup", "cleaning", "config"}
Holders ==
  /\ \A r \in Request : at[r].pc \in Inside => inner = r
  /\ inner # None => at[inner].pc \in Inside \cup {"fail"}
  /\ \A r \in Request : at[r].then = "delete" /\ at[r].pc # "delete" => outer = r
  /\ outer # None => Busy(outer)
  /\ \A r \in Request : at[r].then = "delete" /\ at[r].pc = "fail" => inner = r

LEMMA PageHolders ==
  ASSUME Base, Holders, NEW r \in Request, ByPage(r)
  PROVE  Holders'
<1>0. /\ RequestStep(r) /\ r \in Caller /\ None \notin Request /\ Others(r) /\ Request \subseteq Caller
      /\ at[r].then = "delete" <=> at[r].pc \in Path("delete") /\ at[r].then = "delete"
  BY Names, Wants DEF ByPage, RequestStep, Base, Roles
<1>1. /\ outer \in Request \cup {None} /\ inner \in Request \cup {None}
  BY DEF Base, Types
<1>2. CASE Invoke(r)
  <2>1. /\ at'[r].pc \in {"choose", "delete", "bind"} /\ at'[r].then = at'[r].pc
        /\ at[r].pc = "idle" /\ outer' = outer /\ inner' = inner
    BY <1>2, RequestInvoke DEF Invoke, Quiet
  <2> QED
    BY <1>0, <1>1, <2>1 DEF Others, Holders, Inside, Busy
<1>3. CASE Choose(r)
  <2>1. /\ at'[r].pc \in {"items", "fail"} /\ at'[r].then = at[r].then /\ at[r].then = "choose"
        /\ at[r].pc = "choose" /\ outer' = r /\ inner' = inner
    BY <1>3, RequestChoose, Wants DEF Choose, Went, Same
  <2> QED
    BY <1>0, <1>1, <1>3, <2>1 DEF Others, Holders, Inside, Busy, Choose
<1>4. CASE SetProject(r)
  <2>1. /\ at'[r].pc \in {"setting", "fail"} /\ at'[r].then = at[r].then /\ at[r].then = "choose"
        /\ at[r].pc = "items" /\ outer' = outer /\ inner' = inner
    BY <1>4, RequestSetProject, Wants DEF SetProject, Went, Same
  <2> QED
    BY <1>0, <1>1, <2>1 DEF Others, Holders, Inside, Busy
<1>5. CASE Delete(r)
  <2>1. /\ at'[r].pc = "fencing" /\ at'[r].then = at[r].then
        /\ at[r].pc = "delete" /\ outer' = r /\ inner' = inner /\ outer = None
    BY <1>5, RequestDelete DEF Delete, Went, Same
  <2> QED
    BY <1>0, <1>1, <2>1 DEF Others, Holders, Inside, Busy
<1>6. CASE Known(r)
  <2>1. /\ at'[r].pc \in {"stop", "unsafe"} /\ at'[r].then = at[r].then
        /\ at[r].pc = "remove" /\ outer' = outer /\ inner' = inner
    BY <1>6, RequestKnown DEF Known, Quiet, Went, Same
  <2> QED
    BY <1>0, <1>1, <2>1 DEF Others, Holders, Inside, Busy
<1>7. CASE StopRuntime(r)
  <2>1. /\ at'[r].pc \in {"commit", "config"} /\ at'[r].then = at[r].then
        /\ at[r].pc \in {"stop", "bind"} /\ outer' = outer /\ inner' = r /\ inner = None
    BY <1>7, RequestStop DEF StopRuntime, Went, Same
  <2> QED
    BY <1>0, <1>1, <2>1 DEF Others, Holders, Inside, Busy
<1>8. CASE Commit(r)
  <2>1. /\ at'[r].pc \in {"retiring", "ensuring"} /\ at'[r].then = at[r].then
        /\ at[r].pc = "commit" /\ outer' = outer /\ inner' = inner
    BY <1>8, RequestCommit DEF Commit, Went, Same
  <2> QED
    BY <1>0, <1>1, <2>1 DEF Others, Holders, Inside, Busy
<1>9. CASE Cleanup(r)
  <2>1. /\ at'[r].pc = "cleaning" /\ at'[r].then = at[r].then
        /\ at[r].pc = "cleanup" /\ outer' = outer /\ inner' = inner
    BY <1>9, RequestCleanup DEF Cleanup, Quiet, Went, Same
  <2> QED
    BY <1>0, <1>1, <2>1 DEF Others, Holders, Inside, Busy
<1>10. CASE CleanedUp(r)
  <2>1. /\ at'[r].pc = "finishing" /\ at'[r].then = at[r].then
        /\ at[r].pc = "cleaning" /\ outer' = outer /\ inner' = None
    BY <1>10, RequestCleanedUp DEF CleanedUp, Went, Same
  <2> QED
    BY <1>0, <1>1, <2>1 DEF Others, Holders, Inside, Busy
<1>11. CASE DeleteFails(r)
  <2>1. /\ at'[r].pc = "finishing" /\ at'[r].then = at[r].then
        /\ at[r].pc = "unsafe" /\ outer' = outer /\ inner' = inner
    BY <1>11, RequestUnsafe DEF DeleteFails, Went, Same
  <2> QED
    BY <1>0, <1>1, <2>1 DEF Others, Holders, Inside, Busy
<1>12. CASE SaveConfig(r)
  <2>1. /\ at'[r].pc \in {"ensuring", "fail"} /\ at'[r].then = at[r].then /\ at[r].then = "bind"
        /\ at[r].pc = "config" /\ outer' = outer /\ inner' = inner
    BY <1>12, RequestSaveConfig, Wants DEF SaveConfig, Went, Same
  <2> QED
    BY <1>0, <1>1, <2>1 DEF Others, Holders, Inside, Busy
<1>13. CASE StartRuntime(r)
  <2>1. /\ at'[r].pc \in {"leave", "unsafe"} /\ at'[r].then = at[r].then
        /\ at[r].pc = "scope" /\ outer' = outer /\ inner' = None
    BY <1>13, RequestStart DEF StartRuntime, Went, Same
  <2> QED
    BY <1>0, <1>1, <2>1 DEF Others, Holders, Inside, Busy
<1>14. CASE Leave(r)
  <2>0. /\ inner' = IF inner = r THEN None ELSE inner
        /\ at[r].pc \in {"fail", "leave"}
    BY <1>14 DEF Leave
  <2>1. CASE at[r].then = "delete" /\ inner = r
    <3>1. at'[r].pc = "unsafe" /\ at'[r].then = "delete" /\ outer' = outer
      BY <1>14, <2>1, RequestLeave DEF Leave, Went, Same
    <3> QED
      BY <1>0, <1>1, <2>0, <2>1, <3>1 DEF Others, Holders, Inside, Busy
  <2>2. CASE ~(at[r].then = "delete" /\ inner = r)
    <3>1. /\ at'[r].pc = "ended" /\ at'[r].then = "none"
          /\ outer' = IF outer = r THEN None ELSE outer
      BY <1>14, <2>2, RequestLeave DEF Leave
    <3> QED
      BY <1>0, <1>1, <2>0, <2>2, <3>1 DEF Others, Holders, Inside, Busy
  <2> QED
    BY <2>1, <2>2
<1> QED
  BY <1>2, <1>3, <1>4, <1>5, <1>6, <1>7, <1>8, <1>9, <1>10, <1>11, <1>12, <1>13, <1>14
     DEF ByPage, Settings

\* What the queue does to the requests: only the one whose operation ends goes on.
LEMMA QueueOfPage ==
  ASSUME Base, OpStep
  PROVE  \A r \in Request :
           \/ at'[r] = at[r]
           \/ /\ Leaves /\ r = Run.by /\ at'[r].then = at[r].then
              /\ at[r].pc = Place(Run.kind) /\ Run.kind \in PageKinds
              /\ at'[r].pc \in {After(Run.kind), "fail"}
              /\ at'[r].pc = "fail" => Run.kind \in {"set", "ensure"}
<1> SUFFICES ASSUME NEW r \in Request
             PROVE  \/ at'[r] = at[r]
                    \/ /\ Leaves /\ r = Run.by /\ at'[r].then = at[r].then
                       /\ at[r].pc = Place(Run.kind) /\ Run.kind \in PageKinds
                       /\ at'[r].pc \in {After(Run.kind), "fail"}
                       /\ at'[r].pc = "fail" => Run.kind \in {"set", "ensure"}
  OBVIOUS
<1>1. r \in Caller /\ at[r].pc \notin Waiting /\ ops # <<>>
  BY Wants DEF OpStep
<1>2. Wakes(at', r) => at'[r] = at[r]
  BY <1>1 DEF Wakes
<1>3. CASE Leaves
  BY <1>1, <1>2, <1>3, Runner DEF Leaves
<1>4. CASE Proceeds
  BY <1>1, <1>2, <1>4 DEF Proceeds, WakesAll
<1> QED
  BY <1>3, <1>4 DEF OpStep

LEMMA HoldersKept ==
  ASSUME Base, Holders, Kinds
  PROVE  Holders'
<1>0. /\ outer \in Request \cup {None} /\ inner \in Request \cup {None}
  BY DEF Base, Types
<1>1. ASSUME \A r \in Request : at'[r] = at[r], outer' = outer, inner' = inner PROVE Holders'
  BY <1>0, <1>1 DEF Holders, Busy
<1>2. ASSUME NEW c \in Turn \cup {Other}, ByChat(c) PROVE Holders'
  <2>1. ChatStep(c) /\ outer' = outer /\ inner' = inner
    BY <1>2 DEF ByChat, ChatStep
  <2> QED
    BY <1>1, <2>1, PageOfTurns
<1>3. ASSUME ByQueue PROVE Holders'
  <2>1. OpStep /\ outer' = outer /\ inner' = inner
    BY <1>3 DEF ByQueue, OpStep
  <2>2. ASSUME NEW r \in Request
        PROVE  /\ at'[r].pc \in Inside => at[r].pc \in Inside
               /\ at[r].pc \in Inside => at'[r].pc \in Inside \cup {"fail"}
               /\ at[r].pc = "fail" => at'[r].pc = "fail"
               /\ at'[r].then = at[r].then
               /\ at'[r].pc # "delete" => at[r].pc # "delete"
               /\ at[r].pc \notin {"idle", "asked", "ended"} => at'[r].pc \notin {"idle", "asked", "ended"}
               /\ at'[r].pc = "fail" => at[r].pc \in {"fail", "setting", "ensuring"}
    <3>1. CASE at'[r] = at[r]
      BY <3>1
    <3>2. CASE /\ at'[r].then = at[r].then
               /\ at[r].pc = Place(Run.kind) /\ Run.kind \in PageKinds
               /\ at'[r].pc \in {After(Run.kind), "fail"}
               /\ at'[r].pc = "fail" => Run.kind \in {"set", "ensure"}
      BY <3>2 DEF Place, After, PageKinds, Inside
    <3> QED
      BY <2>1, <3>1, <3>2, QueueOfPage
  <2>3. ASSUME NEW r \in Request, at'[r].then = "delete", at'[r].pc = "fail" PROVE inner = r
    <3>1. at[r].pc = "setting" => at[r].then = "choose"
      BY Wants
    <3> QED
      BY <2>2, <2>3, <3>1 DEF Holders, Inside
  <2> QED
    BY <1>0, <2>1, <2>2, <2>3 DEF Holders, Busy
<1>4. ASSUME CrashRestart PROVE Holders'
  <2>1. Ended("ended").pc = "ended" /\ Ended("ended").then = "none"
    BY IdleTyped DEF Base, PC
  <2>2. ASSUME NEW r \in Request PROVE at'[r].then = "none" /\ at'[r].pc \notin Inside
    <3>1. \/ at[r].pc \in {"idle", "asked"} /\ at'[r] = at[r]
          \/ at'[r] = Ended("ended")
      BY <1>4, CrashBase, Names
    <3>2. at[r].pc # "asked" /\ (at[r].pc = "idle" => at[r].then = "none")
      BY Wants DEF Base, Roles, Path, Fenced
    <3> QED
      BY <2>1, <3>1, <3>2 DEF Inside
  <2>3. outer' = None /\ inner' = None
    BY <1>4, CrashBase
  <2> QED
    BY <2>2, <2>3 DEF Holders
<1>5. ASSUME WriteState \/ DeleteProject \/ UNCHANGED vars PROVE Holders'
  <2>1. at' = at /\ outer' = outer /\ inner' = inner
    BY <1>5, WriteBase, DeleteBase DEF vars
  <2> QED
    BY <1>1, <2>1
<1> QED
  BY <1>2, <1>3, <1>4, <1>5, PageHolders DEF Kinds

-----------------------------------------------------------------------------
(* The runtime, the configuration and the incarnation                       *)

\* A runtime runs for the bot there is, which is configured.
RunsHere == scope.inc # 0 => disk.configured /\ ws.project # Absent /\ ws.inc = scope.inc
\* Between the stop of the runtime and its start nothing runs.
StoppedInside == \A r \in Request : at[r].pc \in Inside \ {"config"} => scope.inc = 0
Configures == {"stop", "commit", "ensuring", "scope"}
Configured == \A r \in Request : at[r].pc \in Configures => disk.configured
Starting == \A r \in Request : at[r].pc = "scope" => ws.project # Absent
Gone == \A r \in Request : at[r].pc \in {"cleanup", "cleaning"} => ws.project = Absent
\* A bot that is not configured any more is about to be retired.
Retiring ==
  ws.project # Absent /\ ~disk.configured => \E i \in 1..Len(ops) : ops[i].kind = "retire"
\* The fence of a removal is there for the deletion that will lift it.
Removing ==
  ws.removing => outer # None /\ at[outer].then = "delete" /\ at[outer].pc \in Fenced
\* A deletion is finished before the bot is made again.
Finishing ==
  \A i \in 1..Len(ops) : ops[i].kind = "finish" =>
    /\ scope.inc = 0 /\ \A r \in Request : at[r].pc # "scope"
    /\ \A j \in 1..Len(ops) : ops[j].kind = "ensure" => i < j
Switching == Running("set", "clear") \/ Running("set", "persist")
Setting == Switching => ws.project # Absent
Runtime ==
  /\ RunsHere /\ StoppedInside /\ Configured /\ Starting /\ Gone /\ Retiring /\ Removing
  /\ Finishing /\ Setting

\* Who waits for the operation "ensure" is a request that waits for its runtime.
LEMMA Ensures ==
  ASSUME Base
  PROVE  \A j \in 1..Len(ops) : ops[j].kind = "ensure" =>
           ops[j].by \in Request /\ at[ops[j].by].pc = "ensuring"
<1> SUFFICES ASSUME NEW j \in 1..Len(ops), ops[j].kind = "ensure"
             PROVE  ops[j].by \in Request /\ at[ops[j].by].pc = "ensuring"
  OBVIOUS
<1>1. ops[j].by \in Caller /\ at[ops[j].by].pc = "ensuring"
  BY InLine DEF Base, Line, Place
<1>2. "ensuring" \notin ChatPC
  BY DEF ChatPC, Waiting
<1> QED
  BY <1>1, <1>2 DEF Base, Roles

\* The queue after somebody has asked for an operation: what was there stays.
LEMMA AsksQueue ==
  ASSUME Base, NEW c, NEW kinds, Asks(c, kinds)
  PROVE  /\ Len(ops) \in Nat /\ Len(ops') \in Nat /\ Len(ops) <= Len(ops')
         /\ \A i \in 1..Len(ops) : i \in 1..Len(ops') /\ ops'[i] = ops[i]
         /\ \A i \in 1..Len(ops') : i \in 1..Len(ops) \/ (i > Len(ops) /\ ops'[i].kind \in kinds)
         /\ Switching' => Switching
<1>0. ops \in Seq(Operation) /\ Len(ops) \in Nat
  BY LenProperties DEF Base, Types
<1>1. CASE ops' = ops
  <2>1. Switching' => Switching
    BY <1>1 DEF Switching, Running
  <2> QED
    BY <1>0, <1>1, <2>1
<1>2. ASSUME NEW o \in Operation, ops' = Append(ops, o), o.kind \in kinds, o.step = "queued"
      PROVE  /\ Len(ops') = Len(ops) + 1 /\ \A i \in 1..Len(ops) : ops'[i] = ops[i]
             /\ ops'[Len(ops) + 1] = o /\ (Switching' => Switching)
  <2>1. /\ Len(ops') = Len(ops) + 1 /\ \A i \in 1..Len(ops) : ops'[i] = ops[i]
        /\ ops'[Len(ops) + 1] = o /\ ops' \in Seq(Operation)
    BY <1>0, <1>2, Joined
  <2>2. ASSUME Switching' PROVE Switching
    <3>1. ops' # <<>> /\ Head(ops') = ops'[1]
      BY <2>1, <2>2, Shorter DEF Switching, Running
    <3>2. CASE ops = <<>>
      <4>1. ops'[1] = o
        BY <2>1, <3>2, EmptySeq
      <4> QED
        BY <1>2, <2>2, <3>1, <4>1 DEF Switching, Running
    <3>3. CASE ops # <<>>
      <4>1. Head(ops) = ops[1] /\ 1 \in 1..Len(ops)
        BY <1>0, <3>3, Shorter
      <4>2. Head(ops') = Head(ops)
        BY <2>1, <3>1, <4>1
      <4> QED
        BY <2>2, <3>3, <4>2 DEF Switching, Running
    <3> QED
      BY <3>2, <3>3
  <2> QED
    BY <2>1, <2>2
<1> QED
  BY <1>0, <1>1, <1>2 DEF Asks

LEMMA ChatRuntime ==
  ASSUME Base, Runtime, NEW c, ChatStep(c)
  PROVE  Runtime'
<1>1. /\ \A r \in Request : at'[r] = at[r]
      /\ disk' = disk /\ outer' = outer /\ inner' = inner /\ scope' = scope
  BY PageOfTurns DEF ChatStep
<1>2. /\ ws'.project = Absent <=> ws.project = Absent
      /\ ws'.inc = ws.inc /\ ws'.removing = ws.removing
  <2>1. CASE ws' = ws
    BY <2>1
  <2>2. CASE Unbinds
    <3>1. ws'.project = None /\ ws'.inc = ws.inc /\ ws'.removing = ws.removing
      BY <2>2, UnbindFacts DEF Base
    <3>2. ws.project \in Project
      BY <2>2 DEF Unbinds
    <3> QED
      BY <3>1, <3>2, Names
  <2> QED
    BY <2>1, <2>2 DEF ChatStep
<1>3. /\ Len(ops) \in Nat /\ Len(ops') \in Nat /\ Len(ops) <= Len(ops')
      /\ \A i \in 1..Len(ops) : i \in 1..Len(ops') /\ ops'[i] = ops[i]
      /\ \A i \in 1..Len(ops') : i \in 1..Len(ops) \/ (i > Len(ops) /\ ops'[i].kind \in {"set", "bind", "persist"})
      /\ Switching' => Switching
  BY AsksQueue DEF ChatStep
<1>4. RunsHere' /\ StoppedInside' /\ Configured' /\ Starting' /\ Gone' /\ Setting'
  BY <1>1, <1>2, <1>3 DEF Runtime, RunsHere, StoppedInside, Configured, Starting, Gone, Setting
<1>5. Removing'
  <2>1. outer \in Request \cup {None}
    BY DEF Base, Types
  <2> QED
    BY <1>1, <1>2, <2>1 DEF Runtime, Removing
<1>6. Retiring'
  <2> SUFFICES ASSUME ws'.project # Absent, ~disk'.configured
               PROVE  \E i \in 1..Len(ops') : ops'[i].kind = "retire"
    BY DEF Retiring
  <2>1. PICK i \in 1..Len(ops) : ops[i].kind = "retire"
    BY <1>1, <1>2 DEF Runtime, Retiring
  <2> QED
    BY <1>3, <2>1
<1>7. Finishing'
  <2> SUFFICES ASSUME NEW i \in 1..Len(ops'), ops'[i].kind = "finish"
               PROVE  /\ scope'.inc = 0 /\ \A r \in Request : at'[r].pc # "scope"
                      /\ \A j \in 1..Len(ops') : ops'[j].kind = "ensure" => i < j
    BY DEF Finishing
  <2>1. i \in 1..Len(ops) /\ ops[i].kind = "finish"
    BY <1>3
  <2>2. /\ scope.inc = 0 /\ \A r \in Request : at[r].pc # "scope"
        /\ \A j \in 1..Len(ops) : ops[j].kind = "ensure" => i < j
    BY <2>1 DEF Runtime, Finishing
  <2> QED
    BY <1>1, <1>3, <2>2
<1> QED
  BY <1>4, <1>5, <1>6, <1>7 DEF Runtime

\* A step of a request keeps all this if it does where it is.
LEMMA PageRuntime ==
  ASSUME Base, Runtime, NEW r \in Request, RequestStep(r), RunsHere', Removing',
         at'[r].pc \in Inside \ {"config"} => scope'.inc = 0,
         at'[r].pc \in Configures => disk'.configured,
         at'[r].pc # "scope", at'[r].pc \in {"cleanup", "cleaning"} => ws.project = Absent,
         \/ scope'.inc \in {scope.inc, 0}
         \/ /\ \A d \in Request \ {r} : at[d].pc \notin Inside
            /\ \A i \in 1..Len(ops) : ops[i].kind # "finish",
         \/ disk'.configured \/ ~disk.configured
         \/ /\ \A d \in Request \ {r} : at[d].pc \notin Configures
            /\ \E i \in 1..Len(ops') : ops'[i].kind = "retire",
         \A i \in 1..Len(ops') : i > Len(ops) /\ ops'[i].kind = "finish" =>
           /\ scope'.inc = 0 /\ \A d \in Request : at'[d].pc # "scope"
           /\ \A j \in 1..Len(ops) : ops[j].kind # "ensure"
  PROVE  Runtime'
<1>1. /\ \A d \in Request \ {r} : at'[d] = at[d]
      /\ ws' = ws
  BY Names DEF RequestStep, Others
<1>2. /\ Len(ops) \in Nat /\ Len(ops') \in Nat /\ Len(ops) <= Len(ops')
      /\ \A i \in 1..Len(ops) : i \in 1..Len(ops') /\ ops'[i] = ops[i]
      /\ \A i \in 1..Len(ops') : i \in 1..Len(ops) \/ i > Len(ops)
      /\ Switching' => Switching
  BY AsksQueue DEF RequestStep
<1>3. StoppedInside'
  BY <1>1 DEF Runtime, StoppedInside
<1>4. Configured'
  BY <1>1 DEF Runtime, Configured
<1>5. Starting' /\ Gone' /\ Setting'
  BY <1>1, <1>2 DEF Runtime, Starting, Gone, Setting
<1>6. Retiring'
  <2> SUFFICES ASSUME ws'.project # Absent, ~disk'.configured
               PROVE  \E i \in 1..Len(ops') : ops'[i].kind = "retire"
    BY DEF Retiring
  <2>1. CASE ~disk.configured
    <3>1. PICK i \in 1..Len(ops) : ops[i].kind = "retire"
      BY <1>1, <2>1 DEF Runtime, Retiring
    <3> QED
      BY <1>2, <3>1
  <2>2. CASE disk.configured
    BY <2>2
  <2> QED
    BY <2>1, <2>2
<1>7. Finishing'
  <2> SUFFICES ASSUME NEW i \in 1..Len(ops'), ops'[i].kind = "finish"
               PROVE  /\ scope'.inc = 0 /\ \A d \in Request : at'[d].pc # "scope"
                      /\ \A j \in 1..Len(ops') : ops'[j].kind = "ensure" => i < j
    BY DEF Finishing
  <2>1. CASE i \in 1..Len(ops)
    <3>1. ops[i].kind = "finish"
      BY <1>2, <2>1
    <3>2. /\ scope.inc = 0 /\ \A d \in Request : at[d].pc # "scope"
          /\ \A j \in 1..Len(ops) : ops[j].kind = "ensure" => i < j
      BY <2>1, <3>1 DEF Runtime, Finishing
    <3>3. scope'.inc = 0
      BY <2>1, <3>1, <3>2
    <3>4. ASSUME NEW j \in 1..Len(ops'), ops'[j].kind = "ensure" PROVE i < j
      <4>1. CASE j \in 1..Len(ops)
        BY <1>2, <3>2, <3>4, <4>1
      <4>2. CASE j > Len(ops)
        BY <1>2, <2>1, <4>2
      <4> QED
        BY <1>2, <4>1, <4>2
    <3> QED
      BY <1>1, <3>2, <3>3, <3>4
  <2>2. CASE i > Len(ops)
    <3>1. /\ scope'.inc = 0 /\ \A d \in Request : at'[d].pc # "scope"
          /\ \A j \in 1..Len(ops) : ops[j].kind # "ensure"
      BY <2>2
    <3>2. ASSUME NEW j \in 1..Len(ops'), ops'[j].kind = "ensure" PROVE i < j
      <4>1. PICK o \in Operation : ops' = Append(ops, o)
        BY <1>2, <2>2 DEF RequestStep, Asks
      <4>2. ops \in Seq(Operation)
        BY DEF Base, Types
      <4>3. Len(ops') = Len(ops) + 1
        BY <4>1, <4>2, Joined
      <4>4. j \notin 1..Len(ops)
        BY <1>2, <3>1, <3>2
      <4>5. i = Len(ops) + 1 /\ j = Len(ops) + 1
        BY <1>2, <2>2, <4>3, <4>4
      <4> QED
        BY <2>2, <3>2, <4>5
    <3> QED
      BY <3>1, <3>2
  <2> QED
    BY <1>2, <2>1, <2>2
<1> QED
  BY <1>3, <1>4, <1>5, <1>6, <1>7 DEF Runtime

LEMMA Asked ==
  ASSUME Base, NEW c \in Caller, NEW kind \in OpKind, Queue(c, kind)
  PROVE  /\ \A i \in 1..Len(ops') : i > Len(ops) => ops'[i].kind = kind
         /\ \E i \in 1..Len(ops') : ops'[i].kind = kind
<1>1. at[c].row \in Project \cup {None} /\ ops \in Seq(Operation) /\ Len(ops) \in Nat /\ Types
  BY LenProperties DEF Base, Types, Task
<1>2. PICK o \in Operation : ops' = Append(ops, o) /\ o.kind = kind
  BY <1>1, Queues DEF Queue
<1>3. Len(ops') = Len(ops) + 1 /\ ops'[Len(ops) + 1] = o
  BY <1>1, <1>2, Joined
<1> QED
  BY <1>1, <1>2, <1>3

\* Steps of a request that touch neither the configuration, the runtime nor the queue.
LEMMA PlainRuntime ==
  ASSUME Base, Runtime, NEW r \in Request, RequestStep(r), UNCHANGED <<disk, scope>>, Removing',
         at'[r].pc \in Inside \ {"config"} => scope.inc = 0,
         at'[r].pc \in Configures => disk.configured,
         at'[r].pc # "scope", at'[r].pc \in {"cleanup", "cleaning"} => ws.project = Absent,
         \A i \in 1..Len(ops') : i > Len(ops) => ops'[i].kind # "finish"
  PROVE  Runtime'
<1>1. RunsHere'
  BY DEF Runtime, RunsHere, RequestStep
<1> QED
  BY <1>1, PageRuntime

\* The fence stays for a deletion on its way.
LEMMA RemovingStays ==
  ASSUME Base, Runtime, NEW r \in Request, RequestStep(r), outer' = outer,
         at[r].then = "delete" => at'[r].then = "delete" /\ at'[r].pc \in Fenced
  PROVE  Removing'
<1>1. outer \in Request \cup {None} /\ ws' = ws /\ \A d \in Request \ {r} : at'[d] = at[d]
  BY Names DEF Base, Types, RequestStep, Others
<1> QED
  BY <1>1 DEF Runtime, Removing

LEMMA PageRuntimeKept ==
  ASSUME Base, Holders, Runtime, NEW r \in Request, ByPage(r)
  PROVE  Runtime'
<1>0. /\ RequestStep(r) /\ r \in Caller /\ None \notin Request /\ ws' = ws
      /\ outer \in Request \cup {None} /\ \A d \in Request \ {r} : at'[d] = at[d]
      /\ Len(ops) \in Nat
  BY Names, AsksQueue DEF ByPage, RequestStep, Base, Types, Others
<1>1. \A i \in 1..Len(ops) : ~(i > Len(ops))
  BY <1>0
<1>2. CASE Invoke(r)
  <2>1. /\ at'[r].pc \in {"choose", "delete", "bind"} /\ at[r].pc = "idle" /\ outer' = outer
        /\ UNCHANGED <<disk, scope, ops>> /\ at[r].then # "delete"
    BY <1>2, RequestInvoke, Wants DEF Invoke, Quiet
  <2>2. Removing'
    BY <1>0, <2>1, RemovingStays
  <2> QED
    BY <1>0, <1>1, <2>1, <2>2, PlainRuntime DEF Inside, Configures
<1>3. CASE Choose(r)
  <2>1. /\ at'[r].pc \in {"items", "fail"}
        /\ UNCHANGED <<disk, scope, ops>> /\ outer = None
    BY <1>3, RequestChoose DEF Choose, Went
  <2>2. Removing'
    BY <1>0, <2>1 DEF Runtime, Removing
  <2> QED
    BY <1>0, <1>1, <2>1, <2>2, PlainRuntime DEF Inside, Configures
<1>4. CASE SetProject(r)
  <2>1. /\ at'[r].pc \in {"setting", "fail"} /\ at[r].then = "choose"
        /\ UNCHANGED <<disk, scope, outer>> /\ (ops' = ops \/ Queue(r, "set"))
    BY <1>4, RequestSetProject, Wants DEF SetProject, Went
  <2>2. Removing'
    BY <1>0, <2>1, RemovingStays
  <2>3. \A i \in 1..Len(ops') : i > Len(ops) => ops'[i].kind # "finish"
    BY <1>0, <1>1, <2>1, Asked DEF OpKind
  <2> QED
    BY <1>0, <2>1, <2>2, <2>3, PlainRuntime DEF Inside, Configures
<1>5. CASE Delete(r)
  <2>1. /\ at'[r].pc = "fencing" /\ UNCHANGED <<disk, scope>> /\ outer = None /\ Queue(r, "begin")
    BY <1>5, RequestDelete DEF Delete, Went
  <2>2. Removing'
    BY <1>0, <2>1 DEF Runtime, Removing
  <2>3. \A i \in 1..Len(ops') : i > Len(ops) => ops'[i].kind # "finish"
    BY <1>0, <2>1, Asked DEF OpKind
  <2> QED
    BY <1>0, <2>1, <2>2, <2>3, PlainRuntime DEF Inside, Configures
<1>6. CASE Known(r)
  <2>1. /\ at'[r].pc \in {"stop", "unsafe"} /\ UNCHANGED <<disk, scope, outer, ops>>
        /\ at'[r].then = at[r].then
        /\ at'[r].pc = "stop" => disk.configured
    <3>1. at'[r].pc = IF disk.configured THEN "stop" ELSE "unsafe"
      BY <1>0, <1>6 DEF Known, Go, Base, Types
    <3> QED
      BY <1>6, <3>1, RequestKnown DEF Known, Quiet, Went, Same
  <2>2. Removing'
    BY <1>0, <2>1, RemovingStays DEF Fenced
  <2> QED
    BY <1>0, <1>1, <2>1, <2>2, PlainRuntime DEF Inside, Configures
<1>7. CASE StopRuntime(r)
  <2>1. /\ at'[r].pc = IF at[r].pc = "stop" THEN "commit" ELSE "config"
        /\ at'[r].then = at[r].then /\ at[r].pc \in {"stop", "bind"}
        /\ UNCHANGED <<disk, outer, ops>>
        /\ scope' = IF at[r].pc = "stop" THEN Stopped ELSE scope
    BY <1>7, RequestStop DEF StopRuntime, Went, Same
  <2>2. scope'.inc \in {scope.inc, 0} /\ (at[r].pc = "stop" => scope'.inc = 0)
    BY <2>1, Scopes DEF Base
  <2>3. RunsHere'
    BY <1>0, <2>1, <2>2 DEF Runtime, RunsHere
  <2>4. Removing'
    BY <1>0, <2>1, RemovingStays, Wants DEF Fenced
  <2>5. at'[r].pc \in Configures => disk.configured
    BY <2>1 DEF Runtime, Configured, Configures
  <2> QED
    BY <1>0, <1>1, <2>1, <2>2, <2>3, <2>4, <2>5, PageRuntime DEF Inside
<1>8. CASE Commit(r)
  <2>1. /\ at'[r].then = at[r].then /\ at[r].pc = "commit" /\ at[r].then = "delete"
        /\ UNCHANGED <<outer, scope>> /\ scope.inc = 0 /\ disk.configured
        /\ inner = r /\ outer = r /\ disk \in Disk
    BY <1>8, RequestCommit, Wants DEF Commit, Went, Same, Runtime, StoppedInside, Configured,
       Configures, Inside, Holders, Base, Types
  <2>2. RunsHere'
    BY <2>1 DEF RunsHere
  <2>3. ASSUME at'[r].pc \in Fenced PROVE Removing'
    BY <1>0, <2>1, <2>3, RemovingStays
  <2>4. CASE disk' = [disk EXCEPT !.configured = FALSE] /\ Queue(r, "retire") /\ Go(r, "retiring")
    <3>1. at'[r].pc = "retiring"
      BY <1>0, <2>4 DEF Go, Base, Types, Task
    <3>2. \A d \in Request \ {r} : at[d].pc \notin Configures
      BY <1>0, <2>1, Wants DEF Holders, Inside, Configures
    <3>3. /\ \A i \in 1..Len(ops') : i > Len(ops) => ops'[i].kind # "finish"
          /\ \E i \in 1..Len(ops') : ops'[i].kind = "retire"
      BY <1>0, <2>4, Asked DEF OpKind
    <3>4. Removing'
      BY <2>3, <3>1 DEF Fenced
    <3> QED
      BY <1>0, <2>1, <2>2, <3>1, <3>2, <3>3, <3>4, PageRuntime DEF Configures
  <2>5. CASE Queue(r, "ensure") /\ Go(r, "ensuring") /\ UNCHANGED disk
    <3>1. at'[r].pc = "ensuring"
      BY <1>0, <2>5 DEF Go, Base, Types, Task
    <3>2. \A i \in 1..Len(ops') : i > Len(ops) => ops'[i].kind # "finish"
      BY <1>0, <2>5, Asked DEF OpKind
    <3>3. Removing'
      BY <2>3, <3>1 DEF Fenced
    <3> QED
      BY <1>0, <2>1, <2>5, <3>1, <3>2, <3>3, PlainRuntime
  <2> QED
    BY <1>8, <2>4, <2>5 DEF Commit
<1>9. CASE Cleanup(r)
  <2>1. /\ at'[r].pc = "cleaning" /\ at'[r].then = at[r].then /\ at[r].pc = "cleanup"
        /\ UNCHANGED <<disk, scope, ops, outer>> /\ scope.inc = 0 /\ ws.project = Absent
    BY <1>9, RequestCleanup DEF Cleanup, Quiet, Went, Same, Runtime, StoppedInside, Gone, Inside
  <2>2. Removing'
    BY <1>0, <2>1, RemovingStays DEF Fenced
  <2> QED
    BY <1>0, <1>1, <2>1, <2>2, PlainRuntime DEF Configures
<1>10. CASE CleanedUp(r)
  <2>1. /\ at'[r].pc = "finishing" /\ at'[r].then = at[r].then /\ at[r].pc = "cleaning"
        /\ UNCHANGED <<disk, scope, outer>> /\ scope.inc = 0 /\ Queue(r, "finish") /\ inner = r
    BY <1>10, RequestCleanedUp DEF CleanedUp, Went, Same, Runtime, StoppedInside, Inside, Holders
  <2>2. Removing'
    BY <1>0, <2>1, RemovingStays DEF Fenced
  <2>3. \A d \in Request \ {r} : at[d].pc \notin {"scope", "ensuring"}
    BY <2>1 DEF Holders, Inside
  <2>4. \A j \in 1..Len(ops) : ops[j].kind # "ensure"
    BY <2>1, <2>3, Ensures
  <2>5. RunsHere'
    BY <2>1 DEF RunsHere
  <2>6. \A d \in Request : at'[d].pc # "scope"
    BY <1>0, <2>1, <2>3
  <2> QED
    BY <1>0, <2>1, <2>2, <2>4, <2>5, <2>6, PageRuntime DEF Inside, Configures
<1>11. CASE DeleteFails(r)
  <2>1. /\ at'[r].pc = "finishing" /\ at'[r].then = at[r].then /\ at[r].pc = "unsafe"
        /\ UNCHANGED <<disk, scope, outer>>
        /\ Queue(r, IF disk.configured THEN "abort" ELSE "finish")
    BY <1>11, RequestUnsafe DEF DeleteFails, Went, Same
  <2>2. Removing'
    BY <1>0, <2>1, RemovingStays DEF Fenced
  <2>3. CASE disk.configured
    <3>1. \A i \in 1..Len(ops') : i > Len(ops) => ops'[i].kind # "finish"
      BY <1>0, <2>1, <2>3, Asked DEF OpKind
    <3> QED
      BY <1>0, <2>1, <2>2, <3>1, PlainRuntime DEF Inside, Configures
  <2>4. CASE ~disk.configured
    <3>1. scope.inc = 0
      BY <2>4 DEF Runtime, RunsHere
    <3>2. \A d \in Request : at[d].pc \notin {"scope", "ensuring"}
      BY <2>4 DEF Runtime, Configured, Configures
    <3>3. \A j \in 1..Len(ops) : ops[j].kind # "ensure"
      BY <3>2, Ensures
    <3>4. \A d \in Request : at'[d].pc # "scope"
      BY <1>0, <2>1, <3>2
    <3>5. RunsHere'
      BY <2>1, <3>1 DEF RunsHere
    <3> QED
      BY <1>0, <2>1, <2>2, <3>1, <3>3, <3>4, <3>5, PageRuntime DEF Inside, Configures
  <2> QED
    BY <2>3, <2>4
<1>12. CASE SaveConfig(r)
  <2>1. /\ at'[r].pc \in {"ensuring", "fail"} /\ at'[r].then = at[r].then /\ at[r].then = "bind"
        /\ UNCHANGED outer /\ disk \in Disk
    BY <1>12, RequestSaveConfig, Wants DEF SaveConfig, Went, Same, Base, Types
  <2>2. Removing'
    BY <1>0, <2>1, RemovingStays
  <2>3. CASE /\ disk' = [disk EXCEPT !.configured = TRUE] /\ scope' = Stopped
             /\ Queue(r, "ensure")
    <3>1. scope'.inc = 0 /\ disk'.configured
      BY <2>1, <2>3, Scopes DEF Base, Disk
    <3>2. \A i \in 1..Len(ops') : i > Len(ops) => ops'[i].kind # "finish"
      BY <1>0, <2>3, Asked DEF OpKind
    <3>3. RunsHere'
      BY <3>1 DEF RunsHere
    <3> QED
      BY <1>0, <2>1, <2>2, <3>1, <3>2, <3>3, PageRuntime
  <2>4. CASE Go(r, "fail") /\ UNCHANGED <<ops, disk, scope>>
    <3>1. at'[r].pc = "fail"
      BY <1>0, <2>4 DEF Go, Base, Types, Task
    <3> QED
      BY <1>0, <1>1, <2>2, <2>4, <3>1, PlainRuntime DEF Inside, Configures
  <2> QED
    BY <1>12, <2>3, <2>4 DEF SaveConfig
<1>13. CASE StartRuntime(r)
  <2>1. /\ at'[r].pc = IF at[r].then = "bind" THEN "leave" ELSE "unsafe"
        /\ at'[r].then = at[r].then /\ at[r].pc = "scope" /\ at[r].then \in {"bind", "delete"}
        /\ UNCHANGED <<disk, ops, outer>> /\ scope' \in {Started(ws.inc), Stopped}
        /\ inner = r /\ disk.configured /\ ws.project # Absent
    BY <1>13, RequestStart DEF StartRuntime, Went, Same, Holders, Inside, Runtime, Configured,
       Configures, Starting
  <2>2. scope'.inc \in {ws.inc, 0}
    BY <2>1, Scopes DEF Base
  <2>3. RunsHere'
    BY <1>0, <2>1, <2>2 DEF RunsHere
  <2>4. Removing'
    BY <1>0, <2>1, RemovingStays DEF Fenced
  <2>5. /\ \A d \in Request \ {r} : at[d].pc \notin Inside
        /\ \A i \in 1..Len(ops) : ops[i].kind # "finish"
    BY <2>1 DEF Holders, Runtime, Finishing
  <2> QED
    BY <1>0, <1>1, <2>1, <2>3, <2>4, <2>5, PageRuntime DEF Inside, Configures
<1>14. CASE Leave(r)
  <2>0. UNCHANGED <<disk, scope, ops>> /\ at[r].pc \in {"fail", "leave"}
    BY <1>14 DEF Leave
  <2>1. CASE at[r].then = "delete" /\ inner = r
    <3>1. at'[r].pc = "unsafe" /\ at'[r].then = "delete" /\ outer' = outer
      BY <1>14, <2>1, RequestLeave DEF Leave, Went, Same
    <3>2. Removing'
      BY <1>0, <3>1, RemovingStays DEF Fenced
    <3> QED
      BY <1>0, <1>1, <2>0, <3>1, <3>2, PlainRuntime DEF Inside, Configures
  <2>2. CASE ~(at[r].then = "delete" /\ inner = r)
    <3>1. /\ at'[r].pc = "ended" /\ outer' = IF outer = r THEN None ELSE outer
      BY <1>14, <2>2, RequestLeave DEF Leave
    <3>2. ASSUME ws.removing PROVE outer # r
      BY <2>0, <2>2, <3>2 DEF Runtime, Removing, Holders, Fenced
    <3>3. Removing'
      BY <1>0, <3>1, <3>2 DEF Runtime, Removing
    <3> QED
      BY <1>0, <1>1, <2>0, <3>1, <3>3, PlainRuntime DEF Inside, Configures
  <2> QED
    BY <2>1, <2>2
<1> QED
  BY <1>2, <1>3, <1>4, <1>5, <1>6, <1>7, <1>8, <1>9, <1>10, <1>11, <1>12, <1>13, <1>14
     DEF ByPage, Settings

\* What the queue is after a step of its own.
LEMMA QueueMoves ==
  ASSUME Base, OpStep
  PROVE  /\ Len(ops) \in Nat /\ Len(ops) >= 1 /\ Len(ops') \in Nat /\ Run = ops[1]
         /\ \/ /\ Proceeds /\ Len(ops') = Len(ops) /\ ~Leaves
               /\ \A i \in 1..Len(ops) : ops'[i].kind = ops[i].kind
               /\ \A i \in 1..Len(ops) : i # 1 => ops'[i] = ops[i]
               /\ ops'[1].row = Run.row /\ ops'[1].session = Run.session
            \/ /\ Leaves /\ Len(ops') = Len(ops) - 1 /\ ~Switching'
               /\ \A i \in 1..Len(ops') : i + 1 \in 1..Len(ops) /\ ops'[i] = ops[i + 1]
               /\ \A i \in 1..Len(ops) : i # 1 => i - 1 \in 1..Len(ops') /\ ops'[i - 1] = ops[i]
<1>0. /\ ops # <<>> /\ ops \in Seq(Operation) /\ Len(ops) \in Nat /\ Len(ops) >= 1 /\ Run = ops[1]
      /\ Line' /\ ops' \in Seq(Operation) /\ Len(ops') \in Nat
  BY OpBase, Runner, Shorter, LenProperties DEF OpStep, Base, Types
<1>1. CASE Leaves
  <2>1. /\ Len(ops') = Len(ops) - 1
        /\ \A i \in 1..Len(ops') : i + 1 \in 1..Len(ops) /\ ops'[i] = ops[i + 1]
    BY <1>0, <1>1, Shorter DEF Leaves
  <2>2. \A i \in 1..Len(ops) : i # 1 => i - 1 \in 1..Len(ops') /\ ops'[i - 1] = ops[i]
    BY <1>0, <2>1
  <2>3. ASSUME Switching' PROVE FALSE
    <3>1. ops' # <<>>
      BY <2>3 DEF Switching, Running
    <3>2. Head(ops') = ops'[1] /\ 1 \in 1..Len(ops')
      BY <1>0, <3>1, Shorter
    <3>3. 2 \in 1..Len(ops) /\ ops'[1] = ops[2]
      BY <2>1, <3>2
    <3>4. ops[2].step = "queued"
      BY <3>3 DEF Base, Line
    <3> QED
      BY <2>3, <3>2, <3>3, <3>4 DEF Switching, Running
  <2> QED
    BY <1>0, <1>1, <2>1, <2>2, <2>3
<1>2. CASE Proceeds
  <2>1. PICK o \in Operation :
          /\ ops' = [ops EXCEPT ![1] = o] /\ o.kind = Run.kind
          /\ o.row = Run.row /\ o.session = Run.session
    BY <1>2 DEF Proceeds
  <2>2. /\ Len(ops') = Len(ops) /\ ops'[1] = o
        /\ \A i \in 1..Len(ops) : i # 1 => ops'[i] = ops[i]
    BY <1>0, <2>1
  <2>3. Len(Tail(ops)) = Len(ops) - 1
    BY <1>0, Shorter
  <2>4. ~Leaves
    BY <1>0, <2>2, <2>3 DEF Leaves
  <2>5. \A i \in 1..Len(ops) : ops'[i].kind = ops[i].kind
    BY <1>0, <2>1, <2>2
  <2> QED
    BY <1>0, <1>2, <2>1, <2>2, <2>4, <2>5
<1> QED
  BY <1>1, <1>2 DEF OpStep

\* The parts that an operation keeps whatever it does to the store.
LEMMA QueueRuntime ==
  ASSUME Base, Holders, Runtime, OpStep
  PROVE  /\ StoppedInside' /\ Configured' /\ Finishing'
         /\ \A r \in Request :
              \/ at'[r] = at[r]
              \/ /\ Leaves /\ r = Run.by /\ at'[r].then = at[r].then
                 /\ at[r].pc = Place(Run.kind) /\ Run.kind \in PageKinds
                 /\ at'[r].pc \in {After(Run.kind), "fail"}
         /\ scope' = scope /\ outer' = outer /\ inner' = inner
         /\ disk'.configured = disk.configured
<1>0. /\ scope' = scope /\ outer' = outer /\ inner' = inner /\ disk'.configured = disk.configured
  BY DEF OpStep
<1>1. \A r \in Request :
        \/ at'[r] = at[r]
        \/ /\ Leaves /\ r = Run.by /\ at'[r].then = at[r].then
           /\ at[r].pc = Place(Run.kind) /\ Run.kind \in PageKinds
           /\ at'[r].pc \in {After(Run.kind), "fail"}
  BY QueueOfPage
<1>2. \A r \in Request :
        /\ at'[r].pc \in Inside \ {"config"} => at[r].pc \in Inside \ {"config"}
        /\ at'[r].pc \in Configures => at[r].pc \in Configures
        /\ at'[r].pc = "scope" => at[r].pc = "scope" \/ (Leaves /\ Run.kind = "ensure")
  BY <1>1 DEF Place, After, PageKinds, Inside, Configures
<1>3. StoppedInside' /\ Configured'
  BY <1>0, <1>2 DEF Runtime, StoppedInside, Configured
<1>4. Finishing'
  <2> SUFFICES ASSUME NEW i \in 1..Len(ops'), ops'[i].kind = "finish"
               PROVE  /\ scope'.inc = 0 /\ \A r \in Request : at'[r].pc # "scope"
                      /\ \A j \in 1..Len(ops') : ops'[j].kind = "ensure" => i < j
    BY DEF Finishing
  <2>1. CASE /\ Leaves /\ Len(ops') = Len(ops) - 1
             /\ \A n \in 1..Len(ops') : n + 1 \in 1..Len(ops) /\ ops'[n] = ops[n + 1]
    <3>1. /\ scope.inc = 0 /\ \A r \in Request : at[r].pc # "scope"
          /\ \A j \in 1..Len(ops) : ops[j].kind = "ensure" => i + 1 < j
      BY <2>1 DEF Runtime, Finishing
    <3>2. Run.kind # "ensure"
      BY <3>1, QueueMoves
    <3>3. \A j \in 1..Len(ops') : ops'[j].kind = "ensure" => i < j
      <4> SUFFICES ASSUME NEW j \in 1..Len(ops'), ops'[j].kind = "ensure" PROVE i < j
        OBVIOUS
      <4>1. i + 1 < j + 1
        BY <2>1, <3>1
      <4> QED
        BY <4>1, QueueMoves
    <3> QED
      BY <1>0, <1>2, <3>1, <3>2, <3>3
  <2>2. CASE /\ ~Leaves /\ Len(ops') = Len(ops)
             /\ \A n \in 1..Len(ops) : ops'[n].kind = ops[n].kind
    <3>1. /\ scope.inc = 0 /\ \A r \in Request : at[r].pc # "scope"
          /\ \A j \in 1..Len(ops) : ops[j].kind = "ensure" => i < j
      BY <2>2 DEF Runtime, Finishing
    <3> QED
      BY <1>0, <1>2, <2>2, <3>1
  <2> QED
    BY <2>1, <2>2, QueueMoves
<1> QED
  BY <1>0, <1>1, <1>3, <1>4

\* An operation that neither makes nor forgets the bot.
LEMMA KeepsBot ==
  ASSUME Base, Holders, Runtime, OpStep, Run.kind # "retire",
         ws'.project = Absent <=> ws.project = Absent, ws'.inc = ws.inc,
         ws'.removing => \/ ws.removing /\ Run.kind \notin {"abort", "finish"}
                         \/ Run.kind = "begin",
         at'[Run.by].pc = "scope" => ws.project # Absent,
         Leaves \/ Run.kind # "set" \/ ws.project # Absent
  PROVE  Runtime'
<1>0. /\ \A r \in Request :
           \/ at'[r] = at[r]
           \/ /\ Leaves /\ r = Run.by /\ at'[r].then = at[r].then
              /\ at[r].pc = Place(Run.kind) /\ Run.kind \in PageKinds
              /\ at'[r].pc \in {After(Run.kind), "fail"}
      /\ scope' = scope /\ outer' = outer /\ inner' = inner
      /\ disk'.configured = disk.configured
      /\ StoppedInside' /\ Configured' /\ Finishing' /\ outer \in Request \cup {None}
  BY QueueRuntime DEF Base, Types
<1>1. RunsHere'
  BY <1>0 DEF Runtime, RunsHere
<1>2. Starting'
  <2> SUFFICES ASSUME NEW r \in Request, at'[r].pc = "scope" PROVE ws'.project # Absent
    BY DEF Starting
  <2> QED
    BY <1>0 DEF Runtime, Starting
<1>3. Gone'
  <2> SUFFICES ASSUME NEW r \in Request, at'[r].pc \in {"cleanup", "cleaning"}
               PROVE  ws'.project = Absent
    BY DEF Gone
  <2>1. at'[r] = at[r]
    BY <1>0 DEF After, PageKinds
  <2> QED
    BY <2>1 DEF Runtime, Gone
<1>4. Retiring'
  <2> SUFFICES ASSUME ws'.project # Absent, ~disk'.configured
               PROVE  \E i \in 1..Len(ops') : ops'[i].kind = "retire"
    BY DEF Retiring
  <2>1. PICK i \in 1..Len(ops) : ops[i].kind = "retire"
    BY <1>0 DEF Runtime, Retiring
  <2>2. i # 1
    BY <2>1, QueueMoves
  <2> QED
    BY <2>1, <2>2, QueueMoves
<1>5. Removing'
  <2> SUFFICES ASSUME ws'.removing
               PROVE  outer # None /\ at'[outer].then = "delete" /\ at'[outer].pc \in Fenced
    BY <1>0 DEF Removing
  <2>1. CASE ws.removing /\ Run.kind \notin {"abort", "finish"}
    <3>1. outer # None /\ at[outer].then = "delete" /\ at[outer].pc \in Fenced
      BY <2>1 DEF Runtime, Removing
    <3>2. at[outer].pc # "setting"
      BY <3>1, <1>0, Wants
    <3> QED
      BY <1>0, <2>1, <3>1, <3>2 DEF Place, After, PageKinds, Fenced
  <2>2. CASE Run.kind = "begin"
    <3>1. Run.by \in Request /\ at[Run.by].pc = "fencing" /\ ops # <<>>
      BY <2>2, Runner DEF OpStep, Place
    <3>2. outer = Run.by /\ at[Run.by].then = "delete"
      BY <3>1, Wants DEF Holders
    <3>3. outer # None
      BY <3>1, <3>2, Names
    <3> QED
      BY <1>0, <2>2, <3>1, <3>2, <3>3 DEF After, Fenced
  <2> QED
    BY <2>1, <2>2
<1>6. Setting'
  <2> SUFFICES ASSUME Switching' PROVE ws'.project # Absent
    BY DEF Setting
  <2>1. ~Leaves /\ ops'[1].kind = ops[1].kind /\ Len(ops) \in Nat /\ Len(ops) >= 1
    BY QueueMoves
  <2>2. ops' # <<>> /\ ops' \in Seq(Operation)
    BY OpBase DEF Switching, Running, Base, Types
  <2>3. Head(ops') = ops'[1]
    BY <2>2, Shorter
  <2>4. Run.kind = "set"
    BY <2>1, <2>3, QueueMoves DEF Switching, Running
  <2> QED
    BY <2>1, <2>4
<1> QED
  BY <1>0, <1>1, <1>2, <1>3, <1>4, <1>5, <1>6 DEF Runtime

\* A bot that is forgotten has no runtime and nobody starts one.
LEMMA RetireRuntime ==
  ASSUME Base, Holders, Runtime, OpStep, Retire, Run.kind \in {"retire", "finish"}
  PROVE  Runtime'
<1>0. /\ \A r \in Request :
           \/ at'[r] = at[r]
           \/ /\ Leaves /\ r = Run.by /\ at'[r].then = at[r].then
              /\ at[r].pc = Place(Run.kind) /\ Run.kind \in PageKinds
              /\ at'[r].pc \in {After(Run.kind), "fail"}
      /\ scope' = scope /\ disk'.configured = disk.configured
      /\ StoppedInside' /\ Configured' /\ Finishing'
  BY QueueRuntime
<1>1. ops # <<>> /\ ws'.project = Absent /\ ~ws'.removing /\ Leaves
  BY Retires DEF OpStep
<1>2. scope.inc = 0 /\ \A r \in Request : at[r].pc # "scope"
  <2>1. CASE Run.kind = "finish"
    BY <1>1, <2>1, Runner DEF Runtime, Finishing
  <2>2. CASE Run.kind = "retire"
    <3>1. Run.by \in Request /\ at[Run.by].pc = "retiring"
      BY <1>1, <2>2, Runner DEF Place
    <3> QED
      BY <3>1 DEF Runtime, StoppedInside, Holders, Inside
  <2> QED
    BY <2>1, <2>2
<1>3. RunsHere' /\ Gone' /\ Retiring' /\ Removing'
  BY <1>0, <1>1, <1>2 DEF RunsHere, Gone, Retiring, Removing
<1>4. Starting'
  BY <1>0, <1>2 DEF Starting, After
<1>5. Setting'
  BY <1>1, QueueMoves DEF Setting
<1> QED
  BY <1>0, <1>3, <1>4, <1>5 DEF Runtime

\* A bot is made while no runtime runs and no deletion is cleaning up.
LEMMA EnsureRuntime ==
  ASSUME Base, Holders, Runtime, OpStep, Run.kind = "ensure", Leaves,
         ws'.project = None, ws'.removing = ws.removing
  PROVE  Runtime'
<1>0. /\ \A r \in Request :
           \/ at'[r] = at[r]
           \/ /\ Leaves /\ r = Run.by /\ at'[r].then = at[r].then
              /\ at[r].pc = Place(Run.kind) /\ Run.kind \in PageKinds
              /\ at'[r].pc \in {After(Run.kind), "fail"}
      /\ scope' = scope /\ disk'.configured = disk.configured /\ outer' = outer
      /\ StoppedInside' /\ Configured' /\ Finishing' /\ outer \in Request \cup {None}
  BY QueueRuntime DEF Base, Types
<1>1. Run.by \in Request /\ at[Run.by].pc = "ensuring" /\ ws'.project # Absent
  BY Runner, Names DEF OpStep, Place
<1>2. scope.inc = 0 /\ disk.configured /\ inner = Run.by
  BY <1>1 DEF Runtime, StoppedInside, Configured, Configures, Holders, Inside
<1>3. RunsHere' /\ Starting' /\ Retiring'
  BY <1>0, <1>1, <1>2 DEF RunsHere, Starting, Retiring
<1>4. Gone'
  <2>1. \A r \in Request : at[r].pc \notin {"cleanup", "cleaning"}
    BY <1>1, <1>2 DEF Holders, Inside
  <2> QED
    BY <1>0, <2>1 DEF Gone, After
<1>5. Removing'
  <2> SUFFICES ASSUME ws'.removing
               PROVE  outer # None /\ at'[outer].then = "delete" /\ at'[outer].pc \in Fenced
    BY <1>0 DEF Removing
  <2>1. outer # None /\ at[outer].then = "delete" /\ at[outer].pc \in Fenced
    BY DEF Runtime, Removing
  <2> QED
    BY <1>0, <2>1 DEF After, Fenced
<1>6. Setting'
  BY QueueMoves DEF Setting
<1> QED
  BY <1>0, <1>3, <1>4, <1>5, <1>6 DEF Runtime

LEMMA QueueRuntimeKept ==
  ASSUME Base, Holders, Runtime, ByQueue
  PROVE  Runtime'
<1>0. /\ OpStep /\ Operations /\ ops # <<>> /\ Types /\ ws \in Memory /\ Run \in Operation
      /\ Run.kind \in OpKind /\ at[Run.by].pc = Place(Run.kind)
  BY Runner DEF ByQueue, OpStep, Base, Types, Operation
<1>1. at'[Run.by].pc = "scope" => Run.kind = "ensure"
  <2>1. CASE Run.by \in Request
    BY <1>0, <2>1, QueueRuntime DEF After, Place
  <2>2. CASE Run.by \notin Request
    <3>1. Base' /\ Run.by \in Caller
      BY <1>0, OpBase, Runner
    <3>2. at'[Run.by].pc \in ChatPC
      BY <2>2, <3>1 DEF Base, Roles
    <3> QED
      BY <3>2 DEF ChatPC, Waiting
  <2> QED
    BY <2>1, <2>2
<1>2. ASSUME NEW p \in Project \cup {None, Absent}, ws' = [ws EXCEPT !.project = p],
             p = Absent <=> ws.project = Absent, Run.kind = "set", Leaves \/ ws.project # Absent
      PROVE  Runtime'
  <2>1. ws'.project = p /\ ws'.inc = ws.inc /\ ws'.removing = ws.removing
    BY <1>0, <1>2 DEF Memory
  <2> QED
    BY <1>0, <1>1, <1>2, <2>1, KeepsBot DEF Runtime, Removing
<1>3. ASSUME ws' = ws, Run.kind \notin {"retire", "abort", "finish"}, Leaves \/ Run.kind # "set",
             Run.kind = "ensure" /\ at'[Run.by].pc = "scope" => ws.project # Absent
      PROVE  Runtime'
  BY <1>0, <1>1, <1>3, KeepsBot
<1>4. ASSUME ws' = Confirmed(ws), Run.kind = "set", Leaves
      PROVE  Runtime'
  <2>1. ws'.project = ws.project /\ ws'.inc = ws.inc /\ ws'.removing = ws.removing
    BY <1>0, <1>4, Generations DEF Base
  <2> QED
    BY <1>0, <1>1, <1>4, <2>1, KeepsBot
<1>5. CASE SetBegins
  <2>0. Run.kind = "set"
    BY <1>5 DEF SetBegins, Running, Run
  <2>1. ASSUME EndFails \/ End(Woken(at)) PROVE Leaves
    BY <1>0, <2>0, <2>1, Ends, EndsBadly, Wokens
  <2>2. ASSUME Has, ws' = Bump(ws) PROVE Runtime'
    <3>1. ws'.project = ws.project /\ ws'.inc = ws.inc /\ ws'.removing = ws.removing
      BY <1>0, <2>2, Bumps DEF Base
    <3> QED
      BY <1>0, <1>1, <2>0, <2>2, <3>1, KeepsBot DEF Has
  <2> QED
    BY <1>3, <1>4, <1>5, <2>0, <2>1, <2>2 DEF SetBegins
<1>6. CASE SetCleared
  <2>0. Run.kind = "set" /\ ws.project # Absent /\ Run.row \in Project \cup {None}
    BY <1>0, <1>6 DEF SetCleared, Running, Run, Runtime, Setting, Switching, Operation
  <2>1. ASSUME EndFails PROVE Leaves
    BY <1>0, <2>0, <2>1, EndsBadly
  <2> QED
    BY <1>2, <1>3, <1>6, <2>0, <2>1, Names DEF SetCleared
<1>7. CASE SetPersists
  <2>0. Run.kind = "set" /\ ws.project # Absent /\ Run.prev \in Project \cup {None}
    BY <1>0, <1>7 DEF SetPersists, Running, Run, Runtime, Setting, Switching, Operation
  <2>1. ASSUME EndFails \/ End(Woken(at)) PROVE Leaves
    BY <1>0, <2>0, <2>1, Ends, EndsBadly, Wokens
  <2> QED
    BY <1>2, <1>4, <1>7, <2>0, <2>1, Names DEF SetPersists
<1>8. CASE BindBegins \/ BindEnds \/ PersistAll \/ RemovalBegun
  <2>0. Run.kind \in {"bind", "persist", "begin"} /\ ws' = ws
    BY <1>8 DEF BindBegins, BindEnds, PersistAll, RemovalBegun, Running, Run
  <2> QED
    BY <1>3, <2>0
<1>9. CASE Ensure
  <2>0. Run.kind = "ensure"
    BY <1>9 DEF Ensure, Running, Run
  <2>1. CASE ws.project # Absent /\ ws' = ws
    BY <1>3, <2>0, <2>1
  <2>2. CASE /\ ws' = [Bump(ws) EXCEPT !.project = None, !.unconfirmed = TRUE,
                                       !.inc = ws.nextInc, !.nextInc = @ + 1]
             /\ End(at)
    <3>1. Leaves
      BY <1>0, <2>2, Ends, Wokens
    <3>2. Bump(ws) \in Memory /\ Bump(ws).removing = ws.removing
      BY <1>0, Bumps DEF Base
    <3>3. ws'.project = None /\ ws'.removing = ws.removing
      BY <2>2, <3>2 DEF Memory
    <3> QED
      BY <1>0, <2>0, <3>1, <3>3, EnsureRuntime
  <2>3. CASE ws' = [ws EXCEPT !.nextGen = @ + 1, !.nextInc = @ + 1] /\ EndFails
    <3>1. Leaves /\ at'[Run.by].pc # "scope"
      BY <1>0, <2>0, <2>3, EndsBadly
    <3>2. ws'.project = ws.project /\ ws'.inc = ws.inc /\ ws'.removing = ws.removing
      BY <1>0, <2>3 DEF Memory
    <3> QED
      BY <1>0, <2>0, <3>1, <3>2, KeepsBot
  <2> QED
    BY <1>9, <2>1, <2>2, <2>3 DEF Ensure
<1>10. CASE RemovalBegins
  <2>1. Run.kind = "begin" /\ ws' = [Bump(ws) EXCEPT !.removing = TRUE, !.removal = ws.inc]
    BY <1>10 DEF RemovalBegins, Running, Run
  <2>2. Bump(ws) \in Memory /\ Bump(ws).project = ws.project /\ Bump(ws).inc = ws.inc
    BY <1>0, Bumps DEF Base
  <2>3. ws'.project = ws.project /\ ws'.inc = ws.inc
    BY <2>1, <2>2 DEF Memory
  <2> QED
    BY <1>0, <1>1, <2>1, <2>3, KeepsBot
<1>11. CASE RemovalAborted
  <2>1. Run.kind = "abort" /\ ws' = IF ws.removing THEN [Bump(ws) EXCEPT !.removing = FALSE] ELSE ws
    BY <1>11 DEF RemovalAborted, Running, Run
  <2>2. Bump(ws) \in Memory /\ Bump(ws).project = ws.project /\ Bump(ws).inc = ws.inc
    BY <1>0, Bumps DEF Base
  <2>3. ws'.project = ws.project /\ ws'.inc = ws.inc /\ ~ws'.removing
    BY <2>1, <2>2 DEF Memory
  <2> QED
    BY <1>0, <1>1, <2>1, <2>3, KeepsBot
<1>12. CASE Retired
  BY <1>0, <1>12, RetireRuntime DEF Retired, Running, Run
<1>13. CASE RemovalEnds
  <2>0. Run.kind = "finish"
    BY <1>13 DEF RemovalEnds, Running, Run
  <2>1. ASSUME ws' = [ws EXCEPT !.removing = FALSE] PROVE Runtime'
    <3>1. ws'.project = ws.project /\ ws'.inc = ws.inc /\ ~ws'.removing
      BY <1>0, <2>1 DEF Memory
    <3> QED
      BY <1>0, <1>1, <2>0, <3>1, KeepsBot
  <2> QED
    BY <1>0, <1>13, <2>0, <2>1, RetireRuntime DEF RemovalEnds
<1> QED
  BY <1>0, <1>5, <1>6, <1>7, <1>8, <1>9, <1>10, <1>11, <1>12, <1>13 DEF Operations

LEMMA RuntimeKept ==
  ASSUME Base, Holders, Runtime, Kinds
  PROVE  Runtime'
<1>1. ASSUME UNCHANGED <<ws, ops, at, outer, inner, scope>>, disk'.configured = disk.configured
      PROVE  Runtime'
  <2>1. RunsHere' /\ StoppedInside' /\ Configured' /\ Starting' /\ Gone' /\ Retiring' /\ Removing'
    BY <1>1 DEF Runtime, RunsHere, StoppedInside, Configured, Starting, Gone, Retiring, Removing
  <2>2. Finishing' /\ Setting'
    BY <1>1 DEF Runtime, Finishing, Setting, Switching, Running
  <2> QED
    BY <2>1, <2>2 DEF Runtime
<1>2. ASSUME CrashRestart PROVE Runtime'
  <2>1. Ended("ended").pc = "ended"
    BY IdleTyped DEF Base, PC
  <2>2. \A r \in Request : at'[r].pc \in {"idle", "asked", "ended"}
    BY <1>2, <2>1, CrashBase, Names
  <2>3. PICK p \in Project \cup {None, Absent}, sessions \in Sessions : Loads(p, sessions)
    BY <1>2, CrashBase
  <2>4. disk'.configured = disk.configured /\ ops' = <<>> /\ Len(ops') = 0
    BY <1>2, CrashBase, EmptySeq
  <2>5. StoppedInside' /\ Configured' /\ Starting' /\ Gone'
    BY <2>2 DEF StoppedInside, Configured, Starting, Gone, Inside, Configures
  <2>6. RunsHere' /\ Retiring' /\ Removing'
    BY <2>3, <2>4 DEF Loads, RunsHere, Retiring, Removing
  <2>7. Finishing' /\ Setting'
    BY <2>4 DEF Finishing, Setting, Switching, Running
  <2> QED
    BY <2>5, <2>6, <2>7 DEF Runtime
<1>3. ASSUME WriteState PROVE Runtime'
  BY <1>1, <1>3, WriteBase
<1>4. ASSUME DeleteProject PROVE Runtime'
  BY <1>1, <1>4, DeleteBase
<1>5. ASSUME UNCHANGED vars PROVE Runtime'
  BY <1>1, <1>5 DEF vars
<1> QED
  BY <1>2, <1>3, <1>4, <1>5, ChatRuntime, PageRuntimeKept, QueueRuntimeKept DEF Kinds, ByChat


-----------------------------------------------------------------------------
(* What holds at first, and what follows                                     *)

LEMMA Begins ==
  ASSUME Init
  PROVE  Base /\ Rows /\ Waiters /\ Holders /\ Runtime
<1>1. PICK p \in Project \cup {None}, k \in Key, known \in BOOLEAN :
        LET of == IF known /\ p # None THEN <<p>> ELSE <<>>
            sessions == [NoSession EXCEPT ![k] = Len(of)]
        IN  /\ host = [live |-> Project, of |-> of]
            /\ ws = [project |-> p, gen |-> 1, nextGen |-> 2, inc |-> 1, nextInc |-> 2,
                     removing |-> FALSE, removal |-> 0, unconfirmed |-> p = None]
            /\ disk = [configured |-> TRUE, project |-> p, sessions |-> sessions]
            /\ sess = sessions
  BY DEF Init
<1> DEFINE of == IF known /\ p # None THEN <<p>> ELSE <<>>
           sessions == [NoSession EXCEPT ![k] = Len(of)]
<1>2. /\ ops = <<>> /\ stq = <<>> /\ bad = {} /\ at = [c \in Caller |-> Idle]
      /\ outer = None /\ inner = None /\ scope = [run |-> 1, inc |-> 1] /\ mishaps = 0
      /\ host = [live |-> Project, of |-> of]
      /\ ws = [project |-> p, gen |-> 1, nextGen |-> 2, inc |-> 1, nextInc |-> 2,
               removing |-> FALSE, removal |-> 0, unconfirmed |-> p = None]
      /\ disk = [configured |-> TRUE, project |-> p, sessions |-> sessions] /\ sess = sessions
  BY <1>1 DEF Init
<1>3. of \in Seq(Project) /\ Len(of) <= 1 /\ Len(of) \in Nat
  BY Names
<1> HIDE DEF of
<1>4. Len(of) \in 0..MaxSessions /\ Len(of) <= MaxSessions /\ sessions \in Sessions
  BY <1>3, BoundsAreNat DEF Sessions, NoSession
<1> HIDE DEF sessions
<1>5. /\ Idle \in Task /\ Idle.pc = "idle" /\ Idle.then = "none" /\ ~Idle.held /\ Idle.gen = 0
  <2>1. (CHOOSE x \in Key : TRUE) \in Key
    OBVIOUS
  <2>2. 0 \in 0..MaxSessions /\ "idle" \in PC
    BY BoundsAreNat DEF PC
  <2> QED
    BY <2>1, <2>2 DEF Idle, Task, Then
<1>6. host \in Host /\ ws \in Memory /\ disk \in Disk /\ scope \in Scope
  BY <1>2, <1>3, <1>4 DEF Host, Memory, Disk, Scope
<1>7. at \in [Caller -> Task] /\ \A c \in Caller : at[c] = Idle
  BY <1>2, <1>5
<1>8. Len(ops) = 0 /\ ops = <<>> /\ ops \in Seq(Operation) /\ stq \in Seq(Write) /\ host.of = of
      /\ ws.gen = 1 /\ ws.nextGen = 2 /\ ws.inc = 1 /\ ~ws.removing /\ ws.project = p
      /\ ws.unconfirmed = (p = None) /\ disk.configured
  BY <1>2, EmptySeq
<1>9. Types
  BY <1>2, <1>4, <1>6, <1>7, <1>8 DEF Types
<1>10. Gens
  BY <1>5, <1>7, <1>8 DEF Gens
<1>11. Roles
  BY <1>5, <1>7, Names, ChatPlaces DEF Roles, Path
<1>12. Line
  BY <1>5, <1>7, <1>8 DEF Line, Queued
<1>13. Rows /\ Waiters /\ Holders
  BY <1>2, <1>5, <1>7, <1>8, Names DEF Rows, Waiters, Holders, Waiting, Inside
<1>14. RunsHere /\ StoppedInside /\ Configured /\ Starting /\ Gone /\ Retiring /\ Removing
  BY <1>2, <1>5, <1>7, <1>8, Names DEF RunsHere, StoppedInside, Configured, Starting, Gone, Retiring,
     Removing, Inside, Configures
<1>15. Finishing /\ Setting
  BY <1>8 DEF Finishing, Setting, Switching, Running
<1> QED
  BY <1>9, <1>10, <1>11, <1>12, <1>13, <1>14, <1>15 DEF Base, Runtime

Inv == Base /\ Rows /\ Waiters /\ Holders /\ Runtime

\* In every reachable state the write queue, the waiters, the transitions of the two
\* controllers and the runtime fit together, for any number of turns and requests.
THEOREM Invariance == Spec => []Inv
<1>1. Init => Inv
  BY Begins DEF Inv
<1>2. Inv /\ [Next]_vars => Inv'
  <2> SUFFICES ASSUME Inv, [Next]_vars PROVE Inv'
    OBVIOUS
  <2>1. Kinds /\ Base /\ Rows /\ Waiters /\ Holders /\ Runtime
    BY EveryStep DEF Inv
  <2> QED
    BY <2>1, BaseKept, WaitersKept, HoldersKept, RuntimeKept DEF Inv
<1> QED
  BY <1>1, <1>2, PTL DEF Spec

\* Every variable keeps its type.
THEOREM TypeCorrect == Spec => []TypeOK
<1>1. Inv => TypeOK
  <2> SUFFICES ASSUME Inv PROVE TypeOK
    OBVIOUS
  <2>1. Types
    BY DEF Inv, Base
  <2>2. /\ host.live \subseteq Project /\ host.of \in Seq(Project) /\ Len(host.of) <= MaxSessions
        /\ ws.project \in Project \cup {None, Absent}
        /\ {ws.gen, ws.nextGen, ws.inc, ws.nextInc, ws.removal} \subseteq Nat
        /\ {ws.removing, ws.unconfirmed} \subseteq BOOLEAN
    BY <2>1 DEF Types, Host, Memory
  <2>3. \A i \in DOMAIN ops : ops[i].by \in Caller
    <3>1. DOMAIN ops = 1..Len(ops)
      BY <2>1, LenProperties DEF Types
    <3> QED
      BY <2>1, <3>1, InLine
  <2>4. \A i \in DOMAIN stq : stq[i].by \in Caller \cup {Op}
    <3>1. DOMAIN stq = 1..Len(stq) /\ stq \in Seq(Write)
      BY <2>1, LenProperties DEF Types
    <3>2. \A i \in DOMAIN stq : stq[i] \in Write
      BY <3>1, ElementOfSeq
    <3> QED
      BY <3>2 DEF Write
  <2>5. /\ sess \in [Key -> 0..MaxSessions] /\ bad \subseteq Caller \cup {Op}
        /\ disk.configured \in BOOLEAN /\ disk.project \in Project \cup {None, Absent}
        /\ disk.sessions \in [Key -> 0..MaxSessions]
    BY <2>1 DEF Types, Sessions, Disk
  <2>6. DOMAIN at = Caller /\ \A c \in Caller : at[c].pc \in PC
    BY <2>1 DEF Types, Task
  <2>7. {outer, inner} \subseteq Request \cup {None} /\ {scope.run, scope.inc} \subseteq Nat
    BY <2>1 DEF Types, Scope
  <2> QED
    BY <2>2, <2>3, <2>4, <2>5, <2>6, <2>7 DEF TypeOK
<1> QED
  BY <1>1, Invariance, PTL

\* Nobody waits for what will not come: who waits for a project has a bot whose project
\* is open, who waits for an operation has one in the queue, and who holds the lock of a
\* conversation or a transition of a controller has not ended.
THEOREM NoneForgotten == Spec => []NobodyForgotten
<1>1. Inv => NobodyForgotten
  <2> SUFFICES ASSUME Inv PROVE NobodyForgotten
    OBVIOUS
  <2>1. Base /\ Waiters /\ Holders
    BY DEF Inv
  <2>2. \A t \in Turn : at[t].pc \in Waiting => ws.unconfirmed /\ ws.project # Absent
    BY <2>1 DEF Waiters
  <2>3. \A c \in Caller : at[c].pc \in Queued => \E i \in DOMAIN ops : ops[i].by = c
    <3>1. DOMAIN ops = 1..Len(ops)
      BY <2>1, LenProperties DEF Base, Types
    <3> QED
      BY <2>1, <3>1 DEF Base, Line
  <2>4. \A t \in Turn : at[t].held => Busy(t)
    BY <2>1 DEF Waiters
  <2>5. \A r \in {outer, inner} \ {None} : Busy(r)
    <3>1. inner # None => Busy(inner)
      BY <2>1 DEF Holders, Inside, Busy
    <3> QED
      BY <2>1, <3>1 DEF Holders
  <2> QED
    BY <2>2, <2>3, <2>4, <2>5 DEF NobodyForgotten
<1> QED
  BY <1>1, Invariance, PTL

\* Once nothing of the settings page is under way, a running runtime is that of the
\* configured bot there is, and the store keeps no bot that is not configured.
THEOREM RuntimeIsOfBot == Spec => []RuntimeOfPresentBot
<1>1. Inv => RuntimeOfPresentBot
  <2> SUFFICES ASSUME Inv, AtRest
               PROVE  /\ scope.inc # 0 => Has /\ scope.inc = ws.inc
                      /\ ws.project # Absent => disk.configured /\ ~ws.removing
    BY DEF RuntimeOfPresentBot
  <2>1. RunsHere /\ Retiring /\ Removing
    BY DEF Inv, Runtime
  <2>2. ~ws.removing
    BY <2>1 DEF Removing, AtRest
  <2>3. ws.project # Absent => disk.configured
    BY <2>1, EmptySeq DEF Retiring, AtRest
  <2> QED
    BY <2>1, <2>2, <2>3 DEF RunsHere, Has
<1> QED
  BY <1>1, Invariance, PTL
=============================================================================
