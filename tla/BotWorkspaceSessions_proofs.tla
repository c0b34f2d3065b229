-------------------- MODULE BotWorkspaceSessions_proofs --------------------
(* The sessions of BotWorkspace: those that are stored, those in memory and   *)
(* those a turn has read belong to the project they are used for.             *)
EXTENDS BotWorkspace_proofs

-----------------------------------------------------------------------------
(* Sessions in memory, on their way and stored                              *)

\* Session s is one of project p, and so are all that a store leads to.
InProject(of, s, p) == s \in 1..Len(of) /\ of[s] = p
OfProject(of, f, p) == \A k \in Key : f[k] # 0 => InProject(of, f[k], p)

Clearing == Running("set", "clear")
Storing == Running("set", "persist")

Fit ==
  /\ ws.project \in Project => OfProject(host.of, sess, ws.project)
  /\ ws.project \in Project /\ ~Storing => disk.project = ws.project
  /\ disk.project \in Project =>
       /\ OfProject(host.of, disk.sessions, disk.project)
       /\ \A i \in 1..Len(stq) : OfProject(host.of, stq[i].sessions, disk.project)

\* While the project is changed nothing leads to a session of the old one: once the
\* sessions are cleared in memory, their clearing is on its way, has failed or is done.
AllClear ==
  disk.sessions = NoSession /\ \A i \in 1..Len(stq) : stq[i].sessions = NoSession
ClearOnItsWay ==
  \E n \in 1..Len(stq) : /\ stq[n].by = Op
                         /\ \A i \in n..Len(stq) : stq[i].sessions = NoSession
Switch ==
  /\ Switching => /\ sess = NoSession /\ Run.row \in Project
                  /\ Run.prev \in Project => disk.project = Run.prev
  /\ Clearing => Op \in bad \/ AllClear \/ ClearOnItsWay
  /\ Storing => AllClear

\* What is queued names a project, and a session of it.
Orders ==
  \A i \in 1..Len(ops) :
    /\ ops[i].kind \in {"set", "bind"} => ops[i].row \in Project
    /\ ops[i].kind = "bind" => InProject(host.of, ops[i].session, ops[i].row)

LEMMA NoneOfProject ==
  \A of, p : OfProject(of, NoSession, p)
  BY DEF OfProject, NoSession

\* The Host drops no session: the list of their projects only grows.
Grows ==
  /\ Len(host.of) \in Nat /\ Len(host'.of) \in Nat /\ Len(host.of) <= Len(host'.of)
  /\ \A i \in 1..Len(host.of) : host'.of[i] = host.of[i]

LEMMA GrownIn ==
  ASSUME Grows, NEW s, NEW p, InProject(host.of, s, p)
  PROVE  InProject(host'.of, s, p)
  BY DEF Grows, InProject

LEMMA GrownOf ==
  ASSUME Grows, NEW f, NEW p, OfProject(host.of, f, p)
  PROVE  OfProject(host'.of, f, p)
  BY GrownIn DEF OfProject

LEMMA NoGrowth ==
  ASSUME Base, host'.of = host.of
  PROVE  Grows
  BY LenProperties DEF Grows, Base, Types, Host

LEMMA CreatesGrow ==
  ASSUME Base, Creates
  PROVE  Grows
<1>1. host.of \in Seq(Project) /\ Len(host.of) \in Nat
  BY LenProperties DEF Base, Types, Host
<1>2. PICK p \in Project : host'.of = Append(host.of, p)
  BY DEF Creates
<1>3. Len(host'.of) = Len(host.of) + 1 /\ \A i \in 1..Len(host.of) : host'.of[i] = host.of[i]
  BY <1>1, <1>2, Joined
<1> QED
  BY <1>1, <1>3 DEF Grows

\* What most steps do here: they clear sessions if any, and leave a change of the
\* project where it is.
Usual ==
  /\ Grows
  /\ ws'.project = ws.project \/ ws'.project \notin Project
  /\ \/ disk'.project = disk.project
     \/ disk'.project \notin Project /\ ws'.project \notin Project /\ ~Switching'
  /\ disk'.sessions = disk.sessions
  /\ \/ sess' = sess /\ stq' = stq
     \/ \E c \in Caller \cup {Op} : Save(c, NoSession)
  /\ Clearing' => Clearing /\ (Op \in bad => Op \in bad')
  /\ Storing' <=> Storing
  /\ Switching' => Head(ops') = Head(ops)

\* What a write adds at the end of the queue of state.json.
LEMMA SavedLast ==
  ASSUME Base, NEW c \in Caller \cup {Op}, NEW s \in Sessions, Save(c, s)
  PROVE  /\ sess' = s /\ Len(stq) \in Nat /\ Len(stq') = Len(stq) + 1
         /\ \A i \in 1..Len(stq) : i \in 1..Len(stq') /\ stq'[i] = stq[i]
         /\ Len(stq') \in 1..Len(stq') /\ stq'[Len(stq')].by = c /\ stq'[Len(stq')].sessions = s
         /\ \A i \in 1..Len(stq') : i \in 1..Len(stq) \/ i = Len(stq')
<1>1. /\ sess' = s /\ Len(stq) \in Nat /\ Len(stq') = Len(stq) + 1
      /\ \A i \in 1..Len(stq) : stq'[i] = stq[i]
      /\ stq'[Len(stq) + 1] = [by |-> c, sessions |-> s]
  BY Writes DEF Base
<1> QED
  BY <1>1

LEMMA UsualFit ==
  ASSUME Base, Fit, Usual
  PROVE  Fit'
<1>0. NoSession \in Sessions /\ Grows
  BY NoSessionTyped DEF Usual
<1>1. ws'.project \in Project => OfProject(host'.of, sess', ws'.project)
  <2> SUFFICES ASSUME ws'.project \in Project PROVE OfProject(host'.of, sess', ws'.project)
    OBVIOUS
  <2>1. ws'.project = ws.project
    BY DEF Usual
  <2>2. CASE sess' = sess
    BY <1>0, <2>1, <2>2, GrownOf DEF Fit
  <2>3. CASE sess' = NoSession
    BY <2>3, NoneOfProject
  <2> QED
    BY <2>2, <2>3 DEF Usual, Save
<1>2. ws'.project \in Project /\ ~Storing' => disk'.project = ws'.project
  BY DEF Usual, Fit
<1>3. disk'.project \in Project =>
        /\ OfProject(host'.of, disk'.sessions, disk'.project)
        /\ \A i \in 1..Len(stq') : OfProject(host'.of, stq'[i].sessions, disk'.project)
  <2> SUFFICES ASSUME disk'.project \in Project
               PROVE  /\ OfProject(host'.of, disk'.sessions, disk'.project)
                      /\ \A i \in 1..Len(stq') : OfProject(host'.of, stq'[i].sessions, disk'.project)
    OBVIOUS
  <2>1. disk'.project = disk.project /\ disk'.sessions = disk.sessions
    BY DEF Usual
  <2>2. OfProject(host'.of, disk.sessions, disk.project)
    BY <1>0, <2>1, GrownOf DEF Fit
  <2>3. \A i \in 1..Len(stq) : OfProject(host'.of, stq[i].sessions, disk.project)
    BY <1>0, <2>1, GrownOf DEF Fit
  <2>4. CASE stq' = stq
    BY <2>1, <2>2, <2>3, <2>4
  <2>5. ASSUME NEW c \in Caller \cup {Op}, Save(c, NoSession)
        PROVE  \A i \in 1..Len(stq') : OfProject(host'.of, stq'[i].sessions, disk'.project)
    BY <1>0, <2>1, <2>3, <2>5, SavedLast, NoneOfProject
  <2> QED
    BY <2>1, <2>2, <2>4, <2>5 DEF Usual
<1> QED
  BY <1>1, <1>2, <1>3 DEF Fit

LEMMA UsualSwitch ==
  ASSUME Base, Switch, Usual
  PROVE  Switch'
<1>0. NoSession \in Sessions
  BY NoSessionTyped
<1>1. Switching' => Switching /\ (Clearing' => Clearing) /\ (Storing' => Storing)
  BY DEF Usual, Switching, Clearing, Storing
<1>2. ASSUME Switching'
      PROVE  /\ sess' = NoSession /\ Run'.row \in Project
             /\ Run'.prev \in Project => disk'.project = Run'.prev
  <2>1. Run' = Run /\ disk'.project = disk.project
    BY <1>2 DEF Usual, Run
  <2>2. sess' = NoSession
    BY <1>1, <1>2 DEF Usual, Switch, Save
  <2> QED
    BY <1>1, <1>2, <2>1, <2>2 DEF Switch
<1>3. ASSUME AllClear PROVE AllClear'
  <2>1. CASE sess' = sess /\ stq' = stq
    BY <1>3, <2>1 DEF Usual, AllClear
  <2>2. ASSUME NEW c \in Caller \cup {Op}, Save(c, NoSession) PROVE AllClear'
    BY <1>0, <1>3, <2>2, SavedLast DEF Usual, AllClear
  <2> QED
    BY <2>1, <2>2 DEF Usual
<1>4. ASSUME ClearOnItsWay PROVE ClearOnItsWay'
  <2>1. PICK n \in 1..Len(stq) : /\ stq[n].by = Op
                                 /\ \A i \in n..Len(stq) : stq[i].sessions = NoSession
    BY <1>4 DEF ClearOnItsWay
  <2>2. CASE sess' = sess /\ stq' = stq
    BY <1>4, <2>2 DEF ClearOnItsWay
  <2>3. ASSUME NEW c \in Caller \cup {Op}, Save(c, NoSession) PROVE ClearOnItsWay'
    <3>1. /\ Len(stq) \in Nat /\ Len(stq') = Len(stq) + 1 /\ n \in 1..Len(stq') /\ stq'[n].by = Op
          /\ \A i \in 1..Len(stq) : stq'[i] = stq[i]
          /\ stq'[Len(stq')].sessions = NoSession
      BY <1>0, <2>1, <2>3, SavedLast
    <3>2. \A i \in n..Len(stq') : stq'[i].sessions = NoSession
      <4> SUFFICES ASSUME NEW i \in n..Len(stq') PROVE stq'[i].sessions = NoSession
        OBVIOUS
      <4>1. (i \in n..Len(stq) /\ i \in 1..Len(stq)) \/ i = Len(stq')
        BY <3>1
      <4> QED
        BY <2>1, <3>1, <4>1
    <3> QED
      BY <3>1, <3>2 DEF ClearOnItsWay
  <2> QED
    BY <2>2, <2>3 DEF Usual
<1> QED
  BY <1>1, <1>2, <1>3, <1>4 DEF Switch, Usual

-----------------------------------------------------------------------------
(* Which steps are usual                                                     *)

\* Only an operation switches the project: who asks for one leaves the running one
\* where it is.
LEMMA AsksHead ==
  ASSUME Base, NEW c, NEW kinds, Asks(c, kinds)
  PROVE  /\ Clearing' <=> Clearing
         /\ Storing' <=> Storing
         /\ Switching' => Head(ops') = Head(ops)
<1>0. ops \in Seq(Operation) /\ Len(ops) \in Nat
  BY LenProperties DEF Base, Types
<1>1. CASE ops' = ops
  BY <1>1 DEF Switching, Clearing, Storing, Running
<1>2. ASSUME NEW o \in Operation, ops' = Append(ops, o), o.step = "queued"
      PROVE  /\ Clearing' <=> Clearing
             /\ Storing' <=> Storing
             /\ Switching' => Head(ops') = Head(ops)
  <2>1. /\ Len(ops') = Len(ops) + 1 /\ \A i \in 1..Len(ops) : ops'[i] = ops[i]
        /\ ops'[Len(ops) + 1] = o /\ ops' \in Seq(Operation)
    BY <1>0, <1>2, Joined
  <2>2. ops' # <<>>
    BY <1>0, <2>1, EmptySeq
  <2>3. Head(ops') = ops'[1]
    BY <2>1, <2>2, Shorter
  <2>4. CASE ops = <<>>
    <3>1. Head(ops').step = "queued"
      BY <1>2, <2>1, <2>3, <2>4, EmptySeq
    <3> QED
      BY <2>4, <3>1 DEF Switching, Clearing, Storing, Running
  <2>5. CASE ops # <<>>
    <3>1. Head(ops) = ops[1] /\ 1 \in 1..Len(ops)
      BY <1>0, <2>5, Shorter
    <3>2. Head(ops') = Head(ops)
      BY <2>1, <2>3, <3>1
    <3> QED
      BY <2>2, <2>5, <3>2 DEF Switching, Clearing, Storing, Running
  <2> QED
    BY <2>4, <2>5
<1> QED
  BY <1>1, <1>2 DEF Asks

\* What callers do with state.json: they clear it, but for the turn that keeps a
\* session, and settle their own writes.
Writing(c) == (sess' = sess /\ stq' = stq) \/ Save(c, NoSession)
KeepsOp == Op \in bad => Op \in bad'

LEMMA Settles ==
  ASSUME NEW c \in Caller, Settled(c)
  PROVE  KeepsOp
  BY Names DEF Settled, KeepsOp

LEMMA ReconcileWrites ==
  ASSUME NEW c \in Caller, Reconcile(c)
  PROVE  KeepsOp /\ Writing(c)
<1>1. CASE Fetch(c)
  BY <1>1 DEF Fetch, KeepsOp, Writing
<1>2. CASE Apply(c)
  BY <1>2 DEF Apply, KeepsOp, Writing
<1>3. CASE ClearForPage(c)
  BY <1>3 DEF ClearForPage, KeepsOp, Writing
<1>4. CASE Cleared(c)
  BY <1>4, Settles DEF Cleared, Writing
<1> QED
  BY <1>1, <1>2, <1>3, <1>4 DEF Reconcile

LEMMA ChatWrites ==
  ASSUME NEW t \in Turn, ChatActions(t)
  PROVE  KeepsOp /\ (Writing(t) \/ (Keep(t) /\ CurrentSession(t)))
<1>0. t \in Caller
  BY Names
<1>1. CASE Message(t) \/ SetProject(t)
  BY <1>1 DEF Message, SetProject, KeepsOp, Writing
<1>2. CASE Reconcile(t)
  BY <1>0, <1>2, ReconcileWrites
<1>3. CASE Resolve(t) \/ Probe(t) \/ Create(t) \/ Created(t)
  BY <1>3 DEF Resolve, Probe, Create, Created, KeepsOp, Writing
<1>4. CASE Keep(t)
  BY <1>4 DEF Keep, KeepsOp, Writing
<1>5. CASE Kept(t)
  BY <1>0, <1>5, Settles DEF Kept, Writing
<1>6. CASE Ask(t) \/ Adopt(t) \/ Adopted(t)
  BY <1>6 DEF Ask, Adopt, Adopted, KeepsOp, Writing
<1> QED
  BY <1>1, <1>2, <1>3, <1>4, <1>5, <1>6 DEF ChatActions, Chat

LEMMA ChatUsual ==
  ASSUME Base, NEW c \in Turn \cup {Other}, ByChat(c)
  PROVE  Usual \/ (c \in Turn /\ Keep(c) /\ CurrentSession(c))
<1>0. c \in Caller /\ ChatStep(c)
  BY Names DEF ByChat
<1>1. KeepsOp /\ (Writing(c) \/ (c \in Turn /\ Keep(c) /\ CurrentSession(c)))
  <2>1. CASE c \in Turn /\ ChatActions(c)
    BY <2>1, ChatWrites
  <2>2. CASE Reconcile(c)
    BY <1>0, <2>2, ReconcileWrites
  <2>3. CASE OtherStarts \/ OtherEnds
    BY <2>3 DEF OtherStarts, OtherEnds, KeepsOp, Writing
  <2> QED
    BY <2>1, <2>2, <2>3 DEF ByChat
<1>2. Grows
  <2>1. CASE host' = host
    BY <2>1, NoGrowth
  <2> QED
    BY <1>0, <2>1, CreatesGrow DEF ChatStep
<1>3. ws'.project = ws.project \/ ws'.project \notin Project
  <2>1. CASE Unbinds
    BY <2>1, UnbindFacts, Names DEF Base
  <2> QED
    BY <1>0, <2>1 DEF ChatStep
<1>4. /\ Clearing' <=> Clearing
      /\ Storing' <=> Storing
      /\ Switching' => Head(ops') = Head(ops)
  BY <1>0, AsksHead DEF ChatStep
<1>5. disk' = disk
  BY <1>0 DEF ChatStep
<1> QED
  BY <1>0, <1>1, <1>2, <1>3, <1>4, <1>5 DEF Usual, Writing, KeepsOp

LEMMA PageKeepsOp ==
  ASSUME NEW r \in Request, Invoke(r) \/ Settings(r)
  PROVE  KeepsOp
<1>1. CASE CleanedUp(r)
  BY <1>1, Settles, Names DEF CleanedUp
<1>2. CASE Invoke(r) \/ Choose(r) \/ SetProject(r) \/ Delete(r) \/ Known(r) \/ StopRuntime(r)
  BY <1>2 DEF Invoke, Choose, SetProject, Delete, Known, StopRuntime, KeepsOp
<1>3. CASE Commit(r) \/ Cleanup(r) \/ DeleteFails(r) \/ SaveConfig(r) \/ StartRuntime(r) \/ Leave(r)
  BY <1>3 DEF Commit, Cleanup, DeleteFails, SaveConfig, StartRuntime, Leave, KeepsOp
<1> QED
  BY <1>1, <1>2, <1>3 DEF Settings

LEMMA PageUsual ==
  ASSUME Base, NEW r \in Request, ByPage(r), at[r].pc # "cleaning"
  PROVE  Usual
<1>0. r \in Caller /\ RequestStep(r)
  BY Names DEF ByPage
<1>1. Grows
  BY <1>0, NoGrowth DEF RequestStep
<1>2. KeepsOp
  BY PageKeepsOp DEF ByPage
<1>3. /\ Clearing' <=> Clearing
      /\ Storing' <=> Storing
      /\ Switching' => Head(ops') = Head(ops)
  BY <1>0, AsksHead DEF RequestStep
<1>4. (sess' = sess /\ stq' = stq) \/ Save(r, NoSession)
  BY <1>0 DEF RequestStep, PageSaves
<1> QED
  BY <1>0, <1>1, <1>2, <1>3, <1>4 DEF Usual, RequestStep, KeepsOp

\* A deletion leaves in memory what is stored, when the bot is gone.
LEMMA CleaningFits ==
  ASSUME Base, Runtime, Fit, Switch, NEW r \in Request, ByPage(r), at[r].pc = "cleaning"
  PROVE  Fit' /\ Switch'
<1>0. r \in Caller /\ RequestStep(r)
  BY Names DEF ByPage
<1>1. CleanedUp(r)
  BY DEF ByPage, Invoke, Settings, Choose, SetProject, Delete, Known, StopRuntime, Commit, Cleanup,
         DeleteFails, SaveConfig, StartRuntime, Leave
<1>2. ws.project = Absent /\ ws' = ws /\ host' = host /\ disk' = disk /\ stq' = stq
  BY <1>0, <1>1 DEF CleanedUp, Runtime, Gone, RequestStep
<1>3. Switching' => Switching
  BY <1>0, AsksQueue DEF RequestStep
<1>4. ~Switching'
  BY <1>2, <1>3 DEF Runtime, Setting
<1>5. Fit'
  BY <1>2, Names DEF Fit
<1>6. Switch'
  BY <1>4 DEF Switch, Switching, Clearing, Storing
<1> QED
  BY <1>5, <1>6

\* A session of the project is kept while the project is not being changed.
LEMMA KeepsFit ==
  ASSUME Base, Fit, Switch, NEW c \in Caller \cup {Op}, NEW k \in Key, NEW s \in 0..MaxSessions,
         Save(c, [sess EXCEPT ![k] = s]), ws.project \in Project, InProject(host.of, s, ws.project),
         ws'.project = ws.project, host'.of = host.of, disk' = disk, ~Switching, ~Switching'
  PROVE  Fit' /\ Switch'
<1> DEFINE f == [sess EXCEPT ![k] = s]
<1>0. sess \in Sessions /\ f \in Sessions
  BY DEF Base, Types, Sessions
<1>1. \A l \in Key : f[l] = IF l = k THEN s ELSE sess[l]
  BY <1>0 DEF Sessions
<1>2. Save(c, f)
  OBVIOUS
<1> HIDE DEF f
<1>3. /\ sess' = f /\ Len(stq) \in Nat /\ stq'[Len(stq')].sessions = f
      /\ \A i \in 1..Len(stq) : i \in 1..Len(stq') /\ stq'[i] = stq[i]
      /\ \A i \in 1..Len(stq') : i \in 1..Len(stq) \/ i = Len(stq')
  BY <1>0, <1>2, SavedLast
<1>4. OfProject(host.of, sess, ws.project) /\ disk.project = ws.project
  BY DEF Fit, Switching, Storing
<1>5. OfProject(host.of, f, ws.project)
  BY <1>1, <1>4 DEF OfProject
<1>6. \A i \in 1..Len(stq') : OfProject(host.of, stq'[i].sessions, ws.project)
  BY <1>3, <1>4, <1>5 DEF Fit
<1>7. Fit'
  BY <1>3, <1>4, <1>5, <1>6 DEF Fit
<1>8. Switch'
  BY DEF Switch, Switching, Clearing, Storing
<1> QED
  BY <1>7, <1>8

\* A write of state.json brings the clearing nearer.
LEMMA WriteFits ==
  ASSUME Base, Fit, Switch, WriteState
  PROVE  Fit' /\ Switch'
<1>0. /\ stq # <<>> /\ stq' = Tail(stq) /\ disk \in Disk
      /\ \/ disk' = [disk EXCEPT !.sessions = Head(stq).sessions] /\ bad' = bad
         \/ disk' = disk /\ bad' = bad \cup {Head(stq).by}
      /\ disk'.project = disk.project
      /\ UNCHANGED <<host, ws, ops, sess>>
  BY WriteBase DEF Base, Types
<1>1. /\ Len(Tail(stq)) = Len(stq) - 1 /\ Len(stq) \in Nat /\ Len(stq) >= 1
      /\ \A i \in 1..Len(Tail(stq)) : i + 1 \in 1..Len(stq) /\ Tail(stq)[i] = stq[i + 1]
      /\ Head(stq) = stq[1] /\ 1 \in 1..Len(stq)
  BY <1>0, Shorter DEF Base, Types
<1>2. \/ disk'.sessions = stq[1].sessions /\ bad' = bad
      \/ disk'.sessions = disk.sessions /\ bad' = bad \cup {stq[1].by}
  BY <1>0, <1>1 DEF Disk
<1>3. Fit'
  BY <1>0, <1>1, <1>2 DEF Fit, Storing, Running
<1>4. /\ Switching' <=> Switching
      /\ Clearing' <=> Clearing
      /\ Storing' <=> Storing
      /\ Switching => Run' = Run
  BY <1>0 DEF Switching, Clearing, Storing, Running, Run
<1>5. AllClear => AllClear'
  BY <1>0, <1>1, <1>2 DEF AllClear
<1>6. Op \in bad => Op \in bad'
  BY <1>2
<1>7. ASSUME ClearOnItsWay PROVE Op \in bad' \/ AllClear' \/ ClearOnItsWay'
  <2>1. PICK n \in 1..Len(stq) : /\ stq[n].by = Op
                                 /\ \A i \in n..Len(stq) : stq[i].sessions = NoSession
    BY <1>7 DEF ClearOnItsWay
  <2>2. CASE n = 1
    <3>1. disk'.sessions = NoSession \/ Op \in bad'
      BY <1>1, <1>2, <2>1, <2>2
    <3>2. \A i \in 1..Len(stq') : stq'[i].sessions = NoSession
      BY <1>0, <1>1, <2>1, <2>2
    <3> QED
      BY <3>1, <3>2 DEF AllClear
  <2>3. CASE n # 1
    <3>1. n - 1 \in 1..Len(stq') /\ stq'[n - 1] = stq[n]
      BY <1>0, <1>1, <2>3
    <3>2. \A i \in (n - 1)..Len(stq') : stq'[i].sessions = NoSession
      <4> SUFFICES ASSUME NEW i \in (n - 1)..Len(stq') PROVE stq'[i].sessions = NoSession
        OBVIOUS
      <4>1. i \in 1..Len(stq') /\ i + 1 \in n..Len(stq) /\ stq'[i] = stq[i + 1]
        BY <1>0, <1>1, <2>3
      <4> QED
        BY <2>1, <4>1
    <3> QED
      BY <2>1, <3>1, <3>2 DEF ClearOnItsWay
  <2> QED
    BY <2>2, <2>3
<1>8. Switch'
  BY <1>0, <1>4, <1>5, <1>6, <1>7 DEF Switch
<1> QED
  BY <1>3, <1>8

LEMMA CrashFits ==
  ASSUME Base, Fit, CrashRestart
  PROVE  Fit' /\ Switch'
<1>0. host' = host /\ ops' = <<>> /\ stq' = <<>> /\ Len(stq') = 0
  BY CrashBase, EmptySeq
<1>1. PICK p \in Project \cup {None, Absent}, sessions \in Sessions : Loads(p, sessions)
  BY CrashBase
<1>2. ~Switching' /\ ~Clearing' /\ ~Storing'
  BY <1>0 DEF Switching, Clearing, Storing, Running
<1>3. p \in Project => OfProject(host.of, sessions, p)
  BY <1>1 DEF Loads, Fit
<1>4. Fit'
  BY <1>0, <1>1, <1>3 DEF Loads, Fit
<1> QED
  BY <1>2, <1>4 DEF Switch

-----------------------------------------------------------------------------
(* The operations that change the project                                   *)

\* An operation of another kind is none that changes the project.
LEMMA NoSwitch ==
  ASSUME Base, OpStep, Run.kind # "set"
  PROVE  ~Switching /\ ~Switching'
<1>1. ~Switching
  BY DEF Switching, Running, Run
<1>2. CASE ops' # <<>> /\ ops'[1].kind = ops[1].kind
  <2>1. ops' \in Seq(Operation)
    BY OpBase DEF Base, Types
  <2>2. Head(ops') = ops'[1] /\ Run = ops[1]
    BY <1>2, <2>1, Shorter, QueueMoves
  <2> QED
    BY <1>1, <1>2, <2>2 DEF Switching, Running, Run
<1>3. CASE ops' = <<>>
  BY <1>1, <1>3 DEF Switching, Running
<1>4. ops'[1].kind = ops[1].kind \/ ~Switching'
  <2>1. 1 \in 1..Len(ops)
    BY QueueMoves
  <2> QED
    BY <2>1, QueueMoves
<1> QED
  BY <1>1, <1>2, <1>3, <1>4

\* An operation after which the project is not being changed, nor stored before it.
LEMMA OpUsual ==
  ASSUME Base, OpStep, ~Switching', ~Storing,
         ws'.project = ws.project \/ ws'.project \notin Project,
         \/ disk'.project = disk.project
         \/ disk'.project \notin Project /\ ws'.project \notin Project,
         disk'.sessions = disk.sessions,
         (sess' = sess /\ stq' = stq) \/ Save(Op, NoSession)
  PROVE  Usual
<1>1. Grows
  BY NoGrowth DEF OpStep
<1>2. ~Clearing' /\ ~Storing'
  BY DEF Switching, Clearing, Storing
<1> QED
  BY <1>1, <1>2 DEF Usual

\* The change begins: the clearing is queued, the project is still the stored one.
Switches ==
  /\ Has /\ ws.project # Run.row /\ ws' = Bump(ws) /\ Save(Op, NoSession)
  /\ ops' = [ops EXCEPT ![1].step = "clear", ![1].prev = ws.project]
  /\ at' = at /\ UNCHANGED <<host, disk, bad>>

LEMMA SetBeginsFits ==
  ASSUME Base, Orders, Fit, SetBegins
  PROVE  \/ Usual /\ ~Switching'
         \/ Switches /\ Fit' /\ Switch'
<1>0. /\ OpStep /\ ops # <<>> /\ Run.kind = "set" /\ Run.step = "queued" /\ Base /\ Types /\ Gens
      /\ host' = host /\ disk' = disk /\ bad' = bad
  BY OpSetBegins DEF SetBegins, Running, Run, Base
<1>1. ~Switching /\ ~Storing
  BY <1>0 DEF Switching, Storing, Running, Run
<1>2. CASE EndFails /\ UNCHANGED <<ws, sess, stq>>
  <2>1. Leaves
    BY <1>0, <1>2, EndsBadly
  <2>2. ~Switching'
    BY <1>0, <2>1, QueueMoves
  <2> QED
    BY <1>0, <1>1, <1>2, <2>2, OpUsual
<1>3. CASE ws' = Confirmed(ws) /\ End(Woken(at)) /\ UNCHANGED <<sess, stq>>
  <2>1. Leaves
    BY <1>0, <1>3, Ends, Wokens
  <2>2. ~Switching'
    BY <1>0, <2>1, QueueMoves
  <2>3. ws'.project = ws.project
    BY <1>0, <1>3, Generations
  <2> QED
    BY <1>0, <1>1, <1>3, <2>2, <2>3, OpUsual
<1>4. CASE /\ ws' = Bump(ws) /\ Save(Op, NoSession) /\ UNCHANGED at
           /\ ops' = [ops EXCEPT ![1].step = "clear", ![1].prev = ws.project]
           /\ Has /\ ws.project # Run.row
  <2>0. Switches
    BY <1>0, <1>4 DEF Switches
  <2>1. Run \in Operation /\ Run = ops[1] /\ 1 \in 1..Len(ops) /\ ops \in Seq(Operation)
    BY <1>0, Runner DEF Types
  <2> DEFINE o == [Run EXCEPT !.step = "clear", !.prev = ws.project]
  <2>2. o.kind = "set" /\ o.step = "clear" /\ o.prev = ws.project /\ o.row = Run.row
    BY <1>0, <2>1 DEF Operation
  <2>3. ops' = [ops EXCEPT ![1] = o]
    BY <2>1, <1>4
  <2> HIDE DEF o
  <2>4. ops'[1] = o /\ Len(ops') = Len(ops) /\ ops' \in Seq(Operation)
    <3>1. ops' \in Seq(Operation)
      BY <1>0, OpBase DEF Base, Types
    <3> QED
      BY <2>1, <2>3, <3>1
  <2>5. ops' # <<>> /\ Head(ops') = o
    <3>1. ops' # <<>>
      BY <2>1, <2>4, EmptySeq
    <3> QED
      BY <3>1, <2>4, Shorter
  <2>6. Run' = o /\ Clearing' /\ ~Storing' /\ Switching'
    BY <2>2, <2>5 DEF Run, Clearing, Storing, Switching, Running
  <2>7. Run.row \in Project
    BY <1>0, <2>1 DEF Orders
  <2>8. /\ sess' = NoSession /\ Len(stq) \in Nat /\ Len(stq') = Len(stq) + 1
        /\ \A i \in 1..Len(stq) : i \in 1..Len(stq') /\ stq'[i] = stq[i]
        /\ Len(stq') \in 1..Len(stq') /\ stq'[Len(stq')].by = Op
        /\ stq'[Len(stq')].sessions = NoSession
        /\ \A i \in 1..Len(stq') : i \in 1..Len(stq) \/ i = Len(stq')
    BY <1>0, <1>4, NoSessionTyped, SavedLast
  <2>9. ws'.project = ws.project
    BY <1>0, <1>4, Bumps
  <2>10. Fit'
    BY <1>0, <1>1, <2>6, <2>8, <2>9, NoneOfProject DEF Fit
  <2>11. ClearOnItsWay'
    <3>1. \A i \in Len(stq')..Len(stq') : i = Len(stq')
      BY <2>8
    <3> QED
      BY <2>8, <3>1 DEF ClearOnItsWay
  <2>12. Switch'
    <3>1. Run'.prev \in Project => disk'.project = Run'.prev
      BY <1>0, <1>1, <2>2, <2>6 DEF Fit
    <3> QED
      BY <2>2, <2>6, <2>7, <2>8, <2>11, <3>1 DEF Switch
  <2> QED
    BY <2>0, <2>10, <2>12
<1> QED
  BY <1>2, <1>3, <1>4 DEF SetBegins

\* The sessions are cleared: the project changes in memory, and is stored next; or
\* the change is given up.
Changes ==
  /\ Clearing /\ AllClear /\ ws' = [ws EXCEPT !.project = Run.row] /\ at' = at
  /\ UNCHANGED <<host, disk, sess, stq>>

LEMMA SetClearedFits ==
  ASSUME Base, Fit, Switch, SetCleared
  PROVE  \/ Usual /\ ws' = ws /\ ~Switching'
         \/ Changes /\ Fit' /\ Switch'
<1>0. /\ OpStep /\ Clearing /\ ops # <<>> /\ Run.kind = "set" /\ Run.step = "clear" /\ Types
      /\ UNCHANGED <<host, sess, stq, disk>>
  BY OpSetCleared DEF SetCleared, Clearing, Running, Run, Base
<1>1. Switching /\ ~Storing
  BY <1>0 DEF Switching, Clearing, Storing, Running, Run
<1>2. CASE Op \in bad
  <2>1. EndFails /\ ws' = ws
    BY <1>2 DEF SetCleared
  <2>2. Leaves
    BY <1>0, <2>1, EndsBadly
  <2>3. ~Switching'
    BY <1>0, <2>2, QueueMoves
  <2> QED
    BY <1>0, <1>1, <2>1, <2>3, OpUsual
<1>3. CASE Op \notin bad
  <2>1. ws' = [ws EXCEPT !.project = Run.row] /\ Step("persist") /\ at' = at
    BY <1>3 DEF SetCleared
  <2>2. ~ClearOnItsWay
    BY DEF SetCleared, Settled, Saved, ClearOnItsWay
  <2>3. AllClear
    BY <1>0, <1>3, <2>2 DEF Switch
  <2>4. Run \in Operation /\ Run = ops[1] /\ 1 \in 1..Len(ops) /\ ops \in Seq(Operation)
    BY <1>0, Runner DEF Types
  <2> DEFINE o == [Run EXCEPT !.step = "persist"]
  <2>5. o.kind = "set" /\ o.step = "persist" /\ o.prev = Run.prev /\ o.row = Run.row
    BY <1>0, <2>4 DEF Operation
  <2>6. ops' = [ops EXCEPT ![1] = o]
    BY <2>1, <2>4 DEF Step
  <2> HIDE DEF o
  <2>7. ops'[1] = o /\ Len(ops') = Len(ops) /\ ops' \in Seq(Operation)
    <3>1. ops' \in Seq(Operation)
      BY <1>0, OpBase DEF Base, Types
    <3> QED
      BY <2>4, <2>6, <3>1
  <2>8. ops' # <<>> /\ Head(ops') = o
    <3>1. ops' # <<>>
      BY <2>4, <2>7, EmptySeq
    <3> QED
      BY <3>1, <2>7, Shorter
  <2>9. Run' = o /\ ~Clearing' /\ Storing'
    BY <2>5, <2>8 DEF Run, Clearing, Storing, Running
  <2>10. sess = NoSession /\ Run.row \in Project /\ (Run.prev \in Project => disk.project = Run.prev)
    BY <1>1 DEF Switch
  <2>11. Fit'
    BY <1>0, <2>9, <2>10, NoneOfProject DEF Fit
  <2>12. AllClear'
    BY <1>0, <2>3 DEF AllClear
  <2>13. Switch'
    BY <1>0, <2>5, <2>9, <2>10, <2>12 DEF Switch
  <2> QED
    BY <1>0, <2>1, <2>3, <2>11, <2>13 DEF Changes
<1> QED
  BY <1>2, <1>3

\* The project is stored, or what was stored before is taken back.
LEMMA SetPersistsFits ==
  ASSUME Base, Fit, Switch, SetPersists
  PROVE  Fit' /\ Switch' /\ Switching /\ ws'.gen = ws.gen
<1>0. /\ OpStep /\ Storing /\ ops # <<>> /\ Run.kind = "set" /\ Run.step = "persist" /\ Types /\ Gens
      /\ UNCHANGED <<host, sess, stq>> /\ ws \in Memory /\ disk \in Disk /\ Run.prev \in Project \cup {None}
  BY OpSetPersists, Runner DEF SetPersists, Storing, Running, Run, Base, Types, Operation
<1>1. Switching /\ AllClear /\ sess = NoSession /\ (Run.prev \in Project => disk.project = Run.prev)
  BY <1>0 DEF Switch, Switching, Storing
<1>2. Leaves
  <2>1. CASE End(Woken(at))
    BY <1>0, <2>1, Ends, Wokens
  <2>2. CASE EndFails
    BY <1>0, <2>2, EndsBadly
  <2> QED
    BY <2>1, <2>2 DEF SetPersists
<1>3. ~Switching' /\ ~Clearing' /\ ~Storing'
  BY <1>0, <1>2, QueueMoves DEF Switching, Clearing, Storing
<1>4. /\ ws'.project \in Project => disk'.project = ws'.project
      /\ disk'.sessions = disk.sessions /\ ws'.gen = ws.gen
  <2>1. CASE disk' = [disk EXCEPT !.project = ws.project] /\ ws' = Confirmed(ws)
    BY <1>0, <2>1, Generations DEF Disk
  <2>2. CASE ws' = [ws EXCEPT !.project = Run.prev] /\ disk' = disk
    BY <1>0, <1>1, <2>2 DEF Memory
  <2> QED
    BY <2>1, <2>2 DEF SetPersists
<1>5. Fit'
  BY <1>0, <1>1, <1>4, NoneOfProject DEF Fit, AllClear
<1>6. Switch'
  BY <1>3 DEF Switch
<1> QED
  BY <1>1, <1>4, <1>5, <1>6

LEMMA BindBeginsFits ==
  ASSUME Base, Orders, Fit, Switch, BindBegins
  PROVE  Fit' /\ Switch' /\ ws' = ws /\ ~Switching'
<1>0. /\ OpStep /\ ops # <<>> /\ Run.kind = "bind" /\ UNCHANGED <<host, ws, disk>>
      /\ Run = ops[1] /\ 1 \in 1..Len(ops) /\ Run \in Operation /\ at[Run.by] \in Task
  BY OpBindBegins, Runner DEF BindBegins, Running, Run
<1>1. ~Switching /\ ~Switching'
  BY <1>0, NoSwitch
<1>2. CASE Run.row = ws.project /\ Save(Op, [sess EXCEPT ![at[Run.by].key] = Run.session])
  <2> DEFINE k == at[Run.by].key
             s == Run.session
  <2>1. k \in Key /\ s \in 0..MaxSessions /\ ws.project \in Project /\ InProject(host.of, s, ws.project)
    BY <1>0, <1>2 DEF Orders, Operation, Task
  <2>2. Save(Op, [sess EXCEPT ![k] = s])
    BY <1>2
  <2> HIDE DEF k, s
  <2> QED
    BY <1>0, <1>1, <2>1, <2>2, KeepsFit
<1>3. CASE EndFails /\ UNCHANGED <<sess, stq>>
  <2>1. ~Storing
    BY <1>1 DEF Switching, Storing
  <2>2. Usual
    BY <1>0, <1>1, <1>3, <2>1, OpUsual
  <2> QED
    BY <1>0, <1>1, <2>2, UsualFit, UsualSwitch
<1> QED
  BY <1>0, <1>1, <1>2, <1>3 DEF BindBegins

\* What the store holds of the bot after the other operations: a fresh generation,
\* the project it had, or no bot.
Keeps == ws'.project = ws.project /\ ws'.gen \in {ws.gen, ws.nextGen}
Forgets == ws'.project = Absent
Renews == ws'.gen = ws.nextGen

LEMMA RetireFacts ==
  ASSUME Base, Retire
  PROVE  Forgets /\ disk'.sessions = disk.sessions /\ disk'.project \in {disk.project, Absent}
<1>0. ws \in Memory /\ disk \in Disk
  BY DEF Base, Types
<1> DEFINE w == [ws EXCEPT !.project = Absent, !.gen = 0, !.inc = 0, !.removing = FALSE]
<1>1. w.project = Absent /\ w \in Memory
  BY <1>0 DEF Memory
<1>2. ws' = Confirmed(w)
  BY DEF Retire
<1> HIDE DEF w
<1>3. ws'.project = Absent
  BY <1>1, <1>2 DEF Confirmed, Memory
<1>4. disk' = [disk EXCEPT !.project = Absent] \/ disk' = disk
  BY DEF Retire
<1>5. disk'.sessions = disk.sessions /\ disk'.project \in {disk.project, Absent}
  BY <1>0, <1>4 DEF Disk
<1> QED
  BY <1>3, <1>5 DEF Forgets

Plain ==
  BindEnds \/ PersistAll \/ Ensure \/ RemovalBegins \/ RemovalBegun \/ RemovalAborted
  \/ Retired \/ RemovalEnds

LEMMA PlainFacts ==
  ASSUME Base, Fit, Plain
  PROVE  /\ OpStep /\ Run.kind # "set" /\ (Keeps \/ Forgets \/ Renews)
         /\ ws'.project = ws.project \/ ws'.project \notin Project
         /\ disk'.sessions = disk.sessions
         /\ (sess' = sess /\ stq' = stq) \/ Save(Op, NoSession)
         /\ disk'.project = disk.project \/ (disk'.project \notin Project /\ ws'.project \notin Project)
         /\ ~Switching'
<1>0. OpStep /\ Run.kind # "set" /\ ws \in Memory /\ disk \in Disk /\ Types /\ Gens /\ Operations
  <2>1. Operations
    BY DEF Plain, Operations
  <2>2. Run.kind # "set"
    BY DEF Plain, BindEnds, PersistAll, Ensure, RemovalBegins, RemovalBegun, RemovalAborted, Retired,
           RemovalEnds, Running, Run
  <2> QED
    BY <2>1, <2>2, OperationSteps DEF Base, Types
<1>1. ~Switching /\ ~Switching'
  BY <1>0, NoSwitch
<1>2. CASE BindEnds \/ RemovalBegun
  BY <1>0, <1>1, <1>2 DEF BindEnds, RemovalBegun, Keeps
<1>3. CASE PersistAll
  <2>1. ws' = ws /\ sess' = sess /\ stq' = stq
    BY <1>3 DEF PersistAll
  <2>2. ws.project \in Project => disk.project = ws.project
    BY <1>1 DEF Fit, Switching, Storing
  <2>3. disk' = [disk EXCEPT !.project = ws.project] \/ disk' = disk
    BY <1>3 DEF PersistAll
  <2>4. disk'.sessions = disk.sessions /\ disk'.project \in {disk.project, ws.project}
    BY <1>0, <2>3 DEF Disk
  <2> QED
    BY <1>0, <1>1, <2>1, <2>2, <2>4 DEF Keeps
<1>4. CASE Ensure
  <2> DEFINE b == Bump(ws)
             fresh == [b EXCEPT !.project = None, !.unconfirmed = TRUE, !.inc = ws.nextInc,
                                !.nextInc = b.nextInc + 1]
             mine == [ws EXCEPT !.nextGen = ws.nextGen + 1, !.nextInc = ws.nextInc + 1]
  <2>1. b \in Memory /\ b.gen = ws.nextGen
    BY <1>0, Bumps
  <2>2. \/ ws' = ws /\ disk' = disk
        \/ ws' = fresh /\ disk' = [disk EXCEPT !.project = None]
        \/ ws' = mine /\ ws.project = Absent /\ disk' = disk
    BY <1>4 DEF Ensure
  <2> HIDE DEF b
  <2>3. fresh.gen = ws.nextGen /\ fresh.project = None
    BY <2>1 DEF Memory
  <2>4. mine.project = ws.project
    BY <1>0 DEF Memory
  <2>5. sess' = sess /\ stq' = stq
    BY <1>4 DEF Ensure
  <2> HIDE DEF fresh, mine
  <2>6. /\ disk'.sessions = disk.sessions
        /\ disk'.project = disk.project \/ (disk'.project = None /\ ws' = fresh)
    BY <1>0, <2>2 DEF Disk
  <2> QED
    BY <1>0, <1>1, <2>2, <2>3, <2>4, <2>5, <2>6, Names DEF Keeps, Forgets, Renews
<1>5. CASE RemovalBegins
  <2> DEFINE b == Bump(ws)
             w == [b EXCEPT !.removing = TRUE, !.removal = ws.inc]
  <2>1. b \in Memory /\ b.gen = ws.nextGen /\ b.project = ws.project
    BY <1>0, Bumps
  <2>2. ws' = w /\ Save(Op, NoSession) /\ disk' = disk
    BY <1>5 DEF RemovalBegins
  <2> HIDE DEF b
  <2>3. w.gen = ws.nextGen /\ w.project = ws.project
    BY <2>1 DEF Memory
  <2> QED
    BY <1>0, <1>1, <2>2, <2>3 DEF Renews
<1>6. CASE RemovalAborted
  <2> DEFINE b == Bump(ws)
             w == [b EXCEPT !.removing = FALSE]
  <2>1. b \in Memory /\ b.gen = ws.nextGen /\ b.project = ws.project
    BY <1>0, Bumps
  <2>2. (ws' = w \/ ws' = ws) /\ sess' = sess /\ stq' = stq /\ disk' = disk
    BY <1>6 DEF RemovalAborted
  <2> HIDE DEF b
  <2>3. w.gen = ws.nextGen /\ w.project = ws.project
    BY <2>1 DEF Memory
  <2> HIDE DEF w
  <2> QED
    BY <1>0, <1>1, <2>2, <2>3 DEF Renews, Keeps
<1>7. CASE (Retired \/ RemovalEnds) /\ Retire
  <2>1. Forgets /\ disk'.sessions = disk.sessions /\ disk'.project \in {disk.project, Absent}
    BY <1>7, RetireFacts
  <2>2. sess' = sess /\ stq' = stq
    BY <1>7 DEF Retired, RemovalEnds
  <2> QED
    BY <1>0, <1>1, <2>1, <2>2, Names DEF Forgets
<1>8. CASE RemovalEnds /\ ~Retire
  <2>1. ws' = [ws EXCEPT !.removing = FALSE] /\ disk' = disk /\ sess' = sess /\ stq' = stq
    BY <1>8 DEF RemovalEnds
  <2>2. ws'.project = ws.project /\ ws'.gen = ws.gen
    BY <1>0, <2>1 DEF Memory
  <2> QED
    BY <1>0, <1>1, <2>1, <2>2 DEF Keeps
<1> QED
  BY <1>2, <1>3, <1>4, <1>5, <1>6, <1>7, <1>8 DEF Plain, Retired

LEMMA PlainUsual ==
  ASSUME Base, Fit, Plain
  PROVE  Usual
<1>1. ~Storing
  BY PlainFacts, NoSwitch DEF Switching, Storing
<1> QED
  BY <1>1, PlainFacts, OpUsual

-----------------------------------------------------------------------------
(* What a turn has read, and what a caller has chosen                        *)

\* The generation that turn t has read is still that of the bot.
Present(t) == at[t].gen = ws.gen /\ ws.project # Absent
Held == {"create", "keep", "probe", "save", "ask"}
Reads(t) ==
  /\ at[t].pc \in {"create", "keep"} =>
       at[t].row \in Project /\ (Present(t) => ws.project = at[t].row)
  /\ at[t].pc = "keep" => InProject(host.of, at[t].session, at[t].row)
  /\ at[t].pc \in {"probe", "save", "ask"} /\ Present(t) /\ ws.project \in Project =>
       InProject(host.of, at[t].session, ws.project)
  /\ at[t].pc \in Held /\ Present(t) => ~Switching
  /\ at[t].pc = "adopted" => at[t].session \in 1..Len(host.of)
Choices == \A c \in Caller : at[c].pc \in {"choose", "items"} => at[c].row \in Project

SessionsInv == Fit /\ Switch /\ Orders /\ Choices /\ \A t \in Turn : Reads(t)

LEMMA CurrentPresent ==
  ASSUME NEW t, CurrentSession(t)
  PROVE  Present(t)
  BY DEF CurrentSession, Current, Has, Present

LEMMA KeepFits ==
  ASSUME Base, SessionsInv, NEW t \in Turn, Keep(t), CurrentSession(t)
  PROVE  Fit' /\ Switch'
<1>0. t \in Caller /\ at[t] \in Task /\ at[t].pc = "keep"
  BY Names DEF Base, Types, Keep
<1>1. Present(t) /\ Reads(t) /\ Fit /\ Switch
  BY CurrentPresent DEF SessionsInv
<1>2. /\ ws.project \in Project /\ InProject(host.of, at[t].session, ws.project) /\ ~Switching
      /\ at[t].key \in Key /\ at[t].session \in 0..MaxSessions
  BY <1>0, <1>1 DEF Reads, Task, Held
<1>3. /\ Save(t, [sess EXCEPT ![at[t].key] = at[t].session])
      /\ host' = host /\ disk' = disk /\ ws' = ws /\ ops' = ops
  BY DEF Keep, Quiet
<1>4. ~Switching'
  BY <1>2, <1>3 DEF Switching, Running
<1> QED
  BY <1>0, <1>1, <1>2, <1>3, <1>4, KeepsFit

LEMMA StutterFits ==
  ASSUME Fit, Switch, host'.of = host.of, UNCHANGED <<ws, ops, sess, stq, bad, disk>>
  PROVE  Fit' /\ Switch'
  BY DEF Fit, Switch, Switching, Clearing, Storing, Running, Run, AllClear, ClearOnItsWay

LEMMA FitKept ==
  ASSUME Base, Runtime, SessionsInv, Kinds
  PROVE  Fit' /\ Switch'
<1>0. Fit /\ Switch /\ Orders
  BY DEF SessionsInv
<1>1. ASSUME NEW c \in Turn \cup {Other}, ByChat(c) PROVE Fit' /\ Switch'
  BY <1>0, <1>1, ChatUsual, KeepFits, UsualFit, UsualSwitch
<1>2. ASSUME NEW r \in Request, ByPage(r) PROVE Fit' /\ Switch'
  BY <1>0, <1>2, PageUsual, CleaningFits, UsualFit, UsualSwitch
<1>3. ASSUME Operations PROVE Fit' /\ Switch'
  <2>1. CASE SetBegins
    BY <1>0, <2>1, SetBeginsFits, UsualFit, UsualSwitch
  <2>2. CASE SetCleared
    BY <1>0, <2>2, SetClearedFits, UsualFit, UsualSwitch
  <2>3. CASE SetPersists
    BY <1>0, <2>3, SetPersistsFits
  <2>4. CASE BindBegins
    BY <1>0, <2>4, BindBeginsFits
  <2>5. CASE Plain
    BY <1>0, <2>5, PlainUsual, UsualFit, UsualSwitch
  <2> QED
    BY <1>3, <2>1, <2>2, <2>3, <2>4, <2>5 DEF Operations, Plain
<1>4. CASE WriteState
  BY <1>0, <1>4, WriteFits
<1>5. CASE CrashRestart
  BY <1>0, <1>5, CrashFits
<1>6. CASE DeleteProject
  BY <1>0, <1>6, DeleteBase, StutterFits
<1>7. CASE UNCHANGED vars
  BY <1>0, <1>7, StutterFits DEF vars
<1> QED
  BY <1>1, <1>2, <1>3, <1>4, <1>5, <1>6, <1>7 DEF Kinds, ByQueue

-----------------------------------------------------------------------------
(* A step that leaves a turn alone leaves it with what it has read           *)

Fences ==
  \/ ws'.gen = ws.nextGen
  \/ ws'.project = Absent
  \/ ws'.gen = ws.gen /\ ws'.project = ws.project /\ (Switching' => Switching)
  \/ ws'.gen = ws.gen /\ Switching /\ ws.project # Absent

LEMMA ReadStays ==
  ASSUME Base, NEW t \in Turn, Reads(t), at'[t] = at[t], Grows, Fences
  PROVE  Reads(t)'
<1>0. at[t].gen < ws.nextGen /\ at[t].gen \in Nat /\ ws.nextGen \in Nat
  BY Names DEF Base, Gens, Types, Task, Memory
<1>1. at[t].pc \in {"create", "keep"} => at[t].row \in Project
  BY DEF Reads
<1>2. at[t].pc = "keep" => InProject(host'.of, at[t].session, at[t].row)
  BY GrownIn DEF Reads
<1>3. at[t].pc = "adopted" => at[t].session \in 1..Len(host'.of)
  BY DEF Reads, Grows
<1>4. ASSUME at[t].pc \in Held, Present(t)'
      PROVE  Present(t) /\ ws'.project = ws.project /\ ~Switching'
  <2>1. ws'.gen = at[t].gen /\ ws'.project # Absent
    BY <1>4 DEF Present
  <2>2. /\ ws'.gen = ws.gen
        /\ \/ ws'.project = ws.project /\ (Switching' => Switching)
           \/ Switching /\ ws.project # Absent
    BY <1>0, <2>1 DEF Fences
  <2>3. Present(t)
    BY <2>1, <2>2 DEF Present
  <2>4. ~Switching
    BY <1>4, <2>3 DEF Reads
  <2> QED
    BY <2>2, <2>3, <2>4
<1>5. at[t].pc \in {"create", "keep"} /\ Present(t)' => ws'.project = at[t].row
  BY <1>4 DEF Reads, Held
<1>6. at[t].pc \in {"probe", "save", "ask"} /\ Present(t)' /\ ws'.project \in Project =>
        InProject(host'.of, at[t].session, ws'.project)
  BY <1>4, GrownIn DEF Reads, Held
<1>7. at[t].pc \in Held /\ Present(t)' => ~Switching'
  BY <1>4
<1> QED
  BY <1>1, <1>2, <1>3, <1>5, <1>6, <1>7 DEF Reads

LEMMA NothingRead ==
  ASSUME NEW t, at'[t].pc \notin Reading \ {"items"}
  PROVE  Reads(t)'
  BY DEF Reads, Reading, Held

LEMMA FencesOfOperations ==
  ASSUME Base, Runtime, SessionsInv, Operations
  PROVE  Fences
<1>0. Fit /\ Switch /\ Orders /\ OpStep /\ Types /\ Gens /\ ws \in Memory
  BY OperationSteps DEF SessionsInv, Base, Types
<1>1. CASE SetBegins
  <2>1. CASE ws' = Bump(ws)
    BY <1>0, <2>1, Bumps DEF Fences
  <2>2. CASE (ws' = ws \/ ws' = Confirmed(ws)) /\ (EndFails \/ End(Woken(at))) /\ Run.kind = "set" /\ ops # <<>>
    <3>1. Leaves
      BY <2>2, Ends, Wokens, EndsBadly, <1>0
    <3>2. ~Switching'
      BY <1>0, <3>1, QueueMoves
    <3> QED
      BY <1>0, <2>2, <3>2, Generations DEF Fences
  <2> QED
    BY <1>1, <2>1, <2>2 DEF SetBegins, Running, Run
<1>2. CASE SetCleared
  <2>1. CASE Changes
    <3>1. ws' = [ws EXCEPT !.project = Run.row] /\ Switching
      BY <2>1 DEF Changes, Switching, Clearing
    <3>2. ws'.gen = ws.gen
      BY <1>0, <3>1 DEF Memory
    <3> QED
      BY <3>1, <3>2 DEF Fences, Runtime, Setting
  <2>2. CASE ws' = ws /\ ~Switching'
    BY <2>2 DEF Fences
  <2> QED
    BY <1>0, <1>2, <2>1, <2>2, SetClearedFits
<1>3. CASE SetPersists
  BY <1>0, <1>3, SetPersistsFits DEF Fences, Runtime, Setting
<1>4. CASE BindBegins
  BY <1>0, <1>4, BindBeginsFits DEF Fences
<1>5. CASE Plain
  BY <1>0, <1>5, PlainFacts DEF Fences, Keeps, Forgets, Renews
<1> QED
  BY <1>1, <1>2, <1>3, <1>4, <1>5 DEF Operations, Plain

-----------------------------------------------------------------------------
(* What a turn reads is of the project                                       *)

LEMMA ResolveReads ==
  ASSUME Base, SessionsInv, NEW t \in Turn, Resolve(t)
  PROVE  Reads(t)'
<1>0. /\ at'[t].pc \in {"fetch", "probe"} /\ at[t].key \in Key /\ Fit /\ Switch
      /\ at'[t].pc = "probe" => at'[t].session = sess[at[t].key] /\ at'[t].session # 0
      /\ ws' = ws /\ ops' = ops /\ host' = host
  BY ChatResolve, Names DEF Base, Types, Task, SessionsInv, Resolve, Quiet
<1>1. CASE at'[t].pc = "fetch"
  BY <1>1, NothingRead DEF Reading
<1>2. CASE at'[t].pc = "probe"
  <2>1. ws.project \in Project => InProject(host.of, at'[t].session, ws.project)
    BY <1>0, <1>2 DEF Fit, OfProject
  <2>2. ~Switching
    BY <1>0, <1>2 DEF Switch, NoSession
  <2>3. ~Switching'
    BY <1>0, <2>2 DEF Switching, Running
  <2> QED
    BY <1>0, <1>2, <2>1, <2>3 DEF Reads, Held
<1> QED
  BY <1>0, <1>1, <1>2

LEMMA CreateReads ==
  ASSUME Base, SessionsInv, NEW t \in Turn, Create(t)
  PROVE  Reads(t)'
<1>0. /\ at'[t].pc \in {"create", "ended"}
      /\ at'[t].pc = "create" => ws.project \in Project /\ at'[t].row = ws.project
      /\ ws' = ws /\ ops' = ops
      /\ \A i \in DOMAIN ops : ops[i].kind = "persist"
  BY ChatCreate DEF Create, Quiet
<1>1. CASE at'[t].pc = "ended"
  BY <1>1, NothingRead DEF Reading
<1>2. CASE at'[t].pc = "create"
  <2>1. ops = <<>> \/ Head(ops).kind = "persist"
    <3>1. ops # <<>> => Head(ops) = ops[1] /\ 1 \in DOMAIN ops
      BY Shorter, LenProperties DEF Base, Types
    <3> QED
      BY <1>0, <3>1
  <2>2. ~Switching'
    BY <1>0, <2>1 DEF Switching, Running
  <2> QED
    BY <1>0, <1>2, <2>2 DEF Reads, Held
<1> QED
  BY <1>0, <1>1, <1>2

LEMMA CreatedReads ==
  ASSUME Base, SessionsInv, NEW t \in Turn, Created(t)
  PROVE  Reads(t)'
<1>0. Reads(t) /\ at[t].pc = "create" /\ ws' = ws /\ ops' = ops
  BY DEF SessionsInv, Created
<1>1. at[t].row \in Project /\ (Present(t) => ws.project = at[t].row) /\ (Present(t) => ~Switching)
  BY <1>0 DEF Reads, Held
<1>2. /\ at'[t].pc \in {"keep", "ended"}
      /\ at'[t].pc = "keep" =>
           /\ at'[t].row = at[t].row /\ at'[t].gen = at[t].gen
           /\ at'[t].session = Len(host.of) + 1 /\ host'.of = Append(host.of, at[t].row)
  BY <1>1, ChatCreated
<1>3. CASE at'[t].pc = "ended"
  BY <1>3, NothingRead DEF Reading
<1>4. CASE at'[t].pc = "keep"
  <2>1. host.of \in Seq(Project) /\ Len(host.of) \in Nat
    BY LenProperties DEF Base, Types, Host
  <2>2. /\ Len(host'.of) = Len(host.of) + 1
        /\ host'.of[Len(host.of) + 1] = at[t].row
    BY <1>1, <1>2, <1>4, <2>1, Joined
  <2>3. InProject(host'.of, at'[t].session, at'[t].row)
    BY <1>2, <1>4, <2>1, <2>2 DEF InProject
  <2>4. Present(t)' => Present(t)
    BY <1>0, <1>2, <1>4 DEF Present
  <2>5. Switching' => Switching
    BY <1>0 DEF Switching, Running
  <2> QED
    BY <1>0, <1>1, <1>2, <1>4, <2>3, <2>4, <2>5 DEF Reads
<1> QED
  BY <1>2, <1>3, <1>4

\* From one place to the next with the same session and generation.
LEMMA ReadsOn ==
  ASSUME SessionsInv, NEW t \in Turn, ws' = ws, ops' = ops, host' = host,
         at[t].pc \in Held, at'[t].gen = at[t].gen, at'[t].session = at[t].session,
         at'[t].pc \in {"save", "ask"},
         Present(t) /\ ws.project \in Project => InProject(host.of, at[t].session, ws.project)
  PROVE  Reads(t)'
<1>1. Reads(t)
  BY DEF SessionsInv
<1>2. Present(t)' => Present(t)
  BY DEF Present
<1>3. Switching' => Switching
  BY DEF Switching, Running
<1> QED
  BY <1>1, <1>2, <1>3 DEF Reads

LEMMA ProbeReads ==
  ASSUME Base, SessionsInv, NEW t \in Turn, Probe(t)
  PROVE  Reads(t)'
<1>0. /\ at'[t].pc \in {"fetch", "ask"} /\ at'[t].gen = at[t].gen /\ at'[t].session = at[t].session
      /\ Reads(t) /\ at[t].pc = "probe" /\ ws' = ws /\ ops' = ops /\ host' = host
  BY ChatProbe DEF SessionsInv, Probe, Quiet
<1>1. CASE at'[t].pc = "fetch"
  BY <1>1, NothingRead DEF Reading
<1>2. CASE at'[t].pc = "ask"
  <2>1. Present(t) /\ ws.project \in Project => InProject(host.of, at[t].session, ws.project)
    BY <1>0 DEF Reads
  <2> QED
    BY <1>0, <1>2, <2>1, ReadsOn DEF Held
<1> QED
  BY <1>0, <1>1, <1>2

LEMMA KeepReads ==
  ASSUME Base, SessionsInv, NEW t \in Turn, Keep(t)
  PROVE  Reads(t)'
<1>0. /\ at'[t].pc \in {"fetch", "save"} /\ Reads(t) /\ at[t].pc = "keep"
      /\ at'[t].pc = "save" => at'[t].gen = at[t].gen /\ at'[t].session = at[t].session
      /\ ws' = ws /\ ops' = ops /\ host' = host
  BY ChatKeep DEF SessionsInv, Keep, Quiet
<1>1. CASE at'[t].pc = "fetch"
  BY <1>1, NothingRead DEF Reading
<1>2. CASE at'[t].pc = "save"
  <2>1. Present(t) /\ ws.project \in Project => InProject(host.of, at[t].session, ws.project)
    BY <1>0 DEF Reads
  <2> QED
    BY <1>0, <1>2, <2>1, ReadsOn DEF Held
<1> QED
  BY <1>0, <1>1, <1>2

LEMMA KeptReads ==
  ASSUME Base, SessionsInv, NEW t \in Turn, Kept(t)
  PROVE  Reads(t)'
<1>0. /\ at'[t].pc \in {"ask", "ended"} /\ Reads(t) /\ at[t].pc = "save"
      /\ at'[t].pc = "ask" => at'[t].gen = at[t].gen /\ at'[t].session = at[t].session
      /\ ws' = ws /\ ops' = ops /\ host' = host
  BY ChatKept DEF SessionsInv, Kept, Quiet
<1>1. CASE at'[t].pc = "ended"
  BY <1>1, NothingRead DEF Reading
<1>2. CASE at'[t].pc = "ask"
  <2>1. Present(t) /\ ws.project \in Project => InProject(host.of, at[t].session, ws.project)
    BY <1>0 DEF Reads
  <2> QED
    BY <1>0, <1>2, <2>1, ReadsOn DEF Held
<1> QED
  BY <1>0, <1>1, <1>2

LEMMA AdoptReads ==
  ASSUME Base, NEW t \in Turn, Adopt(t)
  PROVE  Reads(t)'
<1>0. /\ at'[t].pc \in {"adopted", "ended"} /\ host' = host
      /\ at'[t].pc = "adopted" => at'[t].session \in 1..Len(host.of)
  BY ChatAdopt DEF Adopt, Quiet
<1> QED
  BY <1>0 DEF Reads, Held

LEMMA ChatReads ==
  ASSUME Base, SessionsInv, NEW t \in Turn, ChatActions(t)
  PROVE  Reads(t)'
<1>0. t \in Caller \ Request
  BY Names
<1>1. CASE Message(t)
  BY <1>1, ChatMessage, NothingRead DEF Reading
<1>2. CASE Reconcile(t)
  BY <1>0, <1>2, Reconciled, NothingRead
<1>3. CASE SetProject(t)
  BY <1>3, ChatSwitches, NothingRead DEF Reading
<1>4. CASE Ask(t)
  BY <1>4, ChatAsk, NothingRead DEF Reading
<1>5. CASE Adopted(t)
  BY <1>5, ChatAdopted, NothingRead DEF Reading
<1> QED
  BY <1>1, <1>2, <1>3, <1>4, <1>5, ResolveReads, ProbeReads, CreateReads, CreatedReads, KeepReads,
     KeptReads, AdoptReads DEF ChatActions, Chat

\* An operation leaves nobody where something has been read.
LEMMA OperationReads ==
  ASSUME Base, Runtime, SessionsInv, Operations, NEW t \in Turn
  PROVE  Reads(t)'
<1>0. OpStep /\ t \in Caller \ Request /\ Reads(t) /\ Fences
  BY OperationSteps, FencesOfOperations, Names DEF SessionsInv
<1>1. Grows
  BY <1>0, NoGrowth DEF OpStep
<1>2. CASE at'[t] = at[t]
  BY <1>0, <1>1, <1>2, ReadStays
<1>3. CASE at'[t] # at[t]
  <2>1. at'[t].pc \notin Reading
    <3>1. CASE Wakes(at', t)
      BY <1>3, <3>1 DEF Wakes, Reading
    <3>2. CASE Leaves /\ t = Run.by
      BY <1>0, <3>2 DEF Leaves, Reading
    <3> QED
      BY <1>0, <3>1, <3>2 DEF OpStep, Leaves, Proceeds, WakesAll
  <2> QED
    BY <2>1, NothingRead
<1> QED
  BY <1>2, <1>3

LEMMA ReadsKept ==
  ASSUME Base, Runtime, SessionsInv, Kinds, NEW t \in Turn
  PROVE  Reads(t)'
<1>0. Reads(t) /\ t \in Caller \ Request /\ Types /\ Gens
  BY Names DEF SessionsInv, Base
<1>1. ASSUME NEW c \in Turn \cup {Other}, ByChat(c) PROVE Reads(t)'
  <2>1. CASE c = t
    BY <1>1, <2>1, ChatReads, Names DEF ByChat
  <2>2. CASE c # t
    <3>1. ChatStep(c)
      BY <1>1 DEF ByChat
    <3>2. at'[t] = at[t]
      BY <1>0, <2>2, <3>1 DEF ChatStep, Others
    <3>3. Grows
      <4>1. CASE host' = host
        BY <4>1, NoGrowth
      <4> QED
        BY <3>1, <4>1, CreatesGrow DEF ChatStep
    <3>4. Fences
      <4>1. Switching' => Switching
        BY <3>1, AsksQueue DEF ChatStep
      <4>2. CASE ws' = ws
        BY <4>1, <4>2 DEF Fences
      <4>3. CASE Unbinds
        BY <1>0, <4>3, UnbindFacts DEF Fences
      <4> QED
        BY <3>1, <4>2, <4>3 DEF ChatStep
    <3> QED
      BY <1>0, <3>2, <3>3, <3>4, ReadStays
  <2> QED
    BY <2>1, <2>2
<1>2. ASSUME NEW r \in Request, ByPage(r) PROVE Reads(t)'
  <2>1. RequestStep(r)
    BY <1>2 DEF ByPage
  <2>2. at'[t] = at[t] /\ host' = host /\ ws' = ws
    BY <1>0, <2>1, TurnsOfPage DEF RequestStep
  <2>3. Grows
    BY <2>2, NoGrowth
  <2>4. Fences
    BY <2>1, <2>2, AsksQueue DEF Fences, RequestStep
  <2> QED
    BY <1>0, <2>2, <2>3, <2>4, ReadStays
<1>3. CASE Operations
  BY <1>3, OperationReads
<1>4. CASE WriteState \/ DeleteProject \/ UNCHANGED vars
  <2>1. host'.of = host.of /\ ws' = ws /\ ops' = ops /\ at' = at
    BY <1>4, WriteBase, DeleteBase DEF vars
  <2>2. Grows
    BY <2>1, NoGrowth
  <2>3. Fences
    BY <2>1 DEF Fences, Switching, Running
  <2> QED
    BY <1>0, <2>1, <2>2, <2>3, ReadStays
<1>5. CASE CrashRestart
  <2>1. at'[t].pc \in {"idle", "asked", "ended"}
    <3>1. \/ at[t].pc \in {"idle", "asked"} /\ at'[t] = at[t]
          \/ at'[t] = Ended("ended")
      BY <1>0, <1>5, CrashBase
    <3> QED
      BY <1>0, <3>1, IdleTyped DEF PC
  <2> QED
    BY <2>1, NothingRead DEF Reading
<1> QED
  BY <1>1, <1>2, <1>3, <1>4, <1>5 DEF Kinds, ByQueue

-----------------------------------------------------------------------------
(* What is chosen and queued is a project                                    *)

LEMMA JoinsOrders ==
  ASSUME Base, SessionsInv, NEW c \in Caller, NEW kinds, Asks(c, kinds), Grows,
         at[c].pc = "adopted" /\ "bind" \in kinds => c \in Turn
  PROVE  Orders'
<1>0. /\ ops \in Seq(Operation) /\ Len(ops) \in Nat /\ host.of \in Seq(Project) /\ Orders /\ Choices
      /\ at[c].pc = "adopted" /\ "bind" \in kinds => at[c].session \in 1..Len(host.of)
  BY LenProperties DEF Base, Types, Host, SessionsInv, Reads
<1>1. \A i \in 1..Len(ops) : ops[i].kind = "bind" => InProject(host'.of, ops[i].session, ops[i].row)
  BY <1>0, GrownIn DEF Orders
<1>2. CASE ops' = ops
  BY <1>0, <1>1, <1>2 DEF Orders
<1>3. ASSUME NEW o \in Operation, ops' = Append(ops, o), o.kind \in kinds,
             o.kind = "set" => at[c].pc = "items" /\ o.row = at[c].row,
             o.kind = "bind" => /\ at[c].pc = "adopted" /\ o.session = at[c].session
                                /\ o.row = host.of[o.session]
      PROVE  Orders'
  <2>1. /\ Len(ops') = Len(ops) + 1 /\ \A i \in 1..Len(ops) : ops'[i] = ops[i]
        /\ ops'[Len(ops) + 1] = o
    BY <1>0, <1>3, Joined
  <2>2. o.kind = "set" => o.row \in Project
    BY <1>0, <1>3 DEF Choices
  <2>3. o.kind = "bind" => o.row \in Project /\ InProject(host.of, o.session, o.row)
    BY <1>0, <1>3, ElementOfSeq DEF InProject
  <2>4. o.kind = "bind" => InProject(host'.of, o.session, o.row)
    BY <2>3, GrownIn
  <2>5. \A i \in 1..Len(ops') : i \in 1..Len(ops) \/ i = Len(ops) + 1
    BY <1>0, <2>1
  <2> QED
    BY <1>0, <1>1, <2>1, <2>2, <2>3, <2>4, <2>5 DEF Orders
<1> QED
  BY <1>2, <1>3 DEF Asks

LEMMA OrdersKept ==
  ASSUME Base, SessionsInv, Kinds
  PROVE  Orders'
<1>0. Orders
  BY DEF SessionsInv
<1>1. ASSUME NEW c \in Turn \cup {Other}, ByChat(c) PROVE Orders'
  <2>1. c \in Caller /\ ChatStep(c)
    BY <1>1, Names DEF ByChat
  <2>2. Grows
    <3>1. CASE host' = host
      BY <3>1, NoGrowth
    <3> QED
      BY <2>1, <3>1, CreatesGrow DEF ChatStep
  <2>3. at[c].pc = "adopted" => c \in Turn
    <3>1. c = Other => at[c].pc \in {"fetch", "apply", "state", "clear", "idle", "leave"}
      BY <1>1, Names DEF ByChat, Reconcile, Fetch, Apply, ClearForPage, Cleared, OtherStarts, OtherEnds
    <3> QED
      BY <3>1
  <2> QED
    BY <2>1, <2>2, <2>3, JoinsOrders DEF ChatStep
<1>2. ASSUME NEW r \in Request, ByPage(r) PROVE Orders'
  <2>1. r \in Caller /\ RequestStep(r)
    BY <1>2, Names DEF ByPage
  <2>2. Grows
    BY <2>1, NoGrowth DEF RequestStep
  <2>3. "bind" \notin PageKinds
    BY DEF PageKinds
  <2> QED
    BY <2>1, <2>2, <2>3, JoinsOrders DEF RequestStep
<1>3. CASE Operations
  <2>1. OpStep /\ host' = host
    BY <1>3, OperationSteps DEF OpStep
  <2>2. CASE /\ Len(ops') = Len(ops) /\ ops'[1].row = Run.row /\ ops'[1].session = Run.session
             /\ \A i \in 1..Len(ops) : ops'[i].kind = ops[i].kind
             /\ \A i \in 1..Len(ops) : i # 1 => ops'[i] = ops[i]
    <3>1. \A i \in 1..Len(ops') : /\ i \in 1..Len(ops) /\ ops'[i].kind = ops[i].kind
                                  /\ ops'[i].row = ops[i].row /\ ops'[i].session = ops[i].session
      BY <2>1, <2>2, QueueMoves
    <3> QED
      BY <1>0, <2>1, <3>1 DEF Orders
  <2>3. CASE \A i \in 1..Len(ops') : i + 1 \in 1..Len(ops) /\ ops'[i] = ops[i + 1]
    BY <1>0, <2>1, <2>3 DEF Orders
  <2> QED
    BY <2>1, <2>2, <2>3, QueueMoves
<1>4. CASE WriteState \/ DeleteProject \/ UNCHANGED vars
  <2>1. host'.of = host.of /\ ops' = ops
    BY <1>4, WriteBase, DeleteBase DEF vars
  <2> QED
    BY <1>0, <2>1 DEF Orders
<1>5. CASE CrashRestart
  <2>1. Len(ops') = 0
    BY <1>5, CrashBase, EmptySeq
  <2> QED
    BY <2>1 DEF Orders
<1> QED
  BY <1>1, <1>2, <1>3, <1>4, <1>5 DEF Kinds, ByQueue

\* Where a step of the settings page puts its request.
LEMMA PageChoices ==
  ASSUME Base, SessionsInv, NEW r \in Request, ByPage(r), at'[r].pc \in {"choose", "items"}
  PROVE  at'[r].row \in Project
<1>0. r \in Caller /\ at[r] \in Task /\ at \in [Caller -> Task] /\ Types
  BY Names DEF Base, Types
<1>1. CASE Invoke(r)
  BY <1>1, RequestInvoke
<1>2. ASSUME NEW p, Go(r, p) PROVE at'[r].pc = p /\ at'[r].row = at[r].row
  BY <1>0, <1>2 DEF Go, Task
<1>3. ASSUME at' = Failed(r) PROVE FALSE
  BY <1>0, <1>3, Fails DEF Went
<1>4. CASE Choose(r)
  <2>1. at[r].row \in Project
    BY <1>0, <1>4 DEF Choose, SessionsInv, Choices
  <2>2. \E p : Go(r, p)
    BY <1>4 DEF Choose
  <2> QED
    BY <1>2, <2>1, <2>2
<1>5. CASE SetProject(r)
  BY <1>2, <1>3, <1>5 DEF SetProject
<1>6. CASE Delete(r)
  BY <1>2, <1>6 DEF Delete
<1>7. CASE Known(r)
  <2>1. Go(r, "stop") \/ Go(r, "unsafe")
    BY <1>7 DEF Known
  <2> QED
    BY <1>2, <2>1
<1>8. CASE StopRuntime(r)
  <2>1. Go(r, "commit") \/ Go(r, "config")
    BY <1>8 DEF StopRuntime
  <2> QED
    BY <1>2, <2>1
<1>9. CASE Commit(r) \/ Cleanup(r) \/ CleanedUp(r) \/ DeleteFails(r) \/ SaveConfig(r)
  <2>1. Go(r, "retiring") \/ Go(r, "ensuring") \/ Go(r, "cleaning") \/ Go(r, "finishing") \/ Go(r, "fail")
    BY <1>9 DEF Commit, Cleanup, CleanedUp, DeleteFails, SaveConfig
  <2> QED
    BY <1>2, <2>1
<1>10. CASE StartRuntime(r)
  <2>1. Go(r, "leave") \/ Go(r, "unsafe")
    BY <1>10 DEF StartRuntime
  <2> QED
    BY <1>2, <2>1
<1>11. CASE Leave(r)
  <2>1. CASE Go(r, "unsafe")
    BY <1>2, <2>1
  <2>2. CASE at' = [at EXCEPT ![r] = Ended("ended")]
    <3>1. at'[r].pc = "ended"
      BY <1>0, <2>2, IdleTyped DEF PC
    <3> QED
      BY <3>1
  <2> QED
    BY <1>11, <2>1, <2>2 DEF Leave
<1> QED
  BY <1>1, <1>4, <1>5, <1>6, <1>7, <1>8, <1>9, <1>10, <1>11 DEF ByPage, Settings

LEMMA ChatChoices ==
  ASSUME Base, Rows, NEW c \in Turn \cup {Other}, ByChat(c), at'[c].pc \in {"choose", "items"}
  PROVE  at'[c].row \in Project
<1>0. c \in Caller \ Request /\ at'[c].pc \in ChatPC
  BY Names DEF ByChat, ChatStep
<1>1. at'[c].pc = "items"
  BY <1>0 DEF ChatPC, Waiting
<1>2. CASE Reconcile(c)
  BY <1>0, <1>1, <1>2, Reconciled DEF Reading
<1>3. CASE c = Other /\ (OtherStarts \/ OtherEnds)
  <2>1. at' = [at EXCEPT ![c].pc = "fetch"] \/ at' = [at EXCEPT ![c] = Ended("ended")]
    BY <1>3 DEF OtherStarts, OtherEnds
  <2>2. at'[c].pc \in {"fetch", "ended"}
    BY <1>0, <2>1, IdleTyped DEF PC, Base, Types, Task
  <2> QED
    BY <1>1, <2>2
<1>4. CASE c \in Turn /\ (Message(c) \/ SetProject(c))
  BY <1>1, <1>4, ChatMessage, ChatSwitches
<1>5. CASE c \in Turn /\ (Resolve(c) \/ Probe(c) \/ Create(c))
  BY <1>1, <1>5, ChatResolve, ChatProbe, ChatCreate
<1>6. CASE c \in Turn /\ Created(c)
  <2>1. at[c].row \in Project
    BY <1>6 DEF Created, Rows
  <2> QED
    BY <1>1, <1>6, <2>1, ChatCreated
<1>7. CASE c \in Turn /\ (Keep(c) \/ Kept(c) \/ Ask(c) \/ Adopt(c) \/ Adopted(c))
  BY <1>1, <1>7, ChatKeep, ChatKept, ChatAsk, ChatAdopt, ChatAdopted
<1> QED
  BY <1>2, <1>3, <1>4, <1>5, <1>6, <1>7 DEF ByChat, ChatActions, Chat

LEMMA ChoicesKept ==
  ASSUME Base, Rows, SessionsInv, Kinds
  PROVE  Choices'
<1>0. Choices /\ Types
  BY DEF SessionsInv, Base
<1>1. ASSUME NEW c \in Turn \cup {Other}, ByChat(c) PROVE Choices'
  BY <1>0, <1>1, ChatChoices DEF ByChat, ChatStep, Others, Choices
<1>2. ASSUME NEW r \in Request, ByPage(r) PROVE Choices'
  BY <1>0, <1>2, PageChoices DEF ByPage, RequestStep, Others, Choices
<1>3. CASE Operations
  <2>1. OpStep
    BY <1>3, OperationSteps
  <2>2. ASSUME NEW c \in Caller, at'[c] # at[c] PROVE at'[c].pc \notin {"choose", "items"}
    <3>1. CASE Wakes(at', c)
      BY <2>2, <3>1 DEF Wakes
    <3>2. CASE Leaves /\ c = Run.by
      <4>1. CASE c \in Request
        BY <3>2, <4>1 DEF Leaves, After
      <4>2. CASE c \notin Request
        BY <3>2, <4>2 DEF Leaves, ChatPC, Waiting
      <4> QED
        BY <4>1, <4>2
    <3> QED
      BY <2>1, <2>2, <3>1, <3>2 DEF OpStep, Leaves, Proceeds, WakesAll
  <2> QED
    BY <1>0, <2>2 DEF Choices
<1>4. CASE WriteState \/ DeleteProject \/ UNCHANGED vars
  <2>1. at' = at
    BY <1>4, WriteBase, DeleteBase DEF vars
  <2> QED
    BY <1>0, <2>1 DEF Choices
<1>5. CASE CrashRestart
  <2>1. Ended("ended").pc = "ended"
    BY <1>0, IdleTyped DEF PC
  <2> QED
    BY <1>0, <1>5, <2>1, CrashBase DEF Choices
<1> QED
  BY <1>1, <1>2, <1>3, <1>4, <1>5 DEF Kinds, ByQueue

-----------------------------------------------------------------------------
(* What holds at first, and what follows                                     *)

LEMMA SessionsBegin ==
  ASSUME Init
  PROVE  SessionsInv
<1>0. Types /\ ops = <<>> /\ stq = <<>> /\ at = [c \in Caller |-> Idle]
  BY Begins DEF Base, Init
<1>1. PICK p \in Project \cup {None}, k \in Key, known \in BOOLEAN :
        LET of == IF known /\ p # None THEN <<p>> ELSE <<>>
            sessions == [NoSession EXCEPT ![k] = Len(of)]
        IN  /\ host = [live |-> Project, of |-> of]
            /\ ws = [project |-> p, gen |-> 1, nextGen |-> 2, inc |-> 1, nextInc |-> 2,
                     removing |-> FALSE, removal |-> 0, unconfirmed |-> p = None]
            /\ disk = [configured |-> TRUE, project |-> p, sessions |-> sessions]
            /\ sess = sessions
  BY DEF Init
<1> DEFINE of == IF known /\ p # None THEN <<p>> ELSE <<>>
           sessions == [NoSession EXCEPT ![k] = Len(of)]
<1>2. host.of = of /\ ws.project = p /\ disk.project = p /\ disk.sessions = sessions /\ sess = sessions
  BY <1>1
<1>3. \A c \in Caller : at[c].pc = "idle"
  BY <1>0, IdleTyped DEF PC
<1>4. OfProject(of, sessions, p)
  <2>1. CASE of = <<p>>
    <3>1. Len(of) = 1 /\ of[1] = p
      BY <2>1
    <3>2. \A l \in Key : sessions[l] # 0 => sessions[l] = 1
      BY <3>1 DEF NoSession
    <3> QED
      BY <3>1, <3>2 DEF OfProject, InProject
  <2>2. CASE of = <<>>
    <3>1. Len(of) = 0
      BY <2>2
    <3>2. \A l \in Key : sessions[l] = 0
      BY <3>1 DEF NoSession
    <3> QED
      BY <3>2 DEF OfProject
  <2> QED
    BY <2>1, <2>2
<1> HIDE DEF of, sessions
<1>5. Len(ops) = 0 /\ Len(stq) = 0 /\ ~Switching /\ ~Clearing /\ ~Storing
  BY <1>0, EmptySeq DEF Switching, Clearing, Storing, Running
<1>6. Fit /\ Switch /\ Orders
  BY <1>2, <1>4, <1>5 DEF Fit, Switch, Orders
<1>7. Choices /\ \A t \in Turn : Reads(t)
  BY <1>3, Names DEF Choices, Reads, Held
<1> QED
  BY <1>6, <1>7 DEF SessionsInv

\* Whatever a conversation leads to, in memory, on its way to the file or stored, and
\* whatever a turn has read since the project last changed, is a session of the project
\* it is used for: for any number of projects, conversations, turns and requests.
THEOREM SessionsOfTheirProject == Spec => [](Inv /\ SessionsInv)
<1>1. Init => Inv /\ SessionsInv
  BY Begins, SessionsBegin DEF Inv
<1>2. Inv /\ SessionsInv /\ [Next]_vars => (Inv /\ SessionsInv)'
  <2> SUFFICES ASSUME Inv, SessionsInv, [Next]_vars PROVE Inv' /\ SessionsInv'
    OBVIOUS
  <2>1. Kinds /\ Base /\ Rows /\ Waiters /\ Holders /\ Runtime
    BY EveryStep DEF Inv
  <2>2. Inv'
    BY <2>1, BaseKept, WaitersKept, HoldersKept, RuntimeKept DEF Inv
  <2>3. \A t \in Turn : Reads(t)'
    BY <2>1, ReadsKept
  <2>4. SessionsInv'
    BY <2>1, <2>3, FitKept, OrdersKept, ChoicesKept DEF SessionsInv
  <2> QED
    BY <2>2, <2>4
<1> QED
  BY <1>1, <1>2, PTL DEF Spec

\* Whenever the process dies, no stored conversation leads to a session of another
\* project than the stored one (setProject, setSession of the scope).
THEOREM StoredOfStored == Spec => []StoredSessionsOfStoredProject
<1>1. Inv /\ SessionsInv => StoredSessionsOfStoredProject
  BY DEF SessionsInv, Fit, OfProject, InProject, StoredSessionsOfStoredProject
<1> QED
  BY <1>1, SessionsOfTheirProject, PTL

\* Nobody but the turn itself asks in its session.
LEMMA OnlyAsk ==
  ASSUME Inv, Kinds, NEW t \in Turn, at[t].pc = "ask", at'[t].pc = "asked"
  PROVE  CurrentSession(t)
<1>0. t \in Caller \ Request /\ Types /\ Base
  BY Names DEF Inv, Base
<1>1. ASSUME NEW c \in Turn \cup {Other}, ByChat(c) PROVE CurrentSession(t)
  <2>1. c = t
    BY <1>0, <1>1 DEF ByChat, ChatStep, Others
  <2>2. ChatActions(t) /\ t # Other
    BY <1>1, <2>1, Names DEF ByChat
  <2>3. Ask(t)
    BY <2>2 DEF ChatActions, Message, Reconcile, Fetch, Apply, ClearForPage, Cleared, SetProject, Chat,
                Resolve, Probe, Create, Created, Keep, Kept, Adopt, Adopted
  <2> QED
    BY <1>0, <2>3, ChatAsk
<1>2. ASSUME NEW r \in Request, ByPage(r) PROVE FALSE
  BY <1>0, <1>2, TurnsOfPage DEF ByPage
<1>3. CASE Operations
  <2>1. OpStep /\ Base
    BY <1>0, <1>3, OperationSteps
  <2>2. t # Run.by
    BY <1>0, <2>1, Runner DEF OpStep, Queued
  <2>3. Wakes(at', t)
    BY <1>0, <2>1, <2>2 DEF OpStep, Leaves, Proceeds, WakesAll
  <2> QED
    BY <2>3 DEF Wakes, Waiting
<1>4. CASE WriteState \/ DeleteProject \/ UNCHANGED vars
  BY <1>0, <1>4, WriteBase, DeleteBase DEF vars
<1>5. CASE CrashRestart
  <2>1. Ended("ended").pc = "ended"
    BY <1>0, IdleTyped DEF PC
  <2> QED
    BY <1>0, <1>5, <2>1, CrashBase
<1> QED
  BY <1>1, <1>2, <1>3, <1>4, <1>5 DEF Kinds, ByQueue

\* A prompt is never asked in a session of a project that the bot has left for another,
\* whatever changed while it reconciled, waited, probed, created or saved
\* (askInWorkspaceSession, the handle of workspaceSession).
THEOREM AskedInOwn == Spec => AskedInOwnProject
<1>1. Inv /\ SessionsInv /\ [Next]_vars =>
        [\A t \in Turn : at[t].pc = "ask" /\ at'[t].pc = "asked" =>
           ws.project \in {None, host.of[at[t].session]}]_vars
  <2> SUFFICES ASSUME Inv, SessionsInv, [Next]_vars, NEW t \in Turn,
                      at[t].pc = "ask", at'[t].pc = "asked"
               PROVE  ws.project \in {None, host.of[at[t].session]}
    OBVIOUS
  <2>1. Kinds
    BY EveryStep DEF Inv
  <2>2. Present(t) /\ Reads(t)
    BY <2>1, OnlyAsk, CurrentPresent DEF SessionsInv
  <2>3. ws.project # Absent /\ ws.project \in Project \cup {None, Absent}
    BY <2>2 DEF Present, Inv, Base, Types, Memory
  <2> QED
    BY <2>2, <2>3 DEF Reads, InProject
<1> QED
  BY <1>1, SessionsOfTheirProject, PTL DEF Spec, AskedInOwnProject

-----------------------------------------------------------------------------
(* A fenced bot                                                              *)

\* A bot is not fenced while its project is being changed.
Unfenced == Switching => ~ws.removing

\* The fence goes up at the head of the queue, where a change of project is not.
LEMMA UnfencedKept ==
  ASSUME Base, SessionsInv, Unfenced, Kinds
  PROVE  Unfenced'
<1>0. Types /\ Gens /\ Fit /\ Switch /\ Orders /\ ws \in Memory
  BY DEF Base, Types, SessionsInv
<1>1. ASSUME NEW c \in Turn \cup {Other}, ByChat(c) PROVE Unfenced'
  <2>1. ChatStep(c)
    BY <1>1 DEF ByChat
  <2>2. ws'.removing = ws.removing
    BY <1>0, <2>1, UnbindFacts DEF ChatStep
  <2>3. Switching' => Switching
    BY <2>1, AsksQueue DEF ChatStep
  <2> QED
    BY <2>2, <2>3 DEF Unfenced
<1>2. ASSUME NEW r \in Request, ByPage(r) PROVE Unfenced'
  BY <1>2, AsksQueue DEF ByPage, RequestStep, Unfenced
<1>3. CASE SetBegins
  <2>1. ASSUME Switches PROVE ~ws'.removing
    BY <1>0, <2>1, Bumps DEF Switches, Has
  <2> QED
    BY <1>0, <1>3, <2>1, SetBeginsFits DEF Unfenced
<1>4. CASE SetCleared
  <2>1. ASSUME Changes PROVE ~ws'.removing
    BY <1>0, <2>1 DEF Changes, Clearing, Switching, Unfenced, Memory
  <2> QED
    BY <1>0, <1>4, <2>1, SetClearedFits DEF Unfenced
<1>5. CASE SetPersists
  <2>1. OpStep /\ ops # <<>> /\ Types /\ Gens /\ Run.kind = "set"
    BY <1>0, <1>5, OpSetPersists DEF SetPersists, Running, Run
  <2>2. Leaves
    <3>1. CASE End(Woken(at))
      BY <2>1, <3>1, Ends, Wokens
    <3>2. CASE EndFails
      BY <2>1, <3>2, EndsBadly
    <3> QED
      BY <1>5, <3>1, <3>2 DEF SetPersists
  <2> QED
    BY <2>1, <2>2, QueueMoves DEF Unfenced
<1>6. CASE BindBegins
  BY <1>0, <1>6, BindBeginsFits DEF Unfenced
<1>7. CASE Plain
  BY <1>0, <1>7, PlainFacts DEF Unfenced
<1>8. CASE WriteState \/ DeleteProject \/ UNCHANGED vars
  <2>1. ws' = ws /\ ops' = ops
    BY <1>8, WriteBase, DeleteBase DEF vars
  <2> QED
    BY <2>1 DEF Unfenced, Switching, Running
<1>9. CASE CrashRestart
  <2>1. ops' = <<>>
    BY <1>9, CrashBase
  <2> QED
    BY <2>1 DEF Unfenced, Switching, Running
<1> QED
  BY <1>1, <1>2, <1>3, <1>4, <1>5, <1>6, <1>7, <1>8, <1>9 DEF Kinds, ByQueue, Operations, Plain

\* What a usual step gives the bot: nothing.
GivesNothing ==
  /\ ws'.project \in {ws.project, None, Absent}
  /\ \A k \in Key : sess'[k] \in {0, sess[k], disk.sessions[k]}

LEMMA UsualGives ==
  ASSUME Types, Types', Usual
  PROVE  GivesNothing
<1>1. ws'.project \in {ws.project, None, Absent}
  BY DEF Usual, Types, Memory
<1>2. sess' = sess \/ sess' = NoSession
  BY DEF Usual, Save
<1> QED
  BY <1>1, <1>2 DEF GivesNothing, NoSession

\* No step gives a fenced bot anything that leaves it fenced.
LEMMA ShutStep ==
  ASSUME Inv, SessionsInv, Unfenced, Kinds, Shut, Shut'
  PROVE  GivesNothing
<1>0. /\ Base /\ Runtime /\ Types /\ Types' /\ Fit /\ Switch /\ Orders /\ ws \in Memory
      /\ ws.project # Absent => ws.removing
  BY BaseKept DEF Inv, Base, Types, SessionsInv, Shut
<1>1. ~Has /\ ~Switching /\ \A c : ~CurrentSession(c)
  BY <1>0 DEF Has, Current, CurrentSession, Unfenced, Runtime, Setting
<1>2. ASSUME NEW c \in Turn \cup {Other}, ByChat(c) PROVE GivesNothing
  BY <1>0, <1>1, <1>2, ChatUsual, UsualGives
<1>3. ASSUME NEW r \in Request, ByPage(r) PROVE GivesNothing
  <2>1. CASE at[r].pc = "cleaning"
    <3>1. ws' = ws /\ (sess' = sess \/ sess' = NoSession \/ sess' = disk.sessions)
      BY <1>3 DEF ByPage, RequestStep, PageSaves, Save
    <3> QED
      BY <3>1 DEF GivesNothing, NoSession
  <2> QED
    BY <1>0, <1>3, <2>1, PageUsual, UsualGives
<1>4. CASE SetBegins
  BY <1>0, <1>1, <1>4, SetBeginsFits, UsualGives DEF Switches
<1>5. CASE SetCleared
  BY <1>0, <1>1, <1>5, SetClearedFits, UsualGives DEF Changes, Clearing, Switching
<1>6. CASE SetPersists
  BY <1>0, <1>1, <1>6, SetPersistsFits
<1>7. CASE BindBegins
  <2>1. ws' = ws /\ sess' = sess
    BY <1>1, <1>7 DEF BindBegins
  <2> QED
    BY <2>1 DEF GivesNothing
<1>8. CASE Plain
  <2>1. /\ ws'.project = ws.project \/ ws'.project \notin Project
        /\ sess' = sess \/ sess' = NoSession
    BY <1>0, <1>8, PlainFacts DEF Save
  <2>2. ws'.project \in {ws.project, None, Absent}
    BY <1>0, <2>1 DEF Types, Memory
  <2> QED
    BY <2>1, <2>2 DEF GivesNothing, NoSession
<1>9. CASE WriteState \/ DeleteProject \/ UNCHANGED vars
  <2>1. ws' = ws /\ sess' = sess
    BY <1>0, <1>9, WriteBase, DeleteBase DEF vars
  <2> QED
    BY <2>1 DEF GivesNothing
<1>10. CASE CrashRestart
  <2>1. PICK p \in Project \cup {None, Absent}, sessions \in Sessions : Loads(p, sessions)
    BY <1>0, <1>10, CrashBase
  <2>2. sess' = NoSession \/ sess' = disk.sessions
    BY <1>10 DEF CrashRestart
  <2>3. ws'.project = Absent
    BY <2>1 DEF Loads, Shut
  <2> QED
    BY <2>2, <2>3 DEF GivesNothing, NoSession
<1> QED
  BY <1>2, <1>3, <1>4, <1>5, <1>6, <1>7, <1>8, <1>9, <1>10 DEF Kinds, ByQueue, Operations, Plain

LEMMA UnfencedBegins ==
  ASSUME Init
  PROVE  Unfenced
  BY DEF Init, Unfenced, Switching, Running

\* From the moment a deletion has fenced a bot until it is open or bound again, it gets
\* no project and no session, whatever had passed its check before the fence (Has of
\* the queued operations, CurrentSession of setSession): for any number of them.
THEOREM FencedGets == Spec => FencedGetsNothing
<1>1. Inv /\ SessionsInv /\ Unfenced /\ [Next]_vars => Unfenced'
  BY EveryStep, UnfencedKept DEF Inv
<1>2. Inv /\ SessionsInv /\ Unfenced /\ [Next]_vars =>
        [Shut /\ Shut' => /\ ws'.project \in {ws.project, None, Absent}
                          /\ \A k \in Key : sess'[k] \in {0, sess[k], disk.sessions[k]}]_vars
  BY EveryStep, ShutStep DEF Inv, GivesNothing
<1>3. Init => Unfenced
  BY UnfencedBegins
<1> QED
  BY <1>1, <1>2, <1>3, SessionsOfTheirProject, PTL DEF Spec, FencedGetsNothing

=============================================================================
