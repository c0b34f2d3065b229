---------------------------- MODULE BotWorkspace ----------------------------
(***************************************************************************)
(* One bot of an IM channel, the Web project it is bound to and the         *)
(* sessions of its conversations: BotWorkspaceStore with the scope of a     *)
(* runtime and the wrapped controller (channels/shared/bot-workspace-       *)
(* store.ts), the session store of the conversations (conversation-state-   *)
(* store.ts) and askInWorkspaceSession under the binding lock               *)
(* (workspace-session.ts, session-binding-lock.ts).                         *)
(*                                                                          *)
(* A generation fences sessions against a change of project, an incarnation *)
(* fences requests against the deletion and new binding of the same bot.    *)
(* One action is what runs between two awaits that can be overtaken.        *)
(***************************************************************************)
EXTENDS Naturals, Sequences

CONSTANTS
  Project,      \* ids of Web projects; an id is never used again
  Key,          \* conversations of the bot
  Turn,         \* prompts and session commands of the chat
  Kind,         \* what a message may be: a prompt, /session, a switch
  May,          \* what a request may ask for
  Request,      \* requests of the settings page
  Other,        \* a reconciliation run for a page status or for another bot
  None,         \* bound to no project; held by nobody
  Absent,       \* not in the store
  MaxSessions,  \* sessions the Host creates
  MaxMishaps    \* writes that fail, projects deleted in the Web, restarts

ASSUME NamesDiffer ==
  /\ None \notin Project \cup Turn \cup Request
  /\ Absent \notin Project \cup {None}
  /\ Turn \cap Request = {} /\ Other \notin Turn \cup Request
  /\ "op" \notin Turn \cup Request \cup {Other}  \* Op, which queues writes too
ASSUME KindsKnown == Kind \subseteq {"gate", "bind", "switch"}
ASSUME MayIsKnown == May \in [Request -> SUBSET {"choose", "delete", "bind"}]
ASSUME BoundsAreNat ==
  MaxSessions \in Nat \ {0} /\ MaxMishaps \in Nat  \* there may be a session at first

VARIABLES
  host,    \* the Host: its projects, and the project of each session
  ws,      \* the workspace store in memory, for this bot
  ops,     \* the write queue of the store, the running operation at its head
  sess,    \* the session of each conversation, in memory
  stq,     \* the writes of state.json not done yet
  bad,     \* whose write of state.json failed
  disk,    \* config.json, workspaces.json and state.json
  at,      \* where each caller is
  outer,   \* the transition under way in the wrapped controller
  inner,   \* the transition under way in the controller itself
  scope,   \* the running runtime and the incarnation it was made for
  mishaps  \* how many there were

vars == <<host, ws, ops, sess, stq, bad, disk, at, outer, inner, scope, mishaps>>

Caller == Turn \cup Request \cup {Other}
Session == 1..MaxSessions
\* The running runtime keeps the incarnation it was made for; 0 when none runs.
Stopped == [scope EXCEPT !.inc = 0]
Started(inc) == [run |-> scope.run + 1, inc |-> inc]
NoSession == [k \in Key |-> 0]
\* The operation at the head of the write queue writes state.json too.
Op == "op"

------------------------------------------------------------------------------
(* The store in memory *)

\* Mutant of Has: a bot being deleted counts until it is gone.
HasUnfenced == ws.project # Absent

\* has() and the scope check of a caller, whose incarnation was captured.
Has == ws.project # Absent /\ ~ws.removing

Current(c) == Has /\ ws.inc = at[c].inc
\* Mutant of CurrentSession: the change of project is not looked at.
CurrentSessionAnyProject(c) == Current(c)

CurrentSession(c) == Current(c) /\ ws.gen = at[c].gen

\* #freshGeneration, with the generation set.
Bump(w) == [w EXCEPT !.gen = w.nextGen, !.nextGen = @ + 1]

Waiting == {"waitGate", "waitCreate", "waitBind"}

\* Where a caller is: the step it is at, what it does once the bot has a project,
\* its conversation and whether it is in the binding lock, the runtime and the
\* incarnation it belongs to, the generation, session and project it has read.
Idle == [pc |-> "idle", then |-> "none", key |-> CHOOSE k \in Key : TRUE,
         held |-> FALSE, run |-> 0, inc |-> 0, gen |-> 0, session |-> 0,
         row |-> None, items |-> {}]
Ended(p) == [Idle EXCEPT !.pc = p]
\* A turn starts again with what it holds given back.
Again(a) == [a EXCEPT !.pc = "fetch", !.then = "gate", !.held = FALSE, !.session = 0,
                      !.gen = 0, !.row = None]

\* What a caller does once the project is there: the prompt takes the lock,
\* createSession waits for the queue, /session adopts the session.
AfterReady(then) ==
  CASE then = "gate" -> "lock" [] then = "create" -> "quiet"
    [] then = "bind" -> "adopt" [] OTHER -> "leave"

\* whenWorkspaceReady: a bot without a project makes its caller wait.
Wait(then) ==
  CASE then = "gate" -> "waitGate" [] then = "create" -> "waitCreate"
    [] then = "bind" -> "waitBind" [] OTHER -> "leave"
Readied(c) == [at EXCEPT ![c].items = {},
                 ![c].pc = IF ws.unconfirmed THEN Wait(at[c].then) ELSE AfterReady(at[c].then)]

\* #confirmWorkspace resolves every waiter, #rejectWorkspaceWaiters turns it away.
Confirmed(w) == [w EXCEPT !.unconfirmed = FALSE]
Woken(a) == [c \in Caller |-> IF a[c].pc \in Waiting
              THEN [a[c] EXCEPT !.pc = AfterReady(a[c].then)] ELSE a[c]]
Rejected(a) == [c \in Caller |-> IF a[c].pc \in Waiting
                 THEN IF a[c].pc = "waitBind" THEN Ended("ended") ELSE Again(a[c])
                 ELSE a[c]]

Go(c, p) == at' = [at EXCEPT ![c].pc = p]

\* Mutant of Failed: an error leaves the lock taken.
FailedLocked(c) == [at EXCEPT ![c].pc = IF c \in Request THEN "fail" ELSE "ended"]

\* An error ends a turn, which gives the lock back; a request still has to leave
\* the transitions it holds.
Failed(c) == [at EXCEPT ![c] = IF c \in Request THEN [@ EXCEPT !.pc = "fail"]
                               ELSE Ended("ended")]

\* Something fails, changes in the Web, or the process dies.
Mishap == mishaps < MaxMishaps
Happens == mishaps' = mishaps + 1

------------------------------------------------------------------------------
(* state.json: changed in memory, then written one snapshot after the other *)

Save(who, sessions) ==
  /\ sess' = sessions
  /\ stq' = Append(stq, [by |-> who, sessions |-> sessions])
Saved(who) == \A i \in DOMAIN stq : stq[i].by # who
Settled(who) == Saved(who) /\ bad' = bad \ {who}

\* #persist of the conversation store writes a file and renames it, or fails.
WriteState ==
  /\ stq # <<>>
  /\ stq' = Tail(stq)
  /\ \/ disk' = [disk EXCEPT !.sessions = Head(stq).sessions] /\ UNCHANGED <<bad, mishaps>>
     \/ Mishap /\ Happens /\ bad' = bad \cup {Head(stq).by} /\ UNCHANGED disk
  /\ UNCHANGED <<host, ws, ops, sess, at, outer, inner, scope>>

------------------------------------------------------------------------------
(* The write queue of the store *)

\* An operation is queued with what its caller captured.
QueueWith(c, kind, row) ==
  ops' = Append(ops, [kind |-> kind, by |-> c, step |-> "queued", prev |-> None,
                      inc |-> at[c].inc, gen |-> at[c].gen,
                      row |-> row, session |-> at[c].session])
Queue(c, kind) == QueueWith(c, kind, at[c].row)
Running(kind, step) == ops # <<>> /\ Head(ops).kind = kind /\ Head(ops).step = step
Run == Head(ops)
Step(step) == ops' = [ops EXCEPT ![1].step = step]

\* Where the caller of an operation goes on when it ends well or badly.
Returned(a) ==
  CASE Run.by \in Turn /\ Run.kind \in {"set", "bind"} -> Ended("ended")
    [] Run.kind = "begin" -> [a EXCEPT !.pc = "remove"]
    [] Run.kind = "retire" -> [a EXCEPT !.pc = "cleanup"]
    [] Run.kind = "ensure" -> [a EXCEPT !.pc = "scope"]
    [] OTHER -> [a EXCEPT !.pc = "leave"]
End(a) == ops' = Tail(ops) /\ at' = [a EXCEPT ![Run.by] = Returned(@)]
EndFails == ops' = Tail(ops) /\ at' = Failed(Run.by)

\* setProject: checked again, then a fresh generation before the sessions are
\* cleared, and the project only after that.
SetBegins ==
  /\ Running("set", "queued")
  /\ LET mine == Has /\ Run.inc = ws.inc
         same == ws.project = Run.row
     IN  \/ /\ ~mine /\ EndFails /\ UNCHANGED <<ws, sess, stq>>
         \/ /\ mine /\ same /\ ws' = Confirmed(ws) /\ End(Woken(at))
            /\ UNCHANGED <<sess, stq>>
         \/ /\ mine /\ ~same /\ ws' = Bump(ws) /\ Save(Op, NoSession)
            /\ ops' = [ops EXCEPT ![1].step = "clear", ![1].prev = ws.project]
            /\ UNCHANGED at
  /\ UNCHANGED <<host, bad, disk, outer, inner, scope, mishaps>>

SetCleared ==
  /\ Running("set", "clear") /\ Settled(Op)
  /\ IF Op \in bad
       THEN EndFails /\ UNCHANGED ws
       ELSE ws' = [ws EXCEPT !.project = Run.row] /\ Step("persist") /\ UNCHANGED at
  /\ UNCHANGED <<host, sess, stq, disk, outer, inner, scope, mishaps>>

SetPersists ==
  /\ Running("set", "persist")
  /\ \/ /\ disk' = [disk EXCEPT !.project = ws.project]
        /\ ws' = Confirmed(ws) /\ End(Woken(at)) /\ UNCHANGED mishaps
     \/ /\ Mishap /\ Happens
        /\ ws' = [ws EXCEPT !.project = Run.prev] /\ EndFails /\ UNCHANGED disk
  /\ UNCHANGED <<host, sess, stq, bad, outer, inner, scope>>

\* bindWorkspaceSession: scope, generation and project, then the session.
BindBegins ==
  /\ Running("bind", "queued")
  /\ IF Has /\ Run.inc = ws.inc /\ Run.gen = ws.gen /\ Run.row = ws.project
       THEN /\ Save(Op, [sess EXCEPT ![at[Run.by].key] = Run.session])
            /\ Step("save") /\ UNCHANGED at
       ELSE EndFails /\ UNCHANGED <<sess, stq>>
  /\ UNCHANGED <<host, ws, bad, disk, outer, inner, scope, mishaps>>

BindEnds ==
  /\ Running("bind", "save") /\ Settled(Op) /\ End(at)
  /\ UNCHANGED <<host, ws, sess, stq, disk, outer, inner, scope, mishaps>>

\* The write at the end of a reconciliation.
PersistAll ==
  /\ Running("persist", "queued")
  /\ \/ /\ disk' = [disk EXCEPT !.project = ws.project] /\ UNCHANGED mishaps
        /\ ops' = Tail(ops) /\ at' = Readied(Run.by)
     \/ Mishap /\ Happens /\ EndFails /\ UNCHANGED disk
  /\ UNCHANGED <<host, ws, sess, stq, bad, outer, inner, scope>>

\* ensure: an unknown bot starts unbound, in a new incarnation.
Ensure ==
  /\ Running("ensure", "queued")
  /\ LET fresh == [Bump(ws) EXCEPT !.project = None, !.unconfirmed = TRUE,
                                   !.inc = ws.nextInc, !.nextInc = @ + 1]
     IN  \/ /\ ws.project # Absent /\ End(at) /\ UNCHANGED <<ws, disk, mishaps>>
         \/ /\ ws.project = Absent /\ ws' = fresh /\ End(at)
            /\ disk' = [disk EXCEPT !.project = None] /\ UNCHANGED mishaps
         \/ /\ ws.project = Absent /\ Mishap /\ Happens
            /\ ws' = [ws EXCEPT !.nextGen = @ + 1, !.nextInc = @ + 1]
            /\ EndFails /\ UNCHANGED disk
  /\ UNCHANGED <<host, sess, stq, bad, outer, inner, scope>>

\* beginRemoval: the fence first; a failure to clear the sessions is ignored.
RemovalBegins ==
  /\ Running("begin", "queued")
  /\ ws' = [Bump(ws) EXCEPT !.removing = TRUE, !.removal = ws.inc]
  /\ Save(Op, NoSession)
  /\ Step("clear") /\ at' = Rejected(at)
  /\ UNCHANGED <<host, bad, disk, outer, inner, scope, mishaps>>

RemovalBegun ==
  /\ Running("begin", "clear") /\ Settled(Op) /\ End(at)
  /\ UNCHANGED <<host, ws, sess, stq, disk, outer, inner, scope, mishaps>>

\* abortRemoval opens the same incarnation again, under a fresh generation.
RemovalAborted ==
  /\ Running("abort", "queued")
  /\ ws' = IF ws.removing THEN [Bump(ws) EXCEPT !.removing = FALSE] ELSE ws
  /\ End(at)
  /\ UNCHANGED <<host, sess, stq, bad, disk, outer, inner, scope, mishaps>>

\* #retireCurrentIncarnation: forget the bot, wake the waiters, write.
Retire ==
  /\ ws' = Confirmed([ws EXCEPT !.project = Absent, !.gen = 0, !.inc = 0,
                                !.removing = FALSE])
  /\ End(Woken(at))
  /\ \/ disk' = [disk EXCEPT !.project = Absent] /\ UNCHANGED mishaps
     \/ Mishap /\ Happens /\ UNCHANGED disk

Retired ==
  /\ Running("retire", "queued") /\ Retire
  /\ UNCHANGED <<host, sess, stq, bad, outer, inner, scope>>

\* finishRemoval retires the incarnation its removal fenced, and no other.
RemovalEnds ==
  /\ Running("finish", "queued")
  /\ IF ws.removing /\ ws.inc = ws.removal
       THEN Retire
       ELSE /\ ws' = [ws EXCEPT !.removing = FALSE]
            /\ End(at) /\ UNCHANGED <<disk, mishaps>>
  /\ UNCHANGED <<host, sess, stq, bad, outer, inner, scope>>

------------------------------------------------------------------------------
(* Reconciling with the catalog of projects *)

Quiet == UNCHANGED <<host, disk, outer, inner, scope, mishaps>>

\* The catalog is fetched outside every queue; if it cannot be, the bindings
\* known stay as they are.
Fetch(c) ==
  /\ at[c].pc = "fetch"
  /\ \/ at' = [at EXCEPT ![c].pc = "apply", ![c].items = host.live]
     \/ at' = Readied(c)
  /\ Quiet /\ UNCHANGED <<ws, ops, sess, stq, bad>>

\* A project missing from the catalog is unbound and fenced at once.  The scope
\* of this bot clears its sessions in the same breath, a page status once it
\* has its state, and the chat of another bot never.  The write of the store is
\* queued after that.
Apply(c) ==
  /\ at[c].pc = "apply"
  /\ \/ /\ ws.project \notin Project \ at[c].items
        /\ at' = Readied(c) /\ UNCHANGED <<ws, ops, sess, stq>>
     \/ /\ ws.project \in Project \ at[c].items
        /\ ws' = [Bump(ws) EXCEPT !.project = None, !.unconfirmed = TRUE]
        /\ \/ c # Other /\ Save(c, NoSession) /\ Go(c, "clear") /\ UNCHANGED ops
           \/ c = Other /\ Go(c, "state") /\ UNCHANGED <<ops, sess, stq>>
           \/ c = Other /\ Queue(c, "persist") /\ Go(c, "writing") /\ UNCHANGED <<sess, stq>>
  /\ Quiet /\ UNCHANGED bad

ClearForPage(c) ==
  /\ at[c].pc = "state"
  /\ Save(c, NoSession) /\ Go(c, "clear")
  /\ Quiet /\ UNCHANGED <<ws, ops, bad>>

Cleared(c) ==
  /\ at[c].pc = "clear" /\ Settled(c)
  /\ IF c \in bad THEN at' = Failed(c) /\ UNCHANGED ops
                  ELSE Queue(c, "persist") /\ Go(c, "writing")
  /\ Quiet /\ UNCHANGED <<ws, sess, stq>>

Reconcile(c) == Fetch(c) \/ Apply(c) \/ ClearForPage(c) \/ Cleared(c)

------------------------------------------------------------------------------
(* The chat: prompts, /session and the switch of the project *)

\* A message reaches the running runtime, whose scope it keeps.
Message(t) ==
  /\ at[t].pc = "idle" /\ scope.inc # 0
  /\ \E k \in Key, next \in Kind, r \in Project :
       at' = [at EXCEPT ![t] =
               [Idle EXCEPT !.pc = IF next = "switch" THEN "items" ELSE "fetch",
                  !.then = next, !.key = k, !.run = scope.run, !.inc = scope.inc,
                  !.row = IF next = "switch" THEN r ELSE None]]
  /\ Quiet /\ UNCHANGED <<ws, ops, sess, stq, bad>>

\* In the lock: the session of the conversation, with the generation it has now.
Resolve(t) ==
  /\ at[t].pc = "lock"
  /\ \A u \in Turn : at[u].held => at[u].key # at[t].key \/ at[u].run # at[t].run
  /\ LET s == IF Current(t) THEN sess[at[t].key] ELSE 0
     IN  at' = [at EXCEPT ![t] = [@ EXCEPT !.pc = IF s = 0 THEN "fetch" ELSE "probe",
                  !.then = IF s = 0 THEN "create" ELSE at[t].then, !.held = TRUE,
                  !.session = s, !.gen = ws.gen]]
  /\ Quiet /\ UNCHANGED <<ws, ops, sess, stq, bad>>

\* sessionExists; the Host may have dropped the sessions of a deleted project.
Probe(t) ==
  /\ at[t].pc = "probe"
  /\ \E exists \in {TRUE, host.of[at[t].session] \in host.live} :
       at' = [at EXCEPT ![t] = IF exists /\ CurrentSession(t)
                THEN [@ EXCEPT !.pc = "ask", !.held = FALSE]
                ELSE [@ EXCEPT !.pc = "fetch", !.then = "create"]]
  /\ Quiet /\ UNCHANGED <<ws, ops, sess, stq, bad>>

\* createSession: no operation of this bot is queued, and project and
\* generation are read together.
Create(t) ==
  /\ at[t].pc = "quiet"
  /\ \A i \in DOMAIN ops : ops[i].kind = "persist"
  /\ at' = IF Current(t) /\ ws.project \in Project
             THEN [at EXCEPT ![t].pc = "create", ![t].row = ws.project, ![t].gen = ws.gen]
             ELSE Failed(t)
  /\ Quiet /\ UNCHANGED <<ws, ops, sess, stq, bad>>

Created(t) ==
  /\ at[t].pc = "create"
  /\ IF at[t].row \in host.live /\ Len(host.of) < MaxSessions
       THEN /\ host' = [host EXCEPT !.of = Append(@, at[t].row)]
            /\ at' = [at EXCEPT ![t].pc = "keep", ![t].session = Len(host.of) + 1]
       ELSE at' = Failed(t) /\ UNCHANGED host
  /\ UNCHANGED <<ws, ops, sess, stq, bad, disk, outer, inner, scope, mishaps>>

\* Mutant of Keep: the session is stored whatever happened meanwhile.
KeepStale(t) ==
  /\ at[t].pc = "keep"
  /\ Save(t, [sess EXCEPT ![at[t].key] = at[t].session]) /\ Go(t, "save")
  /\ Quiet /\ UNCHANGED <<ws, ops, bad>>

\* setSession refuses a session of an older generation, and the turn starts again.
Keep(t) ==
  /\ at[t].pc = "keep"
  /\ IF CurrentSession(t)
       THEN Save(t, [sess EXCEPT ![at[t].key] = at[t].session]) /\ Go(t, "save")
       ELSE at' = [at EXCEPT ![t] = Again(@)] /\ UNCHANGED <<sess, stq>>
  /\ Quiet /\ UNCHANGED <<ws, ops, bad>>

Kept(t) ==
  /\ at[t].pc = "save" /\ Settled(t)
  /\ at' = IF t \in bad THEN Failed(t)
             ELSE [at EXCEPT ![t].pc = "ask", ![t].held = FALSE]
  /\ Quiet /\ UNCHANGED <<ws, ops, sess, stq>>

\* session.ask: a session that is not current any more starts the turn again.
Ask(t) ==
  /\ at[t].pc = "ask"
  /\ at' = [at EXCEPT ![t] = IF CurrentSession(t) THEN Ended("asked") ELSE Again(@)]
  /\ Quiet /\ UNCHANGED <<ws, ops, sess, stq, bad>>

\* /session: the Host adopts the session the user names, which must be of the
\* project the bot had all along, and the binding is queued.
Adopt(t) ==
  /\ at[t].pc = "adopt"
  /\ IF Current(t) /\ host.of # <<>>
       THEN \E s \in DOMAIN host.of :
              at' = [at EXCEPT ![t].pc = "adopted", ![t].session = s, ![t].gen = ws.gen]
       ELSE at' = Failed(t)
  /\ Quiet /\ UNCHANGED <<ws, ops, sess, stq, bad>>

Adopted(t) ==
  /\ at[t].pc = "adopted"
  /\ IF CurrentSession(t) /\ host.of[at[t].session] = ws.project
       THEN QueueWith(t, "bind", ws.project) /\ Go(t, "binding")
       ELSE at' = Failed(t) /\ UNCHANGED ops
  /\ Quiet /\ UNCHANGED <<ws, sess, stq, bad>>

Chat(t) ==
  \/ Resolve(t) \/ Probe(t) \/ Create(t) \/ Created(t) \/ Keep(t) \/ Kept(t)
  \/ Ask(t) \/ Adopt(t) \/ Adopted(t)

------------------------------------------------------------------------------
(* The settings page: choose a project, delete the bot, bind it *)

\* A choice keeps the incarnation known when it was made, before any wait.
Invoke(r) ==
  /\ at[r].pc = "idle"
  /\ \E want \in May[r], p \in Project :
       at' = [at EXCEPT ![r] = [Idle EXCEPT !.pc = want, !.then = want, !.inc = ws.inc,
                                  !.row = IF want = "choose" THEN p ELSE None]]
  /\ Quiet /\ UNCHANGED <<ws, ops, sess, stq, bad>>

\* updateWorkspace: one transition of the wrapped controller at a time, and only
\* for a bot its status shows.
Choose(r) ==
  /\ at[r].pc = "choose" /\ outer = None
  /\ outer' = r
  /\ Go(r, IF disk.configured THEN "items" ELSE "fail")
  /\ UNCHANGED <<host, ws, ops, sess, stq, bad, disk, inner, scope, mishaps>>

\* setProject up to its queue: the scope is checked, the project looked up.
SetProject(c) ==
  /\ at[c].pc = "items"
  /\ \/ Current(c) /\ at[c].row \in host.live /\ Queue(c, "set") /\ Go(c, "setting")
     \/ at' = Failed(c) /\ UNCHANGED ops
  /\ UNCHANGED <<host, ws, sess, stq, bad, disk, outer, inner, scope, mishaps>>

\* deleteWithWorkspace fences the bot, then calls the controller.
Delete(r) ==
  /\ at[r].pc = "delete" /\ outer = None
  /\ outer' = r /\ Queue(r, "begin") /\ Go(r, "fencing")
  /\ UNCHANGED <<host, ws, sess, stq, bad, disk, inner, scope, mishaps>>

Known(r) ==
  /\ at[r].pc = "remove"
  /\ Go(r, IF disk.configured THEN "stop" ELSE "unsafe")
  /\ Quiet /\ UNCHANGED <<ws, ops, sess, stq, bad>>

StopRuntime(r) ==
  /\ at[r].pc \in {"stop", "bind"} /\ inner = None
  /\ inner' = r
  /\ IF at[r].pc = "stop"
       THEN scope' = Stopped /\ Go(r, "commit")
       ELSE UNCHANGED scope /\ Go(r, "config")
  /\ UNCHANGED <<host, ws, ops, sess, stq, bad, disk, outer, mishaps>>

\* The configuration is removed and the incarnation retired with it, or the
\* runtime is started again.
Commit(r) ==
  /\ at[r].pc = "commit"
  /\ \/ /\ disk' = [disk EXCEPT !.configured = FALSE]
        /\ Queue(r, "retire") /\ Go(r, "retiring") /\ UNCHANGED mishaps
     \/ Mishap /\ Happens /\ Queue(r, "ensure") /\ Go(r, "ensuring") /\ UNCHANGED disk
  /\ UNCHANGED <<host, ws, sess, stq, bad, outer, inner, scope>>

\* deleteState: the file goes, or stays when that fails; the next state store of
\* the bot loads what is there.
Cleanup(r) ==
  /\ at[r].pc = "cleanup"
  /\ Save(r, NoSession) /\ Go(r, "cleaning")
  /\ Quiet /\ UNCHANGED <<ws, ops, bad>>

CleanedUp(r) ==
  /\ at[r].pc = "cleaning" /\ Settled(r)
  /\ sess' = disk.sessions /\ inner' = None
  /\ Queue(r, "finish") /\ Go(r, "finishing")
  /\ UNCHANGED <<host, ws, stq, disk, outer, scope, mishaps>>

\* Mutant of DeleteFails: it is finished in any case.
DeleteFailsForGood(r) ==
  /\ at[r].pc = "unsafe"
  /\ Queue(r, "finish") /\ Go(r, "finishing")
  /\ UNCHANGED <<host, ws, sess, stq, bad, disk, outer, inner, scope, mishaps>>

\* A deletion that failed is finished all the same when the bot is gone.
DeleteFails(r) ==
  /\ at[r].pc = "unsafe"
  /\ Queue(r, IF disk.configured THEN "abort" ELSE "finish") /\ Go(r, "finishing")
  /\ UNCHANGED <<host, ws, sess, stq, bad, disk, outer, inner, scope, mishaps>>

\* bindCredentials: saved, then the runtime is made.
SaveConfig(r) ==
  /\ at[r].pc = "config"
  /\ \/ /\ disk' = [disk EXCEPT !.configured = TRUE] /\ scope' = Stopped
        /\ Queue(r, "ensure") /\ Go(r, "ensuring") /\ UNCHANGED mishaps
     \/ Mishap /\ Happens /\ Go(r, "fail") /\ UNCHANGED <<ops, disk, scope>>
  /\ UNCHANGED <<host, ws, sess, stq, bad, outer, inner>>

\* createBotWorkspaceScope for the incarnation there is now; a runtime that does
\* not start is dropped.
StartRuntime(r) ==
  /\ at[r].pc = "scope"
  /\ scope' \in {Started(ws.inc), Stopped}
  /\ inner' = None
  /\ Go(r, IF at[r].then = "bind" THEN "leave" ELSE "unsafe")
  /\ UNCHANGED <<host, ws, ops, sess, stq, bad, disk, outer, mishaps>>

\* A request ends in both controllers; a failed start leaves a deletion unsafe.
Leave(r) ==
  /\ at[r].pc \in {"fail", "leave"}
  /\ inner' = IF inner = r THEN None ELSE inner
  /\ IF at[r].then = "delete" /\ inner = r
       THEN Go(r, "unsafe") /\ UNCHANGED outer
       ELSE /\ at' = [at EXCEPT ![r] = Ended("ended")]
            /\ outer' = IF outer = r THEN None ELSE outer
  /\ UNCHANGED <<host, ws, ops, sess, stq, bad, disk, scope, mishaps>>

Settings(r) ==
  \/ Choose(r) \/ SetProject(r) \/ Delete(r) \/ Known(r) \/ StopRuntime(r)
  \/ Commit(r) \/ Cleanup(r) \/ CleanedUp(r) \/ DeleteFails(r) \/ SaveConfig(r)
  \/ StartRuntime(r) \/ Leave(r)

------------------------------------------------------------------------------
(* The rest of the world *)

\* A reconciliation for the status of the page, or in the chat of another bot.
OtherStarts ==
  /\ at[Other].pc = "idle"
  /\ at' = [at EXCEPT ![Other].pc = "fetch"]
  /\ Quiet /\ UNCHANGED <<ws, ops, sess, stq, bad>>

OtherEnds ==
  /\ at[Other].pc = "leave"
  /\ at' = [at EXCEPT ![Other] = Ended("ended")]
  /\ Quiet /\ UNCHANGED <<ws, ops, sess, stq, bad>>

\* A project is deleted in the Web.
DeleteProject ==
  /\ Mishap /\ Happens
  /\ \E p \in host.live : host' = [host EXCEPT !.live = @ \ {p}]
  /\ UNCHANGED <<ws, ops, sess, stq, bad, disk, at, outer, inner, scope>>

\* The process ends and starts again: the store is loaded, reconciled with the
\* bots configured and, if it can be had, with the catalog; runtimes start.
CrashRestart ==
  /\ Mishap /\ Happens
  /\ \E catalog \in {host.live, Project} :
       LET known == IF disk.project = Absent THEN None ELSE disk.project
           gone == known \in Project \ catalog
           project == IF ~disk.configured THEN Absent ELSE IF gone THEN None ELSE known
           sessions == IF disk.configured /\ gone THEN NoSession ELSE disk.sessions
           here == project # Absent
       IN  /\ ws' = [project |-> project, gen |-> IF here THEN ws.nextGen ELSE 0,
                     nextGen |-> ws.nextGen + 1, inc |-> IF here THEN ws.nextInc ELSE 0,
                     nextInc |-> ws.nextInc + 1, removing |-> FALSE, removal |-> 0,
                     unconfirmed |-> project = None]
           /\ sess' = sessions
           /\ disk' = [disk EXCEPT !.project = project, !.sessions = sessions]
           /\ scope' \in {Stopped} \cup (IF here THEN {Started(ws.nextInc)} ELSE {})
  /\ ops' = <<>> /\ stq' = <<>> /\ bad' = {}
  /\ at' = [c \in Caller |-> IF at[c].pc \in {"idle", "asked"} THEN at[c] ELSE Ended("ended")]
  /\ outer' = None /\ inner' = None
  /\ UNCHANGED host

------------------------------------------------------------------------------
\* A configured bot, with a project and perhaps a session of an earlier life.
Init ==
  /\ \E p \in Project \cup {None}, k \in Key, known \in BOOLEAN :
       LET of == IF known /\ p # None THEN <<p>> ELSE <<>>
           sessions == [NoSession EXCEPT ![k] = Len(of)]
       IN  /\ host = [live |-> Project, of |-> of]
           /\ ws = [project |-> p, gen |-> 1, nextGen |-> 2, inc |-> 1, nextInc |-> 2,
                    removing |-> FALSE, removal |-> 0, unconfirmed |-> p = None]
           /\ disk = [configured |-> TRUE, project |-> p, sessions |-> sessions]
           /\ sess = sessions
  /\ ops = <<>> /\ stq = <<>> /\ bad = {}
  /\ at = [c \in Caller |-> Idle]
  /\ outer = None /\ inner = None
  /\ scope = [run |-> 1, inc |-> 1]
  /\ mishaps = 0

Store ==
  \/ WriteState \/ SetBegins \/ SetCleared \/ SetPersists
  \/ BindBegins \/ BindEnds \/ PersistAll \/ Ensure \/ RemovalBegins
  \/ RemovalBegun \/ RemovalAborted \/ Retired \/ RemovalEnds

Next ==
  \/ Store
  \/ \E t \in Turn : Message(t) \/ Reconcile(t) \/ SetProject(t) \/ Chat(t)
  \/ \E r \in Request : Invoke(r) \/ Settings(r)
  \/ OtherStarts \/ Reconcile(Other) \/ OtherEnds
  \/ DeleteProject \/ CrashRestart

Spec == Init /\ [][Next]_vars

------------------------------------------------------------------------------
(* Properties *)

Queued == {"writing", "setting", "binding", "fencing", "retiring", "ensuring", "finishing"}
PC == Waiting \cup Queued \cup
  {"idle", "fetch", "apply", "state", "clear", "lock", "probe", "quiet", "create", "keep", "save", "fail", "leave",
   "ask", "asked", "ended", "adopt", "adopted", "items", "choose",
   "delete", "remove", "stop", "commit", "scope",
   "cleanup", "cleaning", "unsafe", "bind", "config"}

\* Every variable keeps its type.
TypeOK ==
  /\ host.live \subseteq Project /\ host.of \in Seq(Project) /\ Len(host.of) <= MaxSessions
  /\ ws.project \in Project \cup {None, Absent}
  /\ {ws.gen, ws.nextGen, ws.inc, ws.nextInc, ws.removal} \subseteq Nat
  /\ {ws.removing, ws.unconfirmed} \subseteq BOOLEAN
  /\ \A i \in DOMAIN ops : ops[i].by \in Caller
  /\ sess \in [Key -> 0..MaxSessions]
  /\ \A i \in DOMAIN stq : stq[i].by \in Caller \cup {Op}
  /\ bad \subseteq Caller \cup {Op}
  /\ disk.configured \in BOOLEAN /\ disk.project \in Project \cup {None, Absent}
  /\ disk.sessions \in [Key -> 0..MaxSessions]
  /\ DOMAIN at = Caller /\ \A c \in Caller : at[c].pc \in PC
  /\ {outer, inner} \subseteq Request \cup {None}
  /\ {scope.run, scope.inc} \subseteq Nat

\* Whatever is persisted when the process dies, no stored conversation leads to a
\* session of another project than the stored one: the generation is advanced and
\* the sessions are cleared before a project is stored, and no session made before
\* is written back after it (setProject, setSession of the scope).
StoredSessionsOfStoredProject ==
  disk.project \in Project =>
    \A k \in Key : disk.sessions[k] # 0 => host.of[disk.sessions[k]] = disk.project

\* A prompt is never asked in a session of a project that the bot has left for
\* another one, whatever changed while it reconciled, waited, probed, created or
\* saved (askInWorkspaceSession, the handle of workspaceSession).
AskedInOwnProject ==
  [][\A t \in Turn : at[t].pc = "ask" /\ at'[t].pc = "asked" =>
       ws.project \in {None, host.of[at[t].session]}]_vars

\* From the moment a deletion has fenced a bot until it is open or bound again, it
\* gets no project and no session: neither from a choice, a prompt or a /session
\* that had passed its own check and waited in the write queue, for the binding
\* lock or for the Host, nor from a turn of the runtime that was stopped.  What a
\* store made again loads from the file (deleteState that failed) is not given.
Shut == ws.project = Absent \/ ws.removing
FencedGetsNothing ==
  [][Shut /\ Shut' => /\ ws'.project \in {ws.project, None, Absent}
                     /\ \A k \in Key : sess'[k] \in {0, sess[k], disk.sessions[k]}]_vars

\* Once nothing of the settings page is under way, a running runtime is that of a
\* configured bot and of its present incarnation, and the store keeps no bot that
\* is not configured: a deletion retires what it fenced and nothing bound since.
AtRest == ops = <<>> /\ outer = None /\ inner = None
RuntimeOfPresentBot ==
  AtRest => /\ scope.inc # 0 => Has /\ scope.inc = ws.inc
            /\ ws.project # Absent => disk.configured /\ ~ws.removing

\* Nobody waits for what will not come: a prompt waits for a project only while
\* the bot is there and its project open, since every confirmation, retirement and
\* removal empties the waiters; a caller of the write queue has an operation in it;
\* and who holds a lock or a transition has not ended.
Busy(c) == at[c].pc \notin {"idle", "asked", "ended"}
NobodyForgotten ==
  /\ \A t \in Turn : at[t].pc \in Waiting => ws.unconfirmed /\ ws.project # Absent
  /\ \A c \in Caller : at[c].pc \in Queued => \E i \in DOMAIN ops : ops[i].by = c
  /\ \A t \in Turn : at[t].held => Busy(t)
  /\ \A r \in {outer, inner} \ {None} : Busy(r)

==============================================================================
