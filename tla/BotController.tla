---------------------------- MODULE BotController ----------------------------
(***************************************************************************)
(* The connection of one token bot: TokenBotController and                  *)
(* TelegramController (channels/shared/token-bot-controller.ts,             *)
(* channels/telegram/telegram-controller.ts) over the credential provider,  *)
(* the config store (token-config-store.ts) and a runtime, kept connected   *)
(* by TokenConnectionSupervisor (host/channels/shared/                      *)
(* connection-supervisor.ts) and closed by the channel (production.ts).     *)
(*                                                                          *)
(* The operations on a bot wait for one another in its chain of             *)
(* transitions. A credential and a config are stored apart, so every        *)
(* operation that fails in the middle undoes what it has done. One action   *)
(* is what runs between two awaits that the closing can come between.       *)
(***************************************************************************)
EXTENDS Naturals, Sequences

CONSTANTS
  Token,       \* tokens the platform gave the bot
  Policy,      \* settings kept in the config: the access policies
  Default,     \* the policy of a new bot
  Request,     \* requests of the settings page
  May,         \* what a request may ask for
  Supervisor,  \* the reconciliation of the supervisor
  Closer,      \* the closing of the channel
  None,        \* nothing stored, nothing running
  Unread,      \* a credential that could not be read
  MaxTroubles  \* failing calls, connections that drop, deaths of the process

ASSUME NamesDiffer ==
  /\ Supervisor \notin Request /\ Closer \notin Request \cup {Supervisor}
  /\ None \notin Token \cup Policy /\ Unread \notin Token \cup {None}
ASSUME MayIsKnown == May \in [Request -> SUBSET {"bind", "policy", "reconnect", "delete"}]
ASSUME DefaultIsPolicy == Default \in Policy
ASSUME MaxTroublesIsNat == MaxTroubles \in Nat

VARIABLES
  cred,     \* the stored credential
  config,   \* the stored config, by its policy
  rt,       \* the entry of #runtimes
  queue,    \* the chain of transitions, the running one at its head
  at,       \* where each caller is
  waits,    \* the transitions the closing waits for
  apart,    \* an operation was cut short or could not be undone
  troubles  \* how many there were

vars == <<cred, config, rt, queue, at, waits, apart, troubles>>

Caller == Request \cup {Supervisor, Closer}

\* A caller: its operation and step, the config it runs with or wants, the token
\* it runs with, the one it gives back on failure, a connection it is closing.
Idle == [op |-> "none", pc |-> "idle", cfg |-> None, token |-> None, prev |-> None,
         stops |-> FALSE]

At(c, p) == at[c].pc = p
Ready == rt # None /\ rt.phase = "ready"
\* #closed of the supervisor and #closed of the controller.
SupervisorClosed == ~At(Closer, "idle")
Closed == at[Closer].pc \in {"transitions", "runtimes", "closed"}

Init ==
  /\ cred = None /\ config = None /\ rt = None
  /\ queue = <<>> /\ at = [c \in Caller |-> Idle] /\ waits = {}
  /\ apart = FALSE /\ troubles = 0

Trouble == troubles < MaxTroubles /\ troubles' = troubles + 1
Fine == UNCHANGED troubles

------------------------------------------------------------------------------
(* The chain of transitions *)

Go(c, p) == at' = [at EXCEPT ![c].pc = p]

Holds(c, p) == queue # <<>> /\ Head(queue) = c /\ At(c, p)

\* #withBotTransition: the operation runs when the ones before it are settled.
Enqueue(c, a) ==
  /\ queue' = Append(queue, c)
  /\ at' = [at EXCEPT ![c] = [a EXCEPT !.pc = "queued"]]

\* The operation is settled, well or badly, and the next one may run.
Settle(c) ==
  /\ queue' = Tail(queue)
  /\ at' = [at EXCEPT ![c] = Idle]
  /\ waits' = waits \ {c}

\* Mutant of Throw: a rejected operation rejects those chained to it.
ThrowOn(c) == at' = [at EXCEPT ![c].pc = "closed"] /\ UNCHANGED <<queue, waits>>

Throw(c) == Settle(c)

------------------------------------------------------------------------------
(* Requests and the supervisor, up to the transition *)

\* bindCredentials: the platform is asked whose token it is.
AskBind(r, t) ==
  /\ At(r, "idle") /\ ~Closed
  /\ at' = [at EXCEPT ![r] = [Idle EXCEPT !.op = "bind", !.pc = "inspect", !.token = t]]
  /\ UNCHANGED <<cred, config, rt, queue, waits, apart, troubles>>

Inspected(r) ==
  /\ At(r, "inspect")
  /\ \/ Enqueue(r, at[r])
     \/ at' = [at EXCEPT ![r] = Idle] /\ UNCHANGED queue
  /\ UNCHANGED <<cred, config, rt, waits, apart, troubles>>

\* setAccessPolicy: the stored config is read in the transition.
AskPolicy(r, p) ==
  /\ At(r, "idle") /\ ~Closed
  /\ Enqueue(r, [Idle EXCEPT !.op = "policy", !.cfg = p])
  /\ UNCHANGED <<cred, config, rt, waits, apart, troubles>>

\* reconnectBot and deleteBot: the config is read before the transition.
AskReconnect(r) ==
  /\ At(r, "idle") /\ config # None
  /\ Enqueue(r, [Idle EXCEPT !.op = "reconnect", !.cfg = config])
  /\ UNCHANGED <<cred, config, rt, waits, apart, troubles>>

AskDelete(r) ==
  /\ At(r, "idle") /\ config # None
  /\ Enqueue(r, [Idle EXCEPT !.op = "delete", !.cfg = config])
  /\ UNCHANGED <<cred, config, rt, waits, apart, troubles>>

\* The timer of the supervisor, which its closing clears.
Wake ==
  /\ At(Supervisor, "idle") /\ ~SupervisorClosed
  /\ Go(Supervisor, "ensure")
  /\ UNCHANGED <<cred, config, rt, queue, waits, apart, troubles>>

\* Mutant of EnsureFails: a failed reconciliation schedules no other.
EnsureFailsForGood ==
  /\ At(Supervisor, "ensure") /\ Trouble
  /\ Go(Supervisor, "closed")
  /\ UNCHANGED <<cred, config, rt, queue, waits, apart>>

\* The Host cannot be reached: the timer is set again.
EnsureFails ==
  /\ At(Supervisor, "ensure") /\ Trouble
  /\ Go(Supervisor, "idle")
  /\ UNCHANGED <<cred, config, rt, queue, waits, apart>>

\* initialize: the list of bots is read before the transition.
Ensured ==
  /\ At(Supervisor, "ensure")
  /\ IF SupervisorClosed \/ config = None THEN Go(Supervisor, "idle") /\ UNCHANGED queue
     ELSE Enqueue(Supervisor, [Idle EXCEPT !.op = "init", !.cfg = config])
  /\ UNCHANGED <<cred, config, rt, waits, apart, troubles>>

------------------------------------------------------------------------------
(* The operations, in their transition *)

\* What the credential provider answers; an error counts as no credential.
Read(t) == (t = cred /\ Fine) \/ (t = Unread /\ Trouble)
Nothing == {None, Unread}

\* Mutant of StartStored: a missing token is not noticed.
StartStoredUnchecked(c) ==
  /\ Holds(c, "queued") /\ at[c].op \in {"init", "reconnect"}
  /\ IF at[c].op = "init" /\ (Closed \/ Ready) THEN Settle(c) /\ Fine
     ELSE /\ at' = [at EXCEPT ![c].token = cred, ![c].pc = "stop"]
          /\ UNCHANGED <<queue, waits, troubles>>
  /\ UNCHANGED <<cred, config, rt, apart>>

\* initialize leaves a ready runtime alone, reconnectBot does not.
StartStored(c) ==
  /\ Holds(c, "queued") /\ at[c].op \in {"init", "reconnect"}
  /\ IF at[c].op = "init" /\ (Closed \/ Ready) THEN Settle(c) /\ Fine
     ELSE \E t \in Token \cup Nothing :
            /\ Read(t)
            /\ IF t \in Nothing THEN Throw(c)
               ELSE at' = [at EXCEPT ![c].token = t, ![c].pc = "stop"]
                    /\ UNCHANGED <<queue, waits>>
  /\ UNCHANGED <<cred, config, rt, apart>>

\* bindCredentials: the credential there was is kept to be given back.
Bind(c) ==
  /\ Holds(c, "queued") /\ at[c].op = "bind"
  /\ IF Closed THEN Throw(c) /\ Fine
     ELSE \E t \in Token \cup Nothing :
            /\ Read(t)
            /\ at' = [at EXCEPT ![c].prev = t, ![c].pc = "set"]
            /\ UNCHANGED <<queue, waits>>
  /\ UNCHANGED <<cred, config, rt, apart>>

SetCredential(c) ==
  /\ Holds(c, "set")
  /\ \/ cred' = at[c].token /\ Go(c, "save") /\ Fine /\ UNCHANGED <<queue, waits>>
     \/ Trouble /\ Throw(c) /\ UNCHANGED cred
  /\ UNCHANGED <<config, rt, apart>>

\* Mutant of UpdateConfig: it does not look for the config again.
UpdateConfigOfNone(c) ==
  /\ Holds(c, "queued") /\ at[c].op = "policy"
  /\ IF Closed THEN Throw(c)
     ELSE at' = [at EXCEPT ![c].token = CHOOSE t \in Token : TRUE, ![c].pc = "save"]
          /\ UNCHANGED <<queue, waits>>
  /\ UNCHANGED <<cred, config, rt, apart, troubles>>

\* updateBotConfig: a bot that was removed meanwhile is unknown.
UpdateConfig(c) ==
  /\ Holds(c, "queued") /\ at[c].op = "policy"
  /\ IF Closed \/ config = None THEN Throw(c) /\ Fine
     ELSE \E t \in Token \cup Nothing :
            /\ Read(t)
            /\ IF t \in Nothing THEN Throw(c)
               ELSE at' = [at EXCEPT ![c].token = t, ![c].pc = "save"]
                    /\ UNCHANGED <<queue, waits>>
  /\ UNCHANGED <<cred, config, rt, apart>>

\* save of the Telegram store: a bind keeps the policy there is.
ToSave(c) ==
  CASE at[c].op = "policy" -> at[c].cfg
    [] config = None -> Default
    [] OTHER -> config

SaveConfig(c) ==
  /\ Holds(c, "save")
  /\ \/ /\ config' = ToSave(c) /\ apart' = FALSE /\ Fine
        /\ at' = [at EXCEPT ![c].cfg = ToSave(c), ![c].pc = "stop"]
        /\ UNCHANGED <<queue, waits>>
     \/ /\ Trouble /\ UNCHANGED <<config, apart>>
        /\ IF at[c].op = "bind" THEN Go(c, "restore") /\ UNCHANGED <<queue, waits>>
           ELSE Throw(c)
  /\ UNCHANGED <<cred, rt>>

\* #restoreCredential, whose own failure goes unnoticed.
Restore(c) ==
  /\ Holds(c, "restore")
  /\ \/ /\ cred' = IF at[c].prev = Unread THEN None ELSE at[c].prev
        /\ apart' = (apart \/ at[c].prev = Unread) /\ Fine
     \/ Trouble /\ apart' = TRUE /\ UNCHANGED cred
  /\ Throw(c)
  /\ UNCHANGED <<config, rt>>

------------------------------------------------------------------------------
(* deleteBot *)

Delete(c) ==
  /\ Holds(c, "queued") /\ at[c].op = "delete"
  /\ \E t \in Token \cup Nothing :
       /\ Read(t)
       /\ at' = [at EXCEPT ![c].prev = t, ![c].pc = "stop"]
  /\ UNCHANGED <<cred, config, rt, queue, waits, apart>>

Unset(c) ==
  /\ Holds(c, "unset")
  /\ \/ cred' = None /\ Go(c, "remove") /\ Fine
     \/ Trouble /\ Go(c, "undo") /\ UNCHANGED cred
  /\ UNCHANGED <<config, rt, queue, waits, apart>>

\* The state of the bot is deleted last, see BotWorkspace.
Remove(c) ==
  /\ Holds(c, "remove")
  /\ \/ config' = None /\ apart' = FALSE /\ Settle(c) /\ Fine
     \/ Trouble /\ Go(c, "undo") /\ UNCHANGED <<config, queue, waits, apart>>
  /\ UNCHANGED <<cred, rt>>

\* Mutant of Undo: the credential is left out.
UndoRuntimeOnly(c) ==
  /\ Holds(c, "undo") /\ at[c].prev \in Token
  /\ at' = [at EXCEPT ![c].op = "undo", ![c].token = at[c].prev, ![c].pc = "stop"]
  /\ UNCHANGED <<cred, config, rt, queue, waits, apart, troubles>>

\* What was known of the bot is put back: its credential and its runtime.
Undo(c) ==
  /\ Holds(c, "undo") /\ at[c].prev \in Token
  /\ \/ cred' = at[c].prev /\ Fine /\ UNCHANGED apart
     \/ Trouble /\ apart' = TRUE /\ UNCHANGED cred
  /\ at' = [at EXCEPT ![c].op = "undo", ![c].token = at[c].prev, ![c].pc = "stop"]
  /\ UNCHANGED <<config, rt, queue, waits>>

UndoNothing(c) ==
  /\ Holds(c, "undo") /\ at[c].prev \in Nothing
  /\ apart' = (apart \/ at[c].prev = Unread)
  /\ Throw(c)
  /\ UNCHANGED <<cred, config, rt, troubles>>

------------------------------------------------------------------------------
(* #startRuntime *)

\* #stopRuntime: the runtime is forgotten first, its connection ends later.
Stop(c) ==
  /\ Holds(c, "stop")
  /\ IF Closed /\ at[c].op # "delete" THEN Throw(c) /\ UNCHANGED rt
     ELSE /\ rt' = None
          /\ at' = [at EXCEPT ![c].pc = "stopping", ![c].stops = Ready]
          /\ UNCHANGED <<queue, waits>>
  /\ UNCHANGED <<cred, config, apart, troubles>>

Stopped(c) ==
  /\ Holds(c, "stopping")
  /\ IF Closed /\ at[c].op # "delete" THEN Throw(c)
     ELSE /\ at' = [at EXCEPT ![c].stops = FALSE,
                      ![c].pc = IF at[c].op = "delete" THEN "unset" ELSE "create"]
          /\ UNCHANGED <<queue, waits>>
  /\ UNCHANGED <<cred, config, rt, apart, troubles>>

\* A runtime keeps the token and the config it was made with.
Runtime(c, phase) == [token |-> at[c].token, policy |-> at[c].cfg, phase |-> phase]

Create(c) ==
  /\ Holds(c, "create")
  /\ \/ /\ rt' = Runtime(c, "starting")
        /\ Go(c, "connect") /\ Fine /\ UNCHANGED <<queue, waits>>
     \/ Trouble /\ Throw(c) /\ UNCHANGED rt
  /\ UNCHANGED <<cred, config, apart>>

Connect(c) ==
  /\ Holds(c, "connect")
  /\ \/ rt' = Runtime(c, "ready") /\ Settle(c) /\ Fine
     \/ rt' = None /\ Throw(c) /\ Trouble
  /\ UNCHANGED <<cred, config, apart>>

\* The connection breaks: the runtime stays and is no longer ready.
Drop ==
  /\ Ready /\ Trouble /\ rt' = [rt EXCEPT !.phase = "failed"]
  /\ UNCHANGED <<cred, config, queue, at, waits, apart>>

------------------------------------------------------------------------------
(* Closing the channel, and starting again *)

Close ==
  /\ At(Closer, "idle") /\ Go(Closer, "supervisor")
  /\ UNCHANGED <<cred, config, rt, queue, waits, apart, troubles>>

\* The reconciliation under way has ended; the transitions under way are awaited.
CloseController ==
  /\ At(Closer, "supervisor") /\ At(Supervisor, "idle")
  /\ Go(Closer, "transitions")
  /\ waits' = {queue[i] : i \in DOMAIN queue}
  /\ UNCHANGED <<cred, config, rt, queue, apart, troubles>>

\* Mutant of CloseRuntimes: the transitions are not awaited.
CloseRuntimesAtOnce ==
  /\ At(Closer, "transitions")
  /\ rt' = None
  /\ at' = [at EXCEPT ![Closer].pc = "runtimes", ![Closer].stops = Ready]
  /\ UNCHANGED <<cred, config, queue, waits, apart, troubles>>

CloseRuntimes ==
  /\ At(Closer, "transitions") /\ waits = {}
  /\ rt' = None
  /\ at' = [at EXCEPT ![Closer].pc = "runtimes", ![Closer].stops = Ready]
  /\ UNCHANGED <<cred, config, queue, waits, apart, troubles>>

CloseEnds ==
  /\ At(Closer, "runtimes")
  /\ at' = [at EXCEPT ![Closer].pc = "closed", ![Closer].stops = FALSE]
  /\ UNCHANGED <<cred, config, rt, queue, waits, apart, troubles>>

\* The process ends, in good order or not, and another one loads what is stored.
Restart ==
  /\ Trouble
  /\ rt' = None /\ queue' = <<>> /\ waits' = {}
  /\ at' = [c \in Caller |-> Idle]
  /\ apart' = ((cred = None) # (config = None))
  /\ UNCHANGED <<cred, config>>

Ask(r) ==
  \/ "bind" \in May[r] /\ \E t \in Token : AskBind(r, t)
  \/ "policy" \in May[r] /\ \E p \in Policy : AskPolicy(r, p)
  \/ "reconnect" \in May[r] /\ AskReconnect(r)
  \/ "delete" \in May[r] /\ AskDelete(r)

\* What a caller does without waiting for anybody but those before it.
Work(c) ==
  \/ StartStored(c) \/ Bind(c) \/ SetCredential(c) \/ UpdateConfig(c) \/ SaveConfig(c)
  \/ Restore(c) \/ Delete(c) \/ Unset(c) \/ Remove(c) \/ Undo(c) \/ UndoNothing(c)
  \/ Stop(c) \/ Stopped(c) \/ Create(c) \/ Connect(c)

Supervise == Wake \/ EnsureFails \/ Ensured
Closing == CloseController \/ CloseRuntimes \/ CloseEnds

Next ==
  \/ \E r \in Request : Ask(r) \/ Inspected(r) \/ Work(r)
  \/ Work(Supervisor) \/ Supervise
  \/ Close \/ Closing
  \/ Drop \/ Restart

Spec == Init /\ [][Next]_vars

\* Timers fire, and every call comes to an end, well or badly.
FairSpec ==
  /\ Spec
  /\ \A r \in Request : WF_vars(Inspected(r)) /\ WF_vars(Work(r))
  /\ WF_vars(Work(Supervisor)) /\ WF_vars(Supervise) /\ WF_vars(Closing)

------------------------------------------------------------------------------
(* Properties *)

Pc == {"idle", "inspect", "ensure", "queued", "set", "save", "restore", "stop",
       "stopping", "unset", "remove", "undo", "create", "connect",
       "supervisor", "transitions", "runtimes", "closed"}

TypeOK ==
  /\ cred \in Token \cup {None} /\ config \in Policy \cup {None}
  /\ rt \in [token : Token, policy : Policy, phase : {"starting", "ready", "failed"}]
             \cup {None}
  /\ queue \in Seq(Caller) /\ waits \subseteq Caller
  /\ at \in [Caller -> [op : {"none", "bind", "policy", "reconnect", "delete", "undo", "init"},
                        pc : Pc, cfg : Policy \cup {None}, token : Token \cup {None},
                        prev : Token \cup Nothing, stops : BOOLEAN]]
  /\ apart \in BOOLEAN /\ troubles \in 0..MaxTroubles

\* A bot has one connection at a time, whatever is asked of it and however slowly
\* the one before it ends (#startRuntime): a platform hands each message to one of
\* two pollers, or to both. When its channel is closed (close) it has none, except
\* the one a removal asked for since is ending.
OneConnection ==
  /\ \A c, d \in Caller : at[c].stops /\ at[d].stops => c = d
  /\ Ready => \A c \in Caller : ~at[c].stops
  /\ At(Closer, "closed") => rt = None

\* Between transitions a bot has a credential exactly if it has a config, and
\* what runs, runs with that credential, whichever write failed and was undone
\* (bindCredentials, deleteBot): unless undoing it failed, too, or the process died.
\* (A runtime that the closing is about to stop may still have the token before.)
RunsWhatIsStored ==
  queue = <<>> /\ ~apart
    => /\ (cred = None) = (config = None)
       /\ rt # None /\ ~Closed => rt.token = cred

\* The policy of a bot changes when somebody sets it and at no other time: binding
\* it again keeps it, a bot bound after a removal has the default one, and setting
\* it brings no bot back that was removed while the request waited.
PolicyOnlyBySetting ==
  [][config' # config =>
       \/ config' = None
       \/ config = None /\ config' = Default
       \/ config # None /\ \E r \in Request : at[r].op = "policy" /\ at[r].cfg = config']_vars

\* A configured bot is connected again after whatever happened, without anybody
\* asking, for as long as its channel is open and its credential is stored.
BackOnline == []<>(Ready \/ config = None \/ cred = None \/ SupervisorClosed)

\* A request is answered and the closing comes to its end, whatever fails in the
\* transitions before them.
CallsEnd ==
  /\ \A r \in Request : []<>At(r, "idle")
  /\ []<>(at[Closer].pc \in {"idle", "closed"})
=============================================================================
