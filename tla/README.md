# A formal model of Xiaotaozi

Xiaotaozi (`xtz`) is a distribution of the DSH agent harness: a command line that
installs, starts and stops a local `dsh web` server, and a set of plugins that run
inside it. This directory models the parts of it in which something can go wrong that a
unit test would hardly reach: several `xtz` commands at once, crashes in the middle of
an upgrade, events of a socket overtaking messages of a chat, a settings page that deletes
a bot while its chat is being answered. The modules are written
from the code; a name of the code is kept where TLA+ allows it, and `PROJECT.json` gives,
for every definition, the lines it stands for.

- `*.tla`: specifications, an MC module with values for TLC, and proofs (`*_proofs.tla`).
- `MC*.cfg`: one TLC configuration per run.
- `PROJECT.json`: components, runs, mutants, the map to the source, findings, hazards and
  theorems.

Run `tlc -config X.cfg M` for the module and configuration of a run, `tlapm M.tla` for the proofs.

## 1. The system

| component | source | state | operations | talks to |
|---|---|---|---|---|
| lifecycle lock | `apps/cli/src/app.ts` | one lock file per attempt in the home directory | acquire, release | every `xtz` command that changes something |
| profile reconciliation | `app.ts`, `profile-reconciliation.ts`, `extra-plugin-load.ts` | `profiles/web`, its backup, the commit marker | `ensureOfficialProfile`: restore, back up, copy, run `dsh plugin add`, verify, commit, roll back | the file system, `dsh` commands; runs under the lock |
| Web lifecycle | `app.ts`, `runtime.ts`, `status.ts`, `flags.ts` | pid record, port stamp, server processes | `start`, `start --foreground`, `stop`, `restart` | the lock, reconciliation, processes, ports |
| read-only commands | `service.ts`, `web-auth-url.ts`, `home.ts` | none | `status`, `open`, `doctor`, `config` | pid record, port |
| IM harness approvals | `plugins/im/.../harness-approval.ts` | a queue of approvals per conversation | `handleRequested`, `handleResolved`, `claimReply`, `closeRoute` | `harness-client.ts` (event socket, answers), `text-harness-bridge.ts` (messages) |
| IM batch input, text bridge | `batch-input.ts`, `text-harness-bridge.ts`, `harness-client.ts` | batches, queues of prompts, pending questions, seen messages | `accept`, collect, submit, answer, `/stop`, `markSeen` | approvals, the harness, channel adapters |
| IM sessions, workspaces | `session-binding-lock.ts`, `workspace-session.ts`, `conversation-state-store.ts`, `bot-workspace-store.ts` | the project of each bot, the session of each conversation, on disk | choose a project, bind and delete a bot, bind a session, ask in it | text bridge, controllers |
| IM connection supervision | `token-bot-controller.ts`, `token-config-store.ts`, `host/channels/shared/connection-supervisor.ts` | credential, config and runtime of each bot | bind, set policy, reconnect, delete, reconcile, close | settings page, adapters, workspaces |
| Feishu supervision | `host/channels/feishu/` | generation of a connection | reconcile, close | its controller |
| IM channel adapters | `channels/<vendor>/` | vendor clients | receive, send | text bridge |
| model providers, router | `plugins/providers/src/` | credentials, health of routes | device and OAuth flows, refresh, route | model vendors |
| sidebar | `plugins/sidebar/src/` | terminals, file watches | open, resize, close | browser |
| workbench UI | `plugins/xtz-ui/src/` | browser state, archive ledger | render, archive | browser |
| market | `plugins/market/src/` | list of extra plugins | install, roll back | profile |
| WeCom office tools, website, scripts | `plugins/wecom-office`, `apps/website`, `scripts` | none | none | none |

### What is hard, and what makes each part correct

- **Lifecycle lock.** Any number of `xtz` processes read a directory of lock files one by
  one while the others create, rewrite and delete them; a process can die at any step and
  its pid can be used again. Correct: at most one holder, the holder's record is never
  taken for garbage, only a legitimate contender turns an attempt away, an attempt never
  waits.
- **Profile reconciliation.** The process, or any file operation, may fail between two
  steps of a transaction that moves, copies and deletes directories piece by piece, and the
  next start has to make sense of what it finds. Correct: there is a whole profile at every
  instant, it changes in single steps, only a validated one is launched, and a start without
  new faults ends with no transaction open.
- **Web lifecycle.** Servers come up late, ignore signals, exit and lose their pid to
  strangers while two terminals run commands; a foreground start gives up the lock while it
  waits. Correct: one server, no signal to a stranger, the record lives as long as
  it is needed, the stamp names the port of the recorded server, a command ends.
- **Harness approvals.** An approval lets an agent run a tool. The decision comes as a chat
  message that may be sent before the prompt, wait behind others, or be meant for the
  approval before; the event that settles an approval may overtake the answer to the call
  that settled it; sockets drop and requests are repeated; the turn may be stopped at any
  point. Correct: a decision counts only for an operation that was shown when it arrived,
  prompts come in order, the chat hears what really happened, once, and nothing hangs.
- **Batch input and text bridge.** What a message is, an entry of a batch, the answer to a
  question, the next prompt, is decided when it arrives and acted upon several awaits
  later. By then the question may be answered elsewhere, stopped or presented again, the
  write of the seen messages may have failed, and the platform may deliver again. Correct: a
  message is used once, as what it was written as, what was collected is not lost, and the
  chat settles.
- **Sessions and workspaces.** A prompt finds its project, creates or chooses a session in
  it and stores that; the settings page switches the project, deletes the bot or binds it
  again in between, and another page takes away a project that is gone. Three files change
  one after the other. Correct: a prompt is asked in a session of its own project, what is
  stored fits together after any crash, and everybody who waits is woken.
- **Connection supervision.** Credential and config are kept apart and undone one after the
  other; operations wait in a chain while the one before them removes the bot; a supervisor
  reconnects beside them and the channel may be closed at any point. Correct: one
  connection, running with what is stored, no bot brought back, and a broken connection
  comes back by itself.
- **Not modelled yet.** Providers: a refresh racing a login, an expiring device code.
  Market, terminals of the sidebar. Section 7 orders them.

## 2. Modules

| module | models | lines of interest |
|---|---|---|
| `TryLock` | what a caller may rely on: an atomic try-lock | the refinement target of `XtzLock`; `WebLifecycle` composes with it |
| `XtzLock` | `acquireReconcileLock`, `releaseReconcileLock` and the exclusive-file primitives | `app.ts` |
| `AtomicProfile` | what a user may rely on: a profile that changes in one step | the refinement target of `ProfileReconcile` |
| `ProfileReconcile` | `ensureOfficialProfile`, `restoreReconcileBackup`, `rollbackReconcile`, `applyExtraPluginQuarantine` | `app.ts`, `profile-reconciliation.ts` |
| `WebLifecycle` | `startCommand`, `stopCommand`, `restartCommand`, `launchOn`, `launchUnlocked`, `stopProcess` | `app.ts`, `runtime.ts` |
| `HarnessApproval` | `HarnessApprovalQueue` with its callers | `harness-approval.ts` |
| `BotWorkspace` | `BotWorkspaceStore`, the wrapped controller, the session store, `askInWorkspaceSession` | `bot-workspace-store.ts`, `workspace-session.ts`, `conversation-state-store.ts`, `session-binding-lock.ts` |
| `BotController` | `TokenBotController`, its stores, `TokenConnectionSupervisor` | `token-bot-controller.ts`, `token-config-store.ts`, `connection-supervisor.ts` |
| `Conversation` | `TextHarnessBridge`, `BatchInputManager`, `markSeen`, the turns and sockets | `text-harness-bridge.ts`, `batch-input.ts`, `harness-client.ts` |
| `MCXtzLock`, `MCBotWorkspace`, `MCBotController`, `MCConversation` | values of constants: processes and pids, what each request may ask for, what the messages of a chat are | |
| `XtzLock_proofs`, `ProfileReconcile_proofs`, `WebLifecycle_proofs`, `HarnessApproval_proofs`, `BotWorkspace_proofs`, `BotWorkspaceSessions_proofs`, `BotController_proofs`, `Conversation_proofs` | theorems | |

The `cfg` files of the other modules give their constants plain values, so those need no MC
module. `BotWorkspace`, `BotController`, `Conversation` and `HarnessApproval` meet in the same
process: a message goes through `Conversation`, its prompt through `BotWorkspace`, its approvals
through `HarnessApproval`, and deleting a bot through `BotWorkspace` into `BotController`. Each
sees the others as actors that may take any of their steps.

Operators called a *mutant* are plausible bugs. They stand before the definition they
would replace, and no specification uses them: putting one in the place of its
definition must make TLC report a property (`PROJECT.json` pairs them).

### 2.1 XtzLock

Steps are file operations, the granularity at which processes really interleave. Per
process `pc` is the position in `acquireReconcileLock`, `my` its variable `text` (the
record it believes it has published), `todo`, `seen`, `cur` the locals of
`activeContenders`. `dir` and `file` are the disk. A process is a *generation*, what
`processIdentity` tells apart; `PidOf` maps generations to pids, so `p3` can run under the
pid of the dead `p1`. `Hidden` are processes whose identity cannot be read. Starting,
publishing *choosing*, the scan, publishing *ready* with a ticket, the second scan and the
decision are actions of their own; so are both halves of `removeExclusive` (compare, then
unlink or put back). `contended` is a history variable.

Assumed: `readdir` gives one consistent listing, a fresh UUID does not collide, a start time
in whole seconds tells two uses of a pid apart. Other I/O errors end in giving up.

### 2.2 ProfileReconcile

`profile` and `backup` are trees with a manifest, user files, installed modules and a commit
marker, each *none*, *old*, *new*, or damaged, which is what `inspectProfile`, `preservedManifestJson` and
`parseProfileManifest` can tell apart. Renames are atomic; recursive removal and copying go
piece by piece; creating the marker and writing it are two steps. `Crash` may come anywhere;
`Throws` lets any operation fail; both count against `MaxFaults`. `Effective` is the side
the next start will choose, and the refinement mapping to `AtomicProfile`. Three constants
switch on what the code does not guard against: `LateWriteErrors` (a write that rejects after
all was written), `OrphanCommands` (a `dsh plugin add` that outlives its `xtz`), `Unloadable`
(extra plugins that have to be quarantined). The last are taken off in two places: by `Disable`
on the candidate of a synchronisation, while the backup is there, after which the inspection at
`app.ts:1498` finds nothing left to write (`Recheck`); and by `Quarantine` on a profile that was
found synchronised, of which no backup is made. A profile may be synchronised at first (`Init`),
as an earlier `xtz` left it. An orphaned command alters what it finds, and makes the directory
again when that has been moved away.

Left out: what a first `dsh web --dump-default-config` (`app.ts:1273-1279`) leaves when it dies half
way: `Seed` makes the default profile in one step, and what `dsh` writes first is not in this
repository. Further the sandbox branch, path-safety and symlink checks (taken to succeed), the
two-step symlink replacement of `healOfficialHostTools`, loss of unsynced data in a power
failure (the code calls no `fsync`).

### 2.3 WebLifecycle

`record` is the pid file, `stamp` the port of the xtz stamp, `srv` and `bound` the processes
and ports, `xtz[p]` the command in terminal `p` with its locals. `Verdicts` are the answers
`inspectWebPid` may give, `Answers` those of `probeService`. The lock is `TryLock`, acquired
and released by its own actions. `Prepare` is the whole of `ProfileReconcile`: seen from here
it succeeds or fails and takes time, during which anything else may happen. `lost` and
`struck` are history variables for the properties.

Left out: the start that finds the recorded process running and announces it: `InspectStart` only
lets go of the lock then, and `AnnouncesOwn`, which is about the child a start has made, says
nothing of that announcement. Further the file with the authenticated URL, sandbox mode, EPERM from a signal, what
`status` prints. That a pid changes hands between the last identity check and the signal that
follows at once is assumed away, no program can exclude it.

### 2.4 HarnessApproval

One conversation. JavaScript runs one thread, so a step is the code between two `await`s.
What waits in between: `Handler`, the callbacks of the event socket, one after the other
(`callbackTail`); one task per chat message, first come first served per approval
(`replyTail`); the sending of a prompt (`presentationTask`); the rejections of `closeRoute`.
`ask` is the harness's side of an approval. `item` are the `PendingApproval` objects, kept apart
from approvals because a repeated request may create a second object for the same one. `route`
is `ApprovalRoute.items`, `stream` the events received and not handled, `told` the outcomes
the chat was told. `Transition` is `#remove` with `#transition` and `#promote`, including
the barrier (`activationTask`) that keeps the next prompt behind the outcome before it.

A question of the harness in the same conversation is abstracted to four states, as much as
`claimReply` looks at. Left out: what the texts say, whether an operation can be rendered
(nondeterministic: the branch that refuses it is always possible, and its call, `harness-approval.ts:382`
and `:593-608`, is one step that does not fail, where the code may throw and reconnect), the "already settled"
answer a route gives for five minutes after it emptied (it approves nothing), mentions in
groups (a message without one is a stranger's), notices that fail to send (the code ignores
it), messages dropped as duplicates before `claimReply`, and the branch for
`pending.submitting`, which `replyTail` makes unreachable.

### 2.5 BotWorkspace

One bot, its project and the sessions of its conversations. `ws` is the workspace store in
memory, `ops` its write queue, `sess` and `stq` the session store of the conversations with
its pending writes, `disk` the three files, `host` the projects and sessions of the Web. A
*generation* fences sessions against a change of project: whoever has read one stores
nothing once it is old (`CurrentSession`). An *incarnation* fences requests and runtimes
against the deletion and new binding of the same bot (`Current`). A caller is a prompt or a
command of the chat (`Turn`), a request of the settings page, or `Other`, the
reconciliation that serves another bot or a page; `at` says where it is and what it has
read. `outer` and `inner` are the transitions of the wrapped controller and of the
controller itself: holders, not queues, since which of those waiting runs next does not
matter to the properties. The binding lock is per runtime and conversation, since each
runtime makes its own. Stopping a runtime does not abort the turns it has begun, so they go
on and meet the fences.

Two steps of the code are one here. `BindBegins` checks the generation and stores the session
(`bot-workspace-store.ts:775-790`), between which the code compares two paths (`:784`): the operation
is at the head of the write queue, and only a reconciliation that takes the project away could come
between. `DeleteFails`
covers the deletion whose `status()` fails (`:1779`), which aborts like any other.

Assumed or left out: startup is one step and does not fail, the reconciliation inside a
request is `Other`'s, the removal of credential and config is one commit step, a switch of
the chat without its reconciliation of the list, presets, instructions and display names,
`/new` and `/model`, following a session, and the migration of version 1 files. Failed
writes, projects deleted in the Web and restarts share the bound `MaxMishaps`. In the run one
request only deletes and the other does anything (`MCMay`).

### 2.6 BotController

One bot of a channel with a token (Telegram's controller, the one that has access policies too). `cred`
and `config` are what is stored, `rt` the entry of `#runtimes`, `queue` the bot's chain of
transitions, `at` the step of each request, of the supervisor and of the closing. Every call
that a step waits for may fail, and each operation undoes what it has done with calls that may
fail too; `apart` remembers that an undoing failed or the process died in the middle, after
which the two stores need not fit together. Deletions pass the controller of `BotWorkspace`
first, of which only the order is seen here.

Left out: what status reports (`#errors`, `revision`), the connection test, several bots (their
chains are independent) and the lengths of the supervisor's delays. A runtime's connection ends when its
`stop` settles. In the run one request reconnects, deletes and binds, the other binds and
sets the policy (`MCMay`).

### 2.7 Conversation

One direct chat. `says` is what the messages will be, `sent` how many came, `at` the task of
each. What a task waits in is what the code has: `queue` for prompts, the `queue` of a
pending question for its replies, `callbackTail` for the events of a turn's socket (`sock`),
the write of `state.json` for `markSeen`. `batch` is the `BatchInputManager`, `pend` the pending
questions, kept apart from `live`, the one the conversation points at, since replies go on
with an object that is no longer the conversation's. `ask` is the harness's side of a
question. `seen` and `disk` are the remembered ids in memory and on disk; a write takes its
copy when it begins. `uses` and `owed` are history. A restart drops all that is in memory,
after which any message may be delivered again. In a chain of promises the tasks run
one after the other, so only the first one leaves it (`Left`).

Assumed or left out: groups and mentions, approvals (`HarnessApproval`), the other commands,
wording, artifacts and streams, the limit of 1000 remembered ids. Questions recovered at a
restart are cancelled by the prompt's own step (`text-harness-bridge.ts:1021`), and a second question
asked while one is pending (`:1050`) by its callback's; neither of them fails. `StopTurn` stops the turn
(`:433`) and takes the pending question (`:447-451`) in one step; the code awaits the call in between, so
a question of the next turn could be taken instead, which no property is about. A pending object is
used again when nobody has it any more. All mishaps, a failing write, send or call, a lost socket, a restart, share one bound.

## 3. Runs

| run | bounds | properties | what it shows |
|---|---|---|---|
| `lock_reuse` | 3 processes, 2 pids, 1 identity unreadable, 3 tokens, one of them a damaged file's, so 2 attempts, 2 deaths | `MutualExclusion` `HolderRecorded` `BusyOnlyWhenContended` `ImplementsTryLock` `AttemptEnds` | the lock is an atomic try-lock, nobody takes the holder's record, only legitimate contenders turn an attempt away, and no attempt waits for another process |
| `profile_atomic` | 3 faults | `LastCompleteKept` `LaunchesValidated` `AtomicSync` | the transaction is atomic under faults anywhere, and only what was synchronised and checked is launched |
| `profile_converges` | 2 faults, late write errors, orphans, unloadable plugins | `StartsConverge` | a start without new faults cleans up |
| `profile_quarantine` | 1 fault, unloadable plugins, a synchronised profile at first | `LastCompleteKept` *violated* | finding 1 |
| `web_lifecycle` | 2 terminals, 2 servers, 2 ports, 1 poll, 1 death, a legacy record, another program on 3080 | `TypeOK` `OneServer` `StrangersSpared` `StampOfRecorded` `RecordKept` `AnnouncesOwn` | commands in any order keep to one server and its record |
| `web_commands_end` | 2 terminals, 1 server, 2 polls, 1 death, other programs and a `dsh` run by hand | `CommandEnds` | no command hangs |
| `im_approval_order` | 3 approvals and entries, 2 messages that approve, say something else or come from a stranger, 1 failure | `TypeOK` `DecisionForTheShown` `PromptAfterOutcome` | decisions and prompts keep to their order |
| `im_approval_settles` | 2 approvals, 1 message that approves or rejects, a question, 1 failure, 1 closing | `NoticesTruthful` `OneFinalOutcome` `RepliesEnd` `HeadShown` `ShownIsSettled` | the chat hears the truth, once, and nothing hangs |
| `bot_workspace` | 2 projects, 1 conversation, 1 turn, 2 requests, 2 sessions, 1 mishap | `StoredSessionsOfStoredProject` `RuntimeOfPresentBot` `NobodyForgotten` `AskedInOwnProject` `FencedGetsNothing` | projects, sessions and bots fit together in memory and on disk, and a bot being deleted is given nothing |
| `bot_controller` | 2 tokens, 2 policies, 2 requests, 2 troubles | `TypeOK` `OneConnection` `RunsWhatIsStored` `PolicyOnlyBySetting` `BackOnline` `CallsEnd` | one connection, with what is stored, that comes back |
| `conversation` | 4 messages in 6 scripts, 2 questions of 2 parts, batches of 1, 1 mishap | `TypeOK` `NeverTwice` `CollectedAreKept` `RepliesFitTheirQuestion` `ChatSettles` | a message is used once, as what it was written as |
| `conversation_batch` | 3 messages, 1 mishap | `FailedSendsCanBeRetried` *violated* | finding 2 |

**Why the bounds are enough to be interesting.** The lock: two
attempts are what it takes to meet each other choosing, to take the same ticket and to reap a
record that its owner replaces; a third process lets the pid of a dead one be used again next to a
competitor. A third attempt at the same time (four tokens) does not finish in five minutes. The proofs
cover all sizes, but `AttemptEnds` rests on this run alone. The profile: three faults are a
crash, a failing recovery and a crash of the next recovery; the proof covers any number.
Web: two terminals and two servers give the overlap the lock and the foreground gap allow;
polls are a number of identical tries; the proof covers any number of each. Approvals: with
three, one is being confirmed, one
resolved and one waiting to be shown, which is what the barrier is about; two messages are
needed for one to wait behind another. That run has no question and no closing: that a decision put off by
a question counts only for what was shown rests on the proof. The proof of their safety covers any number of approvals,
messages, failures and closings. Workspaces: a second project is needed to switch to
and back again, since an id is never used twice; a request that deletes and one that binds or chooses
are the two sides of both fences, and the turn and `Other` run between them; a second conversation shares no lock
with the first, and the proof covers any number of projects, conversations, turns, requests and mishaps. Controller: a bind with a new token over an old one, undone by a second
trouble; the proof covers any number of requests. Conversation: a batch that fails and is
sent again takes four messages; two questions are needed for one to be asked while the other
is pending, and two parts for an answer that comes late. With two mishaps the safety
properties held as well (2.2 million states), which takes too long to be among the runs;
their proofs cover any number of messages, questions and mishaps.

Runs with `CHECK_DEADLOCK FALSE` may stop: all processes dead or all tokens used
(lock), every server used up (web), nobody asks or writes any more (approvals, workspaces,
controller, conversation). Instead `NobodyForgotten` says of `BotWorkspace` that whoever waits is waiting for somebody
who can go on, and liveness says it of the others. The profile runs do check for deadlock.

## 4. Fairness

- `XtzLock`: weak fairness of the steps an attempt takes by itself, per process: file
  operations settle and the event loop runs. None for starting, dying or releasing.
- `ProfileReconcile`: the steps of a started synchronisation and the end of external commands
  and orphans. None for faults, starts or upgrades.
- `WebLifecycle`: the steps of a command. None for servers, ports, the user's
  answer, the interruption or the end of a foreground child. Polling is bounded in the code (`WEB_READY_ATTEMPTS`, twenty
  checks in `stopProcess`), so no fairness of servers is needed.
- `HarnessApproval`: callbacks and reply tasks run; sending a prompt and calls to the harness
  end (`respondInteraction` times out after 30 s, `closeRoute` after 5 s); the socket is opened again
  (the loop of `watchInteractions`); an answer to a question is processed to its end. That the send of a
  channel adapter ends is assumed. None for asking, writing, stopping, settling elsewhere or failing.
- `BotController`: the timers of the supervisor fire, and the calls of an operation and of the
  closing end, well or badly. None for requests, closing, connections that drop, failing calls or deaths.
- `BotWorkspace`: none, its properties are safety.
- `Conversation`: tasks, callbacks, writes and calls go on and end, sockets are opened again, a
  turn that waits for no question ends. None for writing, asking, answering elsewhere, failing
  or restarting.

## 5. Findings

1. **A crash while an extra plugin is quarantined can destroy the only profile**
   (`profile_quarantine`). A start that finds the profile synchronised makes no backup
   (`app.ts:1288-1290`). If an extra plugin no longer loads, `applyExtraPluginQuarantine` then rewrites
   `package.json` in place (`app.ts:1498`). A crash in that write leaves a manifest that does not
   parse, and every later start refuses it. (After a synchronisation there is nothing left to write at
   that line.)
2. **A batch whose `/send` cannot be recorded is lost** (`conversation_batch`). `#process` writes
   the seen message before the `try` that gives the batch back; when that write fails the
   batch stays *submitting*, and every command for it is turned away until the bot is
   restarted.

More observations, made by TLC in the course of the modelling. Most contradict no document, so no run states them;
each is excluded by name in the property it would break, or marked as a hazard.

- *Profile.* A `dsh plugin add` that outlives its `xtz` goes on writing into the profile the
  next start has restored (`OrphanCommands`). With `LateWriteErrors` two faults in a row
  break `LastCompleteKept`.
- *Web.* The port is probed before the profile is synchronised (`app.ts:1637`) and not again
  before the spawn (`app.ts:1506`): a `dsh` started meanwhile by hand makes a second
  instance, whose answer the start announces as its own (`AnnouncesOwn` allows it; compare `apps/cli/README.md:61`).
- *Approvals.* A decision sent before its prompt counts when it arrives after it. An approval
  settled while the socket is down stays at the head of its route until somebody writes
  (`HeadShown` excludes it).
- *Workspaces.* Between the check that its bot has a project and the asking, a prompt can
  lose the project to the reconciliation of another page (`bot-workspace-store.ts:1184`); it
  is then asked, in its old session, while the project is unconfirmed, which the
  comment at `workspace-session.ts:205-207` rules out.
- *Controllers.* `reconnectBot` and `initialize` read the config before they wait in the
  chain (`token-bot-controller.ts:249`, `:163`). Behind a policy being set they start the
  runtime with the policy from before, although `client/channels/telegram/index.ts:163` says a saved
  empty list rejects everybody. A deletion that is still under way when the
  channel has closed goes on to end its connection afterwards.
- *Conversation.* A *requested* callback that waits behind a presentation runs after its
  turn has ended (`harness-client.ts:1703`) and leaves a question pending that nobody can
  answer; `ChatSettles` excludes it by the name `Stranded`. A reply written before a question
  is presented again is taken for its answer (`text-harness-bridge.ts:894`; the comment at `:918-920` says why it
  should not); `RepliesFitTheirQuestion` is about the part and does not see it. A message that arrives
  while the notice "please
  resend" is being sent becomes the next prompt. After a failed batch, the answer to a
  running turn's question is collected into the batch. `/stop` stops whichever turn runs when its
  own write is done. A message whose write failed is remembered in memory, so its redelivery is
  dropped until a restart.

## 6. Proofs

`tlapm` checks every theorem for all values of the constants that satisfy the `ASSUME`s.

**The lock** (`XtzLock_proofs`): `TypeCorrect`, `Invariance`, `MutualExclusionHolds`,
`HolderRecordedHolds`, `BusyInvariance`, `BusyMeansContended`, `LockRefines`. Mutual exclusion is not inductive: it says nothing about attempts still
under way. The heart of the inductive invariant is `OneYields`: *of any two attempts past
their publication one yields to the other*: it has not scanned yet, or its current scan will still list or
read the other's record, is judging it, or has it among its contenders; and once it has a
ticket of its own, that ticket is higher. Such an attempt cannot win, so two cannot. To keep
that through the removal of records one needs to know that a record being reaped belongs to
no attempt under way (`JudgedRecord`), that an attempt's own record is where it put it
(`OwnRecord`, `OwnSeen`, `FileNames`) and that two running processes have different pids
(`PidsDistinct`). `Holders` then changes only by what `TryLock` allows, which is the refinement.
That an attempt is turned away for a good reason only (`BusyOnlyWhenContended`) rests on a second
invariant, `BusyInv`, of the attempts that have met nothing legitimate: no live record stands
beside theirs, so what such an attempt judges stays on disk as it read it (`Unhindered`,
`DeadQuiet`), and its contenders are no more than its own record.

**The profile** (`ProfileReconcile_proofs`): `TypeCorrect`, `Invariance`, `LastCompleteIsKept`,
`MarkerVouches`, `LaunchIsValidated`, `SyncIsAtomic`. All but `TypeCorrect` assume `Reliable`: no late write
errors, no orphaned commands, no unloadable plugins; without any one of the three TLC finds
`LastCompleteKept` violated. The inductive invariant says which directory to rely on between any two file
operations (`Recoverable`: no backup and the profile whole, or a trusted marker in a whole
profile, or an intact backup next to an unmarked profile) and what each stage knows on top
of it (`StageOK`). For the refinement every step is shown to leave `Effective` unchanged or to
move it as `AtomicProfile` does; the commit point is the write of the marker.

**The Web lifecycle** (`WebLifecycle_proofs`): `Typed`, `Invariance`, `OneServerHolds`,
`StrangersSparedHolds`, `StampOfRecordedHolds`, `RecordKeptHolds`, `AnnouncesOwnHolds`: all the
safety properties of the module. Whoever works holds the lock, by `TryLock`, so nobody
else changes record, stamp or servers and what a command has found of the record stays true
while it acts on it. On that rest: a running server is recorded, about to be
recorded by the holder, or lost (`Accounted`); nobody but strangers and lost children is on
the port of a start besides its own child (`OwnPort`); and a signal goes out only while the
identity just checked still holds.

**The approvals** (`HarnessApproval_proofs`): `TypeCorrect`, `Invariance`, `OutcomeInvariance`,
`DecisionsForTheShown`, `PromptsAfterOutcomes`, `NoticesAreTruthful`, `OutcomesAreFinal`: all the
safety properties, the action properties included. The first invariant, `RouteInv`, is about the route: it
holds every live entry once, in the order of the requests; only its head is shown or waits
behind the barrier; the barrier is up exactly while the one task that removed the entry before
still has its outcome to tell; and of the messages claimed for an entry one at a time is past
`replyTail`. `OutcomeInv` is about what the chat hears: an outcome a task carries or has told is
what the harness decided (`EventsDecided`, `Answered`), an approval has one live entry
(`LiveOnce`), one task tells the outcome of an entry (`OneTeller`), and an entry that has left the
route has its outcome told, on its way, or owed by the closing (`NoticedOrClosed`, `Counted`). Every
step is shown to be of one of a few kinds (it tells nothing, it closes the route, or the task that
removed an entry goes one step further), each of which keeps the invariant.

**The workspaces** (`BotWorkspace_proofs`): `Invariance`, `TypeCorrect`, `NoneForgotten`,
`RuntimeIsOfBot`. `Base` has the types, that a generation is used once, what each caller may be
doing, and that every operation in the write queue has its caller waiting for it. On it rest
the waiters, the holders of the locks and transitions, and what the runtime, the stored
bot and its incarnation are at each step of binding and deleting (`Starting`, `Retiring`, `Removing`,
`Finishing`, `Setting`); together they say that nobody waits for somebody who has ended, and that
what runs at rest is the configured bot in its present incarnation.

**The sessions** (`BotWorkspaceSessions_proofs`): `SessionsOfTheirProject`, `StoredOfStored`,
`AskedInOwn`, `FencedGets`. Of memory, the queue of writes and the disk it says what project their sessions
belong to (`Fit`). What makes that inductive is the switch: while a project is being changed
the sessions in memory are cleared, and their clearing is on its way to the file, has failed or is
done before the new project is stored (`Switch`). A turn that has read a session in the present
generation has read one of the present project (`Reads`); a step that could make that untrue
takes a new generation, so that the turn stores and asks nothing, or nobody present has read yet (`Fences`).
That a fenced bot gets nothing needs one thing more: the fence goes up at the head of the write queue,
where a change of the project is not (`Unfenced`).

**The controller** (`BotController_proofs`): `TypeCorrect`, `Invariance`, `OneConnectionHolds`,
`RunsWhatIsStoredHolds`, `PolicyOnlyBySettingHolds`. The invariant is `Types /\ Chain /\
Links /\ Stored`: only the head of the chain is in the middle of an operation; every
connection belongs to the runtime entry or to the one caller that is ending it; and for each
step what credential, config and runtime are then, which is what its going on or its undoing relies on.

**The conversation** (`Conversation_proofs`): `Invariance`, `NeverTwiceHolds`,
`CollectedAreKeptHolds`, `RepliesFitHolds`, `ChainsInvariance`, `TypeCorrect`, by four inductive invariants. `Inv`: a write of
`state.json` under way holds its message and all that is on disk, so the disk only grows, and
a message is used only when it is there, never to be accepted again. `BatchInv`: the batch
in submission is the one its task carries, and whatever is owed is in the batch or in that task.
`ReplyInv`: a task that claims an answer is in the queue of the question it read, and that
question stays at the part it read until the claim is given up. `Shapes /\ Chains`, behind
`TypeOK`: whoever waits for a chain is in it (`Prompted`, `Listed`), and in a chain of replies
all but the first wait, for this question, and nobody is in it twice (`Line`). A task ends only when
it is the first of each chain it is in, also a reply that was put back as a prompt and keeps
its place, so the chains lose nobody but the task that ends.

**Proved, but in no run**: `MarkerOnlyOnWhole`, and the type invariants of `XtzLock`,
`ProfileReconcile` and `BotWorkspace`.

**Only model-checked**: liveness (`AttemptEnds`, `StartsConverge`, `CommandEnds`,
`RepliesEnd`, `HeadShown`, `ShownIsSettled`, `BackOnline`, `CallsEnd`, `ChatSettles`): fairness and
`ENABLED` are beyond the prover. Every invariant and every action property of the passing runs is
proved. No module uses `RECURSIVE`; no result needs induction over data, which the prover cannot do either.

## 7. Plan

Done: the lock, the profile, the Web lifecycle, approvals, workspaces, the controller, the
conversation. Next, in this order:

1. **Proofs** of the abstract specifications that are only in prose so far: the order of approvals as
   a queue, the chat as a sequence of turns, each with a refinement mapping.
2. **Providers** (`auth/store.ts`, `auth/oauth-flow.ts`, `auth/device-flow.ts`,
   `providers/common.ts`, `router/health.ts`): one login at a time, refresh against logout,
   opening and closing of a route's circuit.
3. **Market** installation with roll-back, the **sidebar** pty manager, the other supervisors,
   the archive ledger of the workbench.

## 8. Not modelled, and why

Channel adapters and translators of model protocols convert data; their code has little control worth a model. The
browser code, the website, templates and scripts keep no shared state. The read-only
commands change nothing the models keep. The Feishu supervisor has the shape of the shared
one. The harness (`dsh`), the operating system, vendors and people appear
as external actions: they may do whatever the code has to expect of them.
