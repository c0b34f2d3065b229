--------------------------- MODULE WebLifecycle ---------------------------
(***************************************************************************)
(* start, stop, restart and start --foreground of the xtz command line     *)
(* (apps/cli/src/app.ts) with stopProcess of runtime.ts: the pid record     *)
(* xiaotaozi-xtz-web.pid, the port stamp, and the servers they are about.   *)
(*                                                                          *)
(* Every command runs under the lifecycle lock, here the atomic try-lock    *)
(* that XtzLock implements; a foreground start lets go of it while it waits *)
(* for its child.  Servers come up, exit and lose their pid to strangers at *)
(* any time, other programs come and go on the ports, and an xtz may die    *)
(* between any two steps.                                                   *)
(***************************************************************************)
EXTENDS Naturals

CONSTANTS
  Xtz,             \* terminals an xtz command can run in, one after the other
  Srv,             \* server processes, 1..n in the order they are spawned
  Official, Alternate,  \* the two ports: 3080 and the one findFreeAlternatePort has
  Nobody, Other, Dsh,   \* on a port: no one, another program, a dsh run by hand
  Foreign,         \* which of the last two may come up
  Unmanaged,       \* ports on which they may
  SlowAnswers,     \* whether a server may take longer than the probe waits
  Legacy,          \* servers a record without identity may name at the start
  MaxPolls,        \* bound for WEB_READY_ATTEMPTS and the 20 checks of stopProcess
  MaxDeaths        \* bound on the xtz processes that die

Port == {Official, Alternate}

ASSUME WebLifecycleAssumption ==
  /\ Srv \subseteq Nat \ {0} /\ Legacy \subseteq Srv
  /\ Official # Alternate /\ Unmanaged \subseteq Port
  /\ {Nobody, Other, Dsh} \cap Srv = {}
  /\ Foreign \subseteq {Other, Dsh}
  /\ SlowAnswers \in BOOLEAN
  /\ MaxPolls \in Nat /\ MaxDeaths \in Nat

VARIABLES
  holders,   \* of the lifecycle lock
  record,    \* the pid record
  stamp,     \* the port in the xtz stamp
  srv,       \* every server process: its state and the port it was given
  bound,     \* who listens on each port
  xtz,       \* every running command with its locals
  lost,      \* history: servers whose start ended before they were recorded
  struck,    \* history: servers whose pid a stranger had when it was signalled
  deaths     \* xtz processes that died

files == <<record, stamp>>
history == <<lost, struck>>
vars == <<holders, files, srv, bound, xtz, history, deaths>>

Lock == INSTANCE TryLock WITH Proc <- Xtz

-----------------------------------------------------------------------------
(* Types *)

NoRecord == [srv |-> 0, identified |-> FALSE]
WebPidRecord == [srv : Srv \cup {0}, identified : BOOLEAN]

\* "stopping" after SIGTERM, "killed" after SIGKILL, until they are gone;
\* "reused": gone, and another process has the pid.
State == {"unborn", "booting", "serving", "stopping", "killed", "dead", "reused"}

Command == {"start", "foreground", "stop", "restart"}

PC == {"idle", "inspect", "probe", "ask", "launch", "prepare", "spawn", "record",
       "ready", "announce", "attached", "term", "signal", "poll", "killing",
       "compare", "remove", "again", "release"}

Idle == [pc |-> "idle", cmd |-> "start", explicit |-> FALSE, port |-> Official,
         rec |-> NoRecord, next |-> "release", polls |-> 0]

TypeOK ==
  /\ holders \subseteq Xtz
  /\ record \in WebPidRecord
  /\ stamp \in Port
  /\ srv \in [Srv -> [state : State, port : Port]]
  /\ bound \in [Port -> Srv \cup {Nobody, Other, Dsh}]
  /\ xtz \in [Xtz -> [pc : PC, cmd : Command, explicit : BOOLEAN, port : Port,
                      rec : WebPidRecord, next : {"probe", "again", "release"},
                      polls : 0..MaxPolls]]
  /\ lost \subseteq Srv /\ struck \subseteq Srv
  /\ deaths \in 0..MaxDeaths

-----------------------------------------------------------------------------
(* Servers *)

Running(s) == srv[s].state \in {"booting", "serving", "stopping"}

Alive(s) == Running(s) \/ srv[s].state = "killed"

Becomes(s, state) == srv' = [srv EXCEPT ![s].state = state]

Unbound(s) == [q \in Port |-> IF bound[q] = s THEN Nobody ELSE bound[q]]

Init ==
  /\ holders = {} /\ deaths = 0 /\ lost = {} /\ struck = {}
  /\ stamp = Official
  /\ xtz = [p \in Xtz |-> Idle]
  /\ \/ /\ record = NoRecord
        /\ srv = [s \in Srv |-> [state |-> "unborn", port |-> Official]]
        /\ bound = [q \in Port |-> Nobody]
     \/ \E s \in Legacy, st \in {"serving", "dead", "reused"} :
          /\ record = [srv |-> s, identified |-> FALSE]
          /\ srv = [t \in Srv |-> [state |-> IF t = s THEN st ELSE "unborn",
                                   port |-> Official]]
          /\ bound = [q \in Port |-> IF q = Official /\ st = "serving" THEN s ELSE Nobody]

World == <<holders, files, xtz, history, deaths>>

\* dsh web listens on its port, or exits when it is taken.
Bind(s) ==
  /\ srv[s].state = "booting"
  /\ LET q == srv[s].port IN
     IF bound[q] = Nobody THEN Becomes(s, "serving") /\ bound' = [bound EXCEPT ![q] = s]
                          ELSE Becomes(s, "dead") /\ UNCHANGED bound
  /\ UNCHANGED World

Exit(s) == Alive(s) /\ Becomes(s, "dead") /\ bound' = Unbound(s) /\ UNCHANGED World

\* The child of an attached xtz keeps its pid until that has seen it close.  That
\* a pid passes on between the last identity check and the kill that follows it
\* at once is assumed away: no program can exclude it.
Reuse(s) ==
  /\ srv[s].state = "dead" /\ Becomes(s, "reused")
  /\ \A p \in Xtz :
       xtz[p].rec.srv = s => xtz[p].pc \notin {"attached", "signal", "killing"}
  /\ UNCHANGED <<bound, World>>

StrangerExits(s) == srv[s].state = "reused" /\ Becomes(s, "dead") /\ UNCHANGED <<bound, World>>

ForeignArrives(q) ==
  /\ q \in Unmanaged /\ bound[q] = Nobody
  /\ \E f \in Foreign : bound' = [bound EXCEPT ![q] = f]
  /\ UNCHANGED <<srv, World>>

ForeignLeaves(q) ==
  /\ bound[q] \in Foreign /\ bound' = [bound EXCEPT ![q] = Nobody]
  /\ UNCHANGED <<srv, World>>

Environment ==
  \/ \E s \in Srv : Bind(s) \/ Exit(s) \/ Reuse(s) \/ StrangerExits(s)
  \/ \E q \in Port : ForeignArrives(q) \/ ForeignLeaves(q)

-----------------------------------------------------------------------------
(* What a command can find out *)

\* Mutant: a process whose identity cannot be read is taken for a dead one.
VerdictsGuessing(r) ==
  CASE r = NoRecord -> {"none"}
    [] r # NoRecord /\ srv[r.srv].state = "dead" -> {"not-running"}
    [] OTHER -> {"not-running"} \cup (IF r.identified THEN {"owned"} ELSE {})

\* processAlive, processIdentity, processAlive of the process of a record; the
\* identity may be unreadable at any time.
Verdicts(r) ==
  CASE r = NoRecord -> {"none"}
    [] r # NoRecord /\ srv[r.srv].state = "dead" -> {"not-running"}
    [] r # NoRecord /\ srv[r.srv].state = "reused" ->
         {"unavailable"} \cup (IF r.identified THEN {"reused"} ELSE {})
    [] OTHER -> {"unavailable"} \cup (IF r.identified THEN {"owned"} ELSE {})

\* probeService; a server that is too slow to answer, or has not registered its
\* identity route yet, only shows that the port is taken.
Answers(q) ==
  CASE bound[q] = Nobody -> {"stopped"}
    [] bound[q] = Other -> {"occupied"}
    [] OTHER -> {"running"} \cup (IF SlowAnswers THEN {"occupied"} ELSE {})

-----------------------------------------------------------------------------
(* Steps of a command *)

At(p, l) == xtz[p].pc = l

Goto(p, l) == xtz' = [xtz EXCEPT ![p].pc = l]

\* clearWebPidIfCurrent(r), then go on at l.
Clear(p, r, l) ==
  xtz' = [xtz EXCEPT ![p].pc = "compare", ![p].rec = r, ![p].next = l]

\* stopRecordedPid(r)
Stop(p, r) == xtz' = [xtz EXCEPT ![p].pc = "term", ![p].rec = r, ![p].polls = 0]

Rest == <<holders, files, srv, bound, history, deaths>>

\* Mutant: the stamp is written with the arguments, before anything is checked.
BeginStamping(p) ==
  /\ At(p, "idle") /\ Lock!Acquire(p)
  /\ \E c \in Command, q \in Port :
       /\ c \in {"stop", "restart"} => q = Official
       /\ stamp' = q
       /\ xtz' = [xtz EXCEPT ![p] =
                   [Idle EXCEPT !.pc = "inspect", !.cmd = c, !.port = q, !.explicit = TRUE]]
  /\ UNCHANGED <<record, srv, bound, history, deaths>>

Begin(p) ==
  /\ At(p, "idle") /\ Lock!Acquire(p)
  /\ \E c \in Command, q \in Port, explicit \in BOOLEAN :
       /\ c \in {"stop", "restart"} => q = Official /\ ~explicit
       /\ q # Official => explicit
       /\ xtz' = [xtz EXCEPT ![p] =
                   [Idle EXCEPT !.pc = "inspect", !.cmd = c, !.port = q, !.explicit = explicit]]
  /\ UNCHANGED <<files, srv, bound, history, deaths>>

\* startCommand, until it turns to the port.  Over an owned process it only
\* reports: announced if the server answers, refused if it does not.
InspectStart(p) ==
  /\ At(p, "inspect") /\ xtz[p].cmd \in {"start", "foreground"}
  /\ \E v \in Verdicts(record) :
       \/ v = "none" /\ Goto(p, "probe")
       \/ v \in {"owned", "unavailable"} /\ Goto(p, "release")
       \/ v \in {"not-running", "reused"} /\ Clear(p, record, "probe")
  /\ UNCHANGED Rest

\* stopCommand
InspectStop(p) ==
  /\ At(p, "inspect") /\ xtz[p].cmd = "stop"
  /\ \E v \in Verdicts(record) :
       \/ v \in {"none", "unavailable"} /\ Goto(p, "release")
       \/ v \in {"not-running", "reused"} /\ Clear(p, record, "release")
       \/ v = "owned" /\ Stop(p, record)
  /\ UNCHANGED Rest

\* stopForRestart
InspectRestart(p) ==
  /\ At(p, "inspect") /\ xtz[p].cmd = "restart"
  /\ \E v \in Verdicts(record) :
       \/ v = "none" /\ Goto(p, "again")
       \/ v = "unavailable" /\ Goto(p, "release")
       \/ v = "not-running" /\ Clear(p, record, "again")
       \/ v = "reused" /\ Clear(p, record, "release")
       \/ v = "owned" /\ Stop(p, record)
  /\ UNCHANGED Rest

\* restartCommand goes on with a plain start.
StartAgain(p) ==
  /\ At(p, "again")
  /\ xtz' = [xtz EXCEPT ![p] = [Idle EXCEPT !.pc = "inspect"]]
  /\ UNCHANGED Rest

\* Mutant: the record is removed whosever it is by now.
CompareNothing(p) == At(p, "compare") /\ Goto(p, "remove") /\ UNCHANGED Rest

\* clearWebPidIfCurrent: read and compare, then remove.
Compare(p) ==
  /\ At(p, "compare")
  /\ Goto(p, IF record = xtz[p].rec THEN "remove" ELSE "release")
  /\ UNCHANGED Rest

\* The pid file, then the auth URL file; either removal may throw, which fails
\* the command.
Remove(p) ==
  /\ At(p, "remove")
  /\ \/ record' = NoRecord /\ Goto(p, xtz[p].next)
     \/ record' \in {NoRecord, record} /\ Goto(p, "release")
  /\ UNCHANGED <<holders, stamp, srv, bound, history, deaths>>

Release(p) ==
  /\ At(p, "release") /\ Lock!Release(p)
  /\ xtz' = [xtz EXCEPT ![p] = Idle]
  /\ UNCHANGED <<files, srv, bound, history, deaths>>

-----------------------------------------------------------------------------
(* Launching: the end of startCommand, launchOn and launchUnlocked *)

Probe(p) ==
  /\ At(p, "probe")
  /\ \E a \in Answers(xtz[p].port) :
       \/ a = "stopped" /\ Goto(p, "launch")
       \/ a = "running" /\ Goto(p, "release")
       \/ a = "occupied" /\ Goto(p, IF xtz[p].explicit THEN "release" ELSE "ask")
  /\ UNCHANGED Rest

\* The question whether to use another port; nobody may be there to answer.
Ask(p) ==
  /\ At(p, "ask")
  /\ \/ Goto(p, "release")
     \/ /\ "stopped" \in Answers(Alternate)
        /\ xtz' = [xtz EXCEPT ![p].pc = "launch", ![p].port = Alternate]
  /\ UNCHANGED Rest

\* The record is inspected again, under the same lock: nobody can have written one
\* (TypeOK), but one found stale would be cleared as in InspectStart.
Launch(p) ==
  /\ At(p, "launch")
  /\ \E v \in Verdicts(record), a \in Answers(Official) :
       IF v \in {"not-running", "reused"}
         THEN Clear(p, record, "launch")
         ELSE Goto(p, IF v # "none" \/ (xtz[p].port # Official /\ a = "running")
                      THEN "release" ELSE "prepare")
  /\ UNCHANGED Rest

\* ensureOfficialProfile (module ProfileReconcile), which takes its time, and
\* writeXtzStamp.
Prepare(p) ==
  /\ At(p, "prepare")
  /\ \/ Goto(p, "release") /\ UNCHANGED stamp
     \/ Goto(p, "spawn") /\ stamp' = xtz[p].port
  /\ UNCHANGED <<holders, record, srv, bound, history, deaths>>

\* A child whose identity cannot be read gets a SIGTERM and is given up.
Spawn(p) ==
  /\ At(p, "spawn")
  /\ \/ \E s \in Srv :
          /\ srv[s].state = "unborn" /\ \A t \in Srv : t < s => srv[t].state # "unborn"
          /\ \/ /\ srv' = [srv EXCEPT ![s] = [state |-> "booting", port |-> xtz[p].port]]
                /\ xtz' = [xtz EXCEPT ![p].pc = "record",
                                      ![p].rec = [srv |-> s, identified |-> TRUE]]
                /\ UNCHANGED lost
             \/ /\ srv' = [srv EXCEPT ![s] = [state |-> "stopping", port |-> xtz[p].port]]
                /\ Goto(p, "release")
                /\ lost' = lost \cup {s}
     \/ Goto(p, "release") /\ UNCHANGED <<srv, lost>>
  /\ UNCHANGED <<holders, files, bound, struck, deaths>>

\* writeWebPid; when it throws the command fails and the child runs on.
WriteRecord(p) ==
  /\ At(p, "record")
  /\ \/ /\ record' = xtz[p].rec
        /\ xtz' = [xtz EXCEPT ![p].pc = "ready", ![p].polls = 0]
        /\ UNCHANGED lost
     \/ /\ Goto(p, "release") /\ UNCHANGED record
        /\ lost' = lost \cup {xtz[p].rec.srv}
  /\ UNCHANGED <<holders, stamp, srv, bound, struck, deaths>>

\* Mutant: one poll too many.
ReadyOffByOne(p) ==
  /\ At(p, "ready")
  /\ \E a \in Answers(xtz[p].port) :
       \/ a = "running" /\ Goto(p, "announce")
       \/ /\ a # "running" /\ xtz[p].polls <= MaxPolls
          /\ xtz' = [xtz EXCEPT ![p].polls = @ + 1]
       \/ a # "running" /\ xtz[p].polls > MaxPolls /\ Stop(p, xtz[p].rec)
  /\ UNCHANGED Rest

\* Mutant: whatever answers on the port will be the child.
ReadyAnyAnswer(p) ==
  /\ At(p, "ready")
  /\ \E a \in Answers(xtz[p].port) :
       \/ a # "stopped" /\ Goto(p, "announce")
       \/ a = "stopped" /\ Stop(p, xtz[p].rec)
  /\ UNCHANGED Rest

\* waitUntilReady
Ready(p) ==
  /\ At(p, "ready")
  /\ \E a \in Answers(xtz[p].port) :
       \/ a = "running" /\ Goto(p, "announce")
       \/ /\ a # "running" /\ xtz[p].polls < MaxPolls
          /\ xtz' = [xtz EXCEPT ![p].polls = @ + 1]
       \/ /\ a # "running" /\ xtz[p].polls = MaxPolls
          /\ Stop(p, xtz[p].rec)
  /\ UNCHANGED Rest

\* announceRunning; a foreground start releases the lock before it waits.
Announce(p) ==
  /\ At(p, "announce")
  /\ \/ /\ xtz[p].cmd = "start" /\ Goto(p, "release")
        /\ UNCHANGED holders
     \/ /\ xtz[p].cmd = "foreground" /\ Goto(p, "attached")
        /\ Lock!Release(p)
  /\ UNCHANGED <<files, srv, bound, history, deaths>>

\* Ctrl-C: stopRecordedPid on the own child, with SIGTERM and then, while the
\* command goes on waiting for the child, with SIGKILL.
Interrupt(p) ==
  /\ At(p, "attached") /\ Running(xtz[p].rec.srv)
  /\ Becomes(xtz[p].rec.srv,
             IF srv[xtz[p].rec.srv].state = "stopping" THEN "killed" ELSE "stopping")
  /\ UNCHANGED <<holders, files, bound, xtz, history, deaths>>

\* The child has closed: with the lock the record is cleared, without it stays.
Complete(p) ==
  /\ At(p, "attached") /\ ~Alive(xtz[p].rec.srv)
  /\ \/ Lock!Acquire(p) /\ Clear(p, xtz[p].rec, "release")
     \/ xtz' = [xtz EXCEPT ![p] = Idle] /\ UNCHANGED holders
  /\ UNCHANGED <<files, srv, bound, history, deaths>>

-----------------------------------------------------------------------------
(* stopProcess *)

\* "stopped" and "not-running": the callers clear the record.
Stopped(p) ==
  Clear(p, xtz[p].rec, IF xtz[p].cmd = "restart" THEN "again" ELSE "release")

\* The checks before SIGTERM.  A mismatch clears the record, except for a server
\* that did not become ready.
CheckTerm(p) ==
  /\ At(p, "term")
  /\ \E v \in Verdicts(xtz[p].rec) :
       \/ v = "not-running" /\ Stopped(p)
       \/ v = "unavailable" /\ Goto(p, "release")
       \/ v = "reused" /\ IF xtz[p].cmd \in {"stop", "restart"}
                          THEN Clear(p, xtz[p].rec, "release") ELSE Goto(p, "release")
       \/ v = "owned" /\ Goto(p, "signal")
  /\ UNCHANGED Rest

\* process.kill: whoever has the pid gets it.
Kill(s, state) ==
  /\ srv' = IF Running(s) THEN [srv EXCEPT ![s].state = state] ELSE srv
  /\ struck' = IF srv[s].state = "reused" THEN struck \cup {s} ELSE struck

Terminate(p) ==
  /\ At(p, "signal") /\ Kill(xtz[p].rec.srv, "stopping")
  /\ Goto(p, "poll")
  /\ UNCHANGED <<holders, files, bound, lost, deaths>>

\* Mutant: the identity is not compared again while waiting.
PollPidOnly(p) ==
  /\ At(p, "poll")
  /\ \E v \in Verdicts(xtz[p].rec) :
       \/ v = "not-running" /\ Stopped(p)
       \/ v # "not-running" /\ Goto(p, "killing")
  /\ UNCHANGED Rest

\* Mutant: wait until the process is gone, however long it takes.
PollForEver(p) ==
  /\ At(p, "poll")
  /\ \E v \in Verdicts(xtz[p].rec) :
       \/ v \in {"not-running", "reused"} /\ Stopped(p)
       \/ v = "unavailable" /\ Goto(p, "release")
       \/ v = "owned" /\ xtz' = [xtz EXCEPT ![p].polls = (@ + 1) % MaxPolls]
  /\ UNCHANGED Rest

\* The checks while waiting and the last one before SIGKILL.
Poll(p) ==
  /\ At(p, "poll")
  /\ \E v \in Verdicts(xtz[p].rec) :
       \/ v \in {"not-running", "reused"} /\ Stopped(p)
       \/ v = "unavailable" /\ Goto(p, "release")
       \/ /\ v = "owned" /\ xtz[p].polls < MaxPolls
          /\ xtz' = [xtz EXCEPT ![p].polls = @ + 1]
       \/ v = "owned" /\ xtz[p].polls = MaxPolls /\ Goto(p, "killing")
  /\ UNCHANGED Rest

ForceKill(p) ==
  /\ At(p, "killing") /\ Kill(xtz[p].rec.srv, "killed")
  /\ Stopped(p)
  /\ UNCHANGED <<holders, files, bound, lost, deaths>>

-----------------------------------------------------------------------------
\* Whatever an xtz was doing, its death frees the lock and leaves the rest.
Die(p) ==
  /\ ~At(p, "idle") /\ deaths < MaxDeaths /\ deaths' = deaths + 1
  /\ holders' = holders \ {p}
  /\ lost' = IF At(p, "record") THEN lost \cup {xtz[p].rec.srv} ELSE lost
  /\ xtz' = [xtz EXCEPT ![p] = Idle]
  /\ UNCHANGED <<files, srv, bound, struck>>

\* The steps a command takes without waiting for its user or its child.
Work(p) ==
  \/ InspectStart(p) \/ InspectStop(p) \/ InspectRestart(p) \/ StartAgain(p)
  \/ Compare(p) \/ Remove(p) \/ Release(p)
  \/ Probe(p) \/ Launch(p) \/ Prepare(p) \/ Spawn(p) \/ WriteRecord(p) \/ Ready(p)
  \/ Announce(p) \/ CheckTerm(p) \/ Terminate(p) \/ Poll(p) \/ ForceKill(p)

Step(p) == Begin(p) \/ Work(p) \/ Ask(p) \/ Interrupt(p) \/ Complete(p) \/ Die(p)

Next == Environment \/ \E p \in Xtz : Step(p)

Spec == Init /\ [][Next]_vars

\* The event loop of a command runs on.
FairSpec == Spec /\ \A p \in Xtz : WF_vars(Work(p))

-----------------------------------------------------------------------------
(* Properties *)

\* xtz never has two servers running, through any order of commands, deaths and
\* lost signals, but for the children whose start ended before the record.
OneServer == \A s, t \in Srv \ lost : Running(s) /\ Running(t) => s = t

\* "never kills a process it did not start" (apps/cli/README.md): no signal goes
\* to a process that has taken over the pid of a recorded server.
StrangersSpared == struck = {}

\* The record of a server is not removed, by whichever command, for as long as
\* it is the way to stop it: only a server that is gone or was killed loses it.
RecordKept ==
  [][record # NoRecord /\ record' # record
       => srv[record.srv].state \in {"killed", "dead", "reused"}]_vars

\* A start that reports success has its own child answering on the port, unless
\* a dsh run by hand or a child it lost track of does.  (What a start announces that
\* finds the recorded process running is not looked at.)
AnnouncesOwn ==
  [][\A p \in Xtz : At(p, "ready") /\ At(p, "announce")'
       => bound[xtz[p].port] \in {xtz[p].rec.srv, Dsh} \cup lost]_vars

\* status, open and start look for the recorded server on the port it was given.
StampOfRecorded ==
  record # NoRecord /\ Running(record.srv) => stamp = srv[record.srv].port

\* A command comes to an end: nothing it polls keeps it for ever, unless it has
\* a question open or a child in the foreground.
CommandEnds ==
  \A p \in Xtz : At(p, "inspect") ~> xtz[p].pc \in {"idle", "ask", "attached"}
=============================================================================
