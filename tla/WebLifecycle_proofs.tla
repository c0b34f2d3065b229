-------------------------- MODULE WebLifecycle_proofs --------------------------
(* WebLifecycle for any number of terminals, servers, polls and deaths: the     *)
(* types of its state, one server, its record and its stamp.                    *)
EXTENDS WebLifecycle, TLAPS

-----------------------------------------------------------------------------
(* Types                                                                    *)

Locals == [pc : PC, cmd : Command, explicit : BOOLEAN, port : Port,
           rec : WebPidRecord, next : {"probe", "again", "release"},
           polls : 0..MaxPolls]

\* The commands that have a server in their record.
Has == {"record", "ready", "announce", "attached", "term", "signal", "poll", "killing",
        "compare", "remove"}

\* A record names a server that was started, and so does the one of a command that
\* deals with it.
Born(s) == s \in Srv /\ srv[s].state # "unborn"

NamesOne(p) == xtz[p].pc \in Has => Born(xtz[p].rec.srv)

Recorded == record = NoRecord \/ Born(record.srv)

Named == Recorded /\ \A p \in Xtz : NamesOne(p)

Types == TypeOK /\ Named

\* A command begins with locals of their types.
LEMMA IdleFits == Idle \in Locals /\ NoRecord \in WebPidRecord
  BY WebLifecycleAssumption DEF Idle, Locals, PC, Command, Port, NoRecord, WebPidRecord

\* The types hold at the start.
LEMMA InitTypes ==
  ASSUME Init
  PROVE  Types
<1>1. stamp \in Port /\ xtz \in [Xtz -> Locals] /\ deaths \in 0..MaxDeaths
  BY IdleFits, WebLifecycleAssumption DEF Init, Port
<1>2. record \in WebPidRecord /\ (record = NoRecord \/ Born(record.srv))
  <2>1. CASE record = NoRecord
    BY <2>1, IdleFits
  <2>2. CASE \E s \in Legacy, st \in {"serving", "dead", "reused"} :
               /\ record = [srv |-> s, identified |-> FALSE]
               /\ srv = [t \in Srv |-> [state |-> IF t = s THEN st ELSE "unborn",
                                        port |-> Official]]
    BY <2>2, WebLifecycleAssumption DEF WebPidRecord, Born
  <2> QED
    BY <2>1, <2>2 DEF Init
<1>3. srv \in [Srv -> [state : State, port : Port]]
  <2>1. /\ \A s \in Srv : srv[s] \in [state : State, port : Port]
        /\ srv = [s \in Srv |-> srv[s]]
    BY DEF Init, State, Port
  <2> QED
    BY <2>1
<1>4. bound \in [Port -> Srv \cup {Nobody, Other, Dsh}]
  BY WebLifecycleAssumption DEF Init
<1> QED
  BY <1>1, <1>2, <1>3, <1>4, IdleFits DEF Init, Types, Named, NamesOne, Recorded, TypeOK, Locals, Has, Idle

\* Servers, ports and strangers.
LEMMA EnvironmentTypes ==
  ASSUME Types, Environment
  PROVE  Types' /\ UNCHANGED World
<1>1. srv' \in [Srv -> [state : State, port : Port]]
      /\ bound' \in [Port -> Srv \cup {Nobody, Other, Dsh}]
  BY WebLifecycleAssumption
     DEF Types, TypeOK, Environment, Bind, Exit, Reuse, StrangerExits, ForeignArrives,
         ForeignLeaves, Becomes, Unbound, State
<1>2. UNCHANGED World
  BY DEF Environment, Bind, Exit, Reuse, StrangerExits, ForeignArrives, ForeignLeaves
<1>3. \A s \in Srv : Born(s) => Born(s)'
  BY DEF Types, TypeOK, Environment, Bind, Exit, Reuse, StrangerExits, ForeignArrives,
         ForeignLeaves, Becomes, Born
<1>4. Named'
  BY <1>2, <1>3 DEF Types, Named, NamesOne, Recorded, World, files, Born
<1> QED
  BY <1>1, <1>2, <1>4 DEF Types, TypeOK, World, files, history

\* What a verdict tells of the process of a record.
LEMMA VerdictsTell ==
  ASSUME NEW r, NEW v \in Verdicts(r)
  PROVE  /\ v \in {"none", "not-running", "reused", "unavailable", "owned"}
         /\ v = "none" <=> r = NoRecord
         /\ v = "not-running" => srv[r.srv].state = "dead"
         /\ v = "reused" => srv[r.srv].state = "reused"
         /\ v = "owned" => srv[r.srv].state \notin {"dead", "reused"}
<1>1. CASE r = NoRecord
  BY <1>1 DEF Verdicts
<1>2. CASE r # NoRecord /\ srv[r.srv].state = "dead"
  BY <1>2 DEF Verdicts
<1>3. CASE r # NoRecord /\ srv[r.srv].state = "reused"
  BY <1>3 DEF Verdicts
<1>4. CASE r # NoRecord /\ srv[r.srv].state \notin {"dead", "reused"}
  BY <1>4 DEF Verdicts
<1> QED
  BY <1>1, <1>2, <1>3, <1>4

\* What an answer tells of a port.
LEMMA AnswersTell ==
  ASSUME NEW q, NEW a \in Answers(q)
  PROVE  /\ a \in {"stopped", "running", "occupied"}
         /\ a = "stopped" => bound[q] = Nobody
         /\ a = "running" => bound[q] \notin {Nobody, Other}
<1>1. CASE bound[q] \in {Nobody, Other}
  BY <1>1 DEF Answers
<1>2. CASE bound[q] \notin {Nobody, Other}
  BY <1>2 DEF Answers
<1> QED
  BY <1>1, <1>2

\* The steps that only move their command.
Quiet(p) == \/ InspectStart(p) \/ InspectStop(p) \/ InspectRestart(p) \/ StartAgain(p)
            \/ Compare(p) \/ Probe(p) \/ Ask(p) \/ Launch(p) \/ Ready(p)
            \/ CheckTerm(p) \/ Poll(p)

\* A quiet step leaves everything but the locals of its command.
LEMMA QuietRests ==
  ASSUME NEW p \in Xtz, Quiet(p)
  PROVE  UNCHANGED Rest
  BY DEF Quiet, InspectStart, InspectStop, InspectRestart, StartAgain, Compare, Probe,
         Ask, Launch, Ready, CheckTerm, Poll

\* What a step of p does to its locals.
LEMMA StepOfOne ==
  ASSUME NEW p \in Xtz, Types, Step(p)
  PROVE  xtz' \in [Xtz -> Locals] /\ \A q \in Xtz \ {p} : xtz'[q] = xtz[q]
<1> USE WebLifecycleAssumption DEF At, Goto, Clear, Stop, Stopped, PC, Locals
<1>t. xtz \in [Xtz -> Locals] /\ record \in WebPidRecord /\ stamp \in Port
      /\ srv \in [Srv -> [state : State, port : Port]] /\ holders \subseteq Xtz
  BY DEF Types, TypeOK
<1>1. xtz' \in [Xtz -> Locals]
  <2>1. CASE Begin(p)
    <3>1. PICK c \in Command, q \in Port, explicit \in BOOLEAN :
             xtz' = [xtz EXCEPT ![p] = [Idle EXCEPT !.pc = "inspect", !.cmd = c, !.port = q,
                                          !.explicit = explicit]]
      BY <2>1 DEF Begin
    <3>2. [Idle EXCEPT !.pc = "inspect", !.cmd = c, !.port = q, !.explicit = explicit] \in Locals
      BY IdleFits
    <3> QED
      BY <1>t, <3>1, <3>2
  <2>2. CASE Ask(p) \/ Interrupt(p) \/ Complete(p) \/ Die(p)
    BY <1>t, <2>2, IdleFits DEF Ask, Interrupt, Complete, Die, Port
  <2>3. CASE InspectStart(p) \/ InspectStop(p) \/ InspectRestart(p)
    BY <1>t, <2>3 DEF InspectStart, InspectStop, InspectRestart
  <2>4. CASE StartAgain(p)
    <3>1. [Idle EXCEPT !.pc = "inspect"] \in Locals
      BY IdleFits
    <3> QED
      BY <1>t, <2>4, <3>1 DEF StartAgain
  <2>8. CASE Release(p)
    BY <1>t, <2>8, IdleFits DEF Release
  <2>11. CASE Compare(p)
    <3>1. \E l \in {"remove", "release"} : Goto(p, l)
      BY <2>11 DEF Compare
    <3> QED
      BY <1>t, <3>1
  <2>9. CASE Remove(p)
    <3>1. xtz[p].next \in PC
      BY <1>t
    <3> QED
      BY <1>t, <2>9, <3>1 DEF Remove
  <2>5. CASE Probe(p) \/ Launch(p) \/ Prepare(p)
    BY <1>t, <2>5 DEF Probe, Launch, Prepare
  <2>6. CASE WriteRecord(p) \/ Ready(p) \/ Announce(p)
    BY <1>t, <2>6 DEF WriteRecord, Ready, Announce
  <2>10. CASE Spawn(p)
    <3>1. \A s \in Srv : [srv |-> s, identified |-> TRUE] \in WebPidRecord
      BY DEF WebPidRecord
    <3> QED
      BY <1>t, <2>10, <3>1 DEF Spawn
  <2>7. CASE CheckTerm(p) \/ Terminate(p) \/ Poll(p) \/ ForceKill(p)
    BY <1>t, <2>7 DEF CheckTerm, Terminate, Poll, ForceKill
  <2> QED
    BY <2>1, <2>2, <2>3, <2>4, <2>5, <2>6, <2>7, <2>8, <2>9, <2>10, <2>11 DEF Step, Work
<1>2. \A q \in Xtz \ {p} : xtz'[q] = xtz[q]
  BY <1>t DEF Step, Work, Begin, Ask, Complete, Die, InspectStart, InspectStop,
         InspectRestart, StartAgain, Compare, Remove, Release, Probe, Launch, Prepare,
         WriteRecord, Ready, Announce, CheckTerm, Poll, Rest, Interrupt, Terminate,
         ForceKill, Spawn
<1> QED
  BY <1>1, <1>2

\* A server that was started stays so.
LEMMA BornStays ==
  ASSUME NEW p \in Xtz, Types, Step(p), NEW s, Born(s)
  PROVE  srv'[s].state # "unborn"
<1>1. srv \in [Srv -> [state : State, port : Port]]
  BY DEF Types, TypeOK
<1> QED
  BY <1>1 DEF Born, Step, Work, Begin, Ask, Complete, Die, InspectStart, InspectStop,
         InspectRestart, StartAgain, Compare, Remove, Release, Probe, Launch, Prepare,
         WriteRecord, Ready, Announce, CheckTerm, Poll, Rest, Interrupt, Terminate,
         ForceKill, Spawn, Kill, Becomes

-----------------------------------------------------------------------------
(* The inductive invariant                                                  *)

\* Where a command has found that there is no record.
Before == {"probe", "ask", "launch", "prepare", "spawn", "record"}

\* A command that is not at rest holds the lock, so that what it has found of the
\* record stays true until it changes it itself; it goes for a server only while
\* the server has its pid, and removes a record only when the server is gone.
Local(p) ==
  LET s == xtz[p].rec.srv IN
  /\ xtz[p].pc \notin {"idle", "attached"} => holders = {p}
  /\ xtz[p].pc \in Before => record = NoRecord
  /\ xtz[p].pc \in {"ready", "announce", "remove"} => record = xtz[p].rec
  /\ xtz[p].pc \in {"compare", "remove"} => srv[s].state \in {"killed", "dead", "reused"}
  /\ xtz[p].pc \in {"signal", "killing"} => srv[s].state # "reused"
  /\ xtz[p].pc \in {"spawn", "record"} => stamp = xtz[p].port
  /\ xtz[p].pc = "record" => srv[s].port = xtz[p].port

\* On its port a start finds nobody but strangers, lost children and its own child.
OwnPort(p) ==
  /\ xtz[p].pc \in {"launch", "prepare", "spawn"} =>
       bound[xtz[p].port] \in {Nobody, Other, Dsh} \cup lost
  /\ xtz[p].pc \in {"record", "ready"} =>
       bound[xtz[p].port] \in {Nobody, Other, Dsh, xtz[p].rec.srv} \cup lost

\* A server that runs is recorded, about to be, or lost.
Accounted ==
  \A s \in Srv \ lost : Running(s) =>
    record.srv = s \/ \E p \in Xtz : At(p, "record") /\ xtz[p].rec.srv = s

Stamped == record # NoRecord => stamp = srv[record.srv].port

Inv ==
  /\ Types /\ \A p \in Xtz : Local(p) /\ OwnPort(p)
  /\ struck = {} /\ Accounted /\ Stamped

\* While a command works the others rest, and a resting command claims nothing.
LEMMA OthersRest ==
  ASSUME NEW p \in Xtz, Inv, xtz[p].pc \notin {"idle", "attached"}
  PROVE  holders = {p} /\ \A q \in Xtz \ {p} : xtz[q].pc \in {"idle", "attached"}
  BY DEF Inv, Local

\* Nothing is claimed for a command at rest.
LEMMA RestClaimsNothing ==
  ASSUME NEW q \in Xtz, xtz'[q].pc \in {"idle", "attached"}
  PROVE  Local(q)' /\ OwnPort(q)'
  BY DEF Local, OwnPort, Before

\* A step of one command while the others rest.
LEMMA WorkerKeeps ==
  ASSUME NEW p \in Xtz, Inv, Step(p),
         \A q \in Xtz \ {p} : xtz[q].pc \in {"idle", "attached"},
         TypeOK', Recorded', NamesOne(p)',
         Local(p)', OwnPort(p)', struck' = {}, Accounted', Stamped'
  PROVE  Inv'
<1>1. \A q \in Xtz \ {p} : xtz'[q] = xtz[q] /\ xtz[q].pc \in {"idle", "attached"}
  BY StepOfOne DEF Inv
<1>2. \A q \in Xtz : Local(q)' /\ OwnPort(q)'
  BY <1>1, RestClaimsNothing
<1>3. Named'
  <2>1. ASSUME NEW q \in Xtz \ {p}
        PROVE  NamesOne(q)'
    <3>1. xtz'[q] = xtz[q] /\ NamesOne(q)
      BY <1>1 DEF Inv, Types, Named
    <3>2. CASE xtz[q].pc \in Has
      <4>1. srv'[xtz[q].rec.srv].state # "unborn"
        BY <3>1, <3>2, BornStays DEF Inv, NamesOne
      <4> QED
        BY <3>1, <3>2, <4>1 DEF NamesOne, Born
    <3> QED
      BY <3>1, <3>2 DEF NamesOne
  <2> QED
    BY <2>1 DEF Named
<1> QED
  BY <1>2, <1>3 DEF Inv, Types

\* So one that only moves has only its own place to look after.
LEMMA QuietKeeps ==
  ASSUME NEW p \in Xtz, Inv, Quiet(p)
  PROVE  Inv'
<1> USE DEF At, Goto, Clear, Stop, Stopped, Locals
<1>s. Step(p) /\ xtz[p].pc \notin {"idle", "attached"}
  <2>1. Step(p)
    BY DEF Quiet, Step, Work
  <2>2. xtz[p].pc \notin {"idle", "attached"}
    BY DEF Quiet, InspectStart, InspectStop, InspectRestart, StartAgain, Compare,
           Probe, Ask, Launch, Ready, CheckTerm, Poll
  <2> QED
    BY <2>1, <2>2
<1>t. xtz \in [Xtz -> Locals] /\ holders = {p} /\ Local(p) /\ OwnPort(p)
  BY <1>s, OthersRest DEF Inv, Types, TypeOK
<1>1. UNCHANGED Rest
  BY QuietRests
<1>2. Recorded /\ NamesOne(p)
  BY DEF Inv, Types, Named
<1>3. Recorded' /\ TypeOK' /\ struck' = {} /\ Stamped'
  BY <1>1, <1>2, <1>s, StepOfOne DEF Inv, Types, TypeOK, Recorded, Born, Stamped, Rest, files,
     history
<1>4. NamesOne(p)'
  <2> USE <1>1, <1>t, <1>2 DEF NamesOne, Recorded, Rest, files, Born
  <2>1. CASE InspectStart(p) \/ InspectStop(p) \/ InspectRestart(p)
    BY <2>1, VerdictsTell DEF InspectStart, InspectStop, InspectRestart, Has
  <2>2. CASE StartAgain(p) \/ Compare(p)
    BY <2>2 DEF StartAgain, Compare, Idle, Has
  <2>3. CASE Probe(p) \/ Ask(p) \/ Launch(p)
    BY <2>3 DEF Probe, Ask, Launch, Has
  <2>4. CASE Ready(p) \/ CheckTerm(p) \/ Poll(p)
    BY <2>4 DEF Ready, CheckTerm, Poll, Has
  <2> QED
    BY <2>1, <2>2, <2>3, <2>4 DEF Quiet
<1>5. Local(p)'
  <2> USE <1>1, <1>t, <1>2 DEF Local, NamesOne, Recorded, Rest, files, Born, Before, Has
  <2>1. CASE InspectStart(p) \/ InspectStop(p) \/ InspectRestart(p)
    BY <2>1, VerdictsTell DEF InspectStart, InspectStop, InspectRestart
  <2>2. CASE StartAgain(p)
    BY <2>2 DEF StartAgain, Idle
  <2>3. CASE Compare(p)
    BY <2>3 DEF Compare
  <2>4. CASE Probe(p) \/ Ask(p) \/ Launch(p)
    BY <2>4, VerdictsTell DEF Probe, Ask, Launch
  <2>5. CASE Ready(p)
    BY <2>5 DEF Ready
  <2>6. CASE CheckTerm(p) \/ Poll(p)
    BY <2>6, VerdictsTell DEF CheckTerm, Poll
  <2> QED
    BY <2>1, <2>2, <2>3, <2>4, <2>5, <2>6 DEF Quiet
<1>6. OwnPort(p)'
  <2> USE <1>1, <1>t DEF OwnPort, Rest, history
  <2>1. CASE InspectStart(p) \/ InspectStop(p) \/ InspectRestart(p)
    BY <2>1 DEF InspectStart, InspectStop, InspectRestart
  <2>2. CASE StartAgain(p) \/ Compare(p)
    BY <2>2 DEF StartAgain, Compare, Idle
  <2>3. CASE Probe(p) \/ Ask(p) \/ Launch(p)
    BY <2>3, AnswersTell DEF Probe, Ask, Launch
  <2>4. CASE Ready(p) \/ CheckTerm(p) \/ Poll(p)
    BY <2>4 DEF Ready, CheckTerm, Poll
  <2> QED
    BY <2>1, <2>2, <2>3, <2>4 DEF Quiet
<1>7. ~At(p, "record")
  BY DEF Quiet, InspectStart, InspectStop, InspectRestart, StartAgain, Compare, Probe, Ask,
         Launch, Ready, CheckTerm, Poll
<1>8. Accounted'
  <2>1. \A q \in Xtz : ~At(q, "record")
    BY <1>7, <1>s, OthersRest
  <2> QED
    BY <1>1, <2>1 DEF Inv, Accounted, Running, Rest, files, history
<1> QED
  BY <1>s, <1>3, <1>4, <1>5, <1>6, <1>8, OthersRest, WorkerKeeps

-----------------------------------------------------------------------------
(* The other steps of a command                                             *)

\* A command begins only when nobody works.
LEMMA BeginKeeps ==
  ASSUME NEW p \in Xtz, Inv, Begin(p)
  PROVE  Inv'
<1> USE DEF At
<1>1. Step(p) /\ xtz[p].pc = "idle" /\ holders = {} /\ holders' = {p}
      /\ UNCHANGED <<record, stamp, srv, bound, lost, struck, deaths>>
  BY DEF Begin, Step, Lock!Acquire, files, history
<1>2. \A q \in Xtz \ {p} : xtz[q].pc \in {"idle", "attached"}
  BY <1>1 DEF Inv, Local
<1>3. xtz'[p].pc = "inspect" /\ xtz' \in [Xtz -> Locals]
  <2>1. xtz'[p].pc = "inspect"
    BY DEF Begin, Idle, Inv, Types, TypeOK
  <2> QED
    BY <2>1, <1>1, StepOfOne DEF Inv
<1>4. Recorded' /\ TypeOK' /\ struck' = {} /\ Stamped'
  BY <1>1, <1>3 DEF Inv, Types, TypeOK, Named, Recorded, Born, Stamped, Locals
<1>5. Local(p)' /\ OwnPort(p)' /\ NamesOne(p)'
  BY <1>1, <1>3 DEF Local, OwnPort, NamesOne, Before, Has
<1>6. Accounted'
  <2>1. \A q \in Xtz : xtz[q].pc # "record"
    BY <1>1, <1>2
  <2> QED
    BY <1>1, <2>1 DEF Inv, Accounted, Running
<1> QED
  BY <1>1, <1>2, <1>4, <1>5, <1>6, WorkerKeeps

\* A record that is removed was that of a server that is gone.
LEMMA RemoveKeeps ==
  ASSUME NEW p \in Xtz, Inv, Remove(p)
  PROVE  Inv'
<1> USE DEF At, Goto, Locals
<1>1. Step(p) /\ xtz[p].pc = "remove" /\ record' \in {NoRecord, record}
      /\ UNCHANGED <<holders, stamp, srv, bound, lost, struck, deaths>>
  BY DEF Remove, Step, Work, history
<1>2. /\ holders = {p} /\ Local(p) /\ xtz \in [Xtz -> Locals]
      /\ \A q \in Xtz \ {p} : xtz[q].pc \in {"idle", "attached"}
  BY <1>1, OthersRest DEF Inv, Types, TypeOK
<1>3. /\ xtz' \in [Xtz -> Locals]
      /\ \/ xtz'[p].pc = "release"
         \/ record' = NoRecord /\ xtz'[p].pc \in {"probe", "again", "release"}
  <2>1. xtz' \in [Xtz -> Locals]
    BY <1>1, StepOfOne DEF Inv
  <2>2. xtz[p].next \in {"probe", "again", "release"}
    BY <1>2
  <2> QED
    BY <1>2, <2>1, <2>2 DEF Remove
<1>4. Recorded' /\ TypeOK' /\ struck' = {} /\ Stamped'
  BY <1>1, <1>3, IdleFits DEF Inv, Types, TypeOK, Named, Recorded, Born, Stamped
<1>5. Local(p)' /\ OwnPort(p)' /\ NamesOne(p)'
  BY <1>1, <1>2, <1>3 DEF Local, OwnPort, NamesOne, Before, Has
<1>6. Accounted'
  <2>1. \A q \in Xtz : xtz[q].pc # "record"
    BY <1>1, <1>2
  <2>2. \A s \in Srv \ lost : Running(s) => record.srv = s
    BY <2>1 DEF Inv, Accounted, At
  <2>3. \A s \in Srv : record.srv = s => ~Running(s)
    BY <1>1, <1>2 DEF Local, Running
  <2> QED
    BY <1>1, <2>2, <2>3 DEF Accounted, Running
<1> QED
  BY <1>1, <1>2, <1>4, <1>5, <1>6, WorkerKeeps

\* A command that lets go of the lock, in the end or for its child.
LEMMA LettingGoKeeps ==
  ASSUME NEW p \in Xtz, Inv, Release(p) \/ Announce(p)
  PROVE  Inv'
<1> USE DEF At, Goto, Locals
<1>1. /\ Step(p) /\ xtz[p].pc \in {"release", "announce"} /\ NamesOne(p)
      /\ UNCHANGED <<record, stamp, srv, bound, lost, struck, deaths>>
  BY DEF Release, Announce, Step, Work, files, history, Inv, Types, Named
<1>2. /\ holders = {p} /\ Local(p) /\ xtz \in [Xtz -> Locals]
      /\ \A q \in Xtz \ {p} : xtz[q].pc \in {"idle", "attached"}
  BY <1>1, OthersRest DEF Inv, Types, TypeOK
<1>3. /\ xtz' \in [Xtz -> Locals] /\ holders' \subseteq Xtz
      /\ \/ xtz'[p].pc = "idle"
         \/ xtz'[p].pc = "release" /\ holders' = holders
         \/ xtz'[p].pc = "attached" /\ xtz'[p].rec = xtz[p].rec /\ xtz[p].pc = "announce"
  <2>1. xtz' \in [Xtz -> Locals]
    BY <1>1, StepOfOne DEF Inv
  <2>2. CASE Release(p)
    BY <1>2, <2>1, <2>2 DEF Release, Lock!Release, Idle
  <2>3. CASE Announce(p)
    BY <1>2, <2>1, <2>3 DEF Announce, Lock!Release
  <2> QED
    BY <2>2, <2>3
<1>4. Recorded' /\ TypeOK' /\ struck' = {} /\ Stamped'
  BY <1>1, <1>3 DEF Inv, Types, TypeOK, Named, Recorded, Born, Stamped
<1>5. Local(p)' /\ OwnPort(p)' /\ NamesOne(p)'
  BY <1>1, <1>2, <1>3 DEF Local, OwnPort, NamesOne, Born, Before, Has
<1>6. Accounted'
  <2>1. \A q \in Xtz : xtz[q].pc # "record"
    BY <1>1, <1>2
  <2> QED
    BY <1>1, <2>1 DEF Inv, Accounted, Running
<1> QED
  BY <1>1, <1>2, <1>4, <1>5, <1>6, WorkerKeeps

\* The stamp gets the port the child will be given, while there is no record.
LEMMA PrepareKeeps ==
  ASSUME NEW p \in Xtz, Inv, Prepare(p)
  PROVE  Inv'
<1> USE DEF At, Goto, Locals
<1>1. /\ Step(p) /\ xtz[p].pc = "prepare"
      /\ UNCHANGED <<holders, record, srv, bound, lost, struck, deaths>>
  BY DEF Prepare, Step, Work, history
<1>2. /\ holders = {p} /\ Local(p) /\ OwnPort(p) /\ xtz \in [Xtz -> Locals]
      /\ \A q \in Xtz \ {p} : xtz[q].pc \in {"idle", "attached"}
  BY <1>1, OthersRest DEF Inv, Types, TypeOK
<1>3. /\ xtz' \in [Xtz -> Locals] /\ stamp' \in Port
      /\ \/ xtz'[p].pc = "release"
         \/ xtz'[p].pc = "spawn" /\ xtz'[p].port = xtz[p].port /\ stamp' = xtz[p].port
  BY <1>1, <1>2, StepOfOne DEF Prepare, Inv, Types, TypeOK
<1>4. record = NoRecord
  BY <1>1, <1>2 DEF Local, Before
<1>5. Recorded' /\ TypeOK' /\ struck' = {} /\ Stamped'
  BY <1>1, <1>3, <1>4 DEF Inv, Types, TypeOK, Recorded, Stamped
<1>6. Local(p)' /\ OwnPort(p)' /\ NamesOne(p)'
  BY <1>1, <1>2, <1>3, <1>4 DEF Local, OwnPort, NamesOne, Before, Has
<1>7. Accounted'
  <2>1. \A q \in Xtz : xtz[q].pc # "record"
    BY <1>1, <1>2
  <2> QED
    BY <1>1, <2>1 DEF Inv, Accounted, Running
<1> QED
  BY <1>1, <1>2, <1>5, <1>6, <1>7, WorkerKeeps

\* A child that is spawned was nobody's, and is accounted for at once.
LEMMA SpawnKeeps ==
  ASSUME NEW p \in Xtz, Inv, Spawn(p)
  PROVE  Inv'
<1> USE DEF At, Goto, Locals
<1>1. /\ Step(p) /\ xtz[p].pc = "spawn"
      /\ UNCHANGED <<holders, record, stamp, bound, struck, deaths>>
  BY DEF Spawn, Step, Work, files
<1>2. /\ holders = {p} /\ Local(p) /\ OwnPort(p) /\ xtz \in [Xtz -> Locals]
      /\ srv \in [Srv -> [state : State, port : Port]]
      /\ \A q \in Xtz \ {p} : xtz[q].pc \in {"idle", "attached"}
  BY <1>1, OthersRest DEF Inv, Types, TypeOK
<1>3. record = NoRecord /\ stamp = xtz[p].port /\ xtz[p].port \in Port
      /\ bound[xtz[p].port] \in {Nobody, Other, Dsh} \cup lost
  BY <1>1, <1>2 DEF Local, OwnPort, Before
<1>4. xtz' \in [Xtz -> Locals]
  BY <1>1, StepOfOne DEF Inv
<1>5. \A s \in Srv \ lost : ~Running(s)
  <2>1. \A q \in Xtz : xtz[q].pc # "record"
    BY <1>1, <1>2
  <2> QED
    BY <2>1, <1>3, WebLifecycleAssumption DEF Inv, Accounted, NoRecord
<1>6. Recorded' /\ struck' = {} /\ Stamped'
  BY <1>1, <1>3 DEF Inv, Recorded, Stamped
<1>7. CASE xtz'[p].pc = "release" /\ UNCHANGED <<srv, lost>>
  <2>1. TypeOK' /\ Accounted'
    BY <1>1, <1>4, <1>5, <1>7 DEF Inv, Types, TypeOK, Accounted, Running
  <2>2. Local(p)' /\ OwnPort(p)' /\ NamesOne(p)'
    BY <1>1, <1>2, <1>7 DEF Local, OwnPort, NamesOne, Before, Has
  <2> QED
    BY <1>1, <1>2, <1>6, <2>1, <2>2, WorkerKeeps
<1>8. CASE \E s \in Srv :
             /\ srv' = [srv EXCEPT ![s] = [state |-> "stopping", port |-> xtz[p].port]]
             /\ xtz'[p].pc = "release" /\ lost' = lost \cup {s}
  <2>1. PICK s \in Srv :
             /\ srv' = [srv EXCEPT ![s] = [state |-> "stopping", port |-> xtz[p].port]]
             /\ xtz'[p].pc = "release" /\ lost' = lost \cup {s}
    BY <1>8
  <2>2. TypeOK'
    BY <1>1, <1>2, <1>3, <1>4, <2>1 DEF Inv, Types, TypeOK, State
  <2>3. Accounted'
    BY <1>2, <1>5, <2>1 DEF Accounted, Running
  <2>4. Local(p)' /\ OwnPort(p)' /\ NamesOne(p)'
    BY <1>1, <1>2, <2>1 DEF Local, OwnPort, NamesOne, Before, Has
  <2> QED
    BY <1>1, <1>2, <1>6, <2>2, <2>3, <2>4, WorkerKeeps
<1>9. CASE \E s \in Srv :
             /\ srv' = [srv EXCEPT ![s] = [state |-> "booting", port |-> xtz[p].port]]
             /\ xtz' = [xtz EXCEPT ![p].pc = "record",
                                   ![p].rec = [srv |-> s, identified |-> TRUE]]
             /\ UNCHANGED lost
  <2>1. PICK s \in Srv :
             /\ srv' = [srv EXCEPT ![s] = [state |-> "booting", port |-> xtz[p].port]]
             /\ xtz' = [xtz EXCEPT ![p].pc = "record",
                                   ![p].rec = [srv |-> s, identified |-> TRUE]]
             /\ UNCHANGED lost
    BY <1>9
  <2>5. /\ xtz'[p].pc = "record" /\ xtz'[p].rec.srv = s /\ xtz'[p].port = xtz[p].port
        /\ srv'[s].state = "booting" /\ srv'[s].port = xtz[p].port
    BY <1>2, <2>1
  <2>2. TypeOK'
    BY <1>1, <1>2, <1>3, <1>4, <2>1 DEF Inv, Types, TypeOK, State
  <2>3. Accounted'
    BY <1>2, <1>5, <2>1, <2>5 DEF Accounted, Running
  <2>4. Local(p)' /\ OwnPort(p)' /\ NamesOne(p)'
    BY <1>1, <1>2, <1>3, <2>1, <2>5 DEF Local, OwnPort, NamesOne, Before, Has, Born
  <2> QED
    BY <1>1, <1>2, <1>6, <2>2, <2>3, <2>4, WorkerKeeps
<1> QED
  <2>1. Goto(p, "release") => xtz'[p].pc = "release"
    BY <1>2
  <2> QED
    BY <1>7, <1>8, <1>9, <2>1 DEF Spawn

\* The record is written for the child just spawned, or the child is lost.
LEMMA WriteRecordKeeps ==
  ASSUME NEW p \in Xtz, Inv, WriteRecord(p)
  PROVE  Inv'
<1> USE DEF At, Goto, Locals
<1>1. /\ Step(p) /\ xtz[p].pc = "record" /\ NamesOne(p)
      /\ UNCHANGED <<holders, stamp, srv, bound, struck, deaths>>
  BY DEF WriteRecord, Step, Work, Inv, Types, Named
<1>2. /\ holders = {p} /\ Local(p) /\ OwnPort(p) /\ xtz \in [Xtz -> Locals]
      /\ \A q \in Xtz \ {p} : xtz[q].pc \in {"idle", "attached"}
  BY <1>1, OthersRest DEF Inv, Types, TypeOK
<1>3. /\ record = NoRecord /\ stamp = xtz[p].port /\ srv[xtz[p].rec.srv].port = stamp
      /\ Born(xtz[p].rec.srv) /\ xtz[p].rec \in WebPidRecord
  BY <1>1, <1>2 DEF Local, Before, NamesOne, Has
<1>4. xtz' \in [Xtz -> Locals]
  BY <1>1, StepOfOne DEF Inv
<1>5. \A s \in Srv \ lost : Running(s) => s = xtz[p].rec.srv
  BY <1>1, <1>2, <1>3, WebLifecycleAssumption DEF Inv, Accounted, NoRecord
<1>6. \/ /\ record' = xtz[p].rec /\ lost' = lost
         /\ xtz'[p].pc = "ready" /\ xtz'[p].rec = xtz[p].rec /\ xtz'[p].port = xtz[p].port
      \/ record' = record /\ xtz'[p].pc = "release" /\ lost' = lost \cup {xtz[p].rec.srv}
  BY <1>2 DEF WriteRecord
<1>7. TypeOK' /\ Recorded' /\ struck' = {} /\ Stamped'
  BY <1>1, <1>3, <1>4, <1>6 DEF Inv, Types, TypeOK, Recorded, Stamped, Born
<1>8. Local(p)' /\ OwnPort(p)' /\ NamesOne(p)'
  BY <1>1, <1>2, <1>3, <1>6 DEF Local, OwnPort, NamesOne, Before, Has, Born
<1>9. Accounted'
  BY <1>1, <1>5, <1>6 DEF Accounted, Running
<1> QED
  BY <1>1, <1>2, <1>7, <1>8, <1>9, WorkerKeeps

\* A signal goes to a server that has its pid still, or to no one.
LEMMA SignalKeeps ==
  ASSUME NEW p \in Xtz, Inv, Terminate(p) \/ ForceKill(p)
  PROVE  Inv'
<1> USE DEF At, Goto, Clear, Stopped, Locals
<1> DEFINE s == xtz[p].rec.srv
<1>1. /\ Step(p) /\ xtz[p].pc \in {"signal", "killing"} /\ NamesOne(p)
      /\ UNCHANGED <<holders, record, stamp, bound, lost, deaths>>
  BY DEF Terminate, ForceKill, Step, Work, Inv, Types, Named, files
<1>2. /\ holders = {p} /\ Local(p) /\ xtz \in [Xtz -> Locals]
      /\ srv \in [Srv -> [state : State, port : Port]]
      /\ \A q \in Xtz \ {p} : xtz[q].pc \in {"idle", "attached"}
  BY <1>1, OthersRest DEF Inv, Types, TypeOK
<1>3. Born(s) /\ srv[s].state # "reused"
  BY <1>1, <1>2 DEF Local, NamesOne, Has
<1>4. xtz' \in [Xtz -> Locals]
  BY <1>1, StepOfOne DEF Inv
<1>5. PICK st \in {"stopping", "killed"} :
         /\ Kill(s, st)
         /\ xtz'[p].rec = xtz[p].rec
         /\ \/ xtz'[p].pc = "poll"
            \/ st = "killed" /\ xtz'[p].pc = "compare"
  <2>1. CASE Terminate(p)
    BY <1>2, <2>1 DEF Terminate
  <2>2. CASE ForceKill(p)
    BY <1>2, <2>2 DEF ForceKill
  <2> QED
    BY <2>1, <2>2
<1>6. /\ struck' = struck /\ srv' \in [Srv -> [state : State, port : Port]]
      /\ \A t \in Srv : /\ srv'[t].port = srv[t].port
                       /\ (Running(t)' => Running(t))
                       /\ (srv'[t].state = "unborn" => srv[t].state = "unborn")
      /\ (st = "killed" => srv'[s].state \in {"killed", "dead"})
  BY <1>2, <1>3, <1>5 DEF Kill, Running, Born, State
<1>7. TypeOK' /\ Recorded' /\ struck' = {} /\ Stamped'
  BY <1>1, <1>4, <1>6 DEF Inv, Types, TypeOK, Named, Recorded, Stamped, Born
<1>8. Local(p)' /\ OwnPort(p)' /\ NamesOne(p)'
  BY <1>1, <1>2, <1>3, <1>5, <1>6 DEF Local, OwnPort, NamesOne, Before, Has, Born
<1>9. Accounted'
  <2>1. \A q \in Xtz : xtz[q].pc # "record"
    BY <1>1, <1>2
  <2> QED
    BY <1>1, <1>6, <2>1 DEF Inv, Accounted
<1> QED
  BY <1>1, <1>2, <1>7, <1>8, <1>9, WorkerKeeps

\* Ctrl-C reaches the own child, which nobody else is about to declare gone.
LEMMA InterruptKeeps ==
  ASSUME NEW p \in Xtz, Inv, Interrupt(p)
  PROVE  Inv'
<1> DEFINE s == xtz[p].rec.srv
<1>1. /\ xtz[p].pc = "attached" /\ Running(s) /\ Born(s)
      /\ UNCHANGED <<holders, record, stamp, bound, xtz, lost, struck, deaths>>
      /\ srv \in [Srv -> [state : State, port : Port]]
  BY DEF Interrupt, At, files, history, Inv, Types, TypeOK, Named, NamesOne, Has
<1>2. PICK st \in {"killed", "stopping"} : srv' = [srv EXCEPT ![s].state = st]
  BY DEF Interrupt, Becomes
<1>3. /\ srv' \in [Srv -> [state : State, port : Port]]
      /\ \A t \in Srv : /\ srv'[t].port = srv[t].port
                       /\ (Running(t)' => Running(t))
                       /\ (~Running(t) => srv'[t] = srv[t])
                       /\ (Running(t) => srv'[t].state \in State \ {"unborn", "dead", "reused"})
  BY <1>1, <1>2 DEF Running, Born, State
<1>4. \A t : Born(t) => srv'[t].state # "unborn"
  BY <1>3 DEF Born, State
<1>5. TypeOK' /\ Recorded' /\ struck' = {} /\ Stamped'
  BY <1>1, <1>3, <1>4 DEF Inv, Types, TypeOK, Named, Recorded, Stamped, Born
<1>6. \A q \in Xtz : NamesOne(q)' /\ Local(q)' /\ OwnPort(q)'
  <2>1. ASSUME NEW q \in Xtz
        PROVE  NamesOne(q)' /\ Local(q)' /\ OwnPort(q)'
    <3>1. NamesOne(q) /\ Local(q) /\ OwnPort(q)
      BY DEF Inv, Types, Named
    <3>2. NamesOne(q)' /\ OwnPort(q)'
      BY <1>1, <1>4, <3>1 DEF NamesOne, OwnPort, Born
    <3>3. Local(q)'
      BY <1>1, <1>3, <3>1 DEF Local, NamesOne, Born, Has, Before, Running
    <3> QED
      BY <3>2, <3>3
  <2> QED
    BY <2>1
<1>7. Accounted'
  BY <1>1, <1>3 DEF Inv, Accounted, At
<1> QED
  BY <1>5, <1>6, <1>7 DEF Inv, Types, Named

\* A command with a child that ends without the lock.
LEMMA DetachKeeps ==
  ASSUME NEW p \in Xtz, Inv, Step(p), xtz[p].pc = "attached", xtz'[p].pc = "idle",
         holders' = holders \ {p} \/ holders' = holders,
         UNCHANGED <<record, stamp, srv, bound, lost, struck>>, deaths' \in 0..MaxDeaths
  PROVE  Inv'
<1>1. xtz' \in [Xtz -> Locals] /\ \A q \in Xtz \ {p} : xtz'[q] = xtz[q]
  BY StepOfOne DEF Inv
<1>2. TypeOK' /\ Recorded' /\ struck' = {} /\ Stamped'
  BY <1>1 DEF Inv, Types, TypeOK, Named, Recorded, Stamped, Locals, Born
<1>3. \A q \in Xtz : NamesOne(q)' /\ Local(q)' /\ OwnPort(q)'
  <2>1. ASSUME NEW q \in Xtz \ {p}
        PROVE  NamesOne(q)' /\ Local(q)' /\ OwnPort(q)'
    <3>1. NamesOne(q) /\ Local(q) /\ OwnPort(q) /\ xtz'[q] = xtz[q]
      BY <1>1 DEF Inv, Types, Named
    <3>2. NamesOne(q)' /\ OwnPort(q)'
      BY <3>1 DEF NamesOne, OwnPort, Born
    <3>3. Local(q)'
      BY <3>1 DEF Local, Before
    <3> QED
      BY <3>2, <3>3
  <2>2. NamesOne(p)' /\ Local(p)' /\ OwnPort(p)'
    BY RestClaimsNothing DEF NamesOne, Has
  <2> QED
    BY <2>1, <2>2
<1>4. Accounted'
  <2>1. \A q \in Xtz : xtz[q].pc = "record" => xtz'[q] = xtz[q]
    BY <1>1
  <2> QED
    BY <2>1 DEF Inv, Accounted, Running, At
<1> QED
  BY <1>2, <1>3, <1>4 DEF Inv, Types, Named

\* The child of a foreground start has closed, with or without the lock.
LEMMA CompleteKeeps ==
  ASSUME NEW p \in Xtz, Inv, Complete(p)
  PROVE  Inv'
<1> USE DEF At, Clear, Locals
<1> DEFINE s == xtz[p].rec.srv
<1>1. /\ Step(p) /\ xtz[p].pc = "attached" /\ ~Alive(s) /\ Born(s)
      /\ UNCHANGED <<record, stamp, srv, bound, lost, struck, deaths>>
      /\ srv \in [Srv -> [state : State, port : Port]] /\ xtz \in [Xtz -> Locals]
  BY DEF Complete, Step, files, history, Inv, Types, TypeOK, Named, NamesOne, Has
<1>2. xtz' \in [Xtz -> Locals]
  BY <1>1, StepOfOne DEF Inv
<1>3. CASE xtz' = [xtz EXCEPT ![p] = Idle] /\ holders' = holders
  <2>1. xtz'[p].pc = "idle"
    BY <1>1, <1>3 DEF Idle
  <2> QED
    BY <1>1, <1>3, <2>1, DetachKeeps DEF Inv, Types, TypeOK
<1>4. CASE Lock!Acquire(p) /\ Clear(p, xtz[p].rec, "release")
  <2>1. holders = {} /\ holders' = {p}
    BY <1>4 DEF Lock!Acquire
  <2>2. \A q \in Xtz : xtz[q].pc \in {"idle", "attached"}
    BY <2>1 DEF Inv, Local
  <2>3. xtz'[p].pc = "compare" /\ xtz'[p].rec = xtz[p].rec
    BY <1>1, <1>4
  <2>4. srv[s].state \in {"dead", "reused"}
    BY <1>1 DEF Alive, Running, Born, State
  <2>5. TypeOK' /\ Recorded' /\ struck' = {} /\ Stamped'
    BY <1>1, <1>2, <2>1 DEF Inv, Types, TypeOK, Named, Recorded, Stamped, Born
  <2>6. Local(p)' /\ OwnPort(p)' /\ NamesOne(p)'
    BY <1>1, <2>1, <2>3, <2>4 DEF Local, OwnPort, NamesOne, Before, Born
  <2>7. Accounted'
    BY <1>1, <2>2 DEF Inv, Accounted, Running
  <2> QED
    BY <1>1, <2>2, <2>5, <2>6, <2>7, WorkerKeeps
<1> QED
  BY <1>3, <1>4 DEF Complete

\* A death loses at most the child that was about to be recorded.
LEMMA DieKeeps ==
  ASSUME NEW p \in Xtz, Inv, Die(p)
  PROVE  Inv'
<1> USE DEF At
<1> DEFINE s == xtz[p].rec.srv
<1>1. /\ Step(p) /\ xtz[p].pc # "idle" /\ holders' = holders \ {p}
      /\ UNCHANGED <<record, stamp, srv, bound, struck>>
      /\ xtz \in [Xtz -> Locals] /\ NamesOne(p)
  BY DEF Die, Step, files, Inv, Types, TypeOK, Named, Locals
<1>2. /\ xtz' \in [Xtz -> Locals] /\ xtz'[p].pc = "idle" /\ deaths' \in 0..MaxDeaths
      /\ lost' = IF xtz[p].pc = "record" THEN lost \cup {s} ELSE lost
  <2>1. xtz' \in [Xtz -> Locals]
    BY <1>1, StepOfOne DEF Inv
  <2>2. deaths' \in 0..MaxDeaths
    BY WebLifecycleAssumption DEF Die, Inv, Types, TypeOK
  <2>3. xtz'[p].pc = "idle"
    BY <1>1 DEF Die, Idle
  <2> QED
    BY <2>1, <2>2, <2>3 DEF Die
<1>3. CASE xtz[p].pc = "attached"
  BY <1>1, <1>2, <1>3, DetachKeeps
<1>4. CASE xtz[p].pc # "attached"
  <2>1. \A q \in Xtz \ {p} : xtz[q].pc \in {"idle", "attached"}
    BY <1>1, <1>4, OthersRest
  <2>2. TypeOK' /\ Recorded' /\ struck' = {} /\ Stamped'
    BY <1>1, <1>2 DEF Inv, Types, TypeOK, Named, Recorded, Stamped, Born, NamesOne, Has, Locals
  <2>3. Local(p)' /\ OwnPort(p)' /\ NamesOne(p)'
    BY <1>2, RestClaimsNothing DEF NamesOne, Has
  <2>4. Accounted'
    BY <1>1, <1>2, <2>1 DEF Inv, Accounted, Running
  <2> QED
    BY <1>1, <2>1, <2>2, <2>3, <2>4, WorkerKeeps
<1> QED
  BY <1>3, <1>4

-----------------------------------------------------------------------------
(* Servers and ports                                                        *)

\* A server on its own changes nothing that a command relies on.
LEMMA ServersKeepLocal ==
  ASSUME NEW p \in Xtz, Inv, Environment
  PROVE  Local(p)'
<1>1. Local(p) /\ srv \in [Srv -> [state : State, port : Port]] /\ NamesOne(p)
  BY DEF Inv, Types, TypeOK, Named
<1>2. UNCHANGED <<holders, record, stamp, xtz>> /\ Types'
  BY EnvironmentTypes DEF Inv, World, files
<1>3. \A s \in Srv :
         /\ srv'[s].port = srv[s].port
         /\ (srv[s].state \in {"killed", "dead", "reused"} =>
               srv'[s].state \in {"killed", "dead", "reused"})
  <2>1. ASSUME NEW t \in Srv, Bind(t) \/ Exit(t) \/ Reuse(t) \/ StrangerExits(t)
        PROVE  \A s \in Srv :
         /\ srv'[s].port = srv[s].port
         /\ (srv[s].state \in {"killed", "dead", "reused"} =>
               srv'[s].state \in {"killed", "dead", "reused"})
    BY <1>1, <2>1 DEF Bind, Exit, Reuse, StrangerExits, Becomes
  <2> QED
    BY <2>1 DEF Environment, ForeignArrives, ForeignLeaves
<1>4. \A s \in Srv : srv'[s].state = "reused" /\ srv[s].state # "reused" =>
               (xtz[p].rec.srv = s => xtz[p].pc \notin {"attached", "signal", "killing"})
  <2>1. ASSUME NEW t \in Srv, Bind(t) \/ Exit(t) \/ StrangerExits(t)
        PROVE  \A s \in Srv : srv'[s].state = "reused" => srv[s].state = "reused"
    BY <1>1, <2>1 DEF Bind, Exit, StrangerExits, Becomes
  <2>2. ASSUME NEW t \in Srv, Reuse(t)
        PROVE  \A s \in Srv : srv'[s].state = "reused" /\ srv[s].state # "reused" => s = t
    BY <1>1, <2>2 DEF Reuse, Becomes
  <2> QED
    BY <2>1, <2>2 DEF Environment, ForeignArrives, ForeignLeaves, Reuse
<1>5. xtz[p].pc \in Has => xtz[p].rec.srv \in Srv
  BY <1>1 DEF NamesOne, Born
<1> QED
  BY <1>1, <1>2, <1>3, <1>4, <1>5 DEF Local, Has

\* On the port of a start no server comes up but its own child or a lost one.
LEMMA ServersKeepPorts ==
  ASSUME NEW p \in Xtz, Inv, Environment
  PROVE  OwnPort(p)'
<1>1. /\ OwnPort(p) /\ Local(p) /\ bound \in [Port -> Srv \cup {Nobody, Other, Dsh}]
      /\ xtz[p].port \in Port
  BY DEF Inv, Types, TypeOK
<1>2. UNCHANGED <<record, xtz, lost>>
  BY EnvironmentTypes DEF Inv, World, files, history
<1>3. ASSUME NEW t \in Srv, Bind(t)
      PROVE  OwnPort(p)'
  <2>1. Running(t) /\ \A q \in Port : bound'[q] \in {bound[q], t}
    BY <1>1, <1>3 DEF Bind, Running
  <2>2. CASE xtz[p].pc \in {"launch", "prepare", "spawn"}
    <3>1. record = NoRecord /\ \A q \in Xtz : xtz[q].pc # "record"
      BY <1>1, <2>2, OthersRest DEF Local, Before
    <3>2. t \in lost
      BY <2>1, <3>1, WebLifecycleAssumption DEF Inv, Accounted, NoRecord, At
    <3> QED
      BY <1>1, <1>2, <2>1, <2>2, <3>2 DEF OwnPort
  <2>3. CASE xtz[p].pc \in {"record", "ready"}
    <3>1. t = xtz[p].rec.srv \/ t \in lost
      <4>1. \A q \in Xtz : xtz[q].pc = "record" => q = p
        BY <2>3, OthersRest
      <4>2. record = NoRecord \/ record = xtz[p].rec
        BY <1>1, <2>3 DEF Local, Before
      <4>3. xtz[p].pc = "record" => record = NoRecord
        BY <1>1 DEF Local, Before
      <4> QED
        BY <2>1, <4>1, <4>2, <4>3, WebLifecycleAssumption DEF Inv, Accounted, NoRecord, At
    <3> QED
      BY <1>1, <1>2, <2>1, <2>3, <3>1 DEF OwnPort
  <2> QED
    BY <1>2, <2>2, <2>3 DEF OwnPort
<1>4. CASE \A q \in Port : bound'[q] \in {bound[q], Nobody, Other, Dsh}
  BY <1>1, <1>2, <1>4 DEF OwnPort
<1>5. ASSUME NEW t \in Srv, Exit(t)
      PROVE  \A q \in Port : bound'[q] \in {bound[q], Nobody}
  BY <1>5 DEF Exit, Unbound
<1>6. ASSUME NEW q \in Port, ForeignArrives(q) \/ ForeignLeaves(q)
      PROVE  \A r \in Port : bound'[r] \in {bound[r], Nobody, Other, Dsh}
  BY <1>1, <1>6, WebLifecycleAssumption DEF ForeignArrives, ForeignLeaves
<1>7. ASSUME NEW t \in Srv, Reuse(t) \/ StrangerExits(t)
      PROVE  bound' = bound
  BY <1>7 DEF Reuse, StrangerExits
<1> QED
  BY <1>3, <1>4, <1>5, <1>6, <1>7 DEF Environment

\* Servers and strangers keep the invariant.
LEMMA EnvironmentKeeps ==
  ASSUME Inv, Environment
  PROVE  Inv'
<1>1. Types' /\ UNCHANGED <<record, stamp, xtz, lost, struck>>
  BY EnvironmentTypes DEF Inv, World, files, history
<1>2. \A p \in Xtz : Local(p)' /\ OwnPort(p)'
  BY ServersKeepLocal, ServersKeepPorts
<1>3. \A s \in Srv : srv'[s].port = srv[s].port /\ (Running(s)' => Running(s))
  <2>1. srv \in [Srv -> [state : State, port : Port]]
    BY DEF Inv, Types, TypeOK
  <2>2. ASSUME NEW t \in Srv, Bind(t) \/ Exit(t) \/ Reuse(t) \/ StrangerExits(t)
        PROVE  \A s \in Srv : srv'[s].port = srv[s].port /\ (Running(s)' => Running(s))
    BY <2>1, <2>2 DEF Bind, Exit, Reuse, StrangerExits, Becomes, Running, Alive
  <2>3. ASSUME srv' = srv
        PROVE  \A s \in Srv : srv'[s].port = srv[s].port /\ (Running(s)' => Running(s))
    BY <2>3 DEF Running
  <2> QED
    BY <2>2, <2>3 DEF Environment, ForeignArrives, ForeignLeaves
<1>4. Accounted' /\ Stamped' /\ struck' = {}
  BY <1>1, <1>3 DEF Inv, Accounted, Stamped, At, Types, Named, Recorded, Born
<1> QED
  BY <1>1, <1>2, <1>4 DEF Inv

-----------------------------------------------------------------------------
(* The theorems                                                             *)

\* The invariant holds at the start.
LEMMA InitInv ==
  ASSUME Init
  PROVE  Inv
<1>1. Types
  BY InitTypes
<1>2. \A p \in Xtz : xtz[p].pc = "idle"
  BY DEF Init, Idle
<1>3. \A p \in Xtz : Local(p) /\ OwnPort(p)
  BY <1>2 DEF Local, OwnPort, Before
<1>4. Accounted /\ Stamped
  <2>1. CASE record = NoRecord /\ \A s \in Srv : srv[s].state = "unborn"
    BY <2>1 DEF Accounted, Stamped, Running
  <2>2. CASE \E s \in Legacy, st \in {"serving", "dead", "reused"} :
               /\ record = [srv |-> s, identified |-> FALSE]
               /\ srv = [t \in Srv |-> [state |-> IF t = s THEN st ELSE "unborn",
                                        port |-> Official]]
    BY <2>2, WebLifecycleAssumption DEF Accounted, Stamped, Running, Init
  <2> QED
    BY <2>1, <2>2 DEF Init
<1> QED
  BY <1>1, <1>3, <1>4 DEF Inv, Init

\* And through stuttering.
LEMMA StutterKeeps ==
  ASSUME Inv, UNCHANGED vars
  PROVE  Inv'
<1>1. UNCHANGED <<holders, record, stamp, srv, bound, xtz, lost, struck, deaths>>
  BY DEF vars, files, history
<1>2. Types' /\ Stamped' /\ struck' = {}
  BY <1>1 DEF Inv, Types, TypeOK, Named, NamesOne, Recorded, Born, Stamped
<1>3. Accounted'
  BY <1>1 DEF Inv, Accounted, Running, At
<1>4. \A p \in Xtz : Local(p)' /\ OwnPort(p)'
  BY <1>1 DEF Inv, Local, OwnPort
<1> QED
  BY <1>2, <1>3, <1>4 DEF Inv

\* Every step keeps the invariant.
LEMMA NextKeeps ==
  ASSUME Inv, [Next]_vars
  PROVE  Inv'
<1>1. ASSUME NEW p \in Xtz, Step(p)
      PROVE  Inv'
  BY <1>1, QuietKeeps, BeginKeeps, RemoveKeeps, LettingGoKeeps, PrepareKeeps, SpawnKeeps,
     WriteRecordKeeps, SignalKeeps, InterruptKeeps, CompleteKeeps, DieKeeps
     DEF Step, Work, Quiet
<1> QED
  BY <1>1, EnvironmentKeeps, StutterKeeps DEF Next

\* The invariant, in every state of every behaviour.
THEOREM Invariance == Spec => []Inv
  BY InitInv, NextKeeps, PTL DEF Spec

\* Every variable keeps its type.
THEOREM Typed == Spec => []TypeOK
<1>1. Inv => TypeOK
  BY DEF Inv, Types
<1> QED
  BY <1>1, Invariance, PTL

\* xtz never has two servers running but for those whose start ended before the
\* record: the one that is recorded and the one about to be exclude each other.
THEOREM OneServerHolds == Spec => []OneServer
<1>1. Inv => OneServer
  <2> SUFFICES ASSUME Inv, NEW s \in Srv \ lost, NEW t \in Srv \ lost,
                      Running(s), Running(t)
               PROVE  s = t
    BY DEF OneServer
  <2>1. CASE \E p \in Xtz : xtz[p].pc = "record"
    <3>1. PICK p \in Xtz : xtz[p].pc = "record"
      BY <2>1
    <3>2. record = NoRecord /\ \A q \in Xtz : xtz[q].pc = "record" => q = p
      BY <3>1, OthersRest DEF Inv, Local, Before
    <3> QED
      BY <3>2, WebLifecycleAssumption DEF Inv, Accounted, NoRecord, At
  <2>2. CASE \A p \in Xtz : xtz[p].pc # "record"
    BY <2>2 DEF Inv, Accounted, At
  <2> QED
    BY <2>1, <2>2
<1> QED
  BY <1>1, Invariance, PTL

\* No signal goes to a process that has taken over the pid of a server.
THEOREM StrangersSparedHolds == Spec => []StrangersSpared
<1>1. Inv => StrangersSpared
  BY DEF Inv, StrangersSpared
<1> QED
  BY <1>1, Invariance, PTL

\* The stamp names the port of the recorded server.
THEOREM StampOfRecordedHolds == Spec => []StampOfRecorded
<1>1. Inv => StampOfRecorded
  BY DEF Inv, Stamped, StampOfRecorded
<1> QED
  BY <1>1, Invariance, PTL

\* No command removes the record of a server that can still be stopped: the steps
\* that change a record are the one that clears what was found gone and the one
\* that writes where there was none.
THEOREM RecordKeptHolds == Spec => RecordKept
<1>1. ASSUME Inv, [Next]_vars, record # NoRecord, record' # record
      PROVE  srv[record.srv].state \in {"killed", "dead", "reused"}
  <2>1. PICK p \in Xtz : Remove(p) \/ WriteRecord(p)
    <3>1. ~Environment
      BY <1>1, EnvironmentTypes DEF Inv, World, files
    <3>2. UNCHANGED vars => record' = record
      BY DEF vars, files
    <3>3. PICK p \in Xtz : Step(p)
      BY <1>1, <3>1, <3>2 DEF Next
    <3>4. ~Quiet(p)
      BY <1>1, <3>3, QuietRests DEF Rest, files
    <3> QED
      BY <1>1, <3>3, <3>4 DEF Step, Work, Quiet, Begin, Release, Prepare, Spawn, Announce,
         Terminate, ForceKill, Interrupt, Complete, Die, files
  <2>2. Local(p)
    BY <1>1 DEF Inv
  <2>3. CASE Remove(p)
    BY <2>2, <2>3 DEF Remove, At, Local
  <2>4. CASE WriteRecord(p)
    BY <1>1, <2>2, <2>4 DEF WriteRecord, At, Local, Before
  <2> QED
    BY <2>1, <2>3, <2>4
<1> QED
  BY <1>1, Invariance, PTL DEF Spec, RecordKept

\* A start that reports success has seen its own child answer, or a dsh run by
\* hand, or a child it lost track of.
THEOREM AnnouncesOwnHolds == Spec => AnnouncesOwn
<1>1. ASSUME Inv, [Next]_vars, NEW p \in Xtz, At(p, "ready"), At(p, "announce")'
      PROVE  bound[xtz[p].port] \in {xtz[p].rec.srv, Dsh} \cup lost
  <2>1. Ready(p)
    <3>1. ~Environment /\ ~UNCHANGED vars
      BY <1>1, EnvironmentTypes DEF Inv, World, vars, At
    <3>2. PICK q \in Xtz : Step(q)
      BY <1>1, <3>1 DEF Next
    <3>3. q = p
      BY <1>1, <3>2, StepOfOne DEF Inv, At
    <3>4. ~Die(p)
      BY <1>1 DEF Die, At, Idle, Inv, Types, TypeOK
    <3>5. xtz[p].pc = "ready"
      BY <1>1 DEF At
    <3>6. ~Begin(p) /\ ~Ask(p) /\ ~Interrupt(p) /\ ~Complete(p)
      BY <3>5 DEF Begin, Ask, Interrupt, Complete, At
    <3>7. ~InspectStart(p) /\ ~InspectStop(p) /\ ~InspectRestart(p) /\ ~StartAgain(p)
          /\ ~Compare(p) /\ ~Remove(p) /\ ~Release(p)
      BY <3>5 DEF InspectStart, InspectStop, InspectRestart, StartAgain, Compare, Remove,
         Release, At
    <3>8. ~Probe(p) /\ ~Launch(p) /\ ~Prepare(p) /\ ~Spawn(p) /\ ~WriteRecord(p)
          /\ ~Announce(p) /\ ~CheckTerm(p) /\ ~Terminate(p) /\ ~Poll(p) /\ ~ForceKill(p)
      BY <3>5 DEF Probe, Launch, Prepare, Spawn, WriteRecord, Announce, CheckTerm, Terminate,
         Poll, ForceKill, At
    <3> QED
      BY <3>2, <3>3, <3>4, <3>6, <3>7, <3>8 DEF Step, Work
  <2>2. PICK a \in Answers(xtz[p].port) : a = "running"
    BY <1>1, <2>1 DEF Ready, Goto, Stop, At, Inv, Types, TypeOK
  <2>3. bound[xtz[p].port] \notin {Nobody, Other}
    BY <2>2, AnswersTell
  <2>4. OwnPort(p) /\ xtz[p].pc = "ready"
    BY <1>1 DEF Inv, At
  <2> QED
    BY <2>3, <2>4 DEF OwnPort
<1>2. ASSUME Inv, [Next]_vars
      PROVE  \A p \in Xtz : At(p, "ready") /\ At(p, "announce")'
               => bound[xtz[p].port] \in {xtz[p].rec.srv, Dsh} \cup lost
  BY <1>1, <1>2
<1> QED
  BY <1>2, Invariance, PTL DEF Spec, AnnouncesOwn
=============================================================================
