------------------------------ MODULE XtzLock ------------------------------
(***************************************************************************)
(* The lifecycle lock of the xtz command line: acquireReconcileLock and     *)
(* releaseReconcileLock of apps/cli/src/app.ts over the exclusive-file      *)
(* primitives of createDefaultDependencies.                                 *)
(*                                                                          *)
(* Every attempt publishes a record in a file of its own, named by a fresh  *)
(* token: first "choosing", then "ready" with a ticket above every ticket   *)
(* it read.  The directory is scanned twice, one file at a time, while      *)
(* other processes go on; records whose owner is gone are removed on the    *)
(* way.  The attempt with the lowest ticket wins, any doubt gives up.       *)
(*                                                                          *)
(* A process can die at every step, leaving its record behind, and another  *)
(* process can then run under the same pid.                                 *)
(***************************************************************************)
EXTENDS Naturals, FiniteSets

CONSTANTS
  Proc,        \* process generations: what processIdentity tells apart
  NoProc,      \* the owner of a record that does not parse
  PidOf,       \* the pid each generation runs under; pids are reused
  Hidden,      \* generations whose identity the platform may fail to read
  Token,       \* the random UUIDs; one is used by one attempt only
  Damaged,     \* lock files that may be there from the start and do not parse
  MaxDeaths,   \* bound on the processes that end
  MaxTicket    \* bound on tickets, large enough never to be reached

ASSUME XtzLockAssumption ==
  /\ NoProc \notin Proc
  /\ Token \subseteq Nat /\ Token # {}
  /\ Damaged \subseteq Token
  /\ MaxTicket \in Nat

VARIABLES
  dir,         \* tokens whose lock file exists in the home directory
  file,        \* the content of each lock file
  used,        \* tokens taken so far
  pc,          \* where each process is; "dead" and "unborn" ones do not run
  round,       \* 1 in the first activeContenders() of an attempt, 2 in the second
  my,          \* `text`: the record the attempt believes it has published
  todo,        \* names listDirectory returned that are still to be read
  seen,        \* `contenders`: the active records collected by the scan
  cur,         \* `owner`: the record being judged
  result,      \* how the last attempt ended, once it gave up
  contended    \* history: something legitimate stood in the attempt's way

vars == <<dir, file, used, pc, round, my, todo, seen, cur, result, contended>>

-----------------------------------------------------------------------------
(* Types *)

State == {"choosing", "ready", "malformed"}

\* ReconcileLockRecord; `identified` says whether the owner could read its own
\* process identity and wrote it down.
Record == [proc : Proc \cup {NoProc}, identified : BOOLEAN, token : Token,
           state : State, ticket : Nat]

Malformed(t) == [proc |-> NoProc, identified |-> FALSE, token |-> t,
                 state |-> "malformed", ticket |-> 0]

Choosing(p, t, identified) ==
  [proc |-> p, identified |-> identified, token |-> t,
   state |-> "choosing", ticket |-> 0]

Scanning == {"list", "read", "alive", "identity", "reap", "restore"}
Dropping == {"drop", "dropping"}
\* From createExclusive until the lock is given up or released.
Attempting == {"created", "ready", "won", "held"} \cup Scanning
PC == {"unborn", "dead", "idle"} \cup Attempting \cup Dropping

TypeOK ==
  /\ dir \subseteq Token
  /\ used \subseteq Token
  /\ file \in [Token -> Record]
  /\ pc \in [Proc -> PC]
  /\ round \in [Proc -> {1, 2}]
  /\ my \in [Proc -> Record]
  /\ todo \in [Proc -> SUBSET Token]
  /\ seen \in [Proc -> SUBSET Record]
  /\ cur \in [Proc -> Record]
  /\ result \in [Proc -> {"none", "busy", "error"}]
  /\ contended \in [Proc -> BOOLEAN]

-----------------------------------------------------------------------------
(* What a process can find out *)

Running(p) == pc[p] \notin {"unborn", "dead"}

\* processAlive(pid): some process runs under the owner's pid now.
PidAlive(r) == \E q \in Proc : Running(q) /\ PidOf[q] = PidOf[r.proc]

\* ownsExclusive(path, text)
Owns(p) == my[p].token \in dir /\ file[my[p].token] = my[p]

\* Mutant: max(1, tickets), the increment forgotten.
IsNextTicketEqual(n, S) ==
  /\ \A r \in S : r.ticket <= n
  /\ n = 1 \/ \E r \in S : r.ticket = n

\* max(0, tickets) + 1
IsNextTicket(n, S) ==
  /\ \A r \in S : r.ticket < n
  /\ n = 1 \/ \E r \in S : r.ticket + 1 = n

\* Mutant: sorted by token alone.
BeforeByToken(r, s) == r.token < s.token

\* The order of `ready.sort`: ticket, then token.
Before(r, s) == r.ticket < s.ticket \/ (r.ticket = s.ticket /\ r.token < s.token)

IsFirst(p) ==
  \E r \in seen[p] : /\ r.token = my[p].token
                     /\ \A s \in seen[p] : s.token # r.token => Before(r, s)

OthersChoosing(p) ==
  \E r \in seen[p] : r.token # my[p].token /\ r.state = "choosing"

\* A record that rightly keeps others out: it does not parse, its owner runs, or
\* it names no identity and its pid is in use.
Blocking(t) ==
  \/ file[t].state = "malformed"
  \/ file[t].proc \in Proc /\ Running(file[t].proc)
  \/ file[t].proc \in Proc /\ ~file[t].identified /\ PidAlive(file[t])

\* Conjoined to every step: remember whether an attempt ever met such a record,
\* or could not tell (`unsure`).
Observe(unsure) ==
  contended' = [p \in Proc |->
    \/ contended[p] /\ pc'[p] # "dead" /\ (pc[p] = "idle" => pc'[p] = "idle")
    \/ p \in unsure
    \/ /\ pc'[p] \in Attempting \cup Dropping
       /\ \E t \in dir' : t # my'[p].token /\ Blocking(t)']

-----------------------------------------------------------------------------
(* Processes come and go *)

Blank == Malformed(CHOOSE t \in Token : TRUE)

Init ==
  /\ dir \in SUBSET Damaged /\ used = Damaged
  /\ file = [t \in Token |-> Malformed(t)]
  /\ pc = [p \in Proc |-> "unborn"]
  /\ round = [p \in Proc |-> 1]
  /\ my = [p \in Proc |-> Blank]
  /\ cur = [p \in Proc |-> Blank]
  /\ todo = [p \in Proc |-> {}]
  /\ seen = [p \in Proc |-> {}]
  /\ result = [p \in Proc |-> "none"]
  /\ contended = [p \in Proc |-> FALSE]

\* A pid is given to one running process at a time.
Start(p) ==
  /\ pc[p] = "unborn"
  /\ \A q \in Proc : Running(q) => PidOf[q] # PidOf[p]
  /\ pc' = [pc EXCEPT ![p] = "idle"]
  /\ UNCHANGED <<dir, file, used, round, my, todo, seen, cur, result>>

\* Exit, crash or SIGKILL: the locals are gone, the files stay.
Die(p) ==
  /\ Running(p)
  /\ Cardinality({q \in Proc : pc[q] = "dead"}) < MaxDeaths
  /\ pc' = [pc EXCEPT ![p] = "dead"]
  /\ round' = [round EXCEPT ![p] = 1]
  /\ my' = [my EXCEPT ![p] = Blank]
  /\ cur' = [cur EXCEPT ![p] = Blank]
  /\ todo' = [todo EXCEPT ![p] = {}]
  /\ seen' = [seen EXCEPT ![p] = {}]
  /\ result' = [result EXCEPT ![p] = "none"]
  /\ UNCHANGED <<dir, file, used>>

-----------------------------------------------------------------------------
(* activeContenders(): one scan of the directory *)

Goto(p, l) == pc' = [pc EXCEPT ![p] = l]

List(p) ==
  /\ pc[p] = "list"
  /\ todo' = [todo EXCEPT ![p] = dir]
  /\ seen' = [seen EXCEPT ![p] = {}]
  /\ Goto(p, "read")
  /\ UNCHANGED <<dir, file, used, round, my, cur, result>>

\* The file of a listed name is gone by the time it is read.
ReadGone(p) ==
  /\ pc[p] = "read"
  /\ \E t \in todo[p] \ dir : todo' = [todo EXCEPT ![p] = @ \ {t}]
  /\ UNCHANGED <<dir, file, used, pc, round, my, seen, cur, result>>

\* Its own record counts as active without further questions.
ReadOwn(p) ==
  /\ pc[p] = "read"
  /\ \E t \in todo[p] \cap dir :
       /\ file[t].state # "malformed" /\ t = my[p].token
       /\ todo' = [todo EXCEPT ![p] = @ \ {t}]
       /\ seen' = [seen EXCEPT ![p] = @ \cup {file[t]}]
  /\ UNCHANGED <<dir, file, used, pc, round, my, cur, result>>

ReadOther(p) ==
  /\ pc[p] = "read"
  /\ \E t \in todo[p] \cap dir :
       /\ file[t].state # "malformed" /\ t # my[p].token
       /\ todo' = [todo EXCEPT ![p] = @ \ {t}]
       /\ cur' = [cur EXCEPT ![p] = file[t]]
  /\ Goto(p, "alive")
  /\ UNCHANGED <<dir, file, used, round, my, seen, result>>

\* The scan's locals go out of scope.
EndScan(p) ==
  /\ todo' = [todo EXCEPT ![p] = {}]
  /\ seen' = [seen EXCEPT ![p] = {}]

\* Leave the try block without the lock: the finally block runs next.
GiveUp(p, why) ==
  /\ Goto(p, "drop")
  /\ result' = [result EXCEPT ![p] = why]

\* A record that does not parse fails the whole scan.
ReadMalformed(p) ==
  /\ pc[p] = "read"
  /\ \E t \in todo[p] \cap dir : file[t].state = "malformed"
  /\ GiveUp(p, "busy") /\ EndScan(p)
  /\ UNCHANGED <<dir, file, used, round, my, cur>>

Judged(p) == Goto(p, "read") /\ cur' = [cur EXCEPT ![p] = Blank]

AddContender(p) ==
  /\ seen' = [seen EXCEPT ![p] = @ \cup {cur[p]}]
  /\ Judged(p)

\* processAlive(owner.pid)
CheckAlive(p) ==
  /\ pc[p] = "alive"
  /\ IF ~PidAlive(cur[p])
     THEN Goto(p, "reap") /\ UNCHANGED <<seen, cur>>
     ELSE IF cur[p].identified
          THEN Goto(p, "identity") /\ UNCHANGED <<seen, cur>>
          ELSE AddContender(p)
  /\ UNCHANGED <<dir, file, used, round, my, todo, result>>

\* Mutant: any answer counts, a pid in use is taken for its former owner.
CheckIdentityAnyone(p) ==
  /\ pc[p] = "identity"
  /\ \E q \in Proc : Running(q) /\ PidOf[q] = PidOf[cur[p].proc]
  /\ AddContender(p)
  /\ UNCHANGED <<dir, file, used, round, my, todo, result>>

\* processIdentity(owner.pid) answers with the generation that runs there now.
CheckIdentity(p) ==
  /\ pc[p] = "identity"
  /\ \E q \in Proc :
       /\ Running(q) /\ PidOf[q] = PidOf[cur[p].proc]
       /\ IF q = cur[p].proc THEN AddContender(p)
                             ELSE Goto(p, "reap") /\ UNCHANGED <<seen, cur>>
  /\ UNCHANGED <<dir, file, used, round, my, todo, result>>

\* Mutant: no answer counts as an answer that differs.
IdentityUnreadableReaps(p) ==
  /\ pc[p] = "identity"
  /\ \A q \in Proc \ Hidden : Running(q) => PidOf[q] # PidOf[cur[p].proc]
  /\ Goto(p, "reap")
  /\ UNCHANGED <<dir, file, used, round, my, todo, seen, cur, result>>

\* processIdentity(owner.pid) is null: unreadable, or the process is gone by now.
IdentityUnreadable(p) ==
  /\ pc[p] = "identity"
  /\ \A q \in Proc \ Hidden : Running(q) => PidOf[q] # PidOf[cur[p].proc]
  /\ AddContender(p)
  /\ UNCHANGED <<dir, file, used, round, my, todo, result>>

\* removeExclusive(contenderPath, contenderText), first half: the rename.
Reap(p) ==
  /\ pc[p] = "reap"
  /\ IF cur[p].token \in dir THEN Goto(p, "restore") /\ UNCHANGED cur
                             ELSE Judged(p)
  /\ dir' = dir \ {cur[p].token}
  /\ UNCHANGED <<file, used, round, my, todo, seen, result>>

\* Second half: a file that is not the one judged is linked back.  Its content
\* is still file[token], because a token names one file only.
Restore(p) ==
  /\ pc[p] = "restore"
  /\ dir' = IF file[cur[p].token] = cur[p] THEN dir ELSE dir \cup {cur[p].token}
  /\ Judged(p)
  /\ UNCHANGED <<file, used, round, my, todo, seen, result>>

Scanned(p, n) == pc[p] = "read" /\ todo[p] = {} /\ round[p] = n

-----------------------------------------------------------------------------
(* acquireReconcileLock *)

\* The call returns.
Finish(p) == Goto(p, "idle") /\ my' = [my EXCEPT ![p] = Blank]

\* createExclusive with a fresh token; the own identity may be unreadable.
Begin(p) ==
  /\ pc[p] = "idle"
  /\ \E t \in Token \ used, identified \in BOOLEAN :
       LET record == Choosing(p, t, identified) IN
       /\ identified \/ p \in Hidden
       /\ used' = used \cup {t}
       /\ dir' = dir \cup {t}
       /\ file' = [file EXCEPT ![t] = record]
       /\ my' = [my EXCEPT ![p] = record]
  /\ result' = [result EXCEPT ![p] = "none"]
  /\ Goto(p, "created")
  /\ UNCHANGED <<round, todo, seen, cur>>

\* ownsExclusive right after; failing here is outside the try block.
CheckCreated(p) ==
  /\ pc[p] = "created"
  /\ IF Owns(p) THEN Goto(p, "list") /\ UNCHANGED <<my, result>>
     ELSE Finish(p) /\ result' = [result EXCEPT ![p] = "busy"]
  /\ round' = [round EXCEPT ![p] = 1]
  /\ UNCHANGED <<dir, file, used, todo, seen, cur>>

\* Mutant: wait for the other attempt by scanning again.
MeetsChoosingWaits(p) ==
  /\ Scanned(p, 1) /\ OthersChoosing(p)
  /\ Goto(p, "list") /\ EndScan(p)
  /\ UNCHANGED <<dir, file, used, round, my, cur, result>>

MeetsChoosing(p) ==
  /\ Scanned(p, 1) /\ OthersChoosing(p)
  /\ GiveUp(p, "busy") /\ EndScan(p)
  /\ UNCHANGED <<dir, file, used, round, my, cur>>

\* replaceExclusive with the ready record.  It may throw (a full disk): the
\* attempt then holds a text that was never published.
PublishTicket(p) ==
  /\ Scanned(p, 1) /\ ~OthersChoosing(p)
  /\ \E n \in 1..MaxTicket :
       LET record == [my[p] EXCEPT !.state = "ready", !.ticket = n] IN
       /\ IsNextTicket(n, seen[p])
       /\ my' = [my EXCEPT ![p] = record]
       /\ \/ /\ file' = [file EXCEPT ![my[p].token] = record]
             /\ dir' = dir \cup {my[p].token}
             /\ Goto(p, "ready")
             /\ UNCHANGED result
          \/ /\ GiveUp(p, "error")
             /\ UNCHANGED <<dir, file>>
  /\ EndScan(p)
  /\ UNCHANGED <<used, round, cur>>

\* ownsExclusive after publishing, then the second scan.
CheckReady(p) ==
  /\ pc[p] = "ready"
  /\ IF Owns(p) THEN Goto(p, "list") /\ UNCHANGED result ELSE GiveUp(p, "busy")
  /\ round' = [round EXCEPT ![p] = 2]
  /\ UNCHANGED <<dir, file, used, my, todo, seen, cur>>

Decide(p) ==
  /\ Scanned(p, 2)
  /\ IF (\A r \in seen[p] : r.state # "choosing") /\ IsFirst(p)
     THEN Goto(p, "won") /\ UNCHANGED result
     ELSE GiveUp(p, "busy")
  /\ EndScan(p)
  /\ UNCHANGED <<dir, file, used, round, my, cur>>

\* The last ownsExclusive.
Win(p) ==
  /\ pc[p] = "won"
  /\ IF Owns(p) THEN Goto(p, "held") /\ UNCHANGED result ELSE GiveUp(p, "busy")
  /\ UNCHANGED <<dir, file, used, round, my, todo, seen, cur>>

-----------------------------------------------------------------------------
(* Leaving: the finally block, and releaseReconcileLock *)

Release(p) ==
  /\ pc[p] = "held"
  /\ IF Owns(p) THEN Goto(p, "drop") /\ UNCHANGED my ELSE Finish(p)
  /\ UNCHANGED <<dir, file, used, round, todo, seen, cur, result>>

\* removeExclusive(path, text): rename away; link back what is not `text`.
Drop(p) ==
  /\ pc[p] = "drop"
  /\ IF my[p].token \in dir THEN Goto(p, "dropping") /\ UNCHANGED my ELSE Finish(p)
  /\ dir' = dir \ {my[p].token}
  /\ UNCHANGED <<file, used, round, todo, seen, cur, result>>

Dropped(p) ==
  /\ pc[p] = "dropping"
  /\ dir' = IF file[my[p].token] = my[p] THEN dir ELSE dir \cup {my[p].token}
  /\ Finish(p)
  /\ UNCHANGED <<file, used, round, todo, seen, cur, result>>

-----------------------------------------------------------------------------
Scan(p) == \/ List(p) \/ ReadGone(p) \/ ReadOwn(p) \/ ReadOther(p)
           \/ ReadMalformed(p) \/ CheckAlive(p) \/ CheckIdentity(p)
           \/ Reap(p) \/ Restore(p)

\* The steps a process takes by itself once it has begun an attempt.
Attempt(p) == \/ Scan(p) \/ CheckCreated(p) \/ MeetsChoosing(p)
              \/ PublishTicket(p) \/ CheckReady(p) \/ Decide(p) \/ Win(p)
              \/ Drop(p) \/ Dropped(p)

Step(p) ==
  \/ (Start(p) \/ Die(p) \/ Begin(p) \/ Release(p) \/ Attempt(p)) /\ Observe({})
  \/ IdentityUnreadable(p) /\ Observe({p})

Next == \E p \in Proc : Step(p)

Spec == Init /\ [][Next]_vars

\* The event loop runs on: every await of an attempt settles.
FairSpec ==
  /\ Spec
  /\ \A p \in Proc : WF_vars((Attempt(p) /\ Observe({}))
                             \/ (IdentityUnreadable(p) /\ Observe({p})))

-----------------------------------------------------------------------------
(* Properties *)

Holders == {p \in Proc : pc[p] = "held"}

\* No two running xtz processes are inside the lifecycle lock at once, whatever
\* the scans interleave with, whoever dies and whichever pid is reused.
MutualExclusion == \A p, q \in Holders : p = q

\* As long as a process holds the lock its record is in the directory, exactly as
\* written: no other scan took it for that of a dead process, whether or not its
\* identity could be read, and no removal of an older record took it along
\* (activeContenders, removeExclusive).
HolderRecorded == \A p \in Holders : Owns(p)

\* An attempt is turned away only because of a record that had a right to stand
\* in its way; what crashed processes left behind is not one, even when their
\* pid is in use again, as long as identities can be read.
BusyOnlyWhenContended == \A p \in Proc : result[p] = "busy" => contended[p]

\* Seen from its callers the whole protocol is an atomic try-lock.
Abstract == INSTANCE TryLock WITH holders <- Holders
ImplementsTryLock == Abstract!Spec

\* Every attempt ends: it gets the lock, gives up or dies, it never waits.
AttemptEnds == \A p \in Proc :
  pc[p] = "created" ~> pc[p] \in {"held", "idle", "dead"}
=============================================================================
