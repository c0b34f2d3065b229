--------------------------- MODULE XtzLock_proofs ---------------------------
(***************************************************************************)
(* The lifecycle lock, for any number of processes, attempts, crashes and   *)
(* reused pids: mutual exclusion, the try-lock it implements, and that only *)
(* what has a right to keeps an attempt out.                                *)
(***************************************************************************)
EXTENDS XtzLock, TLAPS

\* A damaged lock file is one of the values a file may have.
LEMMA BlankRecord == Blank \in Record
  BY XtzLockAssumption DEF Blank, Malformed, Record, State

\* Every action of a step, for the case split of the proofs below.
LEMMA StepCases ==
  ASSUME NEW p \in Proc, Step(p)
  PROVE  \/ Start(p) \/ Die(p) \/ Begin(p) \/ Release(p)
         \/ List(p) \/ ReadGone(p) \/ ReadOwn(p) \/ ReadOther(p)
         \/ ReadMalformed(p) \/ CheckAlive(p) \/ CheckIdentity(p)
         \/ IdentityUnreadable(p) \/ Reap(p) \/ Restore(p)
         \/ CheckCreated(p) \/ MeetsChoosing(p) \/ PublishTicket(p)
         \/ CheckReady(p) \/ Decide(p) \/ Win(p) \/ Drop(p) \/ Dropped(p)
  BY DEF Step, Attempt, Scan

\* Every variable keeps its type: TypeOK of XtzLock.
THEOREM TypeCorrect == Spec => []TypeOK
<1>1. Init => TypeOK
  BY XtzLockAssumption, BlankRecord DEF Init, TypeOK, PC, Attempting, Scanning, Dropping,
                     Malformed, Record, State
<1>2. TypeOK /\ [Next]_vars => TypeOK'
  <2> SUFFICES ASSUME TypeOK, [Next]_vars PROVE TypeOK'
    OBVIOUS
  <2>1. CASE UNCHANGED vars
    BY <2>1 DEF vars, TypeOK
  <2>2. ASSUME NEW p \in Proc, Step(p) PROVE TypeOK'
    <3> USE DEF TypeOK, PC, Attempting, Scanning, Dropping
    <3>0. contended' \in [Proc -> BOOLEAN]
      BY <2>2 DEF Step, Observe
    <3>1. CASE Start(p) BY <3>0, <3>1 DEF Start
    <3>2. CASE Die(p) BY <3>0, <3>2, BlankRecord DEF Die
    <3>3. CASE Begin(p)
      BY <3>0, <3>3 DEF Begin, Goto, Choosing, Record, State
    <3>4. CASE Release(p) BY <3>0, <3>4, BlankRecord DEF Release, Goto, Finish
    <3>5. CASE List(p) BY <3>0, <3>5 DEF List, Goto
    <3>6. CASE ReadGone(p) BY <3>0, <3>6 DEF ReadGone
    <3>7. CASE ReadOwn(p)
      <4>1. PICK t \in Token : /\ todo' = [todo EXCEPT ![p] = @ \ {t}]
                              /\ seen' = [seen EXCEPT ![p] = @ \cup {file[t]}]
        BY <3>7 DEF ReadOwn
      <4>2. seen' \in [Proc -> SUBSET Record] /\ todo' \in [Proc -> SUBSET Token]
        BY <4>1
      <4> QED BY <3>0, <3>7, <4>2 DEF ReadOwn
    <3>8. CASE ReadOther(p) BY <3>0, <3>8 DEF ReadOther, Goto
    <3>9. CASE ReadMalformed(p)
      BY <3>0, <3>9 DEF ReadMalformed, GiveUp, EndScan, Goto
    <3>10. CASE CheckAlive(p)
      BY <3>0, <3>10, BlankRecord DEF CheckAlive, AddContender, Judged, Goto
    <3>11. CASE CheckIdentity(p)
      BY <3>0, <3>11, BlankRecord DEF CheckIdentity, AddContender, Judged, Goto
    <3>12. CASE IdentityUnreadable(p)
      BY <3>0, <3>12, BlankRecord DEF IdentityUnreadable, AddContender, Judged, Goto
    <3>13. CASE Reap(p)
      <4>1. CASE cur[p].token \in dir BY <3>0, <3>13, <4>1 DEF Reap, Goto
      <4>2. CASE cur[p].token \notin dir
        <5>1. /\ cur' \in [Proc -> Record]
              /\ pc' \in [Proc -> PC]
              /\ dir' \subseteq Token
          <6>1. Judged(p) /\ dir' = dir \ {cur[p].token}
            BY <3>13, <4>2 DEF Reap
          <6> HIDE DEF PC
          <6>2. "read" \in PC BY DEF PC
          <6>3. cur' \in [Proc -> Record] BY <6>1, BlankRecord DEF Judged
          <6>4. pc' \in [Proc -> PC] BY <6>1, <6>2 DEF Judged, Goto
          <6> QED BY <6>1, <6>3, <6>4
        <5> QED BY <3>0, <3>13, <5>1 DEF Reap
      <4> QED BY <4>1, <4>2
    <3>14. CASE Restore(p)
      BY <3>0, <3>14, BlankRecord DEF Restore, Judged, Goto, Record
    <3>15. CASE CheckCreated(p)
      BY <3>0, <3>15, BlankRecord DEF CheckCreated, Finish, Goto
    <3>16. CASE MeetsChoosing(p)
      BY <3>0, <3>16 DEF MeetsChoosing, GiveUp, EndScan, Goto
    <3>17. CASE PublishTicket(p)
      <4>1. PICK n \in 1..MaxTicket :
              LET record == [my[p] EXCEPT !.state = "ready", !.ticket = n] IN
              /\ my' = [my EXCEPT ![p] = record]
              /\ \/ /\ file' = [file EXCEPT ![my[p].token] = record]
                    /\ dir' = dir \cup {my[p].token}
                    /\ Goto(p, "ready")
                    /\ UNCHANGED result
                 \/ /\ GiveUp(p, "error")
                    /\ UNCHANGED <<dir, file>>
        BY <3>17 DEF PublishTicket
      <4>2. /\ [my[p] EXCEPT !.state = "ready", !.ticket = n] \in Record
            /\ my[p].token \in Token
        <5>1. my[p] \in Record /\ n \in Nat /\ "ready" \in State BY DEF State
        <5> QED BY <5>1 DEF Record
      <4>3. /\ my' \in [Proc -> Record]
            /\ file' \in [Token -> Record]
            /\ dir' \subseteq Token
            /\ pc' \in [Proc -> PC]
            /\ result' \in [Proc -> {"none", "busy", "error"}]
        <5>1. my' \in [Proc -> Record] BY <4>1, <4>2
        <5>2. CASE GiveUp(p, "error") /\ UNCHANGED <<dir, file>>
          BY <5>1, <5>2 DEF GiveUp, Goto
        <5>3. CASE /\ file' = [file EXCEPT ![my[p].token] =
                               [my[p] EXCEPT !.state = "ready", !.ticket = n]]
                   /\ dir' = dir \cup {my[p].token}
                   /\ Goto(p, "ready")
                   /\ UNCHANGED result
          BY <5>1, <5>3, <4>2 DEF Goto
        <5> QED BY <4>1, <5>2, <5>3
      <4> QED BY <3>0, <3>17, <4>3 DEF PublishTicket, EndScan
    <3>18. CASE CheckReady(p) BY <3>0, <3>18 DEF CheckReady, GiveUp, Goto
    <3>19. CASE Decide(p) BY <3>0, <3>19 DEF Decide, GiveUp, EndScan, Goto
    <3>20. CASE Win(p) BY <3>0, <3>20 DEF Win, GiveUp, Goto
    <3>21. CASE Drop(p)
      <4>1. CASE my[p].token \in dir BY <3>0, <3>21, <4>1 DEF Drop, Goto
      <4>2. CASE my[p].token \notin dir
        <5>1. /\ my' \in [Proc -> Record]
              /\ pc' \in [Proc -> PC]
              /\ dir' \subseteq Token
          <6>1. Finish(p) /\ dir' = dir \ {my[p].token}
            BY <3>21, <4>2 DEF Drop
          <6> HIDE DEF PC
          <6>2. "idle" \in PC BY DEF PC
          <6>3. my' \in [Proc -> Record] BY <6>1, BlankRecord DEF Finish
          <6>4. pc' \in [Proc -> PC] BY <6>1, <6>2 DEF Finish, Goto
          <6> QED BY <6>1, <6>3, <6>4
        <5> QED BY <3>0, <3>21, <5>1 DEF Drop
      <4> QED BY <4>1, <4>2
    <3>22. CASE Dropped(p)
      BY <3>0, <3>22, BlankRecord DEF Dropped, Finish, Goto, Record
    <3> QED
      BY <2>2, StepCases, <3>1, <3>2, <3>3, <3>4, <3>5, <3>6, <3>7, <3>8, <3>9,
         <3>10, <3>11, <3>12, <3>13, <3>14, <3>15, <3>16, <3>17, <3>18, <3>19,
         <3>20, <3>21, <3>22
  <2> QED
    BY <2>1, <2>2 DEF Next
<1> QED
  BY <1>1, <1>2, PTL DEF Spec

-----------------------------------------------------------------------------
(***************************************************************************)
(* The inductive invariant.                                                 *)
(*                                                                          *)
(* Of any two attempts that are under way, one has noticed the other: it    *)
(* will still list it, still has to read it, is judging it, or has its      *)
(* record among its contenders, and once it has a ticket of its own that    *)
(* ticket is higher.  Such an attempt cannot win, so two cannot.            *)
(***************************************************************************)
Judging == {"alive", "identity", "reap", "restore"}

\* An attempt's own record is where it should be.
OwnRecord == \A p \in Proc :
  /\ pc[p] \in Attempting \cup Dropping =>
       /\ my[p].token \in used /\ my[p].proc = p /\ my[p].state # "malformed"
       /\ file[my[p].token].proc = p
  /\ pc[p] \in Attempting =>
       /\ my[p].token \in dir /\ file[my[p].token] = my[p]
  /\ pc[p] = "created" \/ (pc[p] \in Scanning /\ round[p] = 1) =>
       my[p].state = "choosing"

FileNames == dir \subseteq used /\ \A t \in Token : file[t].token = t

\* What is being judged is an earlier or the current text of another's record,
\* and what is being removed belongs to no attempt under way.
JudgedRecord == \A q \in Proc : pc[q] \in Judging =>
  /\ cur[q].token \in used /\ cur[q].token # my[q].token
  /\ \A p \in Proc : pc[p] \in Attempting /\ cur[q].token = my[p].token =>
       /\ pc[q] \notin {"reap", "restore"}
       /\ cur[q].proc = p
       /\ cur[q].state = "choosing" \/ cur[q] = my[p]

OwnSeen == \A q \in Proc : pc[q] \in Scanning \ {"list"} =>
  \A r \in seen[q] : r.token = my[q].token => r = my[q]

PidsDistinct == \A p, q \in Proc :
  Running(p) /\ Running(q) /\ PidOf[p] = PidOf[q] => p = q

Noticed(q, p) ==
  \/ my[p].token \in todo[q]
  \/ pc[q] \in Judging /\ cur[q].token = my[p].token
  \/ \E r \in seen[q] : /\ r.token = my[p].token
                        /\ r.state = "choosing" \/ r = my[p]

Yields(q, p) ==
  \/ pc[q] = "created"
  \/ /\ pc[q] \in {"ready"} \cup Scanning
     /\ pc[q] = "ready" \/ round[q] = 2 =>
          my[p].state = "ready" /\ my[p].ticket < my[q].ticket
     /\ pc[q] \in Scanning \ {"list"} => Noticed(q, p)

OneYields == \A p, q \in Proc :
  p # q /\ pc[p] \in Attempting /\ pc[q] \in Attempting => Yields(p, q) \/ Yields(q, p)

IInv == OwnRecord /\ FileNames /\ JudgedRecord /\ OwnSeen /\ PidsDistinct /\ OneYields

-----------------------------------------------------------------------------
\* q takes no part in the step.
Same(q) == /\ pc'[q] = pc[q] /\ round'[q] = round[q] /\ my'[q] = my[q]
           /\ todo'[q] = todo[q] /\ seen'[q] = seen[q] /\ cur'[q] = cur[q]

\* A step of s leaves the locals of every other process alone.
LEMMA Frame ==
  ASSUME TypeOK, NEW s \in Proc, Step(s)
  PROVE  \A q \in Proc \ {s} : Same(q)
<1> USE DEF TypeOK, Same, Goto, Finish, GiveUp, EndScan, Judged, AddContender
<1>1. CASE Start(s) BY <1>1 DEF Start
<1>2. CASE Die(s) BY <1>2 DEF Die
<1>3. CASE Begin(s) BY <1>3 DEF Begin
<1>4. CASE Release(s) BY <1>4 DEF Release
<1>5. CASE List(s) \/ ReadGone(s) \/ ReadOwn(s) \/ ReadOther(s) \/ ReadMalformed(s)
  BY <1>5 DEF List, ReadGone, ReadOwn, ReadOther, ReadMalformed
<1>6. CASE CheckAlive(s) BY <1>6 DEF CheckAlive
<1>6a. CASE CheckIdentity(s) BY <1>6a DEF CheckIdentity
<1>6b. CASE IdentityUnreadable(s) BY <1>6b DEF IdentityUnreadable
<1>7. CASE Reap(s) \/ Restore(s) BY <1>7 DEF Reap, Restore
<1>8. CASE CheckCreated(s) BY <1>8 DEF CheckCreated
<1>8a. CASE MeetsChoosing(s) BY <1>8a DEF MeetsChoosing
<1>8b. CASE CheckReady(s) BY <1>8b DEF CheckReady
<1>8c. CASE Decide(s) BY <1>8c DEF Decide
<1>8d. CASE Win(s) BY <1>8d DEF Win
<1>9. CASE PublishTicket(s) BY <1>9 DEF PublishTicket
<1>10. CASE Drop(s) \/ Dropped(s) BY <1>10 DEF Drop, Dropped
<1> QED BY StepCases, <1>1, <1>2, <1>3, <1>4, <1>5, <1>6, <1>6a, <1>6b, <1>7, <1>8, <1>8a, <1>8b, <1>8c, <1>8d, <1>9, <1>10

\* What publishing a ticket does, stated pointwise.
LEMMA PublishEffect ==
  ASSUME TypeOK, NEW s \in Proc, PublishTicket(s)
  PROVE  /\ pc[s] = "read" /\ round[s] = 1 /\ todo[s] = {} /\ ~OthersChoosing(s)
         /\ used' = used
         /\ my'[s].token = my[s].token /\ my'[s].proc = my[s].proc
         /\ my'[s].state = "ready" /\ my'[s] \in Record
         /\ \A r \in seen[s] : r.ticket < my'[s].ticket
         /\ \A t \in Token : t # my[s].token => file'[t] = file[t]
         /\ \/ /\ pc'[s] = "ready" /\ file'[my[s].token] = my'[s]
               /\ dir' = dir \cup {my[s].token}
            \/ pc'[s] = "drop" /\ file' = file /\ dir' = dir
<1> USE DEF TypeOK
<1>1. PICK n \in 1..MaxTicket :
        LET record == [my[s] EXCEPT !.state = "ready", !.ticket = n] IN
        /\ IsNextTicket(n, seen[s])
        /\ my' = [my EXCEPT ![s] = record]
        /\ \/ /\ file' = [file EXCEPT ![my[s].token] = record]
              /\ dir' = dir \cup {my[s].token}
              /\ Goto(s, "ready")
           \/ /\ Goto(s, "drop")
              /\ UNCHANGED <<dir, file>>
  BY DEF PublishTicket, GiveUp
<1> DEFINE record == [my[s] EXCEPT !.state = "ready", !.ticket = n]
<1>2. my[s] \in Record /\ n \in Nat /\ "ready" \in State BY DEF State
<1>3. /\ record \in Record /\ record.state = "ready" /\ record.ticket = n
      /\ record.token = my[s].token /\ record.proc = my[s].proc
  BY <1>2 DEF Record
<1>4. my'[s] = record BY <1>1
<1>5. my[s].token \in Token BY <1>2 DEF Record
<1> HIDE DEF record
<1>6. /\ pc[s] = "read" /\ round[s] = 1 /\ todo[s] = {} /\ ~OthersChoosing(s)
      /\ used' = used
  BY DEF PublishTicket, Scanned
<1>7. \A r \in seen[s] : r.ticket < n BY <1>1 DEF IsNextTicket
<1>8. CASE /\ file' = [file EXCEPT ![my[s].token] = record]
           /\ dir' = dir \cup {my[s].token}
           /\ Goto(s, "ready")
  BY <1>3, <1>4, <1>5, <1>6, <1>7, <1>8 DEF Goto
<1>9. CASE Goto(s, "drop") /\ UNCHANGED <<dir, file>>
  BY <1>3, <1>4, <1>6, <1>7, <1>9 DEF Goto
<1> QED BY <1>1, <1>8, <1>9 DEF record

\* No step of anybody disturbs the record of an attempt under way.
LEMMA OwnRecordStep ==
  ASSUME TypeOK, IInv, NEW s \in Proc, Step(s)
  PROVE  OwnRecord'
<1> USE DEF TypeOK, OwnRecord, FileNames, IInv, Attempting, Dropping, Scanning,
            Goto, Finish, GiveUp, EndScan, Judged, AddContender
<1> HIDE DEF IInv
<1>0. OwnRecord /\ FileNames /\ JudgedRecord BY DEF IInv
<1>a. \A q \in Proc \ {s} : Same(q) BY Frame
<1>1. CASE Start(s) BY <1>0, <1>1 DEF Start
<1>2. CASE Die(s) BY <1>0, <1>2 DEF Die
<1>3. CASE Begin(s) BY <1>0, <1>3 DEF Begin, Choosing
<1>4. CASE Release(s) BY <1>0, <1>4 DEF Release
<1>5. CASE List(s) \/ ReadGone(s) \/ ReadOwn(s) \/ ReadOther(s) \/ ReadMalformed(s)
  BY <1>0, <1>5 DEF List, ReadGone, ReadOwn, ReadOther, ReadMalformed
<1>6. CASE CheckAlive(s) BY <1>0, <1>6 DEF CheckAlive
<1>6a. CASE CheckIdentity(s) BY <1>0, <1>6a DEF CheckIdentity
<1>6b. CASE IdentityUnreadable(s) BY <1>0, <1>6b DEF IdentityUnreadable
<1>7. CASE Reap(s)
  <2>1. /\ my' = my /\ used' = used /\ file' = file /\ round' = round
        /\ dir' = dir \ {cur[s].token}
    BY <1>7 DEF Reap
  <2>2. pc'[s] \in {"restore", "read"} BY <1>7 DEF Reap
  <2>3. \A p \in Proc : pc[p] \in Attempting => my[p].token # cur[s].token
    BY <1>0, <1>7 DEF Reap, JudgedRecord, Judging
  <2>4. pc[s] = "reap" BY <1>7 DEF Reap
  <2> QED BY <1>0, <1>a, <2>1, <2>2, <2>3, <2>4 DEF Same
<1>7a. CASE Restore(s) BY <1>0, <1>7a DEF Restore
<1>8. CASE CheckCreated(s)
  <2>1. Owns(s) BY <1>0, <1>8 DEF CheckCreated, Owns
  <2> QED BY <1>0, <1>8, <2>1 DEF CheckCreated
<1>8a. CASE MeetsChoosing(s) BY <1>0, <1>8a DEF MeetsChoosing, Scanned
<1>8b. CASE CheckReady(s)
  <2>1. Owns(s) BY <1>0, <1>8b DEF CheckReady, Owns
  <2> QED BY <1>0, <1>8b, <2>1 DEF CheckReady
<1>8c. CASE Decide(s) BY <1>0, <1>8c DEF Decide, Scanned
<1>8d. CASE Win(s) BY <1>0, <1>8d DEF Win
<1>9. CASE PublishTicket(s)
  <2>1. my[s].token \in used /\ my[s].proc = s /\ my[s].token \in dir
        /\ file[my[s].token] = my[s] /\ my[s].token \in Token
    BY <1>0, PublishEffect, <1>9
  <2>2. \A q \in Proc \ {s} : pc[q] \in Attempting \cup Dropping =>
                               my[q].token # my[s].token /\ my[q].token \in Token
    BY <1>0, <2>1
  <2> QED BY <1>0, <1>a, <2>1, <2>2, <1>9, PublishEffect DEF Same
<1>10. CASE Drop(s) BY <1>0, <1>10 DEF Drop
<1>10a. CASE Dropped(s) BY <1>0, <1>10a DEF Dropped
<1> QED BY StepCases, <1>1, <1>2, <1>3, <1>4, <1>5, <1>6, <1>6a, <1>6b, <1>7, <1>7a, <1>8, <1>8a, <1>8b, <1>8c, <1>8d, <1>9, <1>10, <1>10a

\* A lock file's record always carries the token of its name.
LEMMA FileNamesStep ==
  ASSUME TypeOK, IInv, NEW s \in Proc, Step(s)
  PROVE  FileNames'
<1> USE DEF TypeOK, FileNames, Attempting, Dropping, Scanning,
            Goto, Finish, GiveUp, EndScan, Judged, AddContender
<1>0. OwnRecord /\ FileNames /\ JudgedRecord BY DEF IInv
<1>1. CASE Begin(s) BY <1>0, <1>1 DEF Begin, Choosing
<1>2. CASE Restore(s) BY <1>0, <1>2 DEF Restore, JudgedRecord, Judging
<1>3. CASE PublishTicket(s)
  <2>1. pc[s] \in Attempting BY <1>3 DEF PublishTicket, Scanned
  <2>2. my[s].token \in used /\ my[s] \in Record BY <1>0, <2>1 DEF OwnRecord
  <2>3. \A t \in Token : file'[t].token = t
    <3>1. \A t \in Token \ {my[s].token} : file'[t] = file[t]
      BY <1>3, PublishEffect
    <3>2. file'[my[s].token] = my'[s] \/ file' = file BY <1>3, PublishEffect
    <3>3. my'[s].token = my[s].token BY <1>3, PublishEffect
    <3> HIDE DEF TypeOK
    <3> QED BY <1>0, <3>1, <3>2, <3>3
  <2> QED BY <1>0, <1>3, <2>2, <2>3, PublishEffect
<1>4. CASE Drop(s) BY <1>0, <1>4 DEF Drop
<1>5. CASE Dropped(s) BY <1>0, <1>5 DEF Dropped, OwnRecord
<1>6. CASE Reap(s) BY <1>0, <1>6 DEF Reap
<1>7. CASE UNCHANGED <<dir, file, used>> BY <1>0, <1>7
<1> QED
  <2>1. \/ Begin(s) \/ Restore(s) \/ PublishTicket(s) \/ Drop(s) \/ Dropped(s) \/ Reap(s)
        \/ UNCHANGED <<dir, file, used>>
    BY StepCases DEF Start, Die, Release, List, ReadGone, ReadOwn, ReadOther,
       ReadMalformed, CheckAlive, CheckIdentity, IdentityUnreadable, CheckCreated,
       MeetsChoosing, CheckReady, Decide, Win
  <2> QED BY <2>1, <1>1, <1>2, <1>3, <1>4, <1>5, <1>6, <1>7

\* Two running processes never share a pid.
LEMMA PidsDistinctStep ==
  ASSUME TypeOK, IInv, NEW s \in Proc, Step(s)
  PROVE  PidsDistinct'
<1>0. PidsDistinct BY DEF IInv
<1>a. \A q \in Proc \ {s} : pc'[q] = pc[q] BY Frame DEF Same
<1>1. CASE Start(s)
  <2>1. \A q \in Proc : Running(q) => PidOf[q] # PidOf[s] BY <1>1 DEF Start
  <2> QED BY <1>0, <1>a, <2>1 DEF PidsDistinct, Running
<1>2. CASE Running(s)
  BY <1>0, <1>a, <1>2 DEF PidsDistinct, Running
<1> QED
  BY StepCases, <1>1, <1>2 DEF Running, Start, Die, Begin, Release, List, ReadGone,
     ReadOwn, ReadOther, ReadMalformed, CheckAlive, CheckIdentity, IdentityUnreadable,
     Reap, Restore, CheckCreated, MeetsChoosing, PublishTicket, CheckReady, Decide, Win,
     Drop, Dropped, Scanned

\* What an attempt collects under its own token is its own record.
LEMMA OwnSeenStep ==
  ASSUME TypeOK, IInv, NEW s \in Proc, Step(s)
  PROVE  OwnSeen'
<1> USE DEF TypeOK, OwnSeen, Attempting, Dropping, Scanning,
            Goto, Finish, GiveUp, EndScan, Judged, AddContender
<1>0. OwnRecord /\ OwnSeen /\ JudgedRecord /\ FileNames BY DEF IInv
<1>a. \A q \in Proc \ {s} : Same(q) BY Frame
<1> SUFFICES ASSUME pc'[s] \in Scanning \ {"list"}, NEW r \in seen'[s],
                    r.token = my'[s].token
             PROVE  r = my'[s]
  BY <1>0, <1>a DEF Same
<1>1. CASE List(s) BY <1>1 DEF List
<1>2. CASE ReadGone(s) BY <1>0, <1>2 DEF ReadGone
<1>3. CASE ReadOwn(s) BY <1>0, <1>3 DEF ReadOwn, OwnRecord
<1>4. CASE ReadOther(s) BY <1>0, <1>4 DEF ReadOther
<1>5. CASE CheckAlive(s) BY <1>0, <1>5 DEF CheckAlive, JudgedRecord, Judging
<1>6. CASE CheckIdentity(s) BY <1>0, <1>6 DEF CheckIdentity, JudgedRecord, Judging
<1>7. CASE IdentityUnreadable(s)
  BY <1>0, <1>7 DEF IdentityUnreadable, JudgedRecord, Judging
<1>8. CASE Reap(s) BY <1>0, <1>8 DEF Reap
<1>9. CASE Restore(s) BY <1>0, <1>9 DEF Restore
<1> QED
  BY StepCases, <1>1, <1>2, <1>3, <1>4, <1>5, <1>6, <1>7, <1>8, <1>9
  DEF Start, Die, Begin, Release, ReadMalformed, CheckCreated, MeetsChoosing,
      PublishTicket, CheckReady, Decide, Win, Drop, Dropped

\* The record of an attempt under way is never removed by another.
LEMMA JudgedRecordStep ==
  ASSUME TypeOK, IInv, NEW s \in Proc, Step(s)
  PROVE  JudgedRecord'
<1> USE DEF TypeOK, Attempting, Dropping, Scanning, Judging,
            Goto, Finish, GiveUp, EndScan, Judged, AddContender
<1>0. OwnRecord /\ JudgedRecord /\ FileNames /\ PidsDistinct BY DEF IInv
<1>a. \A q \in Proc \ {s} : Same(q) BY Frame
<1> USE DEF Same
<1>b. pc[s] \in Judging =>
        /\ cur[s].token \in used /\ cur[s].token # my[s].token
        /\ \A p \in Proc : pc[p] \in Attempting /\ cur[s].token = my[p].token =>
             /\ pc[s] \notin {"reap", "restore"}
             /\ cur[s].proc = p
             /\ cur[s].state = "choosing" \/ cur[s] = my[p]
  BY <1>0 DEF JudgedRecord
<1>1. CASE Start(s) \/ Die(s) BY <1>0, <1>a, <1>1 DEF JudgedRecord, Start, Die
<1>2. CASE Begin(s)
  BY <1>0, <1>a, <1>2 DEF JudgedRecord, Begin, Choosing
<1>3. CASE PublishTicket(s)
  <2>1. /\ my'[s].token = my[s].token
        /\ my[s].state = "choosing"
        /\ pc[s] = "read" /\ pc'[s] \notin Judging /\ used' = used
    BY <1>0, <1>3 DEF PublishTicket, Record, Scanned, OwnRecord
  <2> QED BY <1>0, <1>a, <2>1 DEF JudgedRecord
<1>4. CASE ReadOther(s)
  <2>1. PICK t \in Token : t \in dir /\ t # my[s].token /\ cur'[s] = file[t]
    BY <1>4 DEF ReadOther
  <2>2. pc'[s] = "alive" /\ pc[s] = "read" /\ my' = my /\ used' = used
    BY <1>4 DEF ReadOther
  <2>3. cur'[s].token = t /\ t \in used BY <1>0, <2>1 DEF FileNames
  <2>4. \A p \in Proc : pc[p] \in Attempting /\ t = my[p].token =>
                         cur'[s] = my[p] /\ cur'[s].proc = p
    BY <1>0, <2>1 DEF OwnRecord
  <2> QED BY <1>0, <1>a, <2>1, <2>2, <2>3, <2>4 DEF JudgedRecord
<1>5. CASE CheckAlive(s)
  <2>1. pc'[s] = "reap" => ~PidAlive(cur[s]) BY <1>5 DEF CheckAlive
  <2>2. \A p \in Proc : pc[p] \in Attempting /\ pc'[s] = "reap" => cur[s].token # my[p].token
    BY <1>b, <1>5, <2>1 DEF PidAlive, Running, CheckAlive
  <2>3. my' = my /\ used' = used /\ pc[s] = "alive"
        /\ (pc'[s] \in Judging => cur'[s] = cur[s] /\ pc'[s] # "restore")
    BY <1>5 DEF CheckAlive
  <2> QED BY <1>0, <1>a, <1>b, <2>2, <2>3 DEF JudgedRecord
<1>6. CASE CheckIdentity(s)
  <2>1. pc'[s] = "reap" => \E q \in Proc : /\ Running(q) /\ q # cur[s].proc
                                           /\ PidOf[q] = PidOf[cur[s].proc]
    BY <1>6 DEF CheckIdentity
  <2>2. \A p \in Proc : pc[p] \in Attempting /\ pc'[s] = "reap" => cur[s].token # my[p].token
    BY <1>0, <1>b, <1>6, <2>1 DEF PidsDistinct, Running, CheckIdentity
  <2>3. my' = my /\ used' = used /\ pc[s] = "identity"
        /\ (pc'[s] \in Judging => cur'[s] = cur[s] /\ pc'[s] # "restore")
    BY <1>6 DEF CheckIdentity
  <2> QED BY <1>0, <1>a, <1>b, <2>2, <2>3 DEF JudgedRecord
<1>7. CASE Reap(s)
  <2>1. my' = my /\ used' = used /\ pc[s] = "reap"
        /\ (pc'[s] \in Judging => cur'[s] = cur[s])
    BY <1>7 DEF Reap
  <2> QED BY <1>0, <1>a, <1>b, <2>1 DEF JudgedRecord
<1>8. CASE /\ pc'[s] \notin Judging /\ used' = used
           /\ my'[s] = my[s] \/ pc'[s] \notin Attempting
           /\ pc'[s] \in Attempting => pc[s] \in Attempting
  BY <1>0, <1>a, <1>8 DEF JudgedRecord
<1> QED
  <2>1. \/ Start(s) \/ Die(s) \/ Begin(s) \/ PublishTicket(s) \/ ReadOther(s)
        \/ CheckAlive(s) \/ CheckIdentity(s) \/ Reap(s)
        \/ /\ pc'[s] \notin Judging /\ used' = used
           /\ my'[s] = my[s] \/ pc'[s] \notin Attempting
           /\ pc'[s] \in Attempting => pc[s] \in Attempting
    BY StepCases DEF Release, List, ReadGone, ReadOwn, ReadMalformed,
       IdentityUnreadable, Restore, CheckCreated,
       MeetsChoosing, CheckReady, Decide, Win, Drop, Dropped, Scanned
  <2> QED BY <2>1, <1>1, <1>2, <1>3, <1>4, <1>5, <1>6, <1>7, <1>8

\* These steps end an attempt, or are taken outside one.
LEMMA LeavingSteps ==
  ASSUME TypeOK, NEW s \in Proc,
         Start(s) \/ Die(s) \/ Release(s) \/ ReadMalformed(s) \/ MeetsChoosing(s)
           \/ Drop(s) \/ Dropped(s)
  PROVE  pc'[s] \notin Attempting
<1> USE DEF TypeOK, Goto, Attempting, Scanning
<1>1. CASE Start(s) BY <1>1 DEF Start
<1>2. CASE Die(s) BY <1>2 DEF Die
<1>3. CASE Release(s) BY <1>3 DEF Release, Finish
<1>4. CASE ReadMalformed(s) BY <1>4 DEF ReadMalformed, GiveUp
<1>5. CASE MeetsChoosing(s) BY <1>5 DEF MeetsChoosing, GiveUp
<1>6. CASE Drop(s) BY <1>6 DEF Drop, Finish
<1>7. CASE Dropped(s) BY <1>7 DEF Dropped, Finish
<1> QED BY <1>1, <1>2, <1>3, <1>4, <1>5, <1>6, <1>7

\* The others start inside one and, but for PublishTicket, keep its record.
LEMMA StayingSteps ==
  ASSUME TypeOK, NEW s \in Proc,
         CheckCreated(s) \/ List(s) \/ ReadGone(s) \/ ReadOwn(s) \/ ReadOther(s)
           \/ CheckAlive(s) \/ CheckIdentity(s) \/ IdentityUnreadable(s) \/ Reap(s)
           \/ Restore(s) \/ CheckReady(s) \/ Decide(s) \/ Win(s)
  PROVE  /\ pc[s] \in Attempting
         /\ my'[s] = my[s] \/ pc'[s] \notin Attempting
<1> USE DEF TypeOK, Attempting, Scanning
<1>1. CASE CheckCreated(s) BY <1>1 DEF CheckCreated, Finish, Goto
<1>2. CASE List(s) \/ ReadGone(s) \/ ReadOwn(s) \/ ReadOther(s)
  BY <1>2 DEF List, ReadGone, ReadOwn, ReadOther
<1>3. CASE CheckAlive(s) \/ CheckIdentity(s) \/ IdentityUnreadable(s)
  BY <1>3 DEF CheckAlive, CheckIdentity, IdentityUnreadable
<1>4. CASE Reap(s) \/ Restore(s) BY <1>4 DEF Reap, Restore
<1>5. CASE CheckReady(s) \/ Decide(s) \/ Win(s)
  BY <1>5 DEF CheckReady, Decide, Win, Scanned
<1> QED BY <1>1, <1>2, <1>3, <1>4, <1>5

\* The heart of the argument: having noticed an attempt is never undone.
LEMMA OneYieldsStep ==
  ASSUME TypeOK, IInv, TypeOK', OwnRecord', NEW s \in Proc, Step(s)
  PROVE  OneYields'
<1> USE DEF Attempting, Dropping, Scanning, Judging, Same
<1>0. OwnRecord /\ JudgedRecord /\ FileNames /\ OwnSeen /\ OneYields BY DEF IInv
<1>a. \A q \in Proc \ {s} : Same(q) BY Frame
<1>b. \A p, q \in Proc : p # q /\ pc[p] \in Attempting /\ pc[q] \in Attempting =>
                           my[p].token # my[q].token
  BY <1>0 DEF OwnRecord
<1>1. CASE Begin(s)
  <2>1. pc'[s] = "created" BY <1>1 DEF Begin, Goto, TypeOK
  <2> QED BY <1>0, <1>a, <2>1 DEF OneYields, Yields, Noticed
<1>2. ASSUME NEW p \in Proc, p # s, pc[p] \in Attempting, pc[s] \in Attempting,
             pc'[s] \in Attempting, Yields(s, p)
      PROVE  Yields(s, p)'
  <2>0. Same(p) BY <1>2, <1>a
  <2>1. CASE CheckCreated(s)
    <3>1. pc'[s] = "list" /\ round'[s] = 1
      BY <1>2, <2>1 DEF CheckCreated, TypeOK, Goto, Finish
    <3> QED BY <3>1 DEF Yields
  <2>2. CASE List(s)
    <3>1. pc[s] = "list" /\ pc'[s] = "read" /\ todo'[s] = dir /\ UNCHANGED <<my, round>>
      BY <2>2 DEF List, Goto, TypeOK
    <3>2. my[p].token \in dir BY <1>0, <1>2 DEF OwnRecord
    <3> QED BY <1>2, <3>1, <3>2 DEF Yields, Noticed
  <2>3. CASE ReadGone(s)
    <3>1. \E t \in todo[s] \ dir : todo'[s] = todo[s] \ {t}
      BY <2>3 DEF ReadGone, TypeOK
    <3>2. pc[s] = "read" /\ UNCHANGED <<pc, my, round, seen, cur>> BY <2>3 DEF ReadGone
    <3>3. my[p].token \in dir BY <1>0, <1>2 DEF OwnRecord
    <3> QED BY <1>2, <3>1, <3>2, <3>3 DEF Yields, Noticed
  <2>4. CASE ReadOwn(s)
    <3>1. /\ todo'[s] = todo[s] \ {my[s].token} /\ seen[s] \subseteq seen'[s]
      BY <2>4 DEF ReadOwn, TypeOK
    <3>2. pc[s] = "read" /\ UNCHANGED <<pc, my, round, cur>> BY <2>4 DEF ReadOwn
    <3> QED BY <1>2, <1>b, <3>1, <3>2 DEF Yields, Noticed
  <2>5. CASE ReadOther(s)
    <3>1. PICK t \in todo[s] : todo'[s] = todo[s] \ {t} /\ cur'[s] = file[t]
      BY <2>5 DEF ReadOther, TypeOK
    <3>2. pc[s] = "read" /\ pc'[s] = "alive" /\ UNCHANGED <<my, round, seen>>
      BY <2>5 DEF ReadOther, Goto, TypeOK
    <3>3. my[p].token = t => cur'[s].token = my[p].token
      BY <1>0, <1>2, <3>1 DEF OwnRecord
    <3> QED BY <1>2, <3>1, <3>2, <3>3 DEF Yields, Noticed
  <2>6. CASE CheckAlive(s) \/ CheckIdentity(s) \/ IdentityUnreadable(s)
    <3>1. /\ pc[s] \in {"alive", "identity"} /\ UNCHANGED <<my, round, todo>>
          /\ \/ /\ pc'[s] = "read" /\ seen'[s] = seen[s] \cup {cur[s]}
             \/ /\ pc'[s] \in {"identity", "reap"} /\ UNCHANGED <<seen, cur>>
      BY <2>6 DEF CheckAlive, CheckIdentity, IdentityUnreadable, AddContender, Judged,
                  Goto, TypeOK
    <3>2. cur[s].token = my[p].token => cur[s].state = "choosing" \/ cur[s] = my[p]
      BY <1>0, <1>2, <3>1 DEF JudgedRecord
    <3> QED BY <1>2, <3>1, <3>2 DEF Yields, Noticed
  <2>7. CASE Reap(s) \/ Restore(s)
    <3>1. /\ pc[s] \in {"reap", "restore"} /\ pc'[s] \in {"read", "restore"}
          /\ UNCHANGED <<my, round, todo, seen>>
      BY <2>7 DEF Reap, Restore, Judged, Goto, TypeOK
    <3>2. cur[s].token # my[p].token BY <1>0, <1>2, <3>1 DEF JudgedRecord
    <3> QED BY <1>2, <3>1, <3>2 DEF Yields, Noticed
  <2>8. CASE PublishTicket(s)
    <3>1. PICK r \in seen[s] : /\ r.token = my[p].token
                               /\ r.state = "choosing" \/ r = my[p]
      BY <1>2, <2>8, PublishEffect DEF Yields, Noticed
    <3>2. r.token # my[s].token BY <1>2, <1>b, <3>1
    <3>3. r = my[p] /\ my[p].state # "choosing"
      BY <2>8, <3>1, <3>2, PublishEffect DEF OthersChoosing
    <3>4. my[p].state = "ready"
      BY <1>0, <1>2, <3>3 DEF OwnRecord, TypeOK, Record, State
    <3>5. pc'[s] = "ready" /\ my[p].ticket < my'[s].ticket
      BY <1>2, <2>8, <3>3, PublishEffect
    <3> QED BY <2>0, <3>4, <3>5 DEF Yields
  <2>9. CASE CheckReady(s)
    <3>1. pc[s] = "ready" /\ pc'[s] = "list" /\ UNCHANGED my
      BY <1>2, <2>9 DEF CheckReady, GiveUp, Goto, TypeOK
    <3> QED BY <1>2, <3>1 DEF Yields
  <2>10. CASE Decide(s)
    <3>1. pc[s] = "read" /\ round[s] = 2 /\ todo[s] = {} BY <2>10 DEF Decide, Scanned
    <3>2. IsFirst(s) /\ \A r \in seen[s] : r.state # "choosing"
      BY <1>2, <2>10 DEF Decide, GiveUp, Goto, TypeOK
    <3>3. my[p] \in seen[s] /\ my[p].ticket < my[s].ticket
      BY <1>2, <3>1, <3>2 DEF Yields, Noticed
    <3>4. PICK r \in seen[s] : /\ r.token = my[s].token
                               /\ \A t \in seen[s] : t.token # r.token => Before(r, t)
      BY <3>2 DEF IsFirst
    <3>5. r = my[s] BY <1>0, <3>1, <3>4 DEF OwnSeen
    <3>6. Before(my[s], my[p]) BY <1>2, <1>b, <3>3, <3>4, <3>5
    <3>7. my[s].ticket \in Nat /\ my[p].ticket \in Nat BY DEF TypeOK, Record
    <3> QED BY <3>3, <3>6, <3>7 DEF Before
  <2> QED
    <3>1. ~Begin(s) BY <1>2 DEF Begin
    <3>2. ~Win(s) BY <1>2 DEF Win, Yields
    <3> QED
      BY <1>2, StepCases, LeavingSteps, <3>1, <3>2,
         <2>1, <2>2, <2>3, <2>4, <2>5, <2>6, <2>7, <2>8, <2>9, <2>10
<1>3. ASSUME NEW p \in Proc, p # s, pc[p] \in Attempting, pc[s] \in Attempting,
             pc'[s] \in Attempting, Yields(p, s)
      PROVE  Yields(p, s)'
  <2>0. Same(p) BY <1>3, <1>a
  <2>1. CASE PublishTicket(s)
    <3>1. my[s].state = "choosing" BY <1>0, <2>1, PublishEffect DEF OwnRecord
    <3>2. my'[s].token = my[s].token BY <2>1, PublishEffect
    <3> QED BY <1>3, <2>0, <3>1, <3>2 DEF Yields, Noticed
  <2>2. CASE my'[s] = my[s]
    BY <1>3, <2>0, <2>2 DEF Yields, Noticed
  <2> QED
    <3>1. ~Begin(s) BY <1>3 DEF Begin
    <3> QED BY <1>3, StepCases, LeavingSteps, StayingSteps, <2>1, <2>2, <3>1
<1>4. pc'[s] \in Attempting /\ ~Begin(s) => pc[s] \in Attempting
  BY StepCases, LeavingSteps, StayingSteps, PublishEffect
<1>5. CASE ~Begin(s)
  <2> SUFFICES ASSUME NEW p \in Proc, NEW q \in Proc, p # q,
                      pc'[p] \in Attempting, pc'[q] \in Attempting
               PROVE  Yields(p, q)' \/ Yields(q, p)'
    BY DEF OneYields
  <2>1. pc[p] \in Attempting /\ pc[q] \in Attempting BY <1>a, <1>4, <1>5
  <2>2. Yields(p, q) \/ Yields(q, p) BY <1>0, <2>1 DEF OneYields
  <2>3. CASE p # s /\ q # s BY <1>a, <2>2, <2>3 DEF Yields, Noticed
  <2>4. CASE p = s BY <1>2, <1>3, <2>1, <2>2, <2>4
  <2>5. CASE q = s BY <1>2, <1>3, <2>1, <2>2, <2>5
  <2> QED BY <2>3, <2>4, <2>5
<1> QED BY <1>1, <1>5

-----------------------------------------------------------------------------
\* IInv holds of every reachable state.
THEOREM Invariance == Spec => []IInv
<1>1. Init => IInv
  BY DEF Init, IInv, OwnRecord, FileNames, JudgedRecord, OwnSeen, PidsDistinct,
         OneYields, Running, Malformed, Attempting, Dropping, Scanning, Judging
<1>2. TypeOK /\ TypeOK' /\ IInv /\ [Next]_vars => IInv'
  <2> SUFFICES ASSUME TypeOK, TypeOK', IInv, [Next]_vars PROVE IInv'
    OBVIOUS
  <2>1. CASE UNCHANGED vars
    BY <2>1 DEF vars, IInv, OwnRecord, FileNames, JudgedRecord, OwnSeen, PidsDistinct,
                OneYields, Running, Yields, Noticed
  <2>2. ASSUME NEW s \in Proc, Step(s) PROVE IInv'
    BY <2>2, OwnRecordStep, FileNamesStep, JudgedRecordStep, OwnSeenStep,
       PidsDistinctStep, OneYieldsStep DEF IInv
  <2> QED BY <2>1, <2>2 DEF Next
<1> QED BY <1>1, <1>2, TypeCorrect, PTL DEF Spec

\* Two holders would both have to have noticed nothing.
LEMMA OneHolder == IInv => MutualExclusion
  BY DEF IInv, OneYields, Yields, MutualExclusion, Holders, Attempting, Scanning

\* No two running xtz processes are ever inside the lifecycle lock at once:
\* what acquireReconcileLock is for, with any number of processes.
THEOREM MutualExclusionHolds == Spec => []MutualExclusion
  BY Invariance, OneHolder, PTL

\* The record of the process that holds the lock stays in the directory as it
\* was written, so releaseReconcileLock finds it.
THEOREM HolderRecordedHolds == Spec => []HolderRecorded
<1>1. IInv => HolderRecorded
  BY DEF IInv, OwnRecord, HolderRecorded, Holders, Owns, Attempting
<1> QED BY <1>1, Invariance, PTL

\* Only a winner joins the holders, and only the holder itself leaves them.
LEMMA HolderSteps ==
  ASSUME TypeOK, IInv, NEW s \in Proc, Step(s)
  PROVE  /\ \A q \in Proc \ {s} : pc'[q] = pc[q]
         /\ pc'[s] = "held" => pc[s] = "won"
<1>1. \A q \in Proc \ {s} : pc'[q] = pc[q] BY Frame DEF Same
<1>2. pc'[s] = "held" => pc[s] = "won"
  <2>1. CASE Win(s) BY <2>1 DEF Win
  <2>2. CASE PublishTicket(s) BY <2>2, PublishEffect
  <2>3. CASE Begin(s) BY <2>3 DEF Begin, Goto, TypeOK
  <2>4. CASE CheckCreated(s) BY <2>4 DEF CheckCreated, Finish, Goto, TypeOK
  <2>5. CASE List(s) \/ ReadGone(s) \/ ReadOwn(s) \/ ReadOther(s)
    BY <2>5 DEF List, ReadGone, ReadOwn, ReadOther, Goto, TypeOK
  <2>6. CASE CheckAlive(s) \/ CheckIdentity(s) \/ IdentityUnreadable(s)
    BY <2>6 DEF CheckAlive, CheckIdentity, IdentityUnreadable, AddContender, Judged,
                Goto, TypeOK
  <2>7. CASE Reap(s) \/ Restore(s) BY <2>7 DEF Reap, Restore, Judged, Goto, TypeOK
  <2>8. CASE CheckReady(s) BY <2>8 DEF CheckReady, GiveUp, Goto, TypeOK
  <2>9. CASE Decide(s) BY <2>9 DEF Decide, GiveUp, Goto, TypeOK
  <2> QED
    BY StepCases, LeavingSteps, <2>1, <2>2, <2>3, <2>4, <2>5, <2>6, <2>7, <2>8, <2>9
    DEF Attempting
<1> QED BY <1>1, <1>2

\* Seen from its callers the protocol is an atomic try-lock: a process becomes
\* the holder only while there is none.
THEOREM LockRefines == Spec => ImplementsTryLock
<1>1. Init => Abstract!Init
  BY DEF Init, Abstract!Init, Holders
<1>2. TypeOK /\ IInv /\ IInv' /\ [Next]_vars => [Abstract!Next]_Holders
  <2> SUFFICES ASSUME TypeOK, IInv, IInv', [Next]_vars
               PROVE  Abstract!Next \/ Holders' = Holders
    OBVIOUS
  <2>1. CASE UNCHANGED vars BY <2>1 DEF vars, Holders
  <2>2. ASSUME NEW s \in Proc, Step(s)
        PROVE  Abstract!Next \/ Holders' = Holders
    <3>0. MutualExclusion /\ MutualExclusion' BY OneHolder, PTL
    <3>1. \A q \in Proc \ {s} : pc'[q] = pc[q] BY <2>2, HolderSteps
    <3>2. CASE (pc'[s] = "held") = (pc[s] = "held")
      BY <3>1, <3>2 DEF Holders
    <3>3. CASE pc'[s] = "held" /\ pc[s] # "held"
      <4>1. Holders' = Holders \cup {s} BY <3>1, <3>3 DEF Holders
      <4>2. \A q \in Holders' : q = s BY <3>0, <4>1 DEF MutualExclusion
      <4>3. Holders = {} BY <4>1, <4>2, <3>3 DEF Holders
      <4> QED BY <4>1, <4>3 DEF Abstract!Next, Abstract!Acquire
    <3>4. CASE pc'[s] # "held" /\ pc[s] = "held"
      <4>1. Holders = {s} BY <3>0, <3>4 DEF MutualExclusion, Holders
      <4>2. Holders' = {} BY <3>1, <3>4, <4>1 DEF Holders
      <4> QED BY <4>1, <4>2 DEF Abstract!Next, Abstract!Release
    <3> QED BY <3>2, <3>3, <3>4
  <2> QED BY <2>1, <2>2 DEF Next
<1> QED BY <1>1, <1>2, TypeCorrect, Invariance, PTL DEF Spec, ImplementsTryLock, Abstract!Spec

-----------------------------------------------------------------------------
(***************************************************************************)
(* Nobody is turned away for nothing.                                       *)
(*                                                                          *)
(* An attempt that has met nothing legitimate is alone: another attempt's   *)
(* record would be in the directory with a running owner.  So what it is    *)
(* judging stays as it was read, a judgement that keeps the record makes    *)
(* the record one it has met, and its contenders are its own record only.   *)
(***************************************************************************)
Meets(p) ==
  /\ pc[p] \in Attempting \cup Dropping
  /\ \E t \in dir : t # my[p].token /\ Blocking(t)

Remembers == \A p \in Proc : Meets(p) => contended[p]

FileOwners == \A t \in Token : file[t].state # "malformed" => file[t].proc \in Proc

\* A scan has its own record before it or among its contenders.
OwnListed == \A p \in Proc : pc[p] \in Scanning \ {"list"} =>
  my[p].token \in todo[p] \/ \E r \in seen[p] : r.token = my[p].token

OwnTicket == \A p \in Proc :
  pc[p] = "ready" \/ (pc[p] \in Scanning /\ round[p] = 2) => my[p].state = "ready"

OnlyOwnSeen(p) == \A r \in seen[p] : r.token = my[p].token

JudgesPresent(p) == pc[p] \in {"alive", "identity"} =>
  /\ cur[p].token \in dir /\ file[cur[p].token] = cur[p]
  /\ cur[p].token # my[p].token /\ cur[p].state # "malformed"

Unhindered == \A p \in Proc : pc[p] \in Scanning \ {"list"} /\ ~contended[p] =>
  OnlyOwnSeen(p) /\ JudgesPresent(p)

DeadQuiet == \A p \in Proc : pc[p] = "dead" => result[p] # "busy"

BusyInv == /\ Remembers /\ FileOwners /\ OwnListed /\ OwnTicket /\ Unhindered
           /\ DeadQuiet /\ BusyOnlyWhenContended

\* What every step remembers.
LEMMA Remembering ==
  ASSUME NEW s \in Proc, Step(s), NEW p \in Proc
  PROVE  /\ Meets(p)' => contended'[p]
         /\ /\ contended[p] /\ pc'[p] # "dead"
            /\ pc[p] = "idle" => pc'[p] = "idle"
            => contended'[p]
<1>1. Observe({}) \/ Observe({s}) BY DEF Step
<1> QED BY <1>1 DEF Observe, Meets

\* An identity that cannot be read is remembered as a doubt.
LEMMA DoubtRemembered ==
  ASSUME NEW s \in Proc, Step(s)
  PROVE  \/ Start(s) \/ Die(s) \/ Begin(s) \/ Release(s) \/ Attempt(s)
         \/ IdentityUnreadable(s) /\ contended'[s]
  BY DEF Step, Observe

\* Of two processes in an attempt, each stands in the other's way.
LEMMA OthersMeet ==
  ASSUME TypeOK, IInv, NEW p \in Proc, NEW q \in Proc, p # q,
         pc[p] \in Attempting \cup Dropping, pc[q] \in Attempting \cup Dropping,
         my[q].token \in dir
  PROVE  Meets(p)
<1>1. OwnRecord BY DEF IInv
<1>2. /\ file[my[p].token].proc = p /\ file[my[q].token].proc = q
  BY <1>1 DEF OwnRecord
<1>3. my[q].token # my[p].token BY <1>2
<1>4. Running(q) BY DEF Running, Attempting, Dropping, Scanning
<1>5. Blocking(my[q].token) BY <1>2, <1>4 DEF Blocking
<1> QED BY <1>3, <1>5 DEF Meets

\* An attempt under way has its record in the directory.
LEMMA AttemptsMeet ==
  ASSUME TypeOK, IInv, NEW p \in Proc, NEW q \in Proc, p # q,
         pc[p] \in Attempting \cup Dropping, pc[q] \in Attempting
  PROVE  Meets(p)
<1>1. my[q].token \in dir BY DEF IInv, OwnRecord
<1> QED BY <1>1, OthersMeet

\* The results of the other processes stay.
LEMMA ResultFrame ==
  ASSUME TypeOK, NEW s \in Proc, Step(s)
  PROVE  \A q \in Proc \ {s} : result'[q] = result[q]
<1> USE DEF TypeOK, GiveUp
<1>1. CASE Start(s) \/ Die(s) \/ Begin(s) \/ Release(s)
  BY <1>1 DEF Start, Die, Begin, Release
<1>2. CASE List(s) \/ ReadGone(s) \/ ReadOwn(s) \/ ReadOther(s) \/ ReadMalformed(s)
  BY <1>2 DEF List, ReadGone, ReadOwn, ReadOther, ReadMalformed
<1>3. CASE CheckAlive(s) \/ CheckIdentity(s) \/ IdentityUnreadable(s)
  BY <1>3 DEF CheckAlive, CheckIdentity, IdentityUnreadable
<1>4. CASE Reap(s) \/ Restore(s) BY <1>4 DEF Reap, Restore
<1>5. CASE CheckCreated(s) \/ MeetsChoosing(s) \/ CheckReady(s)
  BY <1>5 DEF CheckCreated, MeetsChoosing, CheckReady
<1>6. CASE Decide(s) \/ Win(s) BY <1>6 DEF Decide, Win
<1>7. CASE PublishTicket(s) BY <1>7 DEF PublishTicket
<1>8. CASE Drop(s) \/ Dropped(s) BY <1>8 DEF Drop, Dropped
<1> QED BY StepCases, <1>1, <1>2, <1>3, <1>4, <1>5, <1>6, <1>7, <1>8

\* Files are written by the attempts they belong to.
LEMMA FileOwnersStep ==
  ASSUME TypeOK, IInv, FileOwners, NEW s \in Proc, Step(s)
  PROVE  FileOwners'
<1>1. CASE Begin(s)
  <2>1. PICK t \in Token, identified \in BOOLEAN :
          file' = [file EXCEPT ![t] = Choosing(s, t, identified)]
    BY <1>1 DEF Begin
  <2>2. Choosing(s, t, identified).proc = s BY DEF Choosing
  <2>3. file'[t].proc = s /\ \A u \in Token \ {t} : file'[u] = file[u]
    BY <2>1, <2>2 DEF TypeOK
  <2> QED BY <2>3 DEF FileOwners
<1>2. CASE PublishTicket(s)
  <2>1. /\ my[s].proc = s
    BY <1>2 DEF PublishTicket, Scanned, IInv, OwnRecord, Attempting, Scanning
  <2>2. my'[s].proc = s BY <1>2, <2>1, PublishEffect
  <2>3. file'[my[s].token].proc = s \/ file' = file BY <1>2, <2>2, PublishEffect
  <2>4. \A t \in Token : t # my[s].token => file'[t] = file[t]
    BY <1>2, PublishEffect
  <2> QED BY <2>3, <2>4 DEF FileOwners
<1>3. CASE file' = file BY <1>3 DEF FileOwners
<1>4. Begin(s) \/ PublishTicket(s) \/ file' = file
  BY StepCases DEF Start, Die, Release, List, ReadGone, ReadOwn, ReadOther,
     ReadMalformed, CheckAlive, CheckIdentity, IdentityUnreadable, Reap, Restore,
     CheckCreated, MeetsChoosing, CheckReady, Decide, Win, Drop, Dropped
<1> QED BY <1>1, <1>2, <1>3, <1>4

\* A scan starts from created or ready, and goes on with the record it has.
LEMMA OwnTicketStep ==
  ASSUME TypeOK, IInv, OwnTicket, NEW s \in Proc, Step(s)
  PROVE  OwnTicket'
<1> USE DEF Scanning, Goto, GiveUp
<1>a. \A q \in Proc \ {s} : Same(q) BY Frame
<1> SUFFICES ASSUME pc'[s] = "ready" \/ (pc'[s] \in Scanning /\ round'[s] = 2)
             PROVE  my'[s].state = "ready"
  BY <1>a DEF OwnTicket, Same
<1>0. pc'[s] \in Attempting BY DEF Attempting
<1>1. CASE PublishTicket(s) BY <1>1, PublishEffect
<1>2. CASE CheckReady(s) BY <1>2 DEF CheckReady, OwnTicket, TypeOK
<1>3. CASE CheckCreated(s) BY <1>3 DEF CheckCreated, Finish, TypeOK
<1>4. CASE Begin(s) BY <1>4 DEF Begin, TypeOK
<1>5. CASE /\ pc[s] \in Scanning /\ round'[s] = round[s] /\ my'[s] = my[s]
           /\ pc'[s] # "ready"
  BY <1>5 DEF OwnTicket
<1>6. CASE List(s) \/ ReadGone(s) \/ ReadOwn(s) \/ ReadOther(s)
  BY <1>5, <1>6 DEF List, ReadGone, ReadOwn, ReadOther, TypeOK
<1>7. CASE CheckAlive(s) \/ CheckIdentity(s) \/ IdentityUnreadable(s)
  BY <1>5, <1>7 DEF CheckAlive, CheckIdentity, IdentityUnreadable, AddContender, Judged, TypeOK
<1>8. CASE Reap(s) \/ Restore(s) BY <1>5, <1>8 DEF Reap, Restore, Judged, TypeOK
<1>9. CASE Decide(s) BY <1>9 DEF Decide, TypeOK
<1>10. CASE Win(s) BY <1>10 DEF Win, TypeOK
<1> QED BY StepCases, LeavingSteps, <1>0, <1>1, <1>2, <1>3, <1>4, <1>6, <1>7, <1>8, <1>9, <1>10

\* The own record is listed, and only reading it takes it off the list.
LEMMA OwnListedStep ==
  ASSUME TypeOK, IInv, OwnListed, NEW s \in Proc, Step(s)
  PROVE  OwnListed'
<1> USE DEF Scanning, Goto, GiveUp
<1>a. \A q \in Proc \ {s} : Same(q) BY Frame
<1> SUFFICES ASSUME pc'[s] \in Scanning \ {"list"}
             PROVE  \/ my'[s].token \in todo'[s]
                    \/ \E r \in seen'[s] : r.token = my'[s].token
  BY <1>a DEF OwnListed, Same
<1>0. pc'[s] \in Attempting BY DEF Attempting
<1>b. pc[s] \in Scanning => my[s].token \in dir /\ my[s].token \in Token
  BY DEF IInv, OwnRecord, Attempting, TypeOK
<1>1. CASE List(s) BY <1>1, <1>b DEF List, TypeOK
<1>2. CASE ReadGone(s)
  <2>1. \E t \in todo[s] \ dir : todo'[s] = todo[s] \ {t}
    BY <1>2 DEF ReadGone, TypeOK
  <2>2. pc[s] = "read" /\ UNCHANGED <<my, seen>> BY <1>2 DEF ReadGone
  <2> QED BY <1>b, <2>1, <2>2 DEF OwnListed
<1>3. CASE ReadOwn(s)
  <2>1. /\ pc[s] = "read" /\ my' = my
        /\ seen'[s] = seen[s] \cup {file[my[s].token]}
    BY <1>3 DEF ReadOwn, TypeOK
  <2>2. file[my[s].token] = my[s] BY <2>1 DEF IInv, OwnRecord, Attempting
  <2> QED BY <2>1, <2>2
<1>4. CASE ReadOther(s)
  <2>1. \E t \in todo[s] : t # my[s].token /\ todo'[s] = todo[s] \ {t}
    BY <1>4 DEF ReadOther, TypeOK
  <2>2. pc[s] = "read" /\ UNCHANGED <<my, seen>> BY <1>4 DEF ReadOther
  <2> QED BY <2>1, <2>2 DEF OwnListed
<1>5. CASE /\ pc[s] \in Scanning \ {"list"} /\ my' = my /\ todo' = todo
           /\ seen[s] \subseteq seen'[s]
  BY <1>5 DEF OwnListed
<1>6. CASE CheckAlive(s) \/ CheckIdentity(s) \/ IdentityUnreadable(s)
  BY <1>5, <1>6 DEF CheckAlive, CheckIdentity, IdentityUnreadable, AddContender, TypeOK
<1>7. CASE Reap(s) \/ Restore(s) BY <1>5, <1>7 DEF Reap, Restore
<1>8. CASE PublishTicket(s) BY <1>8, PublishEffect
<1>9. CASE CheckReady(s) BY <1>9 DEF CheckReady, TypeOK
<1>10. CASE CheckCreated(s) BY <1>10 DEF CheckCreated, Finish, TypeOK
<1>11. CASE Begin(s) BY <1>11 DEF Begin, TypeOK
<1>12. CASE Decide(s) BY <1>12 DEF Decide, TypeOK
<1>13. CASE Win(s) BY <1>13 DEF Win, TypeOK
<1> QED BY StepCases, LeavingSteps, <1>0, <1>1, <1>2, <1>3, <1>4, <1>6, <1>7, <1>8,
           <1>9, <1>10, <1>11, <1>12, <1>13

\* A process that has met nothing is the only one in an attempt.
LEMMA UnhinderedAlone ==
  ASSUME TypeOK, IInv, Remembers, NEW p \in Proc, NEW q \in Proc, p # q,
         pc[p] \in Attempting \cup Dropping, ~contended[p]
  PROVE  pc[q] \notin Attempting
BY AttemptsMeet DEF Remembers

\* Its own steps: a judgement that adds a contender was made on the record of a
\* running owner, and that is remembered.
LEMMA UnhinderedOwnStep ==
  ASSUME TypeOK, IInv, FileOwners, Unhindered, NEW s \in Proc, Step(s),
         pc'[s] \in Scanning \ {"list"}, ~contended'[s]
  PROVE  OnlyOwnSeen(s)' /\ JudgesPresent(s)'
<1> USE DEF Scanning, Goto, GiveUp, OnlyOwnSeen, JudgesPresent
<1>a. pc'[s] \in Attempting BY DEF Attempting
<1>b. ~Meets(s)' BY Remembering
<1>c. pc[s] \in Scanning \ {"list"} => /\ ~contended[s]
                                       /\ OnlyOwnSeen(s) /\ JudgesPresent(s)
  BY Remembering DEF Unhindered
<1>d. FileNames BY DEF IInv
<1>1. CASE List(s) BY <1>1 DEF List, TypeOK
<1>2. CASE ReadGone(s) BY <1>c, <1>2 DEF ReadGone, TypeOK
<1>3. CASE ReadOwn(s)
  <2>1. /\ pc[s] = "read" /\ pc' = pc /\ my' = my
        /\ seen'[s] = seen[s] \cup {file[my[s].token]} /\ my[s].token \in Token
    BY <1>3 DEF ReadOwn, TypeOK
  <2> QED BY <1>c, <1>d, <2>1 DEF FileNames
<1>4. CASE ReadOther(s)
  <2>1. PICK t \in dir : /\ file[t].state # "malformed" /\ t # my[s].token
                         /\ cur'[s] = file[t] /\ t \in Token
    BY <1>4 DEF ReadOther, TypeOK
  <2>2. pc[s] = "read" /\ UNCHANGED <<dir, file, my, seen>> BY <1>4 DEF ReadOther
  <2>3. file[t].token = t BY <1>d, <2>1 DEF FileNames
  <2> QED BY <1>c, <2>1, <2>2, <2>3
<1>5. CASE CheckAlive(s)
  <2>1. /\ pc[s] = "alive" /\ UNCHANGED <<dir, file, my>>
        /\ pc'[s] # "read" => UNCHANGED <<seen, cur>>
        /\ pc'[s] = "read" => PidAlive(cur[s]) /\ ~cur[s].identified
    BY <1>5 DEF CheckAlive, AddContender, Judged, TypeOK
  <2>2. /\ cur[s].token \in dir /\ cur[s].token # my[s].token
        /\ file[cur[s].token] = cur[s] /\ cur[s].state # "malformed"
    BY <1>c, <2>1
  <2>3. pc'[s] # "read"
    <3> SUFFICES ASSUME pc'[s] = "read" PROVE FALSE
      OBVIOUS
    <3>1. PICK q \in Proc : Running(q) /\ PidOf[q] = PidOf[cur[s].proc]
      BY <2>1 DEF PidAlive
    <3>2. Running(q)'
      BY <2>1, <3>1, Frame DEF Running, Same
    <3>3. cur[s].token \in Token /\ cur[s].proc \in Proc
      BY <2>2 DEF FileOwners, TypeOK
    <3>4. /\ file'[cur[s].token] = cur[s] /\ cur[s].token \in dir'
          /\ cur[s].token # my'[s].token
      BY <2>1, <2>2
    <3>5. PICK t \in dir' : t = cur[s].token BY <3>4
    <3>6. Blocking(t)' BY <2>1, <3>1, <3>2, <3>3, <3>4, <3>5 DEF Blocking, PidAlive
    <3> QED BY <1>a, <1>b, <3>4, <3>5, <3>6 DEF Meets
  <2> QED BY <1>c, <2>1, <2>2, <2>3
<1>6. CASE CheckIdentity(s)
  <2>1. /\ pc[s] = "identity" /\ UNCHANGED <<dir, file, my>>
        /\ pc'[s] # "read" => pc'[s] = "reap" /\ UNCHANGED <<seen, cur>>
        /\ pc'[s] = "read" => cur[s].proc \in Proc /\ Running(cur[s].proc)
    BY <1>6 DEF CheckIdentity, TypeOK, AddContender, Judged
  <2>2. /\ cur[s].token \in dir /\ cur[s].token # my[s].token
        /\ file[cur[s].token] = cur[s]
    BY <1>c, <2>1
  <2>3. pc'[s] # "read"
    <3> SUFFICES ASSUME pc'[s] = "read" PROVE FALSE
      OBVIOUS
    <3>1. PICK q \in Proc : q = cur[s].proc BY <2>1
    <3>2. PICK t \in dir' : t = cur[s].token BY <2>1, <2>2
    <3>3. Running(q)' BY <2>1, <3>1, Frame DEF Running, Same
    <3>4. file'[t].proc = q /\ t # my'[s].token BY <2>1, <2>2, <3>1, <3>2
    <3>5. Blocking(t)' BY <3>3, <3>4 DEF Blocking
    <3> QED BY <1>a, <1>b, <3>4, <3>5 DEF Meets
  <2> QED BY <1>c, <2>1, <2>3
<1>7. CASE Reap(s) \/ Restore(s)
  BY <1>c, <1>7 DEF Reap, Restore, Judged, TypeOK
<1>8. CASE PublishTicket(s) BY <1>8, PublishEffect
<1>9. CASE CheckReady(s) BY <1>9 DEF CheckReady, TypeOK
<1>10. CASE CheckCreated(s) BY <1>10 DEF CheckCreated, Finish, TypeOK
<1>11. CASE Begin(s) BY <1>11 DEF Begin, TypeOK
<1>12. CASE Decide(s) BY <1>12 DEF Decide, TypeOK
<1>13. CASE Win(s) BY <1>13 DEF Win, TypeOK
<1> QED
  BY DoubtRemembered, LeavingSteps, <1>a, <1>1, <1>2, <1>3, <1>4, <1>5, <1>6, <1>7,
     <1>8, <1>9, <1>10, <1>11, <1>12, <1>13 DEF Attempt, Scan

\* The steps of others: whoever could remove the record it judges is in its way.
LEMMA UnhinderedOtherStep ==
  ASSUME TypeOK, IInv, Remembers, Unhindered, NEW s \in Proc, Step(s),
         NEW p \in Proc, p # s, pc'[p] \in Scanning \ {"list"}, ~contended'[p]
  PROVE  OnlyOwnSeen(p)' /\ JudgesPresent(p)'
<1>a. Same(p) BY Frame
<1>b. pc[p] \in Scanning \ {"list"} /\ pc[p] \in Attempting BY <1>a DEF Same, Attempting
<1>c. ~contended[p] BY <1>a, <1>b, Remembering DEF Same, Scanning
<1>d. OnlyOwnSeen(p) /\ JudgesPresent(p) BY <1>b, <1>c DEF Unhindered
<1>e. pc[s] \notin Attempting /\ ~Meets(p)
  BY <1>b, <1>c, UnhinderedAlone DEF Remembers
<1>1. CASE dir \subseteq dir' /\ file' = file
  BY <1>a, <1>d, <1>1 DEF OnlyOwnSeen, JudgesPresent, Same
<1>2. CASE Drop(s)
  <2>1. dir' = dir \ {my[s].token} /\ file' = file /\ pc[s] \in Dropping
    BY <1>2 DEF Drop, Dropping
  <2>2. my[s].token \notin dir BY <1>b, <1>e, <2>1, OthersMeet
  <2> QED BY <1>1, <2>1, <2>2
<1>3. CASE Begin(s)
  <2>1. PICK t \in Token \ used, identified \in BOOLEAN :
          /\ dir' = dir \cup {t}
          /\ file' = [file EXCEPT ![t] = Choosing(s, t, identified)]
    BY <1>3 DEF Begin
  <2>2. file'[t].proc = s BY <2>1 DEF Choosing, TypeOK
  <2>3. Running(s)' BY <1>3 DEF Begin, Goto, Running, TypeOK
  <2>4. my[p].token \in used BY <1>b DEF IInv, OwnRecord
  <2>5. Meets(p)' BY <1>a, <1>b, <2>1, <2>2, <2>3, <2>4 DEF Meets, Blocking, Same
  <2> QED BY <2>5, Remembering
<1>4. CASE Start(s) \/ Die(s) \/ Dropped(s)
  BY <1>1, <1>4 DEF Start, Die, Dropped
<1>5. ~Release(s) BY <1>e DEF Release, Attempting
<1> QED
  BY StepCases, <1>e, <1>2, <1>3, <1>4, <1>5 DEF List, ReadGone, ReadOwn, ReadOther,
     ReadMalformed, CheckAlive, CheckIdentity, IdentityUnreadable, Reap, Restore,
     CheckCreated, MeetsChoosing, PublishTicket, CheckReady, Decide, Win, Scanned,
     Attempting, Scanning

\* An attempt gives up as busy only when it has met something.
LEMMA BusyStep ==
  ASSUME TypeOK, IInv, BusyInv, NEW s \in Proc, Step(s)
  PROVE  BusyOnlyWhenContended'
<1> USE DEF Goto, GiveUp
<1>a. \A q \in Proc \ {s} : Same(q) /\ result'[q] = result[q] BY Frame, ResultFrame
<1>b. OwnRecord /\ OwnSeen BY DEF IInv
<1>1. ASSUME NEW p \in Proc, result'[p] = "busy", result[p] = "busy",
             pc'[p] # "dead", pc[p] = "idle" => pc'[p] = "idle"
      PROVE  contended'[p]
  BY <1>1, Remembering DEF BusyInv, BusyOnlyWhenContended
<1>2. ASSUME NEW p \in Proc \ {s}, result'[p] = "busy" PROVE contended'[p]
  <2>1. pc'[p] = pc[p] /\ result[p] = "busy" BY <1>a, <1>2 DEF Same
  <2> QED BY <1>1, <1>2, <2>1 DEF BusyInv, DeadQuiet
<1> SUFFICES ASSUME result'[s] = "busy" PROVE contended'[s]
  BY <1>2 DEF BusyOnlyWhenContended
<1>c. pc[s] \in Scanning \ {"list"} /\ pc'[s] # "dead" /\ pc[s] # "idle" /\ ~contended'[s]
        => OnlyOwnSeen(s)
  BY Remembering DEF BusyInv, Unhindered
<1>3. CASE ReadMalformed(s)
  <2>1. PICK t \in dir : file[t].state = "malformed"
    BY <1>3 DEF ReadMalformed
  <2>2. /\ pc[s] = "read" /\ pc'[s] = "drop" /\ UNCHANGED <<dir, file, my>>
    BY <1>3 DEF ReadMalformed, TypeOK
  <2>3. t # my[s].token BY <1>b, <2>1, <2>2 DEF OwnRecord, Attempting, Scanning
  <2>4. Meets(s)' BY <2>1, <2>2, <2>3 DEF Meets, Blocking, Dropping
  <2> QED BY <2>4, Remembering
<1>4. CASE MeetsChoosing(s)
  <2>1. pc[s] = "read" /\ pc'[s] = "drop" BY <1>4 DEF MeetsChoosing, Scanned, TypeOK
  <2>2. ~OnlyOwnSeen(s) BY <1>4 DEF MeetsChoosing, OthersChoosing, OnlyOwnSeen
  <2> QED BY <1>c, <2>1, <2>2 DEF Scanning
<1>5. CASE Decide(s)
  <2>1. /\ pc[s] = "read" /\ round[s] = 2 /\ todo[s] = {} /\ pc'[s] \in {"won", "drop"}
        /\ pc'[s] = "won" => result' = result
        /\ pc'[s] # "won" => ~((\A r \in seen[s] : r.state # "choosing") /\ IsFirst(s))
    BY <1>5 DEF Decide, Scanned, TypeOK
  <2>2. CASE pc'[s] = "won" BY <1>1, <2>1, <2>2
  <2>3. CASE pc'[s] # "won"
    <3> SUFFICES ASSUME ~contended'[s] PROVE FALSE
      OBVIOUS
    <3>1. OnlyOwnSeen(s) BY <1>c, <2>1 DEF Scanning
    <3>2. \A r \in seen[s] : r.token = my[s].token /\ r = my[s]
      BY <1>b, <2>1, <3>1 DEF OnlyOwnSeen, OwnSeen, Scanning
    <3>3. \E r \in seen[s] : r.token = my[s].token
      BY <2>1 DEF BusyInv, OwnListed, Scanning
    <3>4. IsFirst(s) BY <3>2, <3>3 DEF IsFirst
    <3>5. my[s].state = "ready" BY <2>1 DEF BusyInv, OwnTicket, Scanning
    <3> QED BY <2>1, <2>3, <3>2, <3>4, <3>5
  <2> QED BY <2>2, <2>3
<1>6. CASE CheckCreated(s) \/ CheckReady(s) \/ Win(s)
  <2>1. pc[s] \in {"created", "ready", "won"}
    BY <1>6 DEF CheckCreated, CheckReady, Win
  <2>2. Owns(s) BY <1>b, <2>1 DEF OwnRecord, Owns, Attempting
  <2>3. result' = result /\ pc'[s] \in {"list", "held"}
    BY <1>6, <2>2 DEF CheckCreated, CheckReady, Win, TypeOK
  <2> QED BY <1>1, <2>1, <2>3
<1>7. CASE PublishTicket(s)
  <2>1. pc[s] = "read" /\ (pc'[s] = "ready" \/ pc'[s] = "drop") BY <1>7, PublishEffect
  <2>2. result'[s] \in {result[s], "error"}
    BY <1>7 DEF PublishTicket, TypeOK
  <2> QED BY <1>1, <2>1, <2>2
<1>8. CASE Start(s) BY <1>1, <1>8 DEF Start, TypeOK
<1>9. CASE Die(s) \/ Begin(s) BY <1>9 DEF Die, Begin, TypeOK
<1>10. CASE Release(s) \/ Drop(s) \/ Dropped(s)
  BY <1>1, <1>10 DEF Release, Drop, Dropped, Finish, TypeOK
<1>11. CASE List(s) \/ ReadGone(s) \/ ReadOwn(s) \/ ReadOther(s)
  BY <1>1, <1>11 DEF List, ReadGone, ReadOwn, ReadOther, TypeOK
<1>12. CASE CheckAlive(s) \/ CheckIdentity(s) \/ IdentityUnreadable(s)
  BY <1>1, <1>12 DEF CheckAlive, CheckIdentity, IdentityUnreadable, AddContender,
                     Judged, TypeOK
<1>13. CASE Reap(s) \/ Restore(s)
  BY <1>1, <1>13 DEF Reap, Restore, Judged, TypeOK
<1> QED BY StepCases, <1>3, <1>4, <1>5, <1>6, <1>7, <1>8, <1>9, <1>10, <1>11, <1>12, <1>13

\* A process that is gone has no result.
LEMMA DeadQuietStep ==
  ASSUME TypeOK, DeadQuiet, NEW s \in Proc, Step(s)
  PROVE  DeadQuiet'
<1>a. \A q \in Proc \ {s} : Same(q) /\ result'[q] = result[q] BY Frame, ResultFrame
<1>1. CASE Die(s) BY <1>a, <1>1 DEF Die, DeadQuiet, Same, TypeOK
<1>2. CASE pc'[s] # "dead" BY <1>a, <1>2 DEF DeadQuiet, Same
<1>3. Die(s) \/ pc'[s] # "dead"
  <2>1. CASE PublishTicket(s) BY <2>1, PublishEffect
  <2> QED
    BY StepCases, <2>1 DEF TypeOK, Goto, GiveUp, Finish, Judged, AddContender, Start,
       Begin, Release, List, ReadGone, ReadOwn, ReadOther, ReadMalformed, CheckAlive,
       CheckIdentity, IdentityUnreadable, Reap, Restore, CheckCreated, MeetsChoosing,
       CheckReady, Decide, Win, Drop, Dropped
<1> QED BY <1>1, <1>2, <1>3

\* BusyInv holds of every reachable state.
THEOREM BusyInvariance == Spec => []BusyInv
<1>1. Init => BusyInv
  BY DEF Init, BusyInv, Remembers, Meets, FileOwners, OwnListed, OwnTicket, Unhindered,
         DeadQuiet, BusyOnlyWhenContended, Malformed, Attempting, Dropping, Scanning
<1>2. TypeOK /\ IInv /\ BusyInv /\ [Next]_vars => BusyInv'
  <2> SUFFICES ASSUME TypeOK, IInv, BusyInv, [Next]_vars PROVE BusyInv'
    OBVIOUS
  <2>1. CASE UNCHANGED vars
    BY <2>1 DEF vars, BusyInv, Remembers, Meets, Blocking, PidAlive, Running, FileOwners,
                OwnListed, OwnTicket, Unhindered, OnlyOwnSeen, JudgesPresent, DeadQuiet,
                BusyOnlyWhenContended
  <2>2. ASSUME NEW s \in Proc, Step(s) PROVE BusyInv'
    <3>1. Remembers' BY <2>2, Remembering DEF Remembers
    <3>2. Unhindered'
      BY <2>2, UnhinderedOwnStep, UnhinderedOtherStep DEF BusyInv, Unhindered
    <3> QED
      BY <2>2, <3>1, <3>2, FileOwnersStep, OwnListedStep, OwnTicketStep, DeadQuietStep,
         BusyStep DEF BusyInv
  <2> QED BY <2>1, <2>2 DEF Next
<1> QED BY <1>1, <1>2, TypeCorrect, Invariance, PTL DEF Spec

\* An attempt is turned away as busy only when a record that had a right to be
\* there, or an identity that could not be read, stood in its way: what crashed
\* processes left behind blocks nobody, with any number of processes.
THEOREM BusyMeansContended == Spec => []BusyOnlyWhenContended
  BY BusyInvariance, PTL DEF BusyInv
=============================================================================
