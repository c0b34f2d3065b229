-------------------------- MODULE Conversation_proofs --------------------------
(* What holds of Conversation for any number of messages, questions, failures  *)
(* and restarts: a message is used once, collected messages are kept, an       *)
(* answer is taken for the part it was written for, and every chain of         *)
(* promises has one task under way, its first.                                 *)
EXTENDS Conversation, TLAPS

\* The parts of a task the invariants speak of.
Task(a) == {"pc", "snap", "pend", "part", "claims", "batch"} \subseteq DOMAIN a
Tasks   == DOMAIN at = Message /\ \A m \in Message : Task(at[m])

\* state.json holds nothing the process does not know, and never loses anything:
\* a write under way holds its own message and all that is on disk.
Snapshots ==
  /\ disk \subseteq seen
  /\ \A m \in Message : at[m].pc \in Writing =>
       disk \subseteq at[m].snap /\ at[m].snap \subseteq seen /\ m \in at[m].snap

\* Where a message has not been used yet, and where it is known to be on disk.
Fresh    == {"queued", "waiting", "marking", "recording", "prepare", "presenting",
             "answering"}
OnDisk   == {"prepare", "presenting", "answering"}

\* A message that was used is on disk, so that it is not accepted again.
Uses ==
  \A m \in Message :
    /\ uses[m] = 0 \/ (uses[m] = 1 /\ m \in disk)
    /\ at[m].pc \in Fresh => uses[m] = 0
    /\ at[m].pc \in OnDisk => m \in disk

UsesAreCounted == DOMAIN uses = Message

Inv == Tasks /\ UsesAreCounted /\ Snapshots /\ Uses

-----------------------------------------------------------------------------
(* What the shared operators do to the tasks.                               *)

\* Task m stays what it is, wherever it goes; the other tasks stay where they are.
Same(m) ==
  /\ at'[m].pend = at[m].pend /\ at'[m].part = at[m].part
  /\ at'[m].claims = at[m].claims /\ at'[m].batch = at[m].batch
Others(m) == \A n \in Message \ {m} : at'[n] = at[n]

\* A task that ends or is forgotten.
LEMMA IdleIsTask ==
  /\ Task(Idle) /\ Idle.pc = "idle" /\ Idle.batch = <<>> /\ Idle.claims = FALSE
  /\ Task(Done) /\ Done.pc = "done" /\ Done.batch = <<>>
  BY DEF Task, Idle, Done

\* Goes moves one task and keeps its snapshot.
LEMMA GoesMoves ==
  ASSUME NEW m \in Message, NEW pc, Tasks, Goes(m, pc)
  PROVE  Tasks' /\ at'[m].pc = pc /\ at'[m].snap = at[m].snap /\ Same(m) /\ Others(m)
  BY DEF Goes, Tasks, Task, Same, Others

\* Records begins a write of all that is known, the message included.
LEMMA RecordsMoves ==
  ASSUME NEW m \in Message, NEW pc, Tasks, Records(m, pc)
  PROVE  /\ Tasks' /\ at'[m].pc = pc /\ Same(m) /\ Others(m)
         /\ at'[m].snap = seen' /\ seen' = seen \cup {m}
  BY DEF Records, Tasks, Task, Same, Others

\* Ends ends one task.
LEMMA EndsMoves ==
  ASSUME NEW m \in Message, Tasks, Ends(m)
  PROVE  Tasks' /\ at'[m].pc = "done" /\ at'[m].batch = <<>> /\ Others(m)
  BY IdleIsTask DEF Ends, Tasks, Others

\* Enqueue moves one task.
LEMMA EnqueueMoves ==
  ASSUME NEW m \in Message, NEW ms, Tasks, Enqueue(m, ms)
  PROVE  /\ Tasks' /\ at'[m].pc = "queued" /\ at'[m].batch = ms
         /\ at'[m].claims = at[m].claims /\ Others(m)
  BY DEF Enqueue, Tasks, Task, Others

-----------------------------------------------------------------------------
(* Three kinds of steps that keep the invariant.                            *)

\* Task m does nothing, or it moves to where nothing is written, and to where its
\* message has to be unused or on disk only if it is.
Harmless(m) ==
  \/ at'[m].pc = at[m].pc /\ at'[m].snap = at[m].snap
  \/ /\ at'[m].pc \notin Writing
     /\ at'[m].pc \in Fresh => uses[m] = 0
     /\ at'[m].pc \in OnDisk => m \in disk

\* Harmless steps keep the invariant.
LEMMA HarmlessKeeps ==
  ASSUME Inv, Tasks', UNCHANGED <<seen, disk, uses>>, \A m \in Message : Harmless(m)
  PROVE  Inv'
  BY DEF Inv, Snapshots, Uses, UsesAreCounted, Harmless

\* So does a step of one task that moves without harm.
LEMMA MoveKeeps ==
  ASSUME NEW m \in Message, Inv, Tasks', Others(m),
         UNCHANGED <<seen, disk, uses>>, Harmless(m)
  PROVE  Inv'
  BY HarmlessKeeps DEF Others, Harmless

\* A message begins to be recorded.
LEMMA RecordKeeps ==
  ASSUME NEW m \in Message, NEW pc \in Writing, Inv, Records(m, pc),
         UNCHANGED <<disk, uses>>,
         pc \in Fresh => uses[m] = 0
  PROVE  Inv'
<1>1. /\ Tasks' /\ at'[m].pc = pc /\ Others(m)
      /\ at'[m].snap = seen' /\ seen' = seen \cup {m}
  BY RecordsMoves DEF Inv
<1>2. pc \notin OnDisk
  BY DEF Writing, OnDisk
<1> QED
  BY <1>1, <1>2 DEF Inv, Snapshots, Uses, UsesAreCounted, Others

\* The first of the writes under way ends: what is on disk grows.
LEMMA WriteKeeps ==
  ASSUME NEW m \in Message, Inv, Tasks', Others(m), IsNextWrite(m),
         disk' = at[m].snap, UNCHANGED <<seen, uses>>,
         at'[m].pc \notin Writing,
         at'[m].pc \in Fresh => at[m].pc \in Fresh
  PROVE  Inv'
<1>1. disk \subseteq disk' /\ disk' \subseteq seen /\ m \in disk'
  BY DEF Inv, Snapshots, IsNextWrite
<1>2. \A n \in Message : at[n].pc \in Writing => disk' \subseteq at[n].snap
  BY DEF IsNextWrite
<1> QED
  BY <1>1, <1>2 DEF Inv, Snapshots, Uses, UsesAreCounted, Others

\* A message on disk that was not used is used.
LEMMA UseKeeps ==
  ASSUME NEW m \in Message, NEW pc, Inv, Goes(m, pc), m \in disk, uses[m] = 0,
         pc \notin Writing, pc \notin Fresh, pc \notin OnDisk,
         uses' = [uses EXCEPT ![m] = @ + 1], UNCHANGED <<seen, disk>>
  PROVE  Inv'
<1>1. Tasks' /\ at'[m].pc = pc /\ Others(m)
  BY GoesMoves DEF Inv
<1>2. uses'[m] = 1 /\ \A n \in Message \ {m} : uses'[n] = uses[n]
  BY DEF Inv, UsesAreCounted
<1> QED
  BY <1>1, <1>2 DEF Inv, Snapshots, Uses, UsesAreCounted, Others

-----------------------------------------------------------------------------
(* The steps.                                                               *)

\* Nothing has been used, and nothing is written.
LEMMA Begin ==
  ASSUME Init
  PROVE  Inv
<1>1. Tasks
  BY IdleIsTask DEF Init, Tasks
<1>2. \A m \in Message : at[m].pc = "idle" /\ uses[m] = 0
  BY IdleIsTask DEF Init
<1> QED
  BY <1>1, <1>2 DEF Init, Inv, UsesAreCounted, Snapshots, Uses, Writing, Fresh, OnDisk

\* m becomes a reply to the pending question, and claims its part if it is text.
BecomesReply(m) ==
  LET claims == CanClaimInteractionReply(says[m]) IN
  /\ UNCHANGED seen
  /\ live # None /\ pend[live].claimed = None
  /\ at' = [at EXCEPT ![m] = [Idle EXCEPT !.pc = "waiting", !.pend = live,
                                !.part = pend[live].index, !.claims = claims]]
  /\ pend' = [pend EXCEPT ![live].queue = Append(@, m),
                          ![live].claimed = IF claims THEN m ELSE @]

\* What becomes of a message that is accepted.
LEMMA AcceptIs ==
  ASSUME NEW m \in Message, Accept(m)
  PROVE  \/ UNCHANGED <<pend, queue>> /\ \E pc \in {"local", "stopping"} : Records(m, pc)
         \/ UNCHANGED <<pend, seen>> /\ \E ms \in {<<>>, batch.messages} : Enqueue(m, ms)
         \/ UNCHANGED queue /\ BecomesReply(m)
<1> DEFINE busy == says[m] = "/batch" /\ (queue # <<>> \/ live # None)
           result == IF busy THEN <<"local", batch>> ELSE Handled(m, says[m])
<1>1. result[1] \in {"local", "submit", "on"}
  BY DEF Handled
<1>2. CASE result[1] = "local"
  BY <1>2 DEF Accept
<1>3. CASE result[1] = "submit"
  BY <1>3 DEF Accept
<1>4. CASE result[1] = "on"
  <2>1. AcceptOther(m, says[m])
    BY <1>4 DEF Accept
  <2>2. CASE says[m] = "/stop"
    BY <2>1, <2>2 DEF AcceptOther
  <2>3. CASE says[m] # "/stop" /\ (\/ live = None \/ pend[live].submitting
                                  \/ pend[live].claimed # None)
    BY <2>1, <2>3 DEF AcceptOther
  <2>4. CASE says[m] # "/stop" /\ ~(\/ live = None \/ pend[live].submitting
                                   \/ pend[live].claimed # None)
    BY <2>1, <2>4, Zenon DEF AcceptOther, BecomesReply
  <2> QED
    BY <2>2, <2>3, <2>4
<1> QED
  BY <1>1, <1>2, <1>3, <1>4

\* A message that is accepted is not on disk, so it was never used.
LEMMA AcceptKeeps ==
  ASSUME NEW m \in Message, Inv, Accept(m)
  PROVE  Inv'
<1>1. uses[m] = 0 /\ UNCHANGED <<disk, uses>>
  BY DEF Inv, Snapshots, Uses, Accept
<1>2. CASE \E pc \in {"local", "stopping"} : Records(m, pc)
  BY <1>1, <1>2, RecordKeeps DEF Writing, Fresh
<1>3. CASE UNCHANGED seen /\ \E ms : Enqueue(m, ms)
  <2>1. Tasks' /\ at'[m].pc = "queued" /\ Others(m)
    BY <1>3, EnqueueMoves DEF Inv
  <2> QED
    BY <1>1, <1>3, <2>1, MoveKeeps DEF Harmless, Writing, Fresh, OnDisk
<1>4. CASE BecomesReply(m)
  <2>1. Tasks' /\ at'[m].pc = "waiting" /\ Others(m)
    BY <1>4 DEF BecomesReply, Inv, Tasks, Task, Idle, Others
  <2>2. UNCHANGED seen
    BY <1>4 DEF BecomesReply
  <2> QED
    BY <1>1, <2>1, <2>2, MoveKeeps DEF Harmless, Writing, Fresh, OnDisk
<1> QED
  BY <1>2, <1>3, <1>4, AcceptIs

\* The writes.
LEMMA RecordedKeeps ==
  ASSUME NEW m \in Message, Inv, Recorded(m)
  PROVE  Inv'
<1>1. at[m].pc \in Writing \ {"recording"}
  BY DEF Recorded, IsNextWrite
<1>2. Tasks' /\ Others(m)
  BY IdleIsTask DEF Recorded, Inv, Tasks, Task, Others
<1>3. CASE at[m].pc = "local"
  <2>1. at'[m].pc = "done"
    BY <1>3, IdleIsTask DEF Recorded, Inv, Tasks
  <2> QED
    BY <1>2, <2>1, WriteKeeps DEF Recorded, Writing, Fresh, history
<1>4. CASE at[m].pc # "local"
  <2>1. at'[m].pc = Then(at[m].pc)
    BY <1>4 DEF Recorded, Inv, Tasks, Task
  <2>2. at'[m].pc \notin Writing /\ (at'[m].pc \in Fresh => at[m].pc \in Fresh)
    BY <1>1, <1>4, <2>1 DEF Then, Writing, Fresh
  <2> QED
    BY <1>2, <2>2, WriteKeeps DEF Recorded, history
<1> QED
  BY <1>3, <1>4

\* An answer that has been recorded goes on to its claim.
LEMMA ReplyRecordedKeeps ==
  ASSUME NEW m \in Message, Inv, ReplyRecorded(m)
  PROVE  Inv'
<1>1. Tasks' /\ Others(m)
  BY DEF ReplyRecorded, Inv, Tasks, Task, Others
<1>2. at'[m].pc \in {"presenting", "answering", "notice"}
  BY DEF ReplyRecorded, Inv, Tasks, Task
<1>3. at[m].pc = "recording" /\ IsNextWrite(m) /\ disk' = at[m].snap
      /\ UNCHANGED <<seen, uses>>
  BY DEF ReplyRecorded, history
<1> QED
  BY <1>1, <1>2, <1>3, WriteKeeps DEF Writing, Fresh

\* A prompt is asked, and an answer taken.
LEMMA UsesKeep ==
  ASSUME NEW m \in Message, Inv, Prompts(m) \/ TakesAnswer(m)
  PROVE  Inv'
<1>1. CASE Prompts(m)
  <2>1. m \in disk /\ uses[m] = 0 /\ Goes(m, "asking")
    BY <1>1 DEF Prompts, Inv, Uses, Fresh, OnDisk
  <2> QED
    BY <1>1, <2>1, UseKeeps DEF Prompts, chat, Writing, Fresh, OnDisk
<1>2. CASE TakesAnswer(m) /\ live # at[m].pend
  <2>1. Goes(m, "notice") /\ UNCHANGED <<seen, disk, uses>>
    BY <1>2 DEF TakesAnswer, chat
  <2>2. Tasks' /\ at'[m].pc = "notice" /\ Others(m)
    BY <2>1, GoesMoves DEF Inv
  <2> QED
    BY <2>1, <2>2, MoveKeeps DEF Harmless, Writing, Fresh, OnDisk
<1>3. CASE TakesAnswer(m) /\ live = at[m].pend
  <2>1. m \in disk /\ uses[m] = 0
    BY <1>3 DEF TakesAnswer, Inv, Uses, Fresh, OnDisk
  <2>2. \E pc \in {"following", "submitting"} : Goes(m, pc)
    BY <1>3 DEF TakesAnswer
  <2>3. uses' = [uses EXCEPT ![m] = @ + 1] /\ UNCHANGED <<seen, disk>>
    BY <1>3 DEF TakesAnswer, chat
  <2> QED
    BY <2>1, <2>2, <2>3, UseKeeps DEF Writing, Fresh, OnDisk
<1> QED
  BY <1>1, <1>2, <1>3

\* The steps of a task that end it, or take it where its message no longer has to
\* be unused.
LEMMA EndingKeeps ==
  ASSUME NEW m \in Message, Inv, Ends(m), UNCHANGED <<seen, disk, uses>>
  PROVE  Inv'
<1>1. Tasks' /\ at'[m].pc = "done" /\ Others(m)
  BY EndsMoves DEF Inv
<1> QED
  BY <1>1, MoveKeeps DEF Harmless, Writing, Fresh, OnDisk

\* A task that goes on past its claim.
LEMMA GoingKeeps ==
  ASSUME NEW m \in Message, NEW pc, Inv, Goes(m, pc), UNCHANGED <<seen, disk, uses>>,
         pc \notin Writing, pc \notin Fresh
  PROVE  Inv'
<1>1. Tasks' /\ at'[m].pc = pc /\ Others(m)
  BY GoesMoves DEF Inv
<1> QED
  BY <1>1, MoveKeeps DEF Harmless, Fresh, OnDisk

\* The other steps of a task.
LEMMA TaskKeeps ==
  ASSUME NEW m \in Message, Inv, TaskStep(m) \/ TurnEnds(m) \/ Failure(m)
  PROVE  Inv'
<1>1. CASE Recorded(m) \/ ReplyRecorded(m)
  BY <1>1, RecordedKeeps, ReplyRecordedKeeps
<1>2. CASE Prompts(m) \/ TakesAnswer(m)
  BY <1>2, UsesKeep
<1>3. CASE Begins(m)
  <2>1. Records(m, "marking") /\ UNCHANGED <<disk, uses>> /\ uses[m] = 0
    BY <1>3 DEF Begins, history, Inv, Uses, Fresh
  <2> QED
    BY <2>1, RecordKeeps DEF Writing
<1>4. CASE Replies(m)
  <2>1. uses[m] = 0 /\ UNCHANGED <<disk, uses>>
    BY <1>4 DEF Replies, history, Inv, Uses, Fresh
  <2>2. CASE \E pc \in {"discarding", "recording"} : Records(m, pc)
    BY <2>1, <2>2, RecordKeeps DEF Writing
  <2>3. CASE Enqueue(m, <<>>) /\ UNCHANGED seen
    <3>1. Tasks' /\ at'[m].pc = "queued" /\ Others(m)
      BY <2>3, EnqueueMoves DEF Inv
    <3> QED
      BY <2>1, <2>3, <3>1, MoveKeeps DEF Harmless, Writing, Fresh, OnDisk
  <2> QED
    BY <1>4, <2>2, <2>3 DEF Replies
<1>5. CASE Delivered(m) \/ Closes(m)
  <2>1. at' = [at EXCEPT ![m].pc = "cancelling", ![m].pend = live]
        /\ UNCHANGED <<seen, disk, uses>>
    BY <1>5 DEF Delivered, Closes, TakesPending, chat, history
  <2>2. Tasks' /\ at'[m].pc = "cancelling" /\ Others(m)
    BY <2>1 DEF Inv, Tasks, Task, Others
  <2> QED
    BY <2>1, <2>2, MoveKeeps DEF Harmless, Writing, Fresh, OnDisk
<1>6. CASE StopTurn(m)
  <2>1. UNCHANGED <<seen, disk, uses>>
    BY <1>6 DEF StopTurn, chat, history
  <2>2. CASE at' = [at EXCEPT ![m] = Done]
    <3>1. Tasks' /\ at'[m].pc = "done" /\ Others(m)
      BY <2>2, IdleIsTask DEF Inv, Tasks, Others
    <3> QED
      BY <2>1, <3>1, MoveKeeps DEF Harmless, Writing, Fresh, OnDisk
  <2>3. CASE at' = [at EXCEPT ![m].pc = "cancelling", ![m].pend = live,
                              ![Head(queue)].stopped = TRUE]
    <3>1. Tasks' /\ at'[m].pc = "cancelling"
      BY <2>3 DEF Inv, Tasks, Task
    <3>2. \A n \in Message \ {m} : at'[n].pc = at[n].pc /\ at'[n].snap = at[n].snap
      BY <2>3 DEF Inv, Tasks, Task
    <3> QED
      BY <2>1, <3>1, <3>2, HarmlessKeeps DEF Harmless, Writing, Fresh, OnDisk
  <2> QED
    BY <1>6, <2>2, <2>3 DEF StopTurn
<1>7. CASE \/ Cancelled(m) \/ NoticeSent(m) \/ RecordFails(m) \/ CancelFails(m)
  BY <1>7, EndingKeeps DEF Cancelled, NoticeSent, RecordFails, CancelFails, chat, history
<1>8. CASE Submitted(m) \/ SubmitFailed(m)
  <2>1. (Ends(m) \/ Goes(m, "notice")) /\ UNCHANGED <<seen, disk, uses>>
    BY <1>8 DEF Submitted, SubmitFailed, chat, history
  <2> QED
    BY <2>1, EndingKeeps, GoingKeeps DEF Writing, Fresh
<1>9. CASE RespondArrives(m) \/ RespondFails(m) \/ TurnEnds(m) \/ TurnFails(m)
  <2>1. /\ \E pc \in {"failed", "accepted", "refused", "deliver", "closing"} : Goes(m, pc)
        /\ UNCHANGED <<seen, disk, uses>>
    BY <1>9 DEF RespondArrives, RespondFails, TurnEnds, Answered, Stopped, TurnFails,
                chat, history
  <2> QED
    BY <2>1, GoingKeeps DEF Writing, Fresh
<1>10. CASE Disconnects(m)
  BY <1>10, HarmlessKeeps DEF Disconnects, chat, history, Harmless, Inv, Tasks
<1> QED
  BY <1>1, <1>2, <1>3, <1>4, <1>5, <1>6, <1>7, <1>8, <1>9, <1>10
     DEF TaskStep, Failure

\* The end of a presentation wakes the replies that wait for it: those that had
\* answered a part before have nothing left to do.
LEMMA PresentedKeeps ==
  ASSUME NEW p \in Pending, Inv, Shown(p) \/ ShowFails(p)
  PROVE  Inv'
<1>1. UNCHANGED <<seen, disk, uses>>
  BY DEF Shown, ShowFails, chat, history
<1>2. PICK ms, shown : /\ Presented(p, ms, shown)
                       /\ \A m \in Awaiting(p) : at[m].pc = "following" => m \in ms
  BY DEF Shown, ShowFails
<1>3. Tasks'
  BY <1>2, IdleIsTask DEF Presented, Inv, Tasks, Task
<1>4. ASSUME NEW m \in Message
      PROVE  Harmless(m)
  <2>1. CASE m \in ms
    BY <1>2, <2>1, IdleIsTask DEF Presented, Harmless, Writing, Fresh, OnDisk
  <2>2. CASE m \notin ms /\ m \in Awaiting(p)
    <3>1. at[m].pc = "presenting" /\ at'[m].pc \in {"answering", "notice"}
      BY <1>2, <2>2 DEF Awaiting, Presented, Inv, Tasks, Task
    <3> QED
      BY <3>1 DEF Harmless, Writing, Fresh, OnDisk, Inv, Uses
  <2>3. CASE m \notin ms /\ m \notin Awaiting(p)
    BY <1>2, <2>3 DEF Presented, Harmless
  <2> QED
    BY <2>1, <2>2, <2>3
<1> QED
  BY <1>1, <1>3, <1>4, HarmlessKeeps

\* A restart forgets what is not on disk.
LEMMA RestartKeeps ==
  ASSUME Inv, Restart
  PROVE  Inv'
<1>1. Tasks' /\ \A m \in Message : at'[m].pc = "idle"
  BY IdleIsTask DEF Restart, Tasks
<1> QED
  BY <1>1 DEF Restart, Inv, UsesAreCounted, Snapshots, Uses, Writing, Fresh, OnDisk

\* Everything else leaves the tasks alone.
LEMMA OtherKeeps ==
  ASSUME Inv, UNCHANGED <<at, seen, disk, uses>>
  PROVE  Inv'
  BY DEF Inv, Tasks, UsesAreCounted, Snapshots, Uses

\* Inv is inductive.
LEMMA NextKeeps ==
  ASSUME Inv, [Next]_vars
  PROVE  Inv'
<1>1. ASSUME NEW m \in Message, Accept(m)
      PROVE  Inv'
  BY <1>1, AcceptKeeps
<1>2. ASSUME NEW m \in Message, TaskStep(m) \/ TurnEnds(m) \/ Failure(m)
      PROVE  Inv'
  BY <1>2, TaskKeeps
<1>3. ASSUME NEW m \in Message, SocketStep(m)
      PROVE  Inv'
  BY <1>3, OtherKeeps DEF SocketStep, Requested, Resolved, Reconnects, chat, history
<1>4. ASSUME NEW p \in Pending, Shown(p) \/ ShowFails(p)
      PROVE  Inv'
  BY <1>4, PresentedKeeps
<1>5. ASSUME NEW q \in Question, HarnessAsks(q) \/ AnsweredElsewhere(q)
      PROVE  Inv'
  BY <1>5, OtherKeeps DEF HarnessAsks, AnsweredElsewhere, chat, history
<1>6. CASE Restart
  BY <1>6, RestartKeeps
<1>7. CASE UNCHANGED vars
  BY <1>7, OtherKeeps DEF vars, chat, history
<1> QED
  BY <1>1, <1>2, <1>3, <1>4, <1>5, <1>6, <1>7 DEF Next

-----------------------------------------------------------------------------
(* The theorems.                                                            *)

\* The invariant holds throughout.
THEOREM Invariance == Spec => []Inv
<1>1. Init => Inv
  BY Begin
<1>2. Inv /\ [Next]_vars => Inv'
  BY NextKeeps
<1> QED
  BY <1>1, <1>2, PTL DEF Spec

\* A message is a prompt or an answer at most once, whatever fails and however
\* often the process is restarted and the message is delivered again.
THEOREM NeverTwiceHolds == Spec => []NeverTwice
<1>1. Inv => NeverTwice
  BY DEF Inv, Uses, NeverTwice
<1> QED
  BY <1>1, Invariance, PTL

-----------------------------------------------------------------------------
(* Collected messages are kept.                                             *)

\* A batch in submission is carried by the task of its /send, until that is done.
Batch ==
  /\ batch \in [phase : {"idle", "collecting", "submitting"}, messages : Seq(Message),
                token : Message \cup {None}]
  /\ batch.phase = "idle" => batch.messages = <<>>
  /\ batch.phase = "submitting" =>
       batch.token \in Message /\ at[batch.token].batch \in {<<>>, batch.messages}

BatchInv == Batch /\ CollectedAreKept

\* Each task keeps its batch, or is done with it.
Carried == \A n \in Message : at'[n].batch \in {at[n].batch, <<>>}

\* A step that touches no batch.
LEMMA CarriedKeeps ==
  ASSUME BatchInv, Carried, UNCHANGED <<batch, owed>>
  PROVE  BatchInv'
  BY DEF BatchInv, Batch, CollectedAreKept, Carried

\* An answered or stopped submission has paid what it took.
LEMMA CompletesKeeps ==
  ASSUME NEW m \in Message, BatchInv, Carried, Completes(m)
  PROVE  BatchInv'
<1>1. CASE at[m].batch # <<>> /\ batch.phase = "submitting" /\ batch.token = m
  <2>1. batch' = NoBatch /\ owed' = owed \ ToSet(at[m].batch)
    BY <1>1 DEF Completes
  <2>2. at[m].batch = batch.messages
    BY <1>1 DEF BatchInv, Batch
  <2>3. owed' = {}
    BY <2>1, <2>2 DEF BatchInv, CollectedAreKept
  <2> QED
    BY <2>1, <2>3 DEF BatchInv, Batch, CollectedAreKept, NoBatch
<1>2. CASE ~(at[m].batch # <<>> /\ batch.phase = "submitting" /\ batch.token = m)
  BY <1>2, CarriedKeeps DEF Completes
<1> QED
  BY <1>1, <1>2

\* A failed one gives its messages back.
LEMMA RetainsKeeps ==
  ASSUME NEW m \in Message, BatchInv, Carried, Retains(m), UNCHANGED owed
  PROVE  BatchInv'
<1>1. CASE at[m].batch # <<>> /\ batch.phase = "submitting" /\ batch.token = m
  <2>1. batch' = [batch EXCEPT !.phase = "collecting", !.token = None]
    BY <1>1 DEF Retains
  <2> QED
    BY <2>1 DEF BatchInv, Batch, CollectedAreKept
<1>2. CASE ~(at[m].batch # <<>> /\ batch.phase = "submitting" /\ batch.token = m)
  BY <1>2, CarriedKeeps DEF Retains
<1> QED
  BY <1>1, <1>2

\* What the steps of a task do to its batch.
LEMMA TaskCarries ==
  ASSUME NEW m \in Message, Tasks, TaskStep(m) \/ TurnEnds(m) \/ Failure(m)
  PROVE  Carried
<1>1. CASE Recorded(m)
  BY <1>1, IdleIsTask DEF Recorded, Tasks, Task, Carried
<1>2. CASE ReplyRecorded(m)
  BY <1>2 DEF ReplyRecorded, Tasks, Task, Carried
<1>3. CASE Begins(m) \/ Replies(m)
  <2>1. (\E pc : Records(m, pc)) \/ Enqueue(m, <<>>)
    BY <1>3 DEF Begins, Replies
  <2> QED
    BY <2>1, RecordsMoves, EnqueueMoves DEF Carried, Same, Others
<1>4. CASE \/ Prompts(m) \/ TakesAnswer(m) \/ RespondArrives(m) \/ RespondFails(m)
           \/ TurnEnds(m) \/ TurnFails(m)
  <2>1. \E pc : Goes(m, pc)
    BY <1>4 DEF Prompts, TakesAnswer, RespondArrives, RespondFails, TurnEnds,
                Answered, Stopped, TurnFails
  <2> QED
    BY <2>1, GoesMoves DEF Carried, Same, Others
<1>5. CASE Delivered(m) \/ Closes(m)
  <2>1. at' = [at EXCEPT ![m].pc = "cancelling", ![m].pend = live]
    BY <1>5 DEF Delivered, Closes, TakesPending
  <2> QED
    BY <2>1 DEF Tasks, Task, Carried
<1>6. CASE StopTurn(m)
  BY <1>6, IdleIsTask DEF StopTurn, Tasks, Task, Carried
<1>7. CASE \/ Cancelled(m) \/ NoticeSent(m) \/ RecordFails(m) \/ CancelFails(m)
           \/ Submitted(m) \/ SubmitFailed(m)
  <2>1. Ends(m) \/ Goes(m, "notice")
    BY <1>7 DEF Cancelled, NoticeSent, RecordFails, CancelFails, Submitted, SubmitFailed
  <2> QED
    BY <2>1, EndsMoves, GoesMoves DEF Carried, Same, Others
<1>8. CASE Disconnects(m)
  BY <1>8 DEF Disconnects, Carried
<1> QED
  BY <1>1, <1>2, <1>3, <1>4, <1>5, <1>6, <1>7, <1>8 DEF TaskStep, Failure

\* The steps of a task end a submission as they should.
LEMMA TaskKeepsBatch ==
  ASSUME NEW m \in Message, Tasks, BatchInv, TaskStep(m) \/ TurnEnds(m) \/ Failure(m)
  PROVE  BatchInv'
<1>1. Carried
  BY TaskCarries
<1>2. CASE Delivered(m) \/ Stopped(m)
  <2>1. Completes(m)
    BY <1>2 DEF Delivered, Stopped
  <2> QED
    BY <1>1, <2>1, CompletesKeeps
<1>3. CASE TurnFails(m)
  <2>1. Retains(m) /\ UNCHANGED owed
    BY <1>3 DEF TurnFails, history
  <2> QED
    BY <1>1, <2>1, RetainsKeeps
<1>4. CASE ~(Delivered(m) \/ Stopped(m) \/ TurnFails(m))
  <2>1. UNCHANGED <<batch, owed>>
    BY <1>4 DEF TaskStep, TurnEnds, Failure, Recorded, Begins, Prompts, Closes, Cancelled,
                StopTurn, Replies, ReplyRecorded, TakesAnswer, RespondArrives, Submitted,
                SubmitFailed, NoticeSent, Answered, RecordFails, CancelFails,
                RespondFails, Disconnects, history
  <2> QED
    BY <1>1, <2>1, CarriedKeeps
<1> QED
  BY <1>2, <1>3, <1>4

\* What BatchInputManager makes of a message.
LEMMA HandledIs ==
  ASSUME NEW m, NEW s
  PROVE  \/ Handled(m, s) \in {<<"local", batch>>, <<"on", batch>>}
         \/ /\ batch.phase = "idle"
            /\ Handled(m, s) = <<"local", [NoBatch EXCEPT !.phase = "collecting"]>>
         \/ s = "/cancel" /\ Handled(m, s) = <<"local", NoBatch>>
         \/ /\ s = "/send" /\ batch.messages # <<>>
            /\ Handled(m, s) =
                 <<"submit", [batch EXCEPT !.phase = "submitting", !.token = m]>>
         \/ /\ s = "text" /\ batch.phase = "collecting" /\ Len(batch.messages) < Limit
            /\ Handled(m, s) =
                 <<"local", [batch EXCEPT !.messages = Append(@, m)]>>
<1>1. CASE batch.phase = "idle" /\ s = "/batch"
  BY <1>1 DEF Handled
<1>2. CASE batch.phase = "collecting" /\ s = "/cancel"
  BY <1>2 DEF Handled
<1>3. CASE batch.phase = "collecting" /\ s = "/send" /\ batch.messages # <<>>
  BY <1>3 DEF Handled
<1>4. CASE batch.phase = "collecting" /\ s = "text" /\ Len(batch.messages) < Limit
  BY <1>4 DEF Handled
<1>5. CASE batch.phase # "collecting" /\ s \notin Command
  BY <1>5 DEF Handled, Command
<1>6. CASE /\ ~(batch.phase = "idle" /\ s = "/batch")
           /\ ~(batch.phase = "collecting" /\ s = "/cancel")
           /\ ~(batch.phase = "collecting" /\ s = "/send" /\ batch.messages # <<>>)
           /\ ~(batch.phase = "collecting" /\ s = "text" /\ Len(batch.messages) < Limit)
           /\ ~(batch.phase # "collecting" /\ s \notin Command)
  BY <1>6 DEF Handled
<1> QED
  BY <1>1, <1>2, <1>3, <1>4, <1>5, <1>6

\* A message that is not the batch's does not touch it.
LEMMA AcceptOtherCarries ==
  ASSUME NEW m \in Message, NEW s, Tasks, AcceptOther(m, s)
  PROVE  Carried
<1>1. CASE Records(m, "stopping")
  BY <1>1, RecordsMoves DEF Carried, Same, Others
<1>2. CASE Enqueue(m, <<>>)
  BY <1>2, EnqueueMoves DEF Carried, Others
<1>3. CASE ~Records(m, "stopping") /\ ~Enqueue(m, <<>>)
  BY <1>3 DEF AcceptOther, Carried, Tasks, Idle
<1> QED
  BY <1>1, <1>2, <1>3

\* A message that is collected joins the batch, a submission takes all of it, and
\* a message that comes meanwhile leaves it alone.
LEMMA AcceptKeepsBatch ==
  ASSUME NEW m \in Message, Tasks, BatchInv, Accept(m)
  PROVE  BatchInv'
<1> DEFINE busy == says[m] = "/batch" /\ (queue # <<>> \/ live # None)
           result == IF busy THEN <<"local", batch>> ELSE Handled(m, says[m])
           collects == Len(result[2].messages) > Len(batch.messages)
           drops == says[m] = "/cancel" /\ result[2] # batch
<1>1. /\ batch' = result[2]
      /\ owed' = IF collects THEN owed \cup {m} ELSE IF drops THEN {} ELSE owed
      /\ result[1] = "local" => Records(m, "local")
      /\ result[1] = "submit" => Enqueue(m, batch.messages)
      /\ result[1] = "on" => AcceptOther(m, says[m])
  <2> HIDE DEF busy
  <2>1. result[1] = "local" => Records(m, "local")
    BY DEF Accept, busy
  <2>2. result[1] = "submit" => Enqueue(m, batch.messages)
    BY DEF Accept, busy
  <2>3. result[1] = "on" => AcceptOther(m, says[m])
    BY DEF Accept, busy
  <2>4. batch' = result[2]
    BY DEF Accept, busy
  <2>5. owed' = IF collects THEN owed \cup {m} ELSE IF drops THEN {} ELSE owed
    BY DEF Accept, busy
  <2> QED
    BY <2>1, <2>2, <2>3, <2>4, <2>5
<1> HIDE DEF result
<1>2. \/ result \in {<<"local", batch>>, <<"on", batch>>}
      \/ /\ batch.phase = "idle"
         /\ result = <<"local", [NoBatch EXCEPT !.phase = "collecting"]>>
      \/ says[m] = "/cancel" /\ result = <<"local", NoBatch>>
      \/ /\ says[m] = "/send" /\ batch.messages # <<>>
         /\ result = <<"submit", [batch EXCEPT !.phase = "submitting", !.token = m]>>
      \/ /\ says[m] = "text" /\ batch.phase = "collecting"
         /\ result = <<"local", [batch EXCEPT !.messages = Append(@, m)]>>
  BY HandledIs, Zenon DEF result
<1>3. batch.messages \in Seq(Message) /\ Len(batch.messages) \in Nat
  BY DEF BatchInv, Batch
<1>4. CASE result \in {<<"local", batch>>, <<"on", batch>>}
  <2>1. Carried
    BY <1>1, <1>4, RecordsMoves, AcceptOtherCarries DEF Carried, Same, Others
  <2>2. UNCHANGED <<batch, owed>>
    BY <1>1, <1>3, <1>4
  <2> QED
    BY <2>1, <2>2, CarriedKeeps
<1>5. CASE batch.phase = "idle" /\ result = <<"local", [NoBatch EXCEPT !.phase = "collecting"]>>
  <2>1. owed = {} /\ batch' = [NoBatch EXCEPT !.phase = "collecting"] /\ ~collects
    BY <1>1, <1>3, <1>5 DEF NoBatch, BatchInv, Batch, CollectedAreKept, ToSet
  <2>2. owed' = {}
    BY <1>1, <2>1
  <2>3. batch' = [phase |-> "collecting", messages |-> <<>>, token |-> None]
    BY <2>1 DEF NoBatch
  <2> QED
    BY <2>2, <2>3 DEF BatchInv, Batch, CollectedAreKept
<1>6. CASE says[m] = "/cancel" /\ result = <<"local", NoBatch>>
  <2>1. batch' = NoBatch /\ ~collects
    BY <1>1, <1>3, <1>6 DEF NoBatch
  <2>2. CASE batch = NoBatch
    BY <1>1, <2>1, <2>2 DEF BatchInv, Batch, CollectedAreKept, NoBatch
  <2>3. CASE batch # NoBatch
    <3>1. owed' = {}
      BY <1>1, <1>6, <2>1, <2>3
    <3> QED
      BY <2>1, <3>1 DEF BatchInv, Batch, CollectedAreKept, NoBatch
  <2> QED
    BY <2>2, <2>3
<1>7. CASE /\ says[m] = "/send" /\ batch.messages # <<>>
           /\ result = <<"submit", [batch EXCEPT !.phase = "submitting", !.token = m]>>
  <2> DEFINE next == [batch EXCEPT !.phase = "submitting", !.token = m]
  <2>1. next.messages = batch.messages /\ result[2] = next
    BY <1>7 DEF BatchInv, Batch
  <2> HIDE DEF next
  <2>2. ~collects
    BY <1>3, <2>1
  <2>3. batch' = next /\ owed' = owed
    BY <1>1, <1>7, <2>1, <2>2
  <2>4. at'[m].batch = batch.messages
    BY <1>1, <1>7, EnqueueMoves
  <2> QED
    BY <2>3, <2>4 DEF BatchInv, Batch, CollectedAreKept, next
<1>8. CASE /\ says[m] = "text" /\ batch.phase = "collecting"
           /\ result = <<"local", [batch EXCEPT !.messages = Append(@, m)]>>
  <2>1. batch' = [batch EXCEPT !.messages = Append(@, m)] /\ owed' \subseteq owed \cup {m}
    BY <1>1, <1>3, <1>8 DEF BatchInv, Batch
  <2>2. ToSet(batch.messages) \cup {m} \subseteq ToSet(Append(batch.messages, m))
    <3> DEFINE ms == batch.messages
    <3>1. DOMAIN Append(ms, m) = 1..(Len(ms) + 1) /\ DOMAIN ms = 1..Len(ms)
      BY <1>3
    <3>2. Append(ms, m)[Len(ms) + 1] = m /\ \A i \in 1..Len(ms) : Append(ms, m)[i] = ms[i]
      BY <1>3
    <3>3. m \in ToSet(Append(ms, m))
      BY <1>3, <3>1, <3>2 DEF ToSet
    <3>4. ToSet(ms) \subseteq ToSet(Append(ms, m))
      BY <1>3, <3>1, <3>2 DEF ToSet
    <3> QED
      BY <3>3, <3>4
  <2>3. Append(batch.messages, m) \in Seq(Message)
    BY <1>3
  <2> QED
    BY <1>8, <2>1, <2>2, <2>3 DEF BatchInv, Batch, CollectedAreKept
<1> QED
  BY <1>2, <1>4, <1>5, <1>6, <1>7, <1>8

\* BatchInv is inductive.
LEMMA NextKeepsBatch ==
  ASSUME Tasks, BatchInv, [Next]_vars
  PROVE  BatchInv'
<1>1. ASSUME NEW m \in Message, Accept(m)
      PROVE  BatchInv'
  BY <1>1, AcceptKeepsBatch
<1>2. ASSUME NEW m \in Message, TaskStep(m) \/ TurnEnds(m) \/ Failure(m)
      PROVE  BatchInv'
  BY <1>2, TaskKeepsBatch
<1>3. ASSUME NEW m \in Message, SocketStep(m)
      PROVE  BatchInv'
  BY <1>3, CarriedKeeps DEF SocketStep, Requested, Resolved, Reconnects, history, Carried
<1>4. ASSUME NEW p \in Pending, Shown(p) \/ ShowFails(p)
      PROVE  BatchInv'
  <2>1. PICK ms, shown : Presented(p, ms, shown)
    BY <1>4 DEF Shown, ShowFails
  <2>2. Carried
    BY <2>1, IdleIsTask DEF Presented, Carried, Tasks, Task
  <2>3. UNCHANGED <<batch, owed>>
    BY <1>4 DEF Shown, ShowFails, history
  <2> QED
    BY <2>2, <2>3, CarriedKeeps
<1>5. ASSUME NEW q \in Question, HarnessAsks(q) \/ AnsweredElsewhere(q)
      PROVE  BatchInv'
  BY <1>5, CarriedKeeps DEF HarnessAsks, AnsweredElsewhere, history, Carried
<1>6. CASE Restart
  BY <1>6 DEF Restart, BatchInv, Batch, CollectedAreKept, NoBatch
<1>7. CASE UNCHANGED vars
  BY <1>7, CarriedKeeps DEF vars, history, Carried
<1> QED
  BY <1>1, <1>2, <1>3, <1>4, <1>5, <1>6, <1>7 DEF Next

\* BatchInv holds of every reachable state.
LEMMA BatchInvariance == Spec => []BatchInv
<1>1. Init => BatchInv
  BY DEF Init, BatchInv, Batch, CollectedAreKept, NoBatch
<1>2. Inv /\ BatchInv /\ [Next]_vars => BatchInv'
  BY NextKeepsBatch DEF Inv
<1> QED
  BY <1>1, <1>2, Invariance, PTL DEF Spec

\* Collected messages stay in the batch until they are answered, cancelled or
\* their turn is stopped, for batches of any length and any number of failures.
THEOREM CollectedAreKeptHolds == Spec => []CollectedAreKept
  BY BatchInvariance, PTL DEF BatchInv

-----------------------------------------------------------------------------
(* Answers are taken for the part they were written for.                    *)

\* The parts of a pending interaction the invariant speaks of.
Objects(pd) == DOMAIN pd = Pending /\ \A p \in Pending : {"claimed", "index"} \subseteq DOMAIN pd[p]

\* Where a reply may still become an answer.
Answers == {"waiting", "recording", "presenting", "answering"}

\* A reply on its way to being an answer. Its claim keeps every other text away
\* from the part it was written for, and only the one that holds it goes on to the
\* next part.
Reply(m) ==
  /\ at[m].pc \in {"idle", "queued"} => ~at[m].claims
  /\ at[m].pc \in Answers => at[m].pend \in Pending
  /\ at[m].pc \in {"presenting", "answering"} => says[m] = "text"
  /\ at[m].pc \in Answers /\ says[m] = "text" =>
       /\ pend[at[m].pend].claimed = m
       /\ at[m].part = pend[at[m].pend].index

ReplyInv ==
  /\ Objects(pend) /\ live \in Pending \cup {None}
  /\ \A m \in Message : Reply(m)

\* A step leaves the way of m as it is, or m leaves it.
Steady(m) ==
  /\ at'[m].pc \in {"idle", "queued"} => ~at'[m].claims
  /\ at'[m].pc \in Answers =>
       /\ at[m].pc \in Answers
       /\ at'[m].pend = at[m].pend /\ at'[m].part = at[m].part
       /\ says[m] = "text" => /\ pend'[at[m].pend].claimed = pend[at[m].pend].claimed
                              /\ pend'[at[m].pend].index = pend[at[m].pend].index
  /\ at'[m].pc \in {"presenting", "answering"} => says[m] = "text"

\* What took the place of an answer does not become a prompt.
Unclaimed == \A m \in Message : at'[m].pc = "queued" => ~at[m].claims

\* Steady steps keep the invariant.
LEMMA SteadyKeeps ==
  ASSUME ReplyInv, Objects(pend'), live' \in Pending \cup {None}, UNCHANGED says,
         \A m \in Message : Steady(m)
  PROVE  ReplyInv'
  BY DEF ReplyInv, Reply, Steady, Objects

\* Released gives up the claims of ms, and nothing else the invariant speaks of.
LEMMA ReleasedIs ==
  ASSUME NEW pd, NEW ms, Objects(pd)
  PROVE  /\ Objects(Released(pd, ms))
         /\ \A p \in Pending : /\ Released(pd, ms)[p].index = pd[p].index
                               /\ Released(pd, ms)[p].claimed =
                                    IF pd[p].claimed \in ms THEN None ELSE pd[p].claimed
  BY DEF Objects, Released

\* A task that ends.
LEMMA EndingIsSteady ==
  ASSUME NEW n \in Message, Tasks, ReplyInv, Ends(n), UNCHANGED says, live' \in Pending \cup {None}
  PROVE  ReplyInv' /\ Unclaimed
<1>1. Tasks' /\ at'[n].pc = "done" /\ Others(n)
  BY EndsMoves
<1>2. /\ Objects(pend')
      /\ \A p \in Pending : /\ pend'[p].index = pend[p].index
                            /\ pend[p].claimed # n => pend'[p].claimed = pend[p].claimed
  BY ReleasedIs DEF Ends, ReplyInv
<1>3. \A m \in Message : Steady(m)
  BY <1>1, <1>2 DEF Steady, ReplyInv, Reply, Others, Answers
<1>4. Unclaimed
  BY <1>1 DEF Unclaimed, ReplyInv, Reply, Others
<1> QED
  BY <1>2, <1>3, <1>4, SteadyKeeps

\* A task that moves while the objects stay as they are.
LEMMA MovingIsSteady ==
  ASSUME NEW n \in Message, Tasks, ReplyInv, Others(n), UNCHANGED says,
         live' \in Pending \cup {None}, Objects(pend'),
         \A p \in Pending : pend'[p].index = pend[p].index /\ pend'[p].claimed = pend[p].claimed,
         at'[n].pc # "idle",
         at'[n].pc = "queued" => ~at'[n].claims /\ ~at[n].claims,
         at'[n].pc \in Answers =>
           at[n].pc \in Answers /\ at'[n].pend = at[n].pend /\ at'[n].part = at[n].part,
         at'[n].pc \in {"presenting", "answering"} => says[n] = "text"
  PROVE  ReplyInv' /\ Unclaimed
<1>1. \A m \in Message : Steady(m)
  BY DEF Steady, ReplyInv, Reply, Others
<1>2. Unclaimed
  BY DEF Unclaimed, ReplyInv, Reply, Others
<1> QED
  BY <1>1, <1>2, SteadyKeeps

\* A task that goes off the way.
LEMMA GoingIsSteady ==
  ASSUME NEW n \in Message, NEW pc, Tasks, ReplyInv, Goes(n, pc), UNCHANGED says,
         live' \in Pending \cup {None}, Objects(pend'),
         \A p \in Pending : pend'[p].index = pend[p].index /\ pend'[p].claimed = pend[p].claimed,
         pc \notin {"idle", "queued"}, pc \notin Answers
  PROVE  ReplyInv' /\ Unclaimed
  BY GoesMoves, MovingIsSteady DEF Answers

\* Most steps do not touch the objects at all.
LEMMA SameObjects ==
  ASSUME ReplyInv, UNCHANGED pend
  PROVE  /\ Objects(pend')
         /\ \A p \in Pending : pend'[p].index = pend[p].index /\ pend'[p].claimed = pend[p].claimed
  BY DEF ReplyInv

\* A message that is accepted as a reply claims its part only if nobody has.
LEMMA AcceptKeepsReply ==
  ASSUME NEW n \in Message, Tasks, ReplyInv, Accept(n)
  PROVE  ReplyInv' /\ Unclaimed
<1>1. at[n].pc = "idle" /\ ~at[n].claims /\ UNCHANGED <<says, live>>
  BY DEF Accept, ReplyInv, Reply
<1>2. live' \in Pending \cup {None}
  BY <1>1 DEF ReplyInv
<1>3. CASE UNCHANGED pend /\ \E pc \in {"local", "stopping"} : Records(n, pc)
  <2>1. Others(n) /\ at'[n].pc \in {"local", "stopping"}
    BY <1>3, RecordsMoves
  <2> QED
    BY <1>1, <1>2, <1>3, <2>1, SameObjects, MovingIsSteady DEF Answers
<1>4. CASE UNCHANGED pend /\ \E ms : Enqueue(n, ms)
  <2>1. Others(n) /\ at'[n].pc = "queued" /\ at'[n].claims = at[n].claims
    BY <1>4, EnqueueMoves
  <2> QED
    BY <1>1, <1>2, <1>4, <2>1, SameObjects, MovingIsSteady DEF Answers
<1>5. CASE BecomesReply(n)
  <2> DEFINE claims == CanClaimInteractionReply(says[n])
  <2>1. /\ live # None /\ pend[live].claimed = None
        /\ at' = [at EXCEPT ![n] = [Idle EXCEPT !.pc = "waiting", !.pend = live,
                                      !.part = pend[live].index, !.claims = claims]]
        /\ pend' = [pend EXCEPT ![live].queue = Append(@, n),
                                ![live].claimed = IF claims THEN n ELSE @]
    BY <1>5 DEF BecomesReply
  <2>2. live \in Pending
    BY <2>1 DEF ReplyInv
  <2>3. /\ at'[n].pc = "waiting" /\ at'[n].pend = live /\ at'[n].part = pend[live].index
        /\ Others(n)
    BY <2>1 DEF Idle, Tasks, Others
  <2>4. /\ Objects(pend')
        /\ \A p \in Pending : pend'[p].index = pend[p].index
        /\ \A p \in Pending \ {live} : pend'[p].claimed = pend[p].claimed
        /\ pend'[live].claimed = IF says[n] = "text" THEN n ELSE None
    BY <2>1, <2>2 DEF ReplyInv, Objects, CanClaimInteractionReply
  <2>5. ASSUME NEW m \in Message
        PROVE  Reply(m)'
    <3>1. CASE m = n
      BY <1>1, <2>2, <2>3, <2>4, <3>1 DEF Reply
    <3>2. CASE m # n
      <4>1. at'[m] = at[m] /\ Reply(m)
        BY <2>3, <3>2 DEF Others, ReplyInv
      <4>2. at[m].pc \in Answers /\ says[m] = "text" => at[m].pend # live
        BY <2>1, <4>1 DEF Reply, Message, None
      <4> QED
        BY <1>1, <2>2, <2>4, <4>1, <4>2 DEF Reply
    <3> QED
      BY <3>1, <3>2
  <2> QED
    BY <1>2, <2>3, <2>4, <2>5 DEF ReplyInv, Unclaimed, Others, Reply
<1> QED
  BY <1>3, <1>4, <1>5, AcceptIs

\* The part is answered: the reply that held the claim gives it up, and the next
\* part may be claimed.
LEMMA TakesAnswerKeepsReply ==
  ASSUME NEW n \in Message, Tasks, ReplyInv, TakesAnswer(n)
  PROVE  ReplyInv' /\ Unclaimed
<1>1. at[n].pc = "answering" /\ UNCHANGED <<says, live>>
  BY DEF TakesAnswer, chat
<1>2. at[n].pend \in Pending /\ pend[at[n].pend].claimed = n /\ live' \in Pending \cup {None}
  BY <1>1 DEF ReplyInv, Reply, Answers
<1> DEFINE p == at[n].pend
<1>3. CASE Goes(n, "notice") /\ UNCHANGED pend
  BY <1>1, <1>2, <1>3, SameObjects, GoingIsSteady DEF Answers
<1>4. CASE Goes(n, "submitting") /\ pend' = [pend EXCEPT ![p].submitting = TRUE]
  <2>1. /\ Objects(pend')
        /\ \A o \in Pending : pend'[o].index = pend[o].index /\ pend'[o].claimed = pend[o].claimed
    BY <1>4 DEF ReplyInv, Objects
  <2> QED
    BY <1>1, <1>2, <1>4, <2>1, GoingIsSteady DEF Answers
<1>5. CASE /\ Goes(n, "following")
           /\ pend' = [pend EXCEPT ![p].index = @ + 1, ![p].claimed = None,
                                   ![p].needs = TRUE, ![p].sending = TRUE]
  <2>1. Others(n) /\ at'[n].pc = "following"
    BY <1>5, GoesMoves
  <2>2. Objects(pend') /\ \A o \in Pending \ {p} : pend'[o] = pend[o]
    BY <1>5 DEF ReplyInv, Objects
  <2>3. ASSUME NEW m \in Message
        PROVE  Steady(m)
    <3>1. CASE m = n
      BY <2>1, <3>1 DEF Steady, Answers
    <3>2. CASE m # n
      <4>1. at'[m] = at[m] /\ Reply(m)
        BY <2>1, <3>2 DEF Others, ReplyInv
      <4>2. at[m].pc \in Answers /\ says[m] = "text" => at[m].pend \in Pending \ {p}
        BY <1>2, <3>2, <4>1 DEF Reply
      <4> QED
        BY <2>2, <4>1, <4>2 DEF Steady, Reply
    <3> QED
      BY <3>1, <3>2
  <2>4. Unclaimed
    BY <2>1 DEF Unclaimed, Others, ReplyInv, Reply
  <2> QED
    BY <1>1, <1>2, <2>2, <2>3, <2>4, SteadyKeeps
<1> QED
  BY <1>3, <1>4, <1>5, Zenon DEF TakesAnswer

\* The other steps of a task.
LEMMA TaskKeepsReply ==
  ASSUME NEW n \in Message, Tasks, ReplyInv, TaskStep(n) \/ TurnEnds(n) \/ Failure(n)
  PROVE  ReplyInv' /\ Unclaimed
<1>1. CASE Recorded(n)
  <2>1. at[n].pc \in Writing \ {"recording"} /\ UNCHANGED <<says, live, pend>>
    BY <1>1 DEF Recorded, IsNextWrite
  <2>2. Others(n) /\ at'[n].pc \in {"done", "stop", "prepare", "notice"}
    BY <1>1, <2>1, IdleIsTask DEF Recorded, Tasks, Task, Others, Then, Writing
  <2> QED
    BY <2>1, <2>2, SameObjects, MovingIsSteady DEF Answers, ReplyInv
<1>2. CASE ReplyRecorded(n)
  <2>1. at[n].pc = "recording" /\ UNCHANGED <<says, live>>
    BY <1>2 DEF ReplyRecorded
  <2>2. /\ Others(n) /\ at'[n].pend = at[n].pend /\ at'[n].part = at[n].part
        /\ at'[n].pc \in {"presenting", "answering", "notice"}
        /\ at'[n].pc # "notice" => says[n] = "text"
    BY <1>2 DEF ReplyRecorded, Tasks, Task, Others
  <2>3. /\ Objects(pend')
        /\ \A p \in Pending : pend'[p].index = pend[p].index /\ pend'[p].claimed = pend[p].claimed
    BY <1>2 DEF ReplyRecorded, Presenting, ReplyInv, Objects
  <2> QED
    BY <2>1, <2>2, <2>3, MovingIsSteady DEF Answers, ReplyInv
<1>3. CASE Begins(n)
  <2>1. Others(n) /\ at'[n].pc = "marking" /\ UNCHANGED <<says, live, pend>>
    BY <1>3, RecordsMoves DEF Begins
  <2> QED
    BY <2>1, SameObjects, MovingIsSteady DEF Answers, ReplyInv
<1>4. CASE Replies(n)
  <2>1. at[n].pc = "waiting" /\ UNCHANGED <<says, live, pend>>
    BY <1>4 DEF Replies
  <2>2. CASE \E pc \in {"discarding", "recording"} : Records(n, pc)
    <3>1. Others(n) /\ Same(n) /\ at'[n].pc \in {"discarding", "recording"}
      BY <2>2, RecordsMoves
    <3> QED
      BY <2>1, <3>1, SameObjects, MovingIsSteady DEF Answers, ReplyInv, Same
  <2>3. CASE ~at[n].claims /\ Enqueue(n, <<>>)
    <3>1. Others(n) /\ at'[n].pc = "queued" /\ at'[n].claims = at[n].claims
      BY <2>3, EnqueueMoves
    <3> QED
      BY <2>1, <2>3, <3>1, SameObjects, MovingIsSteady DEF Answers, ReplyInv
  <2> QED
    BY <1>4, <2>2, <2>3 DEF Replies
<1>5. CASE TakesAnswer(n)
  BY <1>5, TakesAnswerKeepsReply
<1>6. CASE Prompts(n) \/ RespondArrives(n) \/ RespondFails(n) \/ TurnEnds(n) \/ TurnFails(n)
  <2>1. /\ \E pc \in {"asking", "failed", "accepted", "refused", "deliver", "closing"} :
             Goes(n, pc)
        /\ UNCHANGED <<says, live, pend>>
    BY <1>6 DEF Prompts, RespondArrives, RespondFails, TurnEnds, Answered, Stopped,
                TurnFails, chat
  <2> QED
    BY <2>1, SameObjects, GoingIsSteady DEF Answers, ReplyInv
<1>7. CASE Delivered(n) \/ Closes(n)
  <2>1. /\ at' = [at EXCEPT ![n].pc = "cancelling", ![n].pend = live]
        /\ live' = None /\ UNCHANGED <<says, pend>>
    BY <1>7 DEF Delivered, Closes, TakesPending, chat
  <2>2. Others(n) /\ at'[n].pc = "cancelling"
    BY <2>1 DEF Tasks, Task, Others
  <2> QED
    BY <2>1, <2>2, SameObjects, MovingIsSteady DEF Answers
<1>8. CASE StopTurn(n)
  <2>1. live' \in Pending \cup {None} /\ UNCHANGED <<says, pend>>
    BY <1>8 DEF StopTurn, chat, ReplyInv
  <2>2. CASE at' = [at EXCEPT ![n] = Done]
    <3>1. Others(n) /\ at'[n].pc = "done"
      BY <2>2, IdleIsTask DEF Tasks, Others
    <3> QED
      BY <2>1, <3>1, SameObjects, MovingIsSteady DEF Answers
  <2>3. CASE at' = [at EXCEPT ![n].pc = "cancelling", ![n].pend = live,
                              ![Head(queue)].stopped = TRUE]
    <3>1. at'[n].pc = "cancelling"
      BY <2>3 DEF Tasks, Task
    <3>2. ASSUME NEW m \in Message \ {n}
          PROVE  at'[m].pc = at[m].pc /\ Same(m)
      BY <2>3 DEF Tasks, Task, Same
    <3>3. \A m \in Message : Steady(m)
      BY <2>1, <3>1, <3>2, SameObjects DEF Steady, Answers, Same, ReplyInv, Reply
    <3>4. Unclaimed
      BY <3>1, <3>2 DEF Unclaimed, ReplyInv, Reply
    <3> QED
      BY <2>1, <3>3, <3>4, SameObjects, SteadyKeeps
  <2> QED
    BY <1>8, <2>2, <2>3 DEF StopTurn
<1>9. CASE Cancelled(n) \/ NoticeSent(n) \/ RecordFails(n) \/ CancelFails(n)
  <2>1. Ends(n) /\ UNCHANGED <<says, live>>
    BY <1>9 DEF Cancelled, NoticeSent, RecordFails, CancelFails, chat
  <2> QED
    BY <2>1, EndingIsSteady DEF ReplyInv
<1>10. CASE Submitted(n)
  <2>1. live' \in Pending \cup {None} /\ UNCHANGED says
    BY <1>10 DEF Submitted, chat, ReplyInv
  <2>2. Ends(n) \/ (Goes(n, "notice") /\ UNCHANGED pend)
    BY <1>10 DEF Submitted
  <2> QED
    BY <2>1, <2>2, SameObjects, EndingIsSteady, GoingIsSteady DEF Answers
<1>11. CASE SubmitFailed(n)
  <2>1. UNCHANGED <<says, live>>
    BY <1>11 DEF SubmitFailed, chat
  <2>2. CASE Ends(n)
    BY <2>1, <2>2, EndingIsSteady DEF ReplyInv
  <2>3. CASE Goes(n, "notice") /\ pend' = [pend EXCEPT ![at[n].pend].submitting = FALSE]
    <3>1. /\ Objects(pend')
          /\ \A p \in Pending : pend'[p].index = pend[p].index /\ pend'[p].claimed = pend[p].claimed
      BY <2>3 DEF ReplyInv, Objects
    <3> QED
      BY <2>1, <2>3, <3>1, GoingIsSteady DEF Answers, ReplyInv
  <2> QED
    BY <1>11, <2>2, <2>3 DEF SubmitFailed
<1>12. CASE Disconnects(n)
  <2>1. UNCHANGED <<says, live, pend, at>>
    BY <1>12 DEF Disconnects, chat
  <2> QED
    BY <2>1 DEF ReplyInv, Reply, Unclaimed
<1> QED
  BY <1>1, <1>2, <1>3, <1>4, <1>5, <1>6, <1>7, <1>8, <1>9, <1>10, <1>11, <1>12
     DEF TaskStep, Failure

\* A question becomes the pending one in an object no task has.
LEMMA RequestedKeepsReply ==
  ASSUME NEW n \in Message, ReplyInv, Requested(n)
  PROVE  ReplyInv' /\ Unclaimed
<1>1. UNCHANGED <<at, says>>
  BY DEF Requested, chat
<1>2. Unclaimed
  BY <1>1 DEF Unclaimed, ReplyInv, Reply
<1>3. CASE live' = live /\ (UNCHANGED pend \/ pend' = Presenting(pend, live))
  <2>1. /\ Objects(pend')
        /\ \A p \in Pending : pend'[p].index = pend[p].index /\ pend'[p].claimed = pend[p].claimed
    BY <1>3 DEF ReplyInv, Objects, Presenting
  <2> QED
    BY <1>1, <1>2, <1>3, <2>1 DEF ReplyInv, Reply
<1>4. CASE \E p \in Pending : \E q :
             /\ Free(p) /\ live' = p
             /\ pend' = [pend EXCEPT ![p] = [Unused EXCEPT !.of = q, !.needs = TRUE,
                                                           !.sending = TRUE]]
  <2>1. PICK p \in Pending : \E q :
           /\ Free(p) /\ live' = p
           /\ pend' = [pend EXCEPT ![p] = [Unused EXCEPT !.of = q, !.needs = TRUE,
                                                         !.sending = TRUE]]
    BY <1>4
  <2>2. Objects(pend') /\ \A o \in Pending \ {p} : pend'[o] = pend[o]
    BY <2>1 DEF ReplyInv, Objects, Unused
  <2>3. \A m \in Message : at[m].pend # p
    BY <2>1 DEF Free
  <2> QED
    BY <1>1, <1>2, <2>1, <2>2, <2>3 DEF ReplyInv, Reply
<1> QED
  BY <1>3, <1>4 DEF Requested

\* Replies that wait for a presentation go on as they were, or are done.
LEMMA PresentedKeepsReply ==
  ASSUME NEW p \in Pending, Tasks, ReplyInv, Shown(p) \/ ShowFails(p)
  PROVE  ReplyInv' /\ Unclaimed
<1>1. UNCHANGED <<says, live>>
  BY DEF Shown, ShowFails, chat
<1>2. PICK ms, shown : /\ Presented(p, ms, shown)
                       /\ \A m \in Awaiting(p) : at[m].pc = "following" => m \in ms
  BY DEF Shown, ShowFails
<1> DEFINE told == [pend EXCEPT ![p].sending = FALSE, ![p].needs = ~shown]
<1>3. Objects(told) /\ \A o \in Pending : told[o].index = pend[o].index /\ told[o].claimed = pend[o].claimed
  BY DEF ReplyInv, Objects
<1>4. pend' = Released(told, ms)
  BY <1>2 DEF Presented
<1> HIDE DEF told
<1>5. /\ Objects(pend')
      /\ \A o \in Pending : /\ pend'[o].index = pend[o].index
                            /\ pend[o].claimed \notin ms => pend'[o].claimed = pend[o].claimed
  BY <1>3, <1>4, ReleasedIs
<1>6. ASSUME NEW m \in Message
      PROVE  Steady(m) /\ (at'[m].pc = "queued" => ~at[m].claims)
  <2>1. CASE m \in ms
    BY <1>2, <2>1, IdleIsTask DEF Presented, Steady, Answers
  <2>2. CASE m \notin ms /\ m \in Awaiting(p)
    <3>1. at[m].pc = "presenting" /\ at'[m].pc \in {"answering", "notice"}
      BY <1>2, <2>2 DEF Awaiting, Presented, Tasks, Task
    <3>2. at'[m].pend = at[m].pend /\ at'[m].part = at[m].part
      BY <1>2, <2>2 DEF Presented, Tasks, Task
    <3> QED
      BY <1>5, <2>2, <3>1, <3>2 DEF Steady, Answers, ReplyInv, Reply
  <2>3. CASE m \notin ms /\ m \notin Awaiting(p)
    BY <1>2, <1>5, <2>3 DEF Presented, Steady, ReplyInv, Reply, Answers
  <2> QED
    BY <2>1, <2>2, <2>3
<1> QED
  BY <1>1, <1>5, <1>6, SteadyKeeps DEF Unclaimed, ReplyInv

\* ReplyInv is inductive.
LEMMA NextKeepsReply ==
  ASSUME Tasks, ReplyInv, [Next]_vars
  PROVE  ReplyInv' /\ Unclaimed
<1>1. ASSUME NEW m \in Message, Accept(m)
      PROVE  ReplyInv' /\ Unclaimed
  BY <1>1, AcceptKeepsReply
<1>2. ASSUME NEW m \in Message, TaskStep(m) \/ TurnEnds(m) \/ Failure(m)
      PROVE  ReplyInv' /\ Unclaimed
  BY <1>2, TaskKeepsReply
<1>3. ASSUME NEW m \in Message, SocketStep(m)
      PROVE  ReplyInv' /\ Unclaimed
  <2>1. CASE Requested(m)
    BY <2>1, RequestedKeepsReply
  <2>2. CASE Resolved(m) \/ Reconnects(m)
    <3>1. UNCHANGED <<says, at, pend>> /\ live' \in {live, None}
      BY <2>2 DEF Resolved, Reconnects, chat
    <3> QED
      BY <3>1 DEF ReplyInv, Reply, Unclaimed
  <2> QED
    BY <1>3, <2>1, <2>2 DEF SocketStep
<1>4. ASSUME NEW p \in Pending, Shown(p) \/ ShowFails(p)
      PROVE  ReplyInv' /\ Unclaimed
  BY <1>4, PresentedKeepsReply
<1>5. CASE \/ \E q \in Question : HarnessAsks(q) \/ AnsweredElsewhere(q)
           \/ UNCHANGED vars
  <2>1. UNCHANGED <<says, at, pend, live>>
    BY <1>5 DEF HarnessAsks, AnsweredElsewhere, vars, chat
  <2> QED
    BY <2>1 DEF ReplyInv, Reply, Unclaimed
<1>6. CASE Restart
  <2>1. \A m \in Message : at'[m] = Idle
    BY <1>6 DEF Restart
  <2>2. Objects(pend') /\ live' = None
    BY <1>6 DEF Restart, Objects, Unused
  <2> QED
    BY <2>1, <2>2, IdleIsTask DEF ReplyInv, Reply, Unclaimed, Answers
<1> QED
  BY <1>1, <1>2, <1>3, <1>4, <1>5, <1>6 DEF Next

\* An answer is taken where its question still is what it was when it was written.
LEMMA AnswersFit ==
  ASSUME Inv, ReplyInv, [Next]_vars, NEW m \in Message, at[m].pc = "answering",
         uses'[m] # uses[m]
  PROVE  live = at[m].pend /\ at[m].part = pend[live].index
<1>1. PICK n \in Message : Prompts(n) \/ TakesAnswer(n)
  <2>1. ASSUME NEW n \in Message, TaskStep(n), ~(Prompts(n) \/ TakesAnswer(n))
        PROVE  UNCHANGED uses
    BY <2>1 DEF TaskStep, Recorded, Begins, Delivered, Closes, Cancelled, StopTurn, Replies,
                ReplyRecorded, RespondArrives, Submitted, SubmitFailed, NoticeSent, history
  <2>2. ASSUME NEW n \in Message, Accept(n) \/ SocketStep(n) \/ TurnEnds(n) \/ Failure(n)
        PROVE  UNCHANGED uses
    BY <2>2 DEF Accept, SocketStep, Requested, Resolved, Reconnects, TurnEnds, Answered,
                Stopped, Failure, RecordFails, TurnFails, CancelFails, RespondFails,
                Disconnects, history
  <2>3. ASSUME NEW p \in Pending, Shown(p) \/ ShowFails(p)
        PROVE  UNCHANGED uses
    BY <2>3 DEF Shown, ShowFails, history
  <2>4. ASSUME NEW q \in Question, HarnessAsks(q) \/ AnsweredElsewhere(q)
        PROVE  UNCHANGED uses
    BY <2>4 DEF HarnessAsks, AnsweredElsewhere, history
  <2>5. CASE Restart \/ UNCHANGED vars
    BY <2>5 DEF Restart, vars, history
  <2> QED
    BY <2>1, <2>2, <2>3, <2>4, <2>5 DEF Next
<1>2. uses' = [uses EXCEPT ![n] = @ + 1] \/ UNCHANGED uses
  BY <1>1 DEF Prompts, TakesAnswer
<1>3. n = m
  BY <1>2 DEF Inv, UsesAreCounted
<1>4. TakesAnswer(m)
  BY <1>1, <1>3 DEF Prompts
<1>5. live = at[m].pend
  BY <1>4 DEF TakesAnswer
<1>6. says[m] = "text"
  BY DEF ReplyInv, Reply
<1> QED
  BY <1>5, <1>6 DEF ReplyInv, Reply, Answers

\* Nothing has been accepted.
LEMMA BeginReply ==
  ASSUME Init
  PROVE  ReplyInv
<1>1. \A m \in Message : at[m] = Idle
  BY DEF Init
<1>2. Objects(pend) /\ live = None
  BY DEF Init, Objects, Unused
<1> QED
  BY <1>1, <1>2, IdleIsTask DEF ReplyInv, Reply, Answers

\* ReplyInv holds of every reachable state.
LEMMA ReplyInvariance == Spec => []ReplyInv
<1>1. Init => ReplyInv
  BY BeginReply
<1>2. Inv /\ ReplyInv /\ [Next]_vars => ReplyInv'
  BY NextKeepsReply DEF Inv
<1> QED
  BY <1>1, <1>2, Invariance, PTL DEF Spec

\* What the harness gets as the answer to a part was written while the chat was at
\* that part, and what took the place of an answer never becomes a prompt, for any
\* number of questions, parts, messages and failures.
THEOREM RepliesFitHolds == Spec => RepliesFitTheirQuestion
<1>1. Inv /\ ReplyInv /\ [Next]_vars =>
        [\A m \in Message :
           /\ at[m].pc = "answering" /\ uses'[m] # uses[m]
                => live = at[m].pend /\ at[m].part = pend[live].index
           /\ at'[m].pc = "queued" => ~at[m].claims]_vars
  BY AnswersFit, NextKeepsReply DEF Inv, Unclaimed
<1> QED
  BY <1>1, Invariance, ReplyInvariance, PTL DEF Spec, RepliesFitTheirQuestion

-----------------------------------------------------------------------------
(***************************************************************************)
(* The shape of the chat: TypeOK.                                           *)
(*                                                                          *)
(* Every chain of promises has at most one task under way, its first: the   *)
(* prompts in queue, and the replies to each question in its queue, where a *)
(* reply that was put back as a prompt keeps its place.  A task ends only   *)
(* when it is the first of every chain it is in, so none is left behind.    *)
(***************************************************************************)

\* Where a prompt, and where a reply, is past its chain, and where a task is in
\* no chain of replies.
Prompting == {"marking", "prepare", "asking", "deliver", "closing"}
Replying  == {"recording", "presenting", "following", "answering",
              "submitting", "accepted", "refused", "failed"}
Outside   == {"idle", "local", "stopping", "stop", "done"}

TaskType == [pc : PC, pend : Pending \cup {None}, part : Part \cup {None},
             claims : BOOLEAN, snap : SUBSET Message, shows : BOOLEAN,
             stopped : BOOLEAN, batch : Seq(Message)]

\* The chain, claim and part of every question.
Lines(pd) ==
  /\ DOMAIN pd = Pending
  /\ \A p \in Pending :
       /\ {"queue", "claimed", "index", "sending", "needs"} \subseteq DOMAIN pd[p]
       /\ pd[p].queue \in Seq(Message)
       /\ pd[p].claimed \in Message \cup {None}
       /\ pd[p].index \in Part

Shapes ==
  /\ at \in [Message -> TaskType] /\ queue \in Seq(Message)
  /\ Lines(pend) /\ sent \in 0..Messages /\ says \in Chats
  /\ seen \subseteq Message /\ Len(batch.messages) <= Limit

\* A prompt that waits is in the queue, and one that is past it is the first.
Prompted(m) ==
  /\ at[m].pc = "queued" => \E i \in 1..Len(queue) : queue[i] = m
  /\ at[m].pc \in Prompting => queue # <<>> /\ Head(queue) = m

\* A reply that waits, or is past its chain, is in the one of its question.
Listed(m) == at[m].pc \in {"waiting"} \cup Replying =>
  /\ at[m].pend \in Pending
  /\ \E i \in 1..Len(pend[at[m].pend].queue) : pend[at[m].pend].queue[i] = m

\* Nobody is in a chain twice, or without being under way; behind the first one
\* they wait, for this question.
Line(p) ==
  /\ \A i \in 1..Len(pend[p].queue) :
       LET n == pend[p].queue[i] IN
       /\ at[n].pc \notin Outside
       /\ i # 1 => at[n].pc = "waiting"
       /\ at[n].pc = "waiting" => at[n].pend = p
       /\ \A j \in 1..Len(pend[p].queue) : pend[p].queue[j] = n => j = i
  /\ pend[p].claimed # None =>
       \E i \in 1..Len(pend[p].queue) : pend[p].queue[i] = pend[p].claimed

Chains == /\ \A m \in Message : Prompted(m) /\ Listed(m)
          /\ \A p \in Pending : Line(p)

-----------------------------------------------------------------------------
\* What is left of a chain: all of it, or all but the first.
LEMMA LeftIs ==
  ASSUME NEW q \in Seq(Message), NEW ms
  PROVE  /\ Left(q, ms) \in Seq(Message)
         /\ q # <<>> /\ Head(q) \in ms =>
              /\ Len(q) > 0 /\ q[1] \in ms
              /\ Len(Left(q, ms)) = Len(q) - 1
              /\ \A i \in 1..(Len(q) - 1) : Left(q, ms)[i] = q[i + 1]
         /\ ~(q # <<>> /\ Head(q) \in ms) =>
              /\ Left(q, ms) = q
              /\ Len(q) > 0 => q[1] \notin ms
  BY DEF Left

\* A task that ends or is forgotten.
LEMMA IdleTyped == Idle \in TaskType /\ Done \in TaskType
<1>1. Idle \in TaskType
  BY DEF Idle, TaskType, PC
<1>2. "done" \in PC
  BY DEF PC
<1> QED
  BY <1>1, <1>2 DEF Done, TaskType

\* Goes moves a task.
LEMMA GoesTyped ==
  ASSUME NEW m \in Message, NEW pc \in PC, Shapes, Goes(m, pc)
  PROVE  /\ at' \in [Message -> TaskType] /\ at'[m].pc = pc /\ at'[m].pend = at[m].pend
         /\ \A n \in Message \ {m} : at'[n] = at[n]
<1>1. at[m] \in TaskType
  BY DEF Shapes
<1>2. /\ [at[m] EXCEPT !.pc = pc] \in TaskType
      /\ [at[m] EXCEPT !.pc = pc].pc = pc /\ [at[m] EXCEPT !.pc = pc].pend = at[m].pend
  BY <1>1 DEF TaskType
<1>3. at' = [at EXCEPT ![m] = [at[m] EXCEPT !.pc = pc]]
  BY DEF Goes
<1> QED
  BY <1>2, <1>3 DEF Shapes

\* Records begins a write.
LEMMA RecordsTyped ==
  ASSUME NEW m \in Message, NEW pc \in PC, Shapes, Records(m, pc)
  PROVE  /\ at' \in [Message -> TaskType] /\ at'[m].pc = pc /\ at'[m].pend = at[m].pend
         /\ \A n \in Message \ {m} : at'[n] = at[n]
         /\ seen' \subseteq Message
<1> DEFINE a == [at[m] EXCEPT !.pc = pc, !.snap = seen']
<1>1. seen' \subseteq Message
  BY DEF Records, Shapes
<1>2. at[m] \in TaskType
  BY DEF Shapes
<1>3. a \in TaskType /\ a.pc = pc /\ a.pend = at[m].pend
  BY <1>1, <1>2 DEF TaskType
<1>4. at' = [at EXCEPT ![m] = a]
  BY DEF Records, Shapes
<1> HIDE DEF a
<1> QED
  BY <1>1, <1>3, <1>4 DEF Shapes

\* Enqueue adds the next prompt.
LEMMA EnqueueTyped ==
  ASSUME NEW m \in Message, NEW ms \in Seq(Message), Shapes, Enqueue(m, ms)
  PROVE  /\ at' \in [Message -> TaskType] /\ at'[m].pc = "queued" /\ at'[m].pend = at[m].pend
         /\ \A n \in Message \ {m} : at'[n] = at[n]
         /\ queue' = Append(queue, m)
<1> DEFINE a == [at[m] EXCEPT !.pc = "queued", !.batch = ms]
<1>1. at[m] \in TaskType /\ "queued" \in PC
  BY DEF Shapes, PC
<1>2. a \in TaskType /\ a.pc = "queued" /\ a.pend = at[m].pend
  BY <1>1 DEF TaskType
<1>3. at' = [at EXCEPT ![m] = a] /\ queue' = Append(queue, m)
  BY DEF Enqueue, Shapes
<1> HIDE DEF a
<1> QED
  BY <1>2, <1>3 DEF Shapes

\* Released takes the first task of a chain out of it, if it is one of ms.
LEMMA ReleasedLines ==
  ASSUME NEW pd, NEW ms, Lines(pd)
  PROVE  /\ Lines(Released(pd, ms))
         /\ \A p \in Pending :
              /\ Released(pd, ms)[p].queue = Left(pd[p].queue, ms)
              /\ Released(pd, ms)[p].claimed =
                   IF pd[p].claimed \in ms THEN None ELSE pd[p].claimed
<1>1. ASSUME NEW p \in Pending
      PROVE  /\ {"queue", "claimed", "index", "sending", "needs"} \subseteq
                  DOMAIN Released(pd, ms)[p]
             /\ Released(pd, ms)[p].queue = Left(pd[p].queue, ms)
             /\ Released(pd, ms)[p].claimed =
                  IF pd[p].claimed \in ms THEN None ELSE pd[p].claimed
             /\ Released(pd, ms)[p].index = pd[p].index
  BY DEF Released, Lines
<1>2. \A p \in Pending : Left(pd[p].queue, ms) \in Seq(Message)
  BY LeftIs DEF Lines
<1>3. DOMAIN Released(pd, ms) = Pending
  BY DEF Released
<1> QED
  BY <1>1, <1>2, <1>3 DEF Lines

-----------------------------------------------------------------------------
(* Kinds of steps that keep the chains.                                     *)

\* The chains of replies stay; a claim may be given up.
SameLines == \A p \in Pending :
  pend'[p].queue = pend[p].queue /\ pend'[p].claimed \in {pend[p].claimed, None}

OthersStay(m) == \A n \in Message \ {m} :
  at'[n].pc = at[n].pc /\ at'[n].pend = at[n].pend

\* Where m may go without leaving or joining a chain.
Forward(m) ==
  /\ at'[m].pc \notin {"queued", "waiting"}
  /\ at'[m].pc \in Prompting => queue # <<>> /\ Head(queue) = m
  /\ at'[m].pc \in Replying =>
       at[m].pc \in {"waiting"} \cup Replying /\ at'[m].pend = at[m].pend
  /\ at'[m].pc \in Outside => at[m].pc \in Outside
  /\ at[m].pc = "waiting" => IsTurn(m)

\* No task moves.
LEMMA StillChains ==
  ASSUME Shapes, Chains, at' = at, queue' = queue, SameLines
  PROVE  Chains'
  BY DEF Chains, Prompted, Listed, Line, SameLines

\* The reply whose turn it is, is the first of its chain and in no other.
LEMMA TurnIsFirst ==
  ASSUME Shapes, Chains, NEW m \in Message, at[m].pc = "waiting", IsTurn(m),
         NEW p \in Pending, NEW i \in 1..Len(pend[p].queue), pend[p].queue[i] = m
  PROVE  i = 1
<1>1. at[m].pend = p
  BY DEF Chains, Line
<1>2. pend[p].queue[1] = m
  BY <1>1 DEF IsTurn, Shapes, Lines
<1>3. 1 \in 1..Len(pend[p].queue)
  BY DEF Shapes, Lines
<1>4. Line(p)
  BY DEF Chains
<1> QED
  BY <1>2, <1>3, <1>4 DEF Line

\* One task moves forward.
LEMMA ForwardChains ==
  ASSUME Shapes, Chains, NEW m \in Message, OthersStay(m), queue' = queue, SameLines,
         Forward(m)
  PROVE  Chains'
<1>1. ASSUME NEW n \in Message
      PROVE  Prompted(n)' /\ Listed(n)'
  <2>1. Prompted(n) /\ Listed(n)
    BY DEF Chains
  <2> QED
    BY <2>1 DEF Prompted, Listed, OthersStay, Forward, SameLines
<1>2. ASSUME NEW p \in Pending
      PROVE  Line(p)'
  <2>1. Line(p) /\ pend'[p].queue = pend[p].queue
    BY DEF Chains, SameLines
  <2>2. ASSUME NEW i \in 1..Len(pend[p].queue)
        PROVE  LET n == pend[p].queue[i] IN
               /\ at'[n].pc \notin Outside
               /\ i # 1 => at'[n].pc = "waiting"
               /\ at'[n].pc = "waiting" => at'[n].pend = p
    <3> DEFINE n == pend[p].queue[i]
    <3>1. n \in Message
      BY DEF Shapes, Lines
    <3>2. CASE n = m
      <4>1. at[m].pc = "waiting" => i = 1
        BY <3>2, TurnIsFirst DEF Forward
      <4> QED
        BY <2>1, <3>2, <4>1 DEF Line, Forward
    <3>3. CASE n # m
      BY <2>1, <3>1, <3>3 DEF Line, OthersStay
    <3> QED
      BY <3>2, <3>3
  <2>3. pend'[p].claimed # None => pend'[p].claimed = pend[p].claimed
    BY DEF SameLines
  <2> QED
    BY <2>1, <2>2, <2>3 DEF Line
<1> QED
  BY <1>1, <1>2 DEF Chains

\* A prompt joins the queue; a reply that does so keeps its place.
LEMMA EnqueueChains ==
  ASSUME Shapes, Chains, NEW m \in Message, OthersStay(m), SameLines,
         queue' = Append(queue, m), at'[m].pc = "queued",
         at[m].pc = "idle" \/ (at[m].pc = "waiting" /\ IsTurn(m))
  PROVE  Chains'
<1>0. queue \in Seq(Message)
  BY DEF Shapes
<1>1. /\ Len(queue') = Len(queue) + 1 /\ queue'[Len(queue) + 1] = m
      /\ \A i \in 1..Len(queue) : queue'[i] = queue[i]
      /\ queue' # <<>> /\ (queue # <<>> => Head(queue') = Head(queue))
  BY <1>0
<1>2. ASSUME NEW n \in Message
      PROVE  Prompted(n)' /\ Listed(n)'
  <2>1. Prompted(n) /\ Listed(n)
    BY DEF Chains
  <2>2. CASE n = m
    BY <1>0, <1>1, <2>2 DEF Prompted, Listed, Prompting, Replying
  <2>3. CASE n # m
    <3>1. at'[n].pc = at[n].pc /\ at'[n].pend = at[n].pend
      BY <2>3 DEF OthersStay
    <3>2. Prompted(n)'
      BY <1>0, <1>1, <2>1, <3>1 DEF Prompted
    <3> QED
      BY <2>1, <3>1, <3>2 DEF Listed, SameLines
  <2> QED
    BY <2>2, <2>3
<1>3. ASSUME NEW p \in Pending
      PROVE  Line(p)'
  <2>1. Line(p) /\ pend'[p].queue = pend[p].queue
    BY DEF Chains, SameLines
  <2>2. ASSUME NEW i \in 1..Len(pend[p].queue)
        PROVE  LET n == pend[p].queue[i] IN
               /\ at'[n].pc \notin Outside
               /\ i # 1 => at'[n].pc = "waiting"
               /\ at'[n].pc = "waiting" => at'[n].pend = p
    <3> DEFINE n == pend[p].queue[i]
    <3>1. n \in Message
      BY DEF Shapes, Lines
    <3>2. CASE n = m
      <4>1. at[m].pc = "waiting" /\ IsTurn(m)
        BY <2>1, <3>2 DEF Line, Outside
      <4>2. i = 1
        BY <3>2, <4>1, TurnIsFirst
      <4> QED
        BY <3>2, <4>2 DEF Outside
    <3>3. CASE n # m
      BY <2>1, <3>1, <3>3 DEF Line, OthersStay
    <3> QED
      BY <3>2, <3>3
  <2>3. pend'[p].claimed # None => pend'[p].claimed = pend[p].claimed
    BY DEF SameLines
  <2> QED
    BY <2>1, <2>2, <2>3 DEF Line
<1> QED
  BY <1>2, <1>3 DEF Chains

\* A message becomes the last reply to the pending question.
LEMMA BecomesReplyChains ==
  ASSUME Shapes, Chains, NEW m \in Message, BecomesReply(m), at[m].pc = "idle",
         live \in Pending \cup {None}, queue' = queue
  PROVE  Chains' /\ at' \in [Message -> TaskType] /\ Lines(pend')
<1> DEFINE claims == CanClaimInteractionReply(says[m])
           a == [Idle EXCEPT !.pc = "waiting", !.pend = live,
                             !.part = pend[live].index, !.claims = claims]
<1>1. live \in Pending /\ pend[live].index \in Part /\ claims \in BOOLEAN
      /\ pend[live].queue \in Seq(Message) /\ pend[live].claimed = None
  BY DEF BecomesReply, Shapes, Lines, CanClaimInteractionReply
<1>2. a \in TaskType /\ a.pc = "waiting" /\ a.pend = live
  <2>1. Idle \in TaskType /\ "waiting" \in PC
    BY IdleTyped DEF PC
  <2> QED
    BY <1>1, <2>1 DEF TaskType
<1>3. /\ at' = [at EXCEPT ![m] = a]
      /\ pend' = [pend EXCEPT ![live].queue = Append(@, m),
                              ![live].claimed = IF claims THEN m ELSE @]
  BY DEF BecomesReply
<1> HIDE DEF claims, a
<1>4. /\ at' \in [Message -> TaskType] /\ at'[m].pc = "waiting" /\ at'[m].pend = live
      /\ OthersStay(m)
  BY <1>2, <1>3 DEF Shapes, OthersStay
<1>5. /\ Lines(pend')
      /\ \A p \in Pending \ {live} : pend'[p] = pend[p]
      /\ pend'[live].queue = Append(pend[live].queue, m)
      /\ pend'[live].claimed \in {m, None}
  BY <1>1, <1>3 DEF Shapes, Lines
<1>6. /\ Len(pend'[live].queue) = Len(pend[live].queue) + 1
      /\ pend'[live].queue[Len(pend[live].queue) + 1] = m
      /\ \A i \in 1..Len(pend[live].queue) : pend'[live].queue[i] = pend[live].queue[i]
      /\ Len(pend[live].queue) \in Nat
  BY <1>1, <1>5
<1>7. ASSUME NEW p \in Pending, NEW i \in 1..Len(pend[p].queue)
      PROVE  /\ pend[p].queue[i] # m /\ pend[p].queue[i] \in Message
             /\ at'[pend[p].queue[i]].pc = at[pend[p].queue[i]].pc
             /\ at'[pend[p].queue[i]].pend = at[pend[p].queue[i]].pend
  <2>1. pend[p].queue[i] \in Message
    BY DEF Shapes, Lines
  <2>2. at[pend[p].queue[i]].pc \notin Outside
    BY DEF Chains, Line
  <2> QED
    BY <1>4, <2>1, <2>2 DEF OthersStay, Outside
<1>8. ASSUME NEW n \in Message
      PROVE  Prompted(n)' /\ Listed(n)'
  <2>1. Prompted(n) /\ Listed(n)
    BY DEF Chains
  <2>2. CASE n = m
    <3>1. at'[m].pend \in Pending /\ pend'[live].queue[Len(pend'[live].queue)] = m
          /\ Len(pend'[live].queue) \in 1..Len(pend'[live].queue)
      BY <1>1, <1>4, <1>6
    <3>2. Listed(m)'
      BY <1>4, <3>1 DEF Listed
    <3>3. Prompted(m)'
      BY <1>4 DEF Prompted, Prompting
    <3> QED
      BY <2>2, <3>2, <3>3
  <2>3. CASE n # m
    <3>1. at'[n].pc = at[n].pc /\ at'[n].pend = at[n].pend
      BY <1>4, <2>3 DEF OthersStay
    <3>2. CASE at[n].pend = live
      <4>1. Prompted(n)'
        BY <2>1, <3>1 DEF Prompted
      <4>2. ASSUME NEW i \in 1..Len(pend[live].queue), pend[live].queue[i] = n
            PROVE  \E j \in 1..Len(pend'[live].queue) : pend'[live].queue[j] = n
        <5>1. i \in 1..Len(pend'[live].queue) /\ pend'[live].queue[i] = n
          BY <1>6, <4>2
        <5> QED
          BY <5>1
      <4>3. Listed(n)'
        BY <2>1, <3>1, <3>2, <4>2 DEF Listed
      <4> QED
        BY <4>1, <4>3
    <3>3. CASE at[n].pend # live
      BY <1>5, <2>1, <3>1, <3>3 DEF Prompted, Listed
    <3> QED
      BY <3>2, <3>3
  <2> QED
    BY <2>2, <2>3
<1>9. ASSUME NEW p \in Pending
      PROVE  Line(p)'
  <2>1. Line(p)
    BY DEF Chains
  <2>2. CASE p # live
    <3>1. pend'[p] = pend[p]
      BY <1>5, <2>2
    <3> QED
      BY <1>7, <2>1, <3>1 DEF Line
  <2>3. CASE p = live
    <3> DEFINE k == Len(pend[live].queue)
    <3>0. k \in Nat
      BY <1>6
    <3>1. Len(pend'[p].queue) = k + 1 /\ pend'[p].queue[k + 1] = m
          /\ \A i \in 1..k : pend'[p].queue[i] = pend[p].queue[i]
      BY <1>6, <2>3
    <3>2. \A i \in 1..k : LET n == pend[p].queue[i] IN
            /\ n # m /\ at'[n].pc = at[n].pc /\ at'[n].pend = at[n].pend
      BY <1>7, <2>3
    <3>3. \A i \in 1..k : LET n == pend[p].queue[i] IN
            /\ at[n].pc \notin Outside
            /\ i # 1 => at[n].pc = "waiting"
            /\ at[n].pc = "waiting" => at[n].pend = p
            /\ \A j \in 1..k : pend[p].queue[j] = n => j = i
      BY <2>1, <2>3 DEF Line
    <3> HIDE DEF k
    <3>4. \A i \in 1..(k + 1) : i = k + 1 \/ i \in 1..k
      BY <3>0
    <3>5. \A i \in 1..(k + 1) : LET n == pend'[p].queue[i] IN
            /\ at'[n].pc \notin Outside
            /\ i # 1 => at'[n].pc = "waiting"
            /\ at'[n].pc = "waiting" => at'[n].pend = p
      <4>1. ASSUME NEW i \in 1..k
            PROVE  LET n == pend'[p].queue[i] IN
                   /\ at'[n].pc \notin Outside
                   /\ i # 1 => at'[n].pc = "waiting"
                   /\ at'[n].pc = "waiting" => at'[n].pend = p
        <5>1. pend'[p].queue[i] = pend[p].queue[i]
          BY <3>1
        <5> QED
          BY <3>2, <3>3, <5>1
      <4>2. /\ at'[pend'[p].queue[k + 1]].pc = "waiting"
            /\ at'[pend'[p].queue[k + 1]].pend = p
        BY <1>4, <2>3, <3>1
      <4> QED
        BY <3>4, <4>1, <4>2 DEF Outside
    <3>6. \A i, j \in 1..(k + 1) : pend'[p].queue[j] = pend'[p].queue[i] => j = i
      BY <3>1, <3>2, <3>3, <3>4
    <3>7. pend'[p].claimed # None =>
            \E i \in 1..(k + 1) : pend'[p].queue[i] = pend'[p].claimed
      <4>1. pend'[p].claimed \in {m, None} /\ k + 1 \in 1..(k + 1)
        BY <1>5, <2>3, <3>0
      <4>2. pend'[p].queue[k + 1] = m
        BY <3>1
      <4> QED
        BY <4>1, <4>2
    <3> QED
      BY <3>1, <3>5, <3>6, <3>7 DEF Line
  <2> QED
    BY <2>2, <2>3
<1> QED
  BY <1>4, <1>5, <1>8, <1>9 DEF Chains

\* Tasks that are past their chain end: they are the first of every chain of
\* replies they are in, and leave it.  Of the others some go on.
LEMMA ReleasedChains ==
  ASSUME Shapes, Chains, NEW ms \in SUBSET Message, NEW pd, Lines(pd),
         \A p \in Pending : pd[p].queue = pend[p].queue /\ pd[p].claimed = pend[p].claimed,
         pend' = Released(pd, ms),
         \A m \in ms : at[m].pc # "waiting" /\ at'[m].pc = "done",
         \A n \in Message \ ms :
           /\ at'[n].pend = at[n].pend
           /\ \/ at'[n].pc = at[n].pc
              \/ at[n].pc \in Replying /\ at'[n].pc \in {"answering", "notice"}
  PROVE  /\ Lines(pend')
         /\ \A m \in Message : Listed(m)'
         /\ \A p \in Pending : Line(p)'
<1>1. /\ Lines(pend')
      /\ \A p \in Pending :
           /\ pend'[p].queue = Left(pend[p].queue, ms)
           /\ pend'[p].claimed = IF pend[p].claimed \in ms THEN None ELSE pend[p].claimed
  BY ReleasedLines DEF Lines
<1>2. ASSUME NEW p \in Pending, NEW i \in 1..Len(pend[p].queue), pend[p].queue[i] \in ms
      PROVE  i = 1
  BY <1>2 DEF Chains, Line
<1>3. \A p \in Pending : pend[p].queue \in Seq(Message)
  BY DEF Shapes, Lines
\* The chain without its first, or as it was.
<1>4. ASSUME NEW p \in Pending
      PROVE  \/ /\ Len(pend[p].queue) > 0 /\ pend[p].queue[1] \in ms
                /\ Len(pend'[p].queue) = Len(pend[p].queue) - 1
                /\ \A i \in 1..(Len(pend[p].queue) - 1) :
                     pend'[p].queue[i] = pend[p].queue[i + 1]
             \/ /\ pend'[p].queue = pend[p].queue
                /\ \A i \in 1..Len(pend[p].queue) : pend[p].queue[i] \notin ms
  <2>1. CASE pend[p].queue # <<>> /\ Head(pend[p].queue) \in ms
    <3>1. pend[p].queue \in Seq(Message) /\ pend'[p].queue = Left(pend[p].queue, ms)
      BY <1>1, <1>3
    <3>2. /\ Len(pend[p].queue) > 0 /\ pend[p].queue[1] \in ms
          /\ Len(Left(pend[p].queue, ms)) = Len(pend[p].queue) - 1
          /\ \A i \in 1..(Len(pend[p].queue) - 1) :
               Left(pend[p].queue, ms)[i] = pend[p].queue[i + 1]
      BY <2>1, <3>1, LeftIs
    <3> QED
      BY <3>1, <3>2
  <2>2. CASE ~(pend[p].queue # <<>> /\ Head(pend[p].queue) \in ms)
    <3>1. pend'[p].queue = pend[p].queue
          /\ (Len(pend[p].queue) > 0 => pend[p].queue[1] \notin ms)
      BY <1>1, <1>3, <2>2, LeftIs
    <3>2. Len(pend[p].queue) \in Nat
      BY <1>3
    <3>3. ASSUME NEW i \in 1..Len(pend[p].queue), pend[p].queue[i] \in ms
          PROVE  FALSE
      <4>1. i = 1 /\ Len(pend[p].queue) > 0
        BY <1>2, <3>2, <3>3
      <4> QED
        BY <3>1, <3>3, <4>1
    <3> QED
      BY <3>1, <3>3
  <2> QED
    BY <2>1, <2>2
<1>5. ASSUME NEW m \in Message
      PROVE  Listed(m)'
  <2>1. Listed(m)
    BY DEF Chains
  <2> SUFFICES ASSUME at'[m].pc \in {"waiting"} \cup Replying
               PROVE  /\ at'[m].pend \in Pending
                      /\ \E i \in 1..Len(pend'[at'[m].pend].queue) :
                           pend'[at'[m].pend].queue[i] = m
    BY DEF Listed
  <2>2. /\ m \notin ms /\ at'[m].pend = at[m].pend
        /\ at[m].pc \in {"waiting"} \cup Replying
    BY DEF Replying
  <2> DEFINE p == at[m].pend
  <2>3. p \in Pending
    BY <2>1, <2>2 DEF Listed
  <2>4. PICK i \in 1..Len(pend[p].queue) : pend[p].queue[i] = m
    BY <2>1, <2>2 DEF Listed
  <2>5. Len(pend[p].queue) \in Nat
    BY <1>3, <2>3
  <2>6. CASE /\ Len(pend[p].queue) > 0 /\ pend[p].queue[1] \in ms
             /\ Len(pend'[p].queue) = Len(pend[p].queue) - 1
             /\ \A j \in 1..(Len(pend[p].queue) - 1) :
                  pend'[p].queue[j] = pend[p].queue[j + 1]
    <3>1. i # 1
      BY <2>2, <2>4, <2>6
    <3>2. i - 1 \in 1..(Len(pend[p].queue) - 1) /\ (i - 1) + 1 = i
      BY <2>5, <3>1
    <3>3. pend'[p].queue[i - 1] = m
      BY <2>4, <2>6, <3>2
    <3> QED
      BY <2>2, <2>3, <2>6, <3>2, <3>3
  <2>7. CASE pend'[p].queue = pend[p].queue
    BY <2>2, <2>3, <2>4, <2>7
  <2> QED
    BY <1>4, <2>3, <2>6, <2>7
<1>6. ASSUME NEW p \in Pending
      PROVE  Line(p)'
  <2>1. Line(p) /\ Len(pend[p].queue) \in Nat
    BY <1>3 DEF Chains
  <2>2. ASSUME NEW i \in 1..Len(pend[p].queue), pend[p].queue[i] \notin ms
        PROVE  LET n == pend[p].queue[i] IN
               /\ at'[n].pc \notin Outside
               /\ i # 1 => at'[n].pc = "waiting"
               /\ at'[n].pc = "waiting" => at'[n].pend = p
    <3> DEFINE n == pend[p].queue[i]
    <3>1. n \in Message \ ms
      BY <1>3, <2>2
    <3>2. /\ at[n].pc \notin Outside
          /\ i # 1 => at[n].pc = "waiting"
          /\ at[n].pc = "waiting" => at[n].pend = p
      BY <2>1 DEF Line
    <3>3. /\ at'[n].pend = at[n].pend
          /\ \/ at'[n].pc = at[n].pc
             \/ at[n].pc \in Replying /\ at'[n].pc \in {"answering", "notice"}
      BY <3>1
    <3> QED
      BY <3>2, <3>3 DEF Replying, Outside
  <2>3. CASE /\ Len(pend[p].queue) > 0 /\ pend[p].queue[1] \in ms
             /\ Len(pend'[p].queue) = Len(pend[p].queue) - 1
             /\ \A j \in 1..(Len(pend[p].queue) - 1) :
                  pend'[p].queue[j] = pend[p].queue[j + 1]
    <3>1. ASSUME NEW i \in 1..Len(pend'[p].queue)
          PROVE  /\ i + 1 \in 1..Len(pend[p].queue) /\ i + 1 # 1
                 /\ pend'[p].queue[i] = pend[p].queue[i + 1]
                 /\ pend[p].queue[i + 1] \notin ms
      <4>1. i + 1 \in 1..Len(pend[p].queue) /\ i + 1 # 1 /\ i \in 1..(Len(pend[p].queue) - 1)
        BY <2>1, <2>3
      <4> QED
        BY <1>2, <2>3, <4>1
    <3>2. ASSUME NEW i \in 1..Len(pend'[p].queue)
          PROVE  LET n == pend'[p].queue[i] IN
                 /\ at'[n].pc \notin Outside
                 /\ i # 1 => at'[n].pc = "waiting"
                 /\ at'[n].pc = "waiting" => at'[n].pend = p
      <4>1. /\ i + 1 \in 1..Len(pend[p].queue) /\ i + 1 # 1
            /\ pend'[p].queue[i] = pend[p].queue[i + 1]
            /\ pend[p].queue[i + 1] \notin ms
        BY <3>1
      <4>2. LET n == pend[p].queue[i + 1] IN
            /\ at'[n].pc \notin Outside
            /\ i + 1 # 1 => at'[n].pc = "waiting"
            /\ at'[n].pc = "waiting" => at'[n].pend = p
        BY <2>2, <4>1
      <4> QED
        BY <4>1, <4>2
    <3>3. ASSUME NEW i \in 1..Len(pend'[p].queue), NEW j \in 1..Len(pend'[p].queue),
                 pend'[p].queue[j] = pend'[p].queue[i]
          PROVE  j = i
      <4>1. i + 1 = j + 1
        BY <2>1, <3>1, <3>3 DEF Line
      <4> QED
        BY <4>1
    <3>4. ASSUME pend'[p].claimed # None
          PROVE  \E i \in 1..Len(pend'[p].queue) : pend'[p].queue[i] = pend'[p].claimed
      <4>1. pend'[p].claimed = pend[p].claimed /\ pend[p].claimed \notin ms
        BY <1>1, <3>4
      <4>2. PICK i \in 1..Len(pend[p].queue) : pend[p].queue[i] = pend[p].claimed
        BY <2>1, <3>4, <4>1 DEF Line
      <4>3. i # 1
        BY <2>3, <4>1, <4>2
      <4>4. i - 1 \in 1..(Len(pend[p].queue) - 1) /\ (i - 1) + 1 = i
        BY <2>1, <4>3
      <4>5. pend'[p].queue[i - 1] = pend'[p].claimed
        BY <2>3, <4>1, <4>2, <4>4
      <4> QED
        BY <2>3, <4>4, <4>5
    <3> QED
      BY <3>2, <3>3, <3>4 DEF Line
  <2>4. CASE /\ pend'[p].queue = pend[p].queue
             /\ \A i \in 1..Len(pend[p].queue) : pend[p].queue[i] \notin ms
    <3>1. pend'[p].claimed # None => pend'[p].claimed = pend[p].claimed
      BY <1>1
    <3> QED
      BY <2>1, <2>2, <2>4, <3>1 DEF Line
  <2> QED
    BY <1>4, <2>3, <2>4
<1> QED
  BY <1>1, <1>5, <1>6

-----------------------------------------------------------------------------
(* The steps.                                                               *)

\* What a step has to keep.
Kept == /\ at' \in [Message -> TaskType] /\ queue' \in Seq(Message)
        /\ Lines(pend') /\ Chains'

\* A task ends.
LEMMA EndsChains ==
  ASSUME Shapes, Chains, NEW m \in Message, Ends(m), at[m].pc # "waiting"
  PROVE  Kept
<1>1. /\ at' = [at EXCEPT ![m] = Done] /\ queue' = Left(queue, {m})
      /\ pend' = Released(pend, {m})
  BY DEF Ends
<1>2. Done \in TaskType /\ Done.pc = "done"
  BY IdleTyped DEF Done, Idle
<1>3. /\ at' \in [Message -> TaskType] /\ at'[m].pc = "done"
      /\ \A n \in Message \ {m} : at'[n] = at[n]
  BY <1>1, <1>2 DEF Shapes
<1>4. queue \in Seq(Message) /\ queue' \in Seq(Message)
  BY <1>1, LeftIs DEF Shapes
<1>5. /\ Lines(pend')
      /\ \A n \in Message : Listed(n)'
      /\ \A p \in Pending : Line(p)'
  <2>1. Lines(pend) /\ {m} \in SUBSET Message
    BY DEF Shapes
  <2>2. \A n \in {m} : at[n].pc # "waiting" /\ at'[n].pc = "done"
    BY <1>3
  <2>3. \A n \in Message \ {m} : at'[n].pend = at[n].pend /\ at'[n].pc = at[n].pc
    BY <1>3
  <2> QED
    BY <1>1, <2>1, <2>2, <2>3, ReleasedChains
<1>6. ASSUME NEW n \in Message
      PROVE  Prompted(n)'
  <2>1. CASE n = m
    BY <1>3, <2>1 DEF Prompted, Prompting
  <2>2. CASE n # m
    <3>1. Prompted(n) /\ at'[n] = at[n]
      BY <1>3, <2>2 DEF Chains
    <3>2. CASE queue # <<>> /\ Head(queue) = m
      <4>1. /\ Len(queue) \in Nat /\ Len(queue') = Len(queue) - 1 /\ queue[1] = m
            /\ \A i \in 1..(Len(queue) - 1) : queue'[i] = queue[i + 1]
        <5>1. queue' = Left(queue, {m}) /\ Len(queue) \in Nat /\ m \in {m}
          BY <1>1, <1>4
        <5>2. /\ queue[1] \in {m} /\ Len(Left(queue, {m})) = Len(queue) - 1
              /\ \A i \in 1..(Len(queue) - 1) : Left(queue, {m})[i] = queue[i + 1]
          BY <1>4, <3>2, LeftIs
        <5> QED
          BY <5>1, <5>2
      <4>2. ASSUME NEW i \in 1..Len(queue), queue[i] = n
            PROVE  \E j \in 1..Len(queue') : queue'[j] = n
        <5>1. i # 1
          BY <2>2, <4>1, <4>2
        <5>2. i - 1 \in 1..(Len(queue) - 1) /\ (i - 1) + 1 = i
          BY <4>1, <5>1
        <5> QED
          BY <4>1, <4>2, <5>2
      <4> QED
        BY <2>2, <3>1, <3>2, <4>2 DEF Prompted
    <3>3. CASE ~(queue # <<>> /\ Head(queue) = m)
      <4>1. queue' = queue
        BY <1>1, <1>4, <3>3, LeftIs
      <4> QED
        BY <3>1, <4>1 DEF Prompted
    <3> QED
      BY <3>2, <3>3
  <2> QED
    BY <2>1, <2>2
<1> QED
  BY <1>3, <1>4, <1>5, <1>6 DEF Kept, Chains

\* A task moves forward.
LEMMA MovesChains ==
  ASSUME Shapes, Chains, NEW m \in Message, at' \in [Message -> TaskType],
         OthersStay(m), queue' = queue, Lines(pend'), SameLines, Forward(m)
  PROVE  Kept
  BY ForwardChains DEF Kept, Shapes

\* The same of the two operators that move one.
LEMMA GoesChains ==
  ASSUME Shapes, Chains, NEW m \in Message, NEW pc \in PC \ (Outside \cup {"queued", "waiting"}),
         Goes(m, pc), queue' = queue, Lines(pend'), SameLines, at[m].pc # "waiting",
         pc \in Prompting => at[m].pc \in Prompting,
         pc \in Replying => at[m].pc \in Replying
  PROVE  Kept
<1>1. /\ at' \in [Message -> TaskType] /\ at'[m].pc = pc /\ at'[m].pend = at[m].pend
      /\ \A n \in Message \ {m} : at'[n] = at[n]
  BY GoesTyped
<1>2. Prompted(m)
  BY DEF Chains
<1>3. Forward(m)
  BY <1>1, <1>2 DEF Forward, Prompted
<1>4. OthersStay(m)
  BY <1>1 DEF OthersStay
<1> QED
  BY <1>1, <1>3, <1>4, MovesChains

\* A question is presented, or its presentation has failed.
LEMMA PresentedChains ==
  ASSUME Shapes, Chains, NEW p \in Pending, NEW ms \in SUBSET Awaiting(p),
         NEW shown, Presented(p, ms, shown), queue' = queue
  PROVE  Kept
<1> DEFINE pd == [pend EXCEPT ![p].sending = FALSE, ![p].needs = ~shown]
           pc == IF live = p THEN "answering" ELSE "notice"
<1>1. /\ \A n \in ms : at'[n] = Done
      /\ \A n \in Awaiting(p) \ ms : at'[n] = [at[n] EXCEPT !.pc = pc]
      /\ \A n \in Message \ Awaiting(p) : at'[n] = at[n]
      /\ pend' = Released(pd, ms) /\ DOMAIN at' = Message
  BY DEF Presented, Awaiting
<1>2. Done \in TaskType /\ Done.pc = "done"
  BY IdleTyped DEF Done, Idle
<1>3. pc \in {"answering", "notice"} /\ pc \in PC
  BY DEF PC
<1>4. /\ Lines(pd)
      /\ \A r \in Pending : pd[r].queue = pend[r].queue /\ pd[r].claimed = pend[r].claimed
  BY DEF Shapes, Lines
<1> HIDE DEF pd, pc
<1>5. \A n \in Awaiting(p) : n \in Message /\ at[n].pc \in {"presenting", "following"}
  BY DEF Awaiting
<1>6. \A n \in Awaiting(p) \ ms : /\ at'[n] \in TaskType /\ at'[n].pend = at[n].pend
                                  /\ at'[n].pc = pc
  <2>1. \A n \in Message : at[n] \in TaskType
    BY DEF Shapes
  <2>2. ASSUME NEW a \in TaskType, NEW c \in PC
        PROVE  /\ [a EXCEPT !.pc = c] \in TaskType
               /\ [a EXCEPT !.pc = c].pend = a.pend /\ [a EXCEPT !.pc = c].pc = c
    BY DEF TaskType
  <2>3. ASSUME NEW n \in Awaiting(p) \ ms
        PROVE  at'[n] \in TaskType /\ at'[n].pend = at[n].pend /\ at'[n].pc = pc
    <3>1. at'[n] = [at[n] EXCEPT !.pc = pc] /\ at[n] \in TaskType
      BY <1>1, <1>5, <2>1
    <3>2. /\ [at[n] EXCEPT !.pc = pc] \in TaskType
          /\ [at[n] EXCEPT !.pc = pc].pend = at[n].pend
          /\ [at[n] EXCEPT !.pc = pc].pc = pc
      BY <1>3, <2>2, <3>1
    <3> QED
      BY <3>1, <3>2
  <2> QED
    BY <2>3
<1>7. at' \in [Message -> TaskType]
  <2>1. \A n \in Message : at'[n] \in TaskType
    BY <1>1, <1>2, <1>6 DEF Shapes
  <2>2. at' = [n \in Message |-> at'[n]]
    BY DEF Presented
  <2> QED
    BY <2>1, <2>2
<1>8. /\ Lines(pend')
      /\ \A n \in Message : Listed(n)'
      /\ \A r \in Pending : Line(r)'
  <2>1. ms \in SUBSET Message
    BY <1>5
  <2>2. \A n \in ms : at[n].pc # "waiting" /\ at'[n].pc = "done"
    BY <1>1, <1>2, <1>5
  <2>3. \A n \in Message \ ms :
          /\ at'[n].pend = at[n].pend
          /\ \/ at'[n].pc = at[n].pc
             \/ at[n].pc \in Replying /\ at'[n].pc \in {"answering", "notice"}
    BY <1>1, <1>3, <1>5, <1>6 DEF Replying
  <2> QED
    BY <1>1, <1>4, <2>1, <2>2, <2>3, ReleasedChains
<1>9. ASSUME NEW n \in Message
      PROVE  Prompted(n)'
  <2>1. Prompted(n)
    BY DEF Chains
  <2>2. at'[n].pc = at[n].pc \/ at'[n].pc \in {"done", "answering", "notice"}
    BY <1>1, <1>2, <1>3, <1>6
  <2> QED
    BY <2>1, <2>2 DEF Prompted, Prompting
<1> QED
  BY <1>7, <1>8, <1>9 DEF Kept, Chains, Shapes

\* An event of a socket: a question may become the pending one, in an object that
\* nobody has.
LEMMA RequestedChains ==
  ASSUME Shapes, Chains, live \in Pending \cup {None}, NEW m \in Message, Requested(m)
  PROVE  Kept
<1>1. at' = at /\ queue' = queue
  BY DEF Requested
<1>2. CASE pend' = pend
  BY <1>1, <1>2, StillChains DEF Kept, SameLines, Shapes
<1>3. CASE live # None /\ pend' = Presenting(pend, live)
  <2>1. Lines(pend') /\ SameLines
    BY <1>3 DEF Presenting, Shapes, Lines, SameLines
  <2> QED
    BY <1>1, <2>1, StillChains DEF Kept, Shapes
<1>4. CASE \E p \in Pending : \E q : Free(p) /\ pend' = [pend EXCEPT ![p] =
             [Unused EXCEPT !.of = q, !.needs = TRUE, !.sending = TRUE]]
  <2>0. PICK p \in Pending : \E q : Free(p) /\ pend' = [pend EXCEPT ![p] =
             [Unused EXCEPT !.of = q, !.needs = TRUE, !.sending = TRUE]]
    BY <1>4
  <2>1. PICK q : Free(p) /\ pend' = [pend EXCEPT ![p] =
             [Unused EXCEPT !.of = q, !.needs = TRUE, !.sending = TRUE]]
    BY <2>0
  <2>2. /\ Lines(pend') /\ pend'[p].queue = <<>> /\ pend'[p].claimed = None
        /\ \A r \in Pending \ {p} : pend'[r] = pend[r]
    <3>1. 1 \in Part
      BY ConversationAssumption DEF Part
    <3> QED
      BY <2>1, <3>1 DEF Shapes, Lines, Unused
  <2>3. ASSUME NEW n \in Message
        PROVE  Prompted(n)' /\ Listed(n)'
    <3>1. Prompted(n) /\ Listed(n) /\ at[n].pend # p
      BY <2>1 DEF Chains, Free
    <3> QED
      BY <1>1, <2>2, <3>1 DEF Prompted, Listed
  <2>4. ASSUME NEW r \in Pending
        PROVE  Line(r)'
    <3>1. CASE r = p
      BY <2>2, <3>1 DEF Line
    <3>2. CASE r # p
      <4>1. Line(r) /\ pend'[r] = pend[r]
        BY <2>2, <3>2 DEF Chains
      <4> QED
        BY <1>1, <4>1 DEF Line
    <3> QED
      BY <3>1, <3>2
  <2> QED
    BY <1>1, <2>2, <2>3, <2>4 DEF Kept, Chains, Shapes
<1> QED
  BY <1>2, <1>3, <1>4 DEF Requested

\* A message is accepted: it joins no chain, the queue, or the replies to the
\* pending question.
LEMMA AcceptChains ==
  ASSUME Inv, BatchInv, ReplyInv, Shapes, Chains, NEW m \in Message, Accept(m)
  PROVE  Kept
<1>1. at[m].pc = "idle" /\ live \in Pending \cup {None}
  BY DEF Accept, ReplyInv
<1>2. CASE UNCHANGED <<pend, queue>> /\ \E pc \in {"local", "stopping"} : Records(m, pc)
  <2>1. PICK pc \in {"local", "stopping"} : Records(m, pc)
    BY <1>2
  <2>2. pc \in PC
    BY DEF PC
  <2>3. /\ at' \in [Message -> TaskType] /\ at'[m].pc = pc
        /\ \A n \in Message \ {m} : at'[n] = at[n]
    BY <2>1, <2>2, RecordsTyped
  <2>4. Forward(m) /\ OthersStay(m)
    BY <1>1, <2>3 DEF Forward, OthersStay, Prompting, Replying, Outside
  <2>5. Lines(pend') /\ SameLines
    BY <1>2 DEF Shapes, SameLines
  <2> QED
    BY <1>2, <2>3, <2>4, <2>5, MovesChains
<1>3. CASE UNCHANGED pend /\ \E ms \in {<<>>, batch.messages} : Enqueue(m, ms)
  <2>1. PICK ms \in {<<>>, batch.messages} : Enqueue(m, ms)
    BY <1>3
  <2>2. ms \in Seq(Message)
    <3>1. batch.messages \in Seq(Message) /\ <<>> \in Seq(Message)
      BY DEF BatchInv, Batch
    <3> QED
      BY <3>1
  <2>3. /\ at' \in [Message -> TaskType] /\ at'[m].pc = "queued"
        /\ \A n \in Message \ {m} : at'[n] = at[n]
        /\ queue' = Append(queue, m)
    BY <2>1, <2>2, EnqueueTyped
  <2>4. OthersStay(m) /\ SameLines /\ Lines(pend') /\ queue' \in Seq(Message)
    BY <1>3, <2>3 DEF OthersStay, SameLines, Shapes
  <2> QED
    BY <1>1, <2>3, <2>4, EnqueueChains DEF Kept
<1>4. CASE UNCHANGED queue /\ BecomesReply(m)
  BY <1>1, <1>4, BecomesReplyChains DEF Kept, Shapes
<1> QED
  BY <1>2, <1>3, <1>4, AcceptIs

\* A message has been recorded.
LEMMA RecordedChains ==
  ASSUME Shapes, Chains, NEW m \in Message, Recorded(m)
  PROVE  Kept
<1> DEFINE a == IF at[m].pc = "local" THEN Done
                ELSE [at[m] EXCEPT !.pc = Then(at[m].pc), !.snap = {}]
<1>1. /\ at[m].pc \in {"local", "stopping", "marking", "discarding"}
      /\ at' = [at EXCEPT ![m] = a] /\ UNCHANGED <<queue, pend>>
  BY DEF Recorded, IsNextWrite, Writing
<1>2. /\ a \in TaskType
      /\ \/ at[m].pc \in {"local", "stopping"} /\ a.pc \in {"done", "stop"}
         \/ at[m].pc = "marking" /\ a.pc = "prepare"
         \/ at[m].pc = "discarding" /\ a.pc = "notice"
  <2>1. CASE at[m].pc = "local"
    BY <2>1, IdleTyped DEF Done, Idle
  <2>2. CASE at[m].pc # "local"
    <3>1. /\ Then(at[m].pc) \in PC
          /\ \/ at[m].pc = "stopping" /\ Then(at[m].pc) = "stop"
             \/ at[m].pc = "marking" /\ Then(at[m].pc) = "prepare"
             \/ at[m].pc = "discarding" /\ Then(at[m].pc) = "notice"
      BY <1>1, <2>2 DEF Then, PC
    <3>2. at[m] \in TaskType
      BY DEF Shapes
    <3>3. a \in TaskType /\ a.pc = Then(at[m].pc)
      BY <2>2, <3>1, <3>2 DEF TaskType
    <3> QED
      BY <3>1, <3>3
  <2> QED
    BY <2>1, <2>2
<1> HIDE DEF a
<1>3. at' \in [Message -> TaskType] /\ at'[m] = a /\ OthersStay(m)
  BY <1>1, <1>2 DEF Shapes, OthersStay
<1>4. Lines(pend') /\ SameLines
  BY <1>1 DEF Shapes, SameLines
<1>5. Prompted(m)
  BY DEF Chains
<1>6. Forward(m)
  BY <1>2, <1>3, <1>5 DEF Forward, Prompted, Prompting, Replying, Outside
<1> QED
  BY <1>1, <1>3, <1>4, <1>6, MovesChains

\* A reply comes to its turn.
LEMMA RepliesChains ==
  ASSUME Shapes, Chains, NEW m \in Message, Replies(m)
  PROVE  Kept
<1>1. at[m].pc = "waiting" /\ IsTurn(m) /\ UNCHANGED pend
  BY DEF Replies
<1>2. Lines(pend') /\ SameLines
  BY <1>1 DEF Shapes, SameLines
<1>3. CASE UNCHANGED queue /\ \E pc \in {"discarding", "recording"} : Records(m, pc)
  <2>1. PICK pc \in {"discarding", "recording"} : Records(m, pc)
    BY <1>3
  <2>2. pc \in PC
    BY DEF PC
  <2>3. /\ at' \in [Message -> TaskType] /\ at'[m].pc = pc /\ at'[m].pend = at[m].pend
        /\ \A n \in Message \ {m} : at'[n] = at[n]
    BY <2>1, <2>2, RecordsTyped
  <2>4. Forward(m) /\ OthersStay(m)
    BY <1>1, <2>3 DEF Forward, OthersStay, Prompting, Replying, Outside
  <2> QED
    BY <1>2, <1>3, <2>3, <2>4, MovesChains
<1>4. CASE Enqueue(m, <<>>)
  <2>1. /\ at' \in [Message -> TaskType] /\ at'[m].pc = "queued"
        /\ \A n \in Message \ {m} : at'[n] = at[n]
        /\ queue' = Append(queue, m)
    <3>1. <<>> \in Seq(Message)
      OBVIOUS
    <3> QED
      BY <1>4, <3>1, EnqueueTyped
  <2>2. OthersStay(m) /\ queue' \in Seq(Message)
    BY <2>1 DEF OthersStay, Shapes
  <2> QED
    BY <1>1, <1>2, <2>1, <2>2, EnqueueChains DEF Kept
<1> QED
  BY <1>3, <1>4 DEF Replies

\* A reply has been recorded.
LEMMA ReplyRecordedChains ==
  ASSUME Shapes, Chains, NEW m \in Message, ReplyRecorded(m)
  PROVE  Kept
<1> DEFINE p == at[m].pend
           answers == live = p /\ says[m] = "text"
           pc == IF answers /\ pend[p].needs THEN "presenting"
                 ELSE IF answers THEN "answering" ELSE "notice"
           shows == IF answers /\ pend[p].needs THEN ~pend[p].sending ELSE at[m].shows
           a == [at[m] EXCEPT !.pc = pc, !.snap = {}, !.shows = shows]
<1>1. at[m] \in TaskType /\ at[m].pc = "recording" /\ UNCHANGED queue
  BY DEF Shapes, ReplyRecorded
<1>2. pc \in {"presenting", "answering", "notice"} /\ pc \in PC /\ shows \in BOOLEAN
  BY <1>1 DEF PC, TaskType
<1>3. at' = [at EXCEPT ![m] = a] /\ (UNCHANGED pend \/ pend' = Presenting(pend, p))
  <2>1. CASE answers /\ pend[p].needs
    <3>1. /\ at' = [at EXCEPT ![m].pc = "presenting", ![m].snap = {},
                              ![m].shows = ~pend[p].sending]
          /\ pend' = Presenting(pend, p)
      BY <2>1 DEF ReplyRecorded
    <3>2. a = [at[m] EXCEPT !.pc = "presenting", !.snap = {}, !.shows = ~pend[p].sending]
      BY <2>1
    <3> HIDE DEF a, pc, shows, answers, p
    <3> QED
      BY <3>1, <3>2 DEF Shapes
  <2>2. CASE ~(answers /\ pend[p].needs)
    <3>1. at' = [at EXCEPT ![m].snap = {}, ![m].pc = pc] /\ UNCHANGED pend
      BY <2>2 DEF ReplyRecorded
    <3>2. a = [at[m] EXCEPT !.pc = pc, !.snap = {}]
      BY <1>1, <2>2 DEF TaskType
    <3> HIDE DEF a, pc, shows, answers, p
    <3> QED
      BY <3>1, <3>2 DEF Shapes
  <2> QED
    BY <2>1, <2>2
<1> HIDE DEF pc, shows
<1>4. a \in TaskType /\ a.pc = pc /\ a.pend = at[m].pend
  BY <1>1, <1>2 DEF TaskType
<1> HIDE DEF a
<1>5. at' \in [Message -> TaskType] /\ at'[m] = a /\ OthersStay(m)
  BY <1>3, <1>4 DEF Shapes, OthersStay
<1>6. Lines(pend') /\ SameLines
  <2>1. CASE pend' = Presenting(pend, p)
    <3>1. p \in Pending /\ Lines(pend)
      BY <1>1 DEF Chains, Listed, Replying, Shapes
    <3>2. pend' = [pend EXCEPT ![p].sending = TRUE]
      BY <2>1 DEF Presenting
    <3> HIDE DEF p
    <3>3. /\ DOMAIN pend' = Pending /\ \A q \in Pending \ {p} : pend'[q] = pend[q]
          /\ pend'[p] = [pend[p] EXCEPT !.sending = TRUE]
      BY <3>1, <3>2 DEF Lines
    <3> QED
      BY <3>1, <3>3 DEF Lines, SameLines
  <2>2. CASE UNCHANGED pend
    BY <2>2 DEF Shapes, SameLines
  <2> QED
    BY <1>3, <2>1, <2>2
<1>7. Forward(m)
  BY <1>1, <1>2, <1>4, <1>5 DEF Forward, Prompting, Replying, Outside
<1> QED
  BY <1>1, <1>5, <1>6, <1>7, MovesChains

\* The pending question is taken from the chat: at the end of a turn, or by /stop.
LEMMA TakesChains ==
  ASSUME ReplyInv, Shapes, Chains, NEW m \in Message, at[m].pc # "waiting",
         TakesPending(m), UNCHANGED <<queue, pend>>
  PROVE  Kept
<1> DEFINE a == [at[m] EXCEPT !.pc = "cancelling", !.pend = live]
<1>1. a \in TaskType /\ a.pc = "cancelling"
  <2>1. at[m] \in TaskType /\ live \in Pending \cup {None} /\ "cancelling" \in PC
    BY DEF Shapes, ReplyInv, PC
  <2> QED
    BY <2>1 DEF TaskType
<1>2. at' = [at EXCEPT ![m] = a]
  <2>1. at' = [at EXCEPT ![m].pc = "cancelling", ![m].pend = live]
    BY DEF TakesPending
  <2> QED
    BY <2>1 DEF Shapes
<1> HIDE DEF a
<1>3. at' \in [Message -> TaskType] /\ at'[m] = a /\ OthersStay(m)
  BY <1>1, <1>2 DEF Shapes, OthersStay
<1>4. Forward(m)
  BY <1>1, <1>3 DEF Forward, Prompting, Replying, Outside
<1>5. Lines(pend') /\ SameLines
  BY DEF Shapes, SameLines
<1> QED
  BY <1>3, <1>4, <1>5, MovesChains

\* /stop finds the running turn, or nothing to stop.
LEMMA StopTurnChains ==
  ASSUME ReplyInv, Shapes, Chains, NEW m \in Message, StopTurn(m)
  PROVE  Kept
<1>1. at[m].pc = "stop" /\ UNCHANGED <<queue, pend>>
  BY DEF StopTurn
<1>2. Lines(pend') /\ SameLines
  BY <1>1 DEF Shapes, SameLines
<1>3. CASE queue # <<>> /\ at[Head(queue)].pc = "asking"
  <2> DEFINE a == [at[m] EXCEPT !.pc = "cancelling", !.pend = live]
             h == Head(queue)
             b == [at[h] EXCEPT !.stopped = TRUE]
  <2>1. h \in Message /\ h # m
    BY <1>1, <1>3 DEF Shapes
  <2>2. a \in TaskType /\ a.pc = "cancelling"
    <3>1. at[m] \in TaskType /\ live \in Pending \cup {None} /\ "cancelling" \in PC
      BY DEF Shapes, ReplyInv, PC
    <3> QED
      BY <3>1 DEF TaskType
  <2>3. b \in TaskType /\ b.pc = at[h].pc /\ b.pend = at[h].pend
    <3>1. at[h] \in TaskType
      BY <2>1 DEF Shapes
    <3> QED
      BY <3>1 DEF TaskType
  <2>4. at' = [at EXCEPT ![m] = a, ![h] = b]
    <3> HIDE DEF h
    <3>1. at' = [at EXCEPT ![m].pc = "cancelling", ![m].pend = live, ![h].stopped = TRUE]
      BY <1>3 DEF StopTurn, h
    <3> QED
      BY <2>1, <3>1 DEF Shapes
  <2> HIDE DEF a, b, h
  <2>5. at' \in [Message -> TaskType] /\ at'[m] = a /\ OthersStay(m)
    BY <2>1, <2>2, <2>3, <2>4 DEF Shapes, OthersStay
  <2>6. Forward(m)
    BY <1>1, <2>2, <2>5 DEF Forward, Prompting, Replying, Outside
  <2> QED
    BY <1>1, <1>2, <2>5, <2>6, MovesChains
<1>4. CASE ~(queue # <<>> /\ at[Head(queue)].pc = "asking")
  <2>1. at' = [at EXCEPT ![m] = Done]
    BY <1>4 DEF StopTurn
  <2>2. Done \in TaskType /\ Done.pc = "done"
    BY IdleTyped DEF Done, Idle
  <2>3. at' \in [Message -> TaskType] /\ at'[m].pc = "done" /\ OthersStay(m)
    BY <2>1, <2>2 DEF Shapes, OthersStay
  <2>4. Forward(m)
    BY <1>1, <2>3 DEF Forward, Prompting, Replying, Outside
  <2> QED
    BY <1>1, <1>2, <2>3, <2>4, MovesChains
<1> QED
  BY <1>3, <1>4

\* An answer is taken: the next part is shown, or the answers are submitted.
LEMMA TakesAnswerChains ==
  ASSUME Shapes, Chains, NEW m \in Message, TakesAnswer(m)
  PROVE  Kept
<1> DEFINE p == at[m].pend
<1>1. at[m].pc = "answering" /\ UNCHANGED queue
  BY DEF TakesAnswer
<1>2. p \in Pending /\ Lines(pend)
  BY <1>1 DEF Chains, Listed, Replying, Shapes
<1>3. PICK pc \in {"notice", "following", "submitting"} :
        /\ Goes(m, pc)
        /\ \/ pend' = pend
           \/ pend' = [pend EXCEPT ![p].submitting = TRUE]
           \/ /\ pend[p].index < Parts
              /\ pend' = [pend EXCEPT ![p].index = @ + 1, ![p].claimed = None,
                                      ![p].needs = TRUE, ![p].sending = TRUE]
  BY DEF TakesAnswer
<1> HIDE DEF p
<1>4. Lines(pend') /\ SameLines
  <2>1. CASE pend' = pend
    BY <1>2, <2>1 DEF SameLines
  <2>2. CASE pend' = [pend EXCEPT ![p].submitting = TRUE]
    BY <1>2, <2>2 DEF SameLines, Lines
  <2>3. CASE /\ pend[p].index < Parts
             /\ pend' = [pend EXCEPT ![p].index = @ + 1, ![p].claimed = None,
                                     ![p].needs = TRUE, ![p].sending = TRUE]
    <3>1. pend[p].index + 1 \in Part
      BY <1>2, <2>3, ConversationAssumption DEF Lines, Part
    <3>2. /\ DOMAIN pend' = Pending /\ \A q \in Pending \ {p} : pend'[q] = pend[q]
          /\ pend'[p].queue = pend[p].queue /\ pend'[p].claimed = None
          /\ pend'[p].index = pend[p].index + 1
          /\ DOMAIN pend'[p] = DOMAIN pend[p]
      BY <1>2, <2>3 DEF Lines
    <3> QED
      BY <1>2, <3>1, <3>2 DEF Lines, SameLines
  <2> QED
    BY <1>3, <2>1, <2>2, <2>3
<1>5. pc \in PC \ (Outside \cup {"queued", "waiting"}) /\ pc \notin Prompting
  BY DEF PC, Outside, Prompting
<1> QED
  BY <1>1, <1>3, <1>4, <1>5, GoesChains DEF Replying

\* The steps of a task.
LEMMA TaskChains ==
  ASSUME ReplyInv, Shapes, Chains, NEW m \in Message,
         TaskStep(m) \/ TurnEnds(m) \/ Failure(m)
  PROVE  Kept
<1>1. CASE Recorded(m) \/ Replies(m) \/ ReplyRecorded(m) \/ StopTurn(m) \/ TakesAnswer(m)
  BY <1>1, RecordedChains, RepliesChains, ReplyRecordedChains, StopTurnChains,
     TakesAnswerChains
<1>2. CASE Begins(m)
  <2>1. /\ at[m].pc = "queued" /\ Head(queue) = m /\ Records(m, "marking")
        /\ UNCHANGED <<queue, pend>>
    BY <1>2 DEF Begins
  <2>2. "marking" \in PC
    BY DEF PC
  <2>3. /\ at' \in [Message -> TaskType] /\ at'[m].pc = "marking"
        /\ \A n \in Message \ {m} : at'[n] = at[n]
    BY <2>1, <2>2, RecordsTyped
  <2>4. queue # <<>>
    <3>1. Prompted(m)
      BY DEF Chains
    <3> QED
      BY <2>1, <3>1 DEF Prompted
  <2>5. Forward(m) /\ OthersStay(m)
    BY <2>1, <2>3, <2>4 DEF Forward, OthersStay, Prompting, Replying, Outside
  <2>6. Lines(pend') /\ SameLines
    BY <2>1 DEF Shapes, SameLines
  <2> QED
    BY <2>1, <2>3, <2>5, <2>6, MovesChains
<1>3. CASE Delivered(m) \/ Closes(m)
  <2>1. at[m].pc # "waiting" /\ TakesPending(m) /\ UNCHANGED <<queue, pend>>
    BY <1>3 DEF Delivered, Closes
  <2> QED
    BY <2>1, TakesChains
<1>4. CASE Prompts(m) \/ Answered(m) \/ Stopped(m) \/ TurnFails(m)
  <2>1. PICK pc \in {"asking", "deliver", "closing"} : Goes(m, pc)
    BY <1>4 DEF Prompts, Answered, Stopped, TurnFails
  <2>2. at[m].pc \in {"prepare", "asking", "deliver"} /\ UNCHANGED <<queue, pend>>
    BY <1>4 DEF Prompts, Answered, Stopped, TurnFails
  <2>3. Lines(pend') /\ SameLines
    BY <2>2 DEF Shapes, SameLines
  <2>4. pc \in PC \ (Outside \cup {"queued", "waiting"}) /\ pc \notin Replying
        /\ at[m].pc \in Prompting /\ at[m].pc # "waiting"
    BY <2>2 DEF PC, Outside, Replying, Prompting
  <2> QED
    BY <2>1, <2>2, <2>3, <2>4, GoesChains
<1>5. CASE RespondArrives(m) \/ RespondFails(m)
  <2>1. PICK pc \in {"failed", "accepted", "refused"} : Goes(m, pc)
    BY <1>5 DEF RespondArrives, RespondFails
  <2>2. at[m].pc = "submitting" /\ UNCHANGED <<queue, pend>>
    BY <1>5 DEF RespondArrives, RespondFails
  <2>3. Lines(pend') /\ SameLines
    BY <2>2 DEF Shapes, SameLines
  <2>4. pc \in PC \ (Outside \cup {"queued", "waiting"}) /\ pc \notin Prompting
        /\ at[m].pc \in Replying /\ at[m].pc # "waiting"
    BY <2>2 DEF PC, Outside, Replying, Prompting
  <2> QED
    BY <2>1, <2>2, <2>3, <2>4, GoesChains
<1>6. CASE (Submitted(m) \/ SubmitFailed(m)) /\ ~Ends(m)
  <2>1. /\ Goes(m, "notice") /\ UNCHANGED queue /\ at[m].pc \in {"refused", "failed"}
        /\ pend' = pend \/ pend' = [pend EXCEPT ![at[m].pend].submitting = FALSE]
    BY <1>6 DEF Submitted, SubmitFailed
  <2>2. at[m].pend \in Pending /\ Lines(pend)
    BY <2>1 DEF Chains, Listed, Replying, Shapes
  <2>3. Lines(pend') /\ SameLines
    <3>1. CASE pend' = pend
      BY <2>2, <3>1 DEF SameLines
    <3>2. CASE pend' = [pend EXCEPT ![at[m].pend].submitting = FALSE]
      BY <2>2, <3>2 DEF Lines, SameLines
    <3> QED
      BY <2>1, <3>1, <3>2
  <2>4. "notice" \in PC \ (Outside \cup {"queued", "waiting"})
        /\ "notice" \notin Prompting /\ "notice" \notin Replying
    BY DEF PC, Outside, Prompting, Replying
  <2> QED
    BY <2>1, <2>3, <2>4, GoesChains
<1>7. CASE /\ \/ Cancelled(m) \/ NoticeSent(m) \/ RecordFails(m) \/ CancelFails(m)
              \/ ((Submitted(m) \/ SubmitFailed(m)) /\ Ends(m))
  <2>1. Ends(m) /\ at[m].pc # "waiting"
    BY <1>7 DEF Cancelled, NoticeSent, RecordFails, CancelFails, Submitted, SubmitFailed,
                IsNextWrite, Writing
  <2> QED
    BY <2>1, EndsChains
<1>8. CASE Disconnects(m)
  <2>1. UNCHANGED <<at, queue, pend>>
    BY <1>8 DEF Disconnects
  <2> QED
    BY <2>1, StillChains DEF Kept, SameLines, Shapes
<1> QED
  BY <1>1, <1>2, <1>3, <1>4, <1>5, <1>6, <1>7, <1>8 DEF TaskStep, TurnEnds, Failure

\* A task says nothing new, and collects nothing.
LEMMA TaskShapes ==
  ASSUME BatchInv, Shapes, NEW m \in Message, TaskStep(m) \/ TurnEnds(m) \/ Failure(m)
  PROVE  /\ sent' \in 0..Messages /\ says' \in Chats
         /\ seen' \subseteq Message /\ Len(batch'.messages) <= Limit
<1>1. UNCHANGED <<says, sent>>
  BY DEF TaskStep, TurnEnds, Failure, Recorded, Begins, Prompts, Delivered, Closes, Cancelled,
         StopTurn, Replies, ReplyRecorded, TakesAnswer, RespondArrives, Submitted,
         SubmitFailed, NoticeSent, Answered, Stopped, RecordFails, TurnFails, CancelFails,
         RespondFails, Disconnects, chat
<1>2. seen' \subseteq seen \cup {m}
  BY DEF TaskStep, TurnEnds, Failure, Recorded, Begins, Prompts, Delivered, Closes, Cancelled,
         StopTurn, Replies, Records, ReplyRecorded, TakesAnswer, RespondArrives, Submitted,
         SubmitFailed, NoticeSent, Answered, Stopped, RecordFails, TurnFails, CancelFails,
         RespondFails, Disconnects, chat
<1>3. UNCHANGED batch \/ Completes(m) \/ Retains(m)
  BY DEF TaskStep, TurnEnds, Failure, Recorded, Begins, Prompts, Delivered, Closes, Cancelled,
         StopTurn, Replies, ReplyRecorded, TakesAnswer, RespondArrives, Submitted,
         SubmitFailed, NoticeSent, Answered, Stopped, RecordFails, TurnFails, CancelFails,
         RespondFails, Disconnects
<1>4. batch'.messages \in {batch.messages, <<>>}
  <2>1. [batch EXCEPT !.phase = "collecting", !.token = None].messages = batch.messages
    BY DEF BatchInv, Batch
  <2>2. NoBatch.messages = <<>>
    BY DEF NoBatch
  <2> QED
    BY <1>3, <2>1, <2>2 DEF Completes, Retains
<1>5. Len(<<>>) <= Limit
  BY ConversationAssumption
<1> QED
  BY <1>1, <1>2, <1>4, <1>5 DEF Shapes

\* A message is said and seen, and collected only while the batch has room.
LEMMA AcceptShapes ==
  ASSUME BatchInv, Shapes, NEW m \in Message, Accept(m)
  PROVE  /\ sent' \in 0..Messages /\ says' \in Chats
         /\ seen' \subseteq Message /\ Len(batch'.messages) <= Limit
<1>1. says' = says /\ sent' \in {m, sent} /\ m \in 0..Messages
  BY DEF Accept, Message
<1>2. seen' \subseteq seen \cup {m}
  BY AcceptIs DEF Records, BecomesReply
<1>3. Len(batch'.messages) <= Limit
  <2> DEFINE busy == says[m] = "/batch" /\ (queue # <<>> \/ live # None)
             result == IF busy THEN <<"local", batch>> ELSE Handled(m, says[m])
  <2>1. batch' = result[2]
    BY DEF Accept
  <2>2. \/ result \in {<<"local", batch>>, <<"on", batch>>}
        \/ result = <<"local", [NoBatch EXCEPT !.phase = "collecting"]>>
        \/ result = <<"local", NoBatch>>
        \/ result = <<"submit", [batch EXCEPT !.phase = "submitting", !.token = m]>>
        \/ /\ Len(batch.messages) < Limit
           /\ result = <<"local", [batch EXCEPT !.messages = Append(@, m)]>>
    BY HandledIs, Zenon
  <2> HIDE DEF result
  <2>3. batch.messages \in Seq(Message) /\ Len(batch.messages) <= Limit /\ Limit \in Nat
    BY ConversationAssumption DEF BatchInv, Batch, Shapes
  <2>4. /\ [batch EXCEPT !.phase = "submitting", !.token = m].messages = batch.messages
        /\ [batch EXCEPT !.messages = Append(@, m)].messages = Append(batch.messages, m)
    BY DEF BatchInv, Batch
  <2>5. /\ [NoBatch EXCEPT !.phase = "collecting"].messages = <<>>
        /\ NoBatch.messages = <<>>
    BY DEF NoBatch
  <2>6. \/ batch' \in {batch, [NoBatch EXCEPT !.phase = "collecting"], NoBatch,
                      [batch EXCEPT !.phase = "submitting", !.token = m]}
        \/ /\ Len(batch.messages) < Limit
           /\ batch' = [batch EXCEPT !.messages = Append(@, m)]
    BY <2>1, <2>2
  <2>7. \/ batch'.messages \in {batch.messages, <<>>}
        \/ Len(batch.messages) < Limit /\ batch'.messages = Append(batch.messages, m)
    BY <2>4, <2>5, <2>6
  <2> QED
    BY <2>3, <2>7
<1> QED
  BY <1>1, <1>2, <1>3 DEF Shapes

\* After a restart there is nothing but what is on disk.
LEMMA RestartChains ==
  ASSUME Inv, Shapes, Restart
  PROVE  Shapes' /\ Chains'
<1>1. /\ at' = [m \in Message |-> Idle] /\ queue' = <<>> /\ batch' = NoBatch
      /\ pend' = [p \in Pending |-> Unused] /\ seen' = disk /\ UNCHANGED <<says, sent>>
  BY DEF Restart
<1>2. Idle \in TaskType /\ Idle.pc = "idle"
  BY IdleTyped DEF Idle
<1>3. 1 \in Part /\ Len(<<>>) <= Limit
  BY ConversationAssumption DEF Part
<1>4. Shapes'
  <2>1. Lines(pend')
    <3>1. /\ {"queue", "claimed", "index", "sending", "needs"} \subseteq DOMAIN Unused
          /\ Unused.queue = <<>> /\ Unused.claimed = None /\ Unused.index = 1
      BY DEF Unused
    <3> QED
      <4>1. DOMAIN pend' = Pending /\ \A p \in Pending : pend'[p] = Unused
        BY <1>1
      <4>2. <<>> \in Seq(Message) /\ None \in Message \cup {None}
        OBVIOUS
      <4> QED
        BY <1>3, <3>1, <4>1, <4>2 DEF Lines
  <2>2. at' \in [Message -> TaskType] /\ queue' \in Seq(Message)
    BY <1>1, <1>2
  <2>3. seen' \subseteq Message /\ says' \in Chats /\ sent' \in 0..Messages
    BY <1>1 DEF Shapes, Inv, Snapshots
  <2>4. Len(batch'.messages) <= Limit
    BY <1>1, <1>3 DEF NoBatch
  <2> QED
    BY <2>1, <2>2, <2>3, <2>4 DEF Shapes
<1>5. \A m \in Message : Prompted(m)' /\ Listed(m)'
  BY <1>1, <1>2 DEF Prompted, Listed, Prompting, Replying
<1>6. \A p \in Pending : Line(p)'
  BY <1>1 DEF Line, Unused
<1> QED
  BY <1>4, <1>5, <1>6 DEF Chains

\* So it is in the beginning.
LEMMA BeginChains ==
  ASSUME Init
  PROVE  Shapes /\ Chains
<1>1. /\ at = [m \in Message |-> Idle] /\ queue = <<>> /\ batch = NoBatch
      /\ pend = [p \in Pending |-> Unused] /\ seen = {} /\ says \in Chats /\ sent = 0
  BY DEF Init
<1>2. Idle \in TaskType /\ Idle.pc = "idle"
  BY IdleTyped DEF Idle
<1>3. 1 \in Part /\ Len(<<>>) <= Limit /\ 0 \in 0..Messages
  BY ConversationAssumption DEF Part
<1>4. Shapes
  <2>1. Lines(pend)
    <3>1. /\ {"queue", "claimed", "index", "sending", "needs"} \subseteq DOMAIN Unused
          /\ Unused.queue = <<>> /\ Unused.claimed = None /\ Unused.index = 1
      BY DEF Unused
    <3> QED
      <4>1. DOMAIN pend = Pending /\ \A p \in Pending : pend[p] = Unused
        BY <1>1
      <4>2. <<>> \in Seq(Message) /\ None \in Message \cup {None}
        OBVIOUS
      <4> QED
        BY <1>3, <3>1, <4>1, <4>2 DEF Lines
  <2>2. at \in [Message -> TaskType] /\ queue \in Seq(Message)
    BY <1>1, <1>2
  <2>3. Len(batch.messages) <= Limit
    BY <1>1, <1>3 DEF NoBatch
  <2> QED
    BY <1>1, <1>3, <2>1, <2>2, <2>3 DEF Shapes
<1>5. \A m \in Message : Prompted(m) /\ Listed(m)
  BY <1>1, <1>2 DEF Prompted, Listed, Prompting, Replying
<1>6. \A p \in Pending : Line(p)
  BY <1>1 DEF Line, Unused
<1> QED
  BY <1>4, <1>5, <1>6 DEF Chains

\* Shapes and chains are inductive, together with the invariants above.
LEMMA NextKeepsChains ==
  ASSUME Inv, BatchInv, ReplyInv, Shapes, Chains, [Next]_vars
  PROVE  Shapes' /\ Chains'
<1>0. ASSUME Kept, sent' \in 0..Messages, says' \in Chats, seen' \subseteq Message,
             Len(batch'.messages) <= Limit
      PROVE  Shapes' /\ Chains'
  BY <1>0 DEF Kept, Shapes
<1> DEFINE Quiet == UNCHANGED <<says, sent, seen, batch>>
<1>1. ASSUME Kept, Quiet
      PROVE  Shapes' /\ Chains'
  BY <1>0, <1>1 DEF Shapes
<1>2. ASSUME UNCHANGED <<at, queue, pend>>
      PROVE  Kept
  BY <1>2, StillChains DEF Kept, SameLines, Shapes
<1>3. ASSUME NEW m \in Message, Accept(m)
      PROVE  Shapes' /\ Chains'
  BY <1>0, <1>3, AcceptChains, AcceptShapes
<1>4. ASSUME NEW m \in Message, TaskStep(m) \/ TurnEnds(m) \/ Failure(m)
      PROVE  Shapes' /\ Chains'
  BY <1>0, <1>4, TaskChains, TaskShapes
<1>5. ASSUME NEW m \in Message, SocketStep(m)
      PROVE  Shapes' /\ Chains'
  <2>1. Quiet
    BY <1>5 DEF SocketStep, Requested, Resolved, Reconnects, chat
  <2>2. CASE Requested(m)
    BY <1>1, <2>1, <2>2, RequestedChains DEF ReplyInv
  <2>3. CASE Resolved(m) \/ Reconnects(m)
    BY <1>1, <1>2, <2>1, <2>3 DEF Resolved, Reconnects
  <2> QED
    BY <1>5, <2>2, <2>3 DEF SocketStep
<1>6. ASSUME NEW p \in Pending, Shown(p) \/ ShowFails(p)
      PROVE  Shapes' /\ Chains'
  <2>1. \E ms \in SUBSET Awaiting(p), shown \in BOOLEAN : Presented(p, ms, shown)
    <3>1. CASE Shown(p)
      <4> DEFINE ms == {m \in Awaiting(p) : at[m].pc = "following" \/ (at[m].shows /\ live = p)}
      <4>1. Presented(p, ms, TRUE) /\ ms \in SUBSET Awaiting(p)
        BY <3>1 DEF Shown
      <4> QED
        BY <4>1
    <3>2. CASE ShowFails(p)
      BY <3>2 DEF ShowFails
    <3> QED
      BY <1>6, <3>1, <3>2
  <2>2. Quiet /\ queue' = queue
    BY <1>6 DEF Shown, ShowFails, chat
  <2> QED
    BY <1>1, <2>1, <2>2, PresentedChains
<1>7. ASSUME NEW q \in Question, HarnessAsks(q) \/ AnsweredElsewhere(q)
      PROVE  Shapes' /\ Chains'
  BY <1>1, <1>2, <1>7 DEF HarnessAsks, AnsweredElsewhere, chat
<1>8. CASE Restart
  BY <1>8, RestartChains
<1>9. CASE UNCHANGED vars
  BY <1>1, <1>2, <1>9 DEF vars, chat
<1> QED
  BY <1>3, <1>4, <1>5, <1>6, <1>7, <1>8, <1>9 DEF Next

\* They hold of every reachable state.
THEOREM ChainsInvariance == Spec => [](Shapes /\ Chains)
<1>1. Init => Shapes /\ Chains
  BY BeginChains
<1>2. Inv /\ BatchInv /\ ReplyInv /\ Shapes /\ Chains /\ [Next]_vars => (Shapes /\ Chains)'
  BY NextKeepsChains
<1> QED
  BY <1>1, <1>2, Invariance, BatchInvariance, ReplyInvariance, PTL DEF Spec

\* The shape of the state, for any number of messages, questions, parts and
\* mishaps: a claim and a place in a queue belong to a task that is still under way,
\* one prompt at a time is past its queue, and one reply per question past its turn
\* (text-harness-bridge.ts:336-358, 393-413).
THEOREM TypeCorrect == Spec => []TypeOK
<1>1. ASSUME Inv, BatchInv, ReplyInv, Shapes, Chains
      PROVE  TypeOK
  <2>1. /\ says \in Chats /\ sent \in 0..Messages /\ at \in [Message -> TaskType]
        /\ queue \in Seq(Message) /\ live \in Pending \cup {None}
        /\ batch.phase \in {"idle", "collecting", "submitting"}
        /\ batch.messages \in Seq(Message) /\ Len(batch.messages) <= Limit
        /\ disk \subseteq seen /\ seen \subseteq Message
    BY <1>1 DEF Shapes, Inv, Snapshots, BatchInv, Batch, ReplyInv
  <2>2. ASSUME NEW m \in Message
        PROVE  /\ at[m].pc \in Prompting => queue # <<>> /\ Head(queue) = m
               /\ at[m].pc \in Replying => IsTurn(m)
    <3>1. Prompted(m) /\ Listed(m)
      BY <1>1 DEF Chains
    <3>2. ASSUME at[m].pc \in Replying
          PROVE  IsTurn(m)
      <4>1. /\ at[m].pend \in Pending
            /\ \E i \in 1..Len(pend[at[m].pend].queue) : pend[at[m].pend].queue[i] = m
        BY <3>1, <3>2 DEF Listed
      <4> DEFINE p == at[m].pend
      <4>2. PICK i \in 1..Len(pend[p].queue) : pend[p].queue[i] = m
        BY <4>1
      <4>3. i = 1
        <5>1. Line(p)
          BY <1>1, <4>1 DEF Chains
        <5>2. at[m].pc # "waiting"
          BY <3>2 DEF Replying
        <5> QED
          BY <4>2, <5>1, <5>2 DEF Line
      <4>4. pend[p].queue \in Seq(Message) /\ p # None
        BY <1>1, <4>1 DEF Shapes, Lines, Pending, None
      <4> QED
        BY <4>2, <4>3, <4>4 DEF IsTurn
    <3> QED
      BY <3>1, <3>2 DEF Prompted
  <2>3. ASSUME NEW p \in Pending
        PROVE  /\ pend[p].claimed # None => Contains(pend[p].queue, pend[p].claimed)
               /\ \A i \in 1..Len(pend[p].queue) :
                    at[pend[p].queue[i]].pc \notin {"idle", "done"}
    <3>1. Line(p)
      BY <1>1 DEF Chains
    <3> QED
      BY <3>1 DEF Line, Outside, Contains
  <2> QED
    BY <2>1, <2>2, <2>3 DEF TypeOK, TaskType, Prompting, Replying
<1> QED
  BY <1>1, Invariance, BatchInvariance, ReplyInvariance, ChainsInvariance, PTL
=============================================================================
