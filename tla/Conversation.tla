---------------------------- MODULE Conversation ----------------------------
(***************************************************************************)
(* The messages of one direct chat: TextHarnessBridge and BatchInputManager *)
(* of plugins/im/src/channels/shared/ (text-harness-bridge.ts,             *)
(* batch-input.ts), with markSeen of conversation-state-store.ts and the   *)
(* turns and event sockets of harness-client.ts.                           *)
(*                                                                         *)
(* accept() decides at once what a message is: part of a batch, a command, *)
(* the answer to a pending question, or the next prompt.  What follows is  *)
(* a task that records the message on disk before it does anything else.   *)
(* JavaScript runs one thread, so a step is the code between two awaits:   *)
(*   - prompts run one after the other (queue, #queues);                   *)
(*   - replies to a question run one after the other (pending.queue);      *)
(*   - /stop, and messages the bridge answers itself, run beside them;     *)
(*   - the callbacks of a turn's socket run one after the other, and go on *)
(*     when the turn is over.                                              *)
(* The process may be restarted and messages delivered again.              *)
(***************************************************************************)
EXTENDS Naturals, Sequences, SequencesExt

CONSTANTS
  Messages,     \* how many messages the user sends at most
  Chats,        \* what they may be, one after the other
  Questions,    \* how many questions the harness asks
  Parts,        \* how many parts a question has
  MaxPending,   \* how many pending-interaction objects are in use at a time
  Limit,        \* BATCH_INPUT_LIMIT
  MaxMishaps    \* how many writes, calls, sends and sockets fail, and how
                \* often the process is restarted

Message  == 1..Messages
Question == 1..Questions
Pending  == 1..MaxPending
Part     == 1..Parts
Kind     == {"text", "media", "/batch", "/send", "/cancel", "/stop"}
None     == 0

ASSUME ConversationAssumption ==
  /\ Messages \in Nat \ {0} /\ Questions \in Nat \ {0} /\ Parts \in Nat \ {0}
  /\ Chats \subseteq SeqOf(Kind, Messages)
  /\ MaxPending \in Nat \ {0} /\ Limit \in Nat \ {0}
  /\ MaxMishaps \in Nat

VARIABLES
  says, sent, \* what the messages are, and how many were sent so far
  at,         \* the task of each message
  queue,      \* #queues: the prompts of this conversation, the first one running
  batch,      \* BatchInputManager: the batch of this conversation
  pend,       \* the pending-interaction objects in use
  live,       \* #pendingInteractions: the one of this conversation
  ask,        \* the harness's side of each question
  sock,       \* the event socket of each prompt's turn
  seen, disk, \* seenMessageIds in memory and in state.json
  uses,       \* history: how often a message was a prompt or an answer
  owed,       \* history: messages collected, not yet answered or cancelled
  mishaps     \* what has been used of the bound

chat    == <<says, sent, seen, disk>>
harness == <<ask, sock>>
history == <<uses, owed>>
vars    == <<chat, at, queue, batch, pend, live, harness, history, mishaps>>

\* A task: where it is, the pending question it was a reply to (claims: and
\* whether it took the place of its answer) with the part asked then, what its
\* write of state.json holds, whether it shows the question itself, and the
\* messages of the batch it submits.
Idle == [pc |-> "idle", pend |-> None, part |-> None, claims |-> FALSE,
         snap |-> {}, shows |-> FALSE, stopped |-> FALSE, batch |-> <<>>]

\* A pending interaction: the question, the part it is at, pending.queue,
\* claimedReplyMessageId, and whether the part still has to be presented, is on
\* its way (presentationTask), or the answers are.
Unused == [of |-> None, index |-> 1, queue |-> <<>>, claimed |-> None,
           needs |-> FALSE, sending |-> FALSE, submitting |-> FALSE]

NoBatch == [phase |-> "idle", messages |-> <<>>, token |-> None]

\* open until ask() returns; connected while a socket is up; the events that
\* wait in callbackTail, and the presentation the callback under way waits for.
Closed == [open |-> FALSE, connected |-> FALSE, events |-> <<>>, busy |-> None]

Init ==
  /\ says \in Chats /\ sent = 0
  /\ at = [m \in Message |-> Idle]
  /\ queue = <<>> /\ batch = NoBatch
  /\ pend = [p \in Pending |-> Unused] /\ live = None
  /\ ask = [q \in Question |-> [of |-> None, state |-> "unasked"]]
  /\ sock = [m \in Message |-> Closed]
  /\ seen = {} /\ disk = {}
  /\ uses = [m \in Message |-> 0] /\ owed = {}
  /\ mishaps = 0

Mishap == mishaps < MaxMishaps /\ mishaps' = mishaps + 1

-----------------------------------------------------------------------------
(* Operators the tasks share.                                               *)

\* A chain of promises: the tasks in it run one after the other, so it is the
\* first one that ends and leaves.
Left(chain, ms) ==
  IF chain # <<>> /\ Head(chain) \in ms THEN Tail(chain) ELSE chain

\* Mutant of Released: the claim of a reply outlives it.
ReleasedUnclaimed(pd, ms) ==
  [p \in Pending |-> [pd[p] EXCEPT !.queue = Left(@, ms)]]

\* The finally of replies: they leave pending.queue and give up their claim.
Released(pd, ms) ==
  [p \in Pending |-> [pd[p] EXCEPT !.queue = Left(@, ms),
                                  !.claimed = IF @ \in ms THEN None ELSE @]]

Done == [Idle EXCEPT !.pc = "done"]

\* Task m ends.
Ends(m) ==
  /\ at' = [at EXCEPT ![m] = Done]
  /\ queue' = Left(queue, {m})
  /\ pend' = Released(pend, {m})

Goes(m, pc) == at' = [at EXCEPT ![m].pc = pc]

\* markSeen up to its await: the write takes a copy of the whole state.
Records(m, pc) ==
  /\ seen' = seen \cup {m}
  /\ at' = [at EXCEPT ![m].pc = pc, ![m].snap = seen']

Open(q)  == ask[q].state = "open"
Asked(m) == {q \in Question : ask[q].of = m /\ Open(q)}

\* The events of a socket about the questions in qs.
Events(kind, qs) == [i \in 1..Cardinality(qs) |->
                       [kind |-> kind, ask |-> SetToSortSeq(qs, <)[i]]]

\* The harness settles questions, and tells the socket of their turn.
Settled(qs) ==
  /\ ask' = [q \in Question |-> IF q \in qs THEN [ask[q] EXCEPT !.state = "settled"]
                                ELSE ask[q]]
  /\ sock' = [m \in Message |->
       IF sock[m].connected
       THEN [sock[m] EXCEPT !.events = @ \o Events("resolved", {q \in qs : ask[q].of = m})]
       ELSE sock[m]]

\* The socket of m's turn closes.  Events that wait behind a callback under way
\* have been received and will be handled; those still on their way are lost.
Received(m) == IF sock[m].busy = None THEN {0} ELSE 0..Len(sock[m].events)

Closing(m, open, busy) ==
  \E n \in Received(m) :
    sock' = [sock EXCEPT ![m] = [open |-> open, connected |-> FALSE,
                                 events |-> SubSeq(sock[m].events, 1, n),
                                 busy |-> busy]]

\* #presentInteraction: joins the presentation on its way, or starts one.
Presenting(pd, p) == [pd EXCEPT ![p].sending = TRUE]

-----------------------------------------------------------------------------
(* accept.                                                                  *)

Command == {"/batch", "/send", "/cancel"}

\* BatchInputManager.handle: the batch it leaves, and whether the bridge answers
\* the message itself, submits the batch, or goes on with the message.
Handled(m, s) ==
  LET collecting == batch.phase = "collecting" IN
  CASE batch.phase = "idle" /\ s = "/batch" ->
         <<"local", [NoBatch EXCEPT !.phase = "collecting"]>>
    [] collecting /\ s = "/cancel" -> <<"local", NoBatch>>
    [] collecting /\ s = "/send" /\ batch.messages # <<>> ->
         <<"submit", [batch EXCEPT !.phase = "submitting", !.token = m]>>
    [] collecting /\ s = "text" /\ Len(batch.messages) < Limit ->
         <<"local", [batch EXCEPT !.messages = Append(@, m)]>>
    [] ~collecting /\ s \notin Command -> <<"on", batch>>
    [] OTHER -> <<"local", batch>>

\* #enqueueMessage.
Enqueue(m, messages) ==
  /\ at' = [at EXCEPT ![m].pc = "queued", ![m].batch = messages]
  /\ queue' = Append(queue, m)

\* Mutant of CanClaimInteractionReply: a text is taken as an answer, but does not
\* keep the next one from being taken as one too.
CanNeverClaim(s) == FALSE

CanClaimInteractionReply(s) == s = "text"

\* A message that is not for the batch: /stop runs beside the queue; one that
\* finds a pending question nobody has claimed replies to it, and claims it if
\* it is text; any other is the next prompt.
AcceptOther(m, s) ==
  IF s = "/stop"
  THEN Records(m, "stopping") /\ UNCHANGED <<queue, pend>>
  ELSE /\ UNCHANGED seen
       /\ IF live = None \/ pend[live].submitting \/ pend[live].claimed # None
          THEN Enqueue(m, <<>>) /\ UNCHANGED pend
          ELSE LET claims == CanClaimInteractionReply(s) IN
               /\ at' = [at EXCEPT ![m] = [Idle EXCEPT !.pc = "waiting", !.pend = live,
                                             !.part = pend[live].index, !.claims = claims]]
               /\ pend' = [pend EXCEPT ![live].queue = Append(@, m),
                                       ![live].claimed = IF claims THEN m ELSE @]
               /\ UNCHANGED queue

\* accept: a message recorded before is dropped; /batch is refused while the
\* conversation is busy; then it is the batch's, or goes on.
Accept(m) ==
  /\ at[m].pc = "idle" /\ m \notin seen
  /\ m <= sent + 1 /\ m <= Len(says)
  /\ sent' = IF m > sent THEN m ELSE sent
  /\ LET busy == says[m] = "/batch" /\ (queue # <<>> \/ live # None)
         result == IF busy THEN <<"local", batch>> ELSE Handled(m, says[m])
         collects == Len(result[2].messages) > Len(batch.messages)
         drops == says[m] = "/cancel" /\ result[2] # batch
     IN  /\ batch' = result[2]
         /\ owed' = IF collects THEN owed \cup {m} ELSE IF drops THEN {} ELSE owed
         /\ CASE result[1] = "local" -> Records(m, "local") /\ UNCHANGED <<queue, pend>>
              [] result[1] = "submit" -> Enqueue(m, batch.messages) /\ UNCHANGED <<seen, pend>>
              [] result[1] = "on" -> AcceptOther(m, says[m])
  /\ UNCHANGED <<says, disk, live, harness, uses, mishaps>>

-----------------------------------------------------------------------------
(* markSeen: state.json.                                                    *)

Writing == {"local", "stopping", "marking", "recording", "discarding"}

\* What a task does when the message is recorded.
Then(pc) == CASE pc = "stopping"   -> "stop"
              [] pc = "marking"    -> "prepare"
              [] pc = "discarding" -> "notice"

\* The write queue of the store: the writes end in the order they began.
IsNextWrite(m) ==
  /\ at[m].pc \in Writing
  /\ \A n \in Message : at[n].pc \in Writing => at[m].snap \subseteq at[n].snap

Recorded(m) ==
  /\ IsNextWrite(m)
  /\ at[m].pc # "recording"
  /\ disk' = at[m].snap
  /\ at' = [at EXCEPT ![m] = IF at[m].pc = "local" THEN Done
                             ELSE [@ EXCEPT !.pc = Then(at[m].pc), !.snap = {}]]
  /\ UNCHANGED <<says, sent, seen, queue, batch, pend, live, harness, history, mishaps>>

\* A write that fails ends the task: the rejection is nobody's business but the
\* status reaction's.  The message stays among those seen in memory.
RecordFails(m) ==
  /\ IsNextWrite(m) /\ Mishap
  /\ Ends(m)
  /\ UNCHANGED <<chat, batch, live, harness, history>>

-----------------------------------------------------------------------------
(* #process: a prompt and its turn.                                         *)

\* Mutant of Begins: it does not wait until the message is on disk.
BeginsUnrecorded(m) ==
  /\ at[m].pc = "queued" /\ Head(queue) = m
  /\ Records(m, "prepare")
  /\ UNCHANGED <<says, sent, disk, queue, batch, pend, live, harness, history, mishaps>>

\* The prompt is first in the queue, and not recorded yet: a reply that was put
\* back had not got so far.
Begins(m) ==
  /\ at[m].pc = "queued" /\ Head(queue) = m
  /\ Records(m, "marking")
  /\ UNCHANGED <<says, sent, disk, queue, batch, pend, live, harness, history, mishaps>>

\* ask(): a session is found or created, the socket opened and the prompt
\* accepted.  Questions an earlier turn left open are repeated on that socket
\* as recovered, and cancelled.
Prompts(m) ==
  /\ at[m].pc = "prepare"
  /\ Goes(m, "asking")
  /\ ask' = [q \in Question |-> IF Open(q) THEN [ask[q] EXCEPT !.state = "settled"]
                                ELSE ask[q]]
  /\ sock' = [sock EXCEPT ![m] =
       [Closed EXCEPT !.open = TRUE, !.connected = TRUE,
                      !.events = Events("resolved", {q \in Question : Open(q)})]]
  /\ uses' = [uses EXCEPT ![m] = @ + 1]
  /\ UNCHANGED <<chat, queue, batch, pend, live, owed, mishaps>>

\* BatchInputManager.complete and fail, for the token of message m.
Completes(m) ==
  IF at[m].batch # <<>> /\ batch.phase = "submitting" /\ batch.token = m
  THEN batch' = NoBatch /\ owed' = owed \ ToSet(at[m].batch)
  ELSE UNCHANGED <<batch, owed>>

\* Mutant of Retains: a failed batch is forgotten.
RetainsNothing(m) ==
  IF at[m].batch # <<>> /\ batch.phase = "submitting" /\ batch.token = m
  THEN batch' = NoBatch
  ELSE UNCHANGED batch

Retains(m) ==
  IF at[m].batch # <<>> /\ batch.phase = "submitting" /\ batch.token = m
  THEN batch' = [batch EXCEPT !.phase = "collecting", !.token = None]
  ELSE UNCHANGED batch

\* ask() returns, and its socket is closed for good.
Returns(m) == Closing(m, FALSE, sock[m].busy)

\* The turn ends with an answer; the harness waits for its questions first.
Answered(m) ==
  /\ at[m].pc = "asking" /\ Asked(m) = {}
  /\ Goes(m, "deliver")
  /\ Returns(m)
  /\ UNCHANGED <<chat, queue, batch, pend, live, ask, history, mishaps>>

\* The turn was stopped and left no answer: turn-stopped.
Stopped(m) ==
  /\ at[m].pc = "asking" /\ at[m].stopped
  /\ Goes(m, "closing")
  /\ Completes(m)
  /\ Returns(m)
  /\ UNCHANGED <<chat, queue, pend, live, ask, uses, mishaps>>

\* Preparing, asking or delivering fails.  A turn given up because the harness
\* cannot be reached goes on there, with its questions.
TurnFails(m) ==
  /\ at[m].pc \in {"prepare", "asking", "deliver"} /\ Mishap
  /\ ~(at[m].pc = "asking" /\ at[m].stopped)
  /\ Goes(m, "closing")
  /\ Retains(m)
  /\ Returns(m)
  /\ UNCHANGED <<chat, queue, pend, live, ask, history>>

\* Whatever question is pending is taken from the chat, to be cancelled.
TakesPending(m) ==
  /\ live' = None
  /\ at' = [at EXCEPT ![m].pc = "cancelling", ![m].pend = live]

\* The answer is in the chat; the finally of #process follows.
Delivered(m) ==
  /\ at[m].pc = "deliver"
  /\ Completes(m)
  /\ TakesPending(m)
  /\ UNCHANGED <<chat, queue, pend, harness, uses, mishaps>>

\* So it does after the notice of a turn that was stopped or failed.
Closes(m) ==
  /\ at[m].pc = "closing"
  /\ TakesPending(m)
  /\ UNCHANGED <<chat, queue, batch, pend, harness, history, mishaps>>

\* The cancellation has arrived.
Cancelled(m) ==
  /\ at[m].pc = "cancelling"
  /\ LET p == at[m].pend IN
       IF p # None /\ Open(pend[p].of) THEN Settled({pend[p].of})
       ELSE UNCHANGED harness
  /\ Ends(m)
  /\ UNCHANGED <<chat, batch, live, history, mishaps>>

\* It is lost, and the harness keeps the question open.
CancelFails(m) ==
  /\ at[m].pc = "cancelling" /\ at[m].pend # None /\ Mishap
  /\ Ends(m)
  /\ UNCHANGED <<chat, batch, live, harness, history>>

\* /stop: stopActiveTurn looks for the running turn, the harness stops it and
\* drops its questions, and the pending one is taken from the chat.
StopTurn(m) ==
  /\ at[m].pc = "stop"
  /\ IF queue # <<>> /\ at[Head(queue)].pc = "asking"
     THEN /\ live' = None
          /\ at' = [at EXCEPT ![m].pc = "cancelling", ![m].pend = live,
                              ![Head(queue)].stopped = TRUE]
          /\ Settled(Asked(Head(queue)))
     ELSE at' = [at EXCEPT ![m] = Done] /\ UNCHANGED <<live, harness>>
  /\ UNCHANGED <<chat, queue, batch, pend, history, mishaps>>

-----------------------------------------------------------------------------
(* The harness's questions, and the callbacks of a turn's socket.           *)

\* The running turn asks a question.
HarnessAsks(q) ==
  /\ ask[q].state = "unasked"
  /\ \A r \in 1..(q - 1) : ask[r].state # "unasked"
  /\ queue # <<>>
  /\ LET m == Head(queue) IN
       /\ at[m].pc = "asking" /\ ~at[m].stopped
       /\ ask' = [ask EXCEPT ![q] = [of |-> m, state |-> "open"]]
       /\ sock' = IF sock[m].connected
                  THEN [sock EXCEPT ![m].events = @ \o Events("requested", {q})]
                  ELSE sock
  /\ UNCHANGED <<chat, at, queue, batch, pend, live, history, mishaps>>

\* Another client answers it.
AnsweredElsewhere(q) ==
  /\ Open(q)
  /\ Settled({q})
  /\ UNCHANGED <<chat, at, queue, batch, pend, live, history, mishaps>>

Disconnects(m) ==
  /\ sock[m].connected /\ Mishap
  /\ Closing(m, TRUE, sock[m].busy)
  /\ UNCHANGED <<chat, at, queue, batch, pend, live, ask, history>>

\* watchInteractions opens the next socket when the callbacks of the last one
\* have ended; the harness repeats the questions that are still open.
Reconnects(m) ==
  /\ sock[m].open /\ ~sock[m].connected
  /\ sock[m].events = <<>> /\ sock[m].busy = None
  /\ sock' = [sock EXCEPT ![m].connected = TRUE,
                ![m].events = Events("requested", Asked(m))]
  /\ UNCHANGED <<chat, at, queue, batch, pend, live, ask, history, mishaps>>

\* A callback of the socket of m may run.
Receives(m, kind) ==
  /\ sock[m].busy = None /\ sock[m].events # <<>>
  /\ Head(sock[m].events).kind = kind

\* Nobody has the object any more, and a new one may take its number.
Free(p) == live # p /\ ~pend[p].sending /\ \A m \in Message : at[m].pend # p

\* handleInteraction: a repeated question is shown if it was not, a second one
\* beside another is cancelled, and a new one becomes the pending one.
Requested(m) ==
  /\ Receives(m, "requested")
  /\ LET q == Head(sock[m].events).ask
         handled == [sock EXCEPT ![m].events = Tail(@)]
     IN \/ /\ live # None /\ pend[live].of = q
           /\ IF pend[live].needs
              THEN /\ pend' = Presenting(pend, live)
                   /\ sock' = [handled EXCEPT ![m].busy = live]
              ELSE sock' = handled /\ UNCHANGED pend
           /\ UNCHANGED <<live, ask>>
        \/ /\ live # None /\ pend[live].of # q
           /\ ask' = [ask EXCEPT ![q].state = IF Open(q) THEN "settled" ELSE @]
           /\ sock' = handled
           /\ UNCHANGED <<pend, live>>
        \/ /\ live = None
           /\ \E p \in Pending :
                /\ Free(p) /\ \A r \in 1..(p - 1) : ~Free(r)
                /\ live' = p
                /\ pend' = [pend EXCEPT ![p] = [Unused EXCEPT !.of = q, !.needs = TRUE,
                                                              !.sending = TRUE]]
                /\ sock' = [handled EXCEPT ![m].busy = p]
           /\ UNCHANGED ask
  /\ UNCHANGED <<chat, at, queue, batch, history, mishaps>>

\* handleInteractionResolved.
Resolved(m) ==
  /\ Receives(m, "resolved")
  /\ sock' = [sock EXCEPT ![m].events = Tail(@)]
  /\ live' = IF live # None /\ pend[live].of = Head(sock[m].events).ask
             THEN None ELSE live
  /\ UNCHANGED <<chat, at, queue, batch, pend, ask, history, mishaps>>

\* The replies that wait for the presentation of p.
Awaiting(p) == {m \in Message : at[m].pend = p /\ at[m].pc \in {"presenting", "following"}}

\* The presentation of p is over: the callback that waited for it goes on, and
\* so do the replies, of which those in ms have nothing left to do.
Presented(p, ms, shown) ==
  /\ at' = [m \in Message |->
       IF m \in ms THEN Done
       ELSE IF m \in Awaiting(p)
            THEN [at[m] EXCEPT !.pc = IF live = p THEN "answering" ELSE "notice"]
       ELSE at[m]]
  /\ pend' = Released([pend EXCEPT ![p].sending = FALSE, ![p].needs = ~shown], ms)

\* The message with the question is in the chat.  A reply that asked for it
\* itself is no answer to it.
Shown(p) ==
  /\ pend[p].sending
  /\ Presented(p, {m \in Awaiting(p) : at[m].pc = "following" \/ (at[m].shows /\ live = p)},
               TRUE)
  /\ sock' = [m \in Message |-> IF sock[m].busy = p THEN [sock[m] EXCEPT !.busy = None]
                                ELSE sock[m]]
  /\ UNCHANGED <<chat, queue, batch, live, ask, history, mishaps>>

\* Mutant of ShowFails: nobody makes the socket reconnect.
ShowFailsQuietly(p) ==
  /\ pend[p].sending /\ Mishap
  /\ Presented(p, Awaiting(p), FALSE)
  /\ sock' = [m \in Message |-> IF sock[m].busy = p THEN [sock[m] EXCEPT !.busy = None]
                                ELSE sock[m]]
  /\ UNCHANGED <<chat, queue, batch, live, ask, history>>

\* Sending it fails: the callback rejects or the reply calls reconnect, and the
\* next socket repeats the question.
ShowFails(p) ==
  /\ pend[p].sending /\ Mishap
  /\ Presented(p, Awaiting(p), FALSE)
  /\ LET m == ask[pend[p].of].of IN
       Closing(m, sock[m].open, IF sock[m].busy = p THEN None ELSE sock[m].busy)
  /\ UNCHANGED <<chat, queue, batch, live, ask, history>>

-----------------------------------------------------------------------------
(* #processInteractionReply.                                                *)

IsTurn(m) == at[m].pend # None /\ Head(pend[at[m].pend].queue) = m

\* The replies before it are done.  If its question is gone a claimed answer is
\* recorded and discarded, anything else becomes the next prompt, which it
\* stays in pending.queue to wait for.
Replies(m) ==
  /\ at[m].pc = "waiting" /\ IsTurn(m)
  /\ IF live # at[m].pend
     THEN IF at[m].claims THEN Records(m, "discarding") /\ UNCHANGED queue
          ELSE Enqueue(m, <<>>) /\ UNCHANGED seen
     ELSE Records(m, "recording") /\ UNCHANGED queue
  /\ UNCHANGED <<says, sent, disk, batch, pend, live, harness, history, mishaps>>

\* Recorded: an image is turned away, an answer to a question that is gone is
\* discarded, and one to a question that was not shown shows it first.
ReplyRecorded(m) ==
  LET p == at[m].pend IN
  /\ IsNextWrite(m) /\ at[m].pc = "recording"
  /\ disk' = at[m].snap
  /\ LET answers == live = p /\ says[m] = "text" IN
     IF answers /\ pend[p].needs
     THEN /\ at' = [at EXCEPT ![m].pc = "presenting", ![m].snap = {},
                              ![m].shows = ~pend[p].sending]
          /\ pend' = Presenting(pend, p)
     ELSE /\ at' = [at EXCEPT ![m].snap = {}, ![m].pc =
                       IF answers THEN "answering" ELSE "notice"]
          /\ UNCHANGED pend
  /\ UNCHANGED <<says, sent, seen, queue, batch, live, harness, history, mishaps>>

\* The text answers the part the question is at: the next part is shown, or the
\* answers are submitted.
TakesAnswer(m) ==
  LET p == at[m].pend IN
  /\ at[m].pc = "answering"
  /\ IF live # p
     THEN Goes(m, "notice") /\ UNCHANGED <<pend, uses>>
     ELSE /\ uses' = [uses EXCEPT ![m] = @ + 1]
          /\ IF pend[p].index < Parts
             THEN /\ Goes(m, "following")
                  /\ pend' = [pend EXCEPT ![p].index = @ + 1, ![p].claimed = None,
                                          ![p].needs = TRUE, ![p].sending = TRUE]
             ELSE /\ Goes(m, "submitting")
                  /\ pend' = [pend EXCEPT ![p].submitting = TRUE]
  /\ UNCHANGED <<chat, queue, batch, live, harness, owed, mishaps>>

\* respond arrives at the harness.  The signal of a turn that is over aborts it.
RespondArrives(m) ==
  /\ at[m].pc = "submitting"
  /\ LET q == pend[at[m].pend].of IN
       IF ~sock[ask[q].of].open THEN Goes(m, "failed") /\ UNCHANGED harness
       ELSE IF Open(q) THEN Settled({q}) /\ Goes(m, "accepted")
       ELSE Goes(m, "refused") /\ UNCHANGED harness
  /\ UNCHANGED <<chat, queue, batch, pend, live, history, mishaps>>

\* The call fails, before or after the harness took the answer.
RespondFails(m) ==
  /\ at[m].pc = "submitting" /\ Mishap
  /\ Goes(m, "failed")
  /\ LET q == pend[at[m].pend].of IN
       \/ UNCHANGED harness
       \/ Open(q) /\ Settled({q})
  /\ UNCHANGED <<chat, queue, batch, pend, live, history>>

\* The answer was taken, or comes too late: the question is gone.
Submitted(m) ==
  /\ at[m].pc \in {"accepted", "refused"}
  /\ live' = IF live # None /\ pend[live].of = pend[at[m].pend].of THEN None ELSE live
  /\ IF at[m].pc = "accepted" THEN Ends(m)
     ELSE Goes(m, "notice") /\ UNCHANGED <<queue, pend>>
  /\ UNCHANGED <<chat, batch, harness, history, mishaps>>

\* It was not: the part is open again, and the user is asked to repeat it.
SubmitFailed(m) ==
  LET p == at[m].pend IN
  /\ at[m].pc = "failed"
  /\ IF live = p
     THEN /\ Goes(m, "notice") /\ UNCHANGED queue
          /\ pend' = [pend EXCEPT ![p].submitting = FALSE]
     ELSE Ends(m)
  /\ UNCHANGED <<chat, batch, live, harness, history, mishaps>>

\* The notice was sent.
NoticeSent(m) ==
  /\ at[m].pc = "notice"
  /\ Ends(m)
  /\ UNCHANGED <<chat, batch, live, harness, history, mishaps>>

-----------------------------------------------------------------------------
\* The process ends and is started again: what is not on disk is gone.
Restart ==
  /\ Mishap
  /\ at' = [m \in Message |-> Idle]
  /\ queue' = <<>> /\ batch' = NoBatch /\ live' = None
  /\ pend' = [p \in Pending |-> Unused]
  /\ sock' = [m \in Message |-> Closed]
  /\ seen' = disk /\ owed' = {}
  /\ UNCHANGED <<says, sent, disk, ask, uses>>

\* What a message does by itself, what a turn's socket does, and the turn's end.
TaskStep(m) ==
  \/ Recorded(m) \/ Begins(m) \/ Prompts(m) \/ Delivered(m) \/ Closes(m)
  \/ Cancelled(m) \/ StopTurn(m) \/ Replies(m) \/ ReplyRecorded(m)
  \/ TakesAnswer(m) \/ RespondArrives(m) \/ Submitted(m) \/ SubmitFailed(m)
  \/ NoticeSent(m)

SocketStep(m) == Requested(m) \/ Resolved(m) \/ Reconnects(m)

TurnEnds(m) == Answered(m) \/ Stopped(m)

Failure(m) == \/ RecordFails(m) \/ TurnFails(m) \/ CancelFails(m)
              \/ RespondFails(m) \/ Disconnects(m)

Next ==
  \/ \E m \in Message : \/ Accept(m) \/ TaskStep(m) \/ SocketStep(m)
                         \/ TurnEnds(m) \/ Failure(m)
  \/ \E p \in Pending : Shown(p) \/ ShowFails(p)
  \/ \E q \in Question : HarnessAsks(q) \/ AnsweredElsewhere(q)
  \/ Restart

Spec == Init /\ [][Next]_vars

\* The event loop runs, writes, sends and calls end, sockets are opened again,
\* and a turn without an open question comes to its end.  Nobody has to write,
\* to ask, to stop, to answer or to fail.
Fairness ==
  /\ \A m \in Message : /\ WF_vars(TaskStep(m)) /\ WF_vars(SocketStep(m))
                         /\ WF_vars(TurnEnds(m))
  /\ \A p \in Pending : WF_vars(Shown(p))

FairSpec == Spec /\ Fairness

-----------------------------------------------------------------------------
(* Correctness.                                                             *)

PC == {"idle", "local", "stopping", "stop", "queued", "marking", "prepare",
       "asking", "deliver", "closing", "cancelling", "waiting", "recording",
       "presenting", "following", "answering", "submitting", "accepted",
       "refused", "failed", "discarding", "notice", "done"}

\* The shape of the state, and what the tasks rely on everywhere: a claim and a
\* place in a queue belong to a task that is still under way, one prompt at a
\* time is past its queue, and one reply per question past its turn
\* (text-harness-bridge.ts:336-358, 393-413).
TypeOK ==
  /\ says \in Chats /\ sent \in 0..Messages
  /\ at \in [Message -> [pc : PC, pend : Pending \cup {None}, part : Part \cup {None},
                         claims : BOOLEAN, snap : SUBSET Message, shows : BOOLEAN,
                         stopped : BOOLEAN, batch : Seq(Message)]]
  /\ queue \in Seq(Message) /\ live \in Pending \cup {None}
  /\ batch.phase \in {"idle", "collecting", "submitting"}
  /\ batch.messages \in Seq(Message) /\ Len(batch.messages) <= Limit
  /\ disk \subseteq seen /\ seen \subseteq Message
  /\ \A m \in Message :
       /\ at[m].pc \in {"marking", "prepare", "asking", "deliver", "closing"}
            => queue # <<>> /\ Head(queue) = m
       /\ at[m].pc \in {"recording", "presenting", "following", "answering",
                        "submitting", "accepted", "refused", "failed"} => IsTurn(m)
  /\ \A p \in Pending :
       /\ pend[p].claimed # None => Contains(pend[p].queue, pend[p].claimed)
       /\ \A i \in 1..Len(pend[p].queue) :
            at[pend[p].queue[i]].pc \notin {"idle", "done"}

\* A message is asked as a prompt or taken as an answer, and that once, although
\* it may be delivered again after a restart at any moment: its id is on disk
\* before either (text-harness-bridge.ts:518, 856; conversation-state-store.ts:92).
NeverTwice == \A m \in Message : uses[m] <= 1

\* What the harness gets as the answer to a part was written while the chat was
\* at that part of that question, however replies, images, failing sends and
\* answers from elsewhere are interleaved; and a text that took the place of an
\* answer never ends up as a prompt of its own, but is discarded when the
\* question is gone (text-harness-bridge.ts:333-339, 847-854, 906-921).
RepliesFitTheirQuestion ==
  [][\A m \in Message :
       /\ at[m].pc = "answering" /\ uses'[m] # uses[m]
            => live = at[m].pend /\ at[m].part = pend[live].index
       /\ at'[m].pc = "queued" => ~at[m].claims]_vars

\* Messages the bot collected stay in the batch until it has answered them, or
\* the user has cancelled it or stopped their turn: a submission that fails,
\* wherever it does, leaves them for the next /send (batch-input.ts:196-220).
CollectedAreKept == owed \subseteq ToSet(batch.messages)

WaitsForUser ==
  live # None /\ ~pend[live].needs /\ pend[live].queue = <<>>

\* A question that became the pending one after its turn had ended: the callback
\* waited behind another in callbackTail.
Stranded == live # None /\ ~sock[ask[pend[live].of].of].open

\* A submission whose message could not be recorded.
LostSubmission == batch.phase = "submitting" /\ at[batch.token].pc = "done"

\* The chat always comes to rest, or to a question that is shown and waits for
\* its user: no message, reply, batch or question is left hanging, whatever
\* fails (text-harness-bridge.ts:336-358, 835-841, 893-922, 1091-1117).  Two cases in which the code
\* does leave them are excluded by name.
ChatSettles ==
  []<>(\/ \A m \in Message : at[m].pc \in {"idle", "done"} /\ batch.phase # "submitting"
       \/ WaitsForUser \/ Stranded \/ LostSubmission)

\* What the bot tells the user of a failed /send (batch-input.ts:217-218, and the
\* test of batch-input.test.ts:163): the messages are kept for another /send or
\* /cancel.  A submission that has ended is no longer submitting.
FailedSendsCanBeRetried == ~LostSubmission
=============================================================================
