-------------------------- MODULE HarnessApproval --------------------------
(***************************************************************************)
(* Tool approvals of one IM conversation: HarnessApprovalQueue of          *)
(* plugins/im/src/channels/shared/harness-approval.ts, fed by the event    *)
(* socket of harness-client.ts and by the messages that                    *)
(* text-harness-bridge.ts accepts.                                         *)
(*                                                                         *)
(* The harness asks for approvals; the bot shows them in the chat one at a *)
(* time; the actor's reply is submitted as the decision.  JavaScript runs  *)
(* one thread, so a step is what happens between two awaits.  What waits:  *)
(*   - Handler, the event callbacks of the socket, one after the other;    *)
(*   - one task per chat message that claimed an approval, first come      *)
(*     first served per approval (replyTail);                              *)
(*   - the message carrying a prompt, one per approval at most             *)
(*     (presentationTask), and the rejections of closeRoute.               *)
(***************************************************************************)
EXTENDS Naturals, Sequences, SequencesExt

CONSTANTS
  Asks,         \* how many approvals the harness asks for
  Replies,      \* how many messages the people in the chat send
  Says,         \* what they may say: decide, "other", or as a "stranger"
  Elsewhere,    \* how another client may settle an approval
  Questions,    \* whether the harness may also ask the actor a question
  MaxPending,   \* how many entries the queue creates for them
  MaxFailures,  \* how many calls, sends and sockets fail
  MaxCloses     \* how often the conversation's turn ends or is stopped

ASSUME BoundsAssumption ==
  /\ Asks \in Nat \ {0} /\ Replies \in Nat \ {0}
  /\ MaxPending \in Nat \ {0} /\ MaxFailures \in Nat /\ MaxCloses \in Nat

Decision == {"allowed", "rejected"}
Outcome  == Decision \cup {"resolved"}

ASSUME InputAssumption ==
  /\ Says \subseteq Decision \cup {"other", "stranger"}
  /\ Elsewhere \subseteq Decision
  /\ Questions \in BOOLEAN

Approval == 1..Asks
Pending  == 1..MaxPending
Reply    == 1..Replies
Handler  == 0
NoOne    == 0
Thread   == {Handler} \cup Reply

VARIABLES
  ask,        \* the harness's side of each approval
  stream,     \* events received and not yet handled
  connected,  \* the event socket is open
  route,      \* ApprovalRoute.items of this conversation
  item,       \* the PendingApproval objects, in the order of their creation
  at,         \* where each task is, and what its message was and captured
  told,       \* the outcomes the chat was told, per entry
  question,   \* a live ask_user_question of the same conversation
  failures, closes   \* what has been used of the bounds

vars == <<ask, stream, connected, route, item, at, told, question,
          failures, closes>>

env == <<question, failures, closes>>

\* A task: the entry it is about, the one to promote after it and what to tell
\* the chat; for a message what it says, the entry it claimed, the messages
\* before it in that entry's replyTail, whether the entry was presented by then
\* and whether a live question puts it off.
Idle == [pc |-> "idle", item |-> NoOne, next |-> NoOne, text |-> "none",
         says |-> "none", claimed |-> NoOne, before |-> {},
         shown |-> FALSE, deferred |-> FALSE]
Done == [Idle EXCEPT !.pc = "done"]
Over(t) == IF t = Handler THEN Idle ELSE Done

\* An entry: the approval it is for, the fields of PendingApproval ("sending"
\* is presentationTask, "barrier" activationTask; "closing" follows closeRoute
\* up to closedOutcome) and the entries it queued behind.
Unused == [of |-> NoOne, inactive |-> FALSE, resolving |-> FALSE,
           presented |-> FALSE, delivered |-> FALSE, sending |-> FALSE,
           barrier |-> FALSE, notified |-> FALSE, closing |-> "no",
           behind |-> {}]

Init ==
  /\ ask = [a \in Approval |-> "unasked"]
  /\ stream = <<>>
  /\ connected = TRUE
  /\ route = <<>>
  /\ item = [p \in Pending |-> Unused]
  /\ at = [t \in Thread |-> Idle]
  /\ told = [p \in Pending |-> <<>>]
  /\ question = "unasked"
  /\ failures = 0 /\ closes = 0

-----------------------------------------------------------------------------
(* The operators the handlers share.                                        *)

Queued(p)   == \E i \in 1..Len(route) : route[i] = p
Without(p)  == IF Queued(p) THEN RemoveAt(route, CHOOSE i \in 1..Len(route) : route[i] = p)
                            ELSE route
Event(k, a) == [kind |-> k, ask |-> a]

\* The entry #byId has for an approval, and the next one to be created.
Live(a) == {p \in Pending : item[p].of = a /\ ~item[p].inactive}
IsNew(p) == item[p].of = NoOne /\ \A q \in 1..(p - 1) : item[q].of # NoOne

\* What #remove returns: the new head, when the removed one was the head.
NextOf(p) ==
  IF Len(route) > 1 /\ Head(route) = p THEN route[2] ELSE NoOne

\* The harness settles an approval and tells the socket, if it is open.
Settles(a, outcome) ==
  /\ ask' = [ask EXCEPT ![a] = outcome]
  /\ stream' = IF connected THEN Append(stream, Event("resolved", a)) ELSE stream

ClosedOutcome(p) == item[p].closing \in {"rejected", "resolved"}

\* Mutant of Presentable: any live entry may be shown, head or not.
PresentableAnywhere(it, rt, p) ==
  /\ p # NoOne
  /\ ~it[p].inactive /\ ~it[p].resolving /\ ~it[p].presented

\* The condition both halves of #present test.
Presentable(it, rt, p) ==
  /\ p # NoOne /\ rt # <<>> /\ Head(rt) = p
  /\ ~it[p].inactive /\ ~it[p].resolving /\ ~it[p].presented

\* Task t calls #present(p) while the items are it and the route rt: it waits
\* behind the route barrier, joins the prompt on its way, or sends it.
Present(t, p, it, rt) ==
  IF ~Presentable(it, rt, p)
  THEN item' = it /\ at' = [at EXCEPT ![t] = Over(t)]
  ELSE /\ item' = [it EXCEPT ![p].sending = ~it[p].barrier]
       /\ at' = [at EXCEPT ![t] = [Idle EXCEPT
                    !.pc = IF it[p].barrier THEN "present" ELSE "shown",
                    !.item = p, !.claimed = at[t].claimed]]

\* #remove(p), then #transition: the barrier is up for the next entry while
\* task t tells the chat the outcome; with nothing to tell it comes down at
\* once and #promote follows.
Transition(t, p, text, pc) ==
  LET next == NextOf(p)
      it   == [item EXCEPT ![p].inactive = TRUE]
  IN  /\ route' = Without(p)
      /\ IF pc = "promote"
         THEN Present(t, next, it, Without(p))
         ELSE /\ item' = [q \in Pending |->
                   IF q = p THEN [it[q] EXCEPT !.notified =
                                    @ \/ (t = Handler /\ pc = "notify")]
                   ELSE IF q = next THEN [it[q] EXCEPT !.barrier = TRUE]
                   ELSE it[q]]
              /\ at' = [at EXCEPT ![t] = [Idle EXCEPT !.pc = pc, !.item = p,
                                            !.next = next, !.text = text,
                                            !.claimed = at[t].claimed]]

-----------------------------------------------------------------------------
(* The harness, and its event socket.                                       *)

\* The harness asks for approvals in the order of their numbers.
AskFor(a) ==
  /\ ask[a] = "unasked"
  /\ \A b \in 1..(a - 1) : ask[b] # "unasked"
  /\ ask' = [ask EXCEPT ![a] = "open"]
  /\ stream' = IF connected THEN Append(stream, Event("requested", a)) ELSE stream
  /\ UNCHANGED <<connected, route, item, at, told, env>>

\* Another client decides, or the harness gives the request up.
SettledElsewhere(a) ==
  /\ ask[a] = "open"
  /\ \E outcome \in Elsewhere : Settles(a, outcome)
  /\ UNCHANGED <<connected, route, item, at, told, env>>

Disconnect ==
  /\ connected /\ failures < MaxFailures
  /\ failures' = failures + 1
  /\ connected' = FALSE
  /\ UNCHANGED <<ask, stream, route, item, at, told, question, closes>>

\* A set of approvals in the order they were asked for.
InOrder(as) ==
  {s \in [1..Cardinality(as) -> as] : \A i, j \in DOMAIN s : i < j => s[i] < s[j]}

\* watchInteractions opens the next socket once the callbacks of the last one
\* have ended; the harness then repeats the requests that are still open.
Reconnect ==
  /\ ~connected /\ at[Handler].pc = "idle" /\ stream = <<>>
  /\ connected' = TRUE
  /\ \E s \in InOrder({a \in Approval : ask[a] = "open"}) :
       stream' = [i \in DOMAIN s |-> Event("requested", s[i])]
  /\ UNCHANGED <<ask, route, item, at, told, env>>

\* ask_user_question: "open" until a message claims it, "answering" while that
\* message is processed, "orphan" if it was settled elsewhere meanwhile.  It may
\* be asked and claimed at once, by a message that is none of the Replies.
QuestionMoves ==
  /\ \/ question = "unasked"   /\ Questions /\ question' \in {"open", "answering"}
     \/ question = "open"      /\ question' = "over"
     \/ question = "answering" /\ question' \in {"open", "over", "orphan"}
     \/ question = "orphan"    /\ question' = "over"
  /\ UNCHANGED <<ask, stream, connected, route, item, at, told,
                 failures, closes>>

QuestionPending == question \in {"open", "answering"}
AnswerRunning   == question \in {"answering", "orphan"}

-----------------------------------------------------------------------------
(* The event callbacks.                                                     *)

\* handleRequested: a repeated request is shown if it was not; one #byId does
\* not have joins the route, and is shown when it is alone in it.  A recovered
\* one and one that cannot be shown in full are rejected unseen.
Requested ==
  /\ at[Handler].pc = "idle" /\ stream # <<>>
  /\ Head(stream).kind = "requested"
  /\ LET a == Head(stream).ask IN
       \/ \E p \in Live(a) :
            /\ Present(Handler, p, item, route)
            /\ stream' = Tail(stream)
            /\ UNCHANGED <<ask, route>>
       \/ \E p \in Pending :
            /\ Live(a) = {} /\ IsNew(p)
            /\ route' = Append(route, p)
            /\ Present(Handler, p,
                       [item EXCEPT ![p].of = a,
                                    ![p].behind = {route[i] : i \in 1..Len(route)}],
                       Append(route, p))
            /\ stream' = Tail(stream)
            /\ UNCHANGED ask
       \/ /\ Live(a) = {}
          /\ ask' = [ask EXCEPT ![a] = IF @ = "open" THEN "rejected" ELSE @]
          /\ stream' = IF ask[a] = "open" /\ connected
                       THEN Append(Tail(stream), Event("resolved", a))
                       ELSE Tail(stream)
          /\ UNCHANGED <<route, item, at>>
  /\ UNCHANGED <<connected, told, env>>

\* handleResolved, from the removal on: the outcome is told to a chat that has
\* seen the prompt, or will once the prompt on its way arrives.
Resolve(p) ==
  Transition(Handler, p, ask[item[p].of],
             IF item[p].sending THEN "confirm"
             ELSE IF item[p].presented THEN "notify" ELSE "promote")

\* Mutant of Resolved: it does not wait for the route barrier.
ResolvedAtOnce ==
  /\ at[Handler].pc = "idle" /\ stream # <<>>
  /\ Head(stream).kind = "resolved"
  /\ stream' = Tail(stream)
  /\ \/ Live(Head(stream).ask) = {} /\ UNCHANGED <<route, item, at>>
     \/ \E p \in Live(Head(stream).ask) : Resolve(p)
  /\ UNCHANGED <<ask, connected, told, env>>

\* handleResolved up to the route barrier.
Resolved ==
  /\ at[Handler].pc = "idle" /\ stream # <<>>
  /\ Head(stream).kind = "resolved"
  /\ stream' = Tail(stream)
  /\ \/ Live(Head(stream).ask) = {} /\ UNCHANGED <<route, item, at>>
     \/ \E p \in Live(Head(stream).ask) :
          IF item[p].barrier
          THEN /\ item' = [item EXCEPT ![p].resolving = TRUE]
               /\ at' = [at EXCEPT ![Handler] = [Idle EXCEPT !.pc = "settle", !.item = p]]
               /\ UNCHANGED route
          ELSE Resolve(p)
  /\ UNCHANGED <<ask, connected, told, env>>

\* handleResolved once the barrier of its entry has come down.
Settle ==
  /\ at[Handler].pc = "settle"
  /\ LET p == at[Handler].item IN
       /\ ~item[p].barrier
       /\ IF item[p].inactive
          THEN at' = [at EXCEPT ![Handler] = Idle] /\ UNCHANGED <<route, item>>
          ELSE Resolve(p)
  /\ UNCHANGED <<ask, stream, connected, told, env>>

-----------------------------------------------------------------------------
(* Prompts and notices on their way to the chat.                            *)

\* #present past the barrier: its condition is tested again.
PresentResumes(t) ==
  /\ at[t].pc = "present"
  /\ ~item[at[t].item].barrier
  /\ Present(t, at[t].item, item, route)
  /\ UNCHANGED <<ask, stream, connected, route, told, env>>

\* Who waits for the prompt of p: callers of #present, and handleResolved.
ShownTo(t, p)   == at[t].pc = "shown" /\ at[t].item = p
ConfirmsFor(t, p) == at[t].pc = "confirm" /\ at[t].item = p

PresentationArrives(p) ==
  /\ item[p].sending
  /\ LET confirming == \E t \in Thread : ConfirmsFor(t, p)
         late == item[p].inactive /\ ClosedOutcome(p) /\ ~item[p].notified
     IN  /\ item' = [item EXCEPT ![p].sending = FALSE, ![p].delivered = TRUE,
                                 ![p].presented = ~item[p].inactive,
                                 ![p].notified = @ \/ late \/ confirming]
         /\ told' = IF late THEN [told EXCEPT ![p] = Append(@, item[p].closing)] ELSE told
  /\ at' = [t \in Thread |-> IF ShownTo(t, p) THEN Over(t)
                             ELSE IF ConfirmsFor(t, p) THEN [at[t] EXCEPT !.pc = "notify"]
                             ELSE at[t]]
  /\ UNCHANGED <<ask, stream, connected, route, env>>

\* Mutant of PresentationFails: nobody makes the socket reconnect.
PresentationFailsQuietly(p) ==
  /\ item[p].sending /\ failures < MaxFailures
  /\ failures' = failures + 1
  /\ item' = [item EXCEPT ![p].sending = FALSE]
  /\ at' = [t \in Thread |-> IF ShownTo(t, p) THEN Over(t)
                             ELSE IF ConfirmsFor(t, p)
                             THEN [at[t] EXCEPT !.pc = "notify", !.text = "none"]
                             ELSE at[t]]
  /\ UNCHANGED <<ask, stream, connected, route, told, question, closes>>

\* A callback that fails, and a failed promotion, make the socket reconnect; a
\* chat message that asked for the prompt itself only fails.
PresentationFails(p) ==
  /\ item[p].sending /\ failures < MaxFailures
  /\ failures' = failures + 1
  /\ item' = [item EXCEPT ![p].sending = FALSE]
  /\ at' = [t \in Thread |-> IF ShownTo(t, p) THEN Over(t)
                             ELSE IF ConfirmsFor(t, p)
                             THEN [at[t] EXCEPT !.pc = "notify", !.text = "none"]
                             ELSE at[t]]
  /\ connected' = (connected /\ \A t \in Thread :
                     ShownTo(t, p) => t # Handler /\ at[t].claimed = p)
  /\ UNCHANGED <<ask, stream, route, told, question, closes>>

\* Mutant of NoticeSent: the barrier stays up.
NoticeSentBarred(t) ==
  /\ at[t].pc = "notify"
  /\ told' = IF at[t].text = "none" THEN told
             ELSE [told EXCEPT ![at[t].item] = Append(@, at[t].text)]
  /\ Present(t, at[t].next, item, route)
  /\ UNCHANGED <<ask, stream, connected, route, env>>

\* The end of #transition: the outcome is told, the barrier comes down and
\* #promote shows the next approval.
NoticeSent(t) ==
  /\ at[t].pc = "notify"
  /\ told' = IF at[t].text = "none" THEN told
             ELSE [told EXCEPT ![at[t].item] = Append(@, at[t].text)]
  /\ LET next == at[t].next
         it == [q \in Pending |-> IF q = next THEN [item[q] EXCEPT !.barrier = FALSE]
                                  ELSE item[q]]
     IN  Present(t, next, it, route)
  /\ UNCHANGED <<ask, stream, connected, route, env>>

-----------------------------------------------------------------------------
(* Messages of the chat.                                                    *)

\* Someone sends a message: the actor decides or says something else, or a
\* stranger writes.
Send(r) ==
  /\ at[r].pc = "idle"
  /\ \A q \in 1..(r - 1) : at[q].pc # "idle"
  /\ \E says \in Says :
       at' = [at EXCEPT ![r] = [Idle EXCEPT !.pc = "coming", !.says = says]]
  /\ UNCHANGED <<ask, stream, connected, route, item, told, env>>

\* claimReply: the message is taken as a decision on the head of the route.  A
\* live question takes the actor's message first; while that answer is
\* processed a decision is put off; strangers are turned away.
Claim(r) ==
  /\ at[r].pc = "coming"
  /\ question' = IF question = "open" /\ at[r].says # "stranger" THEN "answering"
                 ELSE question
  /\ IF question = "open" \/ route = <<>> \/ at[r].says = "stranger"
     THEN at' = [at EXCEPT ![r] = Done]
     ELSE LET p == Head(route) IN
          at' = [at EXCEPT ![r] = [@ EXCEPT !.pc = "waiting", !.item = p, !.claimed = p,
                   !.before = {q \in Reply : at[q].claimed = p},
                   !.shown = item[p].presented, !.deferred = QuestionPending]]
  /\ UNCHANGED <<ask, stream, connected, route, item, told, failures, closes>>

\* replyTail: the messages that claimed the same entry run in turn.
IsTurn(r) == \A q \in at[r].before : at[q].pc = "done"

\* The message was recorded by an earlier delivery, or recording it failed.
PreflightFails(r) ==
  /\ at[r].pc = "waiting" /\ IsTurn(r) /\ failures < MaxFailures
  /\ failures' = failures + 1
  /\ at' = [at EXCEPT ![r] = Done]
  /\ UNCHANGED <<ask, stream, connected, route, item, told, question, closes>>

\* A put-off decision goes on when the answer has been processed, unless its
\* approval is gone or the question is still live.
QuestionFirst(r) ==
  /\ at[r].pc = "waiting" /\ IsTurn(r)
  /\ at[r].deferred /\ ~AnswerRunning
  /\ LET p == at[r].item IN
       at' = [at EXCEPT ![r] =
                IF item[p].inactive \/ item[p].resolving \/ QuestionPending THEN Done
                ELSE [@ EXCEPT !.deferred = FALSE]]
  /\ UNCHANGED <<ask, stream, connected, route, item, told, env>>

\* Mutant of RunReply: it does not look whether the entry is gone by now.
RunReplyToGone(r) ==
  LET p == at[r].item IN
  /\ at[r].pc = "waiting" /\ IsTurn(r) /\ ~at[r].deferred
  /\ ~item[p].barrier /\ ~item[p].sending
  /\ IF ~item[p].presented
     THEN Present(r, p, item, route)
     ELSE /\ at' = [at EXCEPT ![r] = IF at[r].shown /\ at[r].says \in Decision
                                     THEN [@ EXCEPT !.pc = "submit"] ELSE Done]
          /\ UNCHANGED item
  /\ UNCHANGED <<ask, stream, connected, route, told, env>>

\* The reply task past the barrier and past a prompt on its way: it submits
\* only a decision claimed when the prompt had been shown; otherwise it shows
\* the prompt, or repeats how to answer it.
RunReply(r) ==
  LET p == at[r].item IN
  /\ at[r].pc = "waiting" /\ IsTurn(r) /\ ~at[r].deferred
  /\ ~item[p].barrier /\ ~item[p].sending
  /\ IF item[p].inactive \/ item[p].resolving
     THEN at' = [at EXCEPT ![r] = Done] /\ UNCHANGED item
     ELSE IF ~item[p].presented
     THEN Present(r, p, item, route)
     ELSE /\ at' = [at EXCEPT ![r] = IF at[r].shown /\ at[r].says \in Decision
                                     THEN [@ EXCEPT !.pc = "submit"] ELSE Done]
          /\ UNCHANGED item
  /\ UNCHANGED <<ask, stream, connected, route, told, env>>

-----------------------------------------------------------------------------
(* #submit.                                                                 *)

\* The harness answers: accepted, or not pending any more.
RespondArrives(r) ==
  /\ at[r].pc = "submit"
  /\ IF ask[item[at[r].item].of] = "open"
     THEN Settles(item[at[r].item].of, at[r].says) /\ at' = [at EXCEPT ![r].pc = "accepted"]
     ELSE UNCHANGED <<ask, stream>> /\ at' = [at EXCEPT ![r].pc = "refused"]
  /\ UNCHANGED <<connected, route, item, told, env>>

\* The call fails before or after the harness took the decision.
RespondFails(r) ==
  /\ at[r].pc = "submit" /\ failures < MaxFailures
  /\ failures' = failures + 1
  /\ at' = [at EXCEPT ![r].pc = "failed"]
  /\ \/ UNCHANGED <<ask, stream>>
     \/ ask[item[at[r].item].of] = "open" /\ Settles(item[at[r].item].of, at[r].says)
  /\ UNCHANGED <<connected, route, item, told, question, closes>>

\* Mutant of Submitted: the decision is taken for the outcome.
SubmittedHopefully(r) ==
  /\ at[r].pc \in {"accepted", "refused"}
  /\ Transition(r, at[r].item, at[r].says,
                IF item[at[r].item].notified THEN "promote" ELSE "notify")
  /\ UNCHANGED <<ask, stream, connected, told, env>>

\* Mutant of Submitted: the outcome is told although it was told already.
SubmittedAgain(r) ==
  /\ at[r].pc \in {"accepted", "refused"}
  /\ Transition(r, at[r].item,
                IF at[r].pc = "accepted" THEN at[r].says ELSE "resolved", "notify")
  /\ UNCHANGED <<ask, stream, connected, told, env>>

\* The outcome is told unless someone else has.
Submitted(r) ==
  /\ at[r].pc \in {"accepted", "refused"}
  /\ Transition(r, at[r].item,
                IF at[r].pc = "accepted" THEN at[r].says ELSE "resolved",
                IF item[at[r].item].notified THEN "promote" ELSE "notify")
  /\ UNCHANGED <<ask, stream, connected, told, env>>

\* The actor is asked to decide again, unless the approval is gone.
SubmitFailed(r) ==
  /\ at[r].pc = "failed"
  /\ at' = [at EXCEPT ![r] = Done]
  /\ UNCHANGED <<ask, stream, connected, route, item, told, env>>

-----------------------------------------------------------------------------
(* closeRoute: the turn ended, or was stopped.                              *)

CloseRoute ==
  /\ route # <<>> /\ closes < MaxCloses
  /\ closes' = closes + 1
  /\ item' = [p \in Pending |-> IF Queued(p)
                THEN [item[p] EXCEPT !.inactive = TRUE, !.closing = "asked"]
                ELSE item[p]]
  /\ route' = <<>>
  /\ UNCHANGED <<ask, stream, connected, at, told, question, failures>>

CloseArrives(p) ==
  /\ item[p].closing = "asked"
  /\ IF ask[item[p].of] = "open"
     THEN Settles(item[p].of, "rejected") /\ item' = [item EXCEPT ![p].closing = "accepted"]
     ELSE UNCHANGED <<ask, stream>> /\ item' = [item EXCEPT ![p].closing = "refused"]
  /\ UNCHANGED <<connected, route, at, told, env>>

CloseFails(p) ==
  /\ item[p].closing = "asked" /\ failures < MaxFailures
  /\ failures' = failures + 1
  /\ item' = [item EXCEPT ![p].closing = "failed"]
  /\ \/ UNCHANGED <<ask, stream>>
     \/ ask[item[p].of] = "open" /\ Settles(item[p].of, "rejected")
  /\ UNCHANGED <<connected, route, at, told, question, closes>>

\* Mutant of CloseAnswered: a prompt that arrived after the closing is ignored.
CloseAnsweredPresented(p) ==
  /\ item[p].closing \in {"accepted", "refused"}
  /\ LET outcome == IF item[p].closing = "accepted" THEN "rejected" ELSE "resolved"
         tells == item[p].presented /\ ~item[p].notified
     IN  /\ item' = [item EXCEPT ![p].closing = outcome, ![p].notified = @ \/ tells]
         /\ told' = IF tells THEN [told EXCEPT ![p] = Append(@, outcome)] ELSE told
  /\ UNCHANGED <<ask, stream, connected, route, at, env>>

\* A chat that has the prompt is told, unless it was.
CloseAnswered(p) ==
  /\ item[p].closing \in {"accepted", "refused"}
  /\ LET outcome == IF item[p].closing = "accepted" THEN "rejected" ELSE "resolved"
         tells == (item[p].presented \/ item[p].delivered) /\ ~item[p].notified
     IN  /\ item' = [item EXCEPT ![p].closing = outcome, ![p].notified = @ \/ tells]
         /\ told' = IF tells THEN [told EXCEPT ![p] = Append(@, outcome)] ELSE told
  /\ UNCHANGED <<ask, stream, connected, route, at, env>>

-----------------------------------------------------------------------------
\* The steps of the three kinds of tasks that go on by themselves, and of a
\* message sent to the chat or a rejection sent to the harness.
HandlerStep == \/ Requested \/ Resolved \/ Settle
               \/ PresentResumes(Handler) \/ NoticeSent(Handler)

ReplyStep(r) == \/ Claim(r) \/ QuestionFirst(r) \/ RunReply(r)
                \/ RespondArrives(r) \/ Submitted(r) \/ SubmitFailed(r)
                \/ PresentResumes(r) \/ NoticeSent(r)

ItemStep(p) == PresentationArrives(p) \/ CloseArrives(p) \/ CloseAnswered(p)

Next ==
  \/ HandlerStep
  \/ \E r \in Reply : ReplyStep(r) \/ Send(r) \/ PreflightFails(r) \/ RespondFails(r)
  \/ \E p \in Pending : ItemStep(p) \/ PresentationFails(p) \/ CloseFails(p)
  \/ \E a \in Approval : AskFor(a) \/ SettledElsewhere(a)
  \/ Disconnect \/ Reconnect \/ QuestionMoves \/ CloseRoute

Spec == Init /\ [][Next]_vars

\* The event loop runs what it can run, calls and sends end, the socket is
\* opened again and an answer is processed to its end; nobody has to ask, to
\* write, to stop or to fail.
Fairness ==
  /\ WF_vars(HandlerStep) /\ WF_vars(Reconnect)
  /\ \A r \in Reply : WF_vars(ReplyStep(r))
  /\ \A p \in Pending : WF_vars(ItemStep(p))
  /\ WF_vars(QuestionMoves /\ AnswerRunning)

FairSpec == Spec /\ Fairness

-----------------------------------------------------------------------------
(* Correctness.                                                             *)

Pc == {"idle", "coming", "waiting", "present", "shown", "settle", "confirm",
       "notify", "submit", "accepted", "refused", "failed", "done"}

\* The shape of the state, and what the queue relies on everywhere: the route
\* holds each live entry once and no approval has two, a prompt is on its way
\* or shown only for an entry that reached the head, and the barrier is up
\* exactly while a task has the outcome before it still to tell
\* (harness-approval.ts:358-364, 532-577).
TypeOK ==
  /\ ask \in [Approval -> {"unasked", "open"} \cup Decision]
  /\ stream \in Seq([kind : {"requested", "resolved"}, ask : Approval])
  /\ connected \in BOOLEAN
  /\ route \in Seq(Pending)
  /\ at \in [Thread -> [pc : Pc, item : Pending \cup {NoOne},
                        next : Pending \cup {NoOne}, text : Outcome \cup {"none"},
                        says : Decision \cup {"none", "other", "stranger"},
                        claimed : Pending \cup {NoOne},
                        before : SUBSET Reply, shown : BOOLEAN, deferred : BOOLEAN]]
  /\ told \in [Pending -> Seq(Outcome)]
  /\ \A a \in Approval : Cardinality(Live(a)) <= 1
  /\ \A p \in Pending :
       /\ Cardinality({i \in 1..Len(route) : route[i] = p})
            = IF item[p].of # NoOne /\ ~item[p].inactive THEN 1 ELSE 0
       /\ item[p].barrier = \E t \in Thread : /\ at[t].pc \in {"notify", "confirm"}
                                              /\ at[t].next = p
       /\ (item[p].sending \/ item[p].presented) /\ Queued(p) => Head(route) = p

\* What a decision that is being submitted rests on (harness-approval.ts:309):
\* its entry was shown in the chat when the message was claimed and is still
\* the head of the route; a message claimed for one approval never decides the
\* next one, however the queue moved while the message waited, nor one that is
\* settled or closed as far as the queue knows.
DecisionForTheShown ==
  [][\A r \in Reply : at[r].pc # "submit" /\ at'[r].pc = "submit" =>
       LET p == at'[r].item IN
         /\ p = at[r].claimed /\ at[r].shown /\ item[p].delivered
         /\ route # <<>> /\ Head(route) = p]_vars

\* The barrier of harness-approval.ts:423-425 and 532-543: an approval that
\* waited behind others is shown only when their outcomes have been told.
PromptAfterOutcome ==
  [][\A p \in Pending : ~item[p].sending /\ item'[p].sending =>
       \A q \in item'[p].behind : \A t \in Thread :
         at'[t].item = q => at'[t].pc \notin {"confirm", "notify"}]_vars

\* The chat is told only what the harness has decided, whoever answered first
\* and whichever answers were lost (harness-approval.ts:418-474, 501-530).
NoticesTruthful ==
  \A p \in Pending : \A i \in 1..Len(told[p]) :
    told[p][i] \in Decision => told[p][i] = ask[item[p].of]

\* One final outcome per prompt (harness-approval.test.ts:380); closing the
\* route while a decision is submitted may add one more.
OneFinalOutcome ==
  \A p \in Pending : Len(told[p]) <= IF item[p].closing = "no" THEN 1 ELSE 2

\* Every message of the chat is dealt with: no await of a reply task waits for
\* ever, in whatever order barrier, prompts, answers and closing come
\* (harness-approval.ts:275-336).  A task never becomes idle again, so it is
\* done in the end.
RepliesEnd == \A r \in Reply : []<>(at[r].pc \in {"idle", "done"})

\* No head of the route stays unshown: it is shown, leaves it or is settled,
\* although sends fail and the socket drops (harness-approval.ts:358-364,
\* 545-560).  An approval settled while the socket is down is not covered: its
\* event is lost, and it holds the head until someone writes.
HeadShown ==
  \A p \in Pending :
    []<>~(/\ route # <<>> /\ Head(route) = p
          /\ ~item[p].presented /\ ask[item[p].of] = "open")

\* An approval the chat has seen and that is settled is followed by an outcome,
\* unless rejecting it on closing failed (harness-approval.ts:418-499).
ShownIsSettled ==
  \A p \in Pending :
    []<>(item[p].delivered /\ item[p].inactive
           => told[p] # <<>> \/ item[p].closing = "failed")
=============================================================================
