------------------------- MODULE BotController_proofs -------------------------
(* BotController for any number of requests, tokens, policies and troubles: the *)
(* types of its state, its one connection, what is stored and what runs.       *)
EXTENDS BotController, TLAPS

------------------------------------------------------------------------------
(* What a caller carries at each step *)

Rec == [op : {"none", "bind", "policy", "reconnect", "delete", "undo", "init"},
        pc : Pc, cfg : Policy \cup {None}, token : Token \cup {None},
        prev : Token \cup Nothing, stops : BOOLEAN]

\* The steps of #startRuntime.
Starting == {"stop", "stopping", "create", "connect"}

Shape(a) ==
  /\ a.op = "bind" => a.token \in Token
  /\ a.op \in {"policy", "reconnect", "init", "delete", "undo"} => a.cfg \in Policy
  /\ a.pc = "save" => a.op \in {"bind", "policy"} /\ a.token \in Token
  /\ a.pc \in {"set", "restore"} => a.op = "bind"
  /\ a.pc \in {"unset", "remove", "undo"} => a.op = "delete"
  /\ a.pc \in Starting => a.cfg \in Policy
  /\ a.pc \in Starting /\ a.op # "delete" => a.token \in Token
  /\ a.pc \in {"create", "connect"} => a.op # "delete"

Carried == \A c \in Caller : Shape(at[c])

\* TypeOK with what makes it inductive: a runtime is made of a token and a policy.
Types == TypeOK /\ Carried

\* An idle request has locals of their types.
LEMMA IdleFits == Idle \in Rec /\ Shape(Idle)
  BY DEF Idle, Rec, Shape, Starting, Pc, Nothing

\* A caller whose operation is over leaves the queue.
LEMMA SettleTypes ==
  ASSUME Types, NEW c \in Caller, Settle(c), queue # <<>>
  PROVE  queue' \in Seq(Caller) /\ waits' \subseteq Caller /\ at' \in [Caller -> Rec] /\ Carried'
<1>1. at' \in [Caller -> Rec] /\ Carried'
  BY IdleFits DEF Settle, Types, TypeOK, Carried, Rec
<1> QED  BY <1>1 DEF Types, TypeOK, Settle

\* The record of one caller changes, to one that fits.
Fits(c) ==
  /\ UNCHANGED <<queue, waits>> /\ at' = [at EXCEPT ![c] = at'[c]]
  /\ at'[c] \in Rec /\ Shape(at'[c])
  /\ at'[c].op = at[c].op \/ (at[c].op = "delete" /\ at'[c].op = "undo")

\* A caller that moves within its types keeps them for all.
LEMMA FitsTypes ==
  ASSUME Types, NEW c \in Caller, Fits(c)
  PROVE  queue' \in Seq(Caller) /\ waits' \subseteq Caller /\ at' \in [Caller -> Rec] /\ Carried'
<1>1. at \in [Caller -> Rec] /\ Carried
  BY DEF Types, TypeOK, Rec
<1>2. at' \in [Caller -> Rec] /\ Carried'
  BY <1>1 DEF Fits, Carried
<1> QED  BY <1>2 DEF Types, TypeOK, Fits

\* Each step of an operation either moves its caller within its types or settles it.
LEMMA WorkFits ==
  ASSUME Types, NEW c \in Request \cup {Supervisor}, Work(c)
  PROVE  Settle(c) \/ Fits(c)
<1> USE NamesDiffer, DefaultIsPolicy
<1>t. /\ c \in Caller /\ at \in [Caller -> Rec] /\ at[c] \in Rec /\ Shape(at[c])
      /\ config \in Policy \cup {None}
  BY DEF Types, TypeOK, Carried, Caller, Rec
<1> USE <1>t DEF Throw, Holds, At, Go, Fits, Rec, Shape, Pc, Starting
<1>1. CASE StartStored(c)
  <2>1. Settle(c) \/ \E t \in Token : at' = [at EXCEPT ![c].token = t, ![c].pc = "stop"]
                                      /\ UNCHANGED <<queue, waits>>
    BY <1>1 DEF StartStored, Nothing
  <2>2. ASSUME NEW t \in Token, at' = [at EXCEPT ![c].token = t, ![c].pc = "stop"]
        PROVE  at'[c] \in Rec /\ Shape(at'[c]) /\ at' = [at EXCEPT ![c] = at'[c]]
             /\ at'[c].op = at[c].op
    BY <1>1, <2>2 DEF StartStored
  <2> QED  BY <2>1, <2>2
<1>2. CASE Bind(c)
  <2>1. Settle(c) \/ \E t \in Token \cup Nothing : at' = [at EXCEPT ![c].prev = t, ![c].pc = "set"]
                                      /\ UNCHANGED <<queue, waits>>
    BY <1>2 DEF Bind
  <2>2. ASSUME NEW t \in Token \cup Nothing, at' = [at EXCEPT ![c].prev = t, ![c].pc = "set"]
        PROVE  at'[c] \in Rec /\ Shape(at'[c]) /\ at' = [at EXCEPT ![c] = at'[c]]
             /\ at'[c].op = at[c].op
    BY <1>2, <2>2 DEF Bind
  <2> QED  BY <2>1, <2>2
<1>3. CASE SetCredential(c)
  BY <1>3 DEF SetCredential
<1>4. CASE UpdateConfig(c)
  <2>1. Settle(c) \/ \E t \in Token : at' = [at EXCEPT ![c].token = t, ![c].pc = "save"]
                                      /\ UNCHANGED <<queue, waits>>
    BY <1>4 DEF UpdateConfig, Nothing
  <2>2. ASSUME NEW t \in Token, at' = [at EXCEPT ![c].token = t, ![c].pc = "save"]
        PROVE  at'[c] \in Rec /\ Shape(at'[c]) /\ at' = [at EXCEPT ![c] = at'[c]]
             /\ at'[c].op = at[c].op
    BY <1>4, <2>2 DEF UpdateConfig
  <2> QED  BY <2>1, <2>2
<1>5. CASE SaveConfig(c)
  BY <1>5 DEF SaveConfig, ToSave
<1>6. CASE Restore(c)
  BY <1>6 DEF Restore
<1>7. CASE Delete(c)
  BY <1>7 DEF Delete, Nothing
<1>8. CASE Unset(c)
  <2>1. at[c].op = "delete" /\ at[c].pc = "unset" /\ UNCHANGED <<queue, waits>>
    BY <1>8 DEF Unset
  <2>2. CASE Go(c, "remove")
    BY <2>1, <2>2
  <2>3. CASE Go(c, "undo")
    BY <2>1, <2>3
  <2> QED  BY <1>8, <2>2, <2>3 DEF Unset
<1>9. CASE Remove(c)
  BY <1>9 DEF Remove
<1>10. CASE Undo(c)
  BY <1>10 DEF Undo
<1>11. CASE UndoNothing(c)
  BY <1>11 DEF UndoNothing
<1>12. CASE Stop(c)
  BY <1>12 DEF Stop, Ready
<1>13. CASE Stopped(c)
  BY <1>13 DEF Stopped
<1>14. CASE Create(c)
  BY <1>14 DEF Create
<1>15. CASE Connect(c)
  BY <1>15 DEF Connect
<1> QED  BY Work(c), <1>1, <1>2, <1>3, <1>4, <1>5, <1>6, <1>7, <1>8, <1>9, <1>10, <1>11,
            <1>12, <1>13, <1>14, <1>15 DEF Work

\* A step of an operation keeps the types.
LEMMA WorkTypes ==
  ASSUME Types, NEW c \in Request \cup {Supervisor}, Work(c)
  PROVE  Types'
<1> USE NamesDiffer, DefaultIsPolicy
<1>t. /\ c \in Caller /\ at \in [Caller -> Rec] /\ at[c] \in Rec /\ Shape(at[c])
      /\ queue \in Seq(Caller)
      /\ cred \in Token \cup {None} /\ config \in Policy \cup {None}
  BY DEF Types, TypeOK, Carried, Caller, Rec
<1>n. troubles' \in 0..MaxTroubles
  <2>1. \/ troubles' = troubles
        \/ troubles < MaxTroubles /\ troubles' = troubles + 1
    BY DEF Work, StartStored, Bind, SetCredential, UpdateConfig, SaveConfig, Restore, Delete, Unset, Remove,
       Undo, UndoNothing, Stop, Stopped, Create, Connect, Trouble, Fine, Read
  <2> QED  BY <2>1, MaxTroublesIsNat DEF Types, TypeOK
<1>q. queue # <<>>
  BY DEF Work, StartStored, Bind, SetCredential, UpdateConfig, SaveConfig, Restore,
     Delete, Unset, Remove, Undo, UndoNothing, Stop, Stopped, Create, Connect, Holds
<1>a. /\ cred' \in Token \cup {None} /\ config' \in Policy \cup {None}
      /\ rt' \in [token : Token, policy : Policy, phase : {"starting", "ready", "failed"}] \cup {None}
      /\ apart' \in BOOLEAN
  <2> USE <1>t DEF Types, TypeOK
  <2>1. CASE StartStored(c) \/ Bind(c) \/ UpdateConfig(c) \/ Delete(c) \/ Stopped(c)
    BY <2>1 DEF StartStored, Bind, UpdateConfig, Delete, Stopped
  <2>2. CASE SetCredential(c)
    BY <2>2 DEF SetCredential, Holds, At, Shape
  <2>3. CASE SaveConfig(c)
    BY <2>3 DEF SaveConfig, Holds, At, Shape, ToSave
  <2>4. CASE Restore(c)
    BY <2>4 DEF Restore, Rec, Nothing
  <2>5. CASE Unset(c) \/ Remove(c) \/ Undo(c) \/ UndoNothing(c)
    BY <2>5 DEF Unset, Remove, Undo, UndoNothing
  <2>6. CASE Stop(c)
    BY <2>6 DEF Stop
  <2>7. CASE Create(c) \/ Connect(c)
    BY <2>7 DEF Create, Connect, Runtime, Holds, At, Shape, Starting
  <2> QED  BY Work(c), <2>1, <2>2, <2>3, <2>4, <2>5, <2>6, <2>7 DEF Work
<1> QED  BY <1>a, <1>n, <1>t, <1>q, WorkFits, SettleTypes, FitsTypes DEF Types, TypeOK, Rec

\* An operation that is asked for keeps the types.
LEMMA ArrivalTypes ==
  ASSUME Types,
         (\E r \in Request : Ask(r) \/ Inspected(r)) \/ Supervise
  PROVE  Types'
<1> USE NamesDiffer
<1>t. /\ at \in [Caller -> Rec] /\ Carried /\ queue \in Seq(Caller) /\ waits \subseteq Caller
      /\ config \in Policy \cup {None} /\ Supervisor \in Caller /\ Request \subseteq Caller
      /\ troubles \in 0..MaxTroubles
  BY DEF Types, TypeOK, Rec, Caller
<1>u. UNCHANGED <<cred, config, rt, waits, apart>>
  BY DEF Ask, AskBind, AskPolicy, AskReconnect, AskDelete, Inspected, Supervise, Wake, EnsureFails, Ensured
<1>n. troubles' \in 0..MaxTroubles
  <2>1. EnsureFails \/ UNCHANGED troubles
    BY DEF Ask, AskBind, AskPolicy, AskReconnect, AskDelete, Inspected, Supervise, Wake, Ensured
  <2>2. EnsureFails => troubles < MaxTroubles /\ troubles' = troubles + 1
    BY DEF EnsureFails, Trouble
  <2> QED  BY <2>1, <2>2, <1>t, MaxTroublesIsNat
<1>e. ASSUME NEW c \in Caller, NEW a \in Rec, Shape(a), Enqueue(c, a)
      PROVE  at' \in [Caller -> Rec] /\ Carried' /\ queue' \in Seq(Caller)
  <2>1. [a EXCEPT !.pc = "queued"] \in Rec /\ Shape([a EXCEPT !.pc = "queued"])
    BY <1>e DEF Rec, Shape, Starting, Pc
  <2> QED  BY <1>t, <1>e, <2>1 DEF Enqueue, Carried
<1>i. ASSUME NEW c \in Caller, NEW a \in Rec, Shape(a), at' = [at EXCEPT ![c] = a]
      PROVE  at' \in [Caller -> Rec] /\ Carried'
  BY <1>t, <1>i DEF Carried
<1>g. ASSUME NEW c \in Caller, NEW p \in {"idle", "ensure"}, Go(c, p)
      PROVE  at' \in [Caller -> Rec] /\ Carried'
  <2>1. [at[c] EXCEPT !.pc = p] \in Rec /\ Shape([at[c] EXCEPT !.pc = p])
    BY <1>t DEF Rec, Shape, Starting, Pc, Carried
  <2>2. at' = [at EXCEPT ![c] = [at[c] EXCEPT !.pc = p]]
    BY <1>g DEF Go
  <2> QED  BY <1>i, <2>1, <2>2
<1> DEFINE Kept == at' \in [Caller -> Rec] /\ Carried' /\ queue' \in Seq(Caller)
<1> HIDE DEF Kept
<1>1. ASSUME NEW r \in Request, NEW t \in Token, AskBind(r, t)  PROVE Kept
  <2>1. LET a == [Idle EXCEPT !.op = "bind", !.pc = "inspect", !.token = t]
        IN  a \in Rec /\ Shape(a)
    BY DEF Idle, Rec, Shape, Starting, Pc, Nothing
  <2> QED  BY <1>t, <1>i, <1>1, <2>1 DEF AskBind, Kept
<1>2. ASSUME NEW r \in Request, NEW p \in Policy, AskPolicy(r, p)  PROVE Kept
  <2>1. LET a == [Idle EXCEPT !.op = "policy", !.cfg = p]
        IN  a \in Rec /\ Shape(a)
    BY DEF Idle, Rec, Shape, Starting, Pc, Nothing
  <2> QED  BY <1>t, <1>e, <1>2, <2>1 DEF AskPolicy, Kept
<1>3. ASSUME NEW r \in Request, AskReconnect(r) \/ AskDelete(r)  PROVE Kept
  <2>1. ASSUME NEW o \in {"reconnect", "delete"}
        PROVE  LET a == [Idle EXCEPT !.op = o, !.cfg = config]
               IN  config # None => a \in Rec /\ Shape(a)
    BY <1>t DEF Idle, Rec, Shape, Starting, Pc, Nothing
  <2> QED  BY <1>t, <1>e, <1>3, <2>1 DEF AskReconnect, AskDelete, Kept
<1>4. ASSUME NEW r \in Request, Inspected(r)  PROVE Kept
  <2>1. at[r] \in Rec /\ Shape(at[r]) /\ r \in Caller
    BY <1>t DEF Carried
  <2>2. CASE Enqueue(r, at[r])
    BY <1>e, <2>1, <2>2 DEF Kept
  <2>3. CASE at' = [at EXCEPT ![r] = Idle] /\ UNCHANGED queue
    BY <1>i, <1>t, <2>1, <2>3, IdleFits DEF Kept
  <2> QED  BY <1>4, <2>2, <2>3 DEF Inspected
<1>5. ASSUME Supervise  PROVE Kept
  <2>1. ASSUME Go(Supervisor, "idle") \/ Go(Supervisor, "ensure"), UNCHANGED queue  PROVE Kept
    BY <1>g, <1>t, <2>1 DEF Kept
  <2>2. ASSUME Wake \/ EnsureFails  PROVE Kept
    BY <2>1, <2>2 DEF Wake, EnsureFails
  <2>3. ASSUME Ensured, SupervisorClosed \/ config = None  PROVE Kept
    BY <2>1, <2>3 DEF Ensured
  <2>4. ASSUME Ensured, ~(SupervisorClosed \/ config = None)  PROVE Kept
    <3>1. LET a == [Idle EXCEPT !.op = "init", !.cfg = config]
          IN  a \in Rec /\ Shape(a) /\ Enqueue(Supervisor, a)
      BY <1>t, <2>4 DEF Ensured, Idle, Rec, Shape, Starting, Pc, Nothing
    <3> QED  BY <1>e, <1>t, <3>1 DEF Kept
  <2> QED  BY <1>5, <2>2, <2>3, <2>4 DEF Supervise
<1> QED  BY <1>1, <1>2, <1>3, <1>4, <1>5, <1>n, <1>t, <1>u DEF Ask, Types, TypeOK, Rec, Kept

\* The other steps: those of the closing and of the world outside.
Elsewhere == Close \/ Closing \/ Drop \/ Restart \/ UNCHANGED vars

\* Troubles, timers and the closing of the channel keep the types.
LEMMA ElsewhereTypes ==
  ASSUME Types, Elsewhere
  PROVE  Types'
<1> USE NamesDiffer
<1>t. /\ at \in [Caller -> Rec] /\ Carried /\ Closer \in Caller
      /\ at[Closer] \in Rec /\ Shape(at[Closer])
  BY DEF Types, TypeOK, Rec, Carried, Caller
<1>1. CASE Close \/ Closing
  <2>1. /\ at' \in [Caller -> Rec] /\ at'[Closer] \in Rec
        /\ \A c \in Caller \ {Closer} : at'[c] = at[c]
        /\ at'[Closer].pc \in {"supervisor", "transitions", "runtimes", "closed"}
        /\ at'[Closer].op = at[Closer].op /\ at'[Closer].token = at[Closer].token
        /\ at'[Closer].cfg = at[Closer].cfg
    <3>1. CASE Close
      BY <1>t, <3>1 DEF Close, Go, Rec, Pc
    <3>2. CASE CloseController
      BY <1>t, <3>2 DEF CloseController, Go, Rec, Pc
    <3>3. CASE CloseRuntimes
      BY <1>t, <3>3 DEF CloseRuntimes, Ready, Rec, Pc
    <3>4. CASE CloseEnds
      BY <1>t, <3>4 DEF CloseEnds, Rec, Pc
    <3> QED  BY <1>1, <3>1, <3>2, <3>3, <3>4 DEF Closing
  <2>2. Carried'
    <3>1. Shape(at'[Closer])
      BY <1>t, <2>1 DEF Shape, Starting
    <3> QED  BY <1>t, <2>1, <3>1 DEF Carried
  <2>3. waits' \subseteq Caller
    BY <1>1 DEF Close, Closing, CloseController, CloseRuntimes, CloseEnds, Types, TypeOK
  <2>4. queue' = queue /\ cred' = cred /\ config' = config /\ apart' = apart /\ troubles' = troubles
        /\ (rt' = rt \/ rt' = None)
    BY <1>1 DEF Close, Closing, CloseController, CloseRuntimes, CloseEnds
  <2> QED  BY <2>1, <2>2, <2>3, <2>4 DEF Types, TypeOK, Rec
<1>2. CASE Drop
  <2>1. rt' \in [token : Token, policy : Policy, phase : {"starting", "ready", "failed"}]
    BY <1>2 DEF Drop, Ready, Types, TypeOK
  <2>2. troubles' \in 0..MaxTroubles
    BY <1>2, MaxTroublesIsNat DEF Drop, Trouble, Types, TypeOK
  <2> QED  BY <1>2, <2>1, <2>2 DEF Drop, Types, TypeOK, Carried
<1>3. CASE Restart
  <2>1. troubles' \in 0..MaxTroubles
    BY <1>3, MaxTroublesIsNat DEF Restart, Trouble, Types, TypeOK
  <2>2. at' \in [Caller -> Rec] /\ Carried'
    BY <1>3, IdleFits DEF Restart, Carried
  <2> QED  BY <1>3, <2>1, <2>2 DEF Restart, Types, TypeOK, Rec
<1>4. CASE UNCHANGED vars
  BY <1>4 DEF vars, Types, TypeOK, Carried
<1> QED  BY <1>1, <1>2, <1>3, <1>4 DEF Elsewhere

\* Every step is a call, a step of an operation or something elsewhere.
LEMMA StepKinds ==
  ASSUME [Next]_vars
  PROVE  \/ (\E r \in Request : Ask(r) \/ Inspected(r)) \/ Supervise
         \/ \E c \in Request \cup {Supervisor} : Work(c)
         \/ Elsewhere
BY DEF Next, Elsewhere

\* The types hold at the start.
LEMMA TypesInit == Init => Types
<1>1. Init => at \in [Caller -> Rec] /\ Carried
  BY IdleFits DEF Init, Carried
<1>2. Init => troubles \in 0..MaxTroubles /\ queue \in Seq(Caller)
  BY MaxTroublesIsNat DEF Init
<1> QED  BY <1>1, <1>2 DEF Init, Types, TypeOK, Rec

\* Every step keeps the types.
LEMMA TypesStep == Types /\ [Next]_vars => Types'
  BY WorkTypes, ArrivalTypes, ElsewhereTypes, StepKinds

\* TypeOK: every step keeps the types, a runtime never has a missing token or policy.
THEOREM TypeCorrect == Spec => []TypeOK
<1>1. Types => TypeOK
  BY DEF Types
<1> QED  BY <1>1, TypesInit, TypesStep, PTL DEF Spec

------------------------------------------------------------------------------
(* One transition runs at a time *)

\* The steps of a transition that is running.
Busy == {"set", "save", "restore", "stop", "stopping", "unset", "remove", "undo", "create", "connect"}

Chain ==
  /\ \A c \in Caller : at[c].pc \in Busy => queue # <<>> /\ Head(queue) = c
  /\ at[Closer].pc \in {"idle", "supervisor", "transitions", "runtimes", "closed"}
  /\ at[Supervisor].op \in {"none", "init"}

\* Who asks, or is put into the chain, disturbs nobody who runs.
Arrival ==
  /\ UNCHANGED <<cred, config, rt, waits, apart>>
  /\ at'[Closer] = at[Closer] /\ at'[Supervisor].op \in {"none", "init"}
  /\ \A c \in Caller : \/ at'[c] = at[c]
                       \/ at[c].pc \notin Busy /\ at'[c].pc \notin Busy /\ at'[c].stops \in {at[c].stops, FALSE}
  /\ queue # <<>> => queue' # <<>> /\ Head(queue') = Head(queue)
  /\ queue' = <<>> => queue = <<>>

\* An operation that is asked for joins the end of the queue and nothing else.
LEMMA Arrives ==
  ASSUME Types, Chain,
         (\E r \in Request : Ask(r) \/ Inspected(r)) \/ Supervise
  PROVE  Arrival
<1> USE NamesDiffer
<1>t. /\ at \in [Caller -> Rec] /\ queue \in Seq(Caller) /\ at[Supervisor].op \in {"none", "init"}
      /\ Request \subseteq Caller /\ Supervisor \in Caller /\ Closer \in Caller
      /\ config \in Policy \cup {None}
  BY DEF Types, TypeOK, Rec, Caller, Chain
<1>u. UNCHANGED <<cred, config, rt, waits, apart>>
  BY DEF Ask, AskBind, AskPolicy, AskReconnect, AskDelete, Inspected, Supervise, Wake, EnsureFails, Ensured
<1>q. queue' = queue \/ \E c \in Caller : queue' = Append(queue, c)
  BY <1>t DEF Ask, AskBind, AskPolicy, AskReconnect, AskDelete, Inspected, Supervise, Wake, EnsureFails, Ensured, Enqueue
<1>h. /\ queue # <<>> => queue' # <<>> /\ Head(queue') = Head(queue)
      /\ queue' = <<>> => queue = <<>>
  BY <1>t, <1>q
<1> DEFINE Moves(c) == /\ c \in Request \cup {Supervisor}
                       /\ \A d \in Caller \ {c} : at'[d] = at[d]
                       /\ at[c].pc \notin Busy /\ at'[c].pc \notin Busy
                       /\ at'[c].stops \in {at[c].stops, FALSE}
                       /\ c = Supervisor => at'[c].op \in {"none", "init"}
<1> HIDE DEF Moves
<1>c. ASSUME NEW c \in Caller, NEW a, at' = [at EXCEPT ![c] = a]
      PROVE  at'[c] = a /\ \A d \in Caller \ {c} : at'[d] = at[d]
  BY <1>t, <1>c
<1>e. ASSUME NEW c \in Caller, NEW a \in Rec, Enqueue(c, a)
      PROVE  /\ at'[c].pc = "queued" /\ at'[c].stops = a.stops /\ at'[c].op = a.op
             /\ \A d \in Caller \ {c} : at'[d] = at[d]
  <2>1. [a EXCEPT !.pc = "queued"].pc = "queued" /\ [a EXCEPT !.pc = "queued"].stops = a.stops
        /\ [a EXCEPT !.pc = "queued"].op = a.op
    BY DEF Rec
  <2> QED  BY <1>c, <1>e, <2>1 DEF Enqueue
<1>1. ASSUME NEW r \in Request, NEW t \in Token, AskBind(r, t)  PROVE Moves(r)
  <2>1. LET a == [Idle EXCEPT !.op = "bind", !.pc = "inspect", !.token = t]
        IN  a.pc = "inspect" /\ a.stops = FALSE
    BY DEF Idle
  <2> QED  BY <1>t, <1>c, <1>1, <2>1 DEF Moves, AskBind, At, Busy
<1>2. ASSUME NEW r \in Request, NEW p \in Policy, AskPolicy(r, p)  PROVE Moves(r)
  <2>1. LET a == [Idle EXCEPT !.op = "policy", !.cfg = p]
        IN  a \in Rec /\ a.stops = FALSE
    BY DEF Idle, Rec, Pc, Nothing
  <2> QED  BY <1>t, <1>e, <1>2, <2>1 DEF Moves, AskPolicy, At, Busy
<1>3. ASSUME NEW r \in Request, AskReconnect(r) \/ AskDelete(r)  PROVE Moves(r)
  <2>1. ASSUME NEW o \in {"reconnect", "delete"}, config # None
        PROVE  LET a == [Idle EXCEPT !.op = o, !.cfg = config]
               IN  a \in Rec /\ a.stops = FALSE
    BY <1>t, <2>1 DEF Idle, Rec, Pc, Nothing
  <2> QED  BY <1>t, <1>e, <1>3, <2>1 DEF Moves, AskReconnect, AskDelete, At, Busy
<1>4. ASSUME NEW r \in Request, Inspected(r)  PROVE Moves(r)
  <2>1. Idle.pc = "idle" /\ Idle.stops = FALSE /\ at[r] \in Rec /\ r \in Caller
    BY <1>t DEF Idle
  <2>2. ASSUME Enqueue(r, at[r]), at[r].pc = "inspect"  PROVE Moves(r)
    BY <1>e, <2>1, <2>2 DEF Moves, Busy
  <2>3. ASSUME at' = [at EXCEPT ![r] = Idle], at[r].pc = "inspect"  PROVE Moves(r)
    BY <1>c, <2>1, <2>3 DEF Moves, Busy
  <2> QED  BY <1>4, <2>2, <2>3 DEF Inspected, At
<1>5. ASSUME Supervise  PROVE Moves(Supervisor)
  <2>1. ASSUME NEW p \in {"idle", "ensure"}, Go(Supervisor, p), at[Supervisor].pc \notin Busy
        PROVE  Moves(Supervisor)
    <3>1. at' = [at EXCEPT ![Supervisor] = [at[Supervisor] EXCEPT !.pc = p]]
      BY <2>1 DEF Go
    <3>2. LET a == [at[Supervisor] EXCEPT !.pc = p]
          IN  a.pc = p /\ a.stops = at[Supervisor].stops /\ a.op = at[Supervisor].op
      BY <1>t DEF Rec
    <3> QED  BY <1>t, <1>c, <2>1, <3>1, <3>2 DEF Moves, Busy
  <2>2. ASSUME Wake \/ EnsureFails  PROVE Moves(Supervisor)
    BY <2>1, <2>2 DEF Wake, EnsureFails, At, Busy
  <2>3. ASSUME Ensured, SupervisorClosed \/ config = None  PROVE Moves(Supervisor)
    BY <2>1, <2>3 DEF Ensured, At, Busy
  <2>4. ASSUME Ensured, ~(SupervisorClosed \/ config = None)  PROVE Moves(Supervisor)
    <3>1. LET a == [Idle EXCEPT !.op = "init", !.cfg = config]
          IN  a \in Rec /\ a.stops = FALSE /\ a.op = "init"
      BY <1>t, <2>4 DEF Idle, Rec, Pc, Nothing
    <3> QED  BY <1>t, <1>e, <2>4, <3>1 DEF Moves, Ensured, At, Busy
  <2> QED  BY <1>5, <2>2, <2>3, <2>4 DEF Supervise
<1>6. \E c \in Request \cup {Supervisor} : Moves(c)
  BY <1>1, <1>2, <1>3, <1>4, <1>5 DEF Ask
<1> QED  BY <1>t, <1>u, <1>h, <1>6 DEF Moves, Arrival

\* The work of a transition moves its own caller, at the head of the chain.
Progress(c) ==
  /\ c # Closer /\ queue # <<>> /\ Head(queue) = c /\ at[c].pc \in Busy \cup {"queued"}
  /\ \A d \in Caller \ {c} : at'[d] = at[d]
  /\ at'[c].op \in {at[c].op, "none"} \/ (at[c].op = "delete" /\ at'[c].op = "undo")
  /\ \/ queue' = queue /\ waits' = waits
     \/ queue' = Tail(queue) /\ waits' = waits \ {c} /\ at'[c] = Idle

\* Only the head of the queue works; it goes on, or leaves the queue.
LEMMA Progresses ==
  ASSUME Types, Chain, NEW c \in Request \cup {Supervisor}, Work(c)
  PROVE  Progress(c)
<1> USE NamesDiffer
<1>t. at \in [Caller -> Rec] /\ c \in Caller /\ at[c] \in Rec /\ Shape(at[c])
  BY DEF Types, TypeOK, Rec, Caller, Carried
<1>1. /\ queue # <<>> /\ Head(queue) = c /\ at[c].pc \in Busy \cup {"queued"}
      /\ c # Closer
  BY DEF Work, StartStored, Bind, SetCredential, UpdateConfig, SaveConfig, Restore, Delete, Unset, Remove,
     Undo, UndoNothing, Stop, Stopped, Create, Connect, Holds, At, Busy
<1>2. CASE Settle(c)
  <2>1. at'[c] = Idle /\ (\A d \in Caller \ {c} : at'[d] = at[d])
        /\ queue' = Tail(queue) /\ waits' = waits \ {c}
    BY <1>t, <1>2 DEF Settle
  <2>2. at'[c].op = "none"
    BY <2>1 DEF Idle
  <2> QED  BY <1>1, <2>1, <2>2 DEF Progress
<1>3. CASE Fits(c)
  BY <1>t, <1>1, <1>3 DEF Fits, Progress
<1> QED  BY <1>2, <1>3, WorkFits

\* Every step keeps the queue and what its members may be at.
LEMMA ChainStep ==
  ASSUME Types, Chain, [Next]_vars
  PROVE  Chain'
<1> USE NamesDiffer
<1>t. at \in [Caller -> Rec] /\ Supervisor \in Caller /\ Closer \in Caller
  BY DEF Types, TypeOK, Rec, Caller
<1>1. CASE (\E r \in Request : Ask(r) \/ Inspected(r)) \/ Supervise
  BY <1>1, Arrives DEF Arrival, Chain
<1>2. ASSUME NEW c \in Request \cup {Supervisor}, Work(c)  PROVE Chain'
  BY <1>2, <1>t, Progresses DEF Progress, Chain, Busy, Idle
<1>3. CASE Close \/ Closing
  BY <1>3, <1>t DEF Close, Closing, CloseController, CloseRuntimes, CloseEnds, Go, Chain, Busy, Rec
<1>4. CASE Drop \/ UNCHANGED vars
  BY <1>4 DEF Drop, vars, Chain
<1>5. CASE Restart
  BY <1>5, <1>t DEF Restart, Chain, Busy, Idle
<1> QED  BY <1>1, <1>2, <1>3, <1>4, <1>5, StepKinds DEF Elsewhere

------------------------------------------------------------------------------
(* One connection *)

\* Who ends a connection, when nothing runs, and whom a closing controller waits for.
Links ==
  /\ \A c \in Caller : at[c].stops => at[c].pc = IF c = Closer THEN "runtimes" ELSE "stopping"
  /\ \A c \in Caller : at[c].pc \in {"stopping", "unset", "remove", "undo", "create"} => rt = None
  /\ at[Closer].pc \in {"runtimes", "closed"} => rt = None
  /\ \A c \in Caller : Closed /\ at[c].pc \in {"create", "connect"}
                         => At(Closer, "transitions") /\ c \in waits
  /\ OneConnection

\* What the work of c does to the runtime, step by step.
Effect(c) ==
  \/ /\ rt' = rt /\ ~at'[c].stops
     /\ at'[c].pc \in {"idle", "stop", "set", "save", "restore"}
  \/ /\ rt' = rt /\ ~at'[c].stops
     /\ at[c].pc \in {"stopping", "unset", "remove"} /\ at'[c].pc \in {"unset", "remove", "undo"}
  \/ /\ rt' = rt /\ ~at'[c].stops
     /\ at[c].pc = "stopping" /\ at'[c].pc = "create" /\ ~Closed
  \/ /\ rt' = None /\ at'[c].stops = Ready
     /\ at[c].pc = "stop" /\ at'[c].pc = "stopping"
  \/ /\ rt' = Runtime(c, "starting") /\ ~at'[c].stops
     /\ at[c].pc = "create" /\ at'[c].pc = "connect"
  \/ /\ rt' \in {None, Runtime(c, "ready")} /\ ~at'[c].stops
     /\ at[c].pc = "connect" /\ at'[c].pc = "idle"

\* Every step of an operation does one of these to the runtime.
LEMMA Effects ==
  ASSUME Types, Links, NEW c \in Request \cup {Supervisor}, Work(c)
  PROVE  Effect(c)
<1>t. /\ at \in [Caller -> Rec] /\ c \in Caller
      /\ at[c].stops => at[c].pc = "stopping"
  BY NamesDiffer DEF Types, TypeOK, Rec, Caller, Links
<1>s. Settle(c) => at'[c].pc = "idle" /\ ~at'[c].stops
  BY <1>t DEF Settle, Idle
<1> USE <1>t, <1>s DEF Throw, Go, Holds, At, Rec, Effect
<1>1. CASE StartStored(c)
  <2>1. Settle(c) \/ \E t \in Token : at' = [at EXCEPT ![c].token = t, ![c].pc = "stop"]
    BY <1>1 DEF StartStored, Nothing
  <2>2. rt' = rt /\ ~at[c].stops
    BY <1>1 DEF StartStored
  <2> QED  BY <2>1, <2>2
<1>2. CASE Bind(c)
  <2>1. Settle(c) \/ \E t \in Token \cup Nothing : at' = [at EXCEPT ![c].prev = t, ![c].pc = "set"]
    BY <1>2 DEF Bind
  <2>2. rt' = rt /\ ~at[c].stops
    BY <1>2 DEF Bind
  <2> QED  BY <2>1, <2>2
<1>3. CASE SetCredential(c)
  BY <1>3 DEF SetCredential
<1>4. CASE UpdateConfig(c)
  <2>1. Settle(c) \/ \E t \in Token : at' = [at EXCEPT ![c].token = t, ![c].pc = "save"]
    BY <1>4 DEF UpdateConfig, Nothing
  <2>2. rt' = rt /\ ~at[c].stops
    BY <1>4 DEF UpdateConfig
  <2> QED  BY <2>1, <2>2
<1>5. CASE SaveConfig(c)
  BY <1>5 DEF SaveConfig
<1>6. CASE Restore(c)
  BY <1>6 DEF Restore
<1>7. CASE Delete(c)
  BY <1>7 DEF Delete
<1>8. CASE Unset(c)
  BY <1>8 DEF Unset
<1>9. CASE Remove(c)
  BY <1>9 DEF Remove
<1>10. CASE Undo(c)
  BY <1>10 DEF Undo
<1>11. CASE UndoNothing(c)
  BY <1>11 DEF UndoNothing
<1>12. CASE Stop(c)
  BY <1>12 DEF Stop
<1>13. CASE Stopped(c)
  BY <1>13 DEF Stopped
<1>14. CASE Create(c)
  BY <1>14 DEF Create
<1>15. CASE Connect(c)
  BY <1>15 DEF Connect
<1> QED  BY Work(c), <1>1, <1>2, <1>3, <1>4, <1>5, <1>6, <1>7, <1>8, <1>9, <1>10, <1>11,
            <1>12, <1>13, <1>14, <1>15 DEF Work

\* Every step keeps who is to end the connection there is.
LEMMA LinksStep ==
  ASSUME Types, Chain, Links, [Next]_vars
  PROVE  Links'
<1> USE NamesDiffer
<1>t. at \in [Caller -> Rec] /\ Supervisor \in Caller /\ Closer \in Caller
  BY DEF Types, TypeOK, Rec, Caller
<1>1. CASE (\E r \in Request : Ask(r) \/ Inspected(r)) \/ Supervise
  BY <1>1, <1>t, Arrives DEF Arrival, Links, OneConnection, Closed, Ready, At, Busy
<1>2. ASSUME NEW c \in Request \cup {Supervisor}, Work(c)  PROVE Links'
  <2>1. Progress(c) /\ Effect(c) /\ c \in Caller
    BY <1>2, Progresses, Effects DEF Caller
  <2>2. /\ at'[Closer] = at[Closer]
        /\ \A d \in Caller \ {c} : at'[d] = at[d] /\ at[d].pc \notin Busy /\ (d \in waits => d \in waits')
    BY <1>t, <2>1 DEF Progress, Chain
  <2>3. Closed' = Closed /\ (At(Closer, "transitions"))' = At(Closer, "transitions")
    BY <2>2 DEF Closed, At
  <2>4. \A d \in Caller : at'[d].stops => at'[d].pc = IF d = Closer THEN "runtimes" ELSE "stopping"
    BY <2>1, <2>2 DEF Links, Effect, Progress
  <2>5. \A d \in Caller : at'[d].pc \in {"stopping", "unset", "remove", "undo", "create"} => rt' = None
    BY <2>1, <2>2 DEF Links, Effect, Busy
  <2>6. /\ at'[Closer].pc \in {"runtimes", "closed"} => rt' = None
        /\ at'[c].pc \in {"create", "connect"} /\ Closed => At(Closer, "transitions") /\ c \in waits'
    BY <1>t, <2>1, <2>2 DEF Links, Effect, Progress, Closed, At, Idle
  <2>7. \A d \in Caller : Closed /\ at'[d].pc \in {"create", "connect"}
                           => At(Closer, "transitions") /\ d \in waits'
    BY <2>2, <2>6 DEF Busy
  <2>8. \A d \in Caller : at'[d].stops => d = c \/ at[d].stops
    BY <2>2
  <2>9. /\ \A d, e \in Caller : at'[d].stops /\ at'[e].stops => d = e
        /\ Ready' => \A d \in Caller : ~at'[d].stops
    BY <1>t, <2>1, <2>2, <2>8 DEF Links, OneConnection, Effect, Ready, Runtime, Busy, Closed, At
  <2> QED  BY <2>3, <2>4, <2>5, <2>6, <2>7, <2>9 DEF Links, OneConnection, At
<1>3. CASE Close
  BY <1>3, <1>t DEF Close, Go, Links, OneConnection, Closed, Ready, At, Rec
<1>4. CASE CloseController
  <2>1. \A c \in Caller : at'[c].stops = at[c].stops /\ (c # Closer => at'[c] = at[c])
    BY <1>4, <1>t DEF CloseController, Go, Rec
  <2>2. at[Closer].pc = "supervisor" /\ at'[Closer].pc = "transitions" /\ rt' = rt
    BY <1>4, <1>t DEF CloseController, Go, At, Rec
  <2>3. \A c \in Caller : at[c].pc \in {"create", "connect"} => c \in waits'
    BY <1>4 DEF CloseController, Chain, Busy, Types, TypeOK
  <2> QED  BY <2>1, <2>2, <2>3 DEF Links, OneConnection, Ready, At
<1>5. CASE CloseRuntimes
  <2>1. \A c \in Caller \ {Closer} : at'[c] = at[c]
    BY <1>5, <1>t DEF CloseRuntimes
  <2>2. at'[Closer].pc = "runtimes" /\ at'[Closer].stops = Ready /\ rt' = None
    BY <1>5, <1>t DEF CloseRuntimes, Ready, Rec
  <2>3. \A c \in Caller : at[c].pc \notin {"create", "connect"} /\ (Ready => ~at[c].stops)
    BY <1>5 DEF CloseRuntimes, Links, OneConnection, Closed, At
  <2> QED  BY <2>1, <2>2, <2>3 DEF Links, OneConnection, Ready, At
<1>6. CASE CloseEnds
  <2>1. \A c \in Caller \ {Closer} : at'[c] = at[c]
    BY <1>6, <1>t DEF CloseEnds
  <2>2. at[Closer].pc = "runtimes" /\ at'[Closer].pc = "closed" /\ ~at'[Closer].stops /\ rt' = rt
    BY <1>6, <1>t DEF CloseEnds, At, Rec
  <2>3. \A c \in Caller : at[c].pc \notin {"create", "connect"}
    BY <2>2 DEF Links, Closed, At
  <2> QED  BY <2>1, <2>2, <2>3 DEF Links, OneConnection, Ready, At
<1>7. CASE Drop
  BY <1>7 DEF Drop, Links, OneConnection, Closed, Ready, At
<1>8. CASE Restart
  BY <1>8, <1>t DEF Restart, Idle, Links, OneConnection, Closed, Ready, At
<1>9. CASE UNCHANGED vars
  BY <1>9 DEF vars, Links, OneConnection, Closed, Ready, At
<1> QED  BY <1>1, <1>2, <1>3, <1>4, <1>5, <1>6, <1>7, <1>8, <1>9, StepKinds DEF Elsewhere, Closing

------------------------------------------------------------------------------
(* What is stored and what runs *)

\* A credential t would be the one that belongs to the config and to what runs.
Belongs(t) == (t = None) = (config = None) /\ (rt # None /\ ~Closed => rt.token = t)

\* What c can rely on in the middle of its operation, to go on and to undo it.
Midway(c) ==
  /\ At(c, "set") => at[c].prev \in {cred, Unread} /\ (~apart => Belongs(cred))
  /\ at[c].pc \in {"save", "restore"} =>
       /\ cred = at[c].token
       /\ at[c].op = "bind" /\ ~apart /\ at[c].prev # Unread => Belongs(at[c].prev)
  /\ At(c, "save") /\ at[c].op = "policy" => config # None /\ (~apart => Belongs(cred))
  /\ at[c].pc \in Starting \cup {"unset"} =>
       /\ ~apart => (cred = None) = (config = None)
       /\ ~apart /\ at[c].op # "delete" => cred = at[c].token
       /\ at[c].op = "delete" => at[c].prev \in {cred, Unread}
  /\ At(c, "remove") => cred = None
  /\ At(c, "undo") /\ at[c].prev # Unread => cred \in {at[c].prev, None}
  /\ at[c].pc \in {"remove", "undo"} /\ ~apart /\ at[c].prev # Unread
       => (at[c].prev = None) = (config = None)

\* Nobody is in the middle of an operation.
Quiet == \A c \in Caller : at[c].pc \notin Busy

Stored == (\A c \in Caller : Midway(c)) /\ (Quiet /\ ~apart => Belongs(cred))

\* After a step of c: it knows what it can rely on, or has left things in order.
Leaves(c) == Midway(c)' /\ (at'[c].pc \notin Busy /\ ~apart' => Belongs(cred)')

\* A step of an operation leaves its caller what it needs to go on or to undo it.
LEMMA WorkStored ==
  ASSUME Types, Chain, Links, Stored, NEW c \in Request \cup {Supervisor}, Work(c)
  PROVE  Leaves(c)
<1> USE NamesDiffer
<1>t. /\ c \in Caller /\ c # Closer /\ at \in [Caller -> Rec] /\ at[c] \in Rec /\ Shape(at[c])
      /\ cred \in Token \cup {None} /\ config \in Policy \cup {None} /\ apart \in BOOLEAN
  BY DEF Types, TypeOK, Carried, Caller, Rec
<1>c. Closed' = Closed
  BY <1>t, Progresses DEF Progress, Closed, Caller
<1>m. Midway(c)
  BY <1>t DEF Stored
<1>q. At(c, "queued") /\ Holds(c, "queued") /\ ~apart => Belongs(cred)
  BY <1>t DEF Stored, Quiet, Chain, Holds, At, Busy
<1>s. ASSUME Settle(c), ~apart' => Belongs(cred)'  PROVE Leaves(c)
  BY <1>t, <1>s DEF Settle, Idle, Leaves, Midway, At, Starting
<1>u. ASSUME Settle(c), UNCHANGED <<cred, config, rt, apart>>, ~apart => Belongs(cred)  PROVE Leaves(c)
  BY <1>c, <1>s, <1>u DEF Belongs
<1> USE <1>t, <1>c, <1>m DEF Holds, At, Throw, Go
<1>1. CASE StartStored(c)
  <2>1. /\ UNCHANGED <<cred, config, rt, apart>> /\ (~apart => Belongs(cred))
        /\ at[c].op \in {"init", "reconnect"}
    BY <1>1, <1>q DEF StartStored
  <2>2. \/ Settle(c)
        \/ \E t \in Token : at' = [at EXCEPT ![c].token = t, ![c].pc = "stop"] /\ t = cred
    BY <1>1 DEF StartStored, Nothing, Read
  <2>3. ASSUME at' = [at EXCEPT ![c].token = cred, ![c].pc = "stop"]  PROVE Leaves(c)
    <3>1. at'[c].pc = "stop" /\ at'[c].token = cred /\ at'[c].op = at[c].op
      BY <2>3 DEF Rec
    <3> QED  BY <2>1, <3>1 DEF Leaves, Midway, Belongs, Busy, Starting
  <2> QED  BY <1>u, <2>1, <2>2, <2>3
<1>2. CASE Bind(c)
  <2>1. UNCHANGED <<cred, config, rt, apart>> /\ (~apart => Belongs(cred))
    BY <1>2, <1>q DEF Bind
  <2>2. \/ Settle(c)
        \/ \E t \in {cred, Unread} : at' = [at EXCEPT ![c].prev = t, ![c].pc = "set"]
    BY <1>2 DEF Bind, Read
  <2>3. ASSUME NEW t \in {cred, Unread}, at' = [at EXCEPT ![c].prev = t, ![c].pc = "set"]  PROVE Leaves(c)
    <3>1. at'[c].pc = "set" /\ at'[c].prev = t
      BY <2>3 DEF Rec
    <3> QED  BY <2>1, <3>1 DEF Leaves, Midway, Belongs, Busy, Starting
  <2> QED  BY <1>u, <2>1, <2>2, <2>3
<1>3. CASE SetCredential(c)
  <2>1. /\ UNCHANGED <<config, rt, apart>> /\ (~apart => Belongs(cred)) /\ at[c].prev \in {cred, Unread}
        /\ at[c].op = "bind"
    BY <1>3 DEF SetCredential, Midway, Shape
  <2>2. ASSUME cred' = at[c].token, Go(c, "save")  PROVE Leaves(c)
    <3>1. at'[c].pc = "save" /\ at'[c].prev = at[c].prev /\ at'[c].op = "bind" /\ at'[c].token = at[c].token
      BY <2>1, <2>2 DEF Rec
    <3> QED  BY <2>1, <2>2, <3>1 DEF Leaves, Midway, Belongs, Busy, Starting
  <2> QED  BY <1>3, <1>u, <2>1, <2>2 DEF SetCredential
<1>4. CASE UpdateConfig(c)
  <2>1. UNCHANGED <<cred, config, rt, apart>> /\ (~apart => Belongs(cred)) /\ at[c].op = "policy"
    BY <1>4, <1>q DEF UpdateConfig
  <2>2. \/ Settle(c)
        \/ config # None /\ \E t \in Token : at' = [at EXCEPT ![c].token = t, ![c].pc = "save"] /\ t = cred
    BY <1>4 DEF UpdateConfig, Nothing, Read
  <2>3. ASSUME config # None, at' = [at EXCEPT ![c].token = cred, ![c].pc = "save"]  PROVE Leaves(c)
    <3>1. at'[c].pc = "save" /\ at'[c].token = cred /\ at'[c].op = "policy"
      BY <2>1, <2>3 DEF Rec
    <3> QED  BY <2>1, <2>3, <3>1 DEF Leaves, Midway, Belongs, Busy, Starting
  <2> QED  BY <1>u, <2>1, <2>2, <2>3
<1>5. CASE SaveConfig(c)
  <2>1. /\ UNCHANGED <<cred, rt>> /\ cred = at[c].token /\ at[c].token \in Token /\ at[c].op \in {"bind", "policy"}
        /\ at[c].pc = "save"
    BY <1>5 DEF SaveConfig, Midway, Shape
  <2>2. ASSUME config' = ToSave(c), at' = [at EXCEPT ![c].cfg = ToSave(c), ![c].pc = "stop"]  PROVE Leaves(c)
    <3>1. ToSave(c) # None
      BY <2>1, DefaultIsPolicy DEF ToSave, Shape
    <3>2. at'[c].pc = "stop" /\ at'[c].token = at[c].token /\ at'[c].op = at[c].op
      BY <2>2 DEF Rec
    <3> QED  BY <2>1, <2>2, <3>1, <3>2 DEF Leaves, Midway, Busy, Starting
  <2>3. ASSUME at[c].op = "bind", Go(c, "restore"), UNCHANGED <<config, apart>>  PROVE Leaves(c)
    <3>1. /\ at'[c].pc = "restore" /\ at'[c].token = at[c].token /\ at'[c].prev = at[c].prev
          /\ at'[c].op = at[c].op
      BY <2>3 DEF Rec
    <3> QED  BY <2>1, <2>3, <3>1 DEF Leaves, Midway, Belongs, Busy, Starting
  <2>4. ASSUME at[c].op # "bind", Settle(c), UNCHANGED <<config, apart>>  PROVE Leaves(c)
    BY <1>u, <2>1, <2>4 DEF Midway
  <2> QED  BY <1>5, <2>2, <2>3, <2>4 DEF SaveConfig
<1>6. CASE Restore(c)
  <2>1. /\ at[c].op = "bind" /\ Settle(c) /\ UNCHANGED <<config, rt>>
        /\ ~apart /\ at[c].prev # Unread => Belongs(at[c].prev)
    BY <1>6 DEF Restore, Midway, Shape
  <2>2. ~apart' => ~apart /\ at[c].prev # Unread /\ cred' = at[c].prev
    BY <1>6 DEF Restore
  <2> QED  BY <1>s, <2>1, <2>2 DEF Belongs
<1>7. CASE Delete(c)
  <2>1. UNCHANGED <<cred, config, rt, apart>> /\ (~apart => Belongs(cred)) /\ at[c].op = "delete"
    BY <1>7, <1>q DEF Delete
  <2>2. PICK t \in {cred, Unread} : at' = [at EXCEPT ![c].prev = t, ![c].pc = "stop"]
    BY <1>7 DEF Delete, Read
  <2>3. at'[c].pc = "stop" /\ at'[c].prev = t /\ at'[c].op = "delete"
    BY <2>1, <2>2 DEF Rec
  <2> QED  BY <2>1, <2>3 DEF Leaves, Midway, Belongs, Busy, Starting
<1>8. CASE Unset(c)
  <2>1. /\ UNCHANGED <<config, rt, apart>> /\ at[c].op = "delete" /\ at[c].prev \in {cred, Unread}
        /\ ~apart => (cred = None) = (config = None)
    BY <1>8 DEF Unset, Midway, Shape
  <2>2. \/ cred' = None /\ Go(c, "remove")
        \/ cred' = cred /\ Go(c, "undo")
    BY <1>8 DEF Unset
  <2>3. /\ at'[c].prev = at[c].prev
        /\ \/ cred' = None /\ at'[c].pc = "remove"
           \/ cred' = cred /\ at'[c].pc = "undo"
    BY <2>2 DEF Rec
  <2> QED  BY <2>1, <2>3 DEF Leaves, Midway, Busy, Starting
<1>9. CASE Remove(c)
  <2>1. UNCHANGED <<cred, rt>> /\ cred = None /\ rt = None /\ at[c].pc = "remove"
    BY <1>9 DEF Remove, Midway, Links
  <2>2. ASSUME config' = None, Settle(c)  PROVE Leaves(c)
    BY <1>s, <2>1, <2>2 DEF Belongs
  <2>3. ASSUME Go(c, "undo"), UNCHANGED <<config, apart>>  PROVE Leaves(c)
    <3>1. at'[c].prev = at[c].prev /\ at'[c].pc = "undo"
      BY <2>3 DEF Rec
    <3> QED  BY <2>1, <2>3, <3>1 DEF Leaves, Midway, Busy, Starting
  <2> QED  BY <1>9, <2>2, <2>3 DEF Remove
<1>10. CASE Undo(c)
  <2>1. /\ UNCHANGED <<config, rt>> /\ at[c].prev \in Token
        /\ ~apart => (at[c].prev = None) = (config = None)
    BY <1>10 DEF Undo, Midway
  <2>2. ~apart' => ~apart /\ cred' = at[c].prev
    BY <1>10 DEF Undo
  <2>3. at'[c].pc = "stop" /\ at'[c].op = "undo" /\ at'[c].token = at[c].prev
    BY <1>10 DEF Undo, Rec
  <2> QED  BY <2>1, <2>2, <2>3 DEF Leaves, Midway, Busy, Starting
<1>11. CASE UndoNothing(c)
  <2>1. Settle(c) /\ UNCHANGED <<cred, config, rt>> /\ rt = None
    BY <1>11 DEF UndoNothing, Links
  <2>2. ~apart' => cred = None /\ config = None
    BY <1>11 DEF UndoNothing, Midway, Nothing
  <2> QED  BY <1>s, <2>1, <2>2 DEF Belongs
<1>12. CASE Stop(c)
  <2>1. UNCHANGED <<cred, config, apart>>
    BY <1>12 DEF Stop
  <2>2. ASSUME Closed, at[c].op # "delete", Settle(c), rt' = rt  PROVE Leaves(c)
    BY <1>12, <1>s, <2>1, <2>2 DEF Stop, Midway, Belongs, Starting
  <2>3. ASSUME at' = [at EXCEPT ![c].pc = "stopping", ![c].stops = Ready]  PROVE Leaves(c)
    <3>1. /\ at'[c].pc = "stopping" /\ at'[c].op = at[c].op /\ at'[c].token = at[c].token
          /\ at'[c].prev = at[c].prev
      BY <2>3 DEF Rec
    <3>2. at[c].pc = "stop"
      BY <1>12 DEF Stop
    <3> QED  BY <2>1, <3>1, <3>2 DEF Leaves, Midway, Busy, Starting
  <2> QED  BY <1>12, <2>2, <2>3 DEF Stop
<1>13. CASE Stopped(c)
  <2>1. UNCHANGED <<cred, config, rt, apart>> /\ at[c].pc = "stopping" /\ rt = None
    BY <1>13 DEF Stopped, Links
  <2>2. ASSUME Settle(c)  PROVE Leaves(c)
    BY <1>u, <2>1, <2>2 DEF Midway, Belongs, Starting
  <2>3. ASSUME NEW p \in {"unset", "create"}, at' = [at EXCEPT ![c].stops = FALSE, ![c].pc = p],
               p = "create" => at[c].op # "delete"
        PROVE  Leaves(c)
    <3>1. at'[c].pc = p /\ at'[c].op = at[c].op /\ at'[c].token = at[c].token /\ at'[c].prev = at[c].prev
      BY <2>3 DEF Rec
    <3> QED  BY <2>1, <2>3, <3>1 DEF Leaves, Midway, Busy, Starting
  <2> QED  BY <1>13, <2>2, <2>3 DEF Stopped
<1>14. CASE Create(c)
  <2>1. UNCHANGED <<cred, config, apart>> /\ at[c].pc = "create" /\ rt = None /\ at[c].op # "delete"
    BY <1>14 DEF Create, Links, Shape
  <2>2. ASSUME Go(c, "connect")  PROVE Leaves(c)
    <3>1. at'[c].pc = "connect" /\ at'[c].op = at[c].op /\ at'[c].token = at[c].token /\ at'[c].prev = at[c].prev
      BY <2>2 DEF Rec
    <3> QED  BY <2>1, <3>1 DEF Leaves, Midway, Busy, Starting
  <2>3. ASSUME Settle(c), rt' = rt  PROVE Leaves(c)
    BY <1>u, <2>1, <2>3 DEF Midway, Belongs, Starting
  <2> QED  BY <1>14, <2>2, <2>3 DEF Create
<1>15. CASE Connect(c)
  <2>1. UNCHANGED <<cred, config, apart>> /\ Settle(c) /\ at[c].pc = "connect" /\ at[c].op # "delete"
    BY <1>15 DEF Connect, Shape
  <2>2. rt' = None \/ rt'.token = at[c].token
    BY <1>15 DEF Connect, Runtime
  <2> QED  BY <1>s, <2>1, <2>2 DEF Midway, Belongs, Starting
<1> QED  BY Work(c), <1>1, <1>2, <1>3, <1>4, <1>5, <1>6, <1>7, <1>8, <1>9, <1>10, <1>11,
            <1>12, <1>13, <1>14, <1>15 DEF Work

\* Every step keeps credential, config and runtime fitting together.
LEMMA StoredStep ==
  ASSUME Types, Chain, Links, Stored, [Next]_vars
  PROVE  Stored'
<1> USE NamesDiffer
<1>t. at \in [Caller -> Rec] /\ Supervisor \in Caller /\ Closer \in Caller
  BY DEF Types, TypeOK, Rec, Caller
<1>1. CASE (\E r \in Request : Ask(r) \/ Inspected(r)) \/ Supervise
  <2>1. Arrival
    BY <1>1, Arrives
  <2>2. Closed' = Closed /\ (Quiet' => Quiet)
    BY <1>t, <2>1 DEF Arrival, Closed, Quiet
  <2>3. ASSUME NEW c \in Caller  PROVE Midway(c)'
    <3>1. CASE at'[c] = at[c]
      BY <2>1, <2>2, <3>1 DEF Arrival, Stored, Midway, Belongs, At
    <3>2. CASE at'[c].pc \notin Busy
      BY <3>2 DEF Midway, Busy, Starting, At
    <3> QED  BY <2>1, <3>1, <3>2 DEF Arrival
  <2> QED  BY <2>1, <2>2, <2>3 DEF Arrival, Stored, Belongs
<1>2. ASSUME NEW c \in Request \cup {Supervisor}, Work(c)  PROVE Stored'
  <2>1. Progress(c) /\ Leaves(c) /\ c \in Caller
    BY <1>2, Progresses, WorkStored DEF Caller
  <2>2. \A d \in Caller \ {c} : at'[d].pc \notin Busy
    BY <2>1 DEF Progress, Chain
  <2>3. \A d \in Caller \ {c} : Midway(d)'
    BY <2>2 DEF Midway, Busy, Starting, At
  <2> QED  BY <2>1, <2>2, <2>3 DEF Leaves, Stored, Quiet
<1>3. CASE Close \/ Closing
  <2>1. /\ UNCHANGED <<cred, config, apart>> /\ (rt' = rt \/ rt' = None) /\ (Closed => Closed')
        /\ \A c \in Caller \ {Closer} : at'[c] = at[c]
    BY <1>3, <1>t DEF Close, Closing, CloseController, CloseRuntimes, CloseEnds, Go, Closed, At, Rec
  <2>2. at'[Closer].pc \notin Busy /\ at[Closer].pc \notin Busy
    BY <1>3, <1>t, ChainStep DEF Chain, Busy
  <2>3. \A t : Belongs(t) => Belongs(t)'
    BY <2>1 DEF Belongs
  <2>4. ASSUME NEW c \in Caller  PROVE Midway(c)'
    <3>1. CASE c = Closer
      BY <2>2, <3>1 DEF Midway, Busy, Starting, At
    <3>2. CASE c # Closer
      BY <2>1, <2>3, <3>2 DEF Stored, Midway, At
    <3> QED  BY <3>1, <3>2
  <2>5. Quiet' => Quiet
    BY <2>1, <2>2 DEF Quiet
  <2> QED  BY <2>1, <2>3, <2>4, <2>5 DEF Stored
<1>4. CASE Drop
  <2>1. UNCHANGED <<cred, config, at, apart>> /\ rt # None /\ rt'.token = rt.token
    BY <1>4 DEF Drop, Ready, Types, TypeOK
  <2>2. \A t : Belongs(t) => Belongs(t)'
    BY <2>1 DEF Belongs, Closed
  <2> QED  BY <2>1, <2>2 DEF Stored, Quiet, Midway, At
<1>5. CASE Restart
  <2>1. \A c \in Caller : Midway(c)'
    BY <1>5, <1>t DEF Restart, Idle, Midway, At, Starting
  <2>2. ~apart' => Belongs(cred)'
    BY <1>5 DEF Restart, Belongs
  <2> QED  BY <2>1, <2>2 DEF Stored
<1>6. CASE UNCHANGED vars
  BY <1>6 DEF vars, Stored, Quiet, Midway, Belongs, Closed, At
<1> QED  BY <1>1, <1>2, <1>3, <1>4, <1>5, <1>6, StepKinds DEF Elsewhere

------------------------------------------------------------------------------
(* The theorems *)

Inv == Types /\ Chain /\ Links /\ Stored

\* The invariant holds at the start.
LEMMA InvInit == Init => Inv
<1> SUFFICES ASSUME Init  PROVE Inv
  OBVIOUS
<1>1. Types
  BY TypesInit
<1>2. Chain /\ Links
  BY NamesDiffer DEF Init, Idle, Chain, Links, OneConnection, Ready, Closed, At, Busy, Caller
<1>3. Stored
  BY DEF Init, Idle, Stored, Midway, Belongs, Quiet, At, Starting, Busy
<1> QED  BY <1>1, <1>2, <1>3 DEF Inv

\* Every step keeps the invariant.
LEMMA InvStep == Inv /\ [Next]_vars => Inv'
  BY TypesStep, ChainStep, LinksStep, StoredStep DEF Inv

\* What holds together at every step: the types with what a step needs to keep
\* them, one transition at a time, the end of a connection, what is stored midway.
THEOREM Invariance == Spec => []Inv
  BY InvInit, InvStep, PTL DEF Spec

\* OneConnection: a bot never has two connections, and none when its channel is closed.
THEOREM OneConnectionHolds == Spec => []OneConnection
<1>1. Inv => OneConnection
  BY DEF Inv, Links
<1> QED  BY <1>1, Invariance, PTL

\* RunsWhatIsStored: between transitions credential, config and runtime fit together.
THEOREM RunsWhatIsStoredHolds == Spec => []RunsWhatIsStored
<1>1. Inv => RunsWhatIsStored
  BY DEF Inv, Stored, Quiet, Chain, Belongs, RunsWhatIsStored
<1> QED  BY <1>1, Invariance, PTL

\* PolicyOnlyBySetting: no step changes a policy that nobody asked to change.
THEOREM PolicyOnlyBySettingHolds == Spec => PolicyOnlyBySetting
<1> DEFINE Change == \/ config' = None
                     \/ config = None /\ config' = Default
                     \/ config # None /\ \E r \in Request : at[r].op = "policy" /\ at[r].cfg = config'
<1>1. ASSUME Inv, [Next]_vars, config' # config  PROVE Change
  <2>1. CASE (\E r \in Request : Ask(r) \/ Inspected(r)) \/ Supervise
    BY <1>1, <2>1, Arrives DEF Inv, Arrival
  <2>2. ASSUME NEW c \in Request \cup {Supervisor}, Work(c)  PROVE Change
    <3>1. SaveConfig(c) \/ Remove(c)
      BY <1>1, <2>2 DEF Work, StartStored, Bind, SetCredential, UpdateConfig, Restore, Delete, Unset,
         Undo, UndoNothing, Stop, Stopped, Create, Connect
    <3>2. CASE Remove(c)
      BY <1>1, <3>2 DEF Remove
    <3>3. CASE SaveConfig(c)
      <4>1. config' = ToSave(c) /\ at[c].pc = "save"
        BY <1>1, <3>3 DEF SaveConfig, Holds, At
      <4>2. CASE at[c].op = "policy"
        <5>1. c \in Request
          BY <1>1, <4>2 DEF Inv, Chain
        <5>2. config # None
          BY <1>1, <4>1, <4>2 DEF Inv, Stored, Midway, At, Caller
        <5> QED  BY <4>1, <4>2, <5>1, <5>2 DEF ToSave
      <4>3. CASE at[c].op # "policy"
        BY <1>1, <4>1, <4>3 DEF ToSave
      <4> QED  BY <4>2, <4>3
    <3> QED  BY <3>1, <3>2, <3>3
  <2>3. CASE Elsewhere
    BY <1>1, <2>3 DEF Elsewhere, Close, Closing, CloseController, CloseRuntimes, CloseEnds, Drop, Restart, vars
  <2> QED  BY <1>1, <2>1, <2>2, <2>3, StepKinds
<1>2. Inv /\ [Next]_vars => [config' # config => Change]_vars
  BY <1>1
<1> QED  BY <1>2, Invariance, PTL DEF Spec, PolicyOnlyBySetting
=============================================================================
