---------------------------- MODULE GridBotProofs ----------------------------
(***************************************************************************)
(* Theorems about GridBot, for any number of levels, orders, cycles,       *)
(* connection losses, crashes and restarts: the order is saved before it   *)
(* is sent, no id is sent twice, no order is sent while the outcome of     *)
(* another is open, and what the store calls filled is filled.             *)
(***************************************************************************)
EXTENDS GridBot, FiniteSetTheorems, TLAPS

(***************************************************************************)
(* What the proofs need to know of the shape of the state: which fields    *)
(* the records have, whatever their values.                                *)
(***************************************************************************)
IntentRows(S) == [Orders -> [status : S, filled : S]]
VenueRows(S) == [Orders -> [state : S, executed : S]]
CycleRows(S) ==
    [desired : S, cancels : S, creates : S, level : S, approval : S, order : S, answer : S]

IsCycle(r) == \E S : r \in CycleRows(S)

Shapes ==
    /\ \E S : intents \in IntentRows(S)
    /\ \E S : venue \in VenueRows(S)
    /\ IsCycle(cycle)
    /\ \E S : pc \in [Threads -> S]

(* The order main is about to submit is not in the store yet, the order it is about to
   send is, and was never sent. *)
Prepared ==
    /\ pc["main"] \in {"consume", "save"} /\ cycle.order \in Orders => ~HasIntent(cycle.order)
    /\ pc["main"] = "send" /\ cycle.order \in Orders =>
          HasIntent(cycle.order) /\ venue[cycle.order].state = "NONE"

Written == Shapes /\ WriteAhead /\ Prepared

(***************************************************************************)
(* Kinds of steps                                                          *)
(***************************************************************************)

(* No answer of the exchange is recorded as the absence of an intent. *)
LEMMA MappedStatus == \A s : Mapped(s) # "ABSENT"
BY DEF Mapped

(* main is not a websocket thread. *)
LEMMA MainIsNoStream == "main" \in Threads /\ "main" \notin Streams /\ Streams \subseteq Threads
BY StreamsAssumption DEF Threads

(* Which steps write the store. *)
LEMMA StoreActions ==
  ASSUME [Next]_vars
  PROVE  \/ Save
         \/ RecordCancel \/ Rejected \/ TimedOut \/ RecordAck \/ WriteUpdate
         \/ \E t \in Threads : WriteStatus(t)
         \/ \E id, o, q : AddFill(id, o, q)
         \/ UNCHANGED intents
<1>1. CASE Main
  <2>1. ASSUME \/ Start \/ Abort \/ BeginCycle \/ EndRun \/ Diff
               \/ EndCancels \/ EndCycle \/ GenerateId \/ Consume \/ Send
               \/ Acknowledged \/ Interrupt \/ Raise \/ Resolve
        PROVE  UNCHANGED intents
    BY <2>1 DEF Start, Abort, BeginCycle, EndRun, Diff, EndCancels, EndCycle, GenerateId,
       Consume, Send, Acknowledged, Interrupt, Raise, Resolve, store
  <2>2. ASSUME \/ \E o \in Orders : CancelOrder(o)
               \/ \E l \in Levels : RequestApproval(l)
        PROVE  UNCHANGED intents
    BY <2>2 DEF CancelOrder, RequestApproval, store
  <2> QED
    BY <1>1, <2>1, <2>2 DEF Main
<1>2. CASE Stream
  <2>1. ASSUME BookTrade PROVE \E id, o, q : AddFill(id, o, q)
    BY <2>1 DEF BookTrade
  <2>2. ASSUME ReadUpdate \/ ReportFill PROVE UNCHANGED intents
    BY <2>2 DEF ReadUpdate, ReportFill, store
  <2>3. ASSUME NEW t \in Streams,
               Connect(t) \/ LoseConnection(t) \/ Reconnect(t) \/ Reconciled(t)
        PROVE  UNCHANGED intents
    BY <2>3 DEF Connect, LoseConnection, Reconnect, Reconciled, store
  <2> QED
    BY <1>2, <2>1, <2>2, <2>3 DEF Stream
<1>3. ASSUME NEW t \in Threads, ResolveState(t)
      PROVE  WriteStatus(t) \/ (\E id, o, q : AddFill(id, o, q)) \/ UNCHANGED intents
  <2>1. CASE BookFill(t)
    BY <2>1 DEF BookFill, store
  <2>2. ASSUME NEW o \in Orders, QueryUnknown(t, o) \/ SyncActive(t, o)
        PROVE  UNCHANGED intents
    BY <2>2 DEF QueryUnknown, SyncActive, TakeUp, Fail, store
  <2>3. CASE FetchExchangeState(t) \/ ListIntents(t) \/ EndUnknown(t) \/ EndActive(t)
    BY <2>3 DEF FetchExchangeState, ListIntents, EndUnknown, EndActive, Fail, store
  <2> QED
    BY <1>3, <2>1, <2>2, <2>3 DEF ResolveState
<1>4. CASE Trading \/ Restart \/ UNCHANGED vars
  BY <1>4 DEF Trading, Restart, vars, store
<1> QED
  BY <1>1, <1>2, <1>3, <1>4 DEF Next, Reconcile

(* What a step of the bot does to the store. *)
LEMMA StoreKinds ==
  ASSUME [Next]_vars
  PROVE  \/ Save
         \/ \E o, s : s # "ABSENT" /\ UpdateIntentStatus(o, s)
         \/ \E id, o, q : AddFill(id, o, q)
         \/ UNCHANGED intents
<1>1. ASSUME RecordCancel \/ Rejected \/ TimedOut \/ RecordAck
      PROVE  \E o, s : s # "ABSENT" /\ UpdateIntentStatus(o, s)
  BY <1>1, MappedStatus DEF RecordCancel, Rejected, TimedOut, RecordAck
<1>2. ASSUME WriteUpdate
      PROVE  UNCHANGED intents \/ \E o, s : s # "ABSENT" /\ UpdateIntentStatus(o, s)
  BY <1>2, MappedStatus DEF WriteUpdate, store
<1>3. ASSUME NEW t \in Threads, WriteStatus(t)
      PROVE  \E o, s : s # "ABSENT" /\ UpdateIntentStatus(o, s)
  BY <1>3, MappedStatus DEF WriteStatus
<1> QED
  BY <1>1, <1>2, <1>3, StoreActions

(* No step but Save adds an intent, and none drops one. *)
LEMMA StoreStep ==
  ASSUME Shapes, [Next]_vars
  PROVE  /\ \E S : intents' \in IntentRows(S)
         /\ Save \/ \A o \in Orders : HasIntent(o)' <=> HasIntent(o)
<1>1. PICK S : intents \in IntentRows(S)
  BY DEF Shapes
<1>2. ASSUME NEW o, NEW s, s # "ABSENT", UpdateIntentStatus(o, s)
      PROVE  /\ \E T : intents' \in IntentRows(T)
             /\ \A p \in Orders : HasIntent(p)' <=> HasIntent(p)
  <2>1. intents' \in IntentRows(S \cup {s})
    BY <1>1, <1>2 DEF UpdateIntentStatus, IntentRows
  <2>2. ASSUME NEW p \in Orders PROVE HasIntent(p)' <=> HasIntent(p)
    BY <1>1, <1>2 DEF UpdateIntentStatus, HasIntent, IntentRows
  <2> QED
    BY <2>1, <2>2
<1>3. ASSUME NEW id, NEW o, NEW q, AddFill(id, o, q)
      PROVE  /\ \E T : intents' \in IntentRows(T)
             /\ \A p \in Orders : HasIntent(p)' <=> HasIntent(p)
  <2> DEFINE more == intents[o].filled + q
  <2>1. intents' = intents \/ intents' = [intents EXCEPT ![o].filled = more]
    BY <1>3 DEF AddFill
  <2> HIDE DEF more
  <2>2. intents' \in IntentRows(S \cup {more})
    BY <1>1, <2>1 DEF IntentRows
  <2>3. ASSUME NEW p \in Orders PROVE HasIntent(p)' <=> HasIntent(p)
    BY <1>1, <2>1 DEF HasIntent, IntentRows
  <2> QED
    BY <2>2, <2>3
<1>4. ASSUME Save PROVE \E T : intents' \in IntentRows(T)
  <2>1. intents' \in IntentRows(S \cup {"OPEN", 0})
    BY <1>1, <1>4 DEF Save, SaveIntent, NoIntent, IntentRows
  <2> QED
    BY <2>1
<1>5. CASE UNCHANGED intents
  BY <1>1, <1>5 DEF HasIntent
<1> QED
  BY <1>2, <1>3, <1>4, <1>5, StoreKinds

(* What a step of the bot does to the exchange's records. *)
LEMMA VenueKinds ==
  ASSUME [Next]_vars
  PROVE  \/ Send
         \/ \E connected : VenueNext(connected)
         \/ \E connected, o : /\ o \in Orders /\ pc["main"] = "cancel"
                               /\ Close(connected, o, "CANCELED")
         \/ UNCHANGED venue
<1>1. ASSUME \/ Start \/ Abort \/ BeginCycle \/ EndRun \/ Diff \/ RecordCancel
             \/ EndCancels \/ EndCycle \/ GenerateId \/ Consume \/ Save
             \/ Acknowledged \/ Rejected \/ TimedOut \/ Interrupt \/ Raise
             \/ RecordAck \/ Resolve
      PROVE  UNCHANGED venue
  BY <1>1 DEF Start, Abort, BeginCycle, EndRun, Diff, RecordCancel, EndCancels, EndCycle,
     GenerateId, Consume, Save, Acknowledged, Rejected, TimedOut, Interrupt, Raise,
     RecordAck, Resolve, exchange
<1>2. ASSUME NEW l \in Levels, RequestApproval(l) PROVE UNCHANGED venue
  BY <1>2 DEF RequestApproval, exchange
<1>3. ASSUME NEW o \in Orders, CancelOrder(o)
      PROVE  \/ UNCHANGED venue
             \/ pc["main"] = "cancel" /\ \E connected : Close(connected, o, "CANCELED")
  BY <1>3 DEF CancelOrder, exchange
<1>4. CASE Main
  BY <1>1, <1>2, <1>3, <1>4 DEF Main
<1>5. CASE Stream
  <2>1. ASSUME ReadUpdate \/ BookTrade \/ ReportFill \/ WriteUpdate PROVE UNCHANGED venue
    BY <2>1 DEF ReadUpdate, BookTrade, ReportFill, WriteUpdate, exchange
  <2>2. ASSUME NEW t \in Streams,
               Connect(t) \/ LoseConnection(t) \/ Reconnect(t) \/ Reconciled(t)
        PROVE  UNCHANGED venue
    BY <2>2 DEF Connect, LoseConnection, Reconnect, Reconciled, exchange
  <2> QED
    BY <1>5, <2>1, <2>2 DEF Stream
<1>6. CASE (\E t \in Threads : Reconcile(t)) \/ Restart \/ UNCHANGED vars
  BY <1>6 DEF Reconcile, Restart, vars, exchange
<1>7. CASE Trading
  BY <1>7 DEF Trading
<1> QED
  BY <1>4, <1>5, <1>6, <1>7 DEF Next

(* No step but Send takes an order to the exchange, and it takes only main's. *)
LEMMA VenueStep ==
  ASSUME Shapes, [Next]_vars
  PROVE  /\ \E S : venue' \in VenueRows(S)
         /\ \A o \in Orders :
              \/ Send /\ o = cycle.order /\ venue'[o].state = "SENT"
              \/ /\ venue'[o].state = "NONE" <=> venue[o].state = "NONE"
                 /\ venue'[o].state = "SENT" => venue[o].state = "SENT"
<1> DEFINE Quiet(o) == /\ venue'[o].state = "NONE" <=> venue[o].state = "NONE"
                       /\ venue'[o].state = "SENT" => venue[o].state = "SENT"
<1>1. PICK S : venue \in VenueRows(S)
  BY DEF Shapes
<1>2. ASSUME NEW o \in Orders, NEW new, new.state \notin {"NONE", "SENT"},
             NEW T, new \in [state : T, executed : T],
             venue[o].state # "NONE", venue' = [venue EXCEPT ![o] = new]
      PROVE  (\E U : venue' \in VenueRows(U)) /\ \A p \in Orders : Quiet(p)
  <2>1. venue' \in VenueRows(S \cup T)
    BY <1>1, <1>2 DEF VenueRows
  <2>2. \A p \in Orders : Quiet(p)
    BY <1>1, <1>2 DEF VenueRows
  <2> QED
    BY <2>1, <2>2
<1>3. ASSUME NEW o \in Orders, NEW s \in {"NEW", "REJECTED", "DROPPED", "EXPIRED", "CANCELED"},
             venue[o].state # "NONE", venue' = [venue EXCEPT ![o].state = s]
      PROVE  (\E U : venue' \in VenueRows(U)) /\ \A p \in Orders : Quiet(p)
  <2>1. [venue[o] EXCEPT !.state = s] \in [state : S \cup {s}, executed : S \cup {s}]
    BY <1>1 DEF VenueRows
  <2>2. [venue[o] EXCEPT !.state = s].state = s
    BY <1>1 DEF VenueRows
  <2>3. venue' = [venue EXCEPT ![o] = [venue[o] EXCEPT !.state = s]]
    BY <1>1, <1>3 DEF VenueRows
  <2> QED
    BY <1>2, <1>3, <2>1, <2>2, <2>3
<1>4. ASSUME NEW connected, VenueNext(connected)
      PROVE  (\E U : venue' \in VenueRows(U)) /\ \A p \in Orders : Quiet(p)
  <2>1. PICK o \in Orders : \/ Accept(connected, o) \/ Refuse(o) \/ Trade(connected, o)
                            \/ Close(connected, o, "EXPIRED")
    BY <1>4 DEF VenueNext
  <2>2. CASE Accept(connected, o) \/ Refuse(o) \/ Close(connected, o, "EXPIRED")
    BY <1>3, <2>2 DEF Accept, Refuse, Close, Live
  <2>3. CASE Trade(connected, o)
    <3> DEFINE done == venue[o].executed + 1
               s == IF done = Size THEN "FILLED" ELSE "PARTIALLY_FILLED"
               new == [state |-> s, executed |-> done]
    <3>1. venue' = [venue EXCEPT ![o] = new] /\ venue[o].state # "NONE"
      BY <2>3 DEF Trade, Live
    <3>2. s \notin {"NONE", "SENT"}
      OBVIOUS
    <3> HIDE DEF done, s
    <3>3. new.state = s /\ new \in [state : {s, done}, executed : {s, done}]
      OBVIOUS
    <3> QED
      BY <1>2, <3>1, <3>2, <3>3
  <2> QED
    BY <2>1, <2>2, <2>3
<1>5. ASSUME NEW connected, NEW o \in Orders, Close(connected, o, "CANCELED")
      PROVE  (\E U : venue' \in VenueRows(U)) /\ \A p \in Orders : Quiet(p)
  BY <1>3, <1>5 DEF Close, Live
<1>6. ASSUME Send
      PROVE  /\ \E U : venue' \in VenueRows(U)
             /\ \A p \in Orders : Quiet(p) \/ (p = cycle.order /\ venue'[p].state = "SENT")
  <2> DEFINE new == [Unsent EXCEPT !.state = "SENT"]
  <2>1. venue' = [venue EXCEPT ![cycle.order] = new]
    BY <1>6 DEF Send, Dispatch
  <2>2. new.state = "SENT" /\ new \in [state : {"SENT", 0}, executed : {"SENT", 0}]
    BY DEF Unsent
  <2> HIDE DEF new
  <2>3. venue' \in VenueRows(S \cup {"SENT", 0})
    BY <1>1, <2>1, <2>2 DEF VenueRows
  <2>4. \A p \in Orders : Quiet(p) \/ (p = cycle.order /\ venue'[p].state = "SENT")
    BY <1>1, <2>1, <2>2 DEF VenueRows
  <2> QED
    BY <2>3, <2>4
<1>7. ASSUME UNCHANGED venue
      PROVE  (\E U : venue' \in VenueRows(U)) /\ \A p \in Orders : Quiet(p)
  BY <1>1, <1>7
<1> QED
  BY <1>4, <1>5, <1>6, <1>7, VenueKinds

(* Changing fields of main's locals leaves them a record of the same fields. *)
LEMMA CycleUpdates ==
  ASSUME NEW r, IsCycle(r)
  PROVE  /\ \A u : IsCycle([r EXCEPT !.desired = u])
         /\ \A u : IsCycle([r EXCEPT !.cancels = u])
         /\ \A u : IsCycle([r EXCEPT !.creates = u])
         /\ \A u : IsCycle([r EXCEPT !.order = u])
         /\ \A u : IsCycle([r EXCEPT !.answer = u])
         /\ \A u, v : IsCycle([r EXCEPT !.cancels = u, !.creates = v])
         /\ \A u, v : IsCycle([r EXCEPT !.cancels = u, !.order = v])
         /\ \A u, v, w : IsCycle([r EXCEPT !.creates = u, !.level = v, !.approval = w])
<1>1. PICK S : r \in CycleRows(S)
  BY DEF IsCycle
<1>2. ASSUME NEW u, NEW v, NEW w
      PROVE  /\ [r EXCEPT !.desired = u] \in CycleRows(S \cup {u})
             /\ [r EXCEPT !.cancels = u] \in CycleRows(S \cup {u})
             /\ [r EXCEPT !.creates = u] \in CycleRows(S \cup {u})
             /\ [r EXCEPT !.order = u] \in CycleRows(S \cup {u})
             /\ [r EXCEPT !.answer = u] \in CycleRows(S \cup {u})
             /\ [r EXCEPT !.cancels = u, !.creates = v] \in CycleRows(S \cup {u, v})
             /\ [r EXCEPT !.cancels = u, !.order = v] \in CycleRows(S \cup {u, v})
             /\ [r EXCEPT !.creates = u, !.level = v, !.approval = w]
                   \in CycleRows(S \cup {u, v, w})
  BY <1>1 DEF CycleRows
<1>3. ASSUME NEW T, NEW q \in CycleRows(T) PROVE IsCycle(q)
  BY DEF IsCycle
<1> QED
  BY <1>2, <1>3

(* main's locals stay a record. *)
LEMMA CycleStep ==
  ASSUME Shapes, [Next]_vars
  PROVE  IsCycle(cycle')
<1>1. IsCycle(cycle)
  BY DEF Shapes
<1>2. IsCycle(NoCycle)
  <2>1. NoCycle \in CycleRows({{}, NoLevel, 0, NoOrder, "NONE"})
    BY DEF NoCycle, CycleRows
  <2> QED
    BY <2>1 DEF IsCycle
<1>3. ASSUME NextProposal PROVE IsCycle(cycle')
  BY <1>2, <1>3, CycleUpdates DEF NextProposal
<1>4. ASSUME Main PROVE IsCycle(cycle')
  <2>1. CASE BeginCycle
    <3>1. PICK desired : cycle' = [NoCycle EXCEPT !.desired = desired]
      BY <2>1 DEF BeginCycle
    <3> QED
      BY <1>2, <3>1, CycleUpdates
  <2>2. CASE Diff
    <3>1. \E u, v : cycle' = [NoCycle EXCEPT !.cancels = u, !.creates = v]
      BY <2>2 DEF Diff
    <3>2. PICK u, v : cycle' = [NoCycle EXCEPT !.cancels = u, !.creates = v]
      BY <3>1
    <3> QED
      BY <1>2, <3>2, CycleUpdates
  <2>3. CASE RecordCancel
    BY <1>1, <2>3, CycleUpdates DEF RecordCancel
  <2>4. CASE GenerateId
    BY <1>1, <2>4, CycleUpdates DEF GenerateId
  <2>5. CASE Acknowledged
    <3>1. PICK s : cycle' = [cycle EXCEPT !.answer = s]
      BY <2>5 DEF Acknowledged
    <3> QED
      BY <1>1, <3>1, CycleUpdates
  <2>6. ASSUME NEW o \in Orders, CancelOrder(o) PROVE IsCycle(cycle')
    <3> DEFINE u == cycle.cancels \ {o}
    <3>1. \/ cycle' = [cycle EXCEPT !.cancels = u]
          \/ cycle' = [cycle EXCEPT !.cancels = u, !.order = o]
      BY <2>6 DEF CancelOrder
    <3> HIDE DEF u
    <3>2. /\ IsCycle([cycle EXCEPT !.cancels = u])
          /\ IsCycle([cycle EXCEPT !.cancels = u, !.order = o])
      BY <1>1, CycleUpdates
    <3> QED
      BY <3>1, <3>2
  <2>7. ASSUME NEW l \in Levels, RequestApproval(l) PROVE IsCycle(cycle')
    <3> DEFINE u == cycle.creates \ {l}
    <3>1. \/ cycle' = [cycle EXCEPT !.creates = u]
          \/ cycle' = [cycle EXCEPT !.creates = u, !.level = l, !.approval = next_approval_id]
      BY <2>7 DEF RequestApproval
    <3> DEFINE w == next_approval_id
    <3> HIDE DEF u, w
    <3>2. /\ IsCycle([cycle EXCEPT !.creates = u])
          /\ IsCycle([cycle EXCEPT !.creates = u, !.level = l, !.approval = w])
      BY <1>1, CycleUpdates
    <3> QED
      BY <3>1, <3>2 DEF w
  <2>8. ASSUME Consume PROVE IsCycle(cycle')
    BY <1>1, <1>3, <2>8 DEF Consume
  <2>9. ASSUME Rejected \/ Interrupt \/ Resolve PROVE IsCycle(cycle')
    BY <1>3, <2>9 DEF Rejected, Interrupt, Resolve
  <2>10. ASSUME \/ Start \/ Abort \/ EndRun \/ EndCancels \/ EndCycle \/ Save \/ Send
                \/ TimedOut \/ Raise \/ RecordAck
         PROVE  cycle' = cycle
    BY <2>10 DEF Start, Abort, EndRun, EndCancels, EndCycle, Save, Send, TimedOut,
       Raise, RecordAck, locals
  <2> QED
    BY <1>1, <1>4, <2>1, <2>2, <2>3, <2>4, <2>5, <2>6, <2>7, <2>8, <2>9, <2>10 DEF Main
<1>5. ASSUME Stream PROVE IsCycle(cycle')
  <2>1. ASSUME ReadUpdate \/ BookTrade \/ ReportFill \/ WriteUpdate PROVE cycle' = cycle
    BY <2>1 DEF ReadUpdate, BookTrade, ReportFill, WriteUpdate, locals
  <2>2. ASSUME NEW t \in Streams,
               Connect(t) \/ LoseConnection(t) \/ Reconnect(t) \/ Reconciled(t)
        PROVE  cycle' = cycle
    BY <2>2 DEF Connect, LoseConnection, Reconnect, Reconciled, locals
  <2> QED
    BY <1>1, <1>5, <2>1, <2>2 DEF Stream
<1>6. ASSUME Restart PROVE IsCycle(cycle')
  BY <1>2, <1>6 DEF Restart
<1>7. ASSUME (\E t \in Threads : Reconcile(t)) \/ Trading \/ UNCHANGED vars
      PROVE  IsCycle(cycle')
  BY <1>1, <1>7 DEF Reconcile, Trading, vars, locals
<1> QED
  BY <1>4, <1>5, <1>6, <1>7 DEF Next

(* A thread that goes to a label leaves the others where they are. *)
LEMMA GotoEffect ==
  ASSUME Shapes, NEW t \in Threads, NEW label, Goto(t, label)
  PROVE  /\ \E S : pc' \in [Threads -> S]
         /\ pc'[t] = label
         /\ \A x \in Threads : x # t => pc'[x] = pc[x]
<1>1. PICK S : pc \in [Threads -> S]
  BY DEF Shapes
<1>2. pc' \in [Threads -> S \cup {label}]
  BY <1>1 DEF Goto
<1> QED
  BY <1>1, <1>2 DEF Goto

(* Where the steps of the threads go. *)
LEMMA ReconcileLabels ==
  ASSUME NEW t, ResolveState(t)
  PROVE  \E label \in {"list", "next", "book", "write", "resolved", "failed"} : Goto(t, label)
<1>1. CASE FetchExchangeState(t) \/ ListIntents(t) \/ EndUnknown(t) \/ EndActive(t)
  BY <1>1 DEF FetchExchangeState, ListIntents, EndUnknown, EndActive, Fail, Return
<1>2. CASE BookFill(t) \/ WriteStatus(t)
  BY <1>2 DEF BookFill, WriteStatus
<1>3. ASSUME NEW o \in Orders, QueryUnknown(t, o) \/ SyncActive(t, o)
      PROVE  \E label \in {"book", "failed"} : Goto(t, label)
  BY <1>3 DEF QueryUnknown, SyncActive, TakeUp, Fail, Return
<1> QED
  BY <1>1, <1>2, <1>3 DEF ResolveState

LEMMA StreamLabels ==
  ASSUME Stream
  PROVE  UNCHANGED cycle /\ (UNCHANGED pc \/ \E label : \E t \in Streams : Goto(t, label))
<1>1. ASSUME ReadUpdate \/ BookTrade \/ ReportFill \/ WriteUpdate
      PROVE  UNCHANGED cycle /\ (UNCHANGED pc \/ \E label : \E t \in Streams : Goto(t, label))
  BY <1>1 DEF ReadUpdate, BookTrade, ReportFill, WriteUpdate, At, locals
<1>2. ASSUME NEW t \in Streams,
             Connect(t) \/ LoseConnection(t) \/ Reconnect(t) \/ Reconciled(t)
      PROVE  UNCHANGED cycle /\ \E label : Goto(t, label)
  BY <1>2 DEF Connect, LoseConnection, Reconnect, Reconciled, locals
<1> QED
  BY <1>1, <1>2 DEF Stream

\* The labels that say something of the order in hand.
MainLabels == {"consume", "save", "send", "ack", "resolve"}

LEMMA MainLabelsOf ==
  ASSUME Main
  PROVE  \/ GenerateId \/ Consume \/ Save \/ Acknowledged \/ RecordAck
         \/ pc["main"] \notin MainLabels /\ UNCHANGED pc
         \/ \E label : label \notin MainLabels /\ Goto("main", label)
         \/ \E labels : pc' = [t \in Threads |-> IF t = "main" THEN "ready" ELSE labels]
<1> DEFINE Elsewhere == \E label : label \notin MainLabels /\ Goto("main", label)
           Stays == pc["main"] \notin MainLabels /\ UNCHANGED pc
<1>1. ASSUME BeginCycle \/ EndRun \/ Diff \/ RecordCancel \/ EndCancels \/ EndCycle \/ Abort
      PROVE  Elsewhere
  BY <1>1 DEF BeginCycle, EndRun, Diff, RecordCancel, EndCancels, EndCycle, Abort, MainLabels
<1>2. ASSUME Send \/ TimedOut \/ Raise PROVE Elsewhere
  BY <1>2 DEF Send, TimedOut, Raise, MainLabels
<1>3. ASSUME Rejected \/ Interrupt \/ Resolve PROVE Elsewhere
  BY <1>3 DEF Rejected, Interrupt, Resolve, NextProposal, MainLabels
<1>4. ASSUME NEW o \in Orders, CancelOrder(o) PROVE Elsewhere \/ Stays
  BY <1>4 DEF CancelOrder, MainLabels
<1>5. ASSUME NEW l \in Levels, RequestApproval(l) PROVE Elsewhere \/ Stays
  BY <1>5 DEF RequestApproval, MainLabels
<1>6. ASSUME Start
      PROVE  \E labels : pc' = [t \in Threads |-> IF t = "main" THEN "ready" ELSE labels]
  BY <1>6 DEF Start
<1> QED
  BY <1>1, <1>2, <1>3, <1>4, <1>5, <1>6 DEF Main

(* Only five steps take main to a label that says something of the order in hand. *)
LEMMA ControlStep ==
  ASSUME Shapes, [Next]_vars
  PROVE  /\ \E S : pc' \in [Threads -> S]
         /\ pc'["main"] \in MainLabels =>
               \/ GenerateId \/ Consume \/ Save \/ Acknowledged \/ RecordAck
               \/ pc'["main"] = pc["main"] /\ cycle' = cycle
<1> DEFINE Fine == \E S : pc' \in [Threads -> S]
           Forward == GenerateId \/ Consume \/ Save \/ Acknowledged \/ RecordAck
           Quiet == pc'["main"] = pc["main"] /\ cycle' = cycle
<1>1. PICK S : pc \in [Threads -> S]
  BY DEF Shapes
<1>2. ASSUME UNCHANGED pc PROVE Fine
  BY <1>1, <1>2
<1>3. ASSUME NEW labels, NEW first, pc' = [t \in Threads |-> IF t = "main" THEN first ELSE labels]
      PROVE  Fine /\ pc'["main"] = first
  <2>1. pc' \in [Threads -> {first, labels}]
    BY <1>3
  <2> QED
    BY <1>3, <2>1, MainIsNoStream
<1>4. ASSUME Main
      PROVE  Fine /\ (pc'["main"] \in MainLabels => Forward)
  <2>1. ASSUME Forward PROVE \E label : Goto("main", label)
    BY <2>1 DEF GenerateId, Consume, Save, Acknowledged, RecordAck, NextProposal
  <2>2. ASSUME NEW label, Goto("main", label) PROVE Fine /\ pc'["main"] = label
    BY <2>2, GotoEffect, MainIsNoStream
  <2>3. "ready" \notin MainLabels
    BY DEF MainLabels
  <2> QED
    BY <1>2, <1>3, <1>4, <2>1, <2>2, <2>3, MainLabelsOf
<1>5. ASSUME Stream PROVE Fine /\ Quiet
  BY <1>2, <1>5, StreamLabels, GotoEffect, MainIsNoStream
<1>6. ASSUME NEW t \in Threads, Reconcile(t)
      PROVE  Fine /\ (pc'["main"] \in MainLabels => Quiet)
  <2>1. PICK label \in {"list", "next", "book", "write", "resolved", "failed"} : Goto(t, label)
    BY <1>6, ReconcileLabels DEF Reconcile
  <2>2. UNCHANGED cycle
    BY <1>6 DEF Reconcile
  <2> QED
    BY <2>1, <2>2, GotoEffect, MainIsNoStream DEF MainLabels
<1>7. ASSUME Trading \/ UNCHANGED vars PROVE Fine /\ Quiet
  BY <1>2, <1>7 DEF Trading, vars, locals
<1>8. ASSUME Restart PROVE Fine /\ pc'["main"] \notin MainLabels
  BY <1>3, <1>8 DEF Restart, Boot, MainLabels
<1> HIDE DEF Fine, Forward, Quiet
<1>9. Fine /\ (pc'["main"] \in MainLabels => Forward \/ Quiet)
  BY <1>4, <1>5, <1>6, <1>7, <1>8 DEF Next
<1> QED
  BY <1>9 DEF Fine, Forward, Quiet

(***************************************************************************)
(* The intent comes before the order                                       *)
(***************************************************************************)

LEMMA WrittenInit == Init => Written
<1> SUFFICES ASSUME Init PROVE Written
  OBVIOUS
<1>1. intents \in IntentRows({"ABSENT", 0})
  BY DEF Init, NoIntent, IntentRows
<1>2. venue \in VenueRows({"NONE", 0})
  BY DEF Init, Unsent, VenueRows
<1>3. cycle \in CycleRows({{}, NoLevel, 0, NoOrder, "NONE"})
  BY DEF Init, NoCycle, CycleRows
<1>4. pc \in [Threads -> {"fetch", "off"}] /\ pc["main"] = "fetch"
  BY MainIsNoStream DEF Init, Boot
<1>5. Shapes
  BY <1>1, <1>2, <1>3, <1>4 DEF Shapes, IsCycle
<1>6. \A o \in Orders : venue[o].state = "NONE"
  BY DEF Init, Unsent
<1> QED
  BY <1>4, <1>5, <1>6 DEF Written, WriteAhead, Prepared

LEMMA WrittenStep == Written /\ [Next]_vars => Written'
<1> SUFFICES ASSUME Written, [Next]_vars PROVE Written'
  OBVIOUS
<1>1. Shapes /\ WriteAhead /\ Prepared
  BY DEF Written
<1>2. Shapes'
  BY <1>1, StoreStep, VenueStep, CycleStep, ControlStep DEF Shapes
<1>3. \A o \in Orders : HasIntent(o) => HasIntent(o)'
  <2>1. ASSUME NEW o \in Orders, Save, HasIntent(o) PROVE HasIntent(o)'
    <3>1. PICK S : intents \in IntentRows(S)
      BY <1>1 DEF Shapes
    <3> QED
      BY <2>1, <3>1 DEF Save, SaveIntent, NoIntent, HasIntent, IntentRows
  <2> QED
    BY <1>1, <2>1, StoreStep
<1>4. WriteAhead'
  <2>1. ASSUME NEW o \in Orders, venue'[o].state # "NONE" PROVE HasIntent(o)'
    <3>1. CASE Send /\ o = cycle.order
      BY <1>1, <1>3, <3>1 DEF Send, Prepared
    <3>2. CASE venue[o].state # "NONE"
      BY <1>1, <1>3, <3>2 DEF WriteAhead
    <3> QED
      BY <1>1, <2>1, <3>1, <3>2, VenueStep
  <2> QED
    BY <2>1 DEF WriteAhead
<1>5. Prepared'
  <2>1. ASSUME GenerateId PROVE Prepared'
    <3>1. PICK S : cycle \in CycleRows(S)
      BY <1>1 DEF Shapes, IsCycle
    <3>2. cycle'.order = NextId(cycle.level)
      BY <2>1, <3>1 DEF GenerateId, CycleRows
    <3>3. pc'["main"] = IF HasIntent(NextId(cycle.level)) THEN "discard" ELSE "consume"
      BY <1>1, <2>1, GotoEffect, MainIsNoStream DEF GenerateId
    <3>4. intents' = intents
      BY <2>1 DEF GenerateId, store
    <3> QED
      BY <3>2, <3>3, <3>4 DEF Prepared, HasIntent
  <2>2. ASSUME Consume PROVE Prepared'
    <3>1. intents' = intents
      BY <2>2 DEF Consume, store
    <3>2. CASE NextProposal
      <4>1. pc'["main"] = "create"
        BY <1>1, <3>2, GotoEffect, MainIsNoStream DEF NextProposal
      <4> QED
        BY <4>1 DEF Prepared
    <3>3. CASE pc["main"] = "consume" /\ Goto("main", "save") /\ UNCHANGED cycle
      <4>1. pc'["main"] = "save"
        BY <1>1, <3>3, GotoEffect, MainIsNoStream
      <4> QED
        BY <1>1, <3>1, <3>3, <4>1 DEF Prepared, HasIntent
    <3> QED
      BY <2>2, <3>2, <3>3 DEF Consume
  <2>3. ASSUME Save PROVE Prepared'
    <3>1. pc'["main"] = "send"
      BY <1>1, <2>3, GotoEffect, MainIsNoStream DEF Save
    <3>2. cycle' = cycle /\ venue' = venue
      BY <2>3 DEF Save, locals, exchange
    <3>3. ASSUME cycle.order \in Orders PROVE HasIntent(cycle.order)' /\ venue[cycle.order].state = "NONE"
      <4>1. PICK S : intents \in IntentRows(S)
        BY <1>1 DEF Shapes
      <4>2. HasIntent(cycle.order)'
        BY <2>3, <3>2, <3>3, <4>1 DEF Save, SaveIntent, NoIntent, HasIntent, IntentRows
      <4>3. ~HasIntent(cycle.order)
        BY <1>1, <2>3, <3>3 DEF Save, Prepared
      <4> QED
        BY <1>1, <3>3, <4>2, <4>3 DEF WriteAhead
    <3> QED
      BY <3>1, <3>2, <3>3 DEF Prepared
  <2>4. ASSUME pc'["main"] \in MainLabels, pc'["main"] = pc["main"], cycle' = cycle
        PROVE  Prepared'
    <3>1. ~Save
      BY <1>1, <2>4, GotoEffect, MainIsNoStream DEF Save
    <3>2. ~Send
      BY <1>1, <2>4, GotoEffect, MainIsNoStream DEF Send
    <3>3. \A o \in Orders : HasIntent(o)' <=> HasIntent(o)
      BY <1>1, <3>1, StoreStep
    <3>4. \A o \in Orders : venue'[o].state = "NONE" <=> venue[o].state = "NONE"
      BY <1>1, <3>2, VenueStep
    <3> QED
      BY <1>1, <2>4, <3>3, <3>4 DEF Prepared, HasIntent
  <2>5. ASSUME pc'["main"] \notin MainLabels PROVE Prepared'
    BY <2>5 DEF Prepared, MainLabels
  <2>6. ASSUME Acknowledged \/ RecordAck PROVE Prepared'
    <3>1. pc'["main"] \in {"ack", "resolve"}
      BY <1>1, <2>6, GotoEffect, MainIsNoStream DEF Acknowledged, RecordAck
    <3> QED
      BY <3>1 DEF Prepared
  <2> QED
    BY <1>1, <2>1, <2>2, <2>3, <2>4, <2>5, <2>6, ControlStep
<1> QED
  BY <1>2, <1>4, <1>5 DEF Written

(* Whatever the threads do and wherever a crash falls, an order the exchange may hold
   has its intent in the store (execution_engine.py, save_intent before place_order). *)
THEOREM WriteAheadCorrect == Spec => []WriteAhead
<1>1. Written => WriteAhead
  BY DEF Written
<1> QED
  BY <1>1, WrittenInit, WrittenStep, PTL DEF Spec

(* No id is sent to the exchange twice, in one process or in two (binance_adapter.py,
   "No blind retry of order placement"). *)
THEOREM NoBlindRetryCorrect == Spec => NoBlindRetry
<1>1. ASSUME Written, [Next]_vars
      PROVE  \A o \in Orders :
                venue'[o].state = "SENT" /\ venue[o].state # "SENT" => venue[o].state = "NONE"
  BY <1>1, VenueStep DEF Written, Prepared, Send
<1> QED
  BY <1>1, WrittenInit, WrittenStep, PTL DEF Spec, NoBlindRetry

(***************************************************************************)
(* One order at a time                                                     *)
(***************************************************************************)
OrderRow(S) ==
    [state : S, initial : S, filled : S, total : S, seen : S, cancel_requested : S]
OrderRows(S) == [Orders -> OrderRow(S)]

\* The risk engine waits for the outcome of the order.
Pending(o) == orders[o].state = "UNKNOWN"

\* The order is no longer on its way: the exchange accepted or refused it.
Arrived(o) == venue[o].state \notin {"NONE", "SENT"}

\* What the exchange may have said of the order.
Told(o, s) == Arrived(o) /\ (s = "FILLED" => venue[o].state = "FILLED")

ReportRows(S) == {e \in [order : Orders, status : S, trade : S] : Told(e.order, e.status)}

(* What main and the stream hold of orders, the exchange said, and it stays true. *)
Traces ==
    /\ \E S : stream \in Seq(ReportRows(S))
    /\ update.order \in Orders => Told(update.order, update.status)
    /\ pc["main"] \in {"ack", "resolve"} /\ cycle.order \in Orders =>
          Told(cycle.order, cycle.answer)

(* An order on its way is pending, and one order is pending at a time. *)
OnePending ==
    restarts = 0 =>
        /\ \A o \in Orders : venue[o].state = "SENT" => Pending(o)
        /\ \A o, p \in Orders : Pending(o) /\ Pending(p) => o = p
        /\ pc["main"] \in {"save", "send"} /\ cycle.order \in Orders => Pending(cycle.order)

InFlight ==
    /\ Written
    /\ restarts \in Nat
    /\ \E S : orders \in OrderRows(S)
    /\ Traces
    /\ OnePending

(* Only a restart counts as one. *)
LEMMA RestartsStep ==
  ASSUME [Next]_vars
  PROVE  Restart \/ UNCHANGED restarts
<1>1. CASE Main
  <2>1. ASSUME \/ Start \/ Abort \/ BeginCycle \/ EndRun \/ Diff \/ RecordCancel
               \/ EndCancels \/ EndCycle \/ GenerateId \/ Consume \/ Save \/ Send
        PROVE  UNCHANGED restarts
    BY <2>1 DEF Start, Abort, BeginCycle, EndRun, Diff, RecordCancel, EndCancels, EndCycle,
       GenerateId, Consume, Save, Send, counters
  <2>2. ASSUME \/ Acknowledged \/ Rejected \/ TimedOut \/ Interrupt \/ Raise
               \/ RecordAck \/ Resolve
        PROVE  UNCHANGED restarts
    BY <2>2 DEF Acknowledged, Rejected, TimedOut, Interrupt, Raise, RecordAck, Resolve,
       counters
  <2>3. ASSUME \/ \E o \in Orders : CancelOrder(o)
               \/ \E l \in Levels : RequestApproval(l)
        PROVE  UNCHANGED restarts
    BY <2>3 DEF CancelOrder, RequestApproval, counters
  <2> QED
    BY <1>1, <2>1, <2>2, <2>3 DEF Main
<1>2. CASE Stream
  <2>1. ASSUME ReadUpdate \/ BookTrade \/ ReportFill \/ WriteUpdate PROVE UNCHANGED restarts
    BY <2>1 DEF ReadUpdate, BookTrade, ReportFill, WriteUpdate, counters
  <2>2. ASSUME NEW t \in Streams,
               Connect(t) \/ LoseConnection(t) \/ Reconnect(t) \/ Reconciled(t)
        PROVE  UNCHANGED restarts
    BY <2>2 DEF Connect, LoseConnection, Reconnect, Reconciled, counters
  <2> QED
    BY <1>2, <2>1, <2>2 DEF Stream
<1>3. CASE (\E t \in Threads : Reconcile(t)) \/ Trading \/ Restart \/ UNCHANGED vars
  BY <1>3 DEF Reconcile, Trading, vars, counters
<1> QED
  BY <1>1, <1>2, <1>3 DEF Next

(* What a step of the bot does to the risk engine's orders. *)
LEMMA OrderKinds ==
  ASSUME [Next]_vars
  PROVE  \/ UNCHANGED orders
         \/ Restart
         \/ Consume /\ Risk!ConsumeAndSubmit(cycle.approval, cycle.order, TRUE)
         \/ Resolve /\ Risk!ResolveOrder(cycle.order, Mapped(cycle.answer), 0)
         \/ \E f : /\ ReportFill
                   /\ \/ Risk!OnFill(update.order, f, 1)
                      \/ Risk!OnLateFill(update.order, f, 1)
                      \/ Risk!OnOverFill(update.order, f, 1)
<1>1. CASE Main
  <2>1. ASSUME \/ Start \/ Abort \/ BeginCycle \/ EndRun \/ Diff \/ RecordCancel
               \/ EndCancels \/ EndCycle \/ GenerateId \/ Save \/ Send
               \/ Acknowledged \/ Rejected \/ TimedOut \/ Interrupt \/ Raise
               \/ RecordAck
        PROVE  UNCHANGED orders
    BY <2>1 DEF Start, Abort, BeginCycle, EndRun, Diff, RecordCancel, EndCancels, EndCycle,
       GenerateId, Save, Send, Acknowledged, Rejected, TimedOut, Interrupt, Raise, RecordAck,
       risk, ledger
  <2>2. ASSUME NEW o \in Orders, CancelOrder(o) PROVE UNCHANGED orders
    BY <2>2 DEF CancelOrder, risk, ledger
  <2>3. ASSUME NEW l \in Levels, RequestApproval(l) PROVE UNCHANGED orders
    BY <2>3 DEF RequestApproval, Risk!RequestApproval, risk, ledger
  <2>4. ASSUME Consume
        PROVE  \/ UNCHANGED orders
               \/ Risk!ConsumeAndSubmit(cycle.approval, cycle.order, TRUE)
    BY <2>4 DEF Consume, Risk!ConsumeWhileUnknown, Risk!ConsumeRejected,
       Risk!RejectApproval, risk, ledger
  <2>5. ASSUME Resolve
        PROVE  \/ UNCHANGED orders
               \/ Risk!ResolveOrder(cycle.order, Mapped(cycle.answer), 0)
    BY <2>5 DEF Resolve, risk, ledger
  <2> QED
    BY <1>1, <2>1, <2>2, <2>3, <2>4, <2>5 DEF Main
<1>2. CASE Stream
  <2>1. ASSUME ReadUpdate \/ BookTrade \/ WriteUpdate PROVE UNCHANGED orders
    BY <2>1 DEF ReadUpdate, BookTrade, WriteUpdate, risk, ledger
  <2>2. ASSUME NEW t \in Streams,
               Connect(t) \/ LoseConnection(t) \/ Reconnect(t) \/ Reconciled(t)
        PROVE  UNCHANGED orders
    BY <2>2 DEF Connect, LoseConnection, Reconnect, Reconciled, risk, ledger
  <2>3. ASSUME ReportFill
        PROVE  \/ UNCHANGED orders
               \/ \E f : \/ Risk!OnFill(update.order, f, 1)
                         \/ Risk!OnLateFill(update.order, f, 1)
                         \/ Risk!OnOverFill(update.order, f, 1)
    BY <2>3 DEF ReportFill, risk, ledger
  <2> QED
    BY <1>2, <2>1, <2>2, <2>3 DEF Stream
<1>3. CASE (\E t \in Threads : Reconcile(t)) \/ Trading \/ Restart \/ UNCHANGED vars
  BY <1>3 DEF Reconcile, Trading, vars, risk, ledger
<1> QED
  BY <1>1, <1>2, <1>3 DEF Next

(* Replacing one order's row leaves the others. *)
LEMMA OrderReplaced ==
  ASSUME NEW S, orders \in OrderRows(S), NEW T, NEW r \in OrderRow(T), NEW o,
         orders' = [orders EXCEPT ![o] = r]
  PROVE  /\ \E U : orders' \in OrderRows(U)
         /\ \A p \in Orders : p # o => orders'[p] = orders[p]
         /\ o \in Orders => orders'[o] = r
<1>1. orders' \in OrderRows(S \cup T)
  BY DEF OrderRows, OrderRow
<1> QED
  BY <1>1 DEF OrderRows

(* An order becomes pending when it is submitted, while no other is; it stops being so
   when its answer is resolved or a fill of it is reported. *)
LEMMA OrderStep ==
  ASSUME [Next]_vars, \E S : orders \in OrderRows(S)
  PROVE  /\ \E S : orders' \in OrderRows(S)
         /\ \/ Restart
            \/ /\ Consume
               /\ \A o \in Orders : ~Pending(o)
               /\ \A o \in Orders : o # cycle.order => orders'[o] = orders[o]
               /\ cycle.order \in Orders => orders'[cycle.order].state = "UNKNOWN"
            \/ /\ ~(Consume /\ Risk!ConsumeAndSubmit(cycle.approval, cycle.order, TRUE))
               /\ \A o \in Orders :
                     /\ orders'[o].state = "UNKNOWN" => Pending(o)
                     /\ \/ Pending(o) => orders'[o].state = "UNKNOWN"
                        \/ Resolve /\ o = cycle.order
                        \/ ReportFill /\ o = update.order
<1> DEFINE Shape == \E S : orders' \in OrderRows(S)
           Only(q) == \A o \in Orders :
                         /\ orders'[o].state = "UNKNOWN" => Pending(o)
                         /\ (Pending(o) => orders'[o].state = "UNKNOWN") \/ o = q
           Submits == Consume /\ Risk!ConsumeAndSubmit(cycle.approval, cycle.order, TRUE)
<1>1. PICK S : orders \in OrderRows(S)
  OBVIOUS
<1>2. ASSUME NEW q, NEW T, NEW r \in OrderRow(T), orders' = [orders EXCEPT ![q] = r],
             q \in Orders => (r.state = "UNKNOWN" => Pending(q))
      PROVE  Shape /\ Only(q)
  <2>1. /\ Shape
        /\ \A p \in Orders : p # q => orders'[p] = orders[p]
        /\ q \in Orders => orders'[q] = r
    BY <1>1, <1>2, OrderReplaced
  <2> QED
    BY <1>2, <2>1 DEF Pending
<1>3. ASSUME UNCHANGED orders
      PROVE  Shape /\ \A o \in Orders : Pending(o) <=> orders'[o].state = "UNKNOWN"
  BY <1>1, <1>3 DEF Pending
<1>4. CASE Restart
  <2>1. orders' \in OrderRows({"ABSENT", 0, -1, FALSE})
    BY <1>4 DEF Restart, Risk!Renew, Risk!Absent, Risk!NotConfirmed, OrderRows, OrderRow
  <2> QED
    BY <1>4, <2>1
<1>5. CASE Submits
  <2> DEFINE amount == registry[cycle.approval]
             r == Risk!NewOrder(amount)
  <2>1. orders' = [orders EXCEPT ![cycle.order] = r]
    BY <1>5 DEF Risk!ConsumeAndSubmit
  <2>2. \A o \in Orders : ~Pending(o)
    BY <1>5 DEF Risk!ConsumeAndSubmit, Risk!Consumable, Risk!HasUnknownOrders, Pending
  <2> HIDE DEF amount
  <2>3. r \in OrderRow({"UNKNOWN", amount, 0, -1, FALSE}) /\ r.state = "UNKNOWN"
    BY DEF Risk!NewOrder, Risk!Absent, Risk!NotConfirmed, OrderRow
  <2> HIDE DEF r
  <2>4. /\ Shape
        /\ \A o \in Orders : o # cycle.order => orders'[o] = orders[o]
        /\ cycle.order \in Orders => orders'[cycle.order] = r
    BY <1>1, <2>1, <2>3, OrderReplaced
  <2> QED
    BY <1>5, <2>2, <2>3, <2>4
<1>6. ASSUME NEW q, Risk!ResolveOrder(q, Mapped(cycle.answer), 0)
      PROVE  Shape /\ Only(q)
  <2> DEFINE row == orders[q]
             more == row.filled + Risk!Unseen(row, 0)
  <2>1. CASE q \notin Orders
    <3>1. \E x : orders' = [orders EXCEPT ![q] = x] \/ orders' = orders
      BY <1>6 DEF Risk!ResolveOrder, Risk!SettleCanceled
    <3>2. orders' = orders
      BY <1>1, <2>1, <3>1 DEF OrderRows
    <3> QED
      BY <1>1, <3>2 DEF Pending
  <2>2. ASSUME q \in Orders, NEW r, orders' = [orders EXCEPT ![q] = r],
               \/ r = [row EXCEPT !.state = "OPEN"]
               \/ r = [row EXCEPT !.state = "FILLED", !.filled = more]
               \/ r = [row EXCEPT !.state = "CANCELED", !.total = 0, !.filled = more]
        PROVE  Shape /\ Only(q)
    <3>1. row \in OrderRow(S)
      BY <1>1, <2>2 DEF OrderRows
    <3> HIDE DEF row, more
    <3>2. r \in OrderRow(S \cup {"OPEN", "FILLED", "CANCELED", 0, more}) /\ r.state # "UNKNOWN"
      BY <2>2, <3>1 DEF OrderRow
    <3> QED
      BY <1>2, <2>2, <3>2
  <2>3. ASSUME q \in Orders, orders' # orders
        PROVE  \E r : /\ orders' = [orders EXCEPT ![q] = r]
                      /\ \/ r = [row EXCEPT !.state = "OPEN"]
                         \/ r = [row EXCEPT !.state = "FILLED", !.filled = more]
                         \/ r = [row EXCEPT !.state = "CANCELED", !.total = 0, !.filled = more]
    BY <1>1, <1>6, <2>3 DEF Risk!ResolveOrder, Risk!SettleCanceled, Risk!CanceledAt,
       Risk!FilledAt, OrderRows
  <2>4. CASE orders' = orders
    BY <1>1, <2>4 DEF Pending
  <2>5. CASE q \in Orders /\ orders' # orders
    <3>1. PICK r : /\ orders' = [orders EXCEPT ![q] = r]
                   /\ \/ r = [row EXCEPT !.state = "OPEN"]
                      \/ r = [row EXCEPT !.state = "FILLED", !.filled = more]
                      \/ r = [row EXCEPT !.state = "CANCELED", !.total = 0, !.filled = more]
      BY <2>3, <2>5
    <3> HIDE DEF row, more
    <3> QED
      BY <2>2, <2>5, <3>1
  <2> QED
    BY <2>1, <2>4, <2>5
<1>7. ASSUME NEW q, NEW f, \/ Risk!OnFill(q, f, 1)
                           \/ Risk!OnLateFill(q, f, 1)
                           \/ Risk!OnOverFill(q, f, 1)
      PROVE  Shape /\ Only(q)
  <2> DEFINE row == orders[q]
  <2>1. CASE UNCHANGED orders
    BY <1>1, <2>1 DEF Pending
  <2>2. CASE q \notin Orders
    <3>1. \E x : orders' = [orders EXCEPT ![q] = x] \/ orders' = orders
      BY <1>7 DEF Risk!OnFill, Risk!OnLateFill, Risk!OnOverFill
    <3>2. orders' = orders
      BY <1>1, <2>2, <3>1 DEF OrderRows
    <3> QED
      BY <1>1, <3>2 DEF Pending
  <2>3. CASE q \in Orders /\ Risk!OnFill(q, f, 1)
    <3> DEFINE s == IF row.filled + 1 >= row.initial THEN "FILLED" ELSE "PARTIALLY_FILLED"
               filled == row.filled + 1
               seen == row.seen + 1
               r == [row EXCEPT !.filled = filled, !.seen = seen, !.state = s]
    <3>1. orders' = [orders EXCEPT ![q] = r]
      BY <1>1, <2>3 DEF Risk!OnFill, Risk!Filled, OrderRows
    <3>2. row \in OrderRow(S)
      BY <1>1, <2>3 DEF OrderRows
    <3>3. s # "UNKNOWN"
      OBVIOUS
    <3> HIDE DEF row, s, filled, seen
    <3>4. r \in OrderRow(S \cup {s, filled, seen}) /\ r.state # "UNKNOWN"
      BY <3>2, <3>3 DEF OrderRow
    <3> HIDE DEF r
    <3> QED
      BY <1>2, <3>1, <3>4
  <2>4. CASE q \in Orders /\ Risk!OnLateFill(q, f, 1) /\ orders' # orders
    <3> DEFINE seen == IF row.total = Risk!NotConfirmed THEN row.seen ELSE row.seen + 1
               r == [row EXCEPT !.seen = seen]
    <3>1. orders' = [orders EXCEPT ![q] = r]
      BY <1>1, <2>4 DEF Risk!OnLateFill, Risk!CountLate, OrderRows
    <3>2. row \in OrderRow(S)
      BY <1>1, <2>4 DEF OrderRows
    <3> HIDE DEF seen
    <3>3. r \in OrderRow(S \cup {seen}) /\ r.state = row.state
      BY <3>2 DEF OrderRow
    <3> HIDE DEF r
    <3> QED
      BY <1>2, <3>1, <3>3 DEF Pending
  <2> QED
    BY <1>7, <2>1, <2>2, <2>3, <2>4 DEF Risk!OnOverFill
<1>8. \/ UNCHANGED orders
      \/ Restart
      \/ Submits
      \/ Resolve /\ Shape /\ Only(cycle.order)
      \/ ReportFill /\ Shape /\ Only(update.order)
  BY <1>6, <1>7, OrderKinds
<1>9. CASE ~Submits
  <2> HIDE DEF Submits, Shape
  <2> QED
    BY <1>3, <1>4, <1>8, <1>9 DEF Submits, Shape
<1> QED
  BY <1>5, <1>9

(* The absence of an order is no order. *)
LEMMA NoOrderIsNone == NoOrder \notin Orders
<1>1. ASSUME NEW o \in Orders PROVE Len(o) = 2
  BY <1>1, OrdersAssumption
<1> QED
  BY <1>1 DEF NoOrder

(* What the user data thread knows of an order, it has from the event at the front. *)
LEMMA UpdateKinds ==
  ASSUME [Next]_vars
  PROVE  \/ UNCHANGED update
         \/ update' = NoUpdate
         \/ /\ ReadUpdate
            /\ update'.order = Head(stream).order /\ update'.status = Head(stream).status
            /\ update'.trade = Head(stream).trade
<1>1. CASE Main
  <2>1. ASSUME \/ Start \/ Abort \/ BeginCycle \/ EndRun \/ Diff \/ RecordCancel
               \/ EndCancels \/ EndCycle \/ GenerateId \/ Consume \/ Save \/ Send
        PROVE  UNCHANGED update
    BY <2>1 DEF Start, Abort, BeginCycle, EndRun, Diff, RecordCancel, EndCancels, EndCycle,
       GenerateId, Consume, Save, Send, locals
  <2>2. ASSUME \/ Acknowledged \/ Rejected \/ TimedOut \/ Interrupt \/ Raise
               \/ RecordAck \/ Resolve
        PROVE  UNCHANGED update
    BY <2>2 DEF Acknowledged, Rejected, TimedOut, Interrupt, Raise, RecordAck, Resolve,
       locals
  <2>3. ASSUME \/ \E o \in Orders : CancelOrder(o)
               \/ \E l \in Levels : RequestApproval(l)
        PROVE  UNCHANGED update
    BY <2>3 DEF CancelOrder, RequestApproval, locals
  <2> QED
    BY <1>1, <2>1, <2>2, <2>3 DEF Main
<1>2. CASE Stream
  <2>1. ASSUME BookTrade \/ ReportFill PROVE UNCHANGED update
    BY <2>1 DEF BookTrade, ReportFill, locals
  <2>2. ASSUME WriteUpdate PROVE update' = NoUpdate
    BY <2>2 DEF WriteUpdate
  <2>3. ASSUME ReadUpdate
        PROVE  \/ UNCHANGED update
               \/ /\ update'.order = Head(stream).order /\ update'.status = Head(stream).status
                  /\ update'.trade = Head(stream).trade
    BY <2>3 DEF ReadUpdate
  <2>4. ASSUME NEW t \in Streams,
               Connect(t) \/ LoseConnection(t) \/ Reconnect(t) \/ Reconciled(t)
        PROVE  UNCHANGED update
    BY <2>4 DEF Connect, LoseConnection, Reconnect, Reconciled, locals
  <2> QED
    BY <1>2, <2>1, <2>2, <2>3, <2>4 DEF Stream
<1>3. CASE (\E t \in Threads : Reconcile(t)) \/ Trading \/ Restart \/ UNCHANGED vars
  BY <1>3 DEF Reconcile, Trading, Restart, vars, locals
<1> QED
  BY <1>1, <1>2, <1>3 DEF Next

(* What a step of the bot does to the events on their way. *)
LEMMA StreamKinds ==
  ASSUME [Next]_vars, Shapes
  PROVE  \/ UNCHANGED stream
         \/ stream' = <<>>
         \/ ReadUpdate
         \/ \E o \in Orders : \E s, n :
               /\ stream' = Append(stream, [order |-> o, status |-> s, trade |-> n])
               /\ s \notin {"NONE", "SENT"} /\ venue'[o].state = s
               /\ n = 0 \/ n = venue'[o].executed
<1>1. PICK S : venue \in VenueRows(S)
  BY DEF Shapes
<1> DEFINE Published ==
             \E o \in Orders : \E s, n :
                /\ stream' = Append(stream, [order |-> o, status |-> s, trade |-> n])
                /\ s \notin {"NONE", "SENT"} /\ venue'[o].state = s
                /\ n = 0 \/ n = venue'[o].executed
<1>2. ASSUME NEW connected, NEW o \in Orders, NEW s, NEW n,
             Publish(connected, o, s, n), s \notin {"NONE", "SENT"}, venue'[o].state = s,
             n = 0 \/ n = venue'[o].executed
      PROVE  Published \/ UNCHANGED stream
  BY <1>2 DEF Publish
<1>3. ASSUME NEW connected, NEW o \in Orders,
             NEW s \in {"CANCELED", "EXPIRED"}, Close(connected, o, s)
      PROVE  Published \/ UNCHANGED stream
  <2>1. venue'[o].state = s
    BY <1>1, <1>3 DEF Close, VenueRows
  <2> QED
    BY <1>2, <1>3, <2>1 DEF Close
<1>4. ASSUME NEW connected, NEW o \in Orders, Accept(connected, o)
      PROVE  Published \/ UNCHANGED stream
  <2>1. venue'[o].state = "NEW"
    BY <1>1, <1>4 DEF Accept, VenueRows
  <2> QED
    BY <1>2, <1>4, <2>1 DEF Accept
<1>5. ASSUME NEW connected, NEW o \in Orders, Trade(connected, o)
      PROVE  Published \/ UNCHANGED stream
  <2> DEFINE done == venue[o].executed + 1
             s == IF done = Size THEN "FILLED" ELSE "PARTIALLY_FILLED"
  <2>1. venue' = [venue EXCEPT ![o] = [state |-> s, executed |-> done]]
        /\ Publish(connected, o, s, done)
    BY <1>5 DEF Trade
  <2>2. s \notin {"NONE", "SENT"}
    OBVIOUS
  <2> HIDE DEF done, s
  <2>3. venue'[o].state = s /\ venue'[o].executed = done
    BY <1>1, <2>1 DEF VenueRows
  <2> QED
    BY <1>2, <2>1, <2>2, <2>3
<1>6. CASE Main
  <2>1. ASSUME \/ Start \/ Abort \/ BeginCycle \/ EndRun \/ Diff \/ RecordCancel
               \/ EndCancels \/ EndCycle \/ GenerateId \/ Consume \/ Save
               \/ Acknowledged \/ Rejected \/ TimedOut \/ Interrupt \/ Raise
               \/ RecordAck \/ Resolve
        PROVE  UNCHANGED stream
    BY <2>1 DEF Start, Abort, BeginCycle, EndRun, Diff, RecordCancel, EndCancels, EndCycle,
       GenerateId, Consume, Save, Acknowledged, Rejected, TimedOut, Interrupt, Raise,
       RecordAck, Resolve, exchange
  <2>2. ASSUME Send \/ \E l \in Levels : RequestApproval(l) PROVE UNCHANGED stream
    BY <2>2 DEF Send, Dispatch, RequestApproval, exchange
  <2>3. ASSUME NEW o \in Orders, CancelOrder(o) PROVE Published \/ UNCHANGED stream
    BY <1>3, <2>3 DEF CancelOrder, exchange
  <2> QED
    BY <1>6, <2>1, <2>2, <2>3 DEF Main
<1>7. CASE Stream
  <2>1. ASSUME BookTrade \/ ReportFill \/ WriteUpdate PROVE UNCHANGED stream
    BY <2>1 DEF BookTrade, ReportFill, WriteUpdate, exchange
  <2>2. ASSUME NEW t \in Streams,
               Connect(t) \/ LoseConnection(t) \/ Reconnect(t) \/ Reconciled(t)
        PROVE  UNCHANGED stream \/ stream' = <<>>
    BY <2>2 DEF Connect, LoseConnection, Reconnect, Reconciled, exchange
  <2> QED
    BY <1>7, <2>1, <2>2 DEF Stream
<1>8. CASE Trading
  <2>1. PICK o \in Orders : \/ Accept(Connected, o) \/ Refuse(o) \/ Trade(Connected, o)
                            \/ Close(Connected, o, "EXPIRED")
    BY <1>8 DEF Trading, VenueNext
  <2>2. ASSUME Refuse(o) PROVE UNCHANGED stream
    BY <2>2 DEF Refuse
  <2> QED
    BY <1>3, <1>4, <1>5, <2>1, <2>2
<1>9. CASE (\E t \in Threads : Reconcile(t)) \/ Restart \/ UNCHANGED vars
  BY <1>9 DEF Reconcile, Restart, vars, exchange
<1> QED
  BY <1>6, <1>7, <1>8, <1>9 DEF Next

(* An order that arrived never is on its way again, and a filled one stays filled. *)
LEMMA ToldStays ==
  ASSUME Written, [Next]_vars, NEW o \in Orders, NEW s, Told(o, s)
  PROVE  Told(o, s)'
<1>1. PICK S : venue \in VenueRows(S)
  BY DEF Written, Shapes
<1>2. Arrived(o)'
  BY VenueStep DEF Written, Prepared, Send, Told, Arrived
<1>3. ASSUME venue[o].state = "FILLED" PROVE venue'[o].state = "FILLED"
  <2>1. ~(Send /\ o = cycle.order)
    BY <1>3 DEF Written, Prepared, Send
  <2>2. ASSUME Send PROVE venue' = [venue EXCEPT ![cycle.order] = [Unsent EXCEPT !.state = "SENT"]]
    BY <2>2 DEF Send, Dispatch
  <2>3. ASSUME NEW connected, NEW p \in Orders,
               \/ Accept(connected, p) \/ Refuse(p) \/ Trade(connected, p)
               \/ Close(connected, p, "EXPIRED") \/ Close(connected, p, "CANCELED")
        PROVE  p # o /\ venue'[o] = venue[o]
    <3>1. p # o
      BY <1>3, <2>3 DEF Accept, Refuse, Trade, Close, Live
    <3>2. \E x : \/ venue' = [venue EXCEPT ![p] = x]
                 \/ venue' = [venue EXCEPT ![p].state = x]
      BY <2>3 DEF Accept, Refuse, Trade, Close
    <3> QED
      BY <1>1, <3>1, <3>2 DEF VenueRows
  <2> QED
    BY <1>1, <1>3, <2>1, <2>2, <2>3, VenueKinds DEF VenueNext, VenueRows
<1> QED
  BY <1>2, <1>3 DEF Told

(* Three of the steps that take main forward leave the order in hand as it is. *)
LEMMA ForwardEffect ==
  ASSUME Shapes
  PROVE  /\ GenerateId => pc'["main"] \in {"consume", "discard"}
         /\ Consume => \/ pc'["main"] = "create"
                       \/ /\ pc["main"] = "consume" /\ pc'["main"] = "save"
                          /\ cycle' = cycle
                          /\ Risk!ConsumeAndSubmit(cycle.approval, cycle.order, TRUE)
         /\ Save => pc["main"] = "save" /\ pc'["main"] = "send" /\ cycle' = cycle
         /\ Acknowledged => /\ pc'["main"] = "ack" /\ cycle'.order = cycle.order
                            /\ Told(cycle.order, cycle'.answer)
         /\ RecordAck => pc["main"] = "ack" /\ pc'["main"] = "resolve" /\ cycle' = cycle
<1>1. ASSUME NEW label, Goto("main", label) PROVE pc'["main"] = label
  BY <1>1, GotoEffect, MainIsNoStream
<1>2. GenerateId => pc'["main"] \in {"consume", "discard"}
  BY <1>1 DEF GenerateId
<1>3. Consume => \/ pc'["main"] = "create"
                 \/ /\ pc["main"] = "consume" /\ pc'["main"] = "save"
                    /\ cycle' = cycle
                    /\ Risk!ConsumeAndSubmit(cycle.approval, cycle.order, TRUE)
  BY <1>1 DEF Consume, NextProposal
<1>4. Save => pc["main"] = "save" /\ pc'["main"] = "send" /\ cycle' = cycle
  BY <1>1 DEF Save, locals
<1>5. RecordAck => pc["main"] = "ack" /\ pc'["main"] = "resolve" /\ cycle' = cycle
  BY <1>1 DEF RecordAck, locals
<1>6. ASSUME Acknowledged
      PROVE  /\ pc'["main"] = "ack" /\ cycle'.order = cycle.order
             /\ Told(cycle.order, cycle'.answer)
  <2>1. PICK S : cycle \in CycleRows(S)
    BY DEF Shapes, IsCycle
  <2>2. PICK s \in {"NEW", venue[cycle.order].state} : cycle' = [cycle EXCEPT !.answer = s]
    BY <1>6 DEF Acknowledged
  <2>3. cycle'.order = cycle.order /\ cycle'.answer = s
    BY <2>1, <2>2 DEF CycleRows
  <2>4. Told(cycle.order, s)
    BY <1>6, <2>2 DEF Acknowledged, Found, Told, Arrived
  <2> QED
    BY <1>1, <1>6, <2>3, <2>4 DEF Acknowledged
<1> QED
  BY <1>2, <1>3, <1>4, <1>5, <1>6

(* A sequence over a set is one over a larger set, and can be appended to. *)
LEMMA SeqGrows ==
  ASSUME NEW A, NEW B, A \subseteq B, NEW s \in Seq(A)
  PROVE  s \in Seq(B) /\ \A e \in B : Append(s, e) \in Seq(B)
<1>1. s \in Seq(B)
  OBVIOUS
<1> QED
  BY <1>1

(* Whatever the threads hold of an order, it arrived before. *)
LEMMA TracesStep ==
  ASSUME Written, Traces, [Next]_vars
  PROVE  Traces'
<1> Shapes
  BY DEF Written
<1>1. PICK S : stream \in Seq(ReportRows(S))
  BY DEF Traces
<1>2. ASSUME NEW T PROVE ReportRows(S) \subseteq ReportRows(S \cup T)'
  BY ToldStays DEF ReportRows
<1>3. \E T : stream' \in Seq(ReportRows(T)')
  <2>1. ASSUME stream' \in Seq(ReportRows(S))
        PROVE  stream' \in Seq(ReportRows(S \cup {})')
    <3>1. ReportRows(S) \subseteq ReportRows(S \cup {})'
      BY <1>2
    <3> QED
      BY <2>1, <3>1, SeqGrows
  <2>2. CASE \/ UNCHANGED stream \/ stream' = <<>>
             \/ stream # <<>> /\ stream' \in {stream, Tail(stream)}
    <3>1. <<>> \in Seq(ReportRows(S))
      OBVIOUS
    <3>2. stream # <<>> => Tail(stream) \in Seq(ReportRows(S))
      BY <1>1
    <3>3. stream' \in Seq(ReportRows(S))
      BY <1>1, <2>2, <3>1, <3>2
    <3> QED
      BY <2>1, <3>3
  <2>3. ASSUME NEW o \in Orders, NEW s, NEW n,
               s \notin {"NONE", "SENT"}, venue'[o].state = s,
               stream' = Append(stream, [order |-> o, status |-> s, trade |-> n])
        PROVE  stream' \in Seq(ReportRows(S \cup {s, n})')
    <3>1. [order |-> o, status |-> s, trade |-> n] \in ReportRows(S \cup {s, n})'
      BY <2>3 DEF ReportRows, Told, Arrived
    <3>2. ReportRows(S) \subseteq ReportRows(S \cup {s, n})'
      BY <1>2
    <3> QED
      BY <1>1, <2>3, <3>1, <3>2, SeqGrows
  <2> QED
    BY <2>2, <2>3, StreamKinds DEF ReadUpdate
<1>4. update'.order \in Orders => Told(update.order, update.status)'
  <2>1. \A o \in Orders : \A s : Told(o, s) => Told(o, s)'
    BY ToldStays
  <2>2. CASE UNCHANGED update
    BY <2>1, <2>2 DEF Traces, Told, Arrived
  <2>3. CASE update' = NoUpdate
    BY <2>3, NoOrderIsNone DEF NoUpdate
  <2>4. CASE /\ ReadUpdate
             /\ update'.order = Head(stream).order /\ update'.status = Head(stream).status
    <3>1. Head(stream) \in ReportRows(S)
      BY <1>1, <2>4 DEF ReadUpdate
    <3> QED
      BY <2>1, <2>4, <3>1 DEF ReportRows, Told, Arrived
  <2> QED
    BY <2>2, <2>3, <2>4, UpdateKinds
<1>5. pc'["main"] \in {"ack", "resolve"} /\ cycle'.order \in Orders =>
         Told(cycle.order, cycle.answer)'
  <2>1. \A o \in Orders : \A s : Told(o, s) => Told(o, s)'
    BY ToldStays
  <2>2. pc'["main"] \in {"ack", "resolve"} =>
           \/ Acknowledged \/ RecordAck
           \/ pc'["main"] = pc["main"] /\ cycle' = cycle
    BY ControlStep, ForwardEffect DEF MainLabels
  <2> QED
    BY <2>1, <2>2, ForwardEffect DEF Traces, Told, Arrived
<1> QED
  BY <1>3, <1>4, <1>5 DEF Traces

(* One order is pending at a time, and it is the one on its way. *)
LEMMA OnePendingStep ==
  ASSUME InFlight, [Next]_vars
  PROVE  OnePending'
<1> SUFFICES ASSUME restarts' = 0
             PROVE  /\ \A o \in Orders : venue'[o].state = "SENT" => orders'[o].state = "UNKNOWN"
                    /\ \A o, p \in Orders : /\ orders'[o].state = "UNKNOWN"
                                            /\ orders'[p].state = "UNKNOWN"
                                            => o = p
                    /\ pc'["main"] \in {"save", "send"} /\ cycle'.order \in Orders =>
                          orders'[cycle'.order].state = "UNKNOWN"
  BY DEF OnePending, Pending
<1>1. Written /\ Shapes /\ Traces /\ WriteAhead /\ Prepared
  BY DEF InFlight, Written
<1>2. ~Restart /\ restarts = 0
  BY RestartsStep DEF InFlight, Restart
<1>3. /\ \A o \in Orders : venue[o].state = "SENT" => Pending(o)
      /\ \A o, p \in Orders : Pending(o) /\ Pending(p) => o = p
      /\ pc["main"] \in {"save", "send"} /\ cycle.order \in Orders => Pending(cycle.order)
  BY <1>2 DEF InFlight, OnePending
<1>4. \A o \in Orders : \/ venue'[o].state = "SENT" => venue[o].state = "SENT"
                        \/ Send /\ o = cycle.order
  BY <1>1, VenueStep
<1>5. CASE /\ Consume
           /\ \A o \in Orders : ~Pending(o)
           /\ \A o \in Orders : o # cycle.order => orders'[o] = orders[o]
           /\ cycle.order \in Orders => orders'[cycle.order].state = "UNKNOWN"
  <2>1. venue' = venue
    BY <1>5 DEF Consume, exchange
  <2>2. \A o \in Orders : venue'[o].state # "SENT"
    BY <1>3, <1>5, <2>1
  <2>3. \A o \in Orders : o # cycle.order => orders'[o].state # "UNKNOWN"
    BY <1>5 DEF Pending
  <2>4. pc'["main"] \in {"save", "send"} => cycle' = cycle
    BY <1>1, <1>5, ForwardEffect
  <2> QED
    BY <1>5, <2>2, <2>3, <2>4
<1>6. CASE /\ ~(Consume /\ Risk!ConsumeAndSubmit(cycle.approval, cycle.order, TRUE))
           /\ \A o \in Orders :
                 /\ orders'[o].state = "UNKNOWN" => Pending(o)
                 /\ \/ Pending(o) => orders'[o].state = "UNKNOWN"
                    \/ Resolve /\ o = cycle.order
                    \/ ReportFill /\ o = update.order
  <2>1. \A o \in Orders : Pending(o) /\ ~Arrived(o) => orders'[o].state = "UNKNOWN"
    BY <1>1, <1>6 DEF Traces, Resolve, Told
  <2>2. ASSUME NEW o \in Orders, venue'[o].state = "SENT" PROVE orders'[o].state = "UNKNOWN"
    <3>1. Pending(o) /\ ~Arrived(o)
      BY <1>1, <1>3, <1>4, <2>2 DEF Send, Prepared, Arrived
    <3> QED
      BY <2>1, <3>1
  <2>3. ASSUME pc'["main"] \in {"save", "send"}, cycle'.order \in Orders
        PROVE  orders'[cycle'.order].state = "UNKNOWN"
    <3>1. cycle' = cycle /\ pc["main"] \in {"save", "send"}
      BY <1>1, <1>6, <2>3, ControlStep, ForwardEffect DEF MainLabels
    <3>2. Pending(cycle.order) /\ ~Arrived(cycle.order)
      BY <1>1, <1>3, <2>3, <3>1 DEF Prepared, WriteAhead, Arrived
    <3> QED
      BY <2>1, <2>3, <3>1, <3>2
  <2> QED
    BY <1>3, <1>6, <2>2, <2>3
<1> QED
  BY <1>2, <1>5, <1>6, OrderStep DEF InFlight

LEMMA InFlightInit == Init => InFlight
<1> SUFFICES ASSUME Init PROVE InFlight
  OBVIOUS
<1>1. Written /\ restarts \in Nat
  BY WrittenInit DEF Init
<1>2. orders \in OrderRows({"ABSENT", 0, -1, FALSE}) /\ \A o \in Orders : ~Pending(o)
  BY DEF Init, Risk!Fresh, Risk!Absent, Risk!NotConfirmed, OrderRows, OrderRow, Pending
<1>3. \A o \in Orders : venue[o].state = "NONE"
  BY DEF Init, Unsent
<1>4. pc["main"] = "fetch"
  BY MainIsNoStream DEF Init, Boot
<1>5. update.order \notin Orders
  BY NoOrderIsNone DEF Init, NoUpdate
<1>6. stream \in Seq(ReportRows({}))
  BY DEF Init
<1>7. Traces
  BY <1>4, <1>5, <1>6 DEF Traces
<1>8. OnePending
  BY <1>2, <1>3, <1>4 DEF OnePending
<1> QED
  BY <1>1, <1>2, <1>7, <1>8 DEF InFlight

LEMMA InFlightStep == InFlight /\ [Next]_vars => InFlight'
<1> SUFFICES ASSUME InFlight, [Next]_vars PROVE InFlight'
  OBVIOUS
<1>1. Written'
  BY WrittenStep DEF InFlight
<1>2. (restarts \in Nat)'
  BY RestartsStep DEF InFlight, Restart
<1>3. (\E S : orders \in OrderRows(S))'
  BY OrderStep DEF InFlight
<1>4. Traces'
  BY TracesStep DEF InFlight
<1>5. OnePending'
  BY OnePendingStep
<1> QED
  BY <1>1, <1>2, <1>3, <1>4, <1>5 DEF InFlight

(* Until a restart, no order is sent while another is on its way: what the UNKNOWN gate
   of the risk engine promises the bot, across threads that reconcile, report fills and
   reopen trading without its lock. *)
THEOREM SingleInFlightCorrect == Spec => []SingleInFlight
<1>1. InFlight => SingleInFlight
  BY DEF InFlight, OnePending, SingleInFlight
<1> QED
  BY <1>1, InFlightInit, InFlightStep, PTL DEF Spec

(***************************************************************************)
(* What the store says of a filled order                                   *)
(***************************************************************************)
AnswerRow(S) == [state : S, executed : S]
RecRow(S) ==
    [phase : S, listing : [Orders -> AnswerRow(S)], todo : S, filled : S, order : S,
     answer : AnswerRow(S), listed : S]

\* A reconciliation lists no filled order, and takes one for filled only if it is.
Honest(r) ==
    /\ \E S : r \in RecRow(S)
    /\ \A o \in Orders : r.listing[o].state # "FILLED"
    /\ r.order \in Orders /\ r.answer.state = "FILLED" => venue[r.order].state = "FILLED"

Answers ==
    /\ \E S : rec \in [Threads -> S]
    /\ \A t \in Threads : Honest(rec[t])

Filled == Written /\ Traces /\ Answers /\ FilledIsTrue

(* Only a filled order is taken for filled. *)
LEMMA MappedFilled == \A s : Mapped(s) = "FILLED" => s = "FILLED"
BY DEF Mapped

LEMMA FilledStays ==
  ASSUME Written, [Next]_vars, NEW o \in Orders, venue[o].state = "FILLED"
  PROVE  venue'[o].state = "FILLED"
<1>1. Told(o, "FILLED")
  BY DEF Told, Arrived
<1> QED
  BY <1>1, ToldStays DEF Told

LEMMA NoLocalsHonest == Honest(NoLocals)
<1>1. NoLocals \in RecRow({"unknown", "NONE", 0, {}, NoOrder, FALSE, [o \in Orders |-> 0]})
  BY DEF NoLocals, Unsent, RecRow, AnswerRow
<1> QED
  BY <1>1 DEF Honest, NoLocals, Unsent

(* What a step of a reconciliation does to the locals of its thread. *)
LEMMA ReconcileAnswers ==
  ASSUME Shapes, Answers, NEW t \in Threads, ResolveState(t)
  PROVE  \/ UNCHANGED rec
         \/ \E r : Honest(r) /\ rec' = [rec EXCEPT ![t] = r]
<1> DEFINE row == rec[t]
           Replaced == \E r : Honest(r) /\ rec' = [rec EXCEPT ![t] = r]
<1>1. PICK S : row \in RecRow(S)
  BY DEF Answers, Honest
<1>2. PICK V : venue \in [Orders -> AnswerRow(V)]
  BY DEF Shapes, VenueRows, AnswerRow
<1>3. /\ \A o \in Orders : row.listing[o].state # "FILLED"
      /\ row.order \in Orders /\ row.answer.state = "FILLED" => venue[row.order].state = "FILLED"
  BY DEF Answers, Honest
<1>4. PICK R : rec \in [Threads -> R]
  BY DEF Answers
<1>5. ASSUME NEW label, Return(t, label) PROVE Replaced
  BY <1>5, NoLocalsHonest DEF Return
<1>6. ASSUME Fail(t) PROVE Replaced
  BY <1>5, <1>6 DEF Fail
<1>7. CASE FetchExchangeState(t)
  <2> DEFINE L == [o \in Orders |-> IF Live(o) THEN venue[o] ELSE Unsent]
             r == [row EXCEPT !.listing = L]
  <2>1. L \in [Orders -> AnswerRow(V \cup {"NONE", 0})]
    BY <1>2 DEF Unsent, AnswerRow
  <2>2. \A o \in Orders : L[o].state # "FILLED"
    BY DEF Live, Unsent
  <2>3. rec' = [rec EXCEPT ![t] = r] \/ Fail(t)
    BY <1>4, <1>7 DEF FetchExchangeState
  <2> HIDE DEF L, row
  <2>4. r \in RecRow(S \cup V \cup {"NONE", 0})
    BY <1>1, <2>1 DEF RecRow, AnswerRow
  <2>5. r.listing = L /\ r.order = row.order /\ r.answer = row.answer
    BY <1>1 DEF RecRow
  <2> HIDE DEF r
  <2>6. Honest(r)
    BY <1>3, <2>2, <2>4, <2>5 DEF Honest
  <2> QED
    BY <1>6, <2>3, <2>6
<1>8. ASSUME NEW u, NEW v, NEW w, NEW r,
             \/ r = [row EXCEPT !.todo = u, !.filled = v]
             \/ r = [row EXCEPT !.phase = w]
      PROVE  Honest(r)
  <2> HIDE DEF row
  <2>1. r \in RecRow(S \cup {u, v, w})
    BY <1>1, <1>8 DEF RecRow, AnswerRow
  <2>2. r.listing = row.listing /\ r.order = row.order /\ r.answer = row.answer
    BY <1>1, <1>8 DEF RecRow
  <2> QED
    BY <1>3, <2>1, <2>2 DEF Honest
<1>9. CASE ListIntents(t)
  <2>1. \E u, v : rec' = [rec EXCEPT ![t] = [row EXCEPT !.todo = u, !.filled = v]]
    BY <1>4, <1>9 DEF ListIntents
  <2> QED
    BY <1>8, <2>1
<1>10. CASE EndUnknown(t)
  <2>1. \E w : rec' = [rec EXCEPT ![t] = [row EXCEPT !.phase = w]]
    BY <1>4, <1>10 DEF EndUnknown
  <2> QED
    BY <1>8, <2>1
<1>11. ASSUME NEW o \in Orders, NEW T, NEW answer \in AnswerRow(T), NEW listed, NEW todo,
              answer.state = "FILLED" => venue[o].state = "FILLED",
              NEW L \in [Orders -> AnswerRow(T)], \A p \in Orders : L[p].state # "FILLED",
              NEW r,
              \/ r = [row EXCEPT !.todo = todo, !.order = o, !.answer = answer, !.listed = listed]
              \/ r = [row EXCEPT !.todo = todo, !.order = o, !.answer = answer, !.listed = listed,
                                 !.listing = L]
       PROVE  Honest(r)
  <2> HIDE DEF row
  <2> DEFINE U == S \cup T \cup {todo, o, listed}
  <2>6. AnswerRow(S) \subseteq AnswerRow(U) /\ AnswerRow(T) \subseteq AnswerRow(U)
    BY DEF AnswerRow
  <2>7. row \in RecRow(U) /\ L \in [Orders -> AnswerRow(U)] /\ answer \in AnswerRow(U)
    BY <1>1, <1>11, <2>6 DEF RecRow
  <2>8. todo \in U /\ o \in U /\ listed \in U
    OBVIOUS
  <2> HIDE DEF U
  <2>1. r \in RecRow(U)
    BY <1>11, <2>7, <2>8 DEF RecRow
  <2>2. r.listing \in {L, row.listing}
    BY <1>1, <1>11 DEF RecRow
  <2>3. r.order = o /\ r.answer = answer
    BY <1>1, <1>11 DEF RecRow
  <2>4. \A p \in Orders : r.listing[p].state # "FILLED"
    BY <1>3, <1>11, <2>2
  <2>5. r.answer.state = "FILLED" => venue[r.order].state = "FILLED"
    BY <1>11, <2>3
  <2> QED
    BY <2>1, <2>4, <2>5 DEF Honest
<1>12. ASSUME NEW o \in Orders, NEW T, NEW answer \in AnswerRow(T), NEW listed,
              answer.state = "FILLED" => venue[o].state = "FILLED",
              TakeUp(t, o, answer, listed)
       PROVE  Replaced
  <2> DEFINE todo == row.todo \ {o}
             r == [row EXCEPT !.todo = todo, !.order = o, !.answer = answer, !.listed = listed]
             L == [p \in Orders |-> [state |-> "NONE", executed |-> 0]]
  <2>1. rec' = [rec EXCEPT ![t] = r]
    BY <1>4, <1>12 DEF TakeUp
  <2>2. answer \in AnswerRow(T \cup {"NONE", 0})
    BY <1>12 DEF AnswerRow
  <2>3. /\ L \in [Orders -> AnswerRow(T \cup {"NONE", 0})]
        /\ \A p \in Orders : L[p].state # "FILLED"
    BY DEF AnswerRow
  <2> HIDE DEF todo, L
  <2>4. Honest(r)
    BY <1>11, <1>12, <2>2, <2>3
  <2> QED
    BY <2>1, <2>4
<1>13. ASSUME NEW o \in Orders, QueryUnknown(t, o) PROVE Replaced
  <2> DEFINE canceled == [Unsent EXCEPT !.state = "CANCELED"]
             todo == row.todo \ {o}
             seen == IF Live(o) THEN venue[o] ELSE row.listing[o]
             L == [row.listing EXCEPT ![o] = seen]
             r == [row EXCEPT !.todo = todo, !.order = o, !.answer = venue[o],
                              !.listed = FALSE, !.listing = L]
  <2>1. canceled \in AnswerRow({"CANCELED", 0}) /\ canceled.state # "FILLED"
    BY DEF Unsent, AnswerRow
  <2>2. venue[o] \in AnswerRow(S \cup V)
    BY <1>2 DEF AnswerRow
  <2>3. L \in [Orders -> AnswerRow(S \cup V)]
    BY <1>1, <1>2 DEF RecRow, AnswerRow
  <2>4. \A p \in Orders : L[p].state # "FILLED"
    BY <1>1, <1>3 DEF RecRow, Live
  <2>5. \/ rec' = [rec EXCEPT ![t] = [row EXCEPT
                      !.todo = todo, !.order = o, !.answer = venue[o],
                      !.listing[o] = seen, !.listed = FALSE]]
        \/ TakeUp(t, o, canceled, FALSE)
        \/ Fail(t)
    BY <1>4, <1>13 DEF QueryUnknown
  <2>6. [row EXCEPT !.todo = todo, !.order = o, !.answer = venue[o],
                    !.listing[o] = seen, !.listed = FALSE] = r
    BY <1>1 DEF RecRow
  <2> HIDE DEF todo, L, seen
  <2>7. Honest(r)
    BY <1>11, <2>2, <2>3, <2>4
  <2> HIDE DEF r, canceled
  <2> QED
    BY <1>6, <1>12, <2>1, <2>5, <2>6, <2>7
<1>14. ASSUME NEW o \in Orders, SyncActive(t, o) PROVE Replaced
  <2>1. row.listing[o] \in AnswerRow(S) /\ venue[o] \in AnswerRow(V)
    BY <1>1, <1>2 DEF RecRow
  <2>2. \/ TakeUp(t, o, row.listing[o], TRUE)
        \/ TakeUp(t, o, venue[o], FALSE)
        \/ Fail(t)
    BY <1>14 DEF SyncActive
  <2> HIDE DEF row
  <2> QED
    BY <1>3, <1>6, <1>12, <2>1, <2>2
<1>15. CASE EndActive(t)
  BY <1>5, <1>15 DEF EndActive
<1>16. CASE BookFill(t) \/ WriteStatus(t)
  BY <1>16 DEF BookFill, WriteStatus
<1> QED
  BY <1>7, <1>9, <1>10, <1>13, <1>14, <1>15, <1>16 DEF ResolveState

(* Only reconciliations and restarts touch what reconciliations hold. *)
LEMMA AnswerKinds ==
  ASSUME [Next]_vars
  PROVE  \/ UNCHANGED rec
         \/ rec' = [t \in Threads |-> NoLocals]
         \/ \E t \in Threads : ResolveState(t)
<1>1. CASE Main
  <2>1. ASSUME \/ Start \/ Abort \/ BeginCycle \/ EndRun \/ Diff \/ RecordCancel
               \/ EndCancels \/ EndCycle \/ GenerateId \/ Consume \/ Save \/ Send
        PROVE  UNCHANGED rec
    BY <2>1 DEF Start, Abort, BeginCycle, EndRun, Diff, RecordCancel, EndCancels, EndCycle,
       GenerateId, Consume, Save, Send, locals
  <2>2. ASSUME \/ Acknowledged \/ Rejected \/ TimedOut \/ Interrupt \/ Raise
               \/ RecordAck \/ Resolve
        PROVE  UNCHANGED rec
    BY <2>2 DEF Acknowledged, Rejected, TimedOut, Interrupt, Raise, RecordAck, Resolve,
       locals
  <2>3. ASSUME \/ \E o \in Orders : CancelOrder(o)
               \/ \E l \in Levels : RequestApproval(l)
        PROVE  UNCHANGED rec
    BY <2>3 DEF CancelOrder, RequestApproval
  <2> QED
    BY <1>1, <2>1, <2>2, <2>3 DEF Main
<1>2. CASE Stream
  <2>1. ASSUME ReadUpdate \/ BookTrade \/ ReportFill \/ WriteUpdate PROVE UNCHANGED rec
    BY <2>1 DEF ReadUpdate, BookTrade, ReportFill, WriteUpdate, locals
  <2>2. ASSUME NEW t \in Streams,
               Connect(t) \/ LoseConnection(t) \/ Reconnect(t) \/ Reconciled(t)
        PROVE  UNCHANGED rec
    BY <2>2 DEF Connect, LoseConnection, Reconnect, Reconciled, locals
  <2> QED
    BY <1>2, <2>1, <2>2 DEF Stream
<1>3. CASE (\E t \in Threads : Reconcile(t)) \/ Trading \/ Restart \/ UNCHANGED vars
  BY <1>3 DEF Reconcile, Trading, Restart, vars, locals
<1> QED
  BY <1>1, <1>2, <1>3 DEF Next

(* What a reconciliation took for filled stays filled. *)
LEMMA AnswersStep ==
  ASSUME Written, Answers, [Next]_vars
  PROVE  Answers'
<1>1. Shapes
  BY DEF Written
<1>2. PICK R : rec \in [Threads -> R]
  BY DEF Answers
<1>3. ASSUME NEW r, Honest(r) PROVE Honest(r)'
  BY <1>3, FilledStays DEF Honest
<1>4. CASE UNCHANGED rec
  <2>1. \A t \in Threads : Honest(rec[t])'
    BY <1>3, <1>4 DEF Answers, Honest
  <2> QED
    BY <1>2, <1>4, <2>1 DEF Answers
<1>5. CASE rec' = [t \in Threads |-> NoLocals]
  <2>1. rec' \in [Threads -> {NoLocals}]
    BY <1>5
  <2>2. Honest(NoLocals)'
    BY <1>3, NoLocalsHonest
  <2>3. \A t \in Threads : Honest(rec[t])'
    BY <1>5, <2>2 DEF Honest
  <2> QED
    BY <2>1, <2>3 DEF Answers
<1>6. ASSUME NEW t \in Threads, NEW r, Honest(r), rec' = [rec EXCEPT ![t] = r]
      PROVE  Answers'
  <2>1. rec' \in [Threads -> R \cup {r}]
    BY <1>2, <1>6
  <2>2. ASSUME NEW x \in Threads PROVE Honest(rec[x])'
    <3>1. rec'[x] = r \/ rec'[x] = rec[x]
      BY <1>2, <1>6
    <3>2. Honest(rec'[x])
      BY <1>6, <3>1 DEF Answers
    <3>3. \A q : Honest(q) => Honest(q)'
      BY <1>3
    <3> QED
      BY <3>2, <3>3 DEF Honest
  <2> QED
    BY <2>1, <2>2 DEF Answers
<1> QED
  BY <1>1, <1>4, <1>5, <1>6, AnswerKinds, ReconcileAnswers

(* Whoever writes FILLED into the store has it from the exchange. *)
LEMMA FilledWrites ==
  ASSUME Written, Traces, Answers, [Next]_vars
  PROVE  \/ Save
         \/ \E o, s : /\ UpdateIntentStatus(o, s)
                      /\ s = "FILLED" /\ o \in Orders => venue[o].state = "FILLED"
         \/ \E id, o, q : AddFill(id, o, q)
         \/ UNCHANGED intents
<1> DEFINE Writes == \E o, s : /\ UpdateIntentStatus(o, s)
                               /\ s = "FILLED" /\ o \in Orders => venue[o].state = "FILLED"
<1>1. ASSUME NEW o, NEW s, UpdateIntentStatus(o, s), s # "FILLED" PROVE Writes
  BY <1>1
<1>2. ASSUME NEW o, NEW s, UpdateIntentStatus(o, Mapped(s)), s # "FILLED" PROVE Writes
  BY <1>1, <1>2, MappedFilled
<1>3. ASSUME NEW o, NEW s, UpdateIntentStatus(o, Mapped(s)),
             o \in Orders /\ s = "FILLED" => venue[o].state = "FILLED"
      PROVE  Writes
  BY <1>3, MappedFilled
<1>4. ASSUME RecordCancel \/ Rejected \/ TimedOut PROVE Writes
  BY <1>1, <1>4 DEF RecordCancel, Rejected, TimedOut
<1>5. ASSUME RecordAck PROVE Writes
  BY <1>3, <1>5 DEF RecordAck, Traces, Told
<1>6. ASSUME WriteUpdate PROVE Writes \/ UNCHANGED intents
  BY <1>3, <1>6 DEF WriteUpdate, Traces, Told, store
<1>7. ASSUME NEW t \in Threads, WriteStatus(t) PROVE Writes
  BY <1>3, <1>7 DEF WriteStatus, Answers, Honest
<1> HIDE DEF Writes
<1>8. Save \/ Writes \/ (\E id, o, q : AddFill(id, o, q)) \/ UNCHANGED intents
  BY <1>4, <1>5, <1>6, <1>7, StoreActions
<1> QED
  BY <1>8 DEF Writes

LEMMA FilledInit == Init => Filled
<1> SUFFICES ASSUME Init PROVE Filled
  OBVIOUS
<1>1. Written /\ Traces
  BY InFlightInit DEF InFlight
<1>2. rec \in [Threads -> {NoLocals}] /\ \A t \in Threads : Honest(rec[t])
  BY NoLocalsHonest DEF Init
<1>3. Answers
  BY <1>2 DEF Answers
<1>4. FilledIsTrue
  BY DEF Init, NoIntent, FilledIsTrue
<1> QED
  BY <1>1, <1>3, <1>4 DEF Filled

LEMMA FilledStep == Filled /\ [Next]_vars => Filled'
<1> SUFFICES ASSUME Filled, [Next]_vars PROVE Filled'
  OBVIOUS
<1>1. Written /\ Traces /\ Answers /\ FilledIsTrue
  BY DEF Filled
<1>2. PICK S : intents \in IntentRows(S)
  BY <1>1 DEF Written, Shapes
<1>3. ASSUME NEW o \in Orders, intents'[o].status = "FILLED"
      PROVE  venue[o].state = "FILLED"
  <2>1. CASE Save
    BY <1>1, <1>2, <1>3, <2>1 DEF Save, SaveIntent, NoIntent, IntentRows, FilledIsTrue
  <2>2. ASSUME NEW p, NEW s, UpdateIntentStatus(p, s),
               s = "FILLED" /\ p \in Orders => venue[p].state = "FILLED"
        PROVE  venue[o].state = "FILLED"
    BY <1>1, <1>2, <1>3, <2>2 DEF UpdateIntentStatus, IntentRows, FilledIsTrue
  <2>3. ASSUME NEW id, NEW p, NEW q, AddFill(id, p, q)
        PROVE  intents'[o].status = intents[o].status
    <3> DEFINE more == intents[p].filled + q
    <3>1. intents' = intents \/ intents' = [intents EXCEPT ![p].filled = more]
      BY <2>3 DEF AddFill
    <3> HIDE DEF more
    <3> QED
      BY <1>2, <3>1 DEF IntentRows
  <2>4. CASE intents'[o].status = intents[o].status
    BY <1>1, <1>3, <2>4 DEF FilledIsTrue
  <2> QED
    BY <1>1, <2>1, <2>2, <2>3, <2>4, FilledWrites
<1>4. FilledIsTrue'
  BY <1>1, <1>3, FilledStays DEF FilledIsTrue
<1>5. Written' /\ Traces' /\ Answers'
  BY <1>1, WrittenStep, TracesStep, AnswersStep
<1> QED
  BY <1>4, <1>5 DEF Filled

(* The store never takes an order for filled that is not, whichever of main, the user
   data thread and the reconciliations wrote its status last (execution_engine.py:106 and
   190, reconciliation.py). *)
THEOREM FilledCorrect == Spec => []FilledIsTrue
<1>1. Filled => FilledIsTrue
  BY DEF Filled
<1> QED
  BY <1>1, FilledInit, FilledStep, PTL DEF Spec

=============================================================================
