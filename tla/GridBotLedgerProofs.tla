------------------------- MODULE GridBotLedgerProofs -------------------------
(***************************************************************************)
(* Theorems about GridBot, for any number of levels, orders, cycles,       *)
(* connection losses, crashes and restarts: every variable keeps its type, *)
(* and what the account stands to own is at most what the risk engine      *)
(* counts, which is at most the limit.                                     *)
(***************************************************************************)
EXTENDS GridBotProofs, RiskUnitsProofs

(***************************************************************************)
(* The invariant                                                           *)
(***************************************************************************)
(* An order is open only while something of it is left, and nothing of it is executed
   before it arrived. *)
VenueSound ==
    \A o \in Orders :
        /\ Live(o) => venue[o].executed < Size
        /\ venue[o].state \in {"NONE", "SENT"} => venue[o].executed = 0

(* The stream handles a trade of a certain order. *)
UpdateSound ==
    "user" \in Streams /\ pc["user"] \in {"update", "on_fill"} =>
        update.order \in Orders /\ update.trade \in 1..Size

(* A reconciliation that writes has a certain order in hand. *)
RecSound == \A t \in Threads : pc[t] \in {"book", "write"} => rec[t].order \in Orders

(* The level has an id that was never used. *)
Room(l) == \E o \in Orders : LevelOf(o) = l /\ ~HasIntent(o)

\* The labels at which main has an order in hand.
InHand == {"consume", "discard", "save", "send", "wait", "interrupt", "ack", "resolve"}

(* main submits one order at each level that it creates, and has an id for it. *)
CycleSound ==
    /\ \A l \in cycle.creates : Room(l)
    /\ pc["main"] = "approved" => cycle.level \in Levels /\ Room(cycle.level)
    /\ pc["main"] \in {"approved", "consume", "discard", "save"} =>
          cycle.level \notin cycle.creates
    /\ pc["main"] \in {"approved", "consume", "discard"} => cycle.approval # 0
    /\ pc["main"] \in {"consume", "discard", "save"} => LevelOf(cycle.order) = cycle.level
    /\ pc["main"] \in InHand => cycle.order \in Orders

Typed == TypeOK /\ VenueSound /\ UpdateSound /\ RecSound /\ CycleSound

(* No handler of the bot settles an order as canceled in the engine, so an order that the
   engine knows is counted with its whole size, filled or held. *)
Sized(r) ==
    /\ r.filled <= r.initial
    /\ r.state # "CANCELED"
    /\ r.initial = IF r.state = "ABSENT" THEN 0 ELSE Size

FilledPart == [o \in Orders |-> orders[o].filled]
HeldPart == [o \in Orders |-> orders[o].initial - orders[o].filled]

Counted ==
    /\ \A a \in 1..MaxApprovals : registry[a] \in {0, Size}
    /\ \A o \in Orders : Sized(orders[o])
    /\ current_position = Total(FilledPart)
    /\ reservations >= Total(registry) + Total(HeldPart)
    /\ current_position + reservations <= Limit

(* What the exchange has of one process, its engine knows, and the order whose answer main
   waits for has not been canceled. *)
Submitted ==
    /\ restarts = 0 => \A o \in Orders : venue[o].state # "NONE" => Risk!Known(o)
    /\ pc["main"] \in {"save", "send"} => Risk!Known(cycle.order)
    /\ pc["main"] = "wait" => venue[cycle.order].state # "CANCELED"
    /\ pc["main"] \in {"ack", "resolve"} => cycle.answer # "CANCELED"

Accounted == Typed /\ Counted /\ Submitted

(***************************************************************************)
(* Constants                                                               *)
(***************************************************************************)

LEMMA ConstantTypes ==
  /\ Size \in Nat /\ Size > 0
  /\ Limit \in Nat /\ MaxCycles \in Nat /\ MaxGenerations \in Nat
  /\ MaxLosses \in Nat /\ MaxRestarts \in Nat
  /\ MaxApprovals \in Nat
  /\ IsFiniteSet(Orders) /\ IsFiniteSet(1..MaxApprovals)
<1>1. Size \in Nat /\ Size > 0
  BY SizeAssumption
<1>2. /\ Limit \in Nat /\ MaxCycles \in Nat /\ MaxGenerations \in Nat
      /\ MaxLosses \in Nat /\ MaxRestarts \in Nat
  BY BoundsAssumption
<1>3. Cardinality(Levels) \in Nat
  BY LevelsAssumption, FS_CardinalityType
<1>4. MaxApprovals \in Nat
  BY <1>2, <1>3 DEF MaxApprovals
<1>5. IsFiniteSet(0..MaxGenerations - 1)
  BY <1>2, FS_Interval
<1>6. IsFiniteSet(Orders)
  BY <1>5, LevelsAssumption, OrdersAssumption, FS_Product
<1>7. IsFiniteSet(1..MaxApprovals)
  BY <1>4, FS_Interval
<1> QED
  BY <1>1, <1>2, <1>4, <1>6, <1>7

LEMMA OrderOfLevel ==
  ASSUME NEW o \in Orders
  PROVE  LevelOf(o) \in Levels /\ \E k \in 0..MaxGenerations - 1 : o = <<LevelOf(o), k>>
BY OrdersAssumption DEF LevelOf

(* A level with an unused id has one that the next id may be. *)
LEMMA NextIdExists ==
  ASSUME NEW l \in Levels, Room(l)
  PROVE  NextId(l) \in Orders /\ LevelOf(NextId(l)) = l
<1> DEFINE Used == {o \in Orders : LevelOf(o) = l /\ intents[o].status \in Terminal}
           All == {l} \X (0..MaxGenerations - 1)
<1>1. PICK o \in Orders : LevelOf(o) = l /\ ~HasIntent(o)
  BY DEF Room
<1>2. o \notin Used
  BY <1>1 DEF Terminal, HasIntent
<1>3. o \in All /\ Used \subseteq All
  BY <1>1, OrderOfLevel
<1>4. /\ IsFiniteSet({l}) /\ Cardinality({l}) = 1
      /\ IsFiniteSet(0..MaxGenerations - 1)
      /\ Cardinality(0..MaxGenerations - 1) = MaxGenerations
  <2>1. MaxGenerations \in Nat /\ 0 \in Int /\ MaxGenerations - 1 \in Int
    BY ConstantTypes
  <2>2. /\ IsFiniteSet(0..MaxGenerations - 1)
        /\ Cardinality(0..MaxGenerations - 1)
              = IF 0 > MaxGenerations - 1 THEN 0 ELSE (MaxGenerations - 1) - 0 + 1
    BY <2>1, FS_Interval
  <2>3. IsFiniteSet({l}) /\ Cardinality({l}) = 1
    BY FS_Singleton
  <2> QED
    BY <2>1, <2>2, <2>3
<1>5. IsFiniteSet(All) /\ Cardinality(All) = MaxGenerations
  <2>1. IsFiniteSet(All) /\ Cardinality(All) = 1 * MaxGenerations
    BY <1>4, FS_Product
  <2> QED
    BY <2>1, ConstantTypes
<1> HIDE DEF Used, All
<1>6. IsFiniteSet(All \ {o}) /\ Cardinality(All \ {o}) = MaxGenerations - 1
  BY <1>3, <1>5, FS_RemoveElement
<1>7. Used \subseteq All \ {o}
  BY <1>2, <1>3
<1>8. Cardinality(Used) \in Nat /\ Cardinality(Used) <= MaxGenerations - 1
  BY <1>6, <1>7, FS_Subset, FS_CardinalityType
<1>9. NextId(l) = <<l, Cardinality(Used)>>
  BY DEF NextId, Used
<1> QED
  BY <1>8, <1>9, OrdersAssumption, ConstantTypes DEF LevelOf

(***************************************************************************)
(* The risk engine's types                                                 *)
(***************************************************************************)
(* What the steps of the bot ask of the risk engine. *)
LEMMA LedgerKinds ==
  ASSUME [Next]_vars
  PROVE  \/ UNCHANGED ledger
         \/ Restart /\ Risk!Renew
         \/ Risk!RequestApproval(Size)
         \/ /\ Consume
            /\ \/ Risk!ConsumeAndSubmit(cycle.approval, cycle.order, TRUE)
               \/ Risk!ConsumeWhileUnknown(cycle.approval, TRUE)
               \/ Risk!ConsumeRejected(cycle.approval, cycle.order, TRUE)
         \/ Resolve /\ Risk!ResolveOrder(cycle.order, Mapped(cycle.answer), 0)
         \/ /\ ReportFill
            /\ \/ Risk!OnFill(update.order, <<update.order, update.trade>>, 1)
               \/ Risk!OnLateFill(update.order, <<update.order, update.trade>>, 1)
               \/ Risk!OnOverFill(update.order, <<update.order, update.trade>>, 1)
<1>1. ASSUME \/ Start \/ Abort \/ BeginCycle \/ EndRun \/ Diff \/ RecordCancel
             \/ EndCancels \/ EndCycle \/ GenerateId \/ Save \/ Send
             \/ Acknowledged \/ Rejected \/ TimedOut \/ Interrupt \/ Raise
             \/ RecordAck
      PROVE  UNCHANGED ledger
  BY <1>1 DEF Start, Abort, BeginCycle, EndRun, Diff, RecordCancel, EndCancels, EndCycle,
     GenerateId, Save, Send, Acknowledged, Rejected, TimedOut, Interrupt, Raise, RecordAck,
     risk
<1>2. ASSUME NEW o \in Orders, CancelOrder(o) PROVE UNCHANGED ledger
  BY <1>2 DEF CancelOrder, risk
<1>3. ASSUME NEW l \in Levels, RequestApproval(l)
      PROVE  Risk!RequestApproval(Size) \/ UNCHANGED ledger
  BY <1>3 DEF RequestApproval, risk
<1>4. ASSUME Consume
      PROVE  \/ UNCHANGED ledger
             \/ Risk!ConsumeAndSubmit(cycle.approval, cycle.order, TRUE)
             \/ Risk!ConsumeWhileUnknown(cycle.approval, TRUE)
             \/ Risk!ConsumeRejected(cycle.approval, cycle.order, TRUE)
  BY <1>4 DEF Consume, risk
<1>5. ASSUME Resolve
      PROVE  \/ UNCHANGED ledger
             \/ Risk!ResolveOrder(cycle.order, Mapped(cycle.answer), 0)
  BY <1>5 DEF Resolve, risk
<1>6. CASE Main
  BY <1>1, <1>2, <1>3, <1>4, <1>5, <1>6 DEF Main
<1>7. CASE Stream
  <2>1. ASSUME ReadUpdate \/ BookTrade \/ WriteUpdate PROVE UNCHANGED ledger
    BY <2>1 DEF ReadUpdate, BookTrade, WriteUpdate, risk
  <2>2. ASSUME NEW t \in Streams,
               Connect(t) \/ LoseConnection(t) \/ Reconnect(t) \/ Reconciled(t)
        PROVE  UNCHANGED ledger
    BY <2>2 DEF Connect, LoseConnection, Reconnect, Reconciled, risk
  <2>3. ASSUME ReportFill
        PROVE  \/ UNCHANGED ledger
               \/ Risk!OnFill(update.order, <<update.order, update.trade>>, 1)
               \/ Risk!OnLateFill(update.order, <<update.order, update.trade>>, 1)
               \/ Risk!OnOverFill(update.order, <<update.order, update.trade>>, 1)
    BY <2>3 DEF ReportFill, risk
  <2> QED
    BY <1>7, <2>1, <2>2, <2>3 DEF Stream
<1>8. CASE (\E t \in Threads : Reconcile(t)) \/ Trading \/ Restart \/ UNCHANGED vars
  BY <1>8 DEF Reconcile, Trading, Restart, vars, risk
<1> QED
  BY <1>6, <1>7, <1>8 DEF Next

(* system_state is one of the four states, whoever assigns it. *)
LEMMA StateStep ==
  ASSUME TypeOK, [Next]_vars
  PROVE  system_state' \in Risk!SystemStates
<1> USE DEF Risk!SystemStates
<1>0. system_state \in Risk!SystemStates
  BY DEF TypeOK, Risk!TypeOK
<1>1. ASSUME \/ BeginCycle \/ EndRun \/ Diff \/ RecordCancel
             \/ EndCancels \/ EndCycle \/ GenerateId \/ Save \/ Send
             \/ Acknowledged \/ Rejected \/ TimedOut \/ Raise
             \/ RecordAck
      PROVE  UNCHANGED system_state
  BY <1>1 DEF BeginCycle, EndRun, Diff, RecordCancel, EndCancels, EndCycle,
     GenerateId, Save, Send, Acknowledged, Rejected, TimedOut, Raise, RecordAck, risk
<1>2. ASSUME NEW o \in Orders, CancelOrder(o) PROVE UNCHANGED system_state
  BY <1>2 DEF CancelOrder, risk
<1>3. ASSUME NEW l \in Levels, RequestApproval(l) PROVE UNCHANGED system_state
  BY <1>3 DEF RequestApproval, Risk!RequestApproval, risk
<1>4. ASSUME Consume PROVE UNCHANGED system_state
  BY <1>4 DEF Consume, Risk!ConsumeAndSubmit, Risk!ConsumeWhileUnknown, Risk!ConsumeRejected,
     Risk!RejectApproval, risk
<1>5. ASSUME Resolve PROVE UNCHANGED system_state
  BY <1>5 DEF Resolve, Risk!ResolveOrder, risk
<1>6. ASSUME Start \/ Abort \/ Interrupt \/ Restart
      PROVE  system_state' \in Risk!SystemStates
  BY <1>6 DEF Start, Abort, Interrupt, Restart
<1>7. CASE Main
  BY <1>0, <1>1, <1>2, <1>3, <1>4, <1>5, <1>6, <1>7 DEF Main
<1>8. CASE Stream
  <2>1. ASSUME ReadUpdate \/ BookTrade \/ WriteUpdate PROVE UNCHANGED system_state
    BY <2>1 DEF ReadUpdate, BookTrade, WriteUpdate, risk
  <2>2. ASSUME NEW t \in Streams,
               Connect(t) \/ LoseConnection(t) \/ Reconnect(t) \/ Reconciled(t)
        PROVE  system_state' \in Risk!SystemStates
    BY <1>0, <2>2 DEF Connect, LoseConnection, Reconnect, Reconciled, risk
  <2>3. ASSUME ReportFill PROVE system_state' \in Risk!SystemStates
    BY <1>0, <2>3 DEF ReportFill, Risk!OnFill, Risk!OnLateFill, Risk!OnOverFill,
       Risk!RaiseConflict, Risk!EnterReconciling, risk
  <2> QED
    BY <1>0, <1>8, <2>1, <2>2, <2>3 DEF Stream
<1>9. CASE (\E t \in Threads : Reconcile(t)) \/ Trading \/ UNCHANGED vars
  BY <1>0, <1>9 DEF Reconcile, Trading, vars, risk
<1> QED
  BY <1>6, <1>7, <1>8, <1>9 DEF Next

LedgerTyped ==
    /\ current_position \in Int
    /\ reservations \in Int
    /\ next_approval_id \in 1..MaxApprovals + 1
    /\ registry \in [1..MaxApprovals -> Nat]
    /\ stale \subseteq 1..MaxApprovals
    /\ lapsed \subseteq 1..MaxApprovals
    /\ active \subseteq 1..MaxApprovals
    /\ status \in [1..MaxApprovals -> Risk!ApprovalStatuses]
    /\ orders \in [Orders -> Risk!OrderRecords]
    /\ processed_fills \subseteq Orders \X (1..Size)
    /\ unresolved_conflicts \subseteq Orders

LEMMA LedgerTypedIs == Risk!TypeOK <=> system_state \in Risk!SystemStates /\ LedgerTyped
BY DEF Risk!TypeOK, LedgerTyped, Risk!Approvals

(* What the engine makes of an order's record is a record again. *)
LEMMA RecordTypes ==
  ASSUME NEW r \in Risk!OrderRecords
  PROVE  /\ Risk!Unseen(r, 0) = 0
         /\ Risk!FilledAt(r, 0) = [r EXCEPT !.state = "FILLED"]
         /\ \A s \in Risk!OrderStates : [r EXCEPT !.state = s] \in Risk!OrderRecords
         /\ Risk!CanceledAt(r, 0) \in Risk!OrderRecords
         /\ Risk!CountLate(r, 1) \in Risk!OrderRecords
         /\ Risk!Filled(r, 1) \in Risk!OrderRecords
<1>1. r.filled \in Nat /\ r.seen \in Nat
  BY DEF Risk!OrderRecords
<1>2. Risk!Unseen(r, 0) = 0 /\ r.filled + Risk!Unseen(r, 0) = r.filled
  BY <1>1 DEF Risk!Unseen
<1>3. \A s \in Risk!OrderStates : [r EXCEPT !.state = s] \in Risk!OrderRecords
  BY DEF Risk!OrderRecords
<1>4. Risk!FilledAt(r, 0) = [r EXCEPT !.state = "FILLED"]
  <2>1. Risk!FilledAt(r, 0) = [r EXCEPT !.state = "FILLED", !.filled = r.filled]
    BY <1>2 DEF Risk!FilledAt
  <2> QED
    BY <2>1 DEF Risk!OrderRecords
<1>5. Risk!CanceledAt(r, 0) \in Risk!OrderRecords
  <2> DEFINE n == r.filled + Risk!Unseen(r, 0)
  <2>1. n \in Nat
    BY <1>1, <1>2
  <2>2. Risk!CanceledAt(r, 0) = [r EXCEPT !.state = "CANCELED", !.total = 0, !.filled = n]
    BY DEF Risk!CanceledAt
  <2>3. 0 \in Nat \cup {Risk!NotConfirmed} /\ "CANCELED" \in Risk!OrderStates
    BY DEF Risk!OrderStates
  <2> HIDE DEF n
  <2> QED
    BY <2>1, <2>2, <2>3 DEF Risk!OrderRecords
<1>6. Risk!CountLate(r, 1) \in Risk!OrderRecords
  <2> DEFINE m == IF r.total = Risk!NotConfirmed THEN r.seen ELSE r.seen + 1
  <2>1. m \in Nat /\ Risk!CountLate(r, 1) = [r EXCEPT !.seen = m]
    BY <1>1 DEF Risk!CountLate
  <2> HIDE DEF m
  <2> QED
    BY <2>1 DEF Risk!OrderRecords
<1>7. Risk!Filled(r, 1) \in Risk!OrderRecords
  <2> DEFINE s == IF r.filled + 1 >= r.initial THEN "FILLED" ELSE "PARTIALLY_FILLED"
             n == r.filled + 1
             m == r.seen + 1
  <2>1. n \in Nat /\ m \in Nat /\ s \in Risk!OrderStates
    BY <1>1 DEF Risk!OrderStates
  <2>2. Risk!Filled(r, 1) = [r EXCEPT !.filled = n, !.seen = m, !.state = s]
    BY DEF Risk!Filled
  <2> HIDE DEF s, n, m
  <2> QED
    BY <2>1, <2>2 DEF Risk!OrderRecords
<1> QED
  BY <1>2, <1>3, <1>4, <1>5, <1>6, <1>7

LEMMA RejectTyped ==
  ASSUME LedgerTyped, NEW a \in 1..MaxApprovals, Risk!RejectApproval(a, TRUE, "REJECTED")
  PROVE  LedgerTyped'
BY DEF LedgerTyped, Risk!RejectApproval, Risk!DropRecord, Risk!ApprovalStatuses

LEMMA LedgerStep ==
  ASSUME Typed, [Next]_vars
  PROVE  LedgerTyped'
<1>1. LedgerTyped
  BY LedgerTypedIs DEF Typed, TypeOK
<1>2. CASE UNCHANGED ledger
  BY <1>1, <1>2 DEF LedgerTyped, ledger
<1>3. CASE Risk!Renew
  BY <1>3, ConstantTypes DEF LedgerTyped, Risk!Renew, Risk!Approvals, Risk!Absent,
     Risk!OrderRecords, Risk!OrderStates, Risk!NotConfirmed, Risk!ApprovalStatuses
<1>4. CASE Risk!RequestApproval(Size)
  BY <1>1, <1>4, ConstantTypes DEF LedgerTyped, Risk!RequestApproval, Risk!ApprovalStatuses
<1>5. CASE Consume /\ Risk!ConsumeAndSubmit(cycle.approval, cycle.order, TRUE)
  <2>1. cycle.approval \in 1..MaxApprovals
    BY <1>1, <1>5 DEF LedgerTyped, Risk!ConsumeAndSubmit, Risk!Consumable
  <2>2. Risk!NewOrder(registry[cycle.approval]) \in Risk!OrderRecords
    BY <1>1, <2>1 DEF LedgerTyped, Risk!NewOrder, Risk!Absent, Risk!OrderRecords,
       Risk!OrderStates, Risk!NotConfirmed
  <2> QED
    BY <1>1, <1>5, <2>1, <2>2 DEF LedgerTyped, Risk!ConsumeAndSubmit, Risk!DropRecord,
       Risk!ApprovalStatuses, Risk!ledger
<1>6. CASE /\ Consume
           /\ \/ Risk!ConsumeWhileUnknown(cycle.approval, TRUE)
              \/ Risk!ConsumeRejected(cycle.approval, cycle.order, TRUE)
  <2>1. cycle.approval \in 1..MaxApprovals
    <3>1. cycle.approval \in 0..MaxApprovals /\ pc["main"] \in {"consume", "discard"}
      BY <1>6 DEF Consume, Typed, TypeOK, Cycles
    <3>2. cycle.approval # 0
      BY <3>1 DEF Typed, CycleSound
    <3> QED
      BY <3>1, <3>2, ConstantTypes
  <2>2. Risk!RejectApproval(cycle.approval, TRUE, "REJECTED")
    BY <1>6 DEF Risk!ConsumeWhileUnknown, Risk!ConsumeRejected
  <2> QED
    BY <1>1, <2>1, <2>2, RejectTyped
<1>7. CASE Resolve /\ Risk!ResolveOrder(cycle.order, Mapped(cycle.answer), 0)
  <2> DEFINE o == cycle.order
             r == orders[o]
  <2>1. o \in Orders
    BY <1>7 DEF Resolve, Typed, CycleSound, InHand
  <2>2. r \in Risk!OrderRecords
    BY <1>1, <2>1 DEF LedgerTyped
  <2>3. r.initial \in Int /\ r.filled \in Int /\ Risk!Unseen(r, 0) = 0
    <3>1. r.initial \in Nat /\ r.filled \in Nat
      BY <2>2 DEF Risk!OrderRecords
    <3> QED
      BY <2>2, <3>1, RecordTypes
  <2>4. /\ [r EXCEPT !.state = "FILLED"] \in Risk!OrderRecords
        /\ [r EXCEPT !.state = "OPEN"] \in Risk!OrderRecords
        /\ Risk!CanceledAt(r, 0) \in Risk!OrderRecords
        /\ Risk!FilledAt(r, 0) \in Risk!OrderRecords
    BY <2>2, RecordTypes DEF Risk!OrderStates
  <2>5. /\ orders' \in [Orders -> Risk!OrderRecords]
        /\ current_position' \in Int /\ reservations' \in Int
    <3>1. \/ UNCHANGED <<orders, current_position, reservations>>
          \/ /\ orders' = [orders EXCEPT ![o] = Risk!FilledAt(r, 0)]
             /\ current_position' = current_position + 0
             /\ reservations' = reservations - 0
          \/ Risk!SettleCanceled(o, 0)
          \/ /\ orders' = [orders EXCEPT ![o] = [r EXCEPT !.state = "OPEN"]]
             /\ UNCHANGED <<current_position, reservations>>
      BY <1>1, <1>7, <2>1, <2>3 DEF Risk!ResolveOrder, Risk!ledger, LedgerTyped
    <3>2. CASE Risk!SettleCanceled(o, 0)
      BY <1>1, <2>1, <2>3, <2>4, <3>2 DEF Risk!SettleCanceled, LedgerTyped
    <3> HIDE DEF r, o
    <3> QED
      BY <1>1, <2>1, <2>4, <3>1, <3>2 DEF LedgerTyped
  <2>6. stale' \subseteq 1..MaxApprovals
    BY <1>7 DEF Risk!ResolveOrder, Risk!BumpRiskVersion, Risk!Recorded, Risk!Approvals
  <2> QED
    BY <1>1, <1>7, <2>5, <2>6 DEF LedgerTyped, Risk!ResolveOrder
<1>8. CASE /\ ReportFill
           /\ \/ Risk!OnFill(update.order, <<update.order, update.trade>>, 1)
              \/ Risk!OnLateFill(update.order, <<update.order, update.trade>>, 1)
              \/ Risk!OnOverFill(update.order, <<update.order, update.trade>>, 1)
  <2> DEFINE o == update.order
             r == orders[o]
  <2>1. o \in Orders /\ update.trade \in 1..Size
    BY <1>8 DEF ReportFill, At, Typed, UpdateSound
  <2>2. r \in Risk!OrderRecords
    BY <1>1, <2>1 DEF LedgerTyped
  <2>3. Risk!CountLate(r, 1) \in Risk!OrderRecords /\ Risk!Filled(r, 1) \in Risk!OrderRecords
    BY <2>2, RecordTypes
  <2>4. /\ orders' \in [Orders -> Risk!OrderRecords]
        /\ current_position' \in Int /\ reservations' \in Int
        /\ stale' \subseteq 1..MaxApprovals
    <3> HIDE DEF r
    <3>1. CASE Risk!OnFill(o, <<o, update.trade>>, 1)
      <4>1. orders' = [orders EXCEPT ![o] = Risk!Filled(r, 1)]
        BY <3>1 DEF Risk!OnFill, r
      <4>2. orders' \in [Orders -> Risk!OrderRecords]
        BY <1>1, <2>1, <2>3, <4>1 DEF LedgerTyped
      <4> QED
        BY <1>1, <3>1, <4>2 DEF Risk!OnFill, LedgerTyped,
           Risk!BumpRiskVersion, Risk!Recorded, Risk!Approvals
    <3>2. CASE Risk!OnLateFill(o, <<o, update.trade>>, 1)
      <4>1. orders' = [orders EXCEPT ![o] = Risk!CountLate(r, 1)] \/ orders' = orders
        BY <3>2 DEF Risk!OnLateFill, r
      <4>2. orders' \in [Orders -> Risk!OrderRecords]
        BY <1>1, <2>1, <2>3, <4>1 DEF LedgerTyped
      <4> QED
        BY <1>1, <3>2, <4>2 DEF Risk!OnLateFill, LedgerTyped, Risk!ledger, Risk!approvals
    <3>3. CASE Risk!OnOverFill(o, <<o, update.trade>>, 1)
      BY <1>1, <3>3 DEF Risk!OnOverFill, LedgerTyped, Risk!ledger, Risk!approvals
    <3> QED
      BY <1>8, <3>1, <3>2, <3>3
  <2>5. processed_fills' \subseteq Orders \X (1..Size) /\ unresolved_conflicts' \subseteq Orders
    BY <1>1, <1>8, <2>1 DEF Risk!OnFill, Risk!OnLateFill, Risk!OnOverFill, Risk!NewFill,
       Risk!RaiseConflict, LedgerTyped
  <2> QED
    BY <1>1, <1>8, <2>4, <2>5 DEF LedgerTyped, Risk!OnFill, Risk!OnLateFill, Risk!OnOverFill,
       Risk!ledger, Risk!approvals
<1> QED
  BY <1>2, <1>3, <1>4, <1>5, <1>6, <1>7, <1>8, LedgerKinds

(***************************************************************************)
(* The exchange and what it sends                                          *)
(***************************************************************************)
LEMMA RecordOf ==
  ASSUME Typed, NEW o \in Orders
  PROVE  /\ venue[o] \in VenueRecords
         /\ venue[o].state \in VenueStates /\ venue[o].executed \in 0..Size
         /\ Live(o) => venue[o].executed + 1 \in 1..Size
         /\ venue[o].state \in {"NONE", "SENT"} => venue[o].executed = 0
<1>1. venue[o] \in VenueRecords
  BY DEF Typed, TypeOK
<1>2. venue[o].state \in VenueStates /\ venue[o].executed \in 0..Size
  BY <1>1 DEF VenueRecords
<1>3. /\ Live(o) => venue[o].executed < Size
      /\ venue[o].state \in {"NONE", "SENT"} => venue[o].executed = 0
  BY DEF Typed, VenueSound
<1> QED
  BY <1>1, <1>2, <1>3, ConstantTypes

VenueTyped == venue \in [Orders -> VenueRecords] /\ VenueSound

(* Replacing one order's record by a sound one. *)
LEMMA VenueReplaced ==
  ASSUME Typed, NEW o, NEW new \in VenueRecords,
         new.state \in {"NEW", "PARTIALLY_FILLED"} => new.executed < Size,
         new.state \in {"NONE", "SENT"} => new.executed = 0,
         venue' = [venue EXCEPT ![o] = new]
  PROVE  VenueTyped'
BY DEF Typed, TypeOK, VenueTyped, VenueSound, Live

LEMMA RecordMoved ==
  ASSUME Typed, NEW o \in Orders, NEW s \in VenueStates \ {"NONE", "SENT"},
         venue' = [venue EXCEPT ![o].state = s],
         s \in {"NEW", "PARTIALLY_FILLED"} => venue[o].executed < Size
  PROVE  VenueTyped'
<1> DEFINE new == [venue[o] EXCEPT !.state = s]
<1>1. venue' = [venue EXCEPT ![o] = new]
  BY DEF Typed, TypeOK
<1>2. new \in VenueRecords /\ new.state = s /\ new.executed = venue[o].executed
  BY RecordOf DEF VenueRecords
<1> HIDE DEF new
<1> QED
  BY <1>1, <1>2, VenueReplaced

LEMMA VenueTypedStep ==
  ASSUME Typed, [Next]_vars
  PROVE  VenueTyped'
<1>1. CASE Send
  <2> DEFINE new == [Unsent EXCEPT !.state = "SENT"]
  <2>1. venue' = [venue EXCEPT ![cycle.order] = new]
    BY <1>1 DEF Send, Dispatch
  <2>2. new \in VenueRecords /\ new.state = "SENT" /\ new.executed = 0
    BY ConstantTypes DEF Unsent, VenueRecords, VenueStates
  <2> HIDE DEF new
  <2> QED
    BY <2>1, <2>2, VenueReplaced
<1>2. ASSUME NEW connected, NEW o \in Orders, Accept(connected, o) PROVE VenueTyped'
  BY <1>2, RecordOf, RecordMoved, ConstantTypes DEF Accept, VenueStates
<1>3. ASSUME NEW o \in Orders, Refuse(o) PROVE VenueTyped'
  <2>1. PICK s \in {"REJECTED", "DROPPED"} : venue' = [venue EXCEPT ![o].state = s]
    BY <1>3 DEF Refuse
  <2> QED
    BY <2>1, RecordMoved DEF VenueStates
<1>4. ASSUME NEW connected, NEW o \in Orders, Trade(connected, o) PROVE VenueTyped'
  <2> DEFINE done == venue[o].executed + 1
             s == IF done = Size THEN "FILLED" ELSE "PARTIALLY_FILLED"
             new == [state |-> s, executed |-> done]
  <2>1. venue' = [venue EXCEPT ![o] = new] /\ Live(o)
    BY <1>4 DEF Trade
  <2>2. done \in 1..Size
    BY <2>1, RecordOf
  <2>3. s = "PARTIALLY_FILLED" => done < Size
    BY <2>2, ConstantTypes
  <2>4. s \in {"PARTIALLY_FILLED", "FILLED"} /\ done \in 0..Size
    BY <2>2, ConstantTypes
  <2> HIDE DEF s, done
  <2>5. new \in VenueRecords /\ new.state = s /\ new.executed = done
    BY <2>4 DEF VenueRecords, VenueStates
  <2> HIDE DEF new
  <2> QED
    BY <2>1, <2>3, <2>4, <2>5, VenueReplaced
<1>5. ASSUME NEW connected, NEW o \in Orders, NEW s \in {"CANCELED", "EXPIRED"},
             Close(connected, o, s)
      PROVE  VenueTyped'
  BY <1>5, RecordMoved DEF Close, VenueStates
<1>6. ASSUME UNCHANGED venue PROVE VenueTyped'
  BY <1>6 DEF Typed, TypeOK, VenueTyped, VenueSound, Live
<1> QED
  BY <1>1, <1>2, <1>3, <1>4, <1>5, <1>6, VenueKinds DEF VenueNext

LEMMA StreamTypedStep ==
  ASSUME Typed, [Next]_vars
  PROVE  stream' \in Seq(Events)
<1>0. stream \in Seq(Events) /\ <<>> \in Seq(Events)
  BY DEF Typed, TypeOK
<1>1. ASSUME NEW connected, NEW o \in Orders, NEW s \in VenueStates, NEW n \in 0..Size,
             Publish(connected, o, s, n)
      PROVE  stream' \in Seq(Events)
  <2> DEFINE e == [order |-> o, status |-> s, trade |-> n]
  <2>1. e \in Events
    BY DEF Events
  <2>2. stream' = Append(stream, e) \/ stream' = stream
    BY <1>1 DEF Publish
  <2> HIDE DEF e
  <2> QED
    BY <1>0, <2>1, <2>2
<1>2. ASSUME NEW connected, NEW o \in Orders, NEW s \in {"CANCELED", "EXPIRED"},
             Close(connected, o, s)
      PROVE  stream' \in Seq(Events)
  <2>1. s \in VenueStates /\ 0 \in 0..Size
    BY ConstantTypes DEF VenueStates
  <2> QED
    BY <1>1, <1>2, <2>1 DEF Close
<1>3. CASE Trading
  <2>1. PICK o \in Orders : \/ Accept(Connected, o) \/ Refuse(o) \/ Trade(Connected, o)
                            \/ Close(Connected, o, "EXPIRED")
    BY <1>3 DEF Trading, VenueNext
  <2>2. CASE Accept(Connected, o)
    <3>1. "NEW" \in VenueStates /\ 0 \in 0..Size
      BY ConstantTypes DEF VenueStates
    <3> QED
      BY <1>1, <2>2, <3>1 DEF Accept
  <2>3. CASE Refuse(o)
    BY <1>0, <2>3 DEF Refuse
  <2>4. CASE Trade(Connected, o)
    <3> DEFINE done == venue[o].executed + 1
               s == IF done = Size THEN "FILLED" ELSE "PARTIALLY_FILLED"
    <3>1. Publish(Connected, o, s, done) /\ Live(o)
      BY <2>4 DEF Trade
    <3>2. done \in 0..Size
      BY <3>1, RecordOf, ConstantTypes
    <3>3. s \in VenueStates
      BY DEF VenueStates
    <3> HIDE DEF done, s
    <3> QED
      BY <1>1, <3>1, <3>2, <3>3
  <2> QED
    BY <1>2, <2>1, <2>2, <2>3, <2>4
<1>4. CASE Main
  <2>1. ASSUME \/ Start \/ Abort \/ BeginCycle \/ EndRun \/ Diff \/ RecordCancel
               \/ EndCancels \/ EndCycle \/ GenerateId \/ Consume \/ Save
               \/ Acknowledged \/ Rejected \/ TimedOut \/ Interrupt \/ Raise
               \/ RecordAck \/ Resolve
        PROVE  UNCHANGED stream
    BY <2>1 DEF Start, Abort, BeginCycle, EndRun, Diff, RecordCancel, EndCancels, EndCycle,
       GenerateId, Consume, Save, Acknowledged, Rejected, TimedOut, Interrupt, Raise,
       RecordAck, Resolve, exchange
  <2>2. ASSUME Send \/ \E l \in Levels : RequestApproval(l) PROVE UNCHANGED stream
    BY <2>2 DEF Send, Dispatch, RequestApproval, exchange
  <2>3. ASSUME NEW o \in Orders, CancelOrder(o) PROVE stream' \in Seq(Events)
    BY <1>0, <1>2, <2>3 DEF CancelOrder, exchange
  <2> QED
    BY <1>0, <1>4, <2>1, <2>2, <2>3 DEF Main
<1>5. CASE Stream
  <2>1. ASSUME BookTrade \/ ReportFill \/ WriteUpdate PROVE UNCHANGED stream
    BY <2>1 DEF BookTrade, ReportFill, WriteUpdate, exchange
  <2>2. ASSUME ReadUpdate PROVE stream' \in Seq(Events)
    BY <1>0, <2>2 DEF ReadUpdate
  <2>3. ASSUME NEW t \in Streams,
               Connect(t) \/ LoseConnection(t) \/ Reconnect(t) \/ Reconciled(t)
        PROVE  stream' = stream \/ stream' = <<>>
    BY <2>3 DEF Connect, LoseConnection, Reconnect, Reconciled, exchange
  <2> QED
    BY <1>0, <1>5, <2>1, <2>2, <2>3 DEF Stream
<1>6. CASE (\E t \in Threads : Reconcile(t)) \/ Restart \/ UNCHANGED vars
  <2>1. stream' = stream \/ stream' = <<>>
    BY <1>6 DEF Reconcile, Restart, vars, exchange
  <2> QED
    BY <1>0, <2>1
<1> QED
  BY <1>3, <1>4, <1>5, <1>6 DEF Next

(***************************************************************************)
(* Threads, their locals and the counters                                  *)
(***************************************************************************)
LEMMA GotoTyped ==
  ASSUME Typed, NEW t \in Threads, NEW label \in Labels, Goto(t, label)
  PROVE  /\ pc' \in [Threads -> Labels]
         /\ pc'[t] = label
         /\ \A x \in Threads : x # t => pc'[x] = pc[x]
BY DEF Typed, TypeOK, Goto

LEMMA MainLabelStep ==
  ASSUME Main, ~Start
  PROVE  UNCHANGED pc \/ \E label \in Labels : Goto("main", label)
<1> USE DEF Labels
<1>1. ASSUME BeginCycle \/ EndRun \/ Diff \/ RecordCancel \/ EndCancels \/ EndCycle \/ Abort
      PROVE  \E label \in Labels : Goto("main", label)
  BY <1>1 DEF BeginCycle, EndRun, Diff, RecordCancel, EndCancels, EndCycle, Abort
<1>2. ASSUME GenerateId \/ Save \/ Send \/ TimedOut \/ Raise \/ RecordAck \/ Acknowledged
      PROVE  \E label \in Labels : Goto("main", label)
  BY <1>2 DEF GenerateId, Save, Send, TimedOut, Raise, RecordAck, Acknowledged
<1>3. ASSUME Consume \/ Rejected \/ Interrupt \/ Resolve
      PROVE  \E label \in Labels : Goto("main", label)
  BY <1>3 DEF Consume, Rejected, Interrupt, Resolve, NextProposal
<1>4. ASSUME NEW o \in Orders, CancelOrder(o)
      PROVE  UNCHANGED pc \/ \E label \in Labels : Goto("main", label)
  BY <1>4 DEF CancelOrder
<1>5. ASSUME NEW l \in Levels, RequestApproval(l)
      PROVE  UNCHANGED pc \/ \E label \in Labels : Goto("main", label)
  BY <1>5 DEF RequestApproval
<1> QED
  BY <1>1, <1>2, <1>3, <1>4, <1>5 DEF Main

LEMMA StreamLabelStep ==
  ASSUME Stream
  PROVE  UNCHANGED pc \/ \E t \in Streams, label \in Labels : Goto(t, label)
<1> USE DEF Labels
<1>1. ASSUME ReadUpdate \/ BookTrade \/ ReportFill \/ WriteUpdate
      PROVE  UNCHANGED pc \/ \E label \in Labels : "user" \in Streams /\ Goto("user", label)
  BY <1>1 DEF ReadUpdate, BookTrade, ReportFill, WriteUpdate, At
<1>2. ASSUME NEW t \in Streams,
             Connect(t) \/ LoseConnection(t) \/ Reconnect(t) \/ Reconciled(t)
      PROVE  \E label \in Labels : Goto(t, label)
  BY <1>2 DEF Connect, LoseConnection, Reconnect, Reconciled
<1> QED
  BY <1>1, <1>2 DEF Stream

LEMMA PcTypedStep ==
  ASSUME Typed, [Next]_vars
  PROVE  pc' \in [Threads -> Labels]
<1>0. pc \in [Threads -> Labels]
  BY DEF Typed, TypeOK
<1>1. CASE Main /\ ~Start
  BY <1>0, <1>1, MainLabelStep, GotoTyped, MainIsNoStream
<1>2. CASE Start \/ Restart
  BY <1>2 DEF Start, Restart, Boot, Labels
<1>3. CASE Stream
  BY <1>0, <1>3, StreamLabelStep, GotoTyped, MainIsNoStream
<1>4. ASSUME NEW t \in Threads, Reconcile(t) PROVE pc' \in [Threads -> Labels]
  <2>1. PICK label \in {"list", "next", "book", "write", "resolved", "failed"} : Goto(t, label)
    BY <1>4, ReconcileLabels DEF Reconcile
  <2> QED
    BY <2>1, GotoTyped DEF Labels
<1>5. CASE Trading \/ UNCHANGED vars
  BY <1>0, <1>5 DEF Trading, vars
<1> QED
  BY <1>1, <1>2, <1>3, <1>4, <1>5 DEF Next

LEMMA CountersStep ==
  ASSUME Typed, [Next]_vars
  PROVE  cycles' \in 0..MaxCycles /\ losses' \in 0..MaxLosses /\ restarts' \in 0..MaxRestarts
<1>0. cycles \in 0..MaxCycles /\ losses \in 0..MaxLosses /\ restarts \in 0..MaxRestarts
  BY DEF Typed, TypeOK
<1>1. \/ UNCHANGED counters
      \/ cycles < MaxCycles /\ cycles' = cycles + 1 /\ UNCHANGED <<losses, restarts>>
      \/ losses < MaxLosses /\ losses' = losses + 1 /\ UNCHANGED <<cycles, restarts>>
      \/ restarts < MaxRestarts /\ restarts' = restarts + 1 /\ cycles' = 0 /\ UNCHANGED losses
  <2>1. ASSUME \/ Start \/ Abort \/ EndRun \/ Diff \/ RecordCancel
               \/ EndCancels \/ EndCycle \/ GenerateId \/ Consume \/ Save \/ Send
               \/ Acknowledged \/ Rejected \/ TimedOut \/ Interrupt \/ Raise
               \/ RecordAck \/ Resolve
        PROVE  UNCHANGED counters
    BY <2>1 DEF Start, Abort, EndRun, Diff, RecordCancel, EndCancels, EndCycle,
       GenerateId, Consume, Save, Send, Acknowledged, Rejected, TimedOut, Interrupt, Raise,
       RecordAck, Resolve
  <2>2. ASSUME \/ \E o \in Orders : CancelOrder(o)
               \/ \E l \in Levels : RequestApproval(l)
        PROVE  UNCHANGED counters
    BY <2>2 DEF CancelOrder, RequestApproval
  <2>3. ASSUME ReadUpdate \/ BookTrade \/ ReportFill \/ WriteUpdate PROVE UNCHANGED counters
    BY <2>3 DEF ReadUpdate, BookTrade, ReportFill, WriteUpdate
  <2>4. ASSUME NEW t \in Streams, Connect(t) \/ Reconnect(t) \/ Reconciled(t)
        PROVE  UNCHANGED counters
    BY <2>4 DEF Connect, Reconnect, Reconciled
  <2>5. ASSUME (\E t \in Threads : Reconcile(t)) \/ Trading \/ UNCHANGED vars
        PROVE  UNCHANGED counters
    BY <2>5 DEF Reconcile, Trading, vars
  <2>6. ASSUME BeginCycle
        PROVE  cycles < MaxCycles /\ cycles' = cycles + 1 /\ UNCHANGED <<losses, restarts>>
    BY <2>6 DEF BeginCycle
  <2>7. ASSUME NEW t \in Streams, LoseConnection(t)
        PROVE  losses < MaxLosses /\ losses' = losses + 1 /\ UNCHANGED <<cycles, restarts>>
    BY <2>7 DEF LoseConnection
  <2>8. ASSUME Restart
        PROVE  restarts < MaxRestarts /\ restarts' = restarts + 1 /\ cycles' = 0 /\ UNCHANGED losses
    BY <2>8 DEF Restart
  <2> QED
    BY <2>1, <2>2, <2>3, <2>4, <2>5, <2>6, <2>7, <2>8 DEF Next, Main, Stream
<1> QED
  BY <1>0, <1>1, ConstantTypes DEF counters

(***************************************************************************)
(* The store                                                               *)
(***************************************************************************)
StoreTyped ==
    /\ intents \in [Orders -> IntentRecords]
    /\ fills \subseteq [kind : {"ws", "unknown", "missing", "active"},
                        order : Orders, trade : 0..Size]

LEMMA MappedTyped == \A s : Mapped(s) \in IntentStatuses \ {"ABSENT"}
BY DEF Mapped, IntentStatuses

LEMMA UpdateTyped ==
  ASSUME StoreTyped, NEW o, NEW s \in IntentStatuses, UpdateIntentStatus(o, s)
  PROVE  StoreTyped'
<1>1. CASE o \in Orders
  <2> DEFINE x == IF HasIntent(o) THEN s ELSE intents[o].status
             new == [intents[o] EXCEPT !.status = x]
  <2>1. intents' = [intents EXCEPT ![o] = new] /\ fills' = fills
    BY <1>1 DEF UpdateIntentStatus, StoreTyped
  <2>2. x \in IntentStatuses /\ intents[o] \in IntentRecords
    BY <1>1 DEF StoreTyped, IntentRecords
  <2> HIDE DEF x
  <2>3. new \in IntentRecords
    BY <2>2 DEF IntentRecords
  <2> HIDE DEF new
  <2> QED
    BY <2>1, <2>3 DEF StoreTyped
<1>2. CASE o \notin Orders
  BY <1>2 DEF UpdateIntentStatus, StoreTyped
<1> QED
  BY <1>1, <1>2

FillIds ==
    [kind : {"ws", "unknown", "missing", "active"}, order : Orders, trade : 0..Size]

LEMMA AddFillTyped ==
  ASSUME StoreTyped, NEW o \in Orders, NEW q \in Nat, NEW id \in FillIds, AddFill(id, o, q)
  PROVE  StoreTyped'
<1>1. CASE UNCHANGED <<intents, fills>>
  BY <1>1 DEF StoreTyped
<1>2. CASE /\ fills' = fills \cup {id}
           /\ intents' = [intents EXCEPT ![o].filled = @ + q]
  <2> DEFINE n == intents[o].filled + q
             new == [intents[o] EXCEPT !.filled = n]
  <2>1. intents' = [intents EXCEPT ![o] = new]
    BY <1>2 DEF StoreTyped
  <2>2. intents[o] \in IntentRecords
    BY DEF StoreTyped
  <2>3. n \in Nat
    BY <2>2 DEF IntentRecords
  <2> HIDE DEF n
  <2>4. new \in IntentRecords
    BY <2>2, <2>3 DEF IntentRecords
  <2> HIDE DEF new
  <2> QED
    BY <1>2, <2>1, <2>4 DEF StoreTyped, FillIds
<1> QED
  BY <1>1, <1>2 DEF AddFill

LEMMA LocalsOf ==
  ASSUME Typed, NEW t \in Threads
  PROVE  /\ rec[t] \in Locals
         /\ rec[t].listing \in [Orders -> VenueRecords]
         /\ rec[t].todo \in SUBSET Orders
         /\ rec[t].filled \in [Orders -> Nat]
         /\ rec[t].order \in Orders \cup {NoOrder}
         /\ rec[t].answer \in VenueRecords
<1>1. rec[t] \in Locals
  BY DEF Typed, TypeOK
<1> QED
  BY <1>1 DEF Locals

LEMMA ReconcileStore ==
  ASSUME Typed, NEW t \in Threads, ResolveState(t)
  PROVE  StoreTyped'
<1>0. StoreTyped
  BY DEF Typed, TypeOK, StoreTyped
<1>1. CASE FetchExchangeState(t) \/ ListIntents(t) \/ EndUnknown(t) \/ EndActive(t)
  BY <1>0, <1>1 DEF FetchExchangeState, ListIntents, EndUnknown, EndActive, Fail, store,
     StoreTyped
<1>2. ASSUME NEW o \in Orders, QueryUnknown(t, o) \/ SyncActive(t, o) PROVE StoreTyped'
  BY <1>0, <1>2 DEF QueryUnknown, SyncActive, TakeUp, Fail, store, StoreTyped
<1>3. CASE BookFill(t)
  <2> DEFINE o == rec[t].order
             executed == rec[t].answer.executed
             known == IF rec[t].phase = "unknown" THEN 0 ELSE rec[t].filled[o]
             q == executed - known
             id == ReconcileFill(t)
  <2>1. o \in Orders
    BY <1>3 DEF BookFill, Typed, RecSound
  <2>2. executed \in Nat /\ known \in Nat
    BY <2>1, LocalsOf, ConstantTypes DEF VenueRecords
  <2>3. UNCHANGED store \/ (executed > known /\ AddFill(id, o, q))
    BY <1>3 DEF BookFill
  <2>4. id \in FillIds
    BY <2>1, ConstantTypes DEF ReconcileFill, FillIds
  <2>5. executed > known => q \in Nat
    BY <2>2
  <2> HIDE DEF o, executed, known, q, id
  <2> QED
    BY <1>0, <2>1, <2>3, <2>4, <2>5, AddFillTyped DEF store, StoreTyped
<1>4. CASE WriteStatus(t)
  <2>1. UpdateIntentStatus(rec[t].order, Mapped(rec[t].answer.state))
    BY <1>4 DEF WriteStatus
  <2> QED
    BY <1>0, <2>1, UpdateTyped, MappedTyped
<1> QED
  BY <1>1, <1>2, <1>3, <1>4 DEF ResolveState

LEMMA StoreTypedStep ==
  ASSUME Typed, [Next]_vars
  PROVE  StoreTyped'
<1>0. StoreTyped
  BY DEF Typed, TypeOK, StoreTyped
<1>1. ASSUME \/ Start \/ Abort \/ BeginCycle \/ EndRun \/ Diff
             \/ EndCancels \/ EndCycle \/ GenerateId \/ Consume \/ Send
             \/ Acknowledged \/ Interrupt \/ Raise \/ Resolve
      PROVE  UNCHANGED store
  BY <1>1 DEF Start, Abort, BeginCycle, EndRun, Diff, EndCancels, EndCycle, GenerateId,
     Consume, Send, Acknowledged, Interrupt, Raise, Resolve
<1>2. ASSUME \/ \E o \in Orders : CancelOrder(o)
             \/ \E l \in Levels : RequestApproval(l)
      PROVE  UNCHANGED store
  BY <1>2 DEF CancelOrder, RequestApproval
<1>3. ASSUME RecordCancel \/ Rejected \/ TimedOut \/ RecordAck
      PROVE  \E o : \E s \in IntentStatuses : UpdateIntentStatus(o, s)
  BY <1>3, MappedTyped DEF RecordCancel, Rejected, TimedOut, RecordAck, IntentStatuses
<1>4. CASE Save
  <2> DEFINE new == [NoIntent EXCEPT !.status = "OPEN"]
  <2>1. intents' = [intents EXCEPT ![cycle.order] = new] /\ fills' = fills
    BY <1>4 DEF Save, SaveIntent
  <2>2. new \in IntentRecords
    BY DEF NoIntent, IntentRecords, IntentStatuses
  <2> HIDE DEF new
  <2> QED
    BY <1>0, <2>1, <2>2 DEF StoreTyped
<1>5. CASE Main
  BY <1>0, <1>1, <1>2, <1>3, <1>4, <1>5, UpdateTyped DEF Main, store, StoreTyped
<1>6. CASE Stream
  <2>1. ASSUME BookTrade PROVE StoreTyped'
    <3> DEFINE id == [kind |-> "ws", order |-> update.order, trade |-> update.trade]
    <3>1. AddFill(id, update.order, 1)
      BY <2>1 DEF BookTrade
    <3>2. update.order \in Orders /\ update.trade \in 1..Size
      BY <2>1 DEF BookTrade, At, Typed, UpdateSound
    <3>3. id \in FillIds
      BY <3>2, ConstantTypes DEF FillIds
    <3> HIDE DEF id
    <3> QED
      BY <1>0, <3>1, <3>2, <3>3, AddFillTyped
  <2>2. ASSUME WriteUpdate PROVE StoreTyped'
    BY <1>0, <2>2, UpdateTyped, MappedTyped DEF WriteUpdate, store, StoreTyped
  <2>3. ASSUME ReadUpdate \/ ReportFill PROVE UNCHANGED store
    BY <2>3 DEF ReadUpdate, ReportFill
  <2>4. ASSUME NEW t \in Streams,
               Connect(t) \/ LoseConnection(t) \/ Reconnect(t) \/ Reconciled(t)
        PROVE  UNCHANGED store
    BY <2>4 DEF Connect, LoseConnection, Reconnect, Reconciled
  <2> QED
    BY <1>0, <1>6, <2>1, <2>2, <2>3, <2>4 DEF Stream, store, StoreTyped
<1>7. ASSUME NEW t \in Threads, Reconcile(t) PROVE StoreTyped'
  BY <1>7, ReconcileStore DEF Reconcile
<1>8. CASE Trading \/ Restart \/ UNCHANGED vars
  BY <1>0, <1>8 DEF Trading, Restart, vars, store, StoreTyped
<1> QED
  BY <1>5, <1>6, <1>7, <1>8 DEF Next

(***************************************************************************)
(* The locals of the user data thread                                      *)
(***************************************************************************)
LEMMA UpdateTypedStep ==
  ASSUME Typed, [Next]_vars
  PROVE  update' \in Updates /\ UpdateSound'
<1> DEFINE Fine == update' \in Updates /\ UpdateSound'
           Later == "user" \in Streams => \/ pc'["user"] = pc["user"]
                                          \/ pc'["user"] \notin {"update", "on_fill"}
<1>0. update \in Updates /\ UpdateSound
  BY DEF Typed, TypeOK
<1>1. ASSUME UNCHANGED update, Later PROVE Fine
  BY <1>0, <1>1 DEF UpdateSound
<1>2. ASSUME NEW t \in Threads, NEW label \in Labels, Goto(t, label),
             t # "user" \/ label \notin {"update", "on_fill"}
      PROVE  Later
  BY <1>2, GotoTyped, MainIsNoStream
<1>3. ASSUME UNCHANGED pc PROVE Later
  BY <1>3
<1>4. NoUpdate \in Updates
  BY ConstantTypes DEF NoUpdate, Updates, VenueStates, IntentStatuses
<1>5. CASE ReadUpdate
  <2> DEFINE e == Head(stream)
             new == [order |-> e.order, status |-> e.status, trade |-> e.trade,
                     known |-> intents[e.order].status]
  <2>1. stream \in Seq(Events) /\ stream # <<>> /\ "user" \in Streams
    BY <1>5 DEF Typed, TypeOK, ReadUpdate, At
  <2>2. e \in Events
    BY <2>1
  <2>3. e.order \in Orders /\ e.status \in VenueStates /\ e.trade \in 0..Size
    BY <2>2 DEF Events
  <2>4. intents[e.order].status \in IntentStatuses
    <3>1. intents[e.order] \in IntentRecords
      BY <2>3 DEF Typed, TypeOK
    <3> QED
      BY <3>1 DEF IntentRecords
  <2>5. new \in Updates
    BY <2>3, <2>4 DEF Updates
  <2>6. CASE UNCHANGED <<update, pc>>
    BY <1>1, <1>3, <2>6
  <2>7. CASE update' = new /\ Goto("user", IF e.trade > 0 THEN "update" ELSE "status")
    <3>1. pc'["user"] = IF e.trade > 0 THEN "update" ELSE "status"
      BY <2>1, <2>7, GotoTyped, MainIsNoStream DEF Labels
    <3>2. update'.order = e.order /\ update'.trade = e.trade
      BY <2>7
    <3>3. e.trade > 0 => e.trade \in 1..Size
      BY <2>3, ConstantTypes
    <3> HIDE DEF e, new
    <3> QED
      BY <2>3, <2>5, <2>7, <3>1, <3>2, <3>3 DEF UpdateSound
  <2> QED
    BY <1>5, <2>6, <2>7 DEF ReadUpdate
<1>6. CASE BookTrade
  <2>1. /\ "user" \in Streams /\ pc["user"] = "update" /\ UNCHANGED update
        /\ \E label \in {"status", "on_fill"} : Goto("user", label)
    BY <1>6 DEF BookTrade, At, locals
  <2>2. update.order \in Orders /\ update.trade \in 1..Size
    BY <1>0, <2>1 DEF UpdateSound
  <2> QED
    BY <1>0, <2>1, <2>2 DEF UpdateSound
<1>7. CASE ReportFill
  BY <1>1, <1>2, <1>7, MainIsNoStream DEF ReportFill, At, locals, Labels
<1>8. CASE WriteUpdate
  <2>1. update' = NoUpdate /\ "user" \in Streams /\ Goto("user", "streaming")
    BY <1>8 DEF WriteUpdate, At
  <2>2. pc'["user"] = "streaming"
    BY <2>1, GotoTyped, MainIsNoStream DEF Labels
  <2> QED
    BY <1>4, <2>1, <2>2 DEF UpdateSound
<1>9. ASSUME NEW t \in Streams,
             Connect(t) \/ LoseConnection(t) \/ Reconnect(t) \/ Reconciled(t)
      PROVE  Fine
  <2>1. UNCHANGED update /\ \E label \in Labels \ {"update", "on_fill"} : Goto(t, label)
    BY <1>9 DEF Connect, LoseConnection, Reconnect, Reconciled, locals, Labels
  <2> QED
    BY <1>1, <1>2, <2>1, MainIsNoStream
<1>10. CASE Main /\ ~Start
  <2>1. UNCHANGED update
    <3>1. ASSUME \/ Abort \/ BeginCycle \/ EndRun \/ Diff \/ RecordCancel
                 \/ EndCancels \/ EndCycle \/ GenerateId \/ Consume \/ Save \/ Send
          PROVE  UNCHANGED update
      BY <3>1 DEF Abort, BeginCycle, EndRun, Diff, RecordCancel, EndCancels, EndCycle,
         GenerateId, Consume, Save, Send, locals
    <3>2. ASSUME \/ Acknowledged \/ Rejected \/ TimedOut \/ Interrupt \/ Raise
                 \/ RecordAck \/ Resolve
          PROVE  UNCHANGED update
      BY <3>2 DEF Acknowledged, Rejected, TimedOut, Interrupt, Raise, RecordAck, Resolve,
         locals
    <3>3. ASSUME \/ \E o \in Orders : CancelOrder(o)
                 \/ \E l \in Levels : RequestApproval(l)
          PROVE  UNCHANGED update
      BY <3>3 DEF CancelOrder, RequestApproval, locals
    <3> QED
      BY <1>10, <3>1, <3>2, <3>3 DEF Main
  <2> QED
    BY <1>1, <1>2, <1>3, <1>10, <2>1, MainLabelStep, StreamsAssumption, MainIsNoStream
<1>11. CASE Start \/ Restart
  <2>1. update' \in {update, NoUpdate}
    BY <1>11 DEF Start, Restart, locals
  <2>2. "user" \in Streams => pc'["user"] \in {"connecting", "off"}
    BY <1>11, MainIsNoStream DEF Start, Restart, Boot
  <2> QED
    BY <1>0, <1>4, <2>1, <2>2 DEF UpdateSound
<1>12. ASSUME NEW t \in Threads, Reconcile(t) PROVE Fine
  <2>1. PICK label \in {"list", "next", "book", "write", "resolved", "failed"} : Goto(t, label)
    BY <1>12, ReconcileLabels DEF Reconcile
  <2> QED
    BY <1>1, <1>2, <1>12, <2>1 DEF Labels, Reconcile
<1>13. CASE Trading \/ UNCHANGED vars
  BY <1>1, <1>3, <1>13 DEF Trading, vars, locals
<1> QED
  BY <1>5, <1>6, <1>7, <1>8, <1>9, <1>10, <1>11, <1>12, <1>13 DEF Next, Stream

(***************************************************************************)
(* The locals of the reconciliations                                       *)
(***************************************************************************)
RecTyped == rec \in [Threads -> Locals] /\ RecSound

(* A thread's locals and its label change together. *)
LEMMA RecReplaced ==
  ASSUME Typed, NEW t \in Threads, NEW r \in Locals, NEW label \in Labels,
         rec' = [rec EXCEPT ![t] = r], Goto(t, label),
         label \in {"book", "write"} => r.order \in Orders
  PROVE  RecTyped'
<1>1. rec \in [Threads -> Locals] /\ RecSound
  BY DEF Typed, TypeOK
<1>2. /\ pc'[t] = label
      /\ \A x \in Threads : x # t => pc'[x] = pc[x]
  BY GotoTyped
<1> QED
  BY <1>1, <1>2 DEF RecTyped, RecSound

LEMMA NoLocalsTyped == NoLocals \in Locals
<1>1. [o \in Orders |-> Unsent] \in [Orders -> VenueRecords]
  BY ConstantTypes DEF Unsent, VenueRecords, VenueStates
<1>2. [o \in Orders |-> 0] \in [Orders -> Nat]
  OBVIOUS
<1>3. Unsent \in VenueRecords
  BY ConstantTypes DEF Unsent, VenueRecords, VenueStates
<1> QED
  BY <1>1, <1>2, <1>3 DEF NoLocals, Locals

LEMMA ReconcileRec ==
  ASSUME Typed, NEW t \in Threads, ResolveState(t)
  PROVE  RecTyped'
<1> USE DEF Labels
<1>0. rec \in [Threads -> Locals] /\ rec[t] \in Locals
  BY DEF Typed, TypeOK
<1>1. ASSUME NEW label \in {"resolved", "failed"}, Return(t, label) PROVE RecTyped'
  BY <1>1, NoLocalsTyped, RecReplaced DEF Return
<1>2. CASE FetchExchangeState(t) /\ Goto(t, "list")
  <2> DEFINE listing == [o \in Orders |-> IF Live(o) THEN venue[o] ELSE Unsent]
             r == [rec[t] EXCEPT !.listing = listing]
  <2>0. Unsent \in VenueRecords
    BY ConstantTypes DEF Unsent, VenueRecords, VenueStates
  <2>1. listing \in [Orders -> VenueRecords]
    BY <2>0, RecordOf
  <2>2. rec' = [rec EXCEPT ![t].listing = listing] \/ Fail(t)
    BY <1>2 DEF FetchExchangeState
  <2> HIDE DEF listing
  <2>3. r \in Locals
    BY <1>0, <2>1 DEF Locals
  <2>4. rec' = [rec EXCEPT ![t].listing = listing] => rec' = [rec EXCEPT ![t] = r]
    BY <1>0
  <2> HIDE DEF r
  <2> QED
    BY <1>1, <1>2, <2>2, <2>3, <2>4, RecReplaced DEF Fail
<1>3. CASE FetchExchangeState(t) /\ Fail(t)
  BY <1>1, <1>3 DEF Fail
<1>4. CASE ListIntents(t)
  <2> DEFINE todo == IF rec[t].phase = "unknown" THEN UnknownIntents ELSE ActiveIntents
             filled == [o \in Orders |-> intents[o].filled]
             r == [rec[t] EXCEPT !.todo = todo, !.filled = filled]
  <2>1. todo \in SUBSET Orders
    BY DEF UnknownIntents, ActiveIntents
  <2>2. filled \in [Orders -> Nat]
    <3>1. \A o \in Orders : intents[o] \in IntentRecords
      BY DEF Typed, TypeOK
    <3> QED
      BY <3>1 DEF IntentRecords
  <2>3. rec' = [rec EXCEPT ![t].todo = todo, ![t].filled = filled] /\ Goto(t, "next")
    BY <1>4 DEF ListIntents
  <2> HIDE DEF todo, filled
  <2>4. r \in Locals
    BY <1>0, <2>1, <2>2 DEF Locals
  <2>5. rec' = [rec EXCEPT ![t] = r]
    BY <1>0, <2>3
  <2> HIDE DEF r
  <2> QED
    BY <2>3, <2>4, <2>5, RecReplaced
<1>5. ASSUME NEW o \in Orders, NEW answer \in VenueRecords, NEW listed \in BOOLEAN,
             TakeUp(t, o, answer, listed)
      PROVE  RecTyped'
  <2> DEFINE todo == rec[t].todo \ {o}
             r == [rec[t] EXCEPT !.todo = todo, !.order = o, !.answer = answer,
                                 !.listed = listed]
  <2>1. todo \in SUBSET Orders
    BY LocalsOf
  <2>2. rec' = [rec EXCEPT ![t] = r] /\ Goto(t, "book")
    BY <1>5 DEF TakeUp
  <2> HIDE DEF todo
  <2>3. r \in Locals /\ r.order = o
    BY <1>0, <2>1 DEF Locals
  <2> HIDE DEF r
  <2> QED
    BY <2>2, <2>3, RecReplaced
<1>6. ASSUME NEW o \in Orders, QueryUnknown(t, o) PROVE RecTyped'
  <2> DEFINE todo == rec[t].todo \ {o}
             entry == IF Live(o) THEN venue[o] ELSE rec[t].listing[o]
             listing == [rec[t].listing EXCEPT ![o] = entry]
             r == [rec[t] EXCEPT !.todo = todo, !.order = o, !.answer = venue[o],
                                 !.listing = listing, !.listed = FALSE]
  <2>1. CASE Goto(t, "book") /\
             rec' = [rec EXCEPT ![t] = [@ EXCEPT
                        !.todo = rec[t].todo \ {o}, !.order = o, !.answer = venue[o],
                        !.listing[o] = IF Live(o) THEN venue[o] ELSE rec[t].listing[o],
                        !.listed = FALSE]]
    <3>1. /\ todo \in SUBSET Orders /\ listing \in [Orders -> VenueRecords]
          /\ venue[o] \in VenueRecords
      BY LocalsOf, RecordOf
    <3>2. rec' = [rec EXCEPT ![t] = r]
      BY <1>0, <2>1 DEF Locals
    <3> HIDE DEF todo, entry, listing
    <3>3. r \in Locals /\ r.order = o
      BY <1>0, <3>1 DEF Locals
    <3> HIDE DEF r
    <3> QED
      BY <2>1, <3>2, <3>3, RecReplaced
  <2>2. CASE TakeUp(t, o, [Unsent EXCEPT !.state = "CANCELED"], FALSE)
    <3>1. [Unsent EXCEPT !.state = "CANCELED"] \in VenueRecords
      BY ConstantTypes DEF Unsent, VenueRecords, VenueStates
    <3> QED
      BY <1>5, <2>2, <3>1
  <2>3. CASE Fail(t)
    BY <1>1, <2>3 DEF Fail
  <2> QED
    BY <1>6, <2>1, <2>2, <2>3 DEF QueryUnknown
<1>7. ASSUME NEW o \in Orders, SyncActive(t, o) PROVE RecTyped'
  <2>1. rec[t].listing[o] \in VenueRecords /\ venue[o] \in VenueRecords
    BY LocalsOf, RecordOf
  <2> QED
    BY <1>1, <1>5, <1>7, <2>1 DEF SyncActive, Fail
<1>8. CASE BookFill(t) \/ WriteStatus(t)
  <2>1. /\ rec' = rec /\ pc[t] \in {"book", "write"}
        /\ Goto(t, IF pc[t] = "book" THEN "write" ELSE "next")
    BY <1>8 DEF BookFill, WriteStatus
  <2>2. rec[t].order \in Orders
    BY <2>1 DEF Typed, RecSound
  <2>3. rec' = [rec EXCEPT ![t] = rec[t]]
    BY <1>0, <2>1
  <2> QED
    BY <1>0, <2>1, <2>2, <2>3, RecReplaced
<1>9. CASE EndUnknown(t)
  <2> DEFINE r == [rec[t] EXCEPT !.phase = "active"]
  <2>1. rec' = [rec EXCEPT ![t] = r] /\ Goto(t, "list")
    BY <1>0, <1>9 DEF EndUnknown
  <2>2. r \in Locals
    BY <1>0 DEF Locals
  <2> HIDE DEF r
  <2> QED
    BY <2>1, <2>2, RecReplaced
<1>10. CASE EndActive(t)
  BY <1>1, <1>10 DEF EndActive
<1> QED
  BY <1>2, <1>3, <1>4, <1>6, <1>7, <1>8, <1>9, <1>10 DEF ResolveState, FetchExchangeState

LEMMA RecTypedStep ==
  ASSUME Typed, [Next]_vars
  PROVE  RecTyped'
<1> DEFINE Elsewhere == \A t \in Threads : pc'[t] = pc[t] \/ pc'[t] \notin {"book", "write"}
           Other == Labels \ {"book", "write"}
<1>0. rec \in [Threads -> Locals] /\ RecSound
  BY DEF Typed, TypeOK
<1>1. ASSUME UNCHANGED rec, Elsewhere PROVE RecTyped'
  BY <1>0, <1>1 DEF RecTyped, RecSound
<1>2. ASSUME NEW t \in Threads, NEW label \in Other, Goto(t, label) PROVE Elsewhere
  BY <1>2, GotoTyped
<1>3. ASSUME UNCHANGED pc PROVE Elsewhere
  BY <1>3
<1>4. CASE Main /\ ~Start
  <2> USE DEF Labels
  <2>1. ASSUME BeginCycle \/ EndRun \/ Diff \/ RecordCancel \/ EndCancels \/ EndCycle \/ Abort
        PROVE  UNCHANGED rec /\ \E label \in Other : Goto("main", label)
    BY <2>1 DEF BeginCycle, EndRun, Diff, RecordCancel, EndCancels, EndCycle, Abort, locals
  <2>2. ASSUME GenerateId \/ Save \/ Send \/ TimedOut \/ Raise \/ RecordAck \/ Acknowledged
        PROVE  UNCHANGED rec /\ \E label \in Other : Goto("main", label)
    BY <2>2 DEF GenerateId, Save, Send, TimedOut, Raise, RecordAck, Acknowledged, locals
  <2>3. ASSUME Consume \/ Rejected \/ Interrupt \/ Resolve
        PROVE  UNCHANGED rec /\ \E label \in Other : Goto("main", label)
    BY <2>3 DEF Consume, Rejected, Interrupt, Resolve, NextProposal
  <2>4. ASSUME NEW o \in Orders, CancelOrder(o)
        PROVE  UNCHANGED rec /\ (UNCHANGED pc \/ \E label \in Other : Goto("main", label))
    BY <2>4 DEF CancelOrder
  <2>5. ASSUME NEW l \in Levels, RequestApproval(l)
        PROVE  UNCHANGED rec /\ (UNCHANGED pc \/ \E label \in Other : Goto("main", label))
    BY <2>5 DEF RequestApproval
  <2>6. UNCHANGED rec /\ (UNCHANGED pc \/ \E label \in Other : Goto("main", label))
    BY <1>4, <2>1, <2>2, <2>3, <2>4, <2>5 DEF Main
  <2> QED
    BY <1>1, <1>2, <1>3, <2>6, MainIsNoStream
<1>5. CASE Stream
  <2> USE DEF Labels
  <2>1. ASSUME ReadUpdate \/ BookTrade \/ ReportFill \/ WriteUpdate
        PROVE  /\ UNCHANGED rec
               /\ UNCHANGED pc \/ \E label \in Other : "user" \in Streams /\ Goto("user", label)
    BY <2>1 DEF ReadUpdate, BookTrade, ReportFill, WriteUpdate, At, locals
  <2>2. ASSUME NEW t \in Streams,
               Connect(t) \/ LoseConnection(t) \/ Reconnect(t) \/ Reconciled(t)
        PROVE  UNCHANGED rec /\ \E label \in Other : Goto(t, label)
    BY <2>2 DEF Connect, LoseConnection, Reconnect, Reconciled, locals
  <2> QED
    BY <1>1, <1>2, <1>3, <1>5, <2>1, <2>2, MainIsNoStream DEF Stream
<1>6. ASSUME NEW t \in Threads, Reconcile(t) PROVE RecTyped'
  BY <1>6, ReconcileRec DEF Reconcile
<1>7. CASE Start
  <2>1. UNCHANGED rec /\ \A t \in Threads : pc'[t] \in {"ready", "connecting"}
    BY <1>7 DEF Start, locals
  <2> QED
    BY <1>1, <2>1
<1>8. CASE Restart
  <2>1. rec' = [t \in Threads |-> NoLocals] /\ \A t \in Threads : pc'[t] \in {"fetch", "off"}
    BY <1>8 DEF Restart, Boot
  <2> QED
    BY <2>1, NoLocalsTyped DEF RecTyped, RecSound
<1>9. CASE Trading \/ UNCHANGED vars
  BY <1>1, <1>3, <1>9 DEF Trading, vars, locals
<1> QED
  BY <1>4, <1>5, <1>6, <1>7, <1>8, <1>9 DEF Next

(***************************************************************************)
(* The locals of the main thread                                           *)
(***************************************************************************)
CycleTyped == cycle \in Cycles /\ CycleSound

LEMMA ShapesOf ==
  ASSUME Typed
  PROVE  Shapes
<1>1. intents \in IntentRows(IntentStatuses \cup Nat)
  <2>1. intents \in [Orders -> IntentRecords]
    BY DEF Typed, TypeOK
  <2>2. \A o \in Orders :
           intents[o] \in [status : IntentStatuses \cup Nat, filled : IntentStatuses \cup Nat]
    BY <2>1 DEF IntentRecords
  <2> QED
    BY <2>1, <2>2 DEF IntentRows
<1>2. venue \in VenueRows(VenueStates \cup (0..Size))
  <2>1. venue \in [Orders -> VenueRecords]
    BY DEF Typed, TypeOK
  <2>2. \A o \in Orders :
           venue[o] \in [state : VenueStates \cup (0..Size), executed : VenueStates \cup (0..Size)]
    BY <2>1 DEF VenueRecords
  <2> QED
    BY <2>1, <2>2 DEF VenueRows
<1>3. \E S : cycle \in CycleRows(S)
  <2> DEFINE S == {cycle.desired, cycle.cancels, cycle.creates, cycle.level, cycle.approval,
                   cycle.order, cycle.answer}
  <2>1. cycle \in Cycles
    BY DEF Typed, TypeOK
  <2>2. cycle \in CycleRows(S)
    BY <2>1 DEF Cycles, CycleRows
  <2> QED
    BY <2>2
<1>4. pc \in [Threads -> Labels]
  BY DEF Typed, TypeOK
<1> QED
  BY <1>1, <1>2, <1>3, <1>4 DEF Shapes, IsCycle

(* Levels that the comparison with the store finds to create have an unused id. *)
LEMMA DiffRoom ==
  ASSUME NEW l \in Levels, \A o \in ActiveIntents : LevelOf(o) # l, NextId(l) \in Orders
  PROVE  Room(l)
<1> SUFFICES ASSUME ~Room(l) PROVE FALSE
  OBVIOUS
<1> DEFINE Used == {o \in Orders : LevelOf(o) = l /\ intents[o].status \in Terminal}
           All == {l} \X (0..MaxGenerations - 1)
<1>1. \A o \in Orders : LevelOf(o) = l => o \in Used
  BY DEF Room, ActiveIntents
<1>2. Used = All
  <2>1. \A o \in All : o \in Orders /\ LevelOf(o) = l
    BY OrdersAssumption DEF LevelOf
  <2>2. ASSUME NEW o \in Used PROVE o \in All
    <3>1. o \in Orders /\ LevelOf(o) = l
      OBVIOUS
    <3>2. \E k \in 0..MaxGenerations - 1 : o = <<l, k>>
      BY <3>1, OrderOfLevel
    <3> QED
      BY <3>2
  <2> QED
    BY <1>1, <2>1, <2>2
<1>3. MaxGenerations \in Nat /\ 0 \in Int /\ MaxGenerations - 1 \in Int
  BY ConstantTypes
<1>4. /\ IsFiniteSet(0..MaxGenerations - 1)
      /\ Cardinality(0..MaxGenerations - 1)
            = IF 0 > MaxGenerations - 1 THEN 0 ELSE (MaxGenerations - 1) - 0 + 1
  BY <1>3, FS_Interval
<1>5. IsFiniteSet({l}) /\ Cardinality({l}) = 1
  BY FS_Singleton
<1>6. Cardinality(All) = 1 * Cardinality(0..MaxGenerations - 1)
  BY <1>4, <1>5, FS_Product
<1>7. Cardinality(All) = MaxGenerations
  BY <1>3, <1>4, <1>6
<1>8. NextId(l) = <<l, Cardinality(Used)>>
  BY DEF NextId
<1>9. NextId(l) = <<l, MaxGenerations>>
  BY <1>2, <1>7, <1>8
<1> HIDE DEF Used, All
<1>10. MaxGenerations \in 0..MaxGenerations - 1
  BY <1>9, OrdersAssumption
<1> QED
  BY <1>3, <1>10

(* No step but Save uses up an id. *)
LEMMA RoomStays ==
  ASSUME Typed, [Next]_vars, ~Save, NEW l, Room(l)
  PROVE  Room(l)'
BY ShapesOf, StoreStep DEF Room

LEMMA CycleFields ==
  ASSUME Typed
  PROVE  /\ cycle \in Cycles /\ cycle.desired \in SUBSET Levels
         /\ cycle.cancels \in SUBSET Orders /\ cycle.creates \in SUBSET Levels
         /\ cycle.approval \in 0..MaxApprovals /\ cycle.order \in Orders \cup {NoOrder}
         /\ cycle.level \in Levels \cup {NoLevel} /\ cycle.answer \in VenueStates
<1>1. cycle \in Cycles
  BY DEF Typed, TypeOK
<1> QED
  BY <1>1 DEF Cycles

\* The labels at which nothing is said of main's order.
Idle == Labels \ (InHand \cup {"approved"})

(* Where main has nothing in hand, only its levels matter. *)
LEMMA IdleCycle ==
  ASSUME Typed, [Next]_vars, ~Save, cycle' \in Cycles, pc'["main"] \in Idle,
         cycle'.creates \subseteq cycle.creates
  PROVE  CycleTyped'
<1>1. \A l \in cycle'.creates : Room(l)'
  BY RoomStays DEF Typed, CycleSound
<1> QED
  BY <1>1 DEF CycleTyped, CycleSound, Idle, InHand

LEMMA NoCycleTyped ==
  /\ NoCycle \in Cycles /\ NoCycle.creates = {}
  /\ \A d \in SUBSET Levels : /\ [NoCycle EXCEPT !.desired = d] \in Cycles
                              /\ [NoCycle EXCEPT !.desired = d].creates = {}
  /\ \A c \in SUBSET Levels : /\ [NoCycle EXCEPT !.creates = c] \in Cycles
                              /\ [NoCycle EXCEPT !.creates = c].creates = c
  /\ \A u \in SUBSET Orders, c \in SUBSET Levels :
        /\ [NoCycle EXCEPT !.cancels = u, !.creates = c] \in Cycles
        /\ [NoCycle EXCEPT !.cancels = u, !.creates = c].creates = c
<1>1. NoCycle \in Cycles /\ NoCycle.creates = {}
  BY ConstantTypes DEF NoCycle, Cycles, VenueStates
<1>2. ASSUME NEW c \in SUBSET Levels
      PROVE  /\ [NoCycle EXCEPT !.desired = c] \in Cycles
             /\ [NoCycle EXCEPT !.desired = c].creates = {}
             /\ [NoCycle EXCEPT !.creates = c] \in Cycles
             /\ [NoCycle EXCEPT !.creates = c].creates = c
  BY <1>1 DEF Cycles
<1>3. ASSUME NEW u \in SUBSET Orders, NEW c \in SUBSET Levels
      PROVE  /\ [NoCycle EXCEPT !.cancels = u, !.creates = c] \in Cycles
             /\ [NoCycle EXCEPT !.cancels = u, !.creates = c].creates = c
  BY <1>1 DEF Cycles
<1> QED
  BY <1>1, <1>2, <1>3

LEMMA NextProposalTyped ==
  ASSUME Typed, [Next]_vars, ~Save, NextProposal
  PROVE  CycleTyped'
<1>1. cycle' = [NoCycle EXCEPT !.creates = cycle.creates] /\ Goto("main", "create")
  BY DEF NextProposal
<1>2. pc'["main"] = "create"
  BY <1>1, GotoTyped, MainIsNoStream DEF Labels
<1>3. cycle' \in Cycles /\ cycle'.creates = cycle.creates
  BY <1>1, CycleFields, NoCycleTyped
<1> QED
  BY <1>2, <1>3, IdleCycle DEF Idle, InHand, Labels

LEMMA CycleTypedStep ==
  ASSUME Typed, [Next]_vars
  PROVE  CycleTyped'
<1>0. cycle \in Cycles /\ CycleSound /\ "main" \in Threads
  BY MainIsNoStream DEF Typed, TypeOK
<1>1. ASSUME NEW label \in Labels, Goto("main", label) PROVE pc'["main"] = label
  BY <1>1, GotoTyped, MainIsNoStream
<1>2. ASSUME ~Save, UNCHANGED cycle, pc'["main"] = pc["main"] PROVE CycleTyped'
  <2>1. \A l : Room(l) => Room(l)'
    BY <1>2, RoomStays
  <2> QED
    BY <1>0, <1>2, <2>1 DEF CycleTyped, CycleSound
<1>3. CASE Start
  <2>1. UNCHANGED cycle /\ pc'["main"] = "ready" /\ pc["main"] = "resolved"
    BY <1>3, MainIsNoStream DEF Start, locals
  <2>2. ~Save
    BY <2>1 DEF Save
  <2> QED
    BY <1>0, <2>1, <2>2, IdleCycle DEF Idle, InHand, Labels
<1>4. CASE Abort \/ EndRun \/ EndCancels \/ EndCycle \/ Raise
  <2>1. PICK label \in {"exited", "create", "ready"} : Goto("main", label)
    BY <1>4 DEF Abort, EndRun, EndCancels, EndCycle, Raise
  <2>2. UNCHANGED cycle /\ pc["main"] # "save"
    BY <1>4 DEF Abort, EndRun, EndCancels, EndCycle, Raise, locals
  <2>3. pc'["main"] = label /\ ~Save
    BY <1>1, <2>1, <2>2 DEF Labels, Save
  <2> QED
    BY <1>0, <2>2, <2>3, IdleCycle DEF Idle, InHand, Labels
<1>5. CASE BeginCycle
  <2>1. PICK d \in SUBSET Levels : cycle' = [NoCycle EXCEPT !.desired = d]
    BY <1>5 DEF BeginCycle
  <2>2. pc'["main"] = "diff" /\ ~Save
    BY <1>1, <1>5 DEF BeginCycle, Labels, Save
  <2>3. cycle' \in Cycles /\ cycle'.creates = {}
    BY <2>1, NoCycleTyped
  <2> QED
    BY <2>2, <2>3, IdleCycle DEF Idle, InHand, Labels
<1>6. CASE Diff
  <2> DEFINE u == {o \in ActiveIntents : LevelOf(o) \notin cycle.desired}
             c == {l \in cycle.desired : /\ \A o \in ActiveIntents : LevelOf(o) # l
                                         /\ NextId(l) \in Orders}
             new == [NoCycle EXCEPT !.cancels = u, !.creates = c]
  <2>1. cycle' = new /\ pc'["main"] = "cancel" /\ UNCHANGED intents
    BY <1>1, <1>6 DEF Diff, Labels, store
  <2>2. u \in SUBSET Orders /\ c \in SUBSET Levels
    BY CycleFields DEF ActiveIntents
  <2>3. \A l \in c : Room(l)
    BY <2>2, DiffRoom
  <2> HIDE DEF u, c
  <2>4. new \in Cycles /\ new.creates = c
    BY <2>2, NoCycleTyped
  <2> HIDE DEF new
  <2>5. \A l \in cycle'.creates : Room(l)'
    BY <2>1, <2>3, <2>4 DEF Room, HasIntent
  <2> QED
    BY <2>1, <2>4, <2>5 DEF CycleTyped, CycleSound, InHand
<1>7. ASSUME NEW o \in Orders, CancelOrder(o) PROVE CycleTyped'
  <2> DEFINE u == cycle.cancels \ {o}
  <2>1. /\ pc["main"] = "cancel"
        /\ \/ cycle' = [cycle EXCEPT !.cancels = u, !.order = o] /\ Goto("main", "canceled")
           \/ cycle' = [cycle EXCEPT !.cancels = u] /\ UNCHANGED pc
    BY <1>7 DEF CancelOrder
  <2>2. u \in SUBSET Orders
    BY CycleFields
  <2>3. ~Save
    BY <2>1 DEF Save
  <2> HIDE DEF u
  <2>4. cycle' \in Cycles /\ cycle'.creates = cycle.creates
    BY <1>0, <2>1, <2>2 DEF Cycles
  <2>5. pc'["main"] \in {"canceled", "cancel"}
    BY <1>1, <2>1 DEF Labels
  <2> QED
    BY <2>3, <2>4, <2>5, IdleCycle DEF Idle, InHand, Labels
<1>8. CASE RecordCancel
  <2>1. cycle' = [cycle EXCEPT !.order = NoOrder] /\ pc'["main"] = "cancel" /\ ~Save
    BY <1>1, <1>8 DEF RecordCancel, Labels, Save
  <2>2. cycle' \in Cycles /\ cycle'.creates = cycle.creates
    BY <1>0, <2>1 DEF Cycles
  <2> QED
    BY <2>1, <2>2, IdleCycle DEF Idle, InHand, Labels
<1>9. ASSUME NEW l \in Levels, RequestApproval(l) PROVE CycleTyped'
  <2> DEFINE c == cycle.creates \ {l}
             a == next_approval_id
  <2>1. pc["main"] = "create" /\ ~Save /\ l \in cycle.creates
    BY <1>9 DEF RequestApproval, Save
  <2>2. c \in SUBSET Levels
    BY CycleFields
  <2>3. CASE cycle' = [cycle EXCEPT !.creates = c] /\ UNCHANGED pc
    <3> HIDE DEF c
    <3>1. cycle' \in Cycles /\ cycle'.creates = c
      BY <1>0, <2>2, <2>3 DEF Cycles
    <3> QED
      BY <2>1, <2>3, <3>1, IdleCycle DEF c, Idle, InHand, Labels
  <2>4. CASE /\ Risk!RequestApproval(Size)
             /\ cycle' = [cycle EXCEPT !.creates = c, !.level = l, !.approval = a]
             /\ Goto("main", "approved")
    <3>1. a \in 0..MaxApprovals /\ a # 0
      <4>1. a \in 1..MaxApprovals + 1
        BY DEF Typed, TypeOK, Risk!TypeOK
      <4>2. a <= MaxApprovals
        BY <2>4 DEF Risk!RequestApproval
      <4> QED
        BY <4>1, <4>2, ConstantTypes
    <3>2. pc'["main"] = "approved"
      BY <1>1, <2>4 DEF Labels
    <3>3. \A k \in cycle.creates : Room(k)'
      BY <1>0, <2>1, RoomStays DEF CycleSound
    <3> HIDE DEF a
    <3>4. /\ cycle' \in Cycles /\ cycle'.creates = c
          /\ cycle'.level = l /\ cycle'.approval = a
      <4> HIDE DEF c
      <4> QED
        BY <1>0, <2>2, <2>4, <3>1 DEF Cycles
    <3> QED
      BY <2>1, <3>1, <3>2, <3>3, <3>4 DEF CycleTyped, CycleSound, InHand
  <2> QED
    BY <1>9, <2>3, <2>4 DEF RequestApproval
<1>10. CASE GenerateId
  <2> DEFINE o == NextId(cycle.level)
  <2>1. /\ pc["main"] = "approved" /\ cycle' = [cycle EXCEPT !.order = o] /\ ~Save
        /\ pc'["main"] \in {"discard", "consume"}
    BY <1>1, <1>10 DEF GenerateId, Labels, Save
  <2>2. o \in Orders /\ LevelOf(o) = cycle.level
    BY <1>0, <2>1, NextIdExists DEF CycleSound
  <2> HIDE DEF o
  <2>3. /\ cycle' \in Cycles /\ cycle'.creates = cycle.creates /\ cycle'.order = o
        /\ cycle'.level = cycle.level /\ cycle'.approval = cycle.approval
    BY <1>0, <2>1, <2>2 DEF Cycles
  <2>4. \A k \in cycle.creates : Room(k)'
    BY <1>0, <2>1, RoomStays DEF CycleSound
  <2> QED
    BY <1>0, <2>1, <2>2, <2>3, <2>4 DEF CycleTyped, CycleSound, InHand
<1>11. CASE Consume
  <2>1. pc["main"] \in {"consume", "discard"} /\ ~Save
    BY <1>11 DEF Consume, Save
  <2>2. CASE Goto("main", "save") /\ UNCHANGED cycle
    <3>1. pc'["main"] = "save"
      BY <1>1, <2>2 DEF Labels
    <3>2. \A k \in cycle.creates : Room(k)'
      BY <1>0, <2>1, RoomStays DEF CycleSound
    <3> QED
      BY <1>0, <2>1, <2>2, <3>1, <3>2 DEF CycleTyped, CycleSound, InHand
  <2> QED
    BY <1>11, <2>1, <2>2, NextProposalTyped DEF Consume
<1>12. CASE Save
  <2>1. pc["main"] = "save" /\ pc'["main"] = "send" /\ UNCHANGED cycle /\ SaveIntent(cycle.order)
    BY <1>1, <1>12 DEF Save, Labels, locals
  <2>2. ASSUME NEW l \in cycle.creates PROVE Room(l)'
    <3>1. PICK o \in Orders : LevelOf(o) = l /\ ~HasIntent(o)
      BY <1>0 DEF CycleSound, Room
    <3>2. o # cycle.order
      BY <1>0, <2>1, <3>1 DEF CycleSound
    <3>3. intents'[o] = intents[o]
      BY <2>1, <3>2 DEF SaveIntent, Typed, TypeOK
    <3> QED
      BY <3>1, <3>3 DEF Room, HasIntent
  <2> QED
    BY <1>0, <2>1, <2>2 DEF CycleTyped, CycleSound, InHand
<1>13. CASE Send \/ TimedOut \/ RecordAck
  <2>1. PICK label \in {"wait", "interrupt", "resolve"} : Goto("main", label)
    BY <1>13 DEF Send, TimedOut, RecordAck
  <2>2. pc'["main"] = label
    BY <1>1, <2>1 DEF Labels
  <2>3. UNCHANGED cycle /\ pc["main"] \in {"send", "wait", "ack"} /\ ~Save
    BY <1>13 DEF Send, TimedOut, RecordAck, locals, Save
  <2>4. \A k \in cycle.creates : Room(k)'
    BY <1>0, <2>3, RoomStays DEF CycleSound
  <2> QED
    BY <1>0, <2>2, <2>3, <2>4 DEF CycleTyped, CycleSound, InHand
<1>14. CASE Acknowledged
  <2>1. PICK s \in {"NEW", venue[cycle.order].state} : cycle' = [cycle EXCEPT !.answer = s]
    BY <1>14 DEF Acknowledged
  <2>2. pc["main"] = "wait" /\ pc'["main"] = "ack" /\ ~Save /\ Found(cycle.order)
    BY <1>1, <1>14 DEF Acknowledged, Labels, Save
  <2>3. s \in VenueStates
    BY <2>1, <2>2 DEF Found, VenueStates
  <2>4. cycle' \in Cycles /\ cycle'.creates = cycle.creates /\ cycle'.order = cycle.order
    BY <1>0, <2>1, <2>3 DEF Cycles
  <2>5. \A k \in cycle.creates : Room(k)'
    BY <1>0, <2>2, RoomStays DEF CycleSound
  <2> QED
    BY <1>0, <2>2, <2>4, <2>5 DEF CycleTyped, CycleSound, InHand
<1>15. CASE Rejected \/ Interrupt \/ Resolve
  <2>1. NextProposal /\ ~Save
    BY <1>15 DEF Rejected, Interrupt, Resolve, Save
  <2> QED
    BY <2>1, NextProposalTyped
<1>16. CASE Main
  BY <1>3, <1>4, <1>5, <1>6, <1>7, <1>8, <1>9, <1>10, <1>11, <1>12, <1>13, <1>14, <1>15,
     <1>16 DEF Main
<1>17. CASE Stream
  <2>1. UNCHANGED cycle
    BY <1>17, StreamLabels
  <2>2. pc'["main"] = pc["main"]
    BY <1>17, StreamLabelStep, GotoTyped, MainIsNoStream
  <2>3. Save => pc'["main"] = "send" /\ pc["main"] = "save"
    BY <1>1 DEF Save, Labels
  <2> QED
    BY <1>2, <2>1, <2>2, <2>3
<1>18. ASSUME NEW t \in Threads, Reconcile(t) PROVE CycleTyped'
  <2>1. PICK label \in {"list", "next", "book", "write", "resolved", "failed"} : Goto(t, label)
    BY <1>18, ReconcileLabels DEF Reconcile
  <2>2. UNCHANGED cycle
    BY <1>18 DEF Reconcile
  <2>3. pc'[t] = label /\ (t # "main" => pc'["main"] = pc["main"])
    BY <2>1, GotoTyped, MainIsNoStream DEF Labels
  <2>4. ~Save
    BY <1>1, <2>3 DEF Save, Labels
  <2>5. CASE t = "main"
    BY <1>0, <2>2, <2>3, <2>4, <2>5, IdleCycle DEF Idle, InHand, Labels
  <2> QED
    BY <1>2, <2>2, <2>3, <2>4, <2>5
<1>19. CASE Trading \/ UNCHANGED vars
  <2>1. UNCHANGED <<cycle, pc>>
    BY <1>19 DEF Trading, vars, locals
  <2>2. ~Save
    BY <1>1, <2>1 DEF Save, Labels
  <2> QED
    BY <1>2, <2>1, <2>2
<1>20. CASE Restart
  <2>1. cycle' = NoCycle /\ pc'["main"] = "fetch"
    BY <1>20, MainIsNoStream DEF Restart, Boot
  <2>2. ~Save
    BY <1>1, <2>1 DEF Save, Labels
  <2> QED
    BY <2>1, <2>2, NoCycleTyped, IdleCycle DEF Idle, InHand, Labels
<1> QED
  BY <1>16, <1>17, <1>18, <1>19, <1>20 DEF Next

(***************************************************************************)
(* Every variable keeps its type                                           *)
(***************************************************************************)
LEMMA TypedInit == Init => Typed
<1> SUFFICES ASSUME Init PROVE Typed
  OBVIOUS
<1>1. Risk!TypeOK
  BY ConstantTypes DEF Init, Risk!Fresh, Risk!TypeOK, Risk!SystemStates, Risk!Approvals, Risk!Absent,
     Risk!OrderRecords, Risk!OrderStates, Risk!NotConfirmed, Risk!ApprovalStatuses
<1>2. Unsent \in VenueRecords /\ venue \in [Orders -> VenueRecords] /\ VenueSound
  BY ConstantTypes DEF Init, Unsent, VenueRecords, VenueStates, VenueSound, Live
<1>3. intents \in [Orders -> IntentRecords]
  BY DEF Init, NoIntent, IntentRecords, IntentStatuses
<1>4. pc \in [Threads -> {"fetch", "off"}]
  BY DEF Init, Boot
<1>5. pc \in [Threads -> Labels]
  BY <1>4 DEF Labels
<1>6. rec \in [Threads -> Locals]
  BY NoLocalsTyped DEF Init
<1>7. cycle \in Cycles /\ cycle.creates = {}
  BY NoCycleTyped DEF Init
<1>8. update \in Updates
  BY ConstantTypes DEF Init, NoUpdate, Updates, VenueStates, IntentStatuses
<1>9. stream \in Seq(Events)
  BY DEF Init
<1>10. cycles \in 0..MaxCycles /\ losses \in 0..MaxLosses /\ restarts \in 0..MaxRestarts
  BY ConstantTypes DEF Init
<1>11. TypeOK
  BY <1>1, <1>2, <1>3, <1>5, <1>6, <1>7, <1>8, <1>9, <1>10 DEF Init, TypeOK
<1>12. UpdateSound /\ RecSound /\ CycleSound
  BY <1>4, <1>7, MainIsNoStream DEF UpdateSound, RecSound, CycleSound, InHand, Threads
<1> QED
  BY <1>2, <1>11, <1>12 DEF Typed

LEMMA TypedStep == Typed /\ [Next]_vars => Typed'
<1> SUFFICES ASSUME Typed, [Next]_vars PROVE Typed'
  OBVIOUS
<1>1. Risk!TypeOK'
  BY StateStep, LedgerStep, LedgerTypedIs DEF Typed, Risk!TypeOK, LedgerTyped, Risk!Approvals
<1>2. VenueTyped' /\ StoreTyped' /\ RecTyped' /\ CycleTyped'
  BY VenueTypedStep, StoreTypedStep, RecTypedStep, CycleTypedStep
<1>3. stream' \in Seq(Events) /\ update' \in Updates /\ UpdateSound' /\ pc' \in [Threads -> Labels]
  BY StreamTypedStep, UpdateTypedStep, PcTypedStep
<1>4. cycles' \in 0..MaxCycles /\ losses' \in 0..MaxLosses /\ restarts' \in 0..MaxRestarts
  BY CountersStep
<1>5. TypeOK'
  BY <1>1, <1>2, <1>3, <1>4 DEF TypeOK, VenueTyped, StoreTyped, RecTyped, CycleTyped
<1> QED
  BY <1>2, <1>3, <1>5 DEF Typed, VenueTyped, RecTyped, CycleTyped

(* Every variable of the bot, its store, its engine and the exchange keeps its type: an id
   that main submits exists, and what is booked is a trade of an order. *)
THEOREM BotTypeCorrect == Spec => []TypeOK
<1>1. Typed => TypeOK
  BY DEF Typed
<1> QED
  BY <1>1, TypedInit, TypedStep, PTL DEF Spec

(***************************************************************************)
(* What the engine counts                                                  *)
(***************************************************************************)
LEMMA TablesOf ==
  ASSUME Typed, Counted
  PROVE  /\ current_position \in Int /\ reservations \in Int
         /\ registry \in [1..MaxApprovals -> Nat] /\ orders \in [Orders -> Risk!OrderRecords]
         /\ FilledPart \in [Orders -> Nat] /\ HeldPart \in [Orders -> Nat]
         /\ Total(registry) \in Nat /\ Total(FilledPart) \in Nat /\ Total(HeldPart) \in Nat
<1>1. LedgerTyped
  BY LedgerTypedIs DEF Typed, TypeOK
<1>2. /\ current_position \in Int /\ reservations \in Int
      /\ registry \in [1..MaxApprovals -> Nat] /\ orders \in [Orders -> Risk!OrderRecords]
  BY <1>1 DEF LedgerTyped
<1>3. ASSUME NEW o \in Orders
      PROVE  orders[o].filled \in Nat /\ orders[o].initial - orders[o].filled \in Nat
  <2>1. orders[o].filled \in Nat /\ orders[o].initial \in Nat
    BY <1>2 DEF Risk!OrderRecords
  <2>2. orders[o].filled <= orders[o].initial
    BY DEF Counted, Sized
  <2> QED
    BY <2>1, <2>2
<1>4. FilledPart \in [Orders -> Nat] /\ HeldPart \in [Orders -> Nat]
  BY <1>3 DEF FilledPart, HeldPart
<1> QED
  BY <1>2, <1>4, ConstantTypes, TotalIsNat

(* Replacing one order's record moves the sums by what it changes. *)
LEMMA RowReplaced ==
  ASSUME Typed, Counted, NEW o \in Orders, NEW r \in Risk!OrderRecords, Sized(r),
         orders' = [orders EXCEPT ![o] = r]
  PROVE  /\ \A p \in Orders : Sized(orders'[p])
         /\ Total(FilledPart') = Total(FilledPart) - orders[o].filled + r.filled
         /\ Total(HeldPart') = Total(HeldPart) - (orders[o].initial - orders[o].filled)
                                               + (r.initial - r.filled)
<1>1. orders \in [Orders -> Risk!OrderRecords]
  BY TablesOf
<1>2. orders'[o] = r /\ \A p \in Orders \ {o} : orders'[p] = orders[p]
  BY <1>1
<1>3. \A p \in Orders : Sized(orders'[p])
  BY <1>2 DEF Counted
<1>4. r.filled \in Nat /\ r.initial \in Nat /\ r.filled <= r.initial
  BY DEF Risk!OrderRecords, Sized
<1> DEFINE f == FilledPart
           g == [p \in Orders |-> orders'[p].filled]
           h == HeldPart
           k == [p \in Orders |-> orders'[p].initial - orders'[p].filled]
<1>5. FilledPart' = g /\ HeldPart' = k
  BY DEF FilledPart, HeldPart
<1>6. /\ f \in [Orders -> Nat] /\ f[o] = orders[o].filled
      /\ h \in [Orders -> Nat] /\ h[o] = orders[o].initial - orders[o].filled
  BY TablesOf DEF FilledPart, HeldPart
<1>7. \A p \in Orders \ {o} : g[p] = f[p] /\ k[p] = h[p]
  BY <1>2 DEF FilledPart, HeldPart
<1>8. g[o] = r.filled /\ k[o] = r.initial - r.filled
  BY <1>2
<1>9. r.initial - r.filled \in Nat
  BY <1>4
<1> HIDE DEF f, h
<1>10. \A p \in Orders : g[p] \in Nat /\ k[p] \in Nat
  <2>1. ASSUME NEW p \in Orders \ {o} PROVE g[p] \in Nat /\ k[p] \in Nat
    <3>1. g[p] = f[p] /\ k[p] = h[p] /\ f[p] \in Nat /\ h[p] \in Nat
      BY <1>6, <1>7
    <3> HIDE DEF g, k
    <3> QED
      BY <3>1
  <2> HIDE DEF g, k
  <2> QED
    BY <1>4, <1>8, <1>9, <2>1
<1>11. g \in [Orders -> Nat] /\ k \in [Orders -> Nat]
  BY <1>10
<1> HIDE DEF g, k
<1>12. IsFiniteSet(Orders)
  BY ConstantTypes
<1>13. Total(g) = Total(f) - f[o] + g[o]
  <2>1. f \in [Orders -> Nat] /\ g \in [Orders -> Nat] /\ \A p \in Orders \ {o} : g[p] = f[p]
    BY <1>6, <1>7, <1>11
  <2> QED
    BY <1>12, <2>1, TotalUpdate
<1>14. Total(k) = Total(h) - h[o] + k[o]
  <2>1. h \in [Orders -> Nat] /\ k \in [Orders -> Nat] /\ \A p \in Orders \ {o} : k[p] = h[p]
    BY <1>6, <1>7, <1>11
  <2> QED
    BY <1>12, <2>1, TotalUpdate
<1>15. Total(FilledPart) = Total(f) /\ Total(HeldPart) = Total(h)
  BY DEF f, h
<1> QED
  BY <1>3, <1>5, <1>6, <1>8, <1>13, <1>14, <1>15

\* An order's record is settled: it stays counted, and what was executed moves over.
Settled(o, r) ==
    /\ r \in Risk!OrderRecords /\ r.state \notin {"ABSENT", "CANCELED"}
    /\ Risk!Known(o)
    /\ r.initial = orders[o].initial /\ r.filled <= r.initial
    /\ orders' = [orders EXCEPT ![o] = r]
    /\ current_position' = current_position + (r.filled - orders[o].filled)
    /\ reservations' = reservations - (r.filled - orders[o].filled)
    /\ UNCHANGED registry

(* An answer that is not a cancel settles nothing but the order's state. *)
LEMMA ResolveSettles ==
  ASSUME Accounted, Resolve, Risk!ResolveOrder(cycle.order, Mapped(cycle.answer), 0)
  PROVE  \/ UNCHANGED <<current_position, reservations, registry, orders>>
         \/ \E r : Settled(cycle.order, r)
<1> DEFINE o == cycle.order
           r == orders[o]
<1>1. o \in Orders /\ cycle.answer # "CANCELED"
  BY DEF Accounted, Submitted, Typed, CycleSound, InHand, Resolve
<1>2. Mapped(cycle.answer) # "CANCELED"
  BY <1>1 DEF Mapped
<1>3. orders \in [Orders -> Risk!OrderRecords] /\ current_position \in Int /\ reservations \in Int
  BY TablesOf DEF Accounted
<1>4. r \in Risk!OrderRecords /\ r.filled \in Nat /\ r.initial \in Nat /\ r.filled <= r.initial
  BY <1>1, <1>3 DEF Risk!OrderRecords, Accounted, Counted, Sized
<1>5. r.state = "UNKNOWN" /\ UNCHANGED registry
  BY DEF Risk!ResolveOrder
<1>6. \/ UNCHANGED <<orders, current_position, reservations>>
      \/ /\ orders' = [orders EXCEPT ![o] = Risk!FilledAt(r, 0)]
         /\ current_position' = current_position + 0
         /\ reservations' = reservations - 0
      \/ /\ orders' = [orders EXCEPT ![o] = [r EXCEPT !.state = "OPEN"]]
         /\ UNCHANGED <<current_position, reservations>>
  <2>1. Risk!Unseen(r, 0) = 0
    BY <1>4, RecordTypes
  <2> QED
    BY <1>1, <1>2, <1>3, <2>1 DEF Risk!ResolveOrder, Risk!ledger
<1>7. Risk!FilledAt(r, 0) = [r EXCEPT !.state = "FILLED"]
  BY <1>4, RecordTypes
<1>8. ASSUME NEW s \in {"FILLED", "OPEN"},
             orders' = [orders EXCEPT ![o] = [r EXCEPT !.state = s]],
             UNCHANGED <<current_position, reservations>>
      PROVE  \E new : Settled(o, new)
  <2> DEFINE new == [r EXCEPT !.state = s]
  <2>1. new \in Risk!OrderRecords /\ new.state = s /\ new.initial = r.initial /\ new.filled = r.filled
    <3>1. s \in Risk!OrderStates
      BY DEF Risk!OrderStates
    <3> QED
      BY <1>4, <3>1 DEF Risk!OrderRecords
  <2>2. r.filled - r.filled = 0
    BY <1>4
  <2> HIDE DEF new
  <2>3. orders' = [orders EXCEPT ![o] = new]
    BY <1>8 DEF new
  <2>4. current_position' = current_position + 0 /\ reservations' = reservations - 0
    BY <1>3, <1>8
  <2>5. Settled(o, new)
    BY <1>4, <1>5, <2>1, <2>2, <2>3, <2>4 DEF Settled, Risk!Known
  <2> QED
    BY <2>5
<1>9. CASE UNCHANGED <<orders, current_position, reservations>>
  BY <1>5, <1>9
<1>10. CASE /\ orders' = [orders EXCEPT ![o] = Risk!FilledAt(r, 0)]
            /\ current_position' = current_position + 0
            /\ reservations' = reservations - 0
  <2>1. UNCHANGED <<current_position, reservations>>
    BY <1>3, <1>10
  <2> QED
    BY <1>7, <1>8, <1>10, <2>1
<1> QED
  BY <1>6, <1>8, <1>9, <1>10

(* A fill moves one lot from what the order holds to the position, or nothing. *)
LEMMA FillSettles ==
  ASSUME Accounted, ReportFill,
         NEW f, \/ Risk!OnFill(update.order, f, 1)
                \/ Risk!OnLateFill(update.order, f, 1)
                \/ Risk!OnOverFill(update.order, f, 1)
  PROVE  \/ UNCHANGED <<current_position, reservations, registry, orders>>
         \/ \E r : Settled(update.order, r)
<1> DEFINE o == update.order
           r == orders[o]
           new == Risk!Filled(r, 1)
<1>1. o \in Orders
  BY DEF Accounted, ReportFill, At, Typed, UpdateSound
<1>2. orders \in [Orders -> Risk!OrderRecords] /\ current_position \in Int /\ reservations \in Int
  BY TablesOf DEF Accounted
<1>3. r \in Risk!OrderRecords /\ r.filled \in Nat /\ r.initial \in Nat /\ r.seen \in Nat
  BY <1>1, <1>2 DEF Risk!OrderRecords
<1>4. r.state # "CANCELED"
  BY <1>1 DEF Accounted, Counted, Sized
<1>5. CASE Risk!OnOverFill(o, f, 1)
  BY <1>5 DEF Risk!OnOverFill, Risk!ledger, Risk!approvals
<1>6. CASE Risk!OnFill(o, f, 1)
  <2>1. /\ orders' = [orders EXCEPT ![o] = new]
        /\ current_position' = current_position + 1 /\ reservations' = reservations - 1
        /\ UNCHANGED registry /\ Risk!Known(o) /\ ~(r.filled + 1 > r.initial)
    BY <1>6 DEF Risk!OnFill, Risk!NewFill, Risk!OverFills
  <2>2. new \in Risk!OrderRecords
    BY <1>3, RecordTypes
  <2>3. /\ new.filled = r.filled + 1 /\ new.initial = r.initial
        /\ new.state \in {"FILLED", "PARTIALLY_FILLED"}
    <3> DEFINE s == IF r.filled + 1 >= r.initial THEN "FILLED" ELSE "PARTIALLY_FILLED"
               n == r.filled + 1
               m == r.seen + 1
    <3>1. new = [r EXCEPT !.filled = n, !.seen = m, !.state = s]
      BY DEF Risk!Filled
    <3>2. s \in {"FILLED", "PARTIALLY_FILLED"}
      OBVIOUS
    <3>3. new.filled = n /\ new.initial = r.initial /\ new.state = s
      <4> HIDE DEF n, m, s, new
      <4> QED
        BY <1>3, <3>1 DEF Risk!OrderRecords
    <3> QED
      BY <3>2, <3>3
  <2> HIDE DEF new
  <2>4. new.filled <= new.initial /\ new.filled - r.filled = 1
    BY <1>3, <2>1, <2>3
  <2>5. Settled(o, new)
    BY <2>1, <2>2, <2>3, <2>4 DEF Settled
  <2> QED
    BY <2>5
<1>7. ~Risk!OnLateFill(o, f, 1)
  BY <1>4 DEF Risk!OnLateFill
<1> QED
  BY <1>5, <1>6, <1>7

\* An approval's record is dropped.
Dropped(a) ==
    /\ a \in 1..MaxApprovals
    /\ registry' = [registry EXCEPT ![a] = 0]
    /\ current_position' = current_position

(* What a step of the bot does to the amounts the engine counts. *)
LEMMA AmountKinds ==
  ASSUME Accounted, [Next]_vars
  PROVE  \/ UNCHANGED <<current_position, reservations, registry, orders>>
         \/ Restart /\ Risk!Renew
         \/ Risk!RequestApproval(Size)
         \/ \E a : Dropped(a) /\ reservations' = reservations - registry[a] /\ UNCHANGED orders
         \/ \E a : /\ Dropped(a) /\ registry[a] = Size /\ UNCHANGED reservations
                   /\ cycle.order \in Orders /\ ~Risk!Known(cycle.order)
                   /\ orders' = [orders EXCEPT ![cycle.order] = Risk!NewOrder(Size)]
         \/ \E o \in Orders : \E r : Settled(o, r)
<1>1. CASE UNCHANGED ledger
  BY <1>1 DEF ledger
<1>2. Consume => cycle.approval \in 1..MaxApprovals /\ cycle.order \in Orders
  <2>1. Consume => pc["main"] \in {"consume", "discard"}
    BY DEF Consume
  <2>2. cycle.approval \in 0..MaxApprovals
    BY CycleFields DEF Accounted
  <2> QED
    BY <2>1, <2>2, ConstantTypes DEF Accounted, Typed, CycleSound, InHand
<1>3. CASE Consume /\ Risk!ConsumeAndSubmit(cycle.approval, cycle.order, TRUE)
  <2> DEFINE a == cycle.approval
  <2>1. /\ registry' = [registry EXCEPT ![a] = 0] /\ registry[a] > 0
        /\ UNCHANGED <<current_position, reservations>> /\ ~Risk!Known(cycle.order)
        /\ orders' = [orders EXCEPT ![cycle.order] = Risk!NewOrder(registry[a])]
    BY <1>3 DEF Risk!ConsumeAndSubmit, Risk!Consumable, Risk!Submittable, Risk!DropRecord,
       Risk!ledger
  <2>2. registry[a] = Size
    BY <1>2, <1>3, <2>1 DEF Accounted, Counted
  <2> QED
    BY <1>2, <1>3, <2>1, <2>2 DEF Dropped
<1>4. CASE /\ Consume
           /\ \/ Risk!ConsumeWhileUnknown(cycle.approval, TRUE)
              \/ Risk!ConsumeRejected(cycle.approval, cycle.order, TRUE)
  <2>1. Risk!RejectApproval(cycle.approval, TRUE, "REJECTED")
    BY <1>4 DEF Risk!ConsumeWhileUnknown, Risk!ConsumeRejected
  <2> QED
    BY <1>2, <1>4, <2>1 DEF Dropped, Risk!RejectApproval, Risk!DropRecord
<1>5. CASE Resolve /\ Risk!ResolveOrder(cycle.order, Mapped(cycle.answer), 0)
  <2>1. cycle.order \in Orders
    BY <1>5 DEF Resolve, Accounted, Typed, CycleSound, InHand
  <2> QED
    BY <1>5, <2>1, ResolveSettles
<1>6. CASE /\ ReportFill
           /\ \/ Risk!OnFill(update.order, <<update.order, update.trade>>, 1)
              \/ Risk!OnLateFill(update.order, <<update.order, update.trade>>, 1)
              \/ Risk!OnOverFill(update.order, <<update.order, update.trade>>, 1)
  <2>1. update.order \in Orders
    BY <1>6 DEF Accounted, ReportFill, At, Typed, UpdateSound
  <2> QED
    BY <1>6, <2>1, FillSettles
<1> QED
  BY <1>1, <1>3, <1>4, <1>5, <1>6, LedgerKinds

(* Changing one approval's record moves the sum of the reservations by what it changes. *)
LEMMA RecordReplaced ==
  ASSUME Typed, Counted, NEW a \in 1..MaxApprovals, NEW n \in {0, Size},
         registry' = [registry EXCEPT ![a] = n]
  PROVE  /\ \A b \in 1..MaxApprovals : registry'[b] \in {0, Size}
         /\ Total(registry') = Total(registry) - registry[a] + n
<1>1. registry \in [1..MaxApprovals -> Nat] /\ registry' \in [1..MaxApprovals -> Nat]
  BY TablesOf, ConstantTypes
<1>2. registry'[a] = n /\ \A b \in (1..MaxApprovals) \ {a} : registry'[b] = registry[b]
  BY <1>1
<1>3. IsFiniteSet(1..MaxApprovals)
  BY ConstantTypes
<1>4. Total(registry') = Total(registry) - registry[a] + registry'[a]
  <2> DEFINE S == 1..MaxApprovals
             g == registry'
  <2>1. /\ registry \in [S -> Nat] /\ g \in [S -> Nat] /\ a \in S /\ IsFiniteSet(S)
        /\ \A b \in S \ {a} : g[b] = registry[b]
    BY <1>1, <1>2, <1>3
  <2> HIDE DEF S, g
  <2>2. Total(g) = Total(registry) - registry[a] + g[a]
    BY <2>1, TotalUpdate
  <2> QED
    BY <2>2 DEF g
<1> QED
  BY <1>2, <1>4 DEF Counted

LEMMA CountedStep ==
  ASSUME Accounted, [Next]_vars
  PROVE  Counted'
<1>0. Typed /\ Counted
  BY DEF Accounted
<1>1. /\ current_position \in Int /\ reservations \in Int /\ Limit \in Nat
      /\ Size \in Nat /\ Size > 0
      /\ Total(registry) \in Nat /\ Total(FilledPart) \in Nat /\ Total(HeldPart) \in Nat
  BY <1>0, TablesOf, ConstantTypes
<1>2. /\ current_position = Total(FilledPart)
      /\ reservations >= Total(registry) + Total(HeldPart)
      /\ current_position + reservations <= Limit
      /\ \A a \in 1..MaxApprovals : registry[a] \in {0, Size}
      /\ \A o \in Orders : Sized(orders[o])
  BY <1>0 DEF Counted
<1>3. ASSUME \A a \in 1..MaxApprovals : registry'[a] \in {0, Size},
             \A o \in Orders : Sized(orders'[o]),
             current_position' = Total(FilledPart'),
             reservations' >= Total(registry') + Total(HeldPart'),
             current_position' + reservations' <= Limit
      PROVE  Counted'
  BY <1>3 DEF Counted, Sized
<1>4. ASSUME UNCHANGED orders PROVE FilledPart' = FilledPart /\ HeldPart' = HeldPart
  BY <1>4 DEF FilledPart, HeldPart
<1>5. CASE UNCHANGED <<current_position, reservations, registry, orders>>
  BY <1>2, <1>3, <1>4, <1>5
<1>6. CASE Risk!Renew
  <2>1. /\ current_position' = 0 /\ reservations' = 0
        /\ registry' = [a \in 1..MaxApprovals |-> 0]
        /\ orders' = [o \in Orders |-> Risk!Absent]
    BY <1>6 DEF Risk!Renew, Risk!Approvals
  <2>2. Risk!Absent.state = "ABSENT" /\ Risk!Absent.initial = 0 /\ Risk!Absent.filled = 0
    BY DEF Risk!Absent
  <2>3. \A o \in Orders : Sized(orders'[o])
    BY <2>1, <2>2 DEF Sized
  <2>4. FilledPart' = [o \in Orders |-> 0] /\ HeldPart' = [o \in Orders |-> 0]
    BY <2>1, <2>2 DEF FilledPart, HeldPart
  <2>5. Total(registry') = 0 /\ Total(FilledPart') = 0 /\ Total(HeldPart') = 0
    BY <2>1, <2>4, TotalOfZeros
  <2> QED
    BY <1>1, <1>3, <2>1, <2>3, <2>5
<1>7. CASE Risk!RequestApproval(Size)
  <2> DEFINE a == next_approval_id
  <2>1. /\ a <= MaxApprovals /\ Limit - (current_position + reservations) >= Size
        /\ reservations' = reservations + Size
        /\ registry' = [registry EXCEPT ![a] = Size]
        /\ UNCHANGED <<current_position, orders>>
    BY <1>7 DEF Risk!RequestApproval, Risk!Grants, Risk!AvailableCapacity, Risk!Exposure
  <2>2. a \in 1..MaxApprovals
    <3>1. a \in 1..MaxApprovals + 1
      BY <1>0 DEF Typed, TypeOK, Risk!TypeOK
    <3> QED
      BY <2>1, <3>1, ConstantTypes
  <2> HIDE DEF a
  <2>3. /\ \A b \in 1..MaxApprovals : registry'[b] \in {0, Size}
        /\ Total(registry') = Total(registry) - registry[a] + Size
        /\ registry[a] \in Nat
    BY <1>0, <2>1, <2>2, RecordReplaced, TablesOf
  <2>4. /\ reservations' >= Total(registry') + Total(HeldPart)
        /\ current_position' + reservations' <= Limit
    BY <1>1, <1>2, <2>1, <2>3
  <2> QED
    BY <1>2, <1>3, <1>4, <2>1, <2>3, <2>4
<1>8. ASSUME NEW a, Dropped(a), reservations' = reservations - registry[a], UNCHANGED orders
      PROVE  Counted'
  <2>1. a \in 1..MaxApprovals /\ current_position' = current_position
    BY <1>8 DEF Dropped
  <2>2. /\ \A b \in 1..MaxApprovals : registry'[b] \in {0, Size}
        /\ Total(registry') = Total(registry) - registry[a] + 0
        /\ registry[a] \in Nat
    BY <1>0, <1>8, RecordReplaced, TablesOf DEF Dropped
  <2>3. /\ reservations' >= Total(registry') + Total(HeldPart)
        /\ current_position' + reservations' <= Limit
    BY <1>1, <1>2, <1>8, <2>1, <2>2
  <2> QED
    BY <1>2, <1>3, <1>4, <1>8, <2>1, <2>2, <2>3
<1>9. ASSUME NEW a, Dropped(a), registry[a] = Size, UNCHANGED reservations,
             cycle.order \in Orders, ~Risk!Known(cycle.order),
             orders' = [orders EXCEPT ![cycle.order] = Risk!NewOrder(Size)]
      PROVE  Counted'
  <2> DEFINE o == cycle.order
             r == Risk!NewOrder(Size)
  <2>1. a \in 1..MaxApprovals /\ current_position' = current_position
    BY <1>9 DEF Dropped
  <2>2. /\ r \in Risk!OrderRecords /\ r.state = "UNKNOWN" /\ r.initial = Size /\ r.filled = 0
    BY <1>1 DEF Risk!NewOrder, Risk!Absent, Risk!OrderRecords, Risk!OrderStates, Risk!NotConfirmed
  <2>3. Sized(r)
    BY <1>1, <2>2 DEF Sized
  <2>4. orders[o].initial = 0 /\ orders[o].filled = 0
    <3>1. orders[o].filled \in Nat
      BY <1>0, <1>9, TablesOf DEF Risk!OrderRecords
    <3> QED
      BY <1>2, <1>9, <3>1 DEF Sized, Risk!Known
  <2> HIDE DEF r
  <2>5. /\ \A p \in Orders : Sized(orders'[p])
        /\ Total(FilledPart') = Total(FilledPart) - 0 + 0
        /\ Total(HeldPart') = Total(HeldPart) - (0 - 0) + (Size - 0)
    BY <1>0, <1>9, <2>2, <2>3, <2>4, RowReplaced DEF r
  <2>6. /\ \A b \in 1..MaxApprovals : registry'[b] \in {0, Size}
        /\ Total(registry') = Total(registry) - Size + 0
    BY <1>0, <1>9, RecordReplaced DEF Dropped
  <2>7. /\ current_position' = Total(FilledPart')
        /\ reservations' >= Total(registry') + Total(HeldPart')
        /\ current_position' + reservations' <= Limit
    BY <1>1, <1>2, <1>9, <2>1, <2>5, <2>6
  <2> QED
    BY <1>3, <2>5, <2>6, <2>7
<1>10. ASSUME NEW o \in Orders, NEW r, Settled(o, r) PROVE Counted'
  <2>1. /\ r \in Risk!OrderRecords /\ Sized(r) /\ r.initial = orders[o].initial
        /\ orders' = [orders EXCEPT ![o] = r]
        /\ registry' = registry
    BY <1>2, <1>10 DEF Settled, Sized, Risk!Known
  <2>2. /\ \A p \in Orders : Sized(orders'[p])
        /\ Total(FilledPart') = Total(FilledPart) - orders[o].filled + r.filled
        /\ Total(HeldPart') = Total(HeldPart) - (orders[o].initial - orders[o].filled)
                                              + (r.initial - r.filled)
    BY <1>0, <2>1, RowReplaced
  <2>3. /\ r.initial \in Nat /\ r.filled \in Nat /\ orders[o].filled \in Nat
    BY <1>0, <2>1, TablesOf DEF Risk!OrderRecords
  <2>4. /\ current_position' = current_position + (r.filled - orders[o].filled)
        /\ reservations' = reservations - (r.filled - orders[o].filled)
    BY <1>10 DEF Settled
  <2>5. /\ current_position' = Total(FilledPart')
        /\ reservations' >= Total(registry) + Total(HeldPart')
        /\ current_position' + reservations' <= Limit
    BY <1>1, <1>2, <2>1, <2>2, <2>3, <2>4
  <2> QED
    BY <1>2, <1>3, <2>1, <2>2, <2>5
<1> QED
  BY <1>5, <1>6, <1>7, <1>8, <1>9, <1>10, AmountKinds

(***************************************************************************)
(* What the engine knows                                                   *)
(***************************************************************************)
(* A process never forgets an order. *)
LEMMA KnownStays ==
  ASSUME Accounted, [Next]_vars, ~Restart, NEW p \in Orders, Risk!Known(p)
  PROVE  Risk!Known(p)'
<1>1. orders \in [Orders -> Risk!OrderRecords]
  BY TablesOf DEF Accounted
<1>2. CASE UNCHANGED orders
  BY <1>2 DEF Risk!Known
<1>3. ASSUME NEW o \in Orders, NEW r, r.state # "ABSENT", orders' = [orders EXCEPT ![o] = r]
      PROVE  Risk!Known(p)'
  BY <1>1, <1>3 DEF Risk!Known
<1>4. Risk!NewOrder(Size).state = "UNKNOWN"
  BY DEF Risk!NewOrder, Risk!Absent
<1>5. CASE Risk!RequestApproval(Size)
  BY <1>2, <1>5 DEF Risk!RequestApproval
<1> QED
  BY <1>2, <1>3, <1>4, <1>5, AmountKinds DEF Settled

(* main waits only for an order that it has just sent. *)
LEMMA WaitStep ==
  ASSUME Typed, [Next]_vars, pc'["main"] = "wait"
  PROVE  Send \/ (pc["main"] = "wait" /\ cycle' = cycle)
<1>1. ASSUME NEW label \in Labels, Goto("main", label) PROVE label = "wait"
  BY <1>1, GotoTyped, MainIsNoStream
<1> USE DEF Labels
<1>2. ASSUME BeginCycle \/ EndRun \/ Diff \/ RecordCancel \/ EndCancels \/ EndCycle \/ Abort
      PROVE  FALSE
  BY <1>1, <1>2 DEF BeginCycle, EndRun, Diff, RecordCancel, EndCancels, EndCycle, Abort
<1>3. ASSUME GenerateId \/ Save \/ TimedOut \/ Raise \/ RecordAck \/ Acknowledged PROVE FALSE
  BY <1>1, <1>3 DEF GenerateId, Save, TimedOut, Raise, RecordAck, Acknowledged
<1>4. ASSUME Consume \/ Rejected \/ Interrupt \/ Resolve PROVE FALSE
  BY <1>1, <1>4 DEF Consume, Rejected, Interrupt, Resolve, NextProposal
<1>5. ASSUME NEW o \in Orders, CancelOrder(o) PROVE FALSE
  BY <1>1, <1>5 DEF CancelOrder
<1>6. ASSUME NEW l \in Levels, RequestApproval(l) PROVE FALSE
  BY <1>1, <1>6 DEF RequestApproval
<1>7. ASSUME Start \/ Restart PROVE FALSE
  BY <1>7, MainIsNoStream DEF Start, Restart, Boot
<1>8. CASE Main
  BY <1>2, <1>3, <1>4, <1>5, <1>6, <1>7, <1>8 DEF Main
<1>9. CASE Stream
  BY <1>9, StreamLabels, StreamLabelStep, GotoTyped, MainIsNoStream
<1>10. ASSUME NEW t \in Threads, Reconcile(t) PROVE pc["main"] = "wait" /\ cycle' = cycle
  <2>1. PICK label \in {"list", "next", "book", "write", "resolved", "failed"} : Goto(t, label)
    BY <1>10, ReconcileLabels DEF Reconcile
  <2> QED
    BY <1>10, <2>1, GotoTyped, MainIsNoStream DEF Reconcile
<1>11. CASE Trading \/ UNCHANGED vars
  BY <1>11 DEF Trading, vars, locals
<1> QED
  BY <1>7, <1>8, <1>9, <1>10, <1>11 DEF Next

(* Only main cancels, between its submissions. *)
LEMMA CanceledStep ==
  ASSUME Typed, [Next]_vars, pc["main"] # "cancel", NEW o \in Orders,
         venue'[o].state = "CANCELED"
  PROVE  venue[o].state = "CANCELED"
<1>1. venue \in [Orders -> VenueRecords] /\ venue[o].state \in VenueStates
  BY RecordOf DEF Typed, TypeOK
<1>2. ASSUME NEW p \in Orders, NEW s, s # "CANCELED", venue' = [venue EXCEPT ![p].state = s]
      PROVE  venue[o].state = "CANCELED"
  <2> DEFINE new == [venue[p] EXCEPT !.state = s]
  <2>1. venue' = [venue EXCEPT ![p] = new]
    BY <1>1, <1>2
  <2>2. new.state = s
    BY <1>1 DEF VenueRecords
  <2> HIDE DEF new
  <2> QED
    BY <1>1, <1>2, <2>1, <2>2
<1>3. CASE Send
  <2> DEFINE new == [Unsent EXCEPT !.state = "SENT"]
  <2>1. venue' = [venue EXCEPT ![cycle.order] = new] /\ new.state = "SENT"
    BY <1>3 DEF Send, Dispatch, Unsent
  <2> HIDE DEF new
  <2> QED
    BY <1>1, <2>1
<1>4. ASSUME NEW connected, NEW p \in Orders,
             Accept(connected, p) \/ Refuse(p) \/ Close(connected, p, "EXPIRED")
      PROVE  venue[o].state = "CANCELED"
  BY <1>2, <1>4 DEF Accept, Refuse, Close
<1>5. ASSUME NEW connected, NEW p \in Orders, Trade(connected, p)
      PROVE  venue[o].state = "CANCELED"
  <2> DEFINE done == venue[p].executed + 1
             s == IF done = Size THEN "FILLED" ELSE "PARTIALLY_FILLED"
             new == [state |-> s, executed |-> done]
  <2>1. venue' = [venue EXCEPT ![p] = new] /\ new.state # "CANCELED"
    BY <1>5 DEF Trade
  <2> HIDE DEF new
  <2> QED
    BY <1>1, <2>1
<1>6. CASE UNCHANGED venue
  BY <1>6
<1> QED
  BY <1>3, <1>4, <1>5, <1>6, VenueKinds DEF VenueNext

LEMMA SubmittedStep ==
  ASSUME Accounted, [Next]_vars
  PROVE  Submitted'
<1>0. Typed /\ Submitted /\ Shapes /\ restarts \in Nat
  <2>1. restarts \in 0..MaxRestarts
    BY DEF Accounted, Typed, TypeOK
  <2> QED
    BY <2>1, ShapesOf, ConstantTypes DEF Accounted
<1>1. CASE Restart
  <2>1. pc'["main"] = "fetch" /\ restarts' = restarts + 1
    BY <1>1, MainIsNoStream DEF Restart, Boot
  <2>2. restarts' # 0
    BY <1>0, <2>1
  <2> QED
    BY <2>1, <2>2 DEF Submitted
<1>2. CASE ~Restart
  <2>1. restarts' = 0 => \A o \in Orders : venue'[o].state # "NONE" => Risk!Known(o)'
    <3>1. SUFFICES ASSUME restarts' = 0, NEW o \in Orders, venue'[o].state # "NONE"
                   PROVE  Risk!Known(o)'
      OBVIOUS
    <3>2. restarts = 0
      BY <1>2, <3>1, RestartsStep
    <3>3. CASE Send /\ o = cycle.order
      <4>1. Risk!Known(o)
        BY <1>0, <3>3 DEF Submitted, Send
      <4> QED
        BY <1>2, <4>1, KnownStays
    <3>4. CASE venue[o].state # "NONE"
      BY <1>0, <1>2, <3>2, <3>4, KnownStays DEF Submitted
    <3> QED
      BY <1>0, <3>1, <3>3, <3>4, VenueStep
  <2>2. pc'["main"] \in MainLabels =>
            \/ GenerateId \/ Consume \/ Save \/ Acknowledged \/ RecordAck
            \/ pc'["main"] = pc["main"] /\ cycle' = cycle
    BY <1>0, ControlStep
  <2>3. pc'["main"] \in {"save", "send"} => Risk!Known(cycle.order)'
    <3>1. SUFFICES ASSUME pc'["main"] \in {"save", "send"} PROVE Risk!Known(cycle.order)'
      OBVIOUS
    <3>2. \/ Consume \/ Save
          \/ pc'["main"] = pc["main"] /\ cycle' = cycle
      BY <1>0, <2>2, <3>1, ForwardEffect DEF MainLabels
    <3>3. CASE pc["main"] \in {"save", "send"} /\ cycle' = cycle
      <4>1. cycle.order \in Orders /\ Risk!Known(cycle.order)
        BY <1>0, <3>3 DEF Typed, CycleSound, InHand, Submitted
      <4>2. ASSUME NEW o \in Orders, Risk!Known(o) PROVE Risk!Known(o)'
        BY <1>2, <4>2, KnownStays
      <4> QED
        BY <3>3, <4>1, <4>2 DEF Risk!Known
    <3>4. CASE Consume
      <4>1. /\ pc["main"] = "consume" /\ cycle' = cycle
            /\ Risk!ConsumeAndSubmit(cycle.approval, cycle.order, TRUE)
        BY <1>0, <3>1, <3>4, ForwardEffect
      <4>2. cycle.order \in Orders /\ orders \in [Orders -> Risk!OrderRecords]
        BY <1>0, <4>1, TablesOf DEF Typed, CycleSound, InHand, Accounted
      <4>3. orders' = [orders EXCEPT ![cycle.order] = Risk!NewOrder(registry[cycle.approval])]
        BY <4>1 DEF Risk!ConsumeAndSubmit
      <4>4. Risk!NewOrder(registry[cycle.approval]).state = "UNKNOWN"
        BY DEF Risk!NewOrder, Risk!Absent
      <4> QED
        BY <4>1, <4>2, <4>3, <4>4 DEF Risk!Known
    <3> QED
      BY <1>0, <3>1, <3>2, <3>3, <3>4, ForwardEffect
  <2>4. pc'["main"] = "wait" => venue'[cycle'.order].state # "CANCELED"
    <3>1. SUFFICES ASSUME pc'["main"] = "wait" PROVE venue'[cycle'.order].state # "CANCELED"
      OBVIOUS
    <3>2. CASE Send
      <4>1. cycle' = cycle /\ cycle.order \in Orders
        BY <1>0, <3>2 DEF Send, locals, Typed, CycleSound, InHand
      <4>2. venue' = [venue EXCEPT ![cycle.order] = [Unsent EXCEPT !.state = "SENT"]]
        BY <3>2 DEF Send, Dispatch
      <4> QED
        BY <1>0, <4>1, <4>2 DEF Typed, TypeOK, Unsent
    <3>3. CASE pc["main"] = "wait" /\ cycle' = cycle
      <4>1. cycle.order \in Orders /\ venue[cycle.order].state # "CANCELED"
        BY <1>0, <3>3 DEF Typed, CycleSound, InHand, Submitted
      <4> QED
        BY <1>0, <3>3, <4>1, CanceledStep
    <3> QED
      BY <1>0, <3>1, <3>2, <3>3, WaitStep
  <2>5. pc'["main"] \in {"ack", "resolve"} => cycle'.answer # "CANCELED"
    <3>1. SUFFICES ASSUME pc'["main"] \in {"ack", "resolve"} PROVE cycle'.answer # "CANCELED"
      OBVIOUS
    <3>2. Acknowledged \/ RecordAck \/ (pc'["main"] = pc["main"] /\ cycle' = cycle)
      BY <1>0, <2>2, <3>1, ForwardEffect DEF MainLabels
    <3>3. CASE Acknowledged
      <4>1. PICK s \in {"NEW", venue[cycle.order].state} : cycle' = [cycle EXCEPT !.answer = s]
        BY <3>3 DEF Acknowledged
      <4>2. venue[cycle.order].state # "CANCELED"
        BY <1>0, <3>3 DEF Acknowledged, Submitted
      <4>3. cycle \in Cycles
        BY <1>0, CycleFields
      <4>4. cycle'.answer = s
        BY <4>1, <4>3 DEF Cycles
      <4> QED
        BY <4>1, <4>2, <4>4
    <3> QED
      BY <1>0, <3>1, <3>2, <3>3, ForwardEffect DEF Submitted
  <2> QED
    BY <2>1, <2>3, <2>4, <2>5 DEF Submitted
<1> QED
  BY <1>1, <1>2

(***************************************************************************)
(* The engine covers the exchange                                          *)
(***************************************************************************)
LEMMA AccountedInit == Init => Accounted
<1> SUFFICES ASSUME Init PROVE Accounted
  OBVIOUS
<1>1. Typed
  BY TypedInit
<1>2. /\ current_position = 0 /\ reservations = 0
      /\ registry = [a \in 1..MaxApprovals |-> 0] /\ orders = [o \in Orders |-> Risk!Absent]
  BY DEF Init, Risk!Fresh, Risk!Approvals
<1>3. Risk!Absent.state = "ABSENT" /\ Risk!Absent.initial = 0 /\ Risk!Absent.filled = 0
  BY DEF Risk!Absent
<1>4. \A o \in Orders : Sized(orders[o])
  <2>1. Sized(Risk!Absent)
    BY <1>3 DEF Sized
  <2> QED
    BY <1>2, <2>1
<1>5. FilledPart = [o \in Orders |-> 0] /\ HeldPart = [o \in Orders |-> 0]
  BY <1>2, <1>3 DEF FilledPart, HeldPart
<1>6. Total(registry) = 0 /\ Total(FilledPart) = 0 /\ Total(HeldPart) = 0
  BY <1>2, <1>5, TotalOfZeros
<1>7. Counted
  BY <1>2, <1>4, <1>6, ConstantTypes DEF Counted
<1>8. Submitted
  BY MainIsNoStream DEF Init, Boot, Unsent, Submitted
<1> QED
  BY <1>1, <1>7, <1>8 DEF Accounted

LEMMA AccountedStep == Accounted /\ [Next]_vars => Accounted'
BY TypedStep, CountedStep, SubmittedStep DEF Accounted

(* An order that the exchange has is counted with its whole size, and every other order
   is at no risk. *)
LEMMA Covers == Accounted => EngineCoversVenue
<1> SUFFICES ASSUME Accounted, restarts = 0
             PROVE  VenueRisk <= Risk!Exposure /\ Risk!Exposure <= Limit
  BY DEF EngineCoversVenue
<1> DEFINE v == [o \in Orders |-> AtRisk(o)]
           w == [o \in Orders |-> orders[o].initial]
           f == FilledPart
           h == HeldPart
<1>1. Typed /\ Counted /\ Submitted
  BY DEF Accounted
<1>2. ASSUME NEW o \in Orders
      PROVE  /\ AtRisk(o) \in Nat /\ orders[o].initial \in Nat
             /\ AtRisk(o) <= orders[o].initial
  <2>1. venue[o].executed \in 0..Size /\ venue[o] \in VenueRecords
    BY <1>1, RecordOf
  <2>2. AtRisk(o) \in Nat /\ AtRisk(o) <= Size
    BY <2>1, ConstantTypes DEF AtRisk
  <2>3. Sized(orders[o])
    BY <1>1 DEF Counted
  <2>4. CASE Risk!Known(o)
    BY <2>2, <2>3, <2>4, ConstantTypes DEF Sized, Risk!Known
  <2>5. CASE ~Risk!Known(o)
    <3>1. venue[o].state = "NONE"
      BY <1>1, <2>5 DEF Submitted
    <3>2. venue[o].executed = 0
      BY <1>1, <3>1, RecordOf
    <3>3. AtRisk(o) = 0
      BY <3>1, <3>2 DEF AtRisk
    <3>4. orders[o].initial = 0
      BY <2>3, <2>5 DEF Sized, Risk!Known
    <3> QED
      BY <3>3, <3>4
  <2> QED
    BY <2>4, <2>5
<1>3. /\ f \in [Orders -> Nat] /\ h \in [Orders -> Nat]
      /\ Total(registry) \in Nat /\ Total(f) \in Nat /\ Total(h) \in Nat
      /\ current_position \in Int /\ reservations \in Int
  BY <1>1, TablesOf
<1>4. v \in [Orders -> Nat] /\ w \in [Orders -> Nat] /\ \A o \in Orders : v[o] <= w[o]
  BY <1>2
<1>5. \A o \in Orders : w[o] = f[o] + h[o]
  <2>1. ASSUME NEW o \in Orders PROVE w[o] = f[o] + h[o]
    <3>1. orders[o].filled \in Nat /\ orders[o].initial \in Nat
      BY <1>1, TablesOf DEF Risk!OrderRecords
    <3> QED
      BY <3>1 DEF FilledPart, HeldPart
  <2> QED
    BY <2>1
<1>6. IsFiniteSet(Orders)
  BY ConstantTypes
<1>7. VenueRisk = Total(v)
  BY DEF VenueRisk
<1> HIDE DEF v, w
<1>8. Total(v) <= Total(w) /\ Total(v) \in Nat
  BY <1>4, <1>6, TotalMonotone, TotalIsNat
<1>9. Total(w) = Total(f) + Total(h)
  <2> HIDE DEF f, h
  <2> QED
    BY <1>3, <1>4, <1>5, <1>6, TotalAdd
<1>10. /\ current_position = Total(f) /\ reservations >= Total(registry) + Total(h)
       /\ current_position + reservations <= Limit
  BY <1>1 DEF Counted
<1> HIDE DEF f, h
<1> QED
  BY <1>3, <1>7, <1>8, <1>9, <1>10, ConstantTypes DEF Risk!Exposure

(* While one process runs, the engine counts no less than the exchange may hold, and no
   more than the limit: whatever answers and events are lost or repeated, and whichever
   thread assigns system_state. *)
THEOREM CoverCorrect == Spec => []EngineCoversVenue
BY AccountedInit, AccountedStep, Covers, PTL DEF Spec
=============================================================================
