--------------------------- MODULE GridBotBookProofs ---------------------------
(***************************************************************************)
(* What GridBot as a whole promises, for any number of levels, orders,     *)
(* cycles, connection losses, crashes and restarts: each step of the bot,  *)
(* its store and the exchange is a step of OrderBook, or none, and while   *)
(* one process runs, also of BoundedExposure, or none; the position it     *)
(* counts was really bought; and it starts to trade only when its store    *)
(* agrees with the exchange.                                               *)
(***************************************************************************)
EXTENDS GridBotLedgerProofs

(***************************************************************************)
(* What can happen to an order at the exchange                             *)
(***************************************************************************)
(* r becomes the exchange's record of order o. *)
Becomes(o, r) == o \in Orders /\ r \in VenueRecords /\ venue' = [venue EXCEPT ![o] = r]

Leaves(o, r) ==
    /\ HasIntent(o)
    /\ venue[o].state = "NONE"
    /\ r.state = "SENT" /\ r.executed = 0

Arrives(o, r) ==
    /\ venue[o].state = "SENT"
    /\ r.state = "NEW" /\ r.executed = venue[o].executed

Stops(o, r) ==
    /\ \/ venue[o].state = "SENT" /\ r.state \in {"REJECTED", "DROPPED"}
       \/ Live(o) /\ r.state \in {"CANCELED", "EXPIRED"}
    /\ r.executed = venue[o].executed

Executes(o, r) ==
    /\ Live(o)
    /\ r.executed = venue[o].executed + 1
    /\ r.state = IF r.executed = Size THEN "FILLED" ELSE "PARTIALLY_FILLED"

Booked == Filled /\ Accounted

(* Of the exchange and the store, a step changes at most one. *)
LEMMA OneAtATime ==
  ASSUME [Next]_vars
  PROVE  UNCHANGED venue \/ UNCHANGED store
<1>1. CASE Send
  BY <1>1 DEF Send
<1>2. CASE Trading
  BY <1>2 DEF Trading
<1>3. ASSUME NEW o \in Orders, CancelOrder(o) PROVE UNCHANGED store
  BY <1>3 DEF CancelOrder
<1>4. ASSUME \/ Start \/ Abort \/ BeginCycle \/ EndRun \/ Diff \/ RecordCancel
             \/ EndCancels \/ EndCycle \/ GenerateId \/ Consume \/ Save
             \/ Acknowledged \/ Rejected \/ TimedOut \/ Interrupt \/ Raise
             \/ RecordAck \/ Resolve \/ \E l \in Levels : RequestApproval(l)
      PROVE  UNCHANGED venue
  BY <1>4 DEF Start, Abort, BeginCycle, EndRun, Diff, RecordCancel, EndCancels, EndCycle,
     GenerateId, Consume, Save, Acknowledged, Rejected, TimedOut, Interrupt, Raise,
     RecordAck, Resolve, RequestApproval, exchange
<1>5. CASE Main
  BY <1>1, <1>3, <1>4, <1>5 DEF Main
<1>6. CASE Stream
  <2>1. ASSUME ReadUpdate \/ BookTrade \/ ReportFill \/ WriteUpdate PROVE UNCHANGED venue
    BY <2>1 DEF ReadUpdate, BookTrade, ReportFill, WriteUpdate, exchange
  <2>2. ASSUME NEW t \in Streams,
               Connect(t) \/ LoseConnection(t) \/ Reconnect(t) \/ Reconciled(t)
        PROVE  UNCHANGED venue
    BY <2>2 DEF Connect, LoseConnection, Reconnect, Reconciled, exchange
  <2> QED
    BY <1>6, <2>1, <2>2 DEF Stream
<1>7. CASE (\E t \in Threads : Reconcile(t)) \/ Restart \/ UNCHANGED vars
  BY <1>7 DEF Reconcile, Restart, vars, exchange
<1> QED
  BY <1>2, <1>5, <1>6, <1>7 DEF Next

(* A step changes at most one order's record, and in one of four ways. *)
LEMMA VenueMoves ==
  ASSUME Filled, Typed, [Next]_vars
  PROVE  \/ UNCHANGED venue
         \/ \E o, r : /\ Becomes(o, r)
                      /\ Leaves(o, r) \/ Arrives(o, r) \/ Stops(o, r) \/ Executes(o, r)
<1> DEFINE Moves(o, r) == /\ Becomes(o, r)
                          /\ Leaves(o, r) \/ Arrives(o, r) \/ Stops(o, r) \/ Executes(o, r)
<1>1. venue \in [Orders -> VenueRecords]
  BY DEF Typed, TypeOK
<1>2. ASSUME Send PROVE \E o, r : Moves(o, r)
  <2> DEFINE r == [Unsent EXCEPT !.state = "SENT"]
  <2>1. venue' = [venue EXCEPT ![cycle.order] = r] /\ pc["main"] = "send"
    BY <1>2 DEF Send, Dispatch
  <2>2. cycle.order \in Orders
    BY <2>1 DEF Typed, CycleSound, InHand
  <2>3. HasIntent(cycle.order) /\ venue[cycle.order].state = "NONE"
    BY <2>1, <2>2 DEF Filled, Written, Prepared
  <2>4. r \in VenueRecords /\ r.state = "SENT" /\ r.executed = 0
    BY ConstantTypes DEF Unsent, VenueRecords, VenueStates
  <2> HIDE DEF r
  <2>5. Moves(cycle.order, r)
    BY <2>1, <2>2, <2>3, <2>4 DEF Becomes, Leaves
  <2> QED
    BY <2>5
<1>3. ASSUME NEW o \in Orders, NEW s \in VenueStates, venue' = [venue EXCEPT ![o].state = s],
             \/ venue[o].state = "SENT" /\ s \in {"NEW", "REJECTED", "DROPPED"}
             \/ Live(o) /\ s \in {"CANCELED", "EXPIRED"}
      PROVE  \E r : Moves(o, r)
  <2> DEFINE r == [venue[o] EXCEPT !.state = s]
  <2>1. /\ r \in VenueRecords /\ r.state = s /\ r.executed = venue[o].executed
        /\ venue' = [venue EXCEPT ![o] = r]
    BY <1>1, <1>3 DEF VenueRecords
  <2> HIDE DEF r
  <2>2. Becomes(o, r)
    BY <2>1 DEF Becomes
  <2>3. Arrives(o, r) \/ Stops(o, r)
    BY <1>3, <2>1 DEF Arrives, Stops, Live
  <2> QED
    BY <2>2, <2>3
<1>4. ASSUME NEW connected, NEW o \in Orders, Trade(connected, o) PROVE \E r : Moves(o, r)
  <2> DEFINE done == venue[o].executed + 1
             s == IF done = Size THEN "FILLED" ELSE "PARTIALLY_FILLED"
             r == [state |-> s, executed |-> done]
  <2>1. venue' = [venue EXCEPT ![o] = r] /\ Live(o)
    BY <1>4 DEF Trade
  <2>2. done \in 0..Size
    BY <2>1, RecordOf, ConstantTypes
  <2>3. s \in VenueStates
    BY DEF VenueStates
  <2>4. r \in VenueRecords
    BY <2>2, <2>3 DEF VenueRecords
  <2>5. Becomes(o, r)
    BY <2>1, <2>4 DEF Becomes
  <2>6. Executes(o, r)
    BY <2>1 DEF Executes
  <2> QED
    BY <2>5, <2>6
<1>5. ASSUME NEW connected, NEW o \in Orders,
             \/ Accept(connected, o) \/ Refuse(o)
             \/ Close(connected, o, "EXPIRED") \/ Close(connected, o, "CANCELED")
      PROVE  \E r : Moves(o, r)
  <2>1. PICK s \in VenueStates :
            /\ venue' = [venue EXCEPT ![o].state = s]
            /\ \/ venue[o].state = "SENT" /\ s \in {"NEW", "REJECTED", "DROPPED"}
               \/ Live(o) /\ s \in {"CANCELED", "EXPIRED"}
    BY <1>5 DEF Accept, Refuse, Close, VenueStates
  <2> QED
    BY <1>3, <2>1
<1> HIDE DEF Moves
<1>6. ASSUME NEW connected, VenueNext(connected) PROVE \E o, r : Moves(o, r)
  <2>1. PICK o \in Orders : \/ Accept(connected, o) \/ Refuse(o) \/ Trade(connected, o)
                            \/ Close(connected, o, "EXPIRED")
    BY <1>6 DEF VenueNext
  <2>2. \E r : Moves(o, r)
    BY <1>4, <1>5, <2>1
  <2> QED
    BY <2>2
<1>7. UNCHANGED venue \/ \E o, r : Moves(o, r)
  BY <1>2, <1>5, <1>6, VenueKinds
<1> QED
  BY <1>7 DEF Moves

LEMMA BookedInit == Init => Booked
BY FilledInit, AccountedInit DEF Booked

LEMMA BookedStep == Booked /\ [Next]_vars => Booked'
BY FilledStep, AccountedStep DEF Booked

(***************************************************************************)
(* The account                                                             *)
(***************************************************************************)
PlacedOrders == {o \in Orders : venue[o].state # "NONE"}
ExecutedLots == [o \in Orders |-> venue[o].executed]
OpenLots == [o \in Orders |-> AtRisk(o) - venue[o].executed]

Account == INSTANCE BoundedExposure WITH
    executed <- ExecutedLots,
    open <- OpenLots,
    placed <- PlacedOrders

(* What the risk engine promises the account (BoundedExposure), of the running bot: an
   order leaves for the exchange only if the worst that all of them may still do stays
   within the limit. *)
KeepsLimit == Account!Spec

(* What the orders have traded and may still trade is what they put at risk, which is
   within the limit as long as the engine that counts it is there. *)
WithinLimit ==
    /\ ExecutedLots \in [Orders -> Nat] /\ OpenLots \in [Orders -> Nat]
    /\ restarts = 0 => Total(ExecutedLots) + Total(OpenLots) <= Limit

LEMMA AccountWithinLimit == Accounted => WithinLimit
<1> SUFFICES ASSUME Accounted PROVE WithinLimit
  OBVIOUS
<1> DEFINE v == [o \in Orders |-> AtRisk(o)]
           f == ExecutedLots
           g == OpenLots
<1>0. Typed /\ Counted
  BY DEF Accounted
<1>1. ASSUME NEW o \in Orders
      PROVE  /\ AtRisk(o) \in Nat /\ venue[o].executed \in Nat
             /\ AtRisk(o) - venue[o].executed \in Nat
             /\ AtRisk(o) = venue[o].executed + (AtRisk(o) - venue[o].executed)
  <2>1. venue[o].executed \in 0..Size
    BY <1>0, RecordOf
  <2> QED
    BY <2>1, ConstantTypes DEF AtRisk
<1>2. v \in [Orders -> Nat] /\ f \in [Orders -> Nat] /\ g \in [Orders -> Nat]
  BY <1>1 DEF ExecutedLots, OpenLots
<1>3. \A o \in Orders : v[o] = f[o] + g[o]
  BY <1>1 DEF ExecutedLots, OpenLots
<1>4. VenueRisk = Total(v)
  BY DEF VenueRisk
<1>5. restarts = 0 => VenueRisk <= Risk!Exposure /\ Risk!Exposure <= Limit
  BY Covers DEF EngineCoversVenue
<1>6. Risk!Exposure \in Int
  BY <1>0, TablesOf DEF Risk!Exposure
<1> HIDE DEF v, f, g
<1>7. Total(v) = Total(f) + Total(g) /\ Total(v) \in Nat
  BY <1>2, <1>3, ConstantTypes, TotalAdd, TotalIsNat
<1>8. restarts = 0 => Total(f) + Total(g) <= Limit
  BY <1>4, <1>5, <1>6, <1>7, ConstantTypes
<1> QED
  BY <1>2, <1>8 DEF f, g, WithinLimit

(* An order that leaves puts its whole size at risk, within what is left of the limit. *)
LEMMA LeavesPlaces ==
  ASSUME Typed, WithinLimit, WithinLimit', restarts' = 0,
         NEW o, NEW r, Becomes(o, r), Leaves(o, r)
  PROVE  \E lots \in 1..Limit : Account!Place(o, lots)
<1>1. /\ o \in Orders /\ venue \in [Orders -> VenueRecords]
      /\ Size \in Nat /\ Size > 0 /\ Limit \in Nat /\ IsFiniteSet(Orders)
  BY ConstantTypes DEF Typed, TypeOK, Becomes
<1>2. \A p \in Orders : venue'[p] = IF p = o THEN r ELSE venue[p]
  BY <1>1 DEF Becomes
<1>3. venue[o].executed = 0 /\ venue[o].state = "NONE" /\ r.state = "SENT" /\ r.executed = 0
  BY <1>1, RecordOf DEF Leaves
<1>4. ExecutedLots' = ExecutedLots
  BY <1>2, <1>3 DEF ExecutedLots
<1>5. PlacedOrders' = PlacedOrders \cup {o} /\ o \notin PlacedOrders
  BY <1>1, <1>2, <1>3 DEF PlacedOrders
<1>6. OpenLots' = [OpenLots EXCEPT ![o] = Size] /\ OpenLots[o] = 0
  <2>1. \A p \in Orders : OpenLots'[p] = IF p = o THEN Size ELSE OpenLots[p]
    BY <1>1, <1>2, <1>3 DEF OpenLots, AtRisk
  <2>2. OpenLots[o] = 0
    BY <1>1, <1>3 DEF OpenLots, AtRisk
  <2> QED
    BY <2>1, <2>2 DEF OpenLots
<1>7. /\ ExecutedLots \in [Orders -> Nat] /\ OpenLots \in [Orders -> Nat]
      /\ OpenLots' \in [Orders -> Nat]
  BY DEF WithinLimit
<1>8. Total(ExecutedLots') + Total(OpenLots') <= Limit
  BY DEF WithinLimit
<1>9. /\ Total(OpenLots') = Total(OpenLots) + Size
      /\ Total(OpenLots) \in Nat /\ Total(ExecutedLots) \in Nat
  <2>1. \A p \in Orders \ {o} : OpenLots'[p] = OpenLots[p]
    BY <1>1, <1>6, <1>7
  <2>2. OpenLots'[o] = Size
    BY <1>1, <1>6, <1>7
  <2>3. /\ Total(OpenLots') = Total(OpenLots) - OpenLots[o] + OpenLots'[o]
        /\ Total(OpenLots) \in Nat
    BY <1>1, <1>7, <2>1, TotalUpdate
  <2>4. Total(ExecutedLots) \in Nat
    BY <1>1, <1>7, TotalIsNat
  <2> QED
    BY <1>1, <1>6, <2>2, <2>3, <2>4
<1>10. Total(ExecutedLots) + Total(OpenLots) + Size <= Limit /\ Size \in 1..Limit
  BY <1>1, <1>4, <1>7, <1>8, <1>9
<1>11. Account!Place(o, Size)
  <2>1. /\ Account!Total(ExecutedLots) = Total(ExecutedLots)
        /\ Account!Total(OpenLots) = Total(OpenLots)
    BY DEF Account!Total, Account!Units, Account!UnitsOf, Account!Cardinality, Total, Units,
       UnitsOf, Cardinality
  <2> QED
    BY <1>4, <1>5, <1>6, <1>10, <2>1 DEF Account!Place
<1> QED
  BY <1>10, <1>11

(* Until the process is replaced, what happens at the exchange is a step of the account,
   or none. *)
LEMMA LimitStep ==
  ASSUME Booked, WithinLimit, WithinLimit', restarts' = 0, [Next]_vars
  PROVE  [Account!Next]_(Account!vars)
<1>1. /\ Typed /\ Filled /\ venue \in [Orders -> VenueRecords]
      /\ Size \in Nat
  BY ConstantTypes DEF Booked, Accounted, Typed, TypeOK
<1>2. CASE UNCHANGED venue
  BY <1>2 DEF Account!vars, ExecutedLots, OpenLots, PlacedOrders, AtRisk
<1>3. ASSUME NEW o, NEW r, Becomes(o, r),
             Leaves(o, r) \/ Arrives(o, r) \/ Stops(o, r) \/ Executes(o, r)
      PROVE  [Account!Next]_(Account!vars)
  <2>1. /\ o \in Orders /\ venue[o].executed \in 0..Size
        /\ Live(o) => venue[o].executed < Size
        /\ \A p \in Orders : venue'[p] = IF p = o THEN r ELSE venue[p]
    BY <1>1, <1>3, RecordOf DEF Becomes, Typed, VenueSound
  <2>2. CASE Leaves(o, r)
    BY <1>1, <1>3, <2>1, <2>2, LeavesPlaces DEF Account!Next
  <2>3. CASE Arrives(o, r)
    <3>1. /\ ExecutedLots' = ExecutedLots /\ OpenLots' = OpenLots
          /\ PlacedOrders' = PlacedOrders
      BY <1>1, <2>1, <2>3 DEF Arrives, ExecutedLots, OpenLots, PlacedOrders, AtRisk
    <3> QED
      BY <3>1 DEF Account!vars
  <2>4. CASE Stops(o, r)
    <3>1. ExecutedLots' = ExecutedLots /\ PlacedOrders' = PlacedOrders
      BY <1>1, <2>1, <2>4 DEF Stops, Live, ExecutedLots, PlacedOrders
    <3>2. OpenLots' = [OpenLots EXCEPT ![o] = 0]
      <4>1. \A p \in Orders : OpenLots'[p] = IF p = o THEN 0 ELSE OpenLots[p]
        BY <1>1, <2>1, <2>4 DEF Stops, Live, OpenLots, AtRisk
      <4> QED
        BY <4>1 DEF OpenLots
    <3>3. Account!Close(o)
      BY <3>1, <3>2 DEF Account!Close
    <3> QED
      BY <2>1, <3>3 DEF Account!Next
  <2>5. CASE Executes(o, r)
    <3>1. PlacedOrders' = PlacedOrders
      BY <1>1, <2>1, <2>5 DEF Executes, Live, PlacedOrders
    <3>2. ExecutedLots' = [ExecutedLots EXCEPT ![o] = @ + 1]
      <4>1. \A p \in Orders :
              ExecutedLots'[p] = IF p = o THEN ExecutedLots[p] + 1 ELSE ExecutedLots[p]
        BY <1>1, <2>1, <2>5 DEF Executes, ExecutedLots
      <4> QED
        BY <4>1 DEF ExecutedLots
    <3>3. OpenLots[o] = Size - venue[o].executed
      BY <1>1, <2>1, <2>5 DEF Executes, Live, OpenLots, AtRisk
    <3>4. OpenLots' = [OpenLots EXCEPT ![o] = @ - 1]
      <4>1. OpenLots'[o] = OpenLots[o] - 1
        BY <1>1, <2>1, <2>5, <3>3 DEF Executes, OpenLots, AtRisk
      <4>2. \A p \in Orders : OpenLots'[p] = IF p = o THEN OpenLots[p] - 1 ELSE OpenLots[p]
        BY <2>1, <4>1 DEF OpenLots, AtRisk
      <4> QED
        BY <4>2 DEF OpenLots
    <3>5. OpenLots[o] > 0
      BY <1>1, <2>1, <2>5, <3>3 DEF Executes
    <3>6. Account!Trade(o)
      BY <3>1, <3>2, <3>4, <3>5 DEF Account!Trade
    <3> QED
      BY <2>1, <3>6 DEF Account!Next
  <2> QED
    BY <1>3, <2>2, <2>3, <2>4, <2>5
<1> QED
  BY <1>1, <1>2, <1>3, VenueMoves

(* Until its process is replaced by a new one, whose engine knows nothing of the orders of
   the old one, the bot as a whole keeps what its risk engine promises the account: through
   lost answers and events, cancels that cross fills, reconciliations and lock-free
   assignments of system_state. *)
THEOREM LimitCorrect == Spec /\ [](restarts = 0) => KeepsLimit
<1>1. Init => Account!Init
  <2>1. SUFFICES ASSUME Init PROVE Account!Init
    OBVIOUS
  <2>2. \A o \in Orders : venue[o].state = "NONE" /\ venue[o].executed = 0
    BY <2>1 DEF Init, Unsent
  <2> QED
    BY <2>2 DEF Account!Init, ExecutedLots, OpenLots, PlacedOrders, AtRisk
<1>2. Booked => WithinLimit
  BY AccountWithinLimit DEF Booked
<1>3. /\ Booked /\ WithinLimit /\ WithinLimit' /\ (restarts = 0)' /\ [Next]_vars
      => [Account!Next]_(Account!vars)
  BY LimitStep
<1> QED
  BY <1>1, <1>2, <1>3, BookedInit, BookedStep, PTL DEF Spec, KeepsLimit, Account!Spec

(***************************************************************************)
(* The position                                                            *)
(***************************************************************************)
(* The trades of the order that the engine has counted. *)
Processed(o) == {n \in 1..Size : <<o, n>> \in processed_fills}

(* Nothing that is reported of a trade, that is on its way or in hand, or that the engine
   has counted, is ahead of the exchange, and the engine counts a trade of one lot once. *)
Reported == \A i \in 1..Len(stream) : stream[i].trade <= venue[stream[i].order].executed

Real ==
    /\ Reported
    /\ update.order \in Orders => update.trade <= venue[update.order].executed
    /\ \A o \in Orders :
          /\ \A n \in Processed(o) : n <= venue[o].executed
          /\ orders[o].filled <= Cardinality(Processed(o))

Positioned == Booked /\ Real

(* What the exchange executed stays executed. *)
LEMMA ExecutedGrows ==
  ASSUME Booked, [Next]_vars, NEW o \in Orders
  PROVE  /\ venue[o].executed \in 0..Size /\ venue'[o].executed \in 0..Size
         /\ venue[o].executed <= venue'[o].executed
<1>1. Typed /\ Filled /\ venue \in [Orders -> VenueRecords] /\ Size \in Nat
  BY ConstantTypes DEF Booked, Accounted, Typed, TypeOK
<1>2. venue[o].executed \in 0..Size /\ (venue[o].state = "NONE" => venue[o].executed = 0)
  BY <1>1, RecordOf
<1>3. CASE UNCHANGED venue
  BY <1>1, <1>2, <1>3
<1>4. ASSUME NEW q, NEW r, Becomes(q, r),
             Leaves(q, r) \/ Arrives(q, r) \/ Stops(q, r) \/ Executes(q, r)
      PROVE  venue'[o].executed \in 0..Size /\ venue[o].executed <= venue'[o].executed
  <2>1. venue'[o] = IF o = q THEN r ELSE venue[o]
    BY <1>1, <1>4 DEF Becomes
  <2>2. r.executed \in 0..Size
    BY <1>4 DEF Becomes, VenueRecords
  <2>3. CASE o # q
    BY <1>1, <1>2, <2>1, <2>3
  <2>4. CASE o = q
    BY <1>1, <1>2, <1>4, <2>1, <2>2, <2>4 DEF Leaves, Arrives, Stops, Executes
  <2> QED
    BY <2>3, <2>4
<1> QED
  BY <1>1, <1>2, <1>3, <1>4, VenueMoves

(* The engine counts a lot as filled only with a trade that it has not counted yet. *)
LEMMA FilledKinds ==
  ASSUME Booked, [Next]_vars
  PROVE  \/ /\ UNCHANGED processed_fills
            /\ \A o \in Orders : orders'[o].filled <= orders[o].filled
         \/ processed_fills' = {} /\ \A o \in Orders : orders'[o].filled = 0
         \/ /\ update.order \in Orders /\ update.trade \in 1..Size
            /\ <<update.order, update.trade>> \notin processed_fills
            /\ processed_fills' = processed_fills \cup {<<update.order, update.trade>>}
            /\ \A o \in Orders :
                  orders'[o].filled <= orders[o].filled + IF o = update.order THEN 1 ELSE 0
<1>1. Accounted /\ Typed /\ Counted
  BY DEF Booked, Accounted
<1>2. orders \in [Orders -> Risk!OrderRecords]
  BY <1>1, TablesOf
<1>3. \A o \in Orders : orders[o].filled \in Nat
  BY <1>2 DEF Risk!OrderRecords
<1>4. ASSUME UNCHANGED orders PROVE \A o \in Orders : orders'[o].filled <= orders[o].filled
  BY <1>3, <1>4
<1>5. CASE UNCHANGED ledger
  BY <1>4, <1>5 DEF ledger
<1>6. CASE Risk!Renew
  BY <1>6 DEF Risk!Renew, Risk!Absent
<1>7. CASE Risk!RequestApproval(Size)
  BY <1>4, <1>7 DEF Risk!RequestApproval
<1>8. CASE Risk!ConsumeAndSubmit(cycle.approval, cycle.order, TRUE)
  <2> DEFINE row == Risk!NewOrder(registry[cycle.approval])
  <2>1. orders' = [orders EXCEPT ![cycle.order] = row] /\ UNCHANGED processed_fills
    BY <1>8 DEF Risk!ConsumeAndSubmit
  <2>2. row.filled = 0
    BY DEF Risk!NewOrder, Risk!Absent
  <2> HIDE DEF row
  <2> QED
    BY <1>2, <1>3, <2>1, <2>2
<1>9. CASE \/ Risk!ConsumeWhileUnknown(cycle.approval, TRUE)
           \/ Risk!ConsumeRejected(cycle.approval, cycle.order, TRUE)
  BY <1>4, <1>9 DEF Risk!ConsumeWhileUnknown, Risk!ConsumeRejected, Risk!RejectApproval
<1>10. CASE Resolve /\ Risk!ResolveOrder(cycle.order, Mapped(cycle.answer), 0)
  <2> DEFINE o == cycle.order
  <2>1. UNCHANGED processed_fills /\ o \in Orders
    BY <1>1, <1>10 DEF Risk!ResolveOrder, Resolve, Typed, CycleSound, InHand
  <2>2. UNCHANGED orders \/ \E r : Settled(o, r)
    BY <1>1, <1>10, ResolveSettles
  <2>3. CASE UNCHANGED orders
    BY <1>4, <2>1, <2>3
  <2>4. ASSUME NEW r, Settled(o, r)
        PROVE  \A p \in Orders : orders'[p].filled <= orders[p].filled
    <3>1. r.filled = orders[o].filled
      <4>1. orders' = [orders EXCEPT ![o] = r] /\ r \in Risk!OrderRecords
        BY <2>4 DEF Settled
      <4>2. Risk!Unseen(orders[o], 0) = 0 /\ cycle.answer # "CANCELED"
        BY <1>1, <1>2, <1>10, <2>1, RecordTypes DEF Accounted, Submitted, Resolve
      <4>3. Mapped(cycle.answer) # "CANCELED"
        BY <4>2 DEF Mapped
      <4>4. \/ orders' = orders
            \/ orders' = [orders EXCEPT ![o] = Risk!FilledAt(orders[o], 0)]
            \/ orders' = [orders EXCEPT ![o] = [orders[o] EXCEPT !.state = "OPEN"]]
        BY <1>2, <1>10, <2>1, <4>3 DEF Risk!ResolveOrder, Risk!ledger
      <4>5. Risk!FilledAt(orders[o], 0) = [orders[o] EXCEPT !.state = "FILLED"]
        BY <1>2, <2>1, RecordTypes
      <4> HIDE DEF o
      <4> QED
        BY <1>2, <2>1, <4>1, <4>4, <4>5 DEF Risk!OrderRecords
    <3> HIDE DEF o
    <3> QED
      BY <1>2, <1>3, <2>1, <2>4, <3>1 DEF Settled
  <2> QED
    BY <2>1, <2>2, <2>3, <2>4
<1>11. CASE /\ ReportFill
            /\ \/ Risk!OnFill(update.order, <<update.order, update.trade>>, 1)
               \/ Risk!OnLateFill(update.order, <<update.order, update.trade>>, 1)
               \/ Risk!OnOverFill(update.order, <<update.order, update.trade>>, 1)
  <2> DEFINE q == update.order
             f == <<q, update.trade>>
             more == Risk!Filled(orders[q], 1)
  <2>1. q \in Orders /\ update.trade \in 1..Size
    BY <1>1, <1>11 DEF ReportFill, At, Typed, UpdateSound
  <2>2. f \notin processed_fills /\ processed_fills' = processed_fills \cup {f}
    BY <1>11 DEF Risk!OnFill, Risk!OnLateFill, Risk!OnOverFill, Risk!NewFill
  <2>3. orders' = orders \/ orders' = [orders EXCEPT ![q] = more]
    <3>1. orders[q].state # "CANCELED"
      BY <1>1, <2>1 DEF Counted, Sized
    <3> QED
      BY <1>11, <3>1 DEF Risk!OnFill, Risk!OnLateFill, Risk!OnOverFill
  <2>4. more.filled = orders[q].filled + 1
    <3> DEFINE row == orders[q]
               n == row.filled + 1
               m == row.seen + 1
               s == IF n >= row.initial THEN "FILLED" ELSE "PARTIALLY_FILLED"
    <3>1. more = [row EXCEPT !.filled = n, !.seen = m, !.state = s]
      BY DEF Risk!Filled
    <3>2. row \in Risk!OrderRecords
      BY <1>2, <2>1
    <3> HIDE DEF n, m, s, more, row
    <3>3. more.filled = n
      BY <3>1, <3>2 DEF Risk!OrderRecords
    <3> QED
      BY <3>3 DEF n, row
  <2> HIDE DEF more
  <2>5. \A o \in Orders : orders'[o].filled <= orders[o].filled + IF o = q THEN 1 ELSE 0
    BY <1>2, <1>3, <2>1, <2>3, <2>4
  <2> QED
    BY <2>1, <2>2, <2>5
<1> QED
  BY <1>5, <1>6, <1>7, <1>8, <1>9, <1>10, <1>11, LedgerKinds

(* Of an order as many trades are counted as the exchange executed, at most. *)
LEMMA RealHolds == Positioned => PositionIsReal
<1> SUFFICES ASSUME Positioned, NEW o \in Orders PROVE orders[o].filled <= venue[o].executed
  BY DEF PositionIsReal
<1> DEFINE n == venue[o].executed
<1>1. /\ orders[o].filled <= Cardinality(Processed(o))
      /\ Processed(o) \subseteq 1..n
  BY DEF Positioned, Real, Processed
<1>2. n \in Nat
  BY RecordOf, ConstantTypes DEF Positioned, Booked, Accounted
<1>3. orders[o].filled \in Nat
  BY TablesOf DEF Positioned, Booked, Accounted, Risk!OrderRecords
<1> HIDE DEF n
<1>4. IsFiniteSet(1..n) /\ Cardinality(1..n) = n
  <2>1. IsFiniteSet(1..n) /\ Cardinality(1..n) = IF 1 > n THEN 0 ELSE n - 1 + 1
    BY <1>2, FS_Interval
  <2> QED
    BY <1>2, <2>1
<1>5. Cardinality(Processed(o)) \in Nat /\ Cardinality(Processed(o)) <= n
  BY <1>1, <1>4, FS_Subset, FS_CardinalityType
<1> QED
  BY <1>1, <1>2, <1>3, <1>5 DEF n

LEMMA RealInit == Init => Real
<1> SUFFICES ASSUME Init PROVE Real
  OBVIOUS
<1>1. Len(stream) = 0 /\ update.order \notin Orders /\ processed_fills = {}
  BY NoOrderIsNone DEF Init, NoUpdate, Risk!Fresh
<1>2. \A o \in Orders : orders[o].filled = 0 /\ Processed(o) = {}
  BY <1>1 DEF Init, Risk!Fresh, Risk!Absent, Processed
<1>3. ASSUME NEW o \in Orders PROVE orders[o].filled <= Cardinality(Processed(o))
  <2>1. Cardinality(Processed(o)) = 0
    BY <1>2, FS_EmptySet, Zenon
  <2> QED
    BY <1>2, <2>1
<1>4. Reported
  BY <1>1 DEF Reported
<1> QED
  BY <1>1, <1>2, <1>3, <1>4 DEF Real

LEMMA ReportedStep ==
  ASSUME Positioned, [Next]_vars
  PROVE  Reported'
<1>1. /\ Booked /\ Reported /\ Typed /\ Shapes /\ stream \in Seq(Events)
  BY DEF Positioned, Real, Booked, Accounted, Filled, Written, Typed, TypeOK
<1>2. ASSUME NEW i \in 1..Len(stream)
      PROVE  stream[i].trade <= venue'[stream[i].order].executed
  <2> DEFINE o == stream[i].order
             n == stream[i].trade
  <2>1. stream[i] \in Events /\ n <= venue[o].executed
    BY <1>1 DEF Reported
  <2>2. o \in Orders /\ n \in 0..Size
    BY <2>1 DEF Events
  <2> HIDE DEF o, n
  <2>3. /\ venue[o].executed \in 0..Size /\ venue'[o].executed \in 0..Size
        /\ venue[o].executed <= venue'[o].executed
    BY <1>1, <2>2, ExecutedGrows
  <2>4. n <= venue'[o].executed
    BY <2>1, <2>2, <2>3, ConstantTypes
  <2> QED
    BY <2>4 DEF o, n
<1>3. CASE UNCHANGED stream \/ stream' = <<>>
  BY <1>2, <1>3 DEF Reported
<1>4. CASE ReadUpdate
  <2>1. stream # <<>> /\ stream' \in {stream, Tail(stream)}
    BY <1>4 DEF ReadUpdate
  <2>2. Len(Tail(stream)) = Len(stream) - 1
        /\ \A i \in 1..Len(Tail(stream)) : i + 1 \in 1..Len(stream) /\ Tail(stream)[i] = stream[i + 1]
    BY <1>1, <2>1
  <2> QED
    BY <1>2, <2>1, <2>2 DEF Reported
<1>5. ASSUME NEW o \in Orders, NEW s, NEW n,
             stream' = Append(stream, [order |-> o, status |-> s, trade |-> n]),
             n = 0 \/ n = venue'[o].executed
      PROVE  Reported'
  <2> DEFINE e == [order |-> o, status |-> s, trade |-> n]
  <2>1. e.order = o /\ e.trade = n /\ n <= venue'[o].executed
    BY <1>1, <1>5, ExecutedGrows, ConstantTypes
  <2> HIDE DEF e
  <2>2. \A i \in 1..Len(stream') :
           \/ i \in 1..Len(stream) /\ stream'[i] = stream[i]
           \/ stream'[i] = e
    BY <1>1, <1>5 DEF e
  <2> QED
    BY <1>2, <2>1, <2>2 DEF Reported
<1> QED
  BY <1>1, <1>3, <1>4, <1>5, StreamKinds

LEMMA RealStep == Positioned /\ [Next]_vars => Real'
<1> SUFFICES ASSUME Positioned, [Next]_vars PROVE Real'
  OBVIOUS
<1>1. Booked /\ Real /\ Typed /\ Size \in Nat
  BY ConstantTypes DEF Positioned, Booked, Accounted
<1>2. /\ update \in Updates /\ stream \in Seq(Events)
      /\ orders \in [Orders -> Risk!OrderRecords]
      /\ orders' \in [Orders -> Risk!OrderRecords]
  BY <1>1, LedgerStep, TablesOf DEF Typed, TypeOK, Booked, Accounted, LedgerTyped
<1>3. \A o \in Orders : /\ venue[o].executed \in 0..Size /\ venue'[o].executed \in 0..Size
                        /\ venue[o].executed <= venue'[o].executed
  BY <1>1, ExecutedGrows
<1>4. update'.order \in Orders => update'.trade <= venue'[update'.order].executed
  <2>1. CASE UNCHANGED update
    BY <1>1, <1>2, <1>3, <2>1 DEF Real, Updates
  <2>2. CASE update' = NoUpdate
    BY <2>2, NoOrderIsNone DEF NoUpdate
  <2>3. CASE /\ ReadUpdate
             /\ update'.order = Head(stream).order /\ update'.trade = Head(stream).trade
    <3>1. stream # <<>>
      BY <2>3 DEF ReadUpdate
    <3>2. Head(stream) = stream[1] /\ 1 \in 1..Len(stream) /\ stream[1] \in Events
      BY <1>2, <3>1
    <3>3. /\ stream[1].order \in Orders /\ stream[1].trade \in 0..Size
          /\ stream[1].trade <= venue[stream[1].order].executed
      BY <1>1, <3>2 DEF Events, Real, Reported
    <3> QED
      BY <1>1, <1>3, <2>3, <3>2, <3>3
  <2> QED
    BY <2>1, <2>2, <2>3, UpdateKinds
<1>5. ASSUME NEW o \in Orders
      PROVE  /\ \A n \in Processed(o)' : n <= venue'[o].executed
             /\ orders'[o].filled <= Cardinality(Processed(o)')
  <2>1. /\ Processed(o) \subseteq 1..Size /\ IsFiniteSet(Processed(o))
        /\ Cardinality(Processed(o)) \in Nat
    <3>1. Processed(o) \subseteq 1..Size /\ IsFiniteSet(1..Size)
      BY <1>1, FS_Interval DEF Processed
    <3> QED
      BY <3>1, FS_Subset, FS_CardinalityType
  <2>2. /\ \A n \in Processed(o) : n <= venue[o].executed
        /\ orders[o].filled <= Cardinality(Processed(o))
    BY <1>1 DEF Real
  <2>3. orders[o].filled \in Nat /\ orders'[o].filled \in Nat
    BY <1>2 DEF Risk!OrderRecords
  <2>4. \A n \in Processed(o) : n <= venue'[o].executed
    BY <1>1, <1>3, <2>1, <2>2
  <2>5. CASE UNCHANGED processed_fills /\ orders'[o].filled <= orders[o].filled
    <3>1. Processed(o)' = Processed(o)
      BY <2>5 DEF Processed
    <3> QED
      BY <2>1, <2>2, <2>3, <2>4, <2>5, <3>1
  <2>6. CASE processed_fills' = {} /\ orders'[o].filled = 0
    <3>1. Processed(o)' = {}
      BY <2>6 DEF Processed
    <3> QED
      BY <2>6, <3>1, FS_EmptySet
  <2>7. CASE /\ update.order \in Orders /\ update.trade \in 1..Size
             /\ <<update.order, update.trade>> \notin processed_fills
             /\ processed_fills' = processed_fills \cup {<<update.order, update.trade>>}
             /\ orders'[o].filled <= orders[o].filled + IF o = update.order THEN 1 ELSE 0
    <3>1. CASE o # update.order
      <4>1. Processed(o)' = Processed(o)
        BY <2>7, <3>1 DEF Processed
      <4> QED
        BY <2>1, <2>2, <2>3, <2>4, <2>7, <3>1, <4>1
    <3>2. CASE o = update.order
      <4> DEFINE n == update.trade
      <4>1. Processed(o)' = Processed(o) \cup {n} /\ n \notin Processed(o)
        BY <2>7, <3>2 DEF Processed
      <4>2. n \in 1..Size /\ n <= venue'[o].executed
        BY <1>1, <1>3, <2>7, <3>2 DEF Real
      <4> HIDE DEF n
      <4>3. Cardinality(Processed(o)') = Cardinality(Processed(o)) + 1
        BY <2>1, <4>1, FS_AddElement
      <4>4. orders'[o].filled <= orders[o].filled + 1
        BY <2>7, <3>2
      <4> QED
        BY <2>1, <2>2, <2>3, <2>4, <4>1, <4>2, <4>3, <4>4
    <3> QED
      BY <3>1, <3>2
  <2> QED
    BY <1>1, <2>5, <2>6, <2>7, FilledKinds
<1>6. Reported'
  BY ReportedStep
<1> QED
  BY <1>4, <1>5, <1>6 DEF Real

(* The position the engine counts was really bought: of no order does it take more for
   filled than the exchange executed, through events lost, repeated or read late, answers
   resolved with another total, and new processes (execution_engine.py:155-190,
   simulator.py on_fill and resolve_order). *)
THEOREM PositionCorrect == Spec => []PositionIsReal
<1>1. Init => Positioned
  BY BookedInit, RealInit DEF Positioned
<1>2. Positioned /\ [Next]_vars => Positioned'
  BY BookedStep, RealStep DEF Positioned
<1> QED
  BY <1>1, <1>2, RealHolds, PTL DEF Spec

(***************************************************************************)
(* The order book                                                          *)
(***************************************************************************)
RecordedOrders == {o \in Orders : HasIntent(o)}
TradedLots == [o \in Orders |-> venue[o].executed]
OverOrders == {o \in Orders : Closed(o)}
BookedTrades == {<<f.order, f.trade>> : f \in {f \in fills : f.kind = "ws"}}

(* What happens at the exchange is a step of the book. *)
LEMMA BookVenue ==
  ASSUME Booked, UNCHANGED store, NEW o, NEW r, Becomes(o, r),
         Leaves(o, r) \/ Arrives(o, r) \/ Stops(o, r) \/ Executes(o, r)
  PROVE  [Book!Next]_(Book!vars)
<1>1. /\ venue \in [Orders -> VenueRecords] /\ o \in Orders /\ r \in VenueRecords
      /\ venue[o].executed \in 0..Size /\ Size \in Nat
      /\ Live(o) => venue[o].executed < Size
      /\ venue[o].state \in {"NONE", "SENT"} => venue[o].executed = 0
  BY RecordOf, ConstantTypes DEF Booked, Accounted, Typed, TypeOK, VenueSound, Becomes
<1>2. \A p \in Orders : venue'[p] = IF p = o THEN r ELSE venue[p]
  BY <1>1 DEF Becomes
<1>3. RecordedOrders' = RecordedOrders /\ BookedTrades' = BookedTrades
  BY DEF RecordedOrders, BookedTrades, HasIntent, store
<1>4. TradedLots' = [TradedLots EXCEPT ![o] = r.executed]
  <2>1. \A p \in Orders : TradedLots'[p] = IF p = o THEN r.executed ELSE TradedLots[p]
    BY <1>2 DEF TradedLots
  <2> QED
    BY <2>1 DEF TradedLots
<1>5. CASE Leaves(o, r)
  <2>1. o \in RecordedOrders \ PlacedOrders
    BY <1>1, <1>5 DEF Leaves, RecordedOrders, PlacedOrders
  <2>2. PlacedOrders' = PlacedOrders \cup {o}
    BY <1>1, <1>2, <1>5 DEF Leaves, PlacedOrders
  <2>3. OverOrders' = OverOrders
    BY <1>1, <1>2, <1>5 DEF Leaves, OverOrders, Closed
  <2>4. TradedLots' = TradedLots
    BY <1>1, <1>4, <1>5 DEF Leaves, TradedLots
  <2>5. Book!Place(o)
    BY <1>3, <2>1, <2>2, <2>3, <2>4
       DEF Book!Place, RecordedOrders, PlacedOrders, TradedLots, OverOrders, BookedTrades
  <2> QED
    BY <1>1, <2>5 DEF Book!Next
<1>6. CASE Arrives(o, r)
  <2>1. PlacedOrders' = PlacedOrders /\ OverOrders' = OverOrders
    BY <1>1, <1>2, <1>6 DEF Arrives, PlacedOrders, OverOrders, Closed
  <2>2. TradedLots' = TradedLots
    BY <1>1, <1>4, <1>6 DEF Arrives, TradedLots
  <2> QED
    BY <1>3, <2>1, <2>2
       DEF Book!vars, RecordedOrders, PlacedOrders, TradedLots, OverOrders, BookedTrades
<1>7. CASE Stops(o, r)
  <2>1. o \in PlacedOrders \ OverOrders
    BY <1>1, <1>7 DEF Stops, Live, PlacedOrders, OverOrders, Closed
  <2>2. PlacedOrders' = PlacedOrders
    BY <1>1, <1>2, <1>7 DEF Stops, Live, PlacedOrders
  <2>3. OverOrders' = OverOrders \cup {o}
    BY <1>1, <1>2, <1>7 DEF Stops, Live, OverOrders, Closed
  <2>4. TradedLots' = TradedLots
    BY <1>1, <1>4, <1>7 DEF Stops, Live, TradedLots
  <2>5. Book!Close(o)
    BY <1>3, <2>1, <2>2, <2>3, <2>4
       DEF Book!Close, RecordedOrders, PlacedOrders, TradedLots, OverOrders, BookedTrades
  <2> QED
    BY <1>1, <2>5 DEF Book!Next
<1>8. CASE Executes(o, r)
  <2>1. o \in PlacedOrders \ OverOrders
    BY <1>1, <1>8 DEF Executes, Live, PlacedOrders, OverOrders, Closed
  <2>2. PlacedOrders' = PlacedOrders
    BY <1>1, <1>2, <1>8 DEF Executes, Live, PlacedOrders
  <2>3. TradedLots' = [TradedLots EXCEPT ![o] = @ + 1] /\ TradedLots[o] + 1 = r.executed
    BY <1>1, <1>4, <1>8 DEF Executes, TradedLots
  <2>4. OverOrders' = IF TradedLots[o] + 1 = Size THEN OverOrders \cup {o} ELSE OverOrders
    BY <1>1, <1>2, <1>8, <2>3 DEF Executes, Live, OverOrders, Closed
  <2>5. Book!Trade(o)
    BY <1>3, <2>1, <2>2, <2>3, <2>4
       DEF Book!Trade, RecordedOrders, PlacedOrders, TradedLots, OverOrders, BookedTrades
  <2> QED
    BY <1>1, <2>5 DEF Book!Next
<1> QED
  BY <1>5, <1>6, <1>7, <1>8

(* Which steps book a fill. *)
LEMMA FillsKinds ==
  ASSUME [Next]_vars
  PROVE  BookTrade \/ (\E t \in Threads : BookFill(t)) \/ UNCHANGED fills
<1>1. ASSUME RecordCancel \/ Rejected \/ TimedOut \/ RecordAck \/ Save
      PROVE  UNCHANGED fills
  BY <1>1 DEF RecordCancel, Rejected, TimedOut, RecordAck, Save, SaveIntent, UpdateIntentStatus
<1>2. CASE Main
  <2>1. ASSUME \/ Start \/ Abort \/ BeginCycle \/ EndRun \/ Diff
               \/ EndCancels \/ EndCycle \/ GenerateId \/ Consume \/ Send
               \/ Acknowledged \/ Interrupt \/ Raise \/ Resolve
               \/ \E o \in Orders : CancelOrder(o)
               \/ \E l \in Levels : RequestApproval(l)
        PROVE  UNCHANGED fills
    BY <2>1 DEF Start, Abort, BeginCycle, EndRun, Diff, EndCancels, EndCycle, GenerateId,
       Consume, Send, Acknowledged, Interrupt, Raise, Resolve, CancelOrder, RequestApproval,
       store
  <2> QED
    BY <1>1, <1>2, <2>1 DEF Main
<1>3. CASE Stream
  <2>1. ASSUME WriteUpdate PROVE UNCHANGED fills
    BY <2>1 DEF WriteUpdate, UpdateIntentStatus, store
  <2>2. ASSUME ReadUpdate \/ ReportFill PROVE UNCHANGED fills
    BY <2>2 DEF ReadUpdate, ReportFill, store
  <2>3. ASSUME NEW t \in Streams,
               Connect(t) \/ LoseConnection(t) \/ Reconnect(t) \/ Reconciled(t)
        PROVE  UNCHANGED fills
    BY <2>3 DEF Connect, LoseConnection, Reconnect, Reconciled, store
  <2> QED
    BY <1>3, <2>1, <2>2, <2>3 DEF Stream
<1>4. ASSUME NEW t \in Threads, ResolveState(t), ~BookFill(t) PROVE UNCHANGED fills
  <2>1. ASSUME NEW o \in Orders, QueryUnknown(t, o) \/ SyncActive(t, o)
        PROVE  UNCHANGED fills
    BY <2>1 DEF QueryUnknown, SyncActive, TakeUp, Fail, store
  <2>2. CASE FetchExchangeState(t) \/ ListIntents(t) \/ EndUnknown(t) \/ EndActive(t)
    BY <2>2 DEF FetchExchangeState, ListIntents, EndUnknown, EndActive, Fail, store
  <2>3. CASE WriteStatus(t)
    BY <2>3 DEF WriteStatus, UpdateIntentStatus
  <2> QED
    BY <1>4, <2>1, <2>2, <2>3 DEF ResolveState
<1>5. CASE Trading \/ Restart \/ UNCHANGED vars
  BY <1>5 DEF Trading, Restart, vars, store
<1> QED
  BY <1>2, <1>3, <1>4, <1>5 DEF Next, Reconcile

(* What the stream books has happened, and is of an order on record. *)
LEMMA BookedTrade ==
  ASSUME Positioned, BookTrade
  PROVE  /\ update.order \in RecordedOrders
         /\ update.trade \in 1..TradedLots[update.order]
<1> DEFINE o == update.order
<1>1. Booked /\ Real /\ Typed /\ WriteAhead
  BY DEF Positioned, Booked, Accounted, Filled, Written
<1>2. o \in Orders /\ update.trade \in 1..Size
  BY <1>1 DEF BookTrade, At, Typed, UpdateSound
<1>3. /\ update.trade <= venue[o].executed
      /\ venue[o].executed \in 0..Size
      /\ venue[o].state = "NONE" => venue[o].executed = 0
  BY <1>1, <1>2, RecordOf DEF Real
<1>4. venue[o].state # "NONE"
  BY <1>2, <1>3, ConstantTypes
<1>5. HasIntent(o)
  BY <1>1, <1>2, <1>4 DEF WriteAhead
<1> QED
  BY <1>2, <1>3, <1>5, ConstantTypes DEF RecordedOrders, TradedLots

(* What is written into the store is a step of the book, or none. *)
LEMMA BookStore ==
  ASSUME Positioned, [Next]_vars, UNCHANGED venue
  PROVE  [Book!Next]_(Book!vars)
<1>1. intents \in [Orders -> IntentRecords] /\ Typed /\ Shapes
  BY DEF Positioned, Booked, Accounted, Typed, TypeOK, Filled, Written
<1>2. PlacedOrders' = PlacedOrders /\ TradedLots' = TradedLots /\ OverOrders' = OverOrders
  BY DEF PlacedOrders, TradedLots, OverOrders, Closed
<1>3. ASSUME RecordedOrders' = RecordedOrders, BookedTrades' = BookedTrades
      PROVE  UNCHANGED Book!vars
  BY <1>2, <1>3
     DEF Book!vars, RecordedOrders, PlacedOrders, TradedLots, OverOrders, BookedTrades
<1>4. CASE Save
  <2> DEFINE o == cycle.order
             row == [NoIntent EXCEPT !.status = "OPEN"]
  <2>1. /\ o \in Orders /\ ~HasIntent(o)
        /\ intents' = [intents EXCEPT ![o] = row] /\ fills' = fills
    BY <1>1, <1>4 DEF Save, SaveIntent, Typed, CycleSound, InHand
  <2>2. row.status = "OPEN"
    BY DEF NoIntent
  <2> HIDE DEF o, row
  <2>3. RecordedOrders' = RecordedOrders \cup {o}
    BY <1>1, <2>1, <2>2 DEF RecordedOrders, HasIntent
  <2>4. BookedTrades' = BookedTrades
    BY <2>1 DEF BookedTrades
  <2>5. Book!Record(o)
    BY <1>2, <2>3, <2>4
       DEF Book!Record, RecordedOrders, PlacedOrders, TradedLots, OverOrders, BookedTrades
  <2> QED
    BY <2>1, <2>5 DEF Book!Next
<1>5. ASSUME NEW id, NEW o, NEW q, AddFill(id, o, q)
      PROVE  fills' = fills \/ fills' = fills \cup {id}
  BY <1>5 DEF AddFill
<1>6. ASSUME NEW o \in Orders, NEW n \in 1..Size, o \in RecordedOrders, n \in 1..TradedLots[o],
             BookedTrades' = BookedTrades \cup {<<o, n>>}, RecordedOrders' = RecordedOrders
      PROVE  Book!Next
  <2>1. Book!Book(o, n)
    BY <1>2, <1>6
       DEF Book!Book, RecordedOrders, PlacedOrders, TradedLots, OverOrders, BookedTrades
  <2> QED
    BY <2>1 DEF Book!Next
<1>7. CASE BookTrade /\ RecordedOrders' = RecordedOrders
  <2> DEFINE o == update.order
             n == update.trade
             id == [kind |-> "ws", order |-> o, trade |-> n]
  <2>1. fills' = fills \/ fills' = fills \cup {id}
    BY <1>5, <1>7 DEF BookTrade
  <2>2. o \in RecordedOrders /\ n \in 1..TradedLots[o]
    BY <1>7, BookedTrade
  <2>3. id.kind = "ws" /\ id.order = o /\ id.trade = n
    OBVIOUS
  <2>4. o \in Orders /\ TradedLots[o] \in 0..Size /\ Size \in Nat
    BY <1>1, <2>2, RecordOf, ConstantTypes DEF RecordedOrders, TradedLots
  <2>5. n \in 1..Size
    BY <2>2, <2>4
  <2> HIDE DEF o, n, id
  <2>6. CASE fills' = fills \cup {id}
    <3>1. BookedTrades' = BookedTrades \cup {<<o, n>>}
      BY <2>3, <2>6 DEF BookedTrades
    <3> QED
      BY <1>6, <1>7, <2>2, <2>4, <2>5, <3>1
  <2>7. CASE fills' = fills
    BY <1>3, <1>7, <2>7 DEF BookedTrades
  <2> QED
    BY <2>1, <2>6, <2>7
<1>8. ASSUME NEW t \in Threads, BookFill(t) PROVE BookedTrades' = BookedTrades
  <2> DEFINE id == ReconcileFill(t)
  <2>1. fills' = fills \/ fills' = fills \cup {id}
    BY <1>5, <1>8 DEF BookFill, store
  <2>2. id.kind # "ws"
    BY DEF ReconcileFill
  <2> HIDE DEF id
  <2> QED
    BY <2>1, <2>2 DEF BookedTrades
<1>9. CASE UNCHANGED fills /\ RecordedOrders' = RecordedOrders
  BY <1>3, <1>9 DEF BookedTrades
<1>10. Save \/ RecordedOrders' = RecordedOrders
  <2>1. Save \/ \A o \in Orders : HasIntent(o)' <=> HasIntent(o)
    BY <1>1, StoreStep
  <2> QED
    BY <2>1 DEF RecordedOrders
<1> QED
  BY <1>3, <1>4, <1>7, <1>8, <1>9, <1>10, FillsKinds

LEMMA BookStep == Positioned /\ [Next]_vars => [Book!Next]_(Book!vars)
<1> SUFFICES ASSUME Positioned, [Next]_vars PROVE [Book!Next]_(Book!vars)
  OBVIOUS
<1>1. CASE UNCHANGED venue
  BY <1>1, BookStore
<1>2. CASE ~UNCHANGED venue
  <2>1. UNCHANGED store /\ Booked
    BY <1>2, OneAtATime DEF Positioned
  <2>2. PICK o, r : /\ Becomes(o, r)
                    /\ Leaves(o, r) \/ Arrives(o, r) \/ Stops(o, r) \/ Executes(o, r)
    BY <1>2, <2>1, VenueMoves DEF Booked, Accounted
  <2> QED
    BY <2>1, <2>2, BookVenue
<1> QED
  BY <1>1, <1>2

(* The bot, its store and the exchange implement the order book, through lost answers and
   events, races of its threads on the store, crashes and restarts: an order is recorded
   before it is placed, placed once, and trades until it is over; what is booked of it as a
   trade of the exchange was traded; and nothing recorded or booked is lost
   (execution_engine.py:73-90 and 160-173, persistence.py). *)
THEOREM BookCorrect == Spec => KeepsBook
<1>1. Init => Book!Init
  <2>1. SUFFICES ASSUME Init PROVE Book!Init
    OBVIOUS
  <2>2. \A o \in Orders : venue[o] = Unsent /\ intents[o] = NoIntent
    BY <2>1 DEF Init
  <2>3. RecordedOrders = {} /\ PlacedOrders = {} /\ OverOrders = {}
    BY <2>2 DEF RecordedOrders, PlacedOrders, OverOrders, HasIntent, NoIntent, Unsent, Closed
  <2>4. TradedLots = [o \in Orders |-> 0]
    BY <2>2 DEF TradedLots, Unsent
  <2>5. BookedTrades = {}
    BY <2>1 DEF Init, BookedTrades
  <2> QED
    BY <2>3, <2>4, <2>5
       DEF Book!Init, RecordedOrders, PlacedOrders, TradedLots, OverOrders, BookedTrades
<1>2. Init => Positioned
  BY BookedInit, RealInit DEF Positioned
<1>3. Positioned /\ [Next]_vars => Positioned'
  BY BookedStep, RealStep DEF Positioned
<1> QED
  BY <1>1, <1>2, <1>3, BookStep, PTL DEF Spec, KeepsBook, Book!Spec

(***************************************************************************)
(* The start                                                               *)
(***************************************************************************)
\* Where main is until trading starts, or the process ends without it.
Starting == {"fetch", "list", "next", "book", "write", "resolved", "failed"}

FoundOrders == {o \in Orders : Found(o)}

(* What a reconciliation at label with locals r has established, of the orders found at
   the exchange and the intents that are active: the listed orders are found, in the
   second phase each active intent is found or still to be looked for. *)
Settles(label, r, found, actives) ==
    /\ label \in Starting \ {"fetch"} =>
          \A o \in Orders : r.listing[o].state # "NONE" => o \in found
    /\ label \in {"book", "write"} /\ r.phase = "active" => r.order \in found
    /\ label \in {"next", "book", "write"} /\ r.phase = "active" =>
          actives \subseteq r.todo \cup found
    /\ label = "resolved" => actives \subseteq found

(* Until trading starts there is only main. *)
Settling ==
    /\ pc["main"] \in Starting => \A t \in Streams : pc[t] = "off"
    /\ Settles(pc["main"], rec["main"], FoundOrders, ActiveIntents)

StartsSettled == Booked /\ Settling

LEMMA StartHolds == Settling => StartsReconciled
BY DEF Settling, Settles, StartsReconciled, FoundOrders

(* What was established stays so when more is found and less is active. *)
LEMMA SettlesMore ==
  ASSUME NEW label, NEW r, NEW found, NEW actives, Settles(label, r, found, actives),
         NEW found2, found \subseteq found2, NEW actives2, actives2 \subseteq actives
  PROVE  Settles(label, r, found2, actives2)
BY DEF Settles

(* An order that is found once is found ever after. *)
LEMMA FoundStays ==
  ASSUME Booked, [Next]_vars
  PROVE  FoundOrders \subseteq FoundOrders'
<1>1. Typed /\ Filled /\ venue \in [Orders -> VenueRecords]
  BY DEF Booked, Accounted, Typed, TypeOK
<1>2. ASSUME NEW o \in Orders, Found(o) PROVE Found(o)'
  <2>1. CASE UNCHANGED venue
    BY <1>2, <2>1 DEF Found
  <2>2. ASSUME NEW q, NEW r, Becomes(q, r),
               Leaves(q, r) \/ Arrives(q, r) \/ Stops(q, r) \/ Executes(q, r)
        PROVE  Found(o)'
    <3>1. venue'[o] = IF o = q THEN r ELSE venue[o]
      BY <1>1, <2>2 DEF Becomes
    <3> QED
      BY <1>2, <2>2, <3>1 DEF Found, Leaves, Arrives, Stops, Executes, Live
  <2> QED
    BY <1>1, <2>1, <2>2, VenueMoves
<1> QED
  BY <1>2 DEF FoundOrders

(* main leaves the start by starting or ending the process, and does not come back. *)
LEMMA MainStarts ==
  ASSUME Main
  PROVE  \/ pc["main"] \notin Starting /\ UNCHANGED pc
         \/ pc' = [t \in Threads |-> IF t = "main" THEN "ready" ELSE "connecting"]
         \/ \E label \in Labels \ Starting : Goto("main", label)
<1> USE DEF Starting, Labels
<1> DEFINE Elsewhere == \E label \in Labels \ Starting : Goto("main", label)
<1>1. ASSUME BeginCycle \/ EndRun \/ Diff \/ RecordCancel \/ EndCancels \/ EndCycle \/ Abort
      PROVE  Elsewhere
  BY <1>1 DEF BeginCycle, EndRun, Diff, RecordCancel, EndCancels, EndCycle, Abort
<1>2. ASSUME GenerateId \/ Save \/ Send \/ TimedOut \/ Raise \/ RecordAck \/ Acknowledged
      PROVE  Elsewhere
  BY <1>2 DEF GenerateId, Save, Send, TimedOut, Raise, RecordAck, Acknowledged
<1>3. ASSUME Consume \/ Rejected \/ Interrupt \/ Resolve PROVE Elsewhere
  BY <1>3 DEF Consume, Rejected, Interrupt, Resolve, NextProposal
<1>4. ASSUME NEW o \in Orders, CancelOrder(o)
      PROVE  pc["main"] = "cancel" /\ (UNCHANGED pc \/ Elsewhere)
  BY <1>4 DEF CancelOrder
<1>5. ASSUME NEW l \in Levels, RequestApproval(l)
      PROVE  pc["main"] = "create" /\ (UNCHANGED pc \/ Elsewhere)
  BY <1>5 DEF RequestApproval
<1>6. ASSUME Start
      PROVE  pc' = [t \in Threads |-> IF t = "main" THEN "ready" ELSE "connecting"]
  BY <1>6 DEF Start
<1> QED
  BY <1>1, <1>2, <1>3, <1>4, <1>5, <1>6 DEF Main

(* Until trading starts, main reconciles, the exchange goes on, and nothing else happens. *)
LEMMA StartSteps ==
  ASSUME Typed, Settling, [Next]_vars
  PROVE  \/ pc'["main"] \notin Starting
         \/ Restart
         \/ /\ pc["main"] \in Starting
            /\ ResolveState("main") /\ UNCHANGED venue
         \/ pc["main"] \in Starting /\ UNCHANGED <<pc, rec, intents>>
<1>0. pc \in [Threads -> Labels] /\ "main" \in Threads
  BY MainIsNoStream DEF Typed, TypeOK
<1>1. CASE Main
  <2>1. ASSUME NEW label \in Labels \ Starting, Goto("main", label)
        PROVE  pc'["main"] \notin Starting
    BY <1>0, <2>1, GotoTyped
  <2>2. "ready" \notin Starting
    BY DEF Starting
  <2> QED
    BY <1>0, <1>1, <2>1, <2>2, MainStarts
<1>2. CASE Stream
  <2>1. \E t \in Streams : pc[t] # "off"
    <3>1. ASSUME ReadUpdate \/ BookTrade \/ ReportFill \/ WriteUpdate
          PROVE  "user" \in Streams /\ pc["user"] # "off"
      BY <3>1 DEF ReadUpdate, BookTrade, ReportFill, WriteUpdate, At
    <3>2. ASSUME NEW t \in Streams,
                 Connect(t) \/ LoseConnection(t) \/ Reconnect(t) \/ Reconciled(t)
          PROVE  pc[t] # "off"
      BY <3>2 DEF Connect, LoseConnection, Reconnect, Reconciled, At
    <3> QED
      BY <1>2, <3>1, <3>2 DEF Stream
  <2>2. pc["main"] \notin Starting
    BY <2>1 DEF Settling
  <2>3. UNCHANGED pc \/ \E t \in Streams, label \in Labels : Goto(t, label)
    BY <1>2, StreamLabelStep
  <2>4. pc'["main"] = pc["main"]
    BY <1>0, <2>3, GotoTyped, MainIsNoStream
  <2> QED
    BY <2>2, <2>4
<1>3. ASSUME NEW t \in Threads, Reconcile(t)
      PROVE  \/ pc'["main"] \notin Starting
             \/ /\ pc["main"] \in Starting
                /\ ResolveState("main") /\ UNCHANGED venue
  <2>1. pc[t] \in {"fetch", "list", "next", "book", "write"}
    BY <1>3 DEF Reconcile, ResolveState, FetchExchangeState, ListIntents, QueryUnknown,
       SyncActive, BookFill, WriteStatus, EndUnknown, EndActive
  <2>2. CASE t = "main"
    BY <1>3, <2>1, <2>2 DEF Reconcile, exchange, Starting
  <2>3. CASE t # "main"
    <3>1. pc["main"] \notin Starting
      BY <2>1, <2>3 DEF Settling, Threads
    <3>2. PICK label \in {"list", "next", "book", "write", "resolved", "failed"} : Goto(t, label)
      BY <1>3, ReconcileLabels DEF Reconcile
    <3>3. pc'["main"] = pc["main"]
      BY <1>0, <2>3, <3>2, GotoTyped DEF Labels
    <3> QED
      BY <3>1, <3>3
  <2> QED
    BY <2>2, <2>3
<1>4. CASE Trading \/ UNCHANGED vars
  BY <1>4 DEF Trading, vars, locals, store
<1> QED
  BY <1>1, <1>2, <1>3, <1>4 DEF Next

(* Each step of main's reconciliation establishes what its next one needs. *)
LEMMA ReconcileSettles ==
  ASSUME Typed, Settling, pc["main"] \in Starting, ResolveState("main"), UNCHANGED venue
  PROVE  \E label \in Labels : \E r :
            /\ Goto("main", label) /\ rec'["main"] = r
            /\ Settles(label, r, FoundOrders, ActiveIntents')
<1> DEFINE row == rec["main"]
           Goal(label, r) == /\ label \in Labels
                             /\ Goto("main", label) /\ rec'["main"] = r
                             /\ Settles(label, r, FoundOrders, ActiveIntents')
           Reaches == \E label, r : Goal(label, r)
<1>0. /\ rec \in [Threads -> Locals] /\ "main" \in Threads
      /\ row \in Locals /\ row.listing \in [Orders -> VenueRecords]
      /\ intents \in [Orders -> IntentRecords]
  BY MainIsNoStream, LocalsOf DEF Typed, TypeOK
<1>1. /\ Settles(pc["main"], row, FoundOrders, ActiveIntents)
      /\ \A l \in {"list", "next", "book", "write", "resolved", "failed"} :
            l \in Labels /\ l \in Starting \ {"fetch"}
  BY DEF Settling, Labels, Starting
<1>2. UNCHANGED intents => ActiveIntents' = ActiveIntents
  BY DEF ActiveIntents, HasIntent
<1>3. \A o \in Orders : NoLocals.listing[o].state = "NONE"
  BY DEF NoLocals, Unsent
<1>4. ASSUME NEW label, NEW r, label \in Labels, Goto("main", label),
             rec' = [rec EXCEPT !["main"] = r],
             Settles(label, r, FoundOrders, ActiveIntents')
      PROVE  Reaches
  <2>1. rec'["main"] = r
    BY <1>0, <1>4
  <2> QED
    BY <1>4, <2>1
<1>5. ASSUME Fail("main") PROVE Reaches
  <2>1. Settles("failed", NoLocals, FoundOrders, ActiveIntents')
    BY <1>3 DEF Settles
  <2> QED
    BY <1>1, <1>4, <1>5, <2>1 DEF Fail, Return
<1> HIDE DEF Reaches
<1>6. ASSUME FetchExchangeState("main") PROVE Reaches
  <2> DEFINE L == [o \in Orders |-> IF Live(o) THEN venue[o] ELSE Unsent]
             r == [row EXCEPT !.listing = L]
  <2>1. \/ Fail("main")
        \/ rec' = [rec EXCEPT !["main"] = r] /\ Goto("main", "list")
    BY <1>0, <1>6 DEF FetchExchangeState
  <2>2. \A o \in Orders : L[o].state # "NONE" => o \in FoundOrders
    BY DEF FoundOrders, Found, Live, Unsent
  <2> HIDE DEF L
  <2>3. r.listing = L
    BY <1>0 DEF Locals
  <2> HIDE DEF r
  <2>4. Settles("list", r, FoundOrders, ActiveIntents')
    BY <2>2, <2>3 DEF Settles
  <2> QED
    BY <1>1, <1>4, <1>5, <2>1, <2>4
<1>7. ASSUME ListIntents("main") PROVE Reaches
  <2> DEFINE todo == IF row.phase = "unknown" THEN UnknownIntents ELSE ActiveIntents
             filled == [o \in Orders |-> intents[o].filled]
             r == [row EXCEPT !.todo = todo, !.filled = filled]
  <2>1. /\ rec' = [rec EXCEPT !["main"] = r] /\ Goto("main", "next")
        /\ UNCHANGED intents /\ pc["main"] = "list"
    BY <1>0, <1>7 DEF ListIntents, store
  <2>2. row.phase = "active" => todo = ActiveIntents
    OBVIOUS
  <2> HIDE DEF todo, filled
  <2>3. r.listing = row.listing /\ r.todo = todo /\ r.phase = row.phase
    BY <1>0 DEF Locals
  <2> HIDE DEF r
  <2>4. Settles("next", r, FoundOrders, ActiveIntents')
    BY <1>1, <1>2, <2>1, <2>2, <2>3 DEF Settles
  <2> QED
    BY <1>1, <1>4, <2>1, <2>4
<1>8. ASSUME NEW o \in Orders, QueryUnknown("main", o) PROVE Reaches
  <2>0. UNCHANGED intents /\ pc["main"] = "next" /\ row.phase = "unknown"
    BY <1>8 DEF QueryUnknown, TakeUp, Fail, store
  <2>1. ASSUME NEW r, rec' = [rec EXCEPT !["main"] = r], Goto("main", "book"),
               r.phase = "unknown",
               \A p \in Orders : r.listing[p].state # "NONE" =>
                  p \in FoundOrders \/ row.listing[p].state # "NONE"
        PROVE  Reaches
    <3>1. Settles("book", r, FoundOrders, ActiveIntents')
      BY <1>1, <2>0, <2>1 DEF Settles
    <3> QED
      BY <1>1, <1>4, <2>1, <3>1
  <2>2. ASSUME NEW answer, TakeUp("main", o, answer, FALSE) PROVE Reaches
    <3> DEFINE todo == row.todo \ {o}
               r == [row EXCEPT !.todo = todo, !.order = o, !.answer = answer,
                                !.listed = FALSE]
    <3>1. rec' = [rec EXCEPT !["main"] = r] /\ Goto("main", "book")
      BY <1>0, <2>2 DEF TakeUp
    <3> HIDE DEF todo
    <3>2. r.listing = row.listing /\ r.phase = row.phase
      BY <1>0 DEF Locals
    <3> HIDE DEF r
    <3> QED
      BY <2>0, <2>1, <3>1, <3>2
  <2>3. ASSUME /\ Goto("main", "book")
               /\ rec' = [rec EXCEPT !["main"] = [@ EXCEPT
                            !.todo = row.todo \ {o}, !.order = o, !.answer = venue[o],
                            !.listing[o] = IF Live(o) THEN venue[o] ELSE row.listing[o],
                            !.listed = FALSE]]
        PROVE  Reaches
    <3> DEFINE todo == row.todo \ {o}
               entry == IF Live(o) THEN venue[o] ELSE row.listing[o]
               L == [row.listing EXCEPT ![o] = entry]
               r == [row EXCEPT !.todo = todo, !.order = o, !.answer = venue[o],
                                !.listing = L, !.listed = FALSE]
    <3>1. rec' = [rec EXCEPT !["main"] = r] /\ Goto("main", "book")
      BY <1>0, <2>3 DEF Locals
    <3>2. \A p \in Orders : L[p].state # "NONE" =>
             p \in FoundOrders \/ row.listing[p].state # "NONE"
      BY <1>0 DEF FoundOrders, Found, Live
    <3> HIDE DEF todo, entry, L
    <3>3. r.listing = L /\ r.phase = row.phase
      BY <1>0 DEF Locals
    <3> HIDE DEF r
    <3>4. \A p \in Orders : r.listing[p].state # "NONE" =>
             p \in FoundOrders \/ row.listing[p].state # "NONE"
      BY <3>2, <3>3
    <3> QED
      BY <2>0, <2>1, <3>1, <3>3, <3>4
  <2> QED
    BY <1>5, <1>8, <2>2, <2>3 DEF QueryUnknown
<1>9. ASSUME NEW o \in Orders, SyncActive("main", o) PROVE Reaches
  <2>0. UNCHANGED intents /\ pc["main"] = "next" /\ row.phase = "active"
    BY <1>9 DEF SyncActive, TakeUp, Fail, store
  <2>1. ASSUME NEW answer, NEW listed, TakeUp("main", o, answer, listed), o \in FoundOrders
        PROVE  Reaches
    <3> DEFINE todo == row.todo \ {o}
               r == [row EXCEPT !.todo = todo, !.order = o, !.answer = answer,
                                !.listed = listed]
    <3>1. rec' = [rec EXCEPT !["main"] = r] /\ Goto("main", "book")
      BY <1>0, <2>1 DEF TakeUp
    <3>2. row.todo \cup FoundOrders = todo \cup FoundOrders
      BY <2>1
    <3> HIDE DEF todo
    <3>3. r.listing = row.listing /\ r.phase = row.phase /\ r.order = o /\ r.todo = todo
      BY <1>0 DEF Locals
    <3> HIDE DEF r
    <3>4. Settles("book", r, FoundOrders, ActiveIntents')
      BY <1>1, <1>2, <2>0, <2>1, <3>2, <3>3 DEF Settles
    <3> QED
      BY <1>1, <1>4, <3>1, <3>4
  <2>2. Listed("main", o) => o \in FoundOrders
    BY <1>1, <2>0 DEF Settles, Listed
  <2> QED
    BY <1>5, <1>9, <2>1, <2>2 DEF SyncActive, FoundOrders
<1>10. ASSUME BookFill("main") \/ WriteStatus("main") PROVE Reaches
  <2>1. /\ rec' = [rec EXCEPT !["main"] = row] /\ pc["main"] \in {"book", "write"}
        /\ Goto("main", IF pc["main"] = "book" THEN "write" ELSE "next")
    BY <1>0, <1>10 DEF BookFill, WriteStatus
  <2>2. CASE BookFill("main")
    <3>1. UNCHANGED intents \/ \E id, o, q : AddFill(id, o, q)
      BY <2>2 DEF BookFill, store
    <3>2. ASSUME NEW id, NEW o, NEW q, AddFill(id, o, q) PROVE ActiveIntents' = ActiveIntents
      <4> DEFINE more == intents[o].filled + q
      <4>1. intents' = intents \/ intents' = [intents EXCEPT ![o].filled = more]
        BY <3>2 DEF AddFill
      <4> HIDE DEF more
      <4>2. \A p \in Orders : intents'[p].status = intents[p].status
        BY <1>0, <4>1 DEF IntentRecords
      <4> QED
        BY <4>2 DEF ActiveIntents, HasIntent
    <3>3. ActiveIntents' = ActiveIntents /\ pc["main"] = "book"
      BY <1>2, <2>2, <3>1, <3>2 DEF BookFill
    <3>4. Settles("write", row, FoundOrders, ActiveIntents')
      BY <1>1, <3>3 DEF Settles
    <3> QED
      BY <1>1, <1>4, <2>1, <3>3, <3>4
  <2>3. CASE WriteStatus("main")
    <3> DEFINE s == Mapped(row.answer.state)
    <3>1. /\ intents' = [intents EXCEPT ![row.order].status = IF HasIntent(row.order) THEN s ELSE @]
          /\ pc["main"] = "write"
      BY <2>3 DEF WriteStatus, UpdateIntentStatus
    <3>2. row.order \in Orders
      BY <1>0, <3>1 DEF Typed, RecSound
    <3> HIDE DEF s
    <3>3. ActiveIntents' \subseteq ActiveIntents \cup {row.order}
      BY <1>0, <3>1, <3>2 DEF ActiveIntents, HasIntent, IntentRecords
    <3>4. Settles("next", row, FoundOrders, ActiveIntents')
      BY <1>1, <3>1, <3>3 DEF Settles
    <3> QED
      BY <1>1, <1>4, <2>1, <3>1, <3>4
  <2> QED
    BY <1>10, <2>2, <2>3
<1>11. ASSUME EndUnknown("main") PROVE Reaches
  <2> DEFINE r == [row EXCEPT !.phase = "active"]
  <2>1. /\ rec' = [rec EXCEPT !["main"] = r] /\ Goto("main", "list")
        /\ pc["main"] = "next"
    BY <1>0, <1>11 DEF EndUnknown
  <2>2. r.listing = row.listing
    BY <1>0 DEF Locals
  <2> HIDE DEF r
  <2>3. Settles("list", r, FoundOrders, ActiveIntents')
    BY <1>1, <2>1, <2>2 DEF Settles
  <2> QED
    BY <1>1, <1>4, <2>1, <2>3
<1>12. ASSUME EndActive("main") PROVE Reaches
  <2>1. /\ Return("main", "resolved") \/ Return("main", "failed")
        /\ row.todo = {} /\ row.phase = "active" /\ pc["main"] = "next"
        /\ UNCHANGED intents
    BY <1>12 DEF EndActive, store
  <2>2. ActiveIntents' \subseteq FoundOrders
    BY <1>1, <1>2, <2>1 DEF Settles
  <2>3. \A label \in {"resolved", "failed"} :
           Settles(label, NoLocals, FoundOrders, ActiveIntents')
    BY <1>3, <2>2 DEF Settles
  <2> QED
    BY <1>1, <1>4, <2>1, <2>3 DEF Return
<1>13. Reaches
  BY <1>6, <1>7, <1>8, <1>9, <1>10, <1>11, <1>12 DEF ResolveState
<1> QED
  BY <1>13 DEF Reaches

LEMMA SettlingInit == Init => Settling
<1> SUFFICES ASSUME Init PROVE Settling
  OBVIOUS
<1>1. pc["main"] = "fetch" /\ \A t \in Streams : pc[t] = "off"
  BY MainIsNoStream DEF Init, Boot
<1> QED
  BY <1>1 DEF Settling, Settles

LEMMA SettlingStep == StartsSettled /\ [Next]_vars => Settling'
<1> SUFFICES ASSUME StartsSettled, [Next]_vars PROVE Settling'
  OBVIOUS
<1>1. Booked /\ Settling /\ Typed /\ pc \in [Threads -> Labels]
  BY DEF StartsSettled, Booked, Accounted, Typed, TypeOK
<1>2. FoundOrders \subseteq FoundOrders'
  BY <1>1, FoundStays
<1>3. CASE pc'["main"] \notin Starting
  BY <1>3 DEF Settling, Settles, Starting
<1>4. CASE Restart
  <2>1. pc'["main"] = "fetch" /\ \A t \in Streams : pc'[t] = "off"
    BY <1>4, MainIsNoStream DEF Restart, Boot
  <2> QED
    BY <2>1 DEF Settling, Settles
<1>5. CASE pc["main"] \in Starting /\ ResolveState("main") /\ UNCHANGED venue
  <2> DEFINE r == rec'["main"]
  <2>1. PICK label \in Labels : /\ Goto("main", label)
                                /\ Settles(label, r, FoundOrders, ActiveIntents')
    BY <1>1, <1>5, ReconcileSettles
  <2>2. pc'["main"] = label /\ \A t \in Streams : pc'[t] = "off"
    BY <1>1, <1>5, <2>1, GotoTyped, MainIsNoStream DEF Settling
  <2>3. Settles(pc'["main"], rec'["main"], FoundOrders', ActiveIntents')
    BY <1>2, <2>1, <2>2, SettlesMore
  <2> QED
    BY <2>2, <2>3 DEF Settling
<1>6. CASE pc["main"] \in Starting /\ UNCHANGED <<pc, rec, intents>>
  <2>1. ActiveIntents' = ActiveIntents
    BY <1>6 DEF ActiveIntents, HasIntent
  <2>2. Settles(pc["main"], rec["main"], FoundOrders', ActiveIntents')
    BY <1>1, <1>2, <2>1, SettlesMore DEF Settling
  <2> QED
    BY <1>1, <1>6, <2>2 DEF Settling
<1> QED
  BY <1>1, <1>3, <1>4, <1>5, <1>6, StartSteps

(* Trading starts only after the reconciliation has found at the exchange every order that
   the store takes for active, wherever the last process crashed and whatever the exchange
   does meanwhile (reconciliation.py resolve_state, bot_runner.py). *)
THEOREM StartCorrect == Spec => []StartsReconciled
<1>1. Init => StartsSettled
  BY BookedInit, SettlingInit DEF StartsSettled
<1>2. StartsSettled /\ [Next]_vars => StartsSettled'
  BY BookedStep, SettlingStep DEF StartsSettled
<1>3. StartsSettled => StartsReconciled
  BY StartHolds DEF StartsSettled
<1> QED
  BY <1>1, <1>2, <1>3, PTL DEF Spec
=============================================================================
