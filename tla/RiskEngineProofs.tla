-------------------------- MODULE RiskEngineProofs --------------------------
(***************************************************************************)
(* Theorems about RiskEngine, for every limit and every finite set of      *)
(* orders, fills, approvals and amounts.                                   *)
(***************************************************************************)
EXTENDS RiskEngine, RiskUnitsProofs

USE DEF Invalid, NotConfirmed

(***************************************************************************)
(* Types                                                                   *)
(***************************************************************************)

(* The constants' assumptions, and what they say of the inputs. *)
LEMMA Constants ==
  /\ Limit \in Nat /\ MaxApprovals \in Nat /\ MaxQty \in Nat
  /\ IsFiniteSet(Orders)
  /\ IsFiniteSet(Approvals)
  /\ Inputs \subseteq Int
  /\ \A q \in Inputs : IsValidNonNegative(q) => q \in Nat
BY LimitAssumption, OrdersAssumption, MaxApprovalsAssumption, MaxQtyAssumption,
   FS_Interval DEF Approvals, Inputs, IsValidNonNegative

(* The initial state is well typed. *)
LEMMA TypeInit == Init => TypeOK
BY Constants DEF Init, Fresh, TypeOK, SystemStates, ApprovalStatuses, OrderStates, OrderRecords,
   Absent, Approvals

(* Replacing fields of a record by values of their types keeps the type. *)
LEMMA RecordUpdates ==
  ASSUME NEW r \in OrderRecords, NEW s \in OrderStates, NEW q \in Nat, NEW p \in Nat
  PROVE  /\ [r EXCEPT !.filled = q, !.seen = p, !.state = s] \in OrderRecords
         /\ [r EXCEPT !.state = s, !.total = p, !.filled = q] \in OrderRecords
         /\ [r EXCEPT !.state = s, !.filled = p, !.total = q] \in OrderRecords
         /\ [r EXCEPT !.state = s, !.filled = q] \in OrderRecords
         /\ [r EXCEPT !.state = s] \in OrderRecords
         /\ [r EXCEPT !.seen = q] \in OrderRecords
         /\ [r EXCEPT !.cancel_requested = TRUE] \in OrderRecords
BY DEF OrderRecords

(* The handlers turn order records into order records. *)
LEMMA RecordTypes ==
  ASSUME NEW r \in OrderRecords, NEW q \in Nat
  PROVE  /\ NewOrder(q) \in OrderRecords
         /\ CountLate(r, q) \in OrderRecords
         /\ Filled(r, q) \in OrderRecords
         /\ CanceledAt(r, q) \in OrderRecords
         /\ FilledAt(r, q) \in OrderRecords
         /\ ResolvedAt(r, q) \in OrderRecords
         /\ [r EXCEPT !.cancel_requested = TRUE] \in OrderRecords
         /\ [r EXCEPT !.state = "OPEN"] \in OrderRecords
         /\ Unseen(r, q) \in Nat
         /\ r.initial \in Nat /\ r.filled \in Nat /\ r.seen \in Nat
<1>1. NewOrder(q) \in OrderRecords
  BY DEF NewOrder, Absent, OrderRecords, OrderStates
<1>2. /\ r.state \in OrderStates
      /\ r.initial \in Nat /\ r.filled \in Nat /\ r.seen \in Nat
  BY DEF OrderRecords
<1>3. Unseen(r, q) \in Nat
  BY <1>2 DEF Unseen
<1>4. CountLate(r, q) \in OrderRecords
  <2>1. r.seen + q \in Nat
    BY <1>2
  <2>2. [r EXCEPT !.seen = r.seen + q] \in OrderRecords /\ [r EXCEPT !.seen = r.seen] \in OrderRecords
     BY <1>2, <2>1, RecordUpdates DEF OrderStates
  <2> QED
    BY <2>2 DEF CountLate
<1>5. Filled(r, q) \in OrderRecords
  <2>1. /\ r.filled + q \in Nat /\ r.seen + q \in Nat
        /\ (IF r.filled + q >= r.initial THEN "FILLED" ELSE "PARTIALLY_FILLED")
             \in OrderStates
    BY <1>2 DEF OrderStates
  <2> QED
    BY <2>1, RecordUpdates DEF Filled
<1>6. /\ CanceledAt(r, q) \in OrderRecords
      /\ FilledAt(r, q) \in OrderRecords
      /\ ResolvedAt(r, q) \in OrderRecords
      /\ [r EXCEPT !.state = "OPEN"] \in OrderRecords
      /\ [r EXCEPT !.cancel_requested = TRUE] \in OrderRecords
  <2>1. /\ r.filled + Unseen(r, q) \in Nat 
        /\ "CANCELED" \in OrderStates /\ "OPEN" \in OrderStates /\ "FILLED" \in OrderStates
    BY <1>2, <1>3 DEF OrderStates
  <2> QED
    BY <2>1, RecordUpdates DEF CanceledAt, FilledAt, ResolvedAt
<1> QED
  BY <1>1, <1>2, <1>3, <1>4, <1>5, <1>6

(* Every step of the engine leaves a well typed state well typed. *)
LEMMA TypeStep == TypeOK /\ [Next]_vars => TypeOK'
<1> SUFFICES ASSUME TypeOK, [Next]_vars PROVE TypeOK'
  OBVIOUS
<1> USE Constants DEF TypeOK
<1>1. ASSUME NEW past \in SUBSET (Recorded \ lapsed), AdvanceTime(past) PROVE TypeOK'
  BY <1>1 DEF AdvanceTime, Recorded, ledger
<1>2. ASSUME NEW amount \in Inputs, RequestApproval(amount) PROVE TypeOK'
  BY <1>2 DEF RequestApproval, Grants, IsValidAmount, ApprovalStatuses, Approvals, ledger
<1>3. CASE CleanupExpired
  <2>1. Expired \subseteq active
    BY DEF Expired
  <2>2. Part(registry, Approvals \ Expired) \in [Approvals -> Nat]
    BY DEF Part
  <2>3. Part(registry, Expired) \in [Approvals -> Nat]
    BY DEF Part
  <2>4. Total(Part(registry, Expired)) \in Nat
    BY <2>3, TotalIsNat
  <2>5. status' \in [Approvals -> ApprovalStatuses]
    BY <1>3 DEF CleanupExpired, ApprovalStatuses
  <2>6. active' \subseteq Approvals
    BY <1>3 DEF CleanupExpired
  <2> QED
    BY <1>3, <2>2, <2>4, <2>5, <2>6 DEF CleanupExpired
<1>4. ASSUME NEW a \in Approvals, NEW own \in BOOLEAN, ConsumeWhileUnknown(a, own)
      PROVE  TypeOK'
  BY <1>4 DEF ConsumeWhileUnknown, RejectApproval, DropRecord, ApprovalStatuses
<1>5. ASSUME NEW a \in Approvals, ConsumeExpired(a) PROVE TypeOK'
  BY <1>5 DEF ConsumeExpired, RejectApproval, DropRecord, ApprovalStatuses
<1>6. ASSUME NEW a \in Approvals, NEW o \in Orders, NEW matches \in BOOLEAN,
             ConsumeRejected(a, o, matches)
      PROVE  TypeOK'
  BY <1>6 DEF ConsumeRejected, RejectApproval, DropRecord, ApprovalStatuses
<1>7. ASSUME NEW a \in Approvals, NEW o \in Orders, NEW matches \in BOOLEAN,
             ConsumeAndSubmit(a, o, matches)
      PROVE  TypeOK'
  BY <1>7, RecordTypes DEF ConsumeAndSubmit, DropRecord, ApprovalStatuses, ledger
<1>8. ASSUME NEW o \in Orders, NEW f \in Fills, NEW amount \in Inputs,
             OnLateFill(o, f, amount)
      PROVE  TypeOK'
  <2>1. amount \in Nat
    BY <1>8 DEF OnLateFill, NewFill, IsValidAmount
  <2>2. CountLate(orders[o], amount) \in OrderRecords
    BY <2>1, RecordTypes
  <2> QED
    BY <1>8, <2>2 DEF OnLateFill, NewFill, RaiseConflict, EnterReconciling, SystemStates,
       ledger, approvals
<1>9. ASSUME NEW o \in Orders, NEW f \in Fills, NEW amount \in Inputs,
             OnOverFill(o, f, amount)
      PROVE  TypeOK'
  BY <1>9 DEF OnOverFill, NewFill, RaiseConflict, EnterReconciling, SystemStates,
     ledger, approvals
<1>10. ASSUME NEW o \in Orders, NEW f \in Fills, NEW amount \in Inputs,
              OnFill(o, f, amount)
       PROVE  TypeOK'
  <2>1. amount \in Nat
    BY <1>10 DEF OnFill, NewFill, IsValidAmount
  <2>2. Filled(orders[o], amount) \in OrderRecords
    BY <2>1, RecordTypes
  <2> QED
    BY <1>10, <2>1, <2>2 DEF OnFill, NewFill, BumpRiskVersion, Recorded
<1>11. ASSUME NEW o \in Orders, RequestCancel(o) PROVE TypeOK'
  BY <1>11, RecordTypes DEF RequestCancel, ledger, approvals
<1>12. ASSUME NEW report \in Inputs, OnInvalidReport(report) PROVE TypeOK'
  BY <1>12 DEF OnInvalidReport, EnterReconciling, SystemStates, ledger, approvals
<1>13. ASSUME NEW o \in Orders, OnContradiction(o) PROVE TypeOK'
  BY <1>13 DEF OnContradiction, RaiseConflict, EnterReconciling, BumpRiskVersion,
     Recorded, SystemStates, ledger
<1>14. ASSUME NEW o \in Orders, NEW report \in Nat, SettleCanceled(o, report)
       PROVE  /\ orders' \in [Orders -> OrderRecords]
              /\ current_position' \in Int
              /\ reservations' \in Int
  <2>1. /\ CanceledAt(orders[o], report) \in OrderRecords
        /\ Unseen(orders[o], report) \in Nat
        /\ orders[o].initial \in Nat /\ orders[o].filled \in Nat
    BY RecordTypes
  <2> QED
    BY <1>14, <2>1 DEF SettleCanceled
<1>15. ASSUME NEW o \in Orders, NEW report \in Inputs, OnCancelConfirmed(o, report)
       PROVE  TypeOK'
  BY <1>14, <1>15 DEF OnCancelConfirmed, BumpRiskVersion, Recorded
<1>16. ASSUME NEW o \in Orders, NEW report \in Inputs, NEW final_state \in OrderStates,
              ResolveOrder(o, final_state, report)
       PROVE  TypeOK'
  <2>1. /\ orders' \in [Orders -> OrderRecords]
        /\ current_position' \in Int
        /\ reservations' \in Int
    <3>1. report \in Nat
      BY <1>16 DEF ResolveOrder
    <3>2. /\ FilledAt(orders[o], report) \in OrderRecords
          /\ [orders[o] EXCEPT !.state = "OPEN"] \in OrderRecords
          /\ Unseen(orders[o], report) \in Nat
      BY <3>1, RecordTypes
    <3> QED
      BY <1>14, <1>16, <3>1, <3>2 DEF ResolveOrder, ledger
  <2> QED
    BY <1>16, <2>1 DEF ResolveOrder, BumpRiskVersion, Recorded
<1>17. ASSUME NEW o \in Orders, NEW report \in Inputs, ResolveConflict(o, report)
       PROVE  TypeOK'
  <2>1. report \in Nat
    BY <1>17 DEF ResolveConflict
  <2>2. /\ ResolvedAt(orders[o], report) \in OrderRecords
        /\ orders[o].initial \in Nat /\ orders[o].filled \in Nat
    BY <2>1, RecordTypes
  <2>3. HeldBeforeResolution(orders[o]) \in Int
    BY <2>2 DEF HeldBeforeResolution
  <2> QED
    BY <1>17, <2>1, <2>2, <2>3 DEF ResolveConflict, BumpRiskVersion, Recorded
<1>18. ASSUME NEW s \in SystemStates, MoveTo(s),
              stale' = stale \/ BumpRiskVersion
       PROVE  TypeOK'
  BY <1>18 DEF MoveTo, BumpRiskVersion, Recorded, ledger
<1>19. CASE \/ LoseConnection \/ RestoreConnection \/ CompleteReconciliation
            \/ ManualReset \/ Halt
  BY <1>18, <1>19 DEF LoseConnection, RestoreConnection, CompleteReconciliation,
     ManualReset, Halt, SystemStates
<1>20. CASE UNCHANGED vars
  BY <1>20 DEF vars, ledger, approvals
<1> QED
  BY <1>1, <1>2, <1>3, <1>4, <1>5, <1>6, <1>7, <1>8, <1>9, <1>10, <1>11, <1>12, <1>13,
     <1>15, <1>16, <1>17, <1>19, <1>20
  DEF Next, OnCancelContradicted, ResolveContradicted

(* Every value the engine holds has its type: in particular every recorded
   amount, every order's amounts and every confirmed total is a natural number,
   whatever the callers pass. *)
THEOREM TypeCorrect == Spec => []TypeOK
<1>1. Init => TypeOK
  BY TypeInit
<1>2. TypeOK /\ [Next]_vars => TypeOK'
  BY TypeStep
<1> QED
  BY <1>1, <1>2, PTL DEF Spec

(***************************************************************************)
(* What each handler does to one order                                     *)
(***************************************************************************)

(* An order that is consistent holds a natural number of units. *)
LEMMA HeldIsNat ==
  ASSUME NEW r \in OrderRecords, Consistent(r)
  PROVE  Held(r) \in Nat
BY DEF Held, Consistent, OrderRecords

(* A new order holds its whole amount and is UNKNOWN. *)
LEMMA NewOrderEffect ==
  ASSUME NEW q \in Nat
  PROVE  LET s == NewOrder(q)
         IN  Consistent(s) /\ Held(s) = q /\ s.filled = 0 /\ s.total = NotConfirmed
BY DEF NewOrder, Absent, Consistent, Held

(* A fill moves its amount from what the order holds to what is filled. *)
LEMMA FilledEffect ==
  ASSUME NEW r \in OrderRecords, Consistent(r), NEW q \in Nat,
         r.state \notin {"ABSENT", "CANCELED"}, ~OverFills(r, q)
  PROVE  LET s == Filled(r, q)
         IN  /\ Consistent(s) /\ Held(s) = Held(r) - q /\ s.filled = r.filled + q
             /\ s.state \in {"FILLED", "PARTIALLY_FILLED"} /\ s.total = NotConfirmed
<1> DEFINE s == Filled(r, q)
<1>1. /\ r.initial \in Nat /\ r.filled \in Nat /\ r.seen \in Nat
      /\ r.seen <= r.filled /\ r.total = NotConfirmed /\ r.filled + q <= r.initial
  BY DEF OrderRecords, Consistent, OverFills
<1>2. /\ s.filled = r.filled + q /\ s.seen = r.seen + q
      /\ s.initial = r.initial /\ s.total = r.total
      /\ s.state \in {"FILLED", "PARTIALLY_FILLED"}
  BY DEF Filled, OrderRecords
<1> HIDE DEF s
<1>3. Consistent(s) /\ Held(s) = Held(r) - q
  BY <1>1, <1>2 DEF Consistent, Held
<1> QED
  BY <1>1, <1>2, <1>3 DEF s

(* Counting a late fill that the confirmed total covers changes no amount. *)
LEMMA CountLateEffect ==
  ASSUME NEW r \in OrderRecords, Consistent(r), NEW q \in Nat, r.state = "CANCELED"
  PROVE  LET s == CountLate(r, q)
         IN  /\ Consistent(s) /\ Held(s) = Held(r) /\ s.filled = r.filled
             /\ s.state = "CANCELED" /\ s.total = r.total /\ s.seen = r.seen + q
<1> DEFINE s == CountLate(r, q)
<1>1. /\ s.filled = r.filled /\ s.seen = r.seen + q
      /\ s.initial = r.initial /\ s.total = r.total /\ s.state = "CANCELED"
  BY DEF CountLate, OrderRecords, Consistent
<1> HIDE DEF s
<1>2. Consistent(s) /\ Held(s) = Held(r)
  BY <1>1 DEF Consistent, Held
<1> QED
  BY <1>1, <1>2 DEF s

(* Settling a cancel leaves nothing held: what the order held is either moved to
   the position as an unseen fill or released as the remainder. *)
LEMMA CanceledEffect ==
  ASSUME NEW r \in OrderRecords, Consistent(r), NEW q \in Nat,
         r.state \notin {"ABSENT", "CANCELED"}, ~Contradicts(r, q)
  PROVE  LET s == CanceledAt(r, q)
         IN  /\ Consistent(s) /\ Held(s) = 0
             /\ s.filled = r.filled + Unseen(r, q)
             /\ s.state = "CANCELED" /\ s.total = q /\ s.seen = r.seen /\ s.seen <= q
             /\ Unseen(r, q) \in Nat
             /\ r.initial - (r.filled + Unseen(r, q)) \in Nat
             /\ Held(r) = r.initial - r.filled
<1> DEFINE s == CanceledAt(r, q)
<1>1. /\ r.initial \in Nat /\ r.filled \in Nat /\ r.seen \in Nat
      /\ r.seen <= r.filled /\ q <= r.initial /\ r.filled <= q
  BY DEF OrderRecords, Consistent, Contradicts
<1>2. Unseen(r, q) \in Nat /\ r.filled + Unseen(r, q) = q
  BY <1>1 DEF Unseen
<1>3. /\ s.filled = r.filled + Unseen(r, q) /\ s.seen = r.seen
      /\ s.initial = r.initial /\ s.total = q /\ s.state = "CANCELED"
  BY DEF CanceledAt, OrderRecords
<1> HIDE DEF s
<1>4. Consistent(s) /\ Held(s) = 0
  BY <1>1, <1>2, <1>3 DEF Consistent, Held
<1>5. Held(r) = r.initial - r.filled
  BY DEF Held
<1> QED
  BY <1>1, <1>2, <1>3, <1>4, <1>5 DEF s

(* Learning that an UNKNOWN order is FILLED moves the reported amount. *)
LEMMA FilledAtEffect ==
  ASSUME NEW r \in OrderRecords, Consistent(r), NEW q \in Nat,
         r.state = "UNKNOWN", q <= r.initial
  PROVE  LET s == FilledAt(r, q)
         IN  /\ Consistent(s) /\ Held(s) = Held(r) - Unseen(r, q)
             /\ s.filled = r.filled + Unseen(r, q)
             /\ s.state = "FILLED" /\ s.total = NotConfirmed
             /\ Unseen(r, q) \in Nat
<1> DEFINE s == FilledAt(r, q)
<1>1. /\ r.initial \in Nat /\ r.filled = 0 /\ r.seen \in Nat
      /\ r.seen <= r.filled /\ r.total = NotConfirmed
  BY DEF OrderRecords, Consistent
<1>2. Unseen(r, q) = q
  BY <1>1 DEF Unseen
<1>3. /\ s.filled = r.filled + Unseen(r, q) /\ s.seen = r.seen
      /\ s.initial = r.initial /\ s.total = r.total /\ s.state = "FILLED"
  BY DEF FilledAt, OrderRecords
<1> HIDE DEF s
<1>4. Consistent(s) /\ Held(s) = Held(r) - Unseen(r, q)
  BY <1>1, <1>2, <1>3 DEF Consistent, Held
<1> QED
  BY <1>1, <1>2, <1>3, <1>4 DEF s

(* Resolving a conflict settles the order at the verified amount. *)
LEMMA ResolvedEffect ==
  ASSUME NEW r \in OrderRecords, NEW q \in Nat, q <= r.initial
  PROVE  LET s == ResolvedAt(r, q)
         IN  /\ Consistent(s) /\ Held(s) = 0 /\ s.filled = q
             /\ s.state = "CANCELED" /\ s.total = q
<1> DEFINE s == ResolvedAt(r, q)
<1>1. /\ s.filled = q /\ s.initial = r.initial /\ s.total = q /\ s.state = "CANCELED"
  BY DEF ResolvedAt, OrderRecords
<1> HIDE DEF s
<1>2. Consistent(s) /\ Held(s) = 0
  BY <1>1 DEF Consistent, Held
<1> QED
  BY <1>1, <1>2 DEF s

(* A cancel request and an OPEN acknowledgement move no amount. *)
LEMMA FlagEffect ==
  ASSUME NEW r \in OrderRecords, Consistent(r)
  PROVE  /\ LET s == [r EXCEPT !.cancel_requested = TRUE]
            IN  /\ Consistent(s) /\ Held(s) = Held(r) /\ s.filled = r.filled
                /\ s.state = r.state /\ s.total = r.total /\ s.seen = r.seen
         /\ r.state = "UNKNOWN" =>
            LET s == [r EXCEPT !.state = "OPEN"]
            IN  /\ Consistent(s) /\ Held(s) = Held(r) /\ s.filled = r.filled
                /\ s.state = "OPEN" /\ s.total = NotConfirmed
BY DEF Consistent, Held, OrderRecords

(***************************************************************************)
(* What each action does to the orders and to the ledger                   *)
(***************************************************************************)

(* The tables that the ledger's invariant sums over. *)
LEMMA Tables ==
  ASSUME TypeOK, OrdersConsistent
  PROVE  /\ HeldByOrders \in [Orders -> Nat]
         /\ FilledByOrder \in [Orders -> Nat]
         /\ Total(HeldByOrders) \in Nat
         /\ Total(FilledByOrder) \in Nat
         /\ Total(registry) \in Nat
<1>1. \A o \in Orders : Held(orders[o]) \in Nat /\ orders[o].filled \in Nat
  BY HeldIsNat DEF TypeOK, OrdersConsistent, OrderRecords
<1>2. HeldByOrders \in [Orders -> Nat] /\ FilledByOrder \in [Orders -> Nat]
  BY <1>1 DEF HeldByOrders, FilledByOrder
<1>3. registry \in [Approvals -> Nat]
  BY DEF TypeOK
<1> QED
  BY <1>2, <1>3, Constants, TotalIsNat

(* Replacing one order by a consistent record changes what is held and what is
   filled by the differences of that order. *)
LEMMA OrderReplaced ==
  ASSUME TypeOK, OrdersConsistent,
         NEW o \in Orders, NEW s \in OrderRecords, Consistent(s),
         orders' = [orders EXCEPT ![o] = s]
  PROVE  /\ OrdersConsistent'
         /\ Total(HeldByOrders)' = Total(HeldByOrders) - Held(orders[o]) + Held(s)
         /\ Total(FilledByOrder)' = Total(FilledByOrder) - orders[o].filled + s.filled
<1>1. orders' \in [Orders -> OrderRecords]
  BY DEF TypeOK
<1>2. OrdersConsistent'
  BY DEF TypeOK, OrdersConsistent
<1>3. \A p \in Orders : Held(orders'[p]) \in Nat /\ orders'[p].filled \in Nat
  BY <1>1, <1>2, HeldIsNat DEF OrdersConsistent, OrderRecords
<1>4. HeldByOrders' \in [Orders -> Nat] /\ FilledByOrder' \in [Orders -> Nat]
  BY <1>3 DEF HeldByOrders, FilledByOrder
<1>5. \A p \in Orders \ {o} : /\ HeldByOrders'[p] = HeldByOrders[p]
                              /\ FilledByOrder'[p] = FilledByOrder[p]
  BY DEF HeldByOrders, FilledByOrder, TypeOK
<1>6. /\ HeldByOrders[o] = Held(orders[o]) /\ HeldByOrders'[o] = Held(s)
      /\ FilledByOrder[o] = orders[o].filled /\ FilledByOrder'[o] = s.filled
  BY DEF HeldByOrders, FilledByOrder, TypeOK
<1>7. /\ Total(HeldByOrders') = Total(HeldByOrders) - HeldByOrders[o] + HeldByOrders'[o]
      /\ Total(FilledByOrder') = Total(FilledByOrder) - FilledByOrder[o] + FilledByOrder'[o]
  BY <1>4, <1>5, Constants, Tables, TotalUpdate
<1> QED
  BY <1>2, <1>6, <1>7

(* Dropping a record releases its amount from the sum of the records. *)
LEMMA RecordDropped ==
  ASSUME TypeOK, NEW a \in Approvals, DropRecord(a)
  PROVE  /\ Total(registry)' = Total(registry) - registry[a]
         /\ registry[a] \in Nat
<1>1. /\ registry \in [Approvals -> Nat] /\ registry' \in [Approvals -> Nat]
      /\ registry'[a] = 0
      /\ \A b \in Approvals \ {a} : registry'[b] = registry[b]
  BY DEF DropRecord, TypeOK
<1>2. /\ Total(registry') = Total(registry) - registry[a] + registry'[a]
      /\ Total(registry) \in Nat
  BY <1>1, Constants, TotalUpdate
<1> QED
  BY <1>1, <1>2

(* The expired approvals' amounts and the others' add up to the registry. *)
LEMMA ExpiredDropped ==
  ASSUME TypeOK, CleanupExpired
  PROVE  /\ Total(registry)' = Total(registry) - Total(Part(registry, Expired))
         /\ Total(Part(registry, Expired)) \in Nat
<1>1. /\ registry \in [Approvals -> Nat]
      /\ registry' = Part(registry, Approvals \ Expired)
  BY DEF TypeOK, CleanupExpired
<1>2. /\ Part(registry, Expired) \in [Approvals -> Nat]
      /\ Part(registry, Approvals \ Expired) \in [Approvals -> Nat]
  BY <1>1 DEF Part
<1>3. \A a \in Approvals :
         \/ /\ Part(registry, Expired)[a] = registry[a]
            /\ Part(registry, Approvals \ Expired)[a] = 0
         \/ /\ Part(registry, Expired)[a] = 0
            /\ Part(registry, Approvals \ Expired)[a] = registry[a]
  BY <1>1 DEF Part
<1>4. Total(registry) =
        Total(Part(registry, Expired)) + Total(Part(registry, Approvals \ Expired))
  BY <1>1, <1>2, <1>3, Constants, TotalSplit
<1>5. /\ Total(Part(registry, Expired)) \in Nat
      /\ Total(Part(registry, Approvals \ Expired)) \in Nat
  BY <1>2, Constants, TotalIsNat
<1> QED
  BY <1>1, <1>4, <1>5

(***************************************************************************)
(* The inductive invariant                                                 *)
(***************************************************************************)

(* The initial state satisfies the inductive invariant. *)
LEMMA InductiveInit == Init => Inductive
<1> SUFFICES ASSUME Init PROVE Inductive
  OBVIOUS
<1>1. TypeOK
  BY TypeInit
<1>2. OrdersConsistent
  BY DEF Init, Fresh, OrdersConsistent, Consistent, Absent
<1>3. \A o \in Orders : HeldByOrders[o] = 0 /\ FilledByOrder[o] = 0
  BY DEF Init, Fresh, HeldByOrders, FilledByOrder, Held, Absent
<1>4. Total(HeldByOrders) = 0 /\ Total(FilledByOrder) = 0
  BY <1>1, <1>2, <1>3, Tables, TotalOfZeros
<1>5. Total(registry) = 0
  BY <1>1, TotalOfZeros DEF Init, Fresh, TypeOK
<1>6. LedgerCovers
  BY <1>4, <1>5 DEF Init, Fresh, LedgerCovers
<1>7. ApprovalsConsistent
  BY <1>1 DEF Init, Fresh, ApprovalsConsistent, Recorded, Approvals
<1>8. ConflictGate /\ OneUnknownOrder
  BY DEF Init, Fresh, ConflictGate, HasDataConflicts, OneUnknownOrder, Absent
<1> QED
  BY <1>1, <1>2, <1>6, <1>7, <1>8 DEF Inductive

(* Settling a cancel moves to the position exactly what the orders' fills gain and
   releases exactly what the order held. *)
LEMMA SettleEffect ==
  ASSUME Inductive, NEW o \in Orders, NEW report \in Nat,
         orders[o].state \notin {"ABSENT", "CANCELED"},
         ~Contradicts(orders[o], report), SettleCanceled(o, report)
  PROVE  /\ OrdersConsistent'
         /\ orders' = [orders EXCEPT ![o] = CanceledAt(orders[o], report)]
         /\ current_position' = Total(FilledByOrder)'
         /\ reservations' - Total(registry) - Total(HeldByOrders)'
              = reservations - Total(registry) - Total(HeldByOrders)
         /\ current_position' + reservations' <= current_position + reservations
<1> DEFINE r == orders[o]
           s == CanceledAt(r, report)
<1>1. TypeOK /\ OrdersConsistent /\ LedgerCovers
  BY DEF Inductive
<1>2. r \in OrderRecords /\ Consistent(r) /\ s \in OrderRecords
  BY <1>1, RecordTypes DEF TypeOK, OrdersConsistent
<1>3. /\ Consistent(s) /\ Held(s) = 0
      /\ s.filled = r.filled + Unseen(r, report)
      /\ Unseen(r, report) \in Nat
      /\ r.initial - (r.filled + Unseen(r, report)) \in Nat
      /\ Held(r) = r.initial - r.filled
  BY <1>2, CanceledEffect
<1>4. orders' = [orders EXCEPT ![o] = s]
  BY DEF SettleCanceled
<1>5. /\ OrdersConsistent'
      /\ Total(HeldByOrders)' = Total(HeldByOrders) - Held(r) + Held(s)
      /\ Total(FilledByOrder)' = Total(FilledByOrder) - r.filled + s.filled
  BY <1>1, <1>2, <1>3, <1>4, OrderReplaced
<1>6. /\ current_position' = current_position + Unseen(r, report)
      /\ reservations' = reservations - Unseen(r, report)
                         - (r.initial - (r.filled + Unseen(r, report)))
  BY <1>3 DEF SettleCanceled
<1>7. /\ Total(HeldByOrders) \in Nat /\ Total(FilledByOrder) \in Nat
      /\ Total(registry) \in Nat
      /\ r.initial \in Nat /\ r.filled \in Nat
      /\ current_position \in Int /\ reservations \in Int
  BY <1>1, <1>2, Tables DEF TypeOK, OrderRecords
<1>8. current_position = Total(FilledByOrder)
  BY <1>1 DEF LedgerCovers
<1> HIDE DEF r, s
<1>9. /\ current_position' = Total(FilledByOrder)'
      /\ reservations' - Total(registry) - Total(HeldByOrders)'
           = reservations - Total(registry) - Total(HeldByOrders)
      /\ current_position' + reservations' <= current_position + reservations
  BY <1>3, <1>5, <1>6, <1>7, <1>8
<1> QED
  BY <1>4, <1>5, <1>9 DEF r, s

(* What is reserved beyond the approvals on record and the orders' remainders. *)
Unclaimed == reservations - Total(registry) - Total(HeldByOrders)

(* The one step that strands a reservation: resolve_conflict takes a FILLED order to hold
   nothing, and its fills may be fewer than its size (simulator.py:612). *)
StrandsRemainder ==
  \E o \in Orders, report \in Inputs :
    /\ ResolveConflict(o, report)
    /\ orders[o].state = "FILLED" /\ orders[o].filled < orders[o].initial

(* The position moves with the fills, and what is reserved moves with what is claimed. *)
LedgerMoves ==
  /\ OrdersConsistent'
  /\ current_position' = Total(FilledByOrder)'
  /\ \/ Unclaimed' = Unclaimed
     \/ Unclaimed' >= Unclaimed /\ StrandsRemainder

(* Every step keeps the orders consistent and moves the ledger with them. *)
LEMMA MovesStep ==
  Inductive /\ [Next]_vars => LedgerMoves
<1> SUFFICES ASSUME Inductive, [Next]_vars PROVE LedgerMoves
  OBVIOUS
<1>1. /\ TypeOK /\ OrdersConsistent
      /\ current_position = Total(FilledByOrder)
  BY DEF Inductive, LedgerCovers
<1>2. /\ Total(HeldByOrders) \in Nat /\ Total(FilledByOrder) \in Nat
      /\ Total(registry) \in Nat
      /\ current_position \in Int /\ reservations \in Int
  BY <1>1, Tables DEF TypeOK
<1>3. \A o \in Orders : orders[o] \in OrderRecords /\ Consistent(orders[o])
  BY <1>1 DEF TypeOK, OrdersConsistent
<1>4. ASSUME UNCHANGED <<orders, current_position>>,
             reservations' - Total(registry)' = reservations - Total(registry),
             reservations' \in Int, Total(registry)' \in Int
      PROVE  LedgerMoves
  <2>1. /\ OrdersConsistent'
        /\ Total(HeldByOrders)' = Total(HeldByOrders)
        /\ Total(FilledByOrder)' = Total(FilledByOrder)
    BY <1>1, <1>4 DEF OrdersConsistent, HeldByOrders, FilledByOrder
  <2> QED
    BY <1>1, <1>2, <1>4, <2>1 DEF LedgerMoves, Unclaimed
<1>5. CASE UNCHANGED <<orders, ledger, registry>>
  BY <1>2, <1>4, <1>5 DEF ledger
<1>6. ASSUME NEW amount \in Inputs, RequestApproval(amount)
      PROVE  LedgerMoves
  <2>1. /\ amount \in Nat
        /\ next_approval_id \in Approvals
        /\ reservations' = reservations + amount
        /\ registry' = [registry EXCEPT ![next_approval_id] = amount]
        /\ UNCHANGED <<orders, current_position>>
    BY <1>1, <1>6, Constants DEF RequestApproval, Grants, IsValidAmount, TypeOK, Approvals
  <2> PICK a \in Approvals : a = next_approval_id
    BY <2>1
  <2>2. /\ registry \in [Approvals -> Nat] /\ registry' \in [Approvals -> Nat]
        /\ \A b \in Approvals \ {a} : registry'[b] = registry[b]
    BY <1>1, <2>1 DEF TypeOK
  <2>3. /\ Total(registry') = Total(registry) - registry[a] + registry'[a]
        /\ Total(registry') \in Nat
    BY <2>2, Constants, TotalUpdate
  <2>4. registry'[a] = amount /\ registry[a] \in Nat
    BY <2>1, <2>2
  <2>5. registry[a] = 0
    BY <2>1, <2>4 DEF Inductive, ApprovalsConsistent, Recorded, Approvals
  <2> QED
    BY <1>2, <1>4, <2>1, <2>3, <2>4, <2>5
<1>7. CASE CleanupExpired
  <2>1. /\ Total(registry)' = Total(registry) - Total(Part(registry, Expired))
        /\ Total(Part(registry, Expired)) \in Nat
    BY <1>1, <1>7, ExpiredDropped
  <2>2. /\ reservations' = reservations - Total(Part(registry, Expired))
        /\ UNCHANGED <<orders, current_position>>
    BY <1>7 DEF CleanupExpired
  <2> QED
    BY <1>2, <1>4, <2>1, <2>2
<1>8. ASSUME NEW a \in Approvals, NEW own \in BOOLEAN, NEW verdict,
             RejectApproval(a, own, verdict)
      PROVE  LedgerMoves
  <2>1. Total(registry)' = Total(registry) - registry[a] /\ registry[a] \in Nat
    BY <1>1, <1>8, RecordDropped DEF RejectApproval
  <2>2. /\ reservations' = reservations - registry[a]
        /\ UNCHANGED <<orders, current_position>>
    BY <1>8 DEF RejectApproval
  <2> QED
    BY <1>2, <1>4, <2>1, <2>2
<1>9. ASSUME NEW o \in Orders, NEW s \in OrderRecords, Consistent(s),
             orders' = [orders EXCEPT ![o] = s],
             current_position' - current_position = s.filled - orders[o].filled,
             current_position' \in Int, reservations' \in Int,
             Total(registry)' \in Int,
             \/ reservations' - Total(registry)' - Held(s)
                  = reservations - Total(registry) - Held(orders[o])
             \/ /\ reservations' - Total(registry)' - Held(s)
                     >= reservations - Total(registry) - Held(orders[o])
                /\ StrandsRemainder
      PROVE  LedgerMoves
  <2>1. /\ OrdersConsistent'
        /\ Total(HeldByOrders)' = Total(HeldByOrders) - Held(orders[o]) + Held(s)
        /\ Total(FilledByOrder)' = Total(FilledByOrder) - orders[o].filled + s.filled
    BY <1>1, <1>9, OrderReplaced
  <2>2. /\ Held(s) \in Nat /\ Held(orders[o]) \in Nat
        /\ s.filled \in Nat /\ orders[o].filled \in Nat
    BY <1>3, <1>9, HeldIsNat DEF OrderRecords
  <2>3. /\ Total(HeldByOrders)' \in Int /\ Total(FilledByOrder)' \in Int
        /\ current_position' = Total(FilledByOrder)'
    BY <1>1, <1>2, <1>9, <2>1, <2>2
  <2>4. CASE reservations' - Total(registry)' - Held(s)
               = reservations - Total(registry) - Held(orders[o])
    <3>1. reservations' - Total(registry)' - Total(HeldByOrders)'
            = reservations - Total(registry) - Total(HeldByOrders)
      BY <1>2, <1>9, <2>1, <2>2, <2>3, <2>4
    <3> QED
      BY <2>1, <2>3, <3>1 DEF LedgerMoves, Unclaimed
  <2>5. CASE /\ reservations' - Total(registry)' - Held(s)
                 >= reservations - Total(registry) - Held(orders[o])
             /\ StrandsRemainder
    <3>1. reservations' - Total(registry)' - Total(HeldByOrders)'
            >= reservations - Total(registry) - Total(HeldByOrders)
      BY <1>2, <1>9, <2>1, <2>2, <2>3, <2>5
    <3> QED
      BY <2>1, <2>3, <2>5, <3>1 DEF LedgerMoves, Unclaimed
  <2> QED
    BY <1>9, <2>4, <2>5
<1>10. ASSUME NEW a \in Approvals, NEW o \in Orders, NEW matches \in BOOLEAN,
              ConsumeAndSubmit(a, o, matches)
       PROVE  LedgerMoves
  <2>1. Total(registry)' = Total(registry) - registry[a] /\ registry[a] \in Nat
    BY <1>1, <1>10, RecordDropped DEF ConsumeAndSubmit
  <2> DEFINE s == NewOrder(registry[a])
  <2>2. s \in OrderRecords /\ Consistent(s) /\ Held(s) = registry[a] /\ s.filled = 0
    BY <1>3, <2>1, RecordTypes, NewOrderEffect
  <2>3. orders[o].filled = 0 /\ Held(orders[o]) = 0
    BY <1>3, <1>10 DEF ConsumeAndSubmit, Submittable, Known, Consistent, Held
  <2>4. /\ orders' = [orders EXCEPT ![o] = s]
        /\ UNCHANGED <<current_position, reservations>>
    BY <1>10 DEF ConsumeAndSubmit, ledger
  <2> HIDE DEF s
  <2>5. /\ current_position' - current_position = s.filled - orders[o].filled
        /\ current_position' \in Int /\ reservations' \in Int /\ Total(registry)' \in Int
        /\ reservations' - Total(registry)' - Held(s)
             = reservations - Total(registry) - Held(orders[o])
    BY <1>2, <2>1, <2>2, <2>3, <2>4
  <2> QED
    BY <1>9, <2>2, <2>4, <2>5
<1>11. ASSUME NEW o \in Orders, NEW f \in Fills, NEW amount \in Inputs,
              OnLateFill(o, f, amount), orders' # orders
       PROVE  LedgerMoves
  <2> DEFINE s == CountLate(orders[o], amount)
  <2>1. amount \in Nat /\ orders[o].state = "CANCELED"
    BY <1>11, Constants DEF OnLateFill, NewFill, IsValidAmount, IsValidNonNegative
  <2>2. /\ s \in OrderRecords /\ Consistent(s) /\ Held(s) = Held(orders[o])
        /\ s.filled = orders[o].filled
    BY <1>3, <2>1, RecordTypes, CountLateEffect
  <2>3. orders' = [orders EXCEPT ![o] = s] /\ UNCHANGED <<ledger, registry>>
    BY <1>11 DEF OnLateFill, approvals
  <2>4. Held(orders[o]) \in Nat /\ orders[o].filled \in Nat
    BY <1>3, HeldIsNat DEF OrderRecords
  <2> HIDE DEF s
  <2>5. /\ current_position' - current_position = s.filled - orders[o].filled
        /\ current_position' \in Int /\ reservations' \in Int /\ Total(registry)' \in Int
        /\ reservations' - Total(registry)' - Held(s)
             = reservations - Total(registry) - Held(orders[o])
    BY <1>2, <2>2, <2>3, <2>4 DEF ledger
  <2> QED
    BY <1>9, <2>2, <2>3, <2>5
<1>12. ASSUME NEW o \in Orders, NEW f \in Fills, NEW amount \in Inputs,
              OnFill(o, f, amount)
       PROVE  LedgerMoves
  <2> DEFINE s == Filled(orders[o], amount)
  <2>1. /\ amount \in Nat /\ orders[o].state \notin {"ABSENT", "CANCELED"}
        /\ ~OverFills(orders[o], amount)
    BY <1>12, Constants DEF OnFill, NewFill, Known, IsValidAmount, IsValidNonNegative
  <2>2. /\ s \in OrderRecords /\ Consistent(s) /\ Held(s) = Held(orders[o]) - amount
        /\ s.filled = orders[o].filled + amount
    BY <1>3, <2>1, RecordTypes, FilledEffect
  <2>3. /\ orders' = [orders EXCEPT ![o] = s] /\ UNCHANGED registry
        /\ current_position' = current_position + amount
        /\ reservations' = reservations - amount
    BY <1>12 DEF OnFill
  <2>4. Held(orders[o]) \in Nat /\ orders[o].filled \in Nat
    BY <1>3, HeldIsNat DEF OrderRecords
  <2> HIDE DEF s
  <2>5. /\ current_position' - current_position = s.filled - orders[o].filled
        /\ current_position' \in Int /\ reservations' \in Int /\ Total(registry)' \in Int
        /\ reservations' - Total(registry)' - Held(s)
             = reservations - Total(registry) - Held(orders[o])
    BY <1>2, <2>1, <2>2, <2>3, <2>4
  <2> QED
    BY <1>9, <2>2, <2>3, <2>5
<1>13. ASSUME NEW o \in Orders, RequestCancel(o)
       PROVE  LedgerMoves
  <2> DEFINE s == [orders[o] EXCEPT !.cancel_requested = TRUE]
  <2>1. /\ s \in OrderRecords /\ Consistent(s) /\ Held(s) = Held(orders[o])
        /\ s.filled = orders[o].filled
    BY <1>3, RecordTypes, FlagEffect
  <2>2. orders' = [orders EXCEPT ![o] = s] /\ UNCHANGED <<ledger, registry>>
    BY <1>13 DEF RequestCancel, approvals
  <2>3. Held(orders[o]) \in Nat /\ orders[o].filled \in Nat
    BY <1>3, HeldIsNat DEF OrderRecords
  <2> HIDE DEF s
  <2>4. /\ current_position' - current_position = s.filled - orders[o].filled
        /\ current_position' \in Int /\ reservations' \in Int /\ Total(registry)' \in Int
        /\ reservations' - Total(registry)' - Held(s)
             = reservations - Total(registry) - Held(orders[o])
    BY <1>2, <2>1, <2>2, <2>3 DEF ledger
  <2> QED
    BY <1>9, <2>1, <2>2, <2>4
<1>14. ASSUME NEW o \in Orders, NEW report \in Nat, UNCHANGED registry,
              orders[o].state \notin {"ABSENT", "CANCELED"},
              ~Contradicts(orders[o], report), SettleCanceled(o, report)
       PROVE  LedgerMoves
  BY <1>14, SettleEffect DEF LedgerMoves, Unclaimed
<1>15. ASSUME NEW o \in Orders, NEW report \in Inputs, OnCancelConfirmed(o, report)
       PROVE  LedgerMoves
  BY <1>14, <1>15, Constants DEF OnCancelConfirmed, Known
<1>16. ASSUME NEW o \in Orders, NEW report \in Inputs, NEW final_state \in OrderStates,
              ResolveOrder(o, final_state, report), orders' # orders
       PROVE  LedgerMoves
  <2>1. /\ report \in Nat /\ orders[o].state = "UNKNOWN" /\ report <= orders[o].initial
        /\ UNCHANGED registry
    BY <1>16, Constants DEF ResolveOrder
  <2>2. ~Contradicts(orders[o], report)
    BY <1>3, <2>1 DEF Contradicts, Consistent, OrderRecords
  <2>3. CASE final_state = "CANCELED"
    BY <1>14, <1>16, <2>1, <2>2, <2>3 DEF ResolveOrder
  <2>4. CASE final_state = "FILLED"
    <3> DEFINE s == FilledAt(orders[o], report)
    <3>1. /\ s \in OrderRecords /\ Consistent(s)
          /\ Held(s) = Held(orders[o]) - Unseen(orders[o], report)
          /\ s.filled = orders[o].filled + Unseen(orders[o], report)
          /\ Unseen(orders[o], report) \in Nat
      BY <1>3, <2>1, RecordTypes, FilledAtEffect
    <3>2. /\ orders' = [orders EXCEPT ![o] = s]
          /\ current_position' = current_position + Unseen(orders[o], report)
          /\ reservations' = reservations - Unseen(orders[o], report)
      BY <1>16, <2>4 DEF ResolveOrder
    <3>3. Held(orders[o]) \in Nat /\ orders[o].filled \in Nat
      BY <1>3, HeldIsNat DEF OrderRecords
    <3> HIDE DEF s
    <3>4. /\ current_position' - current_position = s.filled - orders[o].filled
          /\ current_position' \in Int /\ reservations' \in Int /\ Total(registry)' \in Int
          /\ reservations' - Total(registry)' - Held(s)
               = reservations - Total(registry) - Held(orders[o])
      BY <1>2, <2>1, <3>1, <3>2, <3>3
    <3> QED
      BY <1>9, <3>1, <3>2, <3>4
  <2>5. CASE final_state = "OPEN"
    <3> DEFINE s == [orders[o] EXCEPT !.state = "OPEN"]
    <3>1. /\ s \in OrderRecords /\ Consistent(s) /\ Held(s) = Held(orders[o])
          /\ s.filled = orders[o].filled
      BY <1>3, <2>1, RecordTypes, FlagEffect
    <3>2. orders' = [orders EXCEPT ![o] = s] /\ UNCHANGED <<ledger, registry>>
      BY <1>16, <2>5 DEF ResolveOrder
    <3>3. Held(orders[o]) \in Nat /\ orders[o].filled \in Nat
      BY <1>3, HeldIsNat DEF OrderRecords
    <3> HIDE DEF s
    <3>4. /\ current_position' - current_position = s.filled - orders[o].filled
          /\ current_position' \in Int /\ reservations' \in Int /\ Total(registry)' \in Int
          /\ reservations' - Total(registry)' - Held(s)
               = reservations - Total(registry) - Held(orders[o])
      BY <1>2, <3>1, <3>2, <3>3 DEF ledger
    <3> QED
      BY <1>9, <3>1, <3>2, <3>4
  <2> QED
    BY <1>16, <2>3, <2>4, <2>5 DEF ResolveOrder, OrderStates
<1>17. ASSUME NEW o \in Orders, NEW report \in Inputs, ResolveConflict(o, report)
       PROVE  LedgerMoves
  <2> DEFINE s == ResolvedAt(orders[o], report)
  <2>1. report \in Nat /\ report <= orders[o].initial
    BY <1>17, Constants DEF ResolveConflict
  <2>2. /\ s \in OrderRecords /\ Consistent(s) /\ Held(s) = 0 /\ s.filled = report
    BY <1>3, <2>1, RecordTypes, ResolvedEffect
  <2>3. /\ orders' = [orders EXCEPT ![o] = s] /\ UNCHANGED registry
        /\ current_position' = current_position + (report - orders[o].filled)
        /\ reservations' = reservations - HeldBeforeResolution(orders[o])
    BY <1>17 DEF ResolveConflict
  <2>4. Held(orders[o]) \in Nat /\ orders[o].filled \in Nat
    BY <1>3, HeldIsNat DEF OrderRecords
  <2>5. /\ HeldBeforeResolution(orders[o]) \in Int
        /\ \/ HeldBeforeResolution(orders[o]) = Held(orders[o])
           \/ HeldBeforeResolution(orders[o]) <= Held(orders[o]) /\ StrandsRemainder
    <3>1. /\ orders[o].initial \in Nat /\ orders[o].filled <= orders[o].initial
          /\ orders[o].state # "ABSENT"
      BY <1>3, <1>17 DEF ResolveConflict, Known, OrderRecords, Consistent
    <3>2. CASE orders[o].state = "FILLED" /\ orders[o].filled < orders[o].initial
      BY <1>17, <2>4, <3>1, <3>2 DEF StrandsRemainder, HeldBeforeResolution, Held
    <3>3. CASE ~(orders[o].state = "FILLED" /\ orders[o].filled < orders[o].initial)
      BY <2>4, <3>1, <3>3 DEF HeldBeforeResolution, Held
    <3> QED
      BY <3>2, <3>3
  <2> HIDE DEF s
  <2>6. /\ current_position' - current_position = s.filled - orders[o].filled
        /\ current_position' \in Int /\ reservations' \in Int /\ Total(registry)' \in Int
        /\ \/ reservations' - Total(registry)' - Held(s)
                = reservations - Total(registry) - Held(orders[o])
           \/ /\ reservations' - Total(registry)' - Held(s)
                   >= reservations - Total(registry) - Held(orders[o])
              /\ StrandsRemainder
    BY <1>2, <2>1, <2>2, <2>3, <2>4, <2>5
  <2> QED
    BY <1>9, <2>2, <2>3, <2>6
<1>18. ASSUME NEW past, AdvanceTime(past) PROVE UNCHANGED <<orders, ledger, registry>>
  BY <1>18 DEF AdvanceTime
<1>19. CASE \/ LoseConnection \/ RestoreConnection \/ CompleteReconciliation
            \/ ManualReset \/ Halt
  BY <1>5, <1>19 DEF LoseConnection, RestoreConnection, CompleteReconciliation,
     ManualReset, Halt, MoveTo
<1>20. CASE UNCHANGED vars
  BY <1>5, <1>20 DEF vars, approvals
<1>21. ASSUME NEW o \in Orders, OnContradiction(o)
       PROVE  UNCHANGED <<orders, ledger, registry>>
  BY <1>21 DEF OnContradiction
<1>22. ASSUME NEW o \in Orders, NEW f \in Fills, NEW amount \in Inputs,
              OnLateFill(o, f, amount) \/ OnOverFill(o, f, amount), orders' = orders
       PROVE  UNCHANGED <<orders, ledger, registry>>
  BY <1>22 DEF OnLateFill, OnOverFill, approvals
<1>23. ASSUME NEW report \in Inputs, OnInvalidReport(report)
       PROVE  UNCHANGED <<orders, ledger, registry>>
  BY <1>23 DEF OnInvalidReport, approvals
<1>24. ASSUME NEW o \in Orders, NEW report \in Inputs, NEW final_state \in OrderStates,
              ResolveOrder(o, final_state, report), orders' = orders
       PROVE  UNCHANGED <<orders, ledger, registry>>
  <2>1. /\ orders[o].state = "UNKNOWN" /\ report \in Nat
    BY <1>24, Constants DEF ResolveOrder
  <2>2. orders[o] \in OrderRecords /\ orders \in [Orders -> OrderRecords]
    BY <1>1 DEF TypeOK
  <2>3. /\ CanceledAt(orders[o], report).state = "CANCELED"
        /\ FilledAt(orders[o], report).state = "FILLED"
        /\ [orders[o] EXCEPT !.state = "OPEN"].state = "OPEN"
    BY <2>2 DEF CanceledAt, FilledAt, OrderRecords
  <2>4. final_state \in {"UNKNOWN", "PARTIALLY_FILLED"}
    BY <1>24, <2>1, <2>2, <2>3 DEF ResolveOrder, SettleCanceled
  <2> QED
    BY <1>24, <2>4 DEF ResolveOrder
<1> QED
  BY <1>5, <1>6, <1>7, <1>8, <1>10, <1>11, <1>12, <1>13, <1>15, <1>16, <1>17, <1>18,
     <1>19, <1>20, <1>21, <1>22, <1>23, <1>24
  DEF Next, ConsumeWhileUnknown, ConsumeExpired, ConsumeRejected, OnOverFill,
      OnCancelContradicted, ResolveContradicted

(* Every step keeps the orders consistent and the ledger covered. *)
LEMMA LedgerStep ==
  Inductive /\ [Next]_vars => OrdersConsistent' /\ LedgerCovers'
<1> SUFFICES ASSUME Inductive, [Next]_vars PROVE OrdersConsistent' /\ LedgerCovers'
  OBVIOUS
<1>1. LedgerMoves /\ Unclaimed >= 0
  <2>1. Total(HeldByOrders) \in Nat /\ Total(registry) \in Nat /\ reservations \in Int
    BY Tables DEF Inductive, TypeOK
  <2> QED
    BY <2>1, MovesStep DEF Inductive, LedgerCovers, Unclaimed
<1>2. /\ Total(HeldByOrders)' \in Nat /\ Total(registry)' \in Nat /\ reservations' \in Int
      /\ Unclaimed \in Int
  <2>1. TypeOK' /\ OrdersConsistent'
    BY <1>1, TypeStep DEF LedgerMoves, Inductive
  <2>2. HeldByOrders' \in [Orders -> Nat] /\ registry' \in [Approvals -> Nat]
    BY <2>1, HeldIsNat DEF TypeOK, OrdersConsistent, HeldByOrders
  <2>3. Total(HeldByOrders)' \in Nat /\ Total(registry)' \in Nat
    BY <2>2, Constants, TotalIsNat
  <2> QED
    BY <2>1, <2>3, Tables DEF TypeOK, Inductive, Unclaimed
<1> QED
  BY <1>1, <1>2 DEF LedgerMoves, LedgerCovers, Unclaimed

(* Every step keeps records, approval objects and their statuses in agreement. *)
LEMMA ApprovalsStep == Inductive /\ [Next]_vars => ApprovalsConsistent'
<1> SUFFICES ASSUME Inductive, [Next]_vars PROVE ApprovalsConsistent'
  OBVIOUS
<1>1. TypeOK /\ ApprovalsConsistent
  BY DEF Inductive
<1> USE DEF ApprovalsConsistent, Recorded
<1>2. CASE UNCHANGED <<registry, active, status, next_approval_id, lapsed>>
           /\ (stale' = stale \/ BumpRiskVersion)
  BY <1>1, <1>2 DEF BumpRiskVersion
<1>3. ASSUME NEW past \in SUBSET (Recorded \ lapsed), AdvanceTime(past)
      PROVE  ApprovalsConsistent'
  BY <1>1, <1>3 DEF AdvanceTime
<1>4. ASSUME NEW amount \in Inputs, RequestApproval(amount)
      PROVE  ApprovalsConsistent'
  <2> PICK b \in Approvals : b = next_approval_id
    BY <1>1, <1>4, Constants DEF RequestApproval, Grants, TypeOK, Approvals
  <2>1. /\ registry' = [registry EXCEPT ![b] = amount]
        /\ active' = active \cup {b}
        /\ status' = [status EXCEPT ![b] = "VALID"]
        /\ next_approval_id' = b + 1
        /\ UNCHANGED <<stale, lapsed>>
        /\ amount > 0
    BY <1>4 DEF RequestApproval, Grants, IsValidAmount
  <2>2. /\ \A a \in Approvals : a # b => registry'[a] = registry[a] /\ status'[a] = status[a]
        /\ status'[b] = "VALID" /\ registry'[b] > 0
    BY <1>1, <2>1 DEF TypeOK
  <2>3. active' = {a \in Approvals : status'[a] = "VALID"}
    BY <1>1, <2>1, <2>2
  <2>4. Recorded' = Recorded \cup {b}
    BY <2>2
  <2>5. \A a \in Approvals : a >= next_approval_id' => status'[a] = "NOT_CREATED"
    <3>1. ASSUME NEW a \in Approvals, a >= b + 1 PROVE status'[a] = "NOT_CREATED"
      <4>1. a \in Int /\ b \in Int
        BY Constants DEF Approvals
      <4>2. a # b /\ a >= b
        BY <3>1, <4>1
      <4> QED
        BY <1>1, <2>2, <4>2
    <3> QED
      BY <2>1, <3>1
  <2> QED
    BY <1>1, <2>1, <2>3, <2>4, <2>5
<1>5. CASE CleanupExpired
  <2>1. /\ status' = [a \in Approvals |-> IF a \in Expired THEN "EXPIRED" ELSE status[a]]
        /\ active' = {a \in active : status'[a] = "VALID"}
        /\ stale' = stale \ Expired /\ lapsed' = lapsed \ Expired
        /\ next_approval_id' = next_approval_id
        /\ \A a \in Approvals : registry'[a] = IF a \in Expired THEN 0 ELSE registry[a]
    BY <1>1, <1>5 DEF CleanupExpired, Part, TypeOK
  <2>2. Expired \subseteq active
    BY DEF Expired
  <2>3. active' = active \ Expired /\ active' = {a \in Approvals : status'[a] = "VALID"}
    BY <1>1, <2>1, <2>2 DEF TypeOK
  <2>4. Recorded' = Recorded \ Expired
    BY <1>1, <2>1 DEF TypeOK
  <2>5. \A a \in Approvals : a >= next_approval_id' => status'[a] = "NOT_CREATED"
    BY <1>1, <2>1, <2>2
  <2> QED
    BY <1>1, <2>1, <2>3, <2>4, <2>5
<1>6. ASSUME NEW a \in Approvals, DropRecord(a),
             UNCHANGED next_approval_id,
             \/ UNCHANGED <<status, active>>
             \/ /\ a \in active
                /\ active' = active \ {a}
                /\ \E verdict \in {"CONSUMED", "EXPIRED", "REJECTED"} :
                      status' = [status EXCEPT ![a] = verdict]
      PROVE  ApprovalsConsistent'
  <2>1. \A b \in Approvals : registry'[b] = IF b = a THEN 0 ELSE registry[b]
    BY <1>1, <1>6 DEF DropRecord, TypeOK
  <2>2. /\ Recorded' = Recorded \ {a}
        /\ stale' = stale \ {a} /\ lapsed' = lapsed \ {a}
    BY <1>6, <2>1 DEF DropRecord
  <2>3. /\ active' = {b \in Approvals : status'[b] = "VALID"}
        /\ active \ {a} \subseteq active'
        /\ \A b \in Approvals : b >= next_approval_id' => status'[b] = "NOT_CREATED"
    BY <1>1, <1>6 DEF TypeOK
  <2> QED
    BY <1>1, <2>2, <2>3
<1>7. ASSUME NEW a \in Approvals, NEW own \in BOOLEAN, NEW verdict \in {"EXPIRED", "REJECTED"},
             registry[a] > 0, RejectApproval(a, own, verdict)
      PROVE  ApprovalsConsistent'
  BY <1>1, <1>6, <1>7 DEF RejectApproval
<1>8. ASSUME NEW a \in Approvals, NEW o \in Orders, NEW matches \in BOOLEAN,
             ConsumeAndSubmit(a, o, matches)
      PROVE  ApprovalsConsistent'
  BY <1>1, <1>6, <1>8 DEF ConsumeAndSubmit, Consumable
<1>9. CASE \/ LoseConnection \/ RestoreConnection \/ CompleteReconciliation
           \/ ManualReset \/ Halt
  BY <1>2, <1>9 DEF LoseConnection, RestoreConnection, CompleteReconciliation,
     ManualReset, Halt, MoveTo
<1>10. CASE UNCHANGED vars
  BY <1>2, <1>10 DEF vars, approvals
<1>11. ASSUME NEW o \in Orders, NEW f \in Fills, NEW amount \in Inputs,
              OnLateFill(o, f, amount) \/ OnOverFill(o, f, amount) \/ OnFill(o, f, amount)
       PROVE  ApprovalsConsistent'
  BY <1>2, <1>11 DEF OnLateFill, OnOverFill, OnFill, approvals
<1>12. ASSUME NEW o \in Orders,
              RequestCancel(o) \/ OnContradiction(o)
       PROVE  ApprovalsConsistent'
  BY <1>2, <1>12 DEF RequestCancel, OnContradiction, approvals
<1>13. ASSUME NEW report \in Inputs, OnInvalidReport(report) PROVE ApprovalsConsistent'
  BY <1>2, <1>13 DEF OnInvalidReport, approvals
<1>14. ASSUME NEW o \in Orders, NEW report \in Inputs, NEW final_state,
              \/ OnCancelConfirmed(o, report)
              \/ ResolveOrder(o, final_state, report)
              \/ ResolveConflict(o, report)
       PROVE  ApprovalsConsistent'
  BY <1>2, <1>14 DEF OnCancelConfirmed, ResolveOrder, ResolveConflict
<1> QED
  BY <1>3, <1>4, <1>5, <1>7, <1>8, <1>9, <1>10, <1>11, <1>12, <1>13, <1>14
  DEF Next, ConsumeWhileUnknown, ConsumeExpired, ConsumeRejected, Consumable,
      OnCancelContradicted, ResolveContradicted

(* A step that leaves an order's record alone, or replaces it by one that adds no
   contradiction and no uncertainty, keeps the engine out of OPERATIONAL as long as
   there is a data conflict. *)
LEMMA GateKept ==
  ASSUME TypeOK, ConflictGate, OneUnknownOrder, NEW o \in Orders, NEW s \in OrderRecords,
         orders' = [orders EXCEPT ![o] = s],
         UNCHANGED <<system_state, unresolved_conflicts>>,
         \/ system_state # "OPERATIONAL"
         \/ s.total = NotConfirmed
         \/ s.seen <= s.total,
         s.state = "UNKNOWN" => orders[o].state = "UNKNOWN" \/ ~HasUnknownOrders
  PROVE  ConflictGate' /\ OneUnknownOrder'
<1>1. \A p \in Orders : orders'[p] = IF p = o THEN s ELSE orders[p]
  BY DEF TypeOK
<1>2. ConflictGate'
  <2>1. SUFFICES ASSUME system_state = "OPERATIONAL" PROVE ~HasDataConflicts'
    BY DEF ConflictGate
  <2>2. ~HasDataConflicts
    BY <2>1 DEF ConflictGate
  <2>3. s.total = NotConfirmed \/ ~(s.seen > s.total)
    BY <2>1 DEF OrderRecords
  <2> QED
    BY <1>1, <2>2, <2>3 DEF HasDataConflicts
<1>3. OneUnknownOrder'
  BY <1>1 DEF OneUnknownOrder, HasUnknownOrders
<1> QED
  BY <1>2, <1>3

(* Every step keeps the conflict gate closed and at most one order UNKNOWN. *)
LEMMA GateStep == Inductive /\ [Next]_vars => ConflictGate' /\ OneUnknownOrder'
<1> SUFFICES ASSUME Inductive, [Next]_vars PROVE ConflictGate' /\ OneUnknownOrder'
  OBVIOUS
<1>1. TypeOK /\ OrdersConsistent /\ ConflictGate /\ OneUnknownOrder
  BY DEF Inductive
<1>2. \A o \in Orders : orders[o] \in OrderRecords /\ Consistent(orders[o])
  BY <1>1 DEF TypeOK, OrdersConsistent
<1>3. ASSUME UNCHANGED <<orders, unresolved_conflicts>>,
             \/ system_state' = system_state
             \/ system_state' # "OPERATIONAL"
             \/ ~HasDataConflicts
      PROVE  ConflictGate' /\ OneUnknownOrder'
  BY <1>1, <1>3 DEF ConflictGate, HasDataConflicts, OneUnknownOrder
<1>4. ASSUME EnterReconciling
      PROVE  system_state' # "OPERATIONAL"
  BY <1>4 DEF EnterReconciling
<1>5. ASSUME UNCHANGED orders, EnterReconciling
      PROVE  ConflictGate' /\ OneUnknownOrder'
  BY <1>1, <1>4, <1>5 DEF ConflictGate, OneUnknownOrder
<1>6. ASSUME NEW past, AdvanceTime(past) PROVE ConflictGate' /\ OneUnknownOrder'
  BY <1>3, <1>6 DEF AdvanceTime
<1>7. ASSUME NEW amount \in Inputs, RequestApproval(amount)
      PROVE  ConflictGate' /\ OneUnknownOrder'
  BY <1>3, <1>7 DEF RequestApproval, Grants
<1>8. CASE CleanupExpired
  BY <1>3, <1>8 DEF CleanupExpired
<1>9. ASSUME NEW a, NEW own, NEW verdict, RejectApproval(a, own, verdict)
      PROVE  ConflictGate' /\ OneUnknownOrder'
  BY <1>3, <1>9 DEF RejectApproval
<1>10. ASSUME NEW a \in Approvals, NEW o \in Orders, NEW matches \in BOOLEAN,
              ConsumeAndSubmit(a, o, matches)
       PROVE  ConflictGate' /\ OneUnknownOrder'
  <2> DEFINE s == NewOrder(registry[a])
  <2>1. registry[a] \in Nat
    BY <1>1 DEF TypeOK
  <2>2. s \in OrderRecords /\ s.total = NotConfirmed
    BY <1>2, <2>1, RecordTypes, NewOrderEffect
  <2>3. /\ orders' = [orders EXCEPT ![o] = s] /\ ~HasUnknownOrders
        /\ UNCHANGED <<system_state, unresolved_conflicts>>
    BY <1>10 DEF ConsumeAndSubmit, Consumable
  <2> HIDE DEF s
  <2> QED
    BY <1>1, <2>2, <2>3, GateKept
<1>11. ASSUME NEW o \in Orders, NEW f \in Fills, NEW amount \in Inputs,
              OnLateFill(o, f, amount)
       PROVE  ConflictGate' /\ OneUnknownOrder'
  <2>1. CASE ExceedsConfirmed(orders[o], amount)
    BY <1>5, <1>11, <2>1 DEF OnLateFill, RaiseConflict
  <2>2. CASE ~ExceedsConfirmed(orders[o], amount)
    <3> DEFINE s == CountLate(orders[o], amount)
    <3>1. amount \in Nat /\ orders[o].state = "CANCELED"
      BY <1>11, Constants DEF OnLateFill, NewFill, IsValidAmount, IsValidNonNegative
    <3>2. /\ s \in OrderRecords /\ s.state = "CANCELED" /\ s.total = orders[o].total
          /\ s.seen = orders[o].seen + amount
      BY <1>2, <3>1, RecordTypes, CountLateEffect
    <3>3. s.total = NotConfirmed \/ s.seen <= s.total
      BY <1>2, <2>2, <3>1, <3>2 DEF ExceedsConfirmed, OrderRecords
    <3>4. /\ orders' = [orders EXCEPT ![o] = s]
          /\ UNCHANGED <<system_state, unresolved_conflicts>>
      BY <1>11, <2>2 DEF OnLateFill
    <3> HIDE DEF s
    <3> QED
      BY <1>1, <3>2, <3>3, <3>4, GateKept
  <2> QED
    BY <2>1, <2>2
<1>12. ASSUME NEW o \in Orders, NEW f \in Fills, NEW amount \in Inputs,
              OnOverFill(o, f, amount)
       PROVE  ConflictGate' /\ OneUnknownOrder'
  BY <1>5, <1>12 DEF OnOverFill, RaiseConflict
<1>13. ASSUME NEW o \in Orders, NEW f \in Fills, NEW amount \in Inputs,
              OnFill(o, f, amount)
       PROVE  ConflictGate' /\ OneUnknownOrder'
  <2> DEFINE s == Filled(orders[o], amount)
  <2>1. /\ amount \in Nat /\ orders[o].state \notin {"ABSENT", "CANCELED"}
        /\ ~OverFills(orders[o], amount)
    BY <1>13, Constants DEF OnFill, NewFill, Known, IsValidAmount, IsValidNonNegative
  <2>2. /\ s \in OrderRecords /\ s.total = NotConfirmed
        /\ s.state \in {"FILLED", "PARTIALLY_FILLED"}
    BY <1>2, <2>1, RecordTypes, FilledEffect
  <2>3. /\ orders' = [orders EXCEPT ![o] = s]
        /\ UNCHANGED <<system_state, unresolved_conflicts>>
    BY <1>13 DEF OnFill
  <2> HIDE DEF s
  <2> QED
    BY <1>1, <2>2, <2>3, GateKept
<1>14. ASSUME NEW o \in Orders, RequestCancel(o)
       PROVE  ConflictGate' /\ OneUnknownOrder'
  <2> DEFINE s == [orders[o] EXCEPT !.cancel_requested = TRUE]
  <2>1. /\ s \in OrderRecords /\ s.state = orders[o].state
        /\ s.total = orders[o].total /\ s.seen = orders[o].seen
    BY <1>2, RecordTypes, FlagEffect
  <2>2. /\ orders' = [orders EXCEPT ![o] = s]
        /\ UNCHANGED <<system_state, unresolved_conflicts>>
    BY <1>14 DEF RequestCancel
  <2>3. \/ system_state # "OPERATIONAL"
        \/ s.total = NotConfirmed
        \/ s.seen <= s.total
    BY <1>1, <1>2, <2>1 DEF ConflictGate, HasDataConflicts, OrderRecords
  <2> HIDE DEF s
  <2> QED
    BY <1>1, <2>1, <2>2, <2>3, GateKept
<1>15. ASSUME NEW report \in Inputs, OnInvalidReport(report)
       PROVE  ConflictGate' /\ OneUnknownOrder'
  BY <1>3, <1>4, <1>15 DEF OnInvalidReport
<1>16. ASSUME NEW o \in Orders, OnContradiction(o)
       PROVE  ConflictGate' /\ OneUnknownOrder'
  BY <1>5, <1>16 DEF OnContradiction, RaiseConflict
<1>17. ASSUME NEW o \in Orders, NEW report \in Nat, SettleCanceled(o, report),
              orders[o].state \notin {"ABSENT", "CANCELED"},
              ~Contradicts(orders[o], report),
              UNCHANGED <<system_state, unresolved_conflicts>>
       PROVE  ConflictGate' /\ OneUnknownOrder'
  <2> DEFINE s == CanceledAt(orders[o], report)
  <2>1. /\ s \in OrderRecords /\ s.state = "CANCELED"
        /\ s.total = report /\ s.seen <= report
    BY <1>2, <1>17, RecordTypes, CanceledEffect
  <2>2. orders' = [orders EXCEPT ![o] = s]
    BY <1>17 DEF SettleCanceled
  <2> HIDE DEF s
  <2> QED
    BY <1>1, <1>17, <2>1, <2>2, GateKept
<1>18. ASSUME NEW o \in Orders, NEW report \in Inputs, OnCancelConfirmed(o, report)
       PROVE  ConflictGate' /\ OneUnknownOrder'
  BY <1>17, <1>18, Constants DEF OnCancelConfirmed, Known
<1>19. ASSUME NEW o \in Orders, NEW report \in Inputs, NEW final_state \in OrderStates,
              ResolveOrder(o, final_state, report)
       PROVE  ConflictGate' /\ OneUnknownOrder'
  <2>1. /\ report \in Nat /\ orders[o].state = "UNKNOWN" /\ report <= orders[o].initial
        /\ UNCHANGED <<system_state, unresolved_conflicts>>
    BY <1>19, Constants DEF ResolveOrder
  <2>2. ~Contradicts(orders[o], report)
    BY <1>2, <2>1 DEF Contradicts, Consistent, OrderRecords
  <2>3. CASE SettleCanceled(o, report)
    BY <1>17, <2>1, <2>2, <2>3
  <2>4. CASE orders' = [orders EXCEPT ![o] = FilledAt(orders[o], report)]
    <3> DEFINE s == FilledAt(orders[o], report)
    <3>1. s \in OrderRecords /\ s.state = "FILLED" /\ s.total = NotConfirmed
      BY <1>2, <2>1, RecordTypes, FilledAtEffect
    <3>2. orders' = [orders EXCEPT ![o] = s]
      BY <2>4
    <3> HIDE DEF s
    <3> QED
      BY <1>1, <2>1, <3>1, <3>2, GateKept
  <2>5. CASE orders' = [orders EXCEPT ![o] = [orders[o] EXCEPT !.state = "OPEN"]]
    <3> DEFINE s == [orders[o] EXCEPT !.state = "OPEN"]
    <3>1. s \in OrderRecords /\ s.state = "OPEN" /\ s.total = NotConfirmed
      BY <1>2, <2>1, RecordTypes, FlagEffect
    <3>2. orders' = [orders EXCEPT ![o] = s]
      BY <2>5
    <3> HIDE DEF s
    <3> QED
      BY <1>1, <2>1, <3>1, <3>2, GateKept
  <2>6. CASE UNCHANGED orders
    BY <1>3, <2>1, <2>6
  <2> QED
    BY <1>19, <2>3, <2>4, <2>5, <2>6 DEF ResolveOrder
<1>20. ASSUME NEW o \in Orders, NEW report \in Inputs, ResolveConflict(o, report)
       PROVE  ConflictGate' /\ OneUnknownOrder'
  <2> DEFINE s == ResolvedAt(orders[o], report)
  <2>1. /\ report \in Nat /\ report <= orders[o].initial /\ o \in unresolved_conflicts
        /\ orders' = [orders EXCEPT ![o] = s] /\ UNCHANGED system_state
    BY <1>20, Constants DEF ResolveConflict
  <2>2. s.state = "CANCELED"
    BY <1>2, <2>1, ResolvedEffect
  <2>3. system_state' # "OPERATIONAL"
    BY <1>1, <2>1 DEF ConflictGate, HasDataConflicts
  <2>4. OneUnknownOrder'
    BY <1>1, <2>1, <2>2 DEF OneUnknownOrder, TypeOK
  <2> QED
    BY <2>3, <2>4 DEF ConflictGate
<1>21. CASE \/ LoseConnection \/ RestoreConnection \/ CompleteReconciliation
            \/ ManualReset \/ Halt
  BY <1>3, <1>21 DEF LoseConnection, RestoreConnection, CompleteReconciliation,
     ManualReset, Halt, MoveTo
<1>22. CASE UNCHANGED vars
  BY <1>3, <1>22 DEF vars
<1> QED
  BY <1>6, <1>7, <1>8, <1>9, <1>10, <1>11, <1>12, <1>13, <1>14, <1>15, <1>16, <1>18,
     <1>19, <1>20, <1>21, <1>22
  DEF Next, ConsumeWhileUnknown, ConsumeExpired, ConsumeRejected,
      OnCancelContradicted, ResolveContradicted

(* The inductive invariant holds in every reachable state. *)
THEOREM InductiveCorrect == Spec => []Inductive
<1>1. Init => Inductive
  BY InductiveInit
<1>2. Inductive /\ [Next]_vars => Inductive'
  BY TypeStep, LedgerStep, ApprovalsStep, GateStep DEF Inductive
<1> QED
  BY <1>1, <1>2, PTL DEF Spec

(* The ledger covers what is at risk, whatever the order of approvals, fills,
   cancels, resolutions and refusals: the position is the sum of the fills, and
   the reservations are at least what approvals and live orders hold. *)
THEOREM LedgerCorrect == Spec => []LedgerCovers
<1>1. Inductive => LedgerCovers
  BY DEF Inductive
<1> QED
  BY <1>1, InductiveCorrect, PTL

(* An OPERATIONAL engine never works over contradictory exchange data. *)
THEOREM ConflictGateCorrect == Spec => []ConflictGate
<1>1. Inductive => ConflictGate
  BY DEF Inductive
<1> QED
  BY <1>1, InductiveCorrect, PTL

(* At most one order is UNKNOWN at any time. *)
THEOREM OneUnknownCorrect == Spec => []OneUnknownOrder
<1>1. Inductive => OneUnknownOrder
  BY DEF Inductive
<1> QED
  BY <1>1, InductiveCorrect, PTL

(* Orders are consistent: a canceled order is settled at its confirmed total. *)
THEOREM OrdersCorrect == Spec => []OrdersConsistent
<1>1. Inductive => OrdersConsistent
  BY DEF Inductive
<1> QED
  BY <1>1, InductiveCorrect, PTL

(* Records, approval objects and statuses agree. *)
THEOREM ApprovalsCorrect == Spec => []ApprovalsConsistent
<1>1. Inductive => ApprovalsConsistent
  BY DEF Inductive
<1> QED
  BY <1>1, InductiveCorrect, PTL

(***************************************************************************)
(* Action properties                                                       *)
(***************************************************************************)

(* How each kind of step moves the exposure. *)
LEMMA ExposureStep ==
  Inductive /\ [Next]_vars =>
    /\ Exposure' > Exposure => Exposure' <= Limit \/ CorrectsTerminalOrder
    /\ Exposure' < Exposure => DropsUnsentApproval \/ SettlesOrder
<1> DEFINE Growth == Exposure' > Exposure => Exposure' <= Limit \/ CorrectsTerminalOrder
           Shrinkage == Exposure' < Exposure => DropsUnsentApproval \/ SettlesOrder
<1> SUFFICES ASSUME Inductive, [Next]_vars PROVE Growth /\ Shrinkage
  OBVIOUS
<1>1. TypeOK /\ OrdersConsistent
  BY DEF Inductive
<1>2. current_position \in Int /\ reservations \in Int
  BY <1>1 DEF TypeOK
<1>3. \A o \in Orders : orders[o] \in OrderRecords /\ Consistent(orders[o])
  BY <1>1 DEF TypeOK, OrdersConsistent
<1>4. ASSUME Exposure' = Exposure PROVE Growth /\ Shrinkage
  BY <1>2, <1>4 DEF Exposure
<1>5. CASE UNCHANGED ledger
  BY <1>4, <1>5 DEF ledger, Exposure
<1>6. ASSUME NEW amount \in Inputs, RequestApproval(amount) PROVE Growth /\ Shrinkage
  <2>1. amount \in Int /\ amount > 0 /\ Limit - Exposure >= amount
        /\ Exposure' = Exposure + amount
    BY <1>2, <1>6, Constants
    DEF RequestApproval, Grants, IsValidAmount, AvailableCapacity, Exposure
  <2> QED
    BY <1>2, <2>1, Constants DEF Exposure
<1>7. CASE CleanupExpired
  <2>1. /\ Total(Part(registry, Expired)) \in Nat
        /\ Exposure' = Exposure - Total(Part(registry, Expired))
        /\ orders' = orders
    BY <1>1, <1>2, <1>7, ExpiredDropped DEF CleanupExpired, Exposure
  <2>2. PICK a \in active : registry[a] > 0 /\ a \in Expired
    BY <1>7 DEF CleanupExpired, Expired
  <2>3. a \in Approvals /\ registry'[a] = 0
    BY <1>1, <1>7, <2>2 DEF CleanupExpired, Part, TypeOK
  <2>4. Recorded' # Recorded
    BY <2>2, <2>3 DEF Recorded
  <2> QED
    BY <1>2, <2>1, <2>4 DEF DropsUnsentApproval, Exposure
<1>8. ASSUME NEW a \in Approvals, NEW own, NEW verdict,
             registry[a] > 0, RejectApproval(a, own, verdict)
      PROVE  Growth /\ Shrinkage
  <2>1. /\ registry[a] \in Nat
        /\ Exposure' = Exposure - registry[a]
        /\ orders' = orders
    BY <1>1, <1>2, <1>8 DEF RejectApproval, Exposure, TypeOK
  <2>2. Recorded' # Recorded
    BY <1>1, <1>8 DEF RejectApproval, DropRecord, Recorded, TypeOK
  <2> QED
    BY <1>2, <2>1, <2>2 DEF DropsUnsentApproval, Exposure
<1>9. ASSUME NEW o \in Orders, NEW f \in Fills, NEW amount \in Inputs,
             OnFill(o, f, amount)
      PROVE  Growth /\ Shrinkage
  BY <1>2, <1>4, <1>9, Constants DEF OnFill, Exposure
<1>10. ASSUME NEW o \in Orders, NEW report \in Nat,
              orders[o].state \notin {"ABSENT", "CANCELED"},
              ~Contradicts(orders[o], report), SettleCanceled(o, report)
       PROVE  Growth /\ Shrinkage
  <2>1. orders' = [orders EXCEPT ![o] = CanceledAt(orders[o], report)]
    BY <1>10, SettleEffect
  <2>2. CanceledAt(orders[o], report).state = "CANCELED"
    BY <1>3, <1>10, CanceledEffect
  <2>3. SettlesOrder
    BY <1>1, <1>10, <2>1, <2>2 DEF SettlesOrder, TypeOK
  <2>4. current_position' \in Int /\ reservations' \in Int
    BY TypeStep DEF Inductive, TypeOK
  <2>5. Exposure' <= Exposure
    BY <1>10, SettleEffect DEF Exposure
  <2>6. Exposure \in Int /\ Exposure' \in Int
    BY <1>2, <2>4 DEF Exposure
  <2> QED
    BY <2>3, <2>5, <2>6
<1>11. ASSUME NEW o \in Orders, NEW report \in Inputs, OnCancelConfirmed(o, report)
       PROVE  Growth /\ Shrinkage
  BY <1>10, <1>11, Constants DEF OnCancelConfirmed, Known
<1>12. ASSUME NEW o \in Orders, NEW report \in Inputs, NEW final_state \in OrderStates,
              ResolveOrder(o, final_state, report)
       PROVE  Growth /\ Shrinkage
  <2>1. /\ report \in Nat /\ orders[o].state = "UNKNOWN" /\ report <= orders[o].initial
    BY <1>12, Constants DEF ResolveOrder
  <2>2. ~Contradicts(orders[o], report)
    BY <1>3, <2>1 DEF Contradicts, Consistent, OrderRecords
  <2>3. CASE SettleCanceled(o, report)
    BY <1>10, <2>1, <2>2, <2>3
  <2>4. CASE /\ current_position' = current_position + Unseen(orders[o], report)
             /\ reservations' = reservations - Unseen(orders[o], report)
    <3>1. Unseen(orders[o], report) \in Nat
      BY <1>3, <2>1, RecordTypes
    <3> QED
      BY <1>2, <1>4, <2>4, <3>1 DEF Exposure
  <2> QED
    BY <1>5, <1>12, <2>3, <2>4 DEF ResolveOrder
<1>13. ASSUME NEW o \in Orders, NEW report \in Inputs, ResolveConflict(o, report)
       PROVE  Growth /\ Shrinkage
  <2> DEFINE s == ResolvedAt(orders[o], report)
  <2>1. /\ report \in Nat /\ report <= orders[o].initial
        /\ o \in unresolved_conflicts
        /\ unresolved_conflicts' = unresolved_conflicts \ {o}
        /\ orders' = [orders EXCEPT ![o] = s]
        /\ Exposure' = current_position + (report - orders[o].filled)
                       + (reservations - HeldBeforeResolution(orders[o]))
    BY <1>13, Constants DEF ResolveConflict, Exposure
  <2>2. s.state = "CANCELED" /\ s.filled = report /\ orders'[o] = s
    BY <1>1, <1>3, <2>1, ResolvedEffect DEF TypeOK
  <2>3. orders[o].initial \in Nat /\ orders[o].filled \in Nat
    BY <1>3 DEF OrderRecords
  <2> HIDE DEF s
  <2>4. CASE orders[o].state \in {"CANCELED", "FILLED"}
    <3>1. CorrectsTerminalOrder
      BY <2>1, <2>4 DEF CorrectsTerminalOrder
    <3>2. HeldBeforeResolution(orders[o]) = 0
      BY <2>4 DEF HeldBeforeResolution
    <3>3. Exposure' < Exposure => report # orders[o].filled
      BY <1>2, <2>1, <2>3, <3>2 DEF Exposure
    <3> QED
      BY <2>2, <3>1, <3>3 DEF SettlesOrder
  <2>5. CASE orders[o].state \notin {"CANCELED", "FILLED"}
    <3>1. HeldBeforeResolution(orders[o]) = orders[o].initial - orders[o].filled
      BY <2>5 DEF HeldBeforeResolution
    <3>2. Exposure' <= Exposure
      BY <1>2, <2>1, <2>3, <3>1 DEF Exposure
    <3>3. SettlesOrder
      BY <2>2, <2>5 DEF SettlesOrder
    <3>4. Exposure' \in Int
      BY <1>2, <2>1, <2>3, <3>1
    <3> QED
      BY <1>2, <3>2, <3>3, <3>4 DEF Exposure
  <2> QED
    BY <2>4, <2>5
<1>14. ASSUME NEW past, AdvanceTime(past) PROVE UNCHANGED ledger
  BY <1>14 DEF AdvanceTime
<1>15. ASSUME NEW a \in Approvals, NEW o \in Orders, NEW matches \in BOOLEAN,
              ConsumeAndSubmit(a, o, matches)
       PROVE  UNCHANGED ledger
  BY <1>15 DEF ConsumeAndSubmit
<1>16. ASSUME NEW o \in Orders, NEW f \in Fills, NEW amount \in Inputs,
              OnLateFill(o, f, amount) \/ OnOverFill(o, f, amount)
       PROVE  UNCHANGED ledger
  BY <1>16 DEF OnLateFill, OnOverFill
<1>17. ASSUME NEW o \in Orders, RequestCancel(o) \/ OnContradiction(o)
       PROVE  UNCHANGED ledger
  BY <1>17 DEF RequestCancel, OnContradiction
<1>18. ASSUME NEW report, OnInvalidReport(report) PROVE UNCHANGED ledger
  BY <1>18 DEF OnInvalidReport
<1>19. ASSUME \/ LoseConnection \/ RestoreConnection \/ CompleteReconciliation
              \/ ManualReset \/ Halt
       PROVE  UNCHANGED ledger
  BY <1>19 DEF LoseConnection, RestoreConnection, CompleteReconciliation,
     ManualReset, Halt, MoveTo
<1>20. ASSUME UNCHANGED vars PROVE UNCHANGED ledger
  BY <1>20 DEF vars
<1> HIDE DEF Growth, Shrinkage
<1> QED
  BY <1>5, <1>6, <1>7, <1>8, <1>9, <1>11, <1>12, <1>13, <1>14, <1>15, <1>16, <1>17,
     <1>18, <1>19, <1>20
  DEF Next, ConsumeWhileUnknown, ConsumeExpired, ConsumeRejected, Consumable,
      OnCancelContradicted, ResolveContradicted

(* Risk is only ever added within the limit, except when verified data corrects an
   order that held nothing any more. *)
THEOREM GrowthCorrect == Spec => GrowthWithinLimit
<1>1. Inductive /\ [Next]_vars =>
        [Exposure' > Exposure => Exposure' <= Limit \/ CorrectsTerminalOrder]_vars
  BY ExposureStep
<1> QED
  BY <1>1, InductiveCorrect, PTL DEF Spec, GrowthWithinLimit

(* Risk only ever shrinks by dropping an unsent approval or settling an order. *)
THEOREM NoSilentDeletionCorrect == Spec => NoSilentRiskDeletion
<1>1. Inductive /\ [Next]_vars =>
        [Exposure' < Exposure => DropsUnsentApproval \/ SettlesOrder]_vars
  BY ExposureStep
<1> QED
  BY <1>1, InductiveCorrect, PTL DEF Spec, NoSilentRiskDeletion

(* A change of position leaves every record stale, and a stale record is never
   consumed: no approval outlives the position it was granted against. *)
THEOREM StaleCorrect == Spec => StaleApprovalsNeverSubmitted
<1> DEFINE Promise ==
      /\ current_position' # current_position => Recorded' \subseteq stale'
      /\ \A a \in stale :
            a \in stale' \/ (registry'[a] = 0 /\ status'[a] # "CONSUMED")
<1>1. ASSUME Inductive, [Next]_vars PROVE [Promise]_vars
  <2>1. TypeOK /\ stale \subseteq Recorded /\ Recorded \subseteq active
        /\ active = {a \in Approvals : status[a] = "VALID"}
    BY <1>1 DEF Inductive, ApprovalsConsistent
  <2>2. ASSUME BumpRiskVersion, UNCHANGED registry PROVE Promise
    BY <2>1, <2>2 DEF BumpRiskVersion, Recorded
  <2>3. ASSUME UNCHANGED <<current_position, stale>> PROVE Promise
    BY <2>3
  <2>4. CASE CleanupExpired
    <3>1. /\ UNCHANGED current_position /\ stale' = stale \ Expired
          /\ \A a \in Expired \cap Approvals : registry'[a] = 0 /\ status'[a] = "EXPIRED"
      BY <2>1, <2>4 DEF CleanupExpired, Part, TypeOK
    <3> QED
      BY <2>1, <3>1 DEF TypeOK
  <2>5. ASSUME NEW a \in Approvals, NEW own \in BOOLEAN, NEW verdict \in {"EXPIRED", "REJECTED"},
               registry[a] > 0, RejectApproval(a, own, verdict)
        PROVE  Promise
    <3>1. /\ UNCHANGED current_position /\ stale' = stale \ {a}
          /\ registry'[a] = 0
      BY <2>1, <2>5 DEF RejectApproval, DropRecord, TypeOK
    <3>2. status[a] = "VALID"
      BY <2>1, <2>5 DEF Recorded
    <3>3. status'[a] # "CONSUMED"
      BY <2>1, <2>5, <3>2 DEF RejectApproval, TypeOK
    <3> QED
      BY <3>1, <3>3
  <2>6. ASSUME NEW a \in Approvals, NEW o \in Orders, NEW matches \in BOOLEAN,
               ConsumeAndSubmit(a, o, matches)
        PROVE  Promise
    <3>1. UNCHANGED current_position /\ a \notin stale /\ stale' = stale \ {a}
      BY <2>6 DEF ConsumeAndSubmit, Submittable, DropRecord, ledger
    <3> QED
      BY <3>1
  <2>7. ASSUME NEW past, AdvanceTime(past) PROVE Promise
    BY <2>3, <2>7 DEF AdvanceTime, ledger
  <2>8. ASSUME NEW amount, RequestApproval(amount) PROVE Promise
    BY <2>3, <2>8 DEF RequestApproval, Grants
  <2>9. ASSUME NEW o, NEW f, NEW amount, OnLateFill(o, f, amount) \/ OnOverFill(o, f, amount)
        PROVE  Promise
    BY <2>3, <2>9 DEF OnLateFill, OnOverFill, ledger, approvals
  <2>10. ASSUME NEW o, NEW f, NEW amount, OnFill(o, f, amount) PROVE Promise
    BY <2>2, <2>10 DEF OnFill
  <2>11. ASSUME NEW o, RequestCancel(o) PROVE Promise
    BY <2>3, <2>11 DEF RequestCancel, ledger, approvals
  <2>12. ASSUME NEW report, OnInvalidReport(report) PROVE Promise
    BY <2>3, <2>12 DEF OnInvalidReport, ledger, approvals
  <2>13. ASSUME NEW o, OnContradiction(o) PROVE Promise
    BY <2>2, <2>13 DEF OnContradiction
  <2>14. ASSUME NEW o, NEW report, NEW final_state,
                \/ OnCancelConfirmed(o, report)
                \/ ResolveOrder(o, final_state, report)
                \/ ResolveConflict(o, report)
         PROVE  Promise
    BY <2>2, <2>14 DEF OnCancelConfirmed, ResolveOrder, ResolveConflict
  <2>15. CASE LoseConnection \/ RestoreConnection \/ Halt
    BY <2>3, <2>15 DEF LoseConnection, RestoreConnection, Halt, MoveTo, ledger
  <2>16. CASE CompleteReconciliation \/ ManualReset
    BY <2>2, <2>16 DEF CompleteReconciliation, ManualReset, MoveTo
  <2>17. CASE UNCHANGED vars
    BY <2>17
  <2> HIDE DEF Promise
  <2> QED
    BY <1>1, <2>4, <2>5, <2>6, <2>7, <2>8, <2>9, <2>10, <2>11, <2>12, <2>13, <2>14, <2>15,
       <2>16, <2>17
    DEF Next, ConsumeWhileUnknown, ConsumeExpired, ConsumeRejected, Consumable,
        OnCancelContradicted, ResolveContradicted
<1> QED
  BY <1>1, InductiveCorrect, PTL DEF Spec, StaleApprovalsNeverSubmitted

(* Trading resumes only through reconciliation, and HALTED is left only for it. *)
THEOREM ReopeningCorrect == Spec => Reopening
<1> DEFINE Promise ==
      /\ system_state' = "OPERATIONAL" /\ system_state # "OPERATIONAL" =>
            /\ system_state = "RECONCILING"
            /\ ~HasUnknownOrders' /\ ~HasDataConflicts'
            /\ Recorded' \subseteq stale'
      /\ system_state = "HALTED" => system_state' \in {"HALTED", "RECONCILING"}
<1>1. ASSUME [Next]_vars PROVE [Promise]_vars
  <2>1. ASSUME UNCHANGED system_state PROVE Promise
    BY <2>1
  <2>2. ASSUME EnterReconciling PROVE Promise
    BY <2>2 DEF EnterReconciling
  <2>3. CASE CompleteReconciliation
    BY <2>3 DEF CompleteReconciliation, MoveTo, BumpRiskVersion, Recorded,
       HasUnknownOrders, HasDataConflicts
  <2>4. CASE LoseConnection \/ RestoreConnection \/ ManualReset \/ Halt
    BY <2>4 DEF LoseConnection, RestoreConnection, ManualReset, Halt, MoveTo
  <2>5. ASSUME NEW o, NEW f, NEW amount, OnLateFill(o, f, amount) PROVE Promise
    BY <2>1, <2>2, <2>5 DEF OnLateFill, RaiseConflict
  <2>6. ASSUME NEW o, NEW f, NEW amount, OnOverFill(o, f, amount) PROVE Promise
    BY <2>2, <2>6 DEF OnOverFill, RaiseConflict
  <2>7. ASSUME NEW report, OnInvalidReport(report) PROVE Promise
    BY <2>2, <2>7 DEF OnInvalidReport
  <2>8. ASSUME NEW o, OnContradiction(o) PROVE Promise
    BY <2>2, <2>8 DEF OnContradiction, RaiseConflict
  <2>9. ASSUME \/ \E past : AdvanceTime(past)
               \/ \E amount : RequestApproval(amount)
               \/ CleanupExpired
               \/ \E a, own, verdict : RejectApproval(a, own, verdict)
               \/ \E a, o, matches : ConsumeAndSubmit(a, o, matches)
               \/ \E o, f, amount : OnFill(o, f, amount)
               \/ \E o : RequestCancel(o)
               \/ \E o, report : OnCancelConfirmed(o, report)
               \/ \E o, final_state, report : ResolveOrder(o, final_state, report)
               \/ \E o, report : ResolveConflict(o, report)
        PROVE  Promise
    BY <2>1, <2>9 DEF AdvanceTime, RequestApproval, Grants, CleanupExpired, RejectApproval,
       ConsumeAndSubmit, OnFill, RequestCancel, OnCancelConfirmed, ResolveOrder,
       ResolveConflict
  <2>10. CASE UNCHANGED vars
    BY <2>10
  <2> HIDE DEF Promise
  <2> QED
    BY <1>1, <2>3, <2>4, <2>5, <2>6, <2>7, <2>8, <2>9, <2>10
    DEF Next, ConsumeWhileUnknown, ConsumeExpired, ConsumeRejected,
        OnCancelContradicted, ResolveContradicted
<1> QED
  BY <1>1, PTL DEF Spec, Reopening
=============================================================================
