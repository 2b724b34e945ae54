-------------------------- MODULE RiskVenueProofs ---------------------------
(***************************************************************************)
(* Theorems about RiskVenue, for every limit and every finite set of       *)
(* orders and amounts: the engine's ledger covers what a truthful exchange *)
(* may do, the limit holds at all times, and the two together implement    *)
(* BoundedExposure.                                                        *)
(***************************************************************************)
EXTENDS RiskVenue, RiskEngineProofs

USE DEF Invalid, NotConfirmed

(* Every step of the composition is a step of the engine, or leaves it alone. *)
LEMMA EngineSteps ==
  VenueInductive /\ [VenueNext]_venueVars => [Next]_vars
<1> SUFFICES ASSUME VenueInductive, [VenueNext]_venueVars PROVE [Next]_vars
  OBVIOUS
<1>1. MaxQty \in Nat /\ Limit \in Nat
  BY Constants
<1>2. \A o \in Orders : /\ venue[o].executed \in Inputs
                        /\ venue[o].state # "none" => Lots(o) \in Inputs
                        /\ Lots(o) \in Nat
  BY <1>1 DEF VenueInductive, OrderFaithful, VenueRecords, Inputs, Lots, Known,
     Inductive, TypeOK, OrderRecords
<1>3. 0 \in Inputs /\ 1..MaxQty \subseteq Inputs
  BY <1>1 DEF Inputs
<1>4. CASE EngineStep
  BY <1>3, <1>4 DEF EngineStep, Next
<1>5. ASSUME NEW a \in Approvals, NEW o \in Orders, Submit(a, o) PROVE Next
  BY <1>5 DEF Submit, Next
<1>6. ASSUME NEW o \in Orders, Execute(o) \/ CloseOrder(o) PROVE UNCHANGED vars
  BY <1>6 DEF Execute, CloseOrder
<1>7. ASSUME NEW o \in Orders, NEW k \in 1..MaxQty, ReportFill(o, k) PROVE Next
  <2>1. <<o, k>> \in Fills /\ 1 \in Inputs
    BY <1>1, <1>3, FillsAssumption
  <2> QED
    BY <1>7, <2>1 DEF ReportFill, Next
<1>8. ASSUME NEW o \in Orders, ReportCancel(o) PROVE Next
  BY <1>2, <1>8 DEF ReportCancel, Next
<1>9. ASSUME NEW o \in Orders, ReportStatus(o) PROVE Next
  <2>1. {"OPEN", "FILLED", "CANCELED"} \subseteq OrderStates \ {"ABSENT"}
    BY DEF OrderStates
  <2>2. \E report \in Inputs, s \in OrderStates \ {"ABSENT"} : ResolveOrder(o, s, report)
    BY <1>2, <1>3, <1>9, <2>1 DEF ReportStatus
  <2> QED
    BY <2>2 DEF Next
<1>10. ASSUME NEW o \in Orders, ReportVerified(o) PROVE Next
  BY <1>2, <1>10 DEF ReportVerified, Next
<1>11. CASE UNCHANGED venueVars
  BY <1>11 DEF venueVars
<1> QED
  BY <1>4, <1>5, <1>6, <1>7, <1>8, <1>9, <1>10, <1>11 DEF VenueNext

(***************************************************************************)
(* Each order is seen as it is                                             *)
(***************************************************************************)

(* What the invariant says of one order. *)
LEMMA OrderFacts ==
  ASSUME VenueInductive, NEW o \in Orders
  PROVE  /\ MaxQty \in Nat
         /\ orders[o] \in OrderRecords /\ Consistent(orders[o])
         /\ orders[o].initial \in Nat /\ orders[o].filled \in Nat /\ orders[o].seen \in Nat
         /\ orders[o].total \in Nat \cup {NotConfirmed}
         /\ orders[o].state \in OrderStates
         /\ orders \in [Orders -> OrderRecords]
         /\ venue \in [Orders -> VenueRecords]
         /\ venue[o].state \in {"none", "live", "closed"} /\ venue[o].executed \in Nat
         /\ OrderFaithful(o)
<1>1. MaxQty \in Nat
  BY Constants
<1>2. orders \in [Orders -> OrderRecords] /\ Consistent(orders[o])
  BY DEF VenueInductive, Inductive, TypeOK, OrdersConsistent
<1>3. venue \in [Orders -> VenueRecords] /\ OrderFaithful(o)
  BY DEF VenueInductive
<1> QED
  BY <1>1, <1>2, <1>3 DEF OrderRecords, VenueRecords

(* An order that a step leaves alone stays faithful. *)
LEMMA Frame ==
  ASSUME VenueInductive, NEW p \in Orders,
         orders'[p].state = orders[p].state, orders'[p].initial = orders[p].initial,
         orders'[p].filled = orders[p].filled, orders'[p].total = orders[p].total,
         orders'[p].seen = orders[p].seen,
         venue'[p] = venue[p], SeenFills(p)' = SeenFills(p),
         p \in unresolved_conflicts' => p \in unresolved_conflicts
  PROVE  OrderFaithful(p)'
BY OrderFacts DEF OrderFaithful, Final, Complete, Lots, Known

(* The engine's own steps touch at most the flag of a requested cancel. *)
LEMMA EngineFaithful ==
  ASSUME VenueInductive, EngineStep, NEW p \in Orders
  PROVE  OrderFaithful(p)'
<1>1. /\ UNCHANGED <<processed_fills, unresolved_conflicts, venue>>
      /\ \/ UNCHANGED orders
         \/ \E o \in Orders :
              orders' = [orders EXCEPT ![o] = [@ EXCEPT !.cancel_requested = TRUE]]
  BY DEF EngineStep, AdvanceTime, RequestApproval, CleanupExpired, ConsumeWhileUnknown,
     ConsumeExpired, ConsumeRejected, RejectApproval, RequestCancel, LoseConnection,
     RestoreConnection, CompleteReconciliation, ManualReset, Halt, MoveTo
<1>2. /\ orders'[p].state = orders[p].state /\ orders'[p].initial = orders[p].initial
      /\ orders'[p].filled = orders[p].filled /\ orders'[p].total = orders[p].total
      /\ orders'[p].seen = orders[p].seen
  BY <1>1, OrderFacts DEF OrderRecords
<1>3. SeenFills(p)' = SeenFills(p)
  BY <1>1 DEF SeenFills
<1> QED
  BY <1>1, <1>2, <1>3, Frame

(* A new order is live and has executed nothing. *)
LEMMA SubmitFaithful ==
  ASSUME VenueInductive, NEW a \in Approvals, NEW o \in Orders, Submit(a, o),
         NEW p \in Orders
  PROVE  OrderFaithful(p)'
<1>1. /\ orders' = [orders EXCEPT ![o] = NewOrder(registry[a])]
      /\ venue' = [venue EXCEPT ![o].state = "live"]
      /\ UNCHANGED <<processed_fills, unresolved_conflicts>>
      /\ ~Known(o)
  BY DEF Submit, ConsumeAndSubmit, Submittable
<1>2. SeenFills(p)' = SeenFills(p)
  BY <1>1 DEF SeenFills
<1>3. CASE p # o
  BY <1>1, <1>2, <1>3, Frame, OrderFacts
<1>4. CASE p = o
  <2>1. /\ venue[o].state = "none" /\ venue[o].executed = 0
        /\ o \notin unresolved_conflicts
    BY <1>1, OrderFacts DEF OrderFaithful, Final, Complete
  <2>2. venue'[o].state = "live" /\ venue'[o].executed = 0
    BY <1>1, <2>1, OrderFacts DEF VenueRecords
  <2>3. registry[a] \in Nat /\ registry[a] <= MaxQty
    BY DEF VenueInductive, Inductive, TypeOK
  <2>4. /\ orders'[o].state = "UNKNOWN" /\ orders'[o].initial = registry[a]
        /\ orders'[o].filled = 0 /\ orders'[o].total = NotConfirmed
    BY <1>1, OrderFacts DEF NewOrder, Absent
  <2>5. SeenFills(o) \subseteq {o} \X (1..0)
    BY <2>1, OrderFacts DEF OrderFaithful
  <2>6. Cardinality(SeenFills(o)) = 0
    <3>1. SeenFills(o) = {}
      BY <2>5
    <3> QED
      BY <3>1, FS_EmptySet
  <2>7. (venue'[o].state = "none" <=> ~Known(o)')
        /\ (Known(o)' => Lots(o)' <= MaxQty)
        /\ venue'[o].executed <= Lots(o)'
    BY <2>2, <2>3, <2>4 DEF Known, Lots
  <2> QED
    BY <1>1, <1>2, <1>4, <2>1, <2>2, <2>4, <2>5, <2>6, <2>7 DEF OrderFaithful
<1> QED
  BY <1>3, <1>4

(* An order that trades or closes was not settled before. *)
LEMMA TradeFaithful ==
  ASSUME VenueInductive, NEW o \in Orders, Execute(o) \/ CloseOrder(o), NEW p \in Orders
  PROVE  OrderFaithful(p)'
<1>1. /\ UNCHANGED vars
      /\ venue[o].state = "live" /\ ~Complete(o)
      /\ \/ venue' = [venue EXCEPT ![o].executed = @ + 1]
         \/ venue' = [venue EXCEPT ![o].state = "closed"]
  BY DEF Execute, CloseOrder
<1>2. UNCHANGED <<orders, processed_fills, unresolved_conflicts>>
      /\ SeenFills(p)' = SeenFills(p)
  BY <1>1 DEF vars, SeenFills
<1>3. CASE p # o
  BY <1>1, <1>2, <1>3, Frame, OrderFacts
<1>4. CASE p = o
  <2>1. /\ ~Final(o) /\ venue[o].executed < Lots(o)
        /\ orders[o].state # "CANCELED" /\ o \notin unresolved_conflicts
    <3>1. ~Final(o)
      BY <1>1 DEF Final
    <3>2. venue[o].executed # Lots(o)
      BY <1>1 DEF Complete
    <3>3. /\ venue[o].executed <= Lots(o) /\ venue[o].executed \in Nat
          /\ Lots(o) \in Nat
          /\ orders[o].state = "CANCELED" \/ o \in unresolved_conflicts => Final(o)
      <4>1. OrderFaithful(o)
        BY OrderFacts
      <4> QED
        BY <4>1, OrderFacts DEF OrderFaithful, Lots
    <3> QED
      BY <3>1, <3>2, <3>3
  <2>2. /\ venue'[o].state \in {"live", "closed"}
        /\ venue'[o].executed \in {venue[o].executed, venue[o].executed + 1}
    BY <1>1, OrderFacts DEF VenueRecords
  <2>3. SeenFills(o) \subseteq {o} \X (1..venue'[o].executed)
    BY <2>2, OrderFacts DEF OrderFaithful
  <2>4. venue'[o].executed <= Lots(o) /\ orders[o].filled <= venue'[o].executed
    BY <2>1, <2>2, OrderFacts DEF OrderFaithful, Lots
  <2> QED
    BY <1>1, <1>2, <1>4, <2>1, <2>2, <2>3, <2>4, OrderFacts
    DEF OrderFaithful, Known, Lots
<1> QED
  BY <1>3, <1>4

(* A fill that was not seen yet is one of those executed, and one more of those seen. *)
LEMMA OneMoreSeen ==
  ASSUME VenueInductive, NEW o \in Orders, NEW k \in 1..MaxQty, k <= venue[o].executed,
         <<o, k>> \notin processed_fills, processed_fills' = processed_fills \cup {<<o, k>>}
  PROVE  /\ SeenFills(o)' \subseteq {o} \X (1..venue[o].executed)
         /\ Cardinality(SeenFills(o)) \in Nat
         /\ Cardinality(SeenFills(o)') = Cardinality(SeenFills(o)) + 1
         /\ Cardinality(SeenFills(o)') <= venue[o].executed
         /\ \A p \in Orders : p # o => SeenFills(p)' = SeenFills(p)
<1> DEFINE n == venue[o].executed
           Lives == UnitsOf(o, n)
<1>1. n \in Nat /\ k \in 1..n
  BY OrderFacts
<1>2. SeenFills(o) \subseteq {o} \X (1..n)
  <2>1. OrderFaithful(o)
    BY OrderFacts
  <2> QED
    BY <2>1 DEF OrderFaithful
<1>3. SeenFills(o)' = SeenFills(o) \cup {<<o, k>>} /\ <<o, k>> \notin SeenFills(o)
  BY DEF SeenFills
<1>4. IsFiniteSet(Lives) /\ Cardinality(Lives) = n /\ Lives = {o} \X (1..n)
  BY <1>1, UnitsOfOwner DEF UnitsOf
<1>5. SeenFills(o)' \subseteq Lives
  BY <1>1, <1>2, <1>3, <1>4
<1>6. /\ IsFiniteSet(SeenFills(o)) /\ IsFiniteSet(SeenFills(o)')
      /\ Cardinality(SeenFills(o)') <= n
  BY <1>2, <1>4, <1>5, FS_Subset
<1>7. /\ Cardinality(SeenFills(o)) \in Nat
      /\ Cardinality(SeenFills(o)') = Cardinality(SeenFills(o)) + 1
  BY <1>3, <1>6, FS_AddElement, FS_CardinalityType
<1>8. ASSUME NEW p \in Orders, p # o PROVE SeenFills(p)' = SeenFills(p)
  BY <1>8 DEF SeenFills
<1> QED
  BY <1>4, <1>5, <1>6, <1>7, <1>8

(* A reported fill is believed once and only as far as it was executed; what looks like
   a contradiction is a late fill of an order whose total is final. *)
LEMMA FillFaithful ==
  ASSUME VenueInductive, NEW o \in Orders, NEW k \in 1..MaxQty, ReportFill(o, k),
         NEW p \in Orders
  PROVE  OrderFaithful(p)'
<1> DEFINE r == orders[o]
<1>1. /\ k <= venue[o].executed /\ UNCHANGED venue
      /\ <<o, k>> \notin processed_fills /\ Known(o)
      /\ processed_fills' = processed_fills \cup {<<o, k>>}
  BY DEF ReportFill, OnLateFill, OnOverFill, OnFill, NewFill
<1>2. /\ SeenFills(o)' \subseteq {o} \X (1..venue[o].executed)
      /\ Cardinality(SeenFills(o)) \in Nat
      /\ Cardinality(SeenFills(o)') = Cardinality(SeenFills(o)) + 1
      /\ Cardinality(SeenFills(o)') <= venue[o].executed
      /\ p # o => SeenFills(p)' = SeenFills(p)
  BY <1>1, OneMoreSeen
<1>3. /\ r \in OrderRecords /\ Consistent(r) /\ orders \in [Orders -> OrderRecords]
      /\ r.initial \in Nat /\ r.filled \in Nat /\ r.seen \in Nat
      /\ venue[o].executed \in Nat /\ venue[o].state \in {"none", "live", "closed"}
  BY OrderFacts
<1>4. /\ venue[o].state # "none" /\ r.initial <= MaxQty
      /\ venue[o].executed <= r.initial /\ r.filled <= venue[o].executed
      /\ r.state # "CANCELED" => r.filled <= Cardinality(SeenFills(o)) \/ r.filled = r.initial
      /\ r.state = "CANCELED" \/ o \in unresolved_conflicts =>
            Final(o) /\ r.filled = venue[o].executed
      /\ r.total # NotConfirmed => r.seen <= r.total
  <2>1. OrderFaithful(o)
    BY OrderFacts
  <2> QED
    BY <1>1, <2>1 DEF OrderFaithful, Lots
<1>5. Final(o) => Final(o)' \/ orders'[o].initial # r.initial
  BY <1>1 DEF Final, Complete, Lots
<1>6. CASE p # o
  BY <1>1, <1>2, <1>6, Frame, OrderFacts
  DEF ReportFill, OnLateFill, OnOverFill, OnFill, RaiseConflict
<1>7. CASE OnLateFill(o, <<o, k>>, 1)
  <2>1. /\ r.state = "CANCELED" /\ unresolved_conflicts' \subseteq unresolved_conflicts \cup {o}
        /\ \/ orders' = orders
           \/ orders' = [orders EXCEPT ![o] = CountLate(r, 1)] /\ ~ExceedsConfirmed(r, 1)
    BY <1>7 DEF OnLateFill, RaiseConflict
  <2>2. /\ orders'[o].state = "CANCELED" /\ orders'[o].initial = r.initial
        /\ orders'[o].filled = r.filled /\ orders'[o].total = r.total
        /\ \/ orders'[o].seen = r.seen
           \/ orders'[o].seen = r.seen + 1 /\ r.seen + 1 <= r.total
    <3>1. r.total # NotConfirmed
      BY <1>3, <2>1 DEF Consistent
    <3>2. CASE orders' = orders
      BY <2>1, <3>2
    <3>3. CASE orders' = [orders EXCEPT ![o] = CountLate(r, 1)] /\ ~ExceedsConfirmed(r, 1)
      <4>1. /\ r.seen + 1 <= r.total
        BY <1>3, <3>1, <3>3 DEF ExceedsConfirmed, OrderRecords
      <4>2. /\ CountLate(r, 1).state = r.state /\ CountLate(r, 1).initial = r.initial
            /\ CountLate(r, 1).filled = r.filled /\ CountLate(r, 1).total = r.total
            /\ CountLate(r, 1).seen = r.seen + 1
        BY <1>3, <3>1 DEF CountLate, OrderRecords
      <4> QED
        BY <1>3, <2>1, <3>3, <4>1, <4>2
    <3> QED
      BY <2>1, <3>2, <3>3
  <2> QED
    BY <1>1, <1>2, <1>3, <1>4, <1>5, <1>6, <2>1, <2>2 DEF OrderFaithful, Lots, Known
<1>8. CASE OnOverFill(o, <<o, k>>, 1)
  <2>1. /\ r.state # "CANCELED" /\ r.filled + 1 > r.initial /\ orders' = orders
    BY <1>8 DEF OnOverFill, OverFills
  <2>2. r.filled = r.initial /\ venue[o].executed = r.initial
    BY <1>3, <1>4, <2>1
  <2>3. Final(o)'
    BY <1>1, <1>3, <1>4, <2>1, <2>2 DEF Final, Complete, Lots
  <2> QED
    BY <1>1, <1>2, <1>3, <1>4, <1>6, <2>1, <2>2, <2>3 DEF OrderFaithful, Lots, Known
<1>9. CASE OnFill(o, <<o, k>>, 1)
  <2>1. /\ r.state # "CANCELED" /\ r.filled + 1 <= r.initial
        /\ orders' = [orders EXCEPT ![o] = Filled(r, 1)]
        /\ unresolved_conflicts' = unresolved_conflicts
    BY <1>3, <1>9 DEF OnFill, OverFills
  <2>2. r.filled <= Cardinality(SeenFills(o))
    BY <1>3, <1>4, <2>1
  <2>3. r.filled + 1 <= Cardinality(SeenFills(o)') /\ r.filled + 1 <= venue[o].executed
    BY <1>2, <1>3, <2>2
  <2>4. o \notin unresolved_conflicts
    BY <1>3, <1>4, <2>3
  <2>5. /\ orders'[o].filled = r.filled + 1 /\ orders'[o].initial = r.initial
        /\ orders'[o].state \in {"FILLED", "PARTIALLY_FILLED"}
        /\ orders'[o].state = "FILLED" => venue[o].executed = r.initial
        /\ orders'[o].total = NotConfirmed
    <3>1. /\ Filled(r, 1).filled = r.filled + 1 /\ Filled(r, 1).initial = r.initial
          /\ Filled(r, 1).state \in {"FILLED", "PARTIALLY_FILLED"}
          /\ Filled(r, 1).state = "FILLED" => r.filled + 1 >= r.initial
          /\ Filled(r, 1).total = r.total
      BY <1>3 DEF Filled, OrderRecords
    <3>2. r.total = NotConfirmed
      BY <1>3, <2>1 DEF Consistent
    <3> QED
      BY <1>3, <1>4, <2>1, <2>3, <3>1, <3>2
  <2> QED
    BY <1>1, <1>2, <1>3, <1>4, <1>6, <2>1, <2>3, <2>4, <2>5 DEF OrderFaithful, Lots, Known
<1> QED
  BY <1>7, <1>8, <1>9 DEF ReportFill

(* A settled order keeps its remaining facts: it is final and filled with exactly what
   was executed. *)
LEMMA SettledFaithful ==
  ASSUME VenueInductive, NEW o \in Orders, NEW s \in OrderRecords, Known(o), Final(o),
         UNCHANGED <<venue, processed_fills>>,
         unresolved_conflicts' \subseteq unresolved_conflicts,
         orders' = [orders EXCEPT ![o] = s],
         s.state = "CANCELED", s.initial = orders[o].initial,
         s.filled = venue[o].executed, s.total = venue[o].executed,
         s.seen = orders[o].seen, s.seen <= venue[o].executed,
         NEW p \in Orders
  PROVE  OrderFaithful(p)'
<1>1. SeenFills(p)' = SeenFills(p)
  BY DEF SeenFills
<1>2. orders'[o] = s /\ (p # o => orders'[p] = orders[p])
  BY OrderFacts
<1>3. CASE p # o
  BY <1>1, <1>2, <1>3, Frame, OrderFacts
<1>4. CASE p = o
  <2>1. OrderFaithful(o) /\ venue[o].executed \in Nat
    BY OrderFacts
  <2>2. Final(o)'
    BY <1>2 DEF Final, Complete, Lots
  <2> QED
    BY <1>1, <1>2, <1>4, <2>1, <2>2 DEF OrderFaithful, Lots, Known
<1> QED
  BY <1>3, <1>4

(* A closed order's total settles it, and never contradicts what was seen of it. *)
LEMMA SettleFaithful ==
  ASSUME VenueInductive, NEW o \in Orders, venue[o].state = "closed",
         orders[o].state \notin {"ABSENT", "CANCELED"},
         SettleCanceled(o, venue[o].executed),
         UNCHANGED <<venue, processed_fills, unresolved_conflicts>>,
         NEW p \in Orders
  PROVE  OrderFaithful(p)'
<1> DEFINE r == orders[o]
           q == venue[o].executed
           s == CanceledAt(r, q)
<1>1. r \in OrderRecords /\ Consistent(r) /\ q \in Nat
  BY OrderFacts
<1>2. Known(o) /\ Final(o) /\ r.filled <= q /\ q <= r.initial
  <2>1. OrderFaithful(o)
    BY OrderFacts
  <2> QED
    BY <2>1 DEF OrderFaithful, Lots, Final, Known
<1>3. ~Contradicts(r, q)
  BY <1>1, <1>2 DEF Contradicts, OrderRecords
<1>4. /\ s.filled = r.filled + Unseen(r, q) /\ s.state = "CANCELED" /\ s.total = q
      /\ s.seen = r.seen /\ s.seen <= q
  BY <1>1, <1>3, CanceledEffect
<1>5. s.filled = q /\ s.initial = r.initial
  BY <1>1, <1>2, <1>4 DEF Unseen, CanceledAt, OrderRecords
<1>6. s \in OrderRecords /\ orders' = [orders EXCEPT ![o] = s]
  BY <1>1, RecordTypes DEF SettleCanceled
<1> HIDE DEF s
<1> QED
  BY <1>2, <1>4, <1>5, <1>6, SettledFaithful

(* The confirmation of a cancel. *)
LEMMA CancelFaithful ==
  ASSUME VenueInductive, NEW o \in Orders, ReportCancel(o), NEW p \in Orders
  PROVE  OrderFaithful(p)'
<1>1. /\ orders[o].state \notin {"ABSENT", "CANCELED"}
      /\ venue[o].state = "closed" /\ UNCHANGED <<venue, processed_fills>>
  BY DEF ReportCancel, OnCancelConfirmed, OnCancelContradicted, OnContradiction, Known
<1>2. ~OnCancelContradicted(o, venue[o].executed)
  <2>1. OrderFaithful(o) /\ orders[o].filled \in Nat /\ orders[o].initial \in Nat
        /\ venue[o].executed \in Nat
    BY OrderFacts
  <2>2. ~Contradicts(orders[o], venue[o].executed)
    BY <2>1 DEF Contradicts, OrderFaithful, Lots
  <2> QED
    BY <2>2 DEF OnCancelContradicted
<1>3. SettleCanceled(o, venue[o].executed) /\ UNCHANGED unresolved_conflicts
  BY <1>2 DEF ReportCancel, OnCancelConfirmed
<1> QED
  BY <1>1, <1>3, SettleFaithful

(* The answer for an order of unknown outcome. *)
LEMMA StatusFaithful ==
  ASSUME VenueInductive, NEW o \in Orders, ReportStatus(o), NEW p \in Orders
  PROVE  OrderFaithful(p)'
<1> DEFINE r == orders[o]
<1>1. /\ r.state = "UNKNOWN"
      /\ UNCHANGED <<venue, processed_fills, unresolved_conflicts>>
  BY DEF ReportStatus, ResolveOrder
<1>2. /\ r \in OrderRecords /\ Consistent(r) /\ orders \in [Orders -> OrderRecords]
      /\ r.initial \in Nat /\ r.filled = 0 /\ r.total = NotConfirmed
      /\ venue[o].executed \in Nat /\ OrderFaithful(o)
  BY <1>1, OrderFacts DEF Consistent
<1>3. /\ SeenFills(p)' = SeenFills(p)
      /\ Cardinality(SeenFills(o)) \in Nat
  <2>1. SeenFills(o) \subseteq UnitsOf(o, venue[o].executed)
    BY <1>2 DEF OrderFaithful, UnitsOf
  <2>2. IsFiniteSet(SeenFills(o))
    BY <1>2, <2>1, UnitsOfOwner, FS_Subset
  <2> QED
    BY <1>1, <2>2, FS_CardinalityType DEF SeenFills
<1>4. CASE ResolveOrder(o, "CANCELED", venue[o].executed) /\ venue[o].state = "closed"
  BY <1>1, <1>4, SettleFaithful DEF ResolveOrder
<1>5. ASSUME NEW s \in OrderRecords, orders' = [orders EXCEPT ![o] = s],
             s.state \in {"OPEN", "FILLED"}, s.initial = r.initial, s.total = NotConfirmed,
             s.state = "FILLED" => Complete(o),
             \/ s.filled = 0
             \/ s.filled = r.initial /\ Complete(o)
      PROVE  OrderFaithful(p)'
  <2>1. orders'[o] = s /\ (p # o => orders'[p] = orders[p])
    BY <1>2, <1>5
  <2>2. CASE p # o
    BY <1>1, <1>3, <2>1, <2>2, Frame, OrderFacts
  <2>3. CASE p = o
    <3>1. /\ s.filled \in Nat /\ s.filled <= venue[o].executed
          /\ s.filled <= Cardinality(SeenFills(o)) \/ s.filled = r.initial
          /\ Final(o) => Final(o)'
          /\ o \in unresolved_conflicts => s.filled = venue[o].executed
          /\ s.state = "FILLED" => venue[o].executed = s.initial
      BY <1>1, <1>2, <1>3, <1>5, <2>1 DEF OrderFaithful, Lots, Complete, Final
    <3> QED
      BY <1>1, <1>2, <1>3, <1>5, <2>1, <2>3, <3>1 DEF OrderFaithful, Lots, Known
  <2> QED
    BY <2>2, <2>3
<1>6. CASE ResolveOrder(o, "OPEN", 0)
  <2> DEFINE s == [r EXCEPT !.state = "OPEN"]
  <2>1. s \in OrderRecords /\ orders' = [orders EXCEPT ![o] = s]
    BY <1>2, <1>6, RecordTypes DEF ResolveOrder
  <2>2. s.state = "OPEN" /\ s.initial = r.initial /\ s.total = NotConfirmed /\ s.filled = 0
    BY <1>2 DEF OrderRecords
  <2> HIDE DEF s
  <2> QED
    BY <1>5, <2>1, <2>2
<1>7. ASSUME NEW total \in {0, Lots(o)}, Complete(o), ResolveOrder(o, "FILLED", total)
      PROVE  OrderFaithful(p)'
  <2> DEFINE s == FilledAt(r, total)
  <2>1. total \in Nat /\ (total = 0 \/ total = r.initial)
    BY <1>2 DEF Lots
  <2>2. s \in OrderRecords /\ orders' = [orders EXCEPT ![o] = s]
    BY <1>2, <1>7, <2>1, RecordTypes DEF ResolveOrder
  <2>3. /\ s.state = "FILLED" /\ s.initial = r.initial /\ s.total = NotConfirmed
        /\ s.filled = total
    BY <1>2, <2>1 DEF FilledAt, Unseen, OrderRecords
  <2> HIDE DEF s
  <2> QED
    BY <1>5, <1>7, <2>1, <2>2, <2>3
<1> QED
  BY <1>4, <1>6, <1>7 DEF ReportStatus

(* The verified total of an order in conflict. *)
LEMMA VerifiedFaithful ==
  ASSUME VenueInductive, NEW o \in Orders, ReportVerified(o), NEW p \in Orders
  PROVE  OrderFaithful(p)'
<1> DEFINE r == orders[o]
           q == venue[o].executed
           s == ResolvedAt(r, q)
<1>1. /\ Final(o) /\ Known(o) /\ o \in unresolved_conflicts
      /\ orders' = [orders EXCEPT ![o] = s]
      /\ UNCHANGED <<venue, processed_fills>>
      /\ unresolved_conflicts' \subseteq unresolved_conflicts
  BY DEF ReportVerified, ResolveConflict
<1>2. /\ r \in OrderRecords /\ Consistent(r) /\ q \in Nat /\ OrderFaithful(o)
      /\ s \in OrderRecords
  BY OrderFacts, RecordTypes
<1>3. /\ s.state = "CANCELED" /\ s.initial = r.initial /\ s.filled = q /\ s.total = q
      /\ s.seen = r.seen
  BY <1>2 DEF ResolvedAt, OrderRecords
<1>4. r.seen <= q
  BY <1>1, <1>2 DEF Consistent, OrderFaithful, OrderRecords
<1> HIDE DEF s
<1> QED
  BY <1>1, <1>2, <1>3, <1>4, SettledFaithful

(***************************************************************************)
(* The invariant of the composition                                        *)
(***************************************************************************)

(* Every step sees every order as it is. *)
LEMMA FaithfulStep ==
  ASSUME VenueInductive, [VenueNext]_venueVars, NEW p \in Orders
  PROVE  OrderFaithful(p)'
<1>1. CASE UNCHANGED venueVars
  <2>1. UNCHANGED <<orders, venue, unresolved_conflicts, processed_fills>>
    BY <1>1 DEF venueVars, vars
  <2> QED
    BY <2>1, Frame DEF SeenFills
<1> QED
  BY <1>1, EngineFaithful, SubmitFaithful, TradeFaithful, FillFaithful, CancelFaithful,
     StatusFaithful, VerifiedFaithful DEF VenueNext

(* The exchange's records keep their type. *)
LEMMA VenueTypeStep ==
  VenueInductive /\ [VenueNext]_venueVars => venue' \in [Orders -> VenueRecords]
<1> SUFFICES ASSUME VenueInductive, [VenueNext]_venueVars
             PROVE  venue' \in [Orders -> VenueRecords]
  OBVIOUS
<1>1. venue \in [Orders -> VenueRecords] /\ MaxQty \in Nat
  BY Constants DEF VenueInductive
<1>2. ASSUME NEW o \in Orders, Execute(o) PROVE venue' \in [Orders -> VenueRecords]
  <2>1. OrderFaithful(o) /\ orders[o].initial \in Nat /\ venue[o].executed \in Nat
    BY OrderFacts
  <2>2. venue[o].state = "live" /\ venue[o].executed # Lots(o) /\ Known(o)
    BY <1>2, <2>1 DEF Execute, Complete, OrderFaithful
  <2>3. venue[o].executed + 1 \in 0..MaxQty
    BY <1>1, <2>1, <2>2 DEF OrderFaithful, Lots
  <2>4. [venue[o] EXCEPT !.executed = venue[o].executed + 1] \in VenueRecords
    BY <1>1, <2>3 DEF VenueRecords
  <2>5. venue' = [venue EXCEPT ![o] = [venue[o] EXCEPT !.executed = venue[o].executed + 1]]
    BY <1>1, <1>2 DEF Execute
  <2> QED
    BY <1>1, <2>4, <2>5
<1>3. ASSUME NEW o \in Orders, CloseOrder(o) \/ (\E a \in Approvals : Submit(a, o))
      PROVE  venue' \in [Orders -> VenueRecords]
  BY <1>1, <1>3 DEF CloseOrder, Submit, VenueRecords
<1>4. CASE UNCHANGED venue
  BY <1>1, <1>4
<1> QED
  BY <1>2, <1>3, <1>4 DEF VenueNext, venueVars, EngineStep, ReportFill, ReportCancel,
     ReportStatus, ReportVerified

(* Approvals stay within the largest amount a caller asks for. *)
LEMMA AmountsStep ==
  VenueInductive /\ [VenueNext]_venueVars => \A a \in Approvals : registry'[a] <= MaxQty
<1> SUFFICES ASSUME VenueInductive, [VenueNext]_venueVars, NEW a \in Approvals
             PROVE  registry'[a] <= MaxQty
  OBVIOUS
<1>1. registry \in [Approvals -> Nat] /\ registry[a] <= MaxQty /\ MaxQty \in Nat
  BY Constants DEF VenueInductive, Inductive, TypeOK
<1>2. ASSUME NEW amount \in 1..MaxQty, RequestApproval(amount) PROVE registry'[a] <= MaxQty
  BY <1>1, <1>2 DEF RequestApproval
<1>3. CASE CleanupExpired
  BY <1>1, <1>3 DEF CleanupExpired, Part
<1>4. ASSUME NEW b \in Approvals, DropRecord(b) PROVE registry'[a] <= MaxQty
  BY <1>1, <1>4 DEF DropRecord
<1>5. CASE UNCHANGED registry
  BY <1>1, <1>5
<1>6. CASE EngineStep
  <2>1. ASSUME NEW b \in Approvals,
               \/ \E own \in BOOLEAN : ConsumeWhileUnknown(b, own)
               \/ ConsumeExpired(b)
               \/ \E o \in Orders, matches \in BOOLEAN : ConsumeRejected(b, o, matches)
        PROVE  DropRecord(b)
    BY <2>1 DEF ConsumeWhileUnknown, ConsumeExpired, ConsumeRejected, RejectApproval
  <2>2. ASSUME \/ \E past \in SUBSET (Recorded \ lapsed) : AdvanceTime(past)
               \/ \E o \in Orders : RequestCancel(o)
               \/ LoseConnection \/ RestoreConnection \/ CompleteReconciliation
               \/ ManualReset \/ Halt
        PROVE  UNCHANGED registry
    BY <2>2 DEF AdvanceTime, RequestCancel, LoseConnection, RestoreConnection,
       CompleteReconciliation, ManualReset, Halt, MoveTo, approvals
  <2> QED
    BY <1>2, <1>3, <1>4, <1>5, <1>6, <2>1, <2>2 DEF EngineStep
<1>7. ASSUME NEW b \in Approvals, NEW o \in Orders, Submit(b, o) PROVE registry'[a] <= MaxQty
  BY <1>4, <1>7 DEF Submit, ConsumeAndSubmit
<1>8. ASSUME NEW o \in Orders, NEW k \in 1..MaxQty, ReportFill(o, k) PROVE UNCHANGED registry
  BY <1>8 DEF ReportFill, OnLateFill, OnOverFill, OnFill, approvals
<1>9. ASSUME NEW o \in Orders,
             \/ Execute(o) \/ CloseOrder(o) \/ ReportCancel(o)
             \/ ReportStatus(o) \/ ReportVerified(o)
      PROVE  UNCHANGED registry
  <2>1. CASE Execute(o) \/ CloseOrder(o)
    BY <2>1 DEF Execute, CloseOrder, vars, approvals
  <2>2. CASE ReportCancel(o)
    BY <2>2 DEF ReportCancel, OnCancelConfirmed, OnCancelContradicted, OnContradiction
  <2>3. CASE ReportStatus(o)
    BY <2>3 DEF ReportStatus, ResolveOrder
  <2>4. CASE ReportVerified(o)
    BY <2>4 DEF ReportVerified, ResolveConflict
  <2> QED
    BY <1>9, <2>1, <2>2, <2>3, <2>4
<1>10. CASE UNCHANGED venueVars
  BY <1>5, <1>10 DEF venueVars, vars, approvals
<1>11. ASSUME NEW o \in Orders,
              \/ Execute(o) \/ CloseOrder(o)
              \/ \E k \in 1..MaxQty : ReportFill(o, k)
              \/ ReportCancel(o) \/ ReportStatus(o) \/ ReportVerified(o)
       PROVE  registry'[a] <= MaxQty
  BY <1>5, <1>8, <1>9, <1>11
<1> QED
  BY <1>5, <1>6, <1>7, <1>10, <1>11 DEF VenueNext

(* The limit holds from step to step: what the exchange can truthfully report of an order
   in conflict is what the position holds of it already. *)
LEMMA LimitStep ==
  VenueInductive /\ [VenueNext]_venueVars => LimitAtAllTimes'
<1> SUFFICES ASSUME VenueInductive, [VenueNext]_venueVars PROVE LimitAtAllTimes'
  OBVIOUS
<1>1. /\ Exposure \in Int /\ Exposure' \in Int /\ Exposure <= Limit /\ Limit \in Nat
      /\ current_position \in Int /\ reservations \in Int
  <2>1. TypeOK /\ TypeOK'
    BY EngineSteps, TypeStep DEF VenueInductive, Inductive
  <2> QED
    BY <2>1, Constants DEF TypeOK, Exposure, VenueInductive, LimitAtAllTimes
<1>2. Exposure' > Exposure => Exposure' <= Limit \/ CorrectsTerminalOrder
  BY EngineSteps, ExposureStep DEF VenueInductive
<1>3. ASSUME NEW o \in Orders, ReportVerified(o) PROVE Exposure' <= Exposure
  <2>1. orders[o].filled = venue[o].executed
    BY <1>3, OrderFacts DEF OrderFaithful, ReportVerified, ResolveConflict
  <2>2. /\ current_position' = current_position + (venue[o].executed - orders[o].filled)
        /\ reservations' = reservations - HeldBeforeResolution(orders[o])
    BY <1>3 DEF ReportVerified, ResolveConflict
  <2>3. HeldBeforeResolution(orders[o]) \in Nat
    <3>1. /\ orders[o].initial \in Nat /\ orders[o].filled \in Nat
          /\ orders[o].filled <= orders[o].initial
      BY OrderFacts DEF Consistent
    <3> QED
      BY <3>1 DEF HeldBeforeResolution
  <2> QED
    BY <1>1, <2>1, <2>2, <2>3, OrderFacts DEF Exposure
<1>4. (\E o \in Orders : ReportVerified(o)) \/ ~CorrectsTerminalOrder
  <2>1. SUFFICES ASSUME ~\E o \in Orders : ReportVerified(o)
                 PROVE  unresolved_conflicts \subseteq unresolved_conflicts'
    BY DEF CorrectsTerminalOrder
  <2>2. ASSUME NEW o \in Orders, NEW k \in 1..MaxQty, ReportFill(o, k)
        PROVE  unresolved_conflicts \subseteq unresolved_conflicts'
    BY <2>2 DEF ReportFill, OnLateFill, OnOverFill, OnFill, RaiseConflict
  <2>3. ASSUME NEW o \in Orders, ReportCancel(o) \/ ReportStatus(o)
        PROVE  unresolved_conflicts \subseteq unresolved_conflicts'
    BY <2>3 DEF ReportCancel, OnCancelConfirmed, OnCancelContradicted, OnContradiction,
       RaiseConflict, ReportStatus, ResolveOrder
  <2>4. ASSUME NEW o \in Orders,
               Execute(o) \/ CloseOrder(o) \/ (\E a \in Approvals : Submit(a, o))
        PROVE  unresolved_conflicts \subseteq unresolved_conflicts'
    BY <2>4 DEF Execute, CloseOrder, Submit, ConsumeAndSubmit, vars
  <2>5. CASE EngineStep
    BY <2>5 DEF EngineStep, AdvanceTime, RequestApproval, CleanupExpired,
       ConsumeWhileUnknown, ConsumeExpired, ConsumeRejected, RejectApproval, RequestCancel,
       LoseConnection, RestoreConnection, CompleteReconciliation, ManualReset, Halt, MoveTo
  <2>6. CASE UNCHANGED venueVars
    BY <2>6 DEF venueVars, vars
  <2> QED
    BY <2>1, <2>2, <2>3, <2>4, <2>5, <2>6 DEF VenueNext
<1> QED
  BY <1>1, <1>2, <1>3, <1>4 DEF LimitAtAllTimes

(* The first state satisfies the invariant. *)
LEMMA VenueInductiveInit == VenueInit => VenueInductive
<1> SUFFICES ASSUME VenueInit PROVE VenueInductive
  OBVIOUS
<1>1. Inductive
  BY InductiveInit DEF VenueInit
<1>2. MaxQty \in Nat /\ Limit \in Nat
  BY Constants
<1>3. venue \in [Orders -> VenueRecords]
  BY <1>2 DEF VenueInit, NotSent, VenueRecords
<1>4. (\A a \in Approvals : registry[a] <= MaxQty) /\ LimitAtAllTimes
  BY <1>2 DEF VenueInit, Init, Fresh, LimitAtAllTimes, Exposure
<1>5. ASSUME NEW o \in Orders PROVE OrderFaithful(o)
  <2>1. /\ venue[o].state = "none" /\ venue[o].executed = 0
        /\ orders[o] = Absent /\ SeenFills(o) = {} /\ o \notin unresolved_conflicts
    BY DEF VenueInit, NotSent, Init, Fresh, SeenFills
  <2> QED
    BY <2>1, FS_EmptySet DEF OrderFaithful, Absent, Known, Lots
<1> QED
  BY <1>1, <1>3, <1>4, <1>5 DEF VenueInductive

(* Every step keeps the invariant of the composition. *)
LEMMA VenueInductiveStep ==
  VenueInductive /\ [VenueNext]_venueVars => VenueInductive'
<1>1. VenueInductive /\ [VenueNext]_venueVars => Inductive'
  BY EngineSteps, TypeStep, LedgerStep, ApprovalsStep, GateStep
  DEF VenueInductive, Inductive
<1> QED
  BY <1>1, FaithfulStep, VenueTypeStep, AmountsStep, LimitStep DEF VenueInductive

(* The engine and a truthful exchange, which may be late, repeat itself or say nothing,
   keep the invariant for good. *)
THEOREM VenueInductiveCorrect == VenueSpec => []VenueInductive
BY VenueInductiveInit, VenueInductiveStep, PTL DEF VenueSpec

(* With a truthful exchange, position plus reservations never exceed the limit. *)
THEOREM LimitCorrect == VenueSpec => []LimitAtAllTimes
<1>1. VenueInductive => LimitAtAllTimes
  BY DEF VenueInductive
<1> QED
  BY <1>1, VenueInductiveCorrect, PTL

(* An order in conflict is filled with all that was executed, and a FILLED one was
   executed in full: resolving a conflict strands nothing. *)
LEMMA NothingStranded == VenueInductive => ~StrandsRemainder
<1> SUFFICES ASSUME VenueInductive, NEW o \in Orders, o \in unresolved_conflicts,
                    orders[o].state = "FILLED"
             PROVE  ~(orders[o].filled < orders[o].initial)
  BY DEF StrandsRemainder, ResolveConflict
<1>1. orders[o].filled = orders[o].initial /\ orders[o].initial \in Nat
  BY OrderFacts DEF OrderFaithful, Lots
<1> QED
  BY <1>1

(* With a truthful exchange nothing stays reserved that no approval and no order holds:
   every reservation is in the end filled or released. *)
THEOREM NothingLeakedCorrect == VenueSpec => []NothingLeaked
<1> DEFINE Exact == VenueInductive /\ NothingLeaked
<1>1. VenueInductive =>
        /\ Total(registry) \in Nat /\ Total(HeldByOrders) \in Nat
        /\ reservations \in Int /\ reservations >= Total(registry) + Total(HeldByOrders)
  BY Tables DEF VenueInductive, Inductive, TypeOK, LedgerCovers
<1>2. VenueInit => Exact
  <2> SUFFICES ASSUME VenueInit PROVE NothingLeaked
    BY VenueInductiveInit
  <2>1. reservations = 0
    BY DEF VenueInit, Init, Fresh
  <2> QED
    BY <1>1, <2>1, VenueInductiveInit DEF NothingLeaked
<1>3. VenueInductive /\ NothingLeaked /\ [VenueNext]_venueVars => NothingLeaked'
  <2> SUFFICES ASSUME VenueInductive, NothingLeaked, [VenueNext]_venueVars
               PROVE  NothingLeaked'
    OBVIOUS
  <2>1. Unclaimed' = Unclaimed
    BY EngineSteps, MovesStep, NothingStranded DEF VenueInductive, LedgerMoves
  <2>2. VenueInductive'
    BY VenueInductiveStep
  <2>3. /\ Total(registry)' \in Nat /\ Total(HeldByOrders)' \in Nat /\ reservations' \in Int
    <3>1. TypeOK' /\ OrdersConsistent'
      BY <2>2 DEF VenueInductive, Inductive
    <3>2. HeldByOrders' \in [Orders -> Nat] /\ registry' \in [Approvals -> Nat]
      BY <3>1, HeldIsNat DEF TypeOK, OrdersConsistent, HeldByOrders
    <3> QED
      BY <3>1, <3>2, Constants, TotalIsNat DEF TypeOK
  <2>4. Unclaimed = 0
    BY <1>1 DEF Unclaimed, NothingLeaked
  <2>5. reservations' - Total(registry)' - Total(HeldByOrders)' = 0
    BY <2>1, <2>4 DEF Unclaimed
  <2> HIDE DEF Exact
  <2>6. reservations' = Total(registry)' + Total(HeldByOrders)'
    BY <2>3, <2>5
  <2> QED
    BY <2>6 DEF NothingLeaked
<1>4. Exact /\ [VenueNext]_venueVars => Exact'
  BY <1>3, VenueInductiveStep
<1>5. Exact => NothingLeaked
  OBVIOUS
<1> HIDE DEF Exact
<1> QED
  BY <1>2, <1>4, <1>5, PTL DEF VenueSpec

(* Late, repeated and reordered reports make no conflict that the order's final total
   cannot resolve. *)
THEOREM ConflictsCorrect == VenueSpec => []ConflictsResolvable
<1>1. VenueInductive => ConflictsResolvable
  <2>1. SUFFICES ASSUME VenueInductive, NEW o \in Orders
                 PROVE  /\ o \in unresolved_conflicts => Final(o)
                        /\ orders[o].total # NotConfirmed => orders[o].seen <= orders[o].total
    BY DEF ConflictsResolvable, VenueInductive, Inductive, TypeOK
  <2> QED
    BY <2>1 DEF VenueInductive, OrderFaithful
<1> QED
  BY <1>1, VenueInductiveCorrect, PTL

(* What an order may still execute is reserved for, what it has executed is either held
   by the position or reserved for. *)
LEMMA CoveredByOrder ==
  ASSUME VenueInductive, NEW o \in Orders
  PROVE  /\ OrderCovered(o)
         /\ OpenLots[o] \in Nat /\ ExecutedLots[o] \in Nat
         /\ Held(orders[o]) \in Nat /\ orders[o].filled \in Nat
<1>1. /\ OrderFaithful(o) /\ orders[o] \in OrderRecords /\ Consistent(orders[o])
      /\ orders[o].initial \in Nat /\ orders[o].filled \in Nat
      /\ venue[o].executed \in Nat /\ venue[o].state \in {"none", "live", "closed"}
      /\ orders[o].filled <= orders[o].initial
  BY OrderFacts DEF Consistent
<1>2. /\ orders[o].filled <= venue[o].executed /\ venue[o].executed <= orders[o].initial
      /\ venue[o].state = "none" <=> orders[o].state = "ABSENT"
      /\ venue[o].state = "none" => venue[o].executed = 0
      /\ orders[o].state = "CANCELED" =>
            Final(o) /\ orders[o].filled = venue[o].executed
  BY <1>1 DEF OrderFaithful, Lots, Known
<1>3. /\ ExecutedLots[o] = venue[o].executed
      /\ OpenLots[o] = IF venue[o].state = "live"
                       THEN orders[o].initial - venue[o].executed ELSE 0
  BY DEF OpenLots, ExecutedLots, Lots
<1>4. OpenLots[o] \in Nat /\ Held(orders[o]) \in Nat
  BY <1>1, <1>2, <1>3, HeldIsNat
<1>5. venue[o].executed + OpenLots[o] <= orders[o].filled + Held(orders[o])
  <2>1. CASE orders[o].state = "CANCELED"
    <3>1. OpenLots[o] = 0
      BY <1>1, <1>2, <1>3, <2>1 DEF Final, Complete, Lots
    <3> QED
      BY <1>1, <1>2, <1>4, <2>1, <3>1
  <2>2. CASE orders[o].state = "ABSENT"
    BY <1>1, <1>2, <1>3, <1>4, <2>2
  <2>3. CASE orders[o].state \notin {"CANCELED", "ABSENT"}
    <3>1. Held(orders[o]) = orders[o].initial - orders[o].filled
      BY <2>3 DEF Held
    <3> QED
      BY <1>1, <1>2, <1>3, <3>1
  <2> QED
    BY <2>1, <2>2, <2>3
<1> QED
  BY <1>1, <1>2, <1>3, <1>4, <1>5 DEF OrderCovered

(* The engine never believes in a fill that did not happen nor forgets one that may. *)
THEOREM CoversCorrect == VenueSpec => []CoversVenue
<1>1. VenueInductive => CoversVenue
  BY CoveredByOrder DEF CoversVenue
<1> QED
  BY <1>1, VenueInductiveCorrect, PTL

(***************************************************************************)
(* The promise to the account                                              *)
(***************************************************************************)

(* What has been executed, may still be executed and is approved stays within the limit. *)
LEMMA AccountWithinLimit ==
  ASSUME VenueInductive
  PROVE  /\ Total(ExecutedLots) \in Nat /\ Total(OpenLots) \in Nat /\ Total(registry) \in Nat
         /\ Total(ExecutedLots) + Total(OpenLots) + Total(registry) <= Limit
<1> DEFINE Venues == [o \in Orders |-> ExecutedLots[o] + OpenLots[o]]
           Engines == [o \in Orders |-> FilledByOrder[o] + HeldByOrders[o]]
<1>1. /\ TypeOK /\ OrdersConsistent /\ LedgerCovers /\ Exposure <= Limit /\ Limit \in Nat
      /\ IsFiniteSet(Orders)
  BY Constants DEF VenueInductive, Inductive, LimitAtAllTimes
<1>2. /\ HeldByOrders \in [Orders -> Nat] /\ FilledByOrder \in [Orders -> Nat]
      /\ Total(HeldByOrders) \in Nat /\ Total(FilledByOrder) \in Nat
      /\ Total(registry) \in Nat
  BY <1>1, Tables
<1>3. \A o \in Orders :
        /\ OpenLots[o] \in Nat /\ ExecutedLots[o] \in Nat
        /\ ExecutedLots[o] + OpenLots[o] <= FilledByOrder[o] + HeldByOrders[o]
  <2>1. SUFFICES ASSUME NEW o \in Orders
                 PROVE  /\ OpenLots[o] \in Nat /\ ExecutedLots[o] \in Nat
                        /\ ExecutedLots[o] + OpenLots[o] <= FilledByOrder[o] + HeldByOrders[o]
    OBVIOUS
  <2>2. /\ ExecutedLots[o] = venue[o].executed
        /\ FilledByOrder[o] = orders[o].filled /\ HeldByOrders[o] = Held(orders[o])
    BY DEF ExecutedLots, FilledByOrder, HeldByOrders
  <2> QED
    BY <2>2, CoveredByOrder DEF OrderCovered
<1>4. OpenLots \in [Orders -> Nat] /\ ExecutedLots \in [Orders -> Nat]
  <2>1. /\ OpenLots = [o \in Orders |-> OpenLots[o]]
        /\ ExecutedLots = [o \in Orders |-> ExecutedLots[o]]
    BY DEF OpenLots, ExecutedLots
  <2> QED
    BY <1>3, <2>1
<1>5. Venues \in [Orders -> Nat] /\ Engines \in [Orders -> Nat]
  BY <1>2, <1>4
<1>6. /\ Total(Venues) = Total(ExecutedLots) + Total(OpenLots)
      /\ Total(Engines) = Total(FilledByOrder) + Total(HeldByOrders)
  <2>1. \A o \in Orders : Venues[o] = ExecutedLots[o] + OpenLots[o]
    OBVIOUS
  <2>2. \A o \in Orders : Engines[o] = FilledByOrder[o] + HeldByOrders[o]
    OBVIOUS
  <2> HIDE DEF Venues, Engines
  <2>3. Total(Venues) = Total(ExecutedLots) + Total(OpenLots)
    BY <1>1, <1>4, <1>5, <2>1, TotalAdd
  <2>4. Total(Engines) = Total(FilledByOrder) + Total(HeldByOrders)
    BY <1>1, <1>2, <1>5, <2>2, TotalAdd
  <2> QED
    BY <2>3, <2>4
<1>7. Total(Venues) <= Total(Engines)
  <2>1. \A o \in Orders : Venues[o] <= Engines[o]
    BY <1>3
  <2> HIDE DEF Venues, Engines
  <2> QED
    BY <1>1, <1>5, <2>1, TotalMonotone
<1>8. Total(ExecutedLots) \in Nat /\ Total(OpenLots) \in Nat
  BY <1>1, <1>4, TotalIsNat
<1>9. /\ current_position = Total(FilledByOrder)
      /\ reservations >= Total(registry) + Total(HeldByOrders)
      /\ current_position + reservations <= Limit
      /\ reservations \in Int
  BY <1>1 DEF LedgerCovers, Exposure, TypeOK
<1> HIDE DEF Venues, Engines
<1> QED
  BY <1>1, <1>2, <1>6, <1>7, <1>8, <1>9

(* The size of an order never changes once it is submitted. *)
LEMMA SizesKept ==
  ASSUME VenueInductive, NEW p \in Orders,
         \/ EngineStep \/ UNCHANGED venueVars
         \/ \E o \in Orders : \/ \E k \in 1..MaxQty : ReportFill(o, k)
                             \/ ReportCancel(o) \/ ReportStatus(o) \/ ReportVerified(o)
  PROVE  orders'[p].initial = orders[p].initial /\ UNCHANGED venue
<1>1. orders \in [Orders -> OrderRecords]
  BY OrderFacts
<1>2. CASE EngineStep
  <2>1. \/ UNCHANGED orders
        \/ \E o \in Orders :
             orders' = [orders EXCEPT ![o] = [@ EXCEPT !.cancel_requested = TRUE]]
    BY <1>2 DEF EngineStep, AdvanceTime, RequestApproval, CleanupExpired,
       ConsumeWhileUnknown, ConsumeExpired, ConsumeRejected, RejectApproval, RequestCancel,
       LoseConnection, RestoreConnection, CompleteReconciliation, ManualReset, Halt, MoveTo
  <2> QED
    BY <1>1, <1>2, <2>1 DEF EngineStep, OrderRecords
<1>3. CASE UNCHANGED venueVars
  BY <1>3 DEF venueVars, vars
<1>4. ASSUME NEW o \in Orders, NEW k \in 1..MaxQty, ReportFill(o, k)
      PROVE  orders'[p].initial = orders[p].initial /\ UNCHANGED venue
  <2>1. \/ orders' = orders
        \/ orders' = [orders EXCEPT ![o] = CountLate(orders[o], 1)]
        \/ orders' = [orders EXCEPT ![o] = Filled(orders[o], 1)]
    BY <1>4 DEF ReportFill, OnLateFill, OnOverFill, OnFill
  <2>2. /\ CountLate(orders[o], 1).initial = orders[o].initial
        /\ Filled(orders[o], 1).initial = orders[o].initial
    BY <1>1 DEF CountLate, Filled, OrderRecords
  <2> QED
    BY <1>1, <1>4, <2>1, <2>2 DEF ReportFill
<1>5. ASSUME NEW o \in Orders, ReportCancel(o) \/ ReportStatus(o) \/ ReportVerified(o)
      PROVE  orders'[p].initial = orders[p].initial /\ UNCHANGED venue
  <2>1. \/ orders' = orders
        \/ \E q : orders' = [orders EXCEPT ![o] = CanceledAt(orders[o], q)]
        \/ \E q : orders' = [orders EXCEPT ![o] = FilledAt(orders[o], q)]
        \/ \E q : orders' = [orders EXCEPT ![o] = ResolvedAt(orders[o], q)]
        \/ orders' = [orders EXCEPT ![o] = [orders[o] EXCEPT !.state = "OPEN"]]
    <3>1. CASE ReportCancel(o)
      BY <3>1 DEF ReportCancel, OnCancelConfirmed, OnCancelContradicted, OnContradiction,
         SettleCanceled
    <3>2. CASE ReportStatus(o)
      BY <3>2 DEF ReportStatus, ResolveOrder, SettleCanceled
    <3>3. CASE ReportVerified(o)
      BY <3>3 DEF ReportVerified, ResolveConflict
    <3> QED
      BY <1>5, <3>1, <3>2, <3>3
  <2>2. \A q : /\ CanceledAt(orders[o], q).initial = orders[o].initial
               /\ FilledAt(orders[o], q).initial = orders[o].initial
               /\ ResolvedAt(orders[o], q).initial = orders[o].initial
               /\ [orders[o] EXCEPT !.state = "OPEN"].initial = orders[o].initial
    BY <1>1 DEF CanceledAt, FilledAt, ResolvedAt, OrderRecords
  <2> QED
    BY <1>1, <1>5, <2>1, <2>2 DEF ReportCancel, ReportStatus, ReportVerified
<1> QED
  BY <1>2, <1>3, <1>4, <1>5

(* Submitting places an order within what is left of the limit. *)
LEMMA SubmitPlaces ==
  ASSUME VenueInductive, NEW a \in Approvals, NEW o \in Orders, Submit(a, o)
  PROVE  \E lots \in 1..Limit : Account!Place(o, lots)
<1> DEFINE lots == registry[a]
<1>1. /\ orders' = [orders EXCEPT ![o] = NewOrder(lots)]
      /\ venue' = [venue EXCEPT ![o].state = "live"]
      /\ ~Known(o) /\ registry[a] > 0
  BY DEF Submit, ConsumeAndSubmit, Submittable, Consumable
<1>2. /\ venue \in [Orders -> VenueRecords] /\ orders \in [Orders -> OrderRecords]
      /\ OrderFaithful(o) /\ venue[o].executed \in Nat
  BY OrderFacts
<1>3. venue[o].state = "none" /\ venue[o].executed = 0
  BY <1>1, <1>2 DEF OrderFaithful
<1>4. /\ \A p \in Orders : p # o => venue'[p] = venue[p] /\ orders'[p] = orders[p]
      /\ venue'[o].state = "live" /\ venue'[o].executed = 0 /\ orders'[o].initial = lots
      /\ NewOrder(lots).initial = lots
  BY <1>1, <1>2, <1>3 DEF VenueRecords, NewOrder, Absent
<1>5. ExecutedLots' = ExecutedLots
  BY <1>3, <1>4 DEF ExecutedLots
<1>6. Placed' = Placed \cup {o} /\ o \notin Placed
  BY <1>3, <1>4 DEF Placed
<1>7. lots \in Nat
  BY DEF VenueInductive, Inductive, TypeOK
<1>8. OpenLots' = [OpenLots EXCEPT ![o] = lots]
  <2>1. \A p \in Orders : OpenLots'[p] = IF p = o THEN lots ELSE OpenLots[p]
    BY <1>4, <1>7 DEF OpenLots, Lots
  <2> QED
    BY <2>1 DEF OpenLots
<1>9. lots <= Total(registry)
  <2>1. registry \in [Approvals -> Nat] /\ IsFiniteSet(Approvals)
    BY Constants DEF VenueInductive, Inductive, TypeOK
  <2> QED
    BY <2>1, TotalUpdate
<1>10. Total(ExecutedLots) + Total(OpenLots) + lots <= Limit /\ lots \in 1..Limit
  BY <1>1, <1>7, <1>9, AccountWithinLimit, Constants
<1> HIDE DEF lots
<1>11. Account!Place(o, lots)
  <2>1. /\ Account!Total(ExecutedLots) = Total(ExecutedLots)
        /\ Account!Total(OpenLots) = Total(OpenLots)
    BY DEF Account!Total, Account!Units, Account!UnitsOf, Account!Cardinality, Total, Units,
       UnitsOf, Cardinality
  <2> QED
    BY <1>5, <1>6, <1>8, <1>10, <2>1 DEF Account!Place
<1> QED
  BY <1>10, <1>11

(* Each step of the engine and the exchange is a step of the account, or none. *)
LEMMA AccountStep ==
  VenueInductive /\ [VenueNext]_venueVars => [Account!Next]_(Account!vars)
<1> SUFFICES ASSUME VenueInductive, [VenueNext]_venueVars
             PROVE  [Account!Next]_(Account!vars)
  OBVIOUS
<1>1. /\ venue \in [Orders -> VenueRecords]
      /\ \A o \in Orders : venue[o].executed \in Nat /\ orders[o].initial \in Nat
      /\ \A o \in Orders : venue[o].executed <= Lots(o)
  BY OrderFacts DEF VenueInductive, OrderFaithful
<1>2. ASSUME \/ EngineStep \/ UNCHANGED venueVars
             \/ \E o \in Orders : \/ \E k \in 1..MaxQty : ReportFill(o, k)
                                 \/ ReportCancel(o) \/ ReportStatus(o) \/ ReportVerified(o)
      PROVE  UNCHANGED Account!vars
  <2>1. \A p \in Orders : orders'[p].initial = orders[p].initial
    BY <1>2, SizesKept
  <2>2. UNCHANGED venue
    BY <1>2, SizesKept DEF EngineStep, ReportFill, ReportCancel, ReportStatus,
       ReportVerified, venueVars
  <2>3. OpenLots' = OpenLots /\ ExecutedLots' = ExecutedLots /\ Placed' = Placed
    BY <2>1, <2>2 DEF OpenLots, ExecutedLots, Placed, Lots
  <2> QED
    BY <2>3 DEF Account!vars
<1>3. ASSUME NEW a \in Approvals, NEW o \in Orders, Submit(a, o) PROVE Account!Next
  BY <1>3, SubmitPlaces DEF Account!Next
<1>4. ASSUME NEW o \in Orders, Execute(o) PROVE Account!Next
  <2>1. /\ venue[o].state = "live" /\ venue[o].executed # Lots(o)
        /\ venue' = [venue EXCEPT ![o].executed = @ + 1] /\ orders' = orders
    BY <1>4 DEF Execute, Complete, vars
  <2>2. /\ \A p \in Orders : venue'[p].state = venue[p].state
        /\ \A p \in Orders : p # o => venue'[p] = venue[p]
        /\ venue'[o].executed = venue[o].executed + 1
    BY <1>1, <2>1 DEF VenueRecords
  <2>3. OpenLots[o] > 0
    BY <1>1, <2>1 DEF OpenLots, Lots
  <2>4. OpenLots' = [OpenLots EXCEPT ![o] = @ - 1]
    <3>1. \A p \in Orders : OpenLots'[p] = IF p = o THEN OpenLots[p] - 1 ELSE OpenLots[p]
      BY <1>1, <2>1, <2>2 DEF OpenLots, Lots
    <3> QED
      BY <3>1 DEF OpenLots
  <2>5. ExecutedLots' = [ExecutedLots EXCEPT ![o] = @ + 1]
    <3>1. \A p \in Orders :
            ExecutedLots'[p] = IF p = o THEN ExecutedLots[p] + 1 ELSE ExecutedLots[p]
      BY <2>2 DEF ExecutedLots
    <3> QED
      BY <3>1 DEF ExecutedLots
  <2>6. Placed' = Placed
    BY <2>2 DEF Placed
  <2>7. Account!Trade(o)
    BY <2>3, <2>4, <2>5, <2>6 DEF Account!Trade
  <2> QED
    BY <2>7 DEF Account!Next
<1>5. ASSUME NEW o \in Orders, CloseOrder(o) PROVE Account!Next
  <2>1. /\ venue[o].state = "live"
        /\ venue' = [venue EXCEPT ![o].state = "closed"] /\ orders' = orders
    BY <1>5 DEF CloseOrder, vars
  <2>2. /\ \A p \in Orders : venue'[p].executed = venue[p].executed
        /\ \A p \in Orders : p # o => venue'[p] = venue[p]
        /\ venue'[o].state = "closed"
    BY <1>1, <2>1 DEF VenueRecords
  <2>3. OpenLots' = [OpenLots EXCEPT ![o] = 0]
    <3>1. \A p \in Orders : OpenLots'[p] = IF p = o THEN 0 ELSE OpenLots[p]
      BY <2>1, <2>2 DEF OpenLots, Lots
    <3> QED
      BY <3>1 DEF OpenLots
  <2>4. ExecutedLots' = ExecutedLots /\ Placed' = Placed
    BY <2>1, <2>2 DEF ExecutedLots, Placed
  <2>5. Account!Close(o)
    BY <2>3, <2>4 DEF Account!Close
  <2> QED
    BY <2>5 DEF Account!Next
<1> QED
  BY <1>2, <1>3, <1>4, <1>5 DEF VenueNext

(* The engine keeps its promise to the account: every behaviour of the engine and a
   truthful exchange is one of BoundedExposure. *)
THEOREM PromiseCorrect == VenueSpec => KeepsPromise
<1>1. VenueInit => Account!Init
  <2>1. SUFFICES ASSUME VenueInit PROVE Account!Init
    OBVIOUS
  <2>2. \A o \in Orders : venue[o] = NotSent
    BY <2>1 DEF VenueInit
  <2> QED
    BY <2>2 DEF Account!Init, OpenLots, ExecutedLots, Placed, NotSent
<1>2. VenueInductive /\ [VenueNext]_venueVars => [Account!Next]_(Account!vars)
  BY AccountStep
<1> QED
  BY <1>1, <1>2, VenueInductiveCorrect, PTL DEF VenueSpec, KeepsPromise, Account!Spec

=============================================================================
