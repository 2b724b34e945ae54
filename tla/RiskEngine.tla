----------------------------- MODULE RiskEngine -----------------------------
(***************************************************************************)
(* The APGE risk engine (src/src/apge/simulator.py, class RiskEngine): the *)
(* ledger that every order of the grid bot must go through.                *)
(*                                                                         *)
(* An approval reserves capacity; consuming it turns the reservation into  *)
(* an order; fills turn an order's reservation into position; a cancel     *)
(* releases what was not filled.  Every public method runs under one       *)
(* re-entrant lock, so each is one action.  Calls that return without      *)
(* changing anything are stuttering steps and have no action.              *)
(*                                                                         *)
(* Abstractions:                                                           *)
(*   - a Decimal is a number of lot steps; Invalid stands for everything   *)
(*     the validators refuse besides negative numbers (NaN, Infinity,      *)
(*     a value that is not a Decimal);                                     *)
(*   - risk_version only grows and is only compared for equality, so an    *)
(*     approval record's version is kept as membership in stale;           *)
(*   - mock_time only grows and is only compared with a record's expiry,   *)
(*     so the records whose TTL has passed are the set lapsed;             *)
(*   - the payload of an approval (symbol, side, amount) either matches    *)
(*     the submission or does not.                                         *)
(***************************************************************************)
EXTENDS Integers, FiniteSets, RiskUnits

CONSTANTS
    Limit,         \* position_limit
    Orders,        \* client order ids
    Fills,         \* exchange fill ids
    MaxApprovals,  \* bound: approvals requested in one behaviour
    MaxQty         \* bound: largest amount in a call

ASSUME LimitAssumption == Limit \in Nat
ASSUME OrdersAssumption == IsFiniteSet(Orders)
ASSUME MaxApprovalsAssumption == MaxApprovals \in Nat
ASSUME MaxQtyAssumption == MaxQty \in Nat

VARIABLES
    system_state,
    current_position,
    reservations,
    next_approval_id,
    registry,        \* _approval_registry: id -> reserved amount, 0 if no record
    stale,           \* records whose version is not the risk_version
    lapsed,          \* records whose expires_at is before mock_time
    active,          \* active_approvals, by id
    status,          \* status of the engine's own approval objects
    orders,
    processed_fills,
    unresolved_conflicts

ledger == <<current_position, reservations>>
approvals == <<next_approval_id, registry, stale, lapsed, active, status>>
vars == <<system_state, ledger, approvals, orders, processed_fills, unresolved_conflicts>>

SystemStates == {"OPERATIONAL", "CONNECTION_LOST", "RECONCILING", "HALTED"}
ApprovalStatuses == {"NOT_CREATED", "VALID", "CONSUMED", "EXPIRED", "REJECTED"}
OrderStates == {"ABSENT", "UNKNOWN", "OPEN", "PARTIALLY_FILLED", "FILLED", "CANCELED"}

Approvals == 1..MaxApprovals

\* A number that no validator accepts, and the None of cancel_confirmed_total.
Invalid == -1
NotConfirmed == -1

\* The amounts a caller may pass.
Inputs == {Invalid} \cup 0..MaxQty

\* cancel_requested is set by request_cancel and read by nobody.
OrderRecords ==
    [state : OrderStates, initial : Nat, filled : Nat,
     total : Nat \cup {NotConfirmed}, seen : Nat, cancel_requested : BOOLEAN]

Absent ==
    [state |-> "ABSENT", initial |-> 0, filled |-> 0,
     total |-> NotConfirmed, seen |-> 0, cancel_requested |-> FALSE]

\* Order.__init__
NewOrder(amount) == [Absent EXCEPT !.state = "UNKNOWN", !.initial = amount]

TypeOK ==
    /\ system_state \in SystemStates
    /\ current_position \in Int
    /\ reservations \in Int
    /\ next_approval_id \in 1..MaxApprovals + 1
    /\ registry \in [Approvals -> Nat]
    /\ stale \subseteq Approvals
    /\ lapsed \subseteq Approvals
    /\ active \subseteq Approvals
    /\ status \in [Approvals -> ApprovalStatuses]
    /\ orders \in [Orders -> OrderRecords]
    /\ processed_fills \subseteq Fills
    /\ unresolved_conflicts \subseteq Orders

(***************************************************************************)
(* Helpers                                                                 *)
(***************************************************************************)
\* Mutant: the validation of request_approval and on_fill is missing.
AnyAmount(q) == TRUE

IsValidAmount(q) == q > 0
IsValidNonNegative(q) == q >= 0

Exposure == current_position + reservations
\* Mutant: capacity forgets what is reserved.
CapacityOfPosition == Limit - current_position

AvailableCapacity == Limit - Exposure

Known(o) == orders[o].state # "ABSENT"
Recorded == {a \in Approvals : registry[a] > 0}

\* Mutant: the UNKNOWN gate is always open.
UnknownIgnored == FALSE

HasUnknownOrders == \E o \in Orders : orders[o].state = "UNKNOWN"

HasDataConflicts ==
    \/ unresolved_conflicts # {}
    \/ \E o \in Orders : /\ orders[o].total # NotConfirmed
                         /\ orders[o].seen > orders[o].total

\* Mutant: the risk version is not incremented.
KeepRiskVersion == stale' = stale

BumpRiskVersion == stale' = Recorded

EnterReconciling ==
    system_state' = IF system_state \in {"HALTED", "CONNECTION_LOST"}
                    THEN system_state ELSE "RECONCILING"

\* A contradiction in the exchange's data: remember the order, stop trading.
RaiseConflict(o) ==
    /\ unresolved_conflicts' = unresolved_conflicts \cup {o}
    /\ EnterReconciling

\* What an order still reserves: nothing once it is canceled.
Held(r) == IF r.state \in {"ABSENT", "CANCELED"} THEN 0 ELSE r.initial - r.filled

\* A new engine knows of no position, no approval and no order.
Fresh ==
    /\ current_position = 0
    /\ reservations = 0
    /\ next_approval_id = 1
    /\ registry = [a \in Approvals |-> 0]
    /\ stale = {}
    /\ lapsed = {}
    /\ active = {}
    /\ status = [a \in Approvals |-> "NOT_CREATED"]
    /\ orders = [o \in Orders |-> Absent]
    /\ processed_fills = {}
    /\ unresolved_conflicts = {}

Init == system_state = "OPERATIONAL" /\ Fresh

\* The process is replaced, and its engine with it (used by GridBot).
Renew ==
    /\ current_position' = 0
    /\ reservations' = 0
    /\ next_approval_id' = 1
    /\ registry' = [a \in Approvals |-> 0]
    /\ stale' = {}
    /\ lapsed' = {}
    /\ active' = {}
    /\ status' = [a \in Approvals |-> "NOT_CREATED"]
    /\ orders' = [o \in Orders |-> Absent]
    /\ processed_fills' = {}
    /\ unresolved_conflicts' = {}

(***************************************************************************)
(* Approvals                                                               *)
(***************************************************************************)
AdvanceTime(past) ==
    /\ lapsed' = lapsed \cup past
    /\ UNCHANGED <<system_state, ledger, next_approval_id, registry, stale, active,
                   status, orders, processed_fills, unresolved_conflicts>>

Grants(amount) ==
    /\ system_state = "OPERATIONAL"
    /\ ~HasUnknownOrders
    /\ IsValidAmount(amount)
    /\ AvailableCapacity >= amount

RequestApproval(amount) ==
    /\ next_approval_id <= MaxApprovals
    /\ Grants(amount)
    /\ reservations' = reservations + amount
    /\ registry' = [registry EXCEPT ![next_approval_id] = amount]
    /\ active' = active \cup {next_approval_id}
    /\ status' = [status EXCEPT ![next_approval_id] = "VALID"]
    /\ next_approval_id' = next_approval_id + 1
    /\ UNCHANGED <<system_state, current_position, stale, lapsed, orders,
                   processed_fills, unresolved_conflicts>>

\* The VALID approvals that still have a record and whose TTL has passed.
Expired == {a \in active : status[a] = "VALID" /\ registry[a] > 0 /\ a \in lapsed}

CleanupExpired ==
    /\ Expired # {}
    /\ status' = [a \in Approvals |-> IF a \in Expired THEN "EXPIRED" ELSE status[a]]
    /\ active' = {a \in active : status'[a] = "VALID"}
    /\ registry' = Part(registry, Approvals \ Expired)
    /\ reservations' = reservations - Total(Part(registry, Expired))
    /\ stale' = stale \ Expired
    /\ lapsed' = lapsed \ Expired
    /\ UNCHANGED <<system_state, current_position, next_approval_id, orders,
                   processed_fills, unresolved_conflicts>>

\* Mutant: the approval object goes, its record stays.
KeepRecord(a) == UNCHANGED <<registry, stale, lapsed>>

\* Deleting a record also forgets how it compares with version and clock.
DropRecord(a) ==
    /\ registry' = [registry EXCEPT ![a] = 0]
    /\ stale' = stale \ {a}
    /\ lapsed' = lapsed \ {a}

\* _reject_approval: own is false for an approval object that another engine
\* issued under the same id; then only the record is ours to drop.
RejectApproval(a, own, verdict) ==
    /\ status' = IF own THEN [status EXCEPT ![a] = verdict] ELSE status
    /\ active' = IF own THEN active \ {a} ELSE active
    /\ DropRecord(a)
    /\ reservations' = reservations - registry[a]
    /\ UNCHANGED <<system_state, current_position, next_approval_id, orders,
                   processed_fills, unresolved_conflicts>>

\* The UNKNOWN gate is tested before the approval's ownership is.
ConsumeWhileUnknown(a, own) ==
    /\ system_state = "OPERATIONAL"
    /\ HasUnknownOrders
    /\ registry[a] > 0
    /\ own => status[a] = "VALID"
    /\ RejectApproval(a, own, "REJECTED")

\* Mutant: no UNKNOWN gate at submission.
ConsumableUngated(a) ==
    /\ system_state = "OPERATIONAL"
    /\ a \in active
    /\ registry[a] > 0
    /\ status[a] = "VALID"

\* Past the gate, only an own approval that is active and on record counts.
Consumable(a) ==
    /\ system_state = "OPERATIONAL"
    /\ ~HasUnknownOrders
    /\ a \in active
    /\ registry[a] > 0
    /\ status[a] = "VALID"

ConsumeExpired(a) ==
    /\ Consumable(a)
    /\ a \in lapsed
    /\ RejectApproval(a, TRUE, "EXPIRED")

\* The version, the payload and the freshness of the order id, in the code's
\* order; each refusal has the same effect.
Submittable(a, o, matches) == a \notin stale /\ matches /\ ~Known(o)

ConsumeRejected(a, o, matches) ==
    /\ Consumable(a)
    /\ a \notin lapsed
    /\ ~Submittable(a, o, matches)
    /\ RejectApproval(a, TRUE, "REJECTED")

ConsumeAndSubmit(a, o, matches) ==
    /\ Consumable(a)
    /\ a \notin lapsed
    /\ Submittable(a, o, matches)
    /\ status' = [status EXCEPT ![a] = "CONSUMED"]
    /\ active' = active \ {a}
    /\ DropRecord(a)
    /\ orders' = [orders EXCEPT ![o] = NewOrder(registry[a])]
    /\ UNCHANGED <<system_state, ledger, next_approval_id, processed_fills,
                   unresolved_conflicts>>

(***************************************************************************)
(* Fills                                                                   *)
(***************************************************************************)
\* Mutant: a fill that is delivered again counts again.
RepeatedFill(o, f, amount) ==
    /\ IsValidAmount(amount)
    /\ Known(o)
    /\ processed_fills' = processed_fills \cup {f}

NewFill(o, f, amount) ==
    /\ IsValidAmount(amount)
    /\ f \notin processed_fills
    /\ Known(o)
    /\ processed_fills' = processed_fills \cup {f}

\* Mutant: the fill at hand is left out of the comparison.
ExceededBefore(r, amount) == r.total # NotConfirmed /\ r.seen > r.total

\* A fill of a canceled order is compared with the confirmed total, and is
\* counted as seen when the total covers it.
ExceedsConfirmed(r, amount) == r.total # NotConfirmed /\ r.seen + amount > r.total

CountLate(r, amount) ==
    [r EXCEPT !.seen = IF r.total = NotConfirmed THEN @ ELSE @ + amount]

OnLateFill(o, f, amount) ==
    /\ NewFill(o, f, amount)
    /\ orders[o].state = "CANCELED"
    /\ IF ExceedsConfirmed(orders[o], amount)
       THEN RaiseConflict(o) /\ UNCHANGED orders
       ELSE /\ orders' = [orders EXCEPT ![o] = CountLate(@, amount)]
            /\ UNCHANGED <<unresolved_conflicts, system_state>>
    /\ UNCHANGED <<ledger, approvals>>

\* Mutant: what an order is filled with is compared before the fill at hand is added.
OverFilledBefore(r, amount) == r.filled > r.initial

OverFills(r, amount) == r.filled + amount > r.initial

OnOverFill(o, f, amount) ==
    /\ NewFill(o, f, amount)
    /\ orders[o].state # "CANCELED"
    /\ OverFills(orders[o], amount)
    /\ RaiseConflict(o)
    /\ UNCHANGED <<ledger, approvals, orders>>

Filled(r, amount) ==
    [r EXCEPT !.filled = @ + amount,
              !.seen = @ + amount,
              !.state = IF r.filled + amount >= r.initial
                        THEN "FILLED" ELSE "PARTIALLY_FILLED"]

OnFill(o, f, amount) ==
    /\ NewFill(o, f, amount)
    /\ orders[o].state # "CANCELED"
    /\ ~OverFills(orders[o], amount)
    /\ orders' = [orders EXCEPT ![o] = Filled(@, amount)]
    /\ current_position' = current_position + amount
    /\ reservations' = reservations - amount
    /\ BumpRiskVersion
    /\ UNCHANGED <<system_state, next_approval_id, registry, lapsed, active, status,
                   unresolved_conflicts>>

(***************************************************************************)
(* Cancels, and orders whose outcome is learnt from the exchange           *)
(***************************************************************************)
\* Mutant: the request releases what the order holds.
ReleaseOnRequest(o) ==
    /\ Known(o)
    /\ orders' = [orders EXCEPT ![o] = [@ EXCEPT !.cancel_requested = TRUE]]
    /\ reservations' = reservations - Held(orders[o])
    /\ UNCHANGED <<system_state, current_position, approvals, processed_fills,
                   unresolved_conflicts>>

RequestCancel(o) ==
    /\ Known(o)
    /\ orders' = [orders EXCEPT ![o] = [@ EXCEPT !.cancel_requested = TRUE]]
    /\ UNCHANGED <<system_state, ledger, approvals, processed_fills, unresolved_conflicts>>

\* A report that is not a number stops trading before the order is looked up.
OnInvalidReport(report) ==
    /\ ~IsValidNonNegative(report)
    /\ EnterReconciling
    /\ UNCHANGED <<ledger, approvals, orders, processed_fills, unresolved_conflicts>>

\* A report that contradicts the order keeps its risk and makes a conflict.
OnContradiction(o) ==
    /\ RaiseConflict(o)
    /\ BumpRiskVersion
    /\ UNCHANGED <<ledger, next_approval_id, registry, lapsed, active, status, orders,
                   processed_fills>>

\* The fills that the report knows of and the engine has not seen.
Unseen(r, report) == IF report > r.filled THEN report - r.filled ELSE 0

CanceledAt(r, report) ==
    [r EXCEPT !.state = "CANCELED",
              !.total = report,
              !.filled = @ + Unseen(r, report)]

FilledAt(r, report) ==
    [r EXCEPT !.state = "FILLED",
              !.filled = @ + Unseen(r, report)]

\* Mutant: the remainder is computed before the unseen fills are moved.
SettleTwice(o, report) ==
    LET r == orders[o]
        missing == Unseen(r, report)
    IN  /\ orders' = [orders EXCEPT ![o] = CanceledAt(r, report)]
        /\ current_position' = current_position + missing
        /\ reservations' = reservations - missing - (r.initial - r.filled)

\* Move the unseen fills to the position and release what was not filled.
SettleCanceled(o, report) ==
    LET r == orders[o]
        missing == Unseen(r, report)
        remaining == r.initial - (r.filled + missing)
    IN  /\ orders' = [orders EXCEPT ![o] = CanceledAt(r, report)]
        /\ current_position' = current_position + missing
        /\ reservations' = reservations - missing
                           - (IF remaining > 0 THEN remaining ELSE 0)

\* Mutant: a total below the observed fills is believed.
ContradictsAbove(r, report) == report > r.initial

Contradicts(r, report) == report > r.initial \/ report < r.filled

OnCancelContradicted(o, report) ==
    /\ IsValidNonNegative(report)
    /\ Known(o)
    /\ orders[o].state # "CANCELED"
    /\ Contradicts(orders[o], report)
    /\ OnContradiction(o)

OnCancelConfirmed(o, report) ==
    /\ IsValidNonNegative(report)
    /\ Known(o)
    /\ orders[o].state # "CANCELED"
    /\ ~Contradicts(orders[o], report)
    /\ SettleCanceled(o, report)
    /\ BumpRiskVersion
    /\ UNCHANGED <<system_state, next_approval_id, registry, lapsed, active, status,
                   processed_fills, unresolved_conflicts>>

ResolveContradicted(o, report) ==
    /\ IsValidNonNegative(report)
    /\ orders[o].state = "UNKNOWN"
    /\ report > orders[o].initial
    /\ OnContradiction(o)

\* FILLED keeps whatever is left unfilled reserved; OPEN ignores the amount;
\* any other state leaves the order UNKNOWN and still bumps the version.
ResolveOrder(o, final_state, report) ==
    /\ IsValidNonNegative(report)
    /\ orders[o].state = "UNKNOWN"
    /\ report <= orders[o].initial
    /\ \/ /\ final_state = "FILLED"
          /\ LET missing == Unseen(orders[o], report)
             IN  /\ orders' = [orders EXCEPT ![o] = FilledAt(@, report)]
                 /\ current_position' = current_position + missing
                 /\ reservations' = reservations - missing
       \/ /\ final_state = "CANCELED"
          /\ SettleCanceled(o, report)
       \/ /\ final_state = "OPEN"
          /\ orders' = [orders EXCEPT ![o] = [@ EXCEPT !.state = "OPEN"]]
          /\ UNCHANGED ledger
       \/ /\ final_state \in {"UNKNOWN", "PARTIALLY_FILLED"}
          /\ UNCHANGED <<ledger, orders>>
    /\ BumpRiskVersion
    /\ UNCHANGED <<system_state, next_approval_id, registry, lapsed, active, status,
                   processed_fills, unresolved_conflicts>>

\* What resolve_conflict believes the order to hold.
HeldBeforeResolution(r) ==
    IF r.state \in {"CANCELED", "FILLED"} THEN 0 ELSE r.initial - r.filled

ResolvedAt(r, report) ==
    [r EXCEPT !.state = "CANCELED",
              !.filled = report,
              !.total = report]

ResolveConflict(o, report) ==
    /\ o \in unresolved_conflicts
    /\ IsValidNonNegative(report)
    /\ Known(o)
    /\ report <= orders[o].initial
    /\ orders' = [orders EXCEPT ![o] = ResolvedAt(@, report)]
    /\ current_position' = current_position + (report - orders[o].filled)
    /\ reservations' = reservations - HeldBeforeResolution(orders[o])
    /\ unresolved_conflicts' = unresolved_conflicts \ {o}
    /\ BumpRiskVersion
    /\ UNCHANGED <<system_state, next_approval_id, registry, lapsed, active, status,
                   processed_fills>>

(***************************************************************************)
(* System state                                                            *)
(***************************************************************************)
MoveTo(s) ==
    /\ system_state' = s
    /\ UNCHANGED <<ledger, orders, next_approval_id, registry, lapsed, active, status,
                   processed_fills, unresolved_conflicts>>

LoseConnection ==
    /\ system_state # "HALTED"
    /\ MoveTo("CONNECTION_LOST")
    /\ UNCHANGED stale

RestoreConnection ==
    /\ system_state # "HALTED"
    /\ MoveTo("RECONCILING")
    /\ UNCHANGED stale

\* Mutant: data conflicts do not block the return to trading.
CompleteDespiteConflicts ==
    /\ system_state = "RECONCILING"
    /\ ~HasUnknownOrders
    /\ MoveTo("OPERATIONAL")
    /\ BumpRiskVersion

CompleteReconciliation ==
    /\ system_state = "RECONCILING"
    /\ ~HasUnknownOrders
    /\ ~HasDataConflicts
    /\ MoveTo("OPERATIONAL")
    /\ BumpRiskVersion

ManualReset ==
    /\ system_state = "HALTED"
    /\ MoveTo("RECONCILING")
    /\ BumpRiskVersion

\* The bot's start-up and its runtime assign HALTED when reconciliation fails,
\* without the lock and whatever the state has become meanwhile.
Halt ==
    /\ system_state # "HALTED"
    /\ MoveTo("HALTED")
    /\ UNCHANGED stale

Next ==
    \/ \E past \in SUBSET (Recorded \ lapsed) : AdvanceTime(past)
    \/ \E amount \in Inputs : RequestApproval(amount)
    \/ CleanupExpired
    \/ \E a \in Approvals :
          \/ \E own \in BOOLEAN : ConsumeWhileUnknown(a, own)
          \/ ConsumeExpired(a)
          \/ \E o \in Orders, matches \in BOOLEAN :
                \/ ConsumeRejected(a, o, matches)
                \/ ConsumeAndSubmit(a, o, matches)
    \/ \E o \in Orders, f \in Fills, amount \in Inputs :
          \/ OnLateFill(o, f, amount)
          \/ OnOverFill(o, f, amount)
          \/ OnFill(o, f, amount)
    \/ \E o \in Orders : RequestCancel(o)
    \/ \E report \in Inputs : OnInvalidReport(report)
    \/ \E o \in Orders, report \in Inputs :
          \/ OnCancelContradicted(o, report)
          \/ OnCancelConfirmed(o, report)
          \/ ResolveContradicted(o, report)
          \/ \E final_state \in OrderStates \ {"ABSENT"} :
                ResolveOrder(o, final_state, report)
          \/ ResolveConflict(o, report)
    \/ LoseConnection
    \/ RestoreConnection
    \/ CompleteReconciliation
    \/ ManualReset
    \/ Halt

Spec == Init /\ [][Next]_vars

(***************************************************************************)
(* Invariants                                                              *)
(***************************************************************************)
HeldByOrders == [o \in Orders |-> Held(orders[o])]
FilledByOrder == [o \in Orders |-> orders[o].filled]

\* The position is exactly what the orders' fills add up to, and the
\* reservations always cover every approval on record and every unfilled
\* remainder of a live order: no interleaving of approvals, fills, cancels,
\* resolutions and refusals makes the engine forget risk it still carries
\* (on_cancel_confirmed: "no silent risk deletion").
LedgerCovers ==
    /\ current_position = Total(FilledByOrder)
    /\ reservations >= Total(registry) + Total(HeldByOrders)

\* Trading never goes on over contradictory data: an OPERATIONAL engine has no
\* conflict on file and has seen no more fills of a canceled order than the
\* exchange confirmed.
ConflictGate == system_state = "OPERATIONAL" => ~HasDataConflicts

\* The UNKNOWN gates of request_approval and consume_approval_and_submit leave at
\* most one order whose outcome nobody knows.
OneUnknownOrder ==
    \A o, p \in Orders :
        orders[o].state = "UNKNOWN" /\ orders[p].state = "UNKNOWN" => o = p

\* Fills, cancels, resolutions and late fills, in any order, leave each order
\* consistent: never filled beyond its size; nothing filled while its outcome is
\* unknown; settled at exactly the confirmed total once it is canceled, whichever of
\* three handlers settled it; and until then filled with all that was seen.
Consistent(r) ==
    /\ r.filled <= r.initial
    /\ r.state \in {"ABSENT", "UNKNOWN"} => r.filled = 0
    /\ r.state = "CANCELED" <=> r.total # NotConfirmed
    /\ r.state = "CANCELED" => r.filled = r.total
    /\ r.state # "CANCELED" => r.seen <= r.filled

OrdersConsistent == \A o \in Orders : Consistent(orders[o])

\* Whatever refuses, expires or consumes an approval does it in all the places the
\* engine keeps it: a record belongs to an approval object that is active and VALID,
\* the active objects are the VALID ones, and no id is used twice.
ApprovalsConsistent ==
    /\ active = {a \in Approvals : status[a] = "VALID"}
    /\ Recorded \subseteq active
    /\ stale \subseteq Recorded
    /\ lapsed \subseteq Recorded
    /\ \A a \in Approvals : a >= next_approval_id => status[a] = "NOT_CREATED"

\* Together with the types these invariants are inductive (RiskEngineProofs).
Inductive ==
    /\ TypeOK
    /\ OrdersConsistent
    /\ ApprovalsConsistent
    /\ LedgerCovers
    /\ ConflictGate
    /\ OneUnknownOrder

(***************************************************************************)
(* Action properties                                                       *)
(***************************************************************************)

\* The limit: risk is only ever added within the limit.  The one exception is the
\* verified resolution of a conflict on an order that held nothing any more, whose
\* extra fills are a fact the engine has to accept.
CorrectsTerminalOrder ==
    \E o \in unresolved_conflicts \ unresolved_conflicts' :
        orders[o].state \in {"CANCELED", "FILLED"}

GrowthWithinLimit ==
    [][Exposure' > Exposure => Exposure' <= Limit \/ CorrectsTerminalOrder]_vars

\* Risk only ever shrinks because an approval that was never submitted loses its
\* record, or because the exchange's word on an order settles it as canceled: a
\* fill, a duplicate, a disconnect or a contradictory report releases nothing.
DropsUnsentApproval == orders' = orders /\ Recorded' # Recorded

SettlesOrder ==
    \E o \in Orders : orders'[o] # orders[o] /\ orders'[o].state = "CANCELED"

NoSilentRiskDeletion ==
    [][Exposure' < Exposure => DropsUnsentApproval \/ SettlesOrder]_vars

\* An approval granted before the position changed is never submitted afterwards:
\* every position change leaves all records stale, a stale record stays stale
\* until it is dropped, and it is not dropped by being consumed.
StaleApprovalsNeverSubmitted ==
    [][/\ current_position' # current_position => Recorded' \subseteq stale'
       /\ \A a \in stale :
             a \in stale' \/ (registry'[a] = 0 /\ status'[a] # "CONSUMED")]_vars

\* Trading resumes only from RECONCILING, with every order's outcome known, no
\* data conflict and every earlier approval stale; HALTED is left only for
\* RECONCILING, so an approval never survives an interruption.
Reopening ==
    [][/\ system_state' = "OPERATIONAL" /\ system_state # "OPERATIONAL" =>
             /\ system_state = "RECONCILING"
             /\ ~HasUnknownOrders' /\ ~HasDataConflicts'
             /\ Recorded' \subseteq stale'
       /\ system_state = "HALTED" => system_state' \in {"HALTED", "RECONCILING"}]_vars

(***************************************************************************)
(* A claim of the documentation that the code does not keep                *)
(***************************************************************************)

\* simulator.py:118: "current_position + reservations <= position_limit at all
\* times", the reservations counted as what approvals and orders really hold, so
\* that a reservation that leaked is no excuse.
Capacity == current_position + Total(registry) + Total(HeldByOrders) <= Limit
=============================================================================
