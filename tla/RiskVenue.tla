----------------------------- MODULE RiskVenue ------------------------------
(***************************************************************************)
(* The risk engine of simulator.py together with an exchange that tells    *)
(* the truth, but late: fills, cancel confirmations and the answers to     *)
(* queries arrive in any order, any number of times or never.  RiskEngine  *)
(* alone takes any report; here a report is one the exchange can make, so  *)
(* what the engine believes can be compared with what is.                  *)
(*                                                                         *)
(* The exchange (external) trades an order lot by lot; a fill is one lot.  *)
(* An order that is lost, refused, expired or canceled is closed.  Reports *)
(* of a total are final: the callers pass cancel confirmations and         *)
(* verified totals only of orders that will not trade any more.            *)
(***************************************************************************)
EXTENDS RiskEngine

VARIABLE venue

ASSUME FillsAssumption == Fills = Orders \X (1..MaxQty)

venueVars == <<vars, venue>>

NotSent == [state |-> "none", executed |-> 0]

VenueRecords == [state : {"none", "live", "closed"}, executed : 0..MaxQty]

VenueTypeOK == TypeOK /\ venue \in [Orders -> VenueRecords]

Lots(o) == orders[o].initial

Complete(o) == venue[o].state = "live" /\ venue[o].executed = Lots(o)

\* The order will not trade any more: what it has executed is final.
Final(o) == Complete(o) \/ venue[o].state = "closed"

\* What the exchange may still execute.
OpenLots == [o \in Orders |->
    IF venue[o].state = "live" THEN Lots(o) - venue[o].executed ELSE 0]
ExecutedLots == [o \in Orders |-> venue[o].executed]
Placed == {o \in Orders : venue[o].state # "none"}

-----------------------------------------------------------------------------
Submit(a, o) ==
    /\ ConsumeAndSubmit(a, o, TRUE)
    /\ venue' = [venue EXCEPT ![o].state = "live"]

Execute(o) ==
    /\ venue[o].state = "live" /\ ~Complete(o)
    /\ venue' = [venue EXCEPT ![o].executed = @ + 1]
    /\ UNCHANGED vars

CloseOrder(o) ==
    /\ venue[o].state = "live" /\ ~Complete(o)
    /\ venue' = [venue EXCEPT ![o].state = "closed"]
    /\ UNCHANGED vars

\* A trade's event, now or later, once or again.
ReportFill(o, k) ==
    /\ k <= venue[o].executed
    /\ \/ OnLateFill(o, <<o, k>>, 1)
       \/ OnOverFill(o, <<o, k>>, 1)
       \/ OnFill(o, <<o, k>>, 1)
    /\ UNCHANGED venue

\* The confirmation of a cancel, with the total the order has executed.
ReportCancel(o) ==
    /\ venue[o].state = "closed"
    /\ \/ OnCancelConfirmed(o, venue[o].executed)
       \/ OnCancelContradicted(o, venue[o].executed)
    /\ UNCHANGED venue

\* An answer for an order of unknown outcome.  The answer to the submission itself has
\* a state and no total (execution_engine.py:108 passes 0), and may be old.
ReportStatus(o) ==
    /\ venue[o].state # "none"
    /\ \/ ResolveOrder(o, "OPEN", 0)
       \/ \E total \in {0, Lots(o)} : Complete(o) /\ ResolveOrder(o, "FILLED", total)
       \/ venue[o].state = "closed" /\ ResolveOrder(o, "CANCELED", venue[o].executed)
    /\ UNCHANGED venue

\* The verified total of an order in conflict.
ReportVerified(o) ==
    /\ Final(o)
    /\ ResolveConflict(o, venue[o].executed)
    /\ UNCHANGED venue

\* What the engine does by itself or is told by its caller.
EngineStep ==
    /\ \/ \E past \in SUBSET (Recorded \ lapsed) : AdvanceTime(past)
       \/ \E amount \in 1..MaxQty : RequestApproval(amount)
       \/ CleanupExpired
       \/ \E a \in Approvals :
             \/ \E own \in BOOLEAN : ConsumeWhileUnknown(a, own)
             \/ ConsumeExpired(a)
             \/ \E o \in Orders, matches \in BOOLEAN : ConsumeRejected(a, o, matches)
       \/ \E o \in Orders : RequestCancel(o)
       \/ LoseConnection
       \/ RestoreConnection
       \/ CompleteReconciliation
       \/ ManualReset
       \/ Halt
    /\ UNCHANGED venue

VenueInit == Init /\ venue = [o \in Orders |-> NotSent]

VenueNext ==
    \/ EngineStep
    \/ \E a \in Approvals, o \in Orders : Submit(a, o)
    \/ \E o \in Orders :
        \/ Execute(o)
        \/ CloseOrder(o)
        \/ \E k \in 1..MaxQty : ReportFill(o, k)
        \/ ReportCancel(o)
        \/ ReportStatus(o)
        \/ ReportVerified(o)

VenueSpec == VenueInit /\ [][VenueNext]_venueVars

-----------------------------------------------------------------------------
(* Properties.                                                             *)

\* The engine never believes in a fill that did not happen, nor forgets one that may
\* still happen: order by order, the position holds only executed lots, and an order
\* that can trade is reserved for in full.
OrderCovered(o) ==
    /\ orders[o].filled <= venue[o].executed
    /\ venue[o].executed + OpenLots[o] <= orders[o].filled + Held(orders[o])

CoversVenue == \A o \in Orders : OrderCovered(o)

\* Reports that are late, repeated or out of order do not end trading for good: the
\* only conflicts they make are of orders whose total is final, so that a verified
\* report can resolve each, and no order has seen more fills than were confirmed.
ConflictsResolvable ==
    /\ \A o \in unresolved_conflicts : Final(o)
    /\ \A o \in Orders : orders[o].total # NotConfirmed => orders[o].seen <= orders[o].total

\* With a truthful exchange the limit holds at all times (simulator.py:118), through
\* corrections too, and nothing stays reserved that no approval or order holds.
LimitAtAllTimes == Exposure <= Limit
NothingLeaked == reservations = Total(registry) + Total(HeldByOrders)

\* Why it holds, order by order: the lots an order is filled with were seen one by one or
\* are all there are; a FILLED order was executed in full; a settled order and one in
\* conflict are final and filled with exactly what was executed (RiskVenueProofs).
SeenFills(o) == processed_fills \cap ({o} \X (1..MaxQty))

OrderFaithful(o) ==
    /\ venue[o].state = "none" <=> ~Known(o)
    /\ venue[o].state = "none" => venue[o].executed = 0
    /\ Known(o) => Lots(o) <= MaxQty
    /\ venue[o].executed <= Lots(o)
    /\ orders[o].filled <= venue[o].executed
    /\ SeenFills(o) \subseteq {o} \X (1..venue[o].executed)
    /\ orders[o].state # "CANCELED" =>
          \/ orders[o].filled <= Cardinality(SeenFills(o))
          \/ orders[o].filled = Lots(o)
    /\ orders[o].state = "FILLED" => venue[o].executed = Lots(o)
    /\ orders[o].state = "CANCELED" \/ o \in unresolved_conflicts =>
          Final(o) /\ orders[o].filled = venue[o].executed
    /\ orders[o].total # NotConfirmed => orders[o].seen <= orders[o].total

VenueInductive ==
    /\ Inductive
    /\ venue \in [Orders -> VenueRecords]
    /\ \A a \in Approvals : registry[a] <= MaxQty
    /\ \A o \in Orders : OrderFaithful(o)
    /\ LimitAtAllTimes

\* The engine keeps its promise to the account: seen from the exchange, it is an
\* implementation of BoundedExposure.
Account == INSTANCE BoundedExposure WITH
    executed <- ExecutedLots, open <- OpenLots, placed <- Placed

KeepsPromise == Account!Spec
=============================================================================
