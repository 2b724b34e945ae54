-------------------------- MODULE BoundedExposure ---------------------------
(***************************************************************************)
(* What the risk engine promises to the account it protects                *)
(* (simulator.py, class RiskEngine, "Capacity"): whatever the exchange     *)
(* does with the orders it has been sent, their fills never add up to more *)
(* than the limit.  An order is placed once, trades lot by lot and closes; *)
(* nothing is said of approvals, reservations, reports or system states.   *)
(***************************************************************************)
EXTENDS RiskUnits

CONSTANTS
    Limit,
    Orders

VARIABLES
    executed,   \* lots traded, by order
    open,       \* lots that may still trade, by order
    placed      \* orders ever placed

vars == <<executed, open, placed>>

Init ==
    /\ executed = [o \in Orders |-> 0]
    /\ open = [o \in Orders |-> 0]
    /\ placed = {}

Place(o, lots) ==
    /\ o \notin placed
    /\ Total(executed) + Total(open) + lots <= Limit
    /\ open' = [open EXCEPT ![o] = lots]
    /\ placed' = placed \cup {o}
    /\ UNCHANGED executed

Trade(o) ==
    /\ open[o] > 0
    /\ open' = [open EXCEPT ![o] = @ - 1]
    /\ executed' = [executed EXCEPT ![o] = @ + 1]
    /\ UNCHANGED placed

Close(o) ==
    /\ open' = [open EXCEPT ![o] = 0]
    /\ UNCHANGED <<executed, placed>>

Next == \E o \in Orders : (\E lots \in 1..Limit : Place(o, lots)) \/ Trade(o) \/ Close(o)

Spec == Init /\ [][Next]_vars

\* The promise: the worst that the exchange may still do stays within the limit.
WithinLimit == Total(executed) + Total(open) <= Limit
=============================================================================
