----------------------------- MODULE OrderBook ------------------------------
(***************************************************************************)
(* What the bot promises of every order it places, whatever its threads    *)
(* do, whatever answers and events are lost, and wherever the process      *)
(* crashes and starts again: the order is recorded, then placed, once; it  *)
(* trades one lot at a time until it is over, and over it stays; a trade   *)
(* is booked only when it happened; and no record of an order and no       *)
(* booking of a trade is ever lost.                                        *)
(*                                                                         *)
(* Nothing is said of the status the bot keeps of an order, nor of cycles, *)
(* approvals, connections, reconciliations or restarts.                    *)
(***************************************************************************)
EXTENDS Integers

CONSTANTS
    Orders,
    Size       \* quantity of every order, in lots

VARIABLES
    recorded,  \* orders the bot can find again
    placed,    \* orders that were sent to the exchange
    traded,    \* lots traded, by order
    over,      \* orders that will not trade any more
    booked     \* trades the bot has on its books, one lot each

vars == <<recorded, placed, traded, over, booked>>

Init ==
    /\ recorded = {}
    /\ placed = {}
    /\ traded = [o \in Orders |-> 0]
    /\ over = {}
    /\ booked = {}

Record(o) ==
    /\ recorded' = recorded \cup {o}
    /\ UNCHANGED <<placed, traded, over, booked>>

Place(o) ==
    /\ o \in recorded \ placed
    /\ placed' = placed \cup {o}
    /\ UNCHANGED <<recorded, traded, over, booked>>

Trade(o) ==
    /\ o \in placed \ over
    /\ traded' = [traded EXCEPT ![o] = @ + 1]
    /\ over' = IF traded[o] + 1 = Size THEN over \cup {o} ELSE over
    /\ UNCHANGED <<recorded, placed, booked>>

Close(o) ==
    /\ o \in placed \ over
    /\ over' = over \cup {o}
    /\ UNCHANGED <<recorded, placed, traded, booked>>

\* The trades of an order are numbered as they happen, and may be booked in any order.
Book(o, n) ==
    /\ o \in recorded
    /\ n \in 1..traded[o]
    /\ booked' = booked \cup {<<o, n>>}
    /\ UNCHANGED <<recorded, placed, traded, over>>

Next ==
    \E o \in Orders :
        \/ Record(o) \/ Place(o) \/ Trade(o) \/ Close(o)
        \/ \E n \in 1..Size : Book(o, n)

Spec == Init /\ [][Next]_vars
=============================================================================
