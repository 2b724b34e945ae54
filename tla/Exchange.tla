------------------------------ MODULE Exchange ------------------------------
(***************************************************************************)
(* The exchange as the bot sees it (external: the code under src/ reaches  *)
(* it through BinanceAdapter).  It is the ground truth: an order that was  *)
(* sent may be lost on the way, refused or accepted; an accepted order     *)
(* trades one lot at a time until it is filled, canceled or expired.       *)
(* Events go to the user data stream, in order, while it is connected;     *)
(* what happens while it is not is never delivered.                        *)
(***************************************************************************)
EXTENDS Integers, Sequences

CONSTANTS
    Orders,   \* client order ids
    Size      \* quantity of every order, in lots

ASSUME SizeAssumption == Size \in Nat \ {0}

VARIABLES
    venue,    \* the exchange's own record of each order
    stream    \* events on their way to the user data stream

VenueStates ==
    {"NONE", "SENT", "DROPPED", "REJECTED", "NEW", "PARTIALLY_FILLED", "FILLED",
     "CANCELED", "EXPIRED"}
VenueRecords == [state : VenueStates, executed : 0..Size]
Unsent == [state |-> "NONE", executed |-> 0]

\* The trade number is 0 for an event that is not a trade.
Events == [order : Orders, status : VenueStates, trade : 0..Size]

Live(o) == venue[o].state \in {"NEW", "PARTIALLY_FILLED"}

\* What query_order finds.
Found(o) == venue[o].state \in {"NEW", "PARTIALLY_FILLED", "FILLED", "CANCELED", "EXPIRED"}

\* Mutant: a status without a counterpart is passed on as it is.
MappedRaw(s) == IF s = "NEW" THEN "OPEN" ELSE s

\* Mutant: whatever is neither new nor canceled counts as filled.
MappedOther(s) ==
    CASE s = "NEW" -> "OPEN"
      [] s = "CANCELED" -> s
      [] OTHER -> "FILLED"

\* _map_order_state: a status it does not know is UNKNOWN.
Mapped(s) ==
    CASE s = "NEW" -> "OPEN"
      [] s \in {"PARTIALLY_FILLED", "FILLED", "CANCELED"} -> s
      [] OTHER -> "UNKNOWN"

Publish(connected, o, s, trade) ==
    stream' = IF connected
              THEN Append(stream, [order |-> o, status |-> s, trade |-> trade])
              ELSE stream

\* A new order on its way.  An id that is sent again would be a new order.
Dispatch(o) ==
    /\ venue' = [venue EXCEPT ![o] = [Unsent EXCEPT !.state = "SENT"]]
    /\ UNCHANGED stream

Accept(connected, o) ==
    /\ venue[o].state = "SENT"
    /\ venue' = [venue EXCEPT ![o].state = "NEW"]
    /\ Publish(connected, o, "NEW", 0)

Refuse(o) ==
    /\ venue[o].state = "SENT"
    /\ \E s \in {"REJECTED", "DROPPED"} : venue' = [venue EXCEPT ![o].state = s]
    /\ UNCHANGED stream

Trade(connected, o) ==
    LET done == venue[o].executed + 1
        s == IF done = Size THEN "FILLED" ELSE "PARTIALLY_FILLED"
    IN  /\ Live(o)
        /\ venue' = [venue EXCEPT ![o] = [state |-> s, executed |-> done]]
        /\ Publish(connected, o, s, done)

Close(connected, o, s) ==
    /\ Live(o)
    /\ venue' = [venue EXCEPT ![o].state = s]
    /\ Publish(connected, o, s, 0)

VenueNext(connected) ==
    \E o \in Orders :
        \/ Accept(connected, o)
        \/ Refuse(o)
        \/ Trade(connected, o)
        \/ Close(connected, o, "EXPIRED")
=============================================================================
