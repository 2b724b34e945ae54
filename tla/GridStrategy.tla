---------------------------- MODULE GridStrategy ----------------------------
(***************************************************************************)
(* The strategy (src/src/apge/grid_strategy.py, generate_grid_proposals):  *)
(* from the best bid and ask, the inventory and the state of the bot it    *)
(* derives the limit orders the bot should have on the book, first the     *)
(* bids below the market, then the asks above it.  It works outwards from  *)
(* the middle, one level a step, and what a level takes is taken off what  *)
(* the inventory still allows on that side.                                *)
(*                                                                         *)
(* Prices and quantities are natural numbers of some finest unit; tick and *)
(* step are multiples of it.                                               *)
(***************************************************************************)
EXTENDS Integers, RiskUnits

CONSTANTS
    Calls,      \* the arguments the function may be called with
    MaxLevels   \* bound: level_count of a call

Sides == {"BUY", "SELL"}

SystemStates == {"OPERATIONAL", "CONNECTION_LOST", "RECONCILING", "HALTED"}
Regimes == {"NEUTRAL", "SLIGHT_UP", "SLIGHT_DOWN", "STRONG_TREND", "BREAKOUT", "SHOCK"}

Arguments ==
    [best_bid : Nat, best_ask : Nat, current_inventory : Int, grid_spacing : Nat,
     base_size : Nat, level_count : 0..MaxLevels, max_inventory : Nat, tick_size : Nat,
     step_size : Nat, system_state : SystemStates, market_regime : Regimes,
     is_stale_data : BOOLEAN]

ASSUME MaxLevelsAssumption == MaxLevels \in Nat
ASSUME CallsAssumption == Calls \subseteq Arguments

VARIABLES
    call,      \* the arguments
    side,      \* the loop that runs, or "none" before and "done" after both
    i,         \* the level it is at
    allowed,   \* what it may still propose
    amounts    \* the quantity proposed at each level of each side, 0 if none

vars == <<call, side, i, allowed, amounts>>

TypeOK ==
    /\ call \in Calls
    /\ side \in Sides \cup {"none", "done"}
    /\ i \in 1..MaxLevels + 1
    /\ allowed \in Nat
    /\ amounts \in [Sides -> [1..MaxLevels -> Nat]]

(***************************************************************************)
(* Arithmetic                                                              *)
(***************************************************************************)
\* Round down to a multiple.  Decimal's // truncates towards zero; of a negative
\* number only the sign matters here, and it is never positive either way.
Down(x, unit) == (x \div unit) * unit

\* Mutant: the target is not rounded to the tick.
BidUnrounded(l) == call.best_bid - call.grid_spacing * l

BidPrice(l) ==
    LET target == Down(call.best_bid - call.grid_spacing * l, call.tick_size)
    IN  IF target >= call.best_bid THEN call.best_bid - call.tick_size ELSE target

AskPrice(l) ==
    LET exact == call.best_ask + call.grid_spacing * l
        below == Down(exact, call.tick_size)
        target == IF below < exact THEN below + call.tick_size ELSE below
    IN  IF target <= call.best_ask THEN call.best_ask + call.tick_size ELSE target

Price(s, l) == IF s = "BUY" THEN BidPrice(l) ELSE AskPrice(l)

BaseSize == Down(call.base_size, call.step_size)

\* Mutant: a level takes the base size whatever is left.
AmountUncut == BaseSize

Amount == Down(IF BaseSize <= allowed THEN BaseSize ELSE allowed, call.step_size)

(***************************************************************************)
(* The call                                                                *)
(***************************************************************************)
Valid ==
    /\ 0 < call.best_bid /\ call.best_bid < call.best_ask
    /\ call.base_size > 0 /\ call.grid_spacing > 0 /\ call.level_count > 0
    /\ call.tick_size > 0 /\ call.step_size > 0
    /\ BaseSize > 0
    /\ call.system_state \notin {"HALTED", "CONNECTION_LOST"}

RiskReducingOnly ==
    \/ call.system_state = "RECONCILING"
    \/ call.is_stale_data
    \/ call.market_regime \in {"STRONG_TREND", "BREAKOUT", "SHOCK"}

\* The inventory that the orders of a side may lead to, and how far it is.
Target == IF RiskReducingOnly THEN 0 ELSE call.max_inventory

Room(s) ==
    IF s = "BUY" THEN Target - call.current_inventory ELSE Target + call.current_inventory

\* Mutant: the capacity is not held at zero.
CapacityUnclamped(s) == Room(s)

Capacity(s) == IF Room(s) > 0 THEN Room(s) ELSE 0

Nothing == [s \in Sides |-> [l \in 1..MaxLevels |-> 0]]

\* One call with any arguments: the function keeps nothing from call to call.
Init ==
    /\ call \in Calls
    /\ side = "none"
    /\ i = 1
    /\ allowed = 0
    /\ amounts = Nothing

Generate ==
    /\ side = "none"
    /\ IF Valid
       THEN side' = "BUY" /\ allowed' = Capacity("BUY")
       ELSE side' = "done" /\ UNCHANGED allowed
    /\ UNCHANGED <<call, i, amounts>>

\* A price is proposed once.
Seen(l) == \E k \in 1..l - 1 : amounts[side][k] > 0 /\ Price(side, k) = Price(side, l)

\* Mutant: a level that rounds to the price of an earlier one is proposed again.
OpenRepeated(l) == Amount > 0 /\ Price(side, l) > 0

Open(l) == Amount > 0 /\ Price(side, l) > 0 /\ ~Seen(l)

\* Mutant: the asks may use what the bids have left.
ShareCapacity ==
    /\ side' = IF side = "BUY" THEN "SELL" ELSE "done"
    /\ allowed' = IF side = "BUY" THEN allowed ELSE 0
    /\ i' = 1
    /\ UNCHANGED call

\* The other loop, or the end; what the caller does to amounts is its own.
EndSide ==
    /\ side' = IF side = "BUY" THEN "SELL" ELSE "done"
    /\ allowed' = IF side = "BUY" THEN Capacity("SELL") ELSE 0
    /\ i' = 1
    /\ UNCHANGED call

Skip ==
    /\ side \in Sides
    /\ i <= call.level_count
    /\ ~Open(i)
    /\ i' = i + 1
    /\ UNCHANGED <<call, side, allowed, amounts>>

Propose ==
    /\ side \in Sides
    /\ i <= call.level_count
    /\ Open(i)
    /\ amounts' = [amounts EXCEPT ![side][i] = Amount]
    /\ IF Amount < allowed
       THEN /\ allowed' = allowed - Amount
            /\ i' = i + 1
            /\ UNCHANGED <<call, side>>
       ELSE EndSide

LastLevel ==
    /\ side \in Sides
    /\ i > call.level_count
    /\ EndSide
    /\ UNCHANGED amounts

Next ==
    \/ Generate
    \/ Skip
    \/ Propose
    \/ LastLevel

Spec == Init /\ [][Next]_vars

(***************************************************************************)
(* Properties                                                              *)
(***************************************************************************)
\* If every order of a side fills, the inventory stays within max_inventory, and
\* when only reducing orders are allowed it does not change sign: cutting,
\* rounding, skipped prices and the end of the loop never let a side take more
\* than there is room for.
WithinInventory == \A s \in Sides : Total(amounts[s]) <= Capacity(s)

\* What rounding and the guards after it make of the prices: no order can match at
\* once, the prices lie on ticks and above zero, and each price is used once.
Proposed(s) == {l \in 1..MaxLevels : amounts[s][l] > 0}

PricesSound ==
    \A s \in Sides : \A l \in Proposed(s) :
        /\ Price(s, l) > 0
        /\ Price(s, l) % call.tick_size = 0
        /\ IF s = "BUY" THEN Price(s, l) < call.best_bid ELSE Price(s, l) > call.best_ask
        /\ \A k \in Proposed(s) : Price(s, k) = Price(s, l) => k = l

\* The reference: the capacity, rounded down to the step, is dealt out to the
\* distinct prices in order of their distance from the market, a base size to each
\* until it is used up, and a call that is refused proposes nothing.
Ladder(s) == {p \in {Price(s, l) : l \in 1..call.level_count} : p > 0}

Nearer(s, p, q) == IF s = "BUY" THEN p > q ELSE p < q

Share(s, p) ==
    LET before == BaseSize * Cardinality({q \in Ladder(s) : Nearer(s, q, p)})
        rest == Down(Capacity(s), call.step_size) - before
    IN  IF rest <= 0 THEN 0 ELSE IF rest < BaseSize THEN rest ELSE BaseSize

DealtOut ==
    side = "done" =>
        IF Valid
        THEN \A s \in Sides :
                /\ \A l \in Proposed(s) : amounts[s][l] = Share(s, Price(s, l))
                /\ \A p \in Ladder(s) :
                      Share(s, p) > 0 => \E l \in Proposed(s) : Price(s, l) = p
        ELSE amounts = Nothing
=============================================================================
