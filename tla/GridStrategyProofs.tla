------------------------- MODULE GridStrategyProofs -------------------------
(***************************************************************************)
(* Proofs about GridStrategy: whatever the arguments, the orders proposed  *)
(* for a side never add up to more than its room in the inventory, every   *)
(* price proposed is sound, and the capacity is dealt out to the prices as *)
(* the reference says, nearest first.                                      *)
(***************************************************************************)
EXTENDS GridStrategy, RiskUnitsProofs

(***************************************************************************)
(* Arithmetic                                                              *)
(***************************************************************************)
(* Rounding down to a positive unit gives a multiple of it, at most one    *)
(* unit below.                                                             *)
LEMMA DownRounds ==
  ASSUME NEW x \in Int, NEW u \in Nat \ {0}
  PROVE  /\ Down(x, u) \in Int /\ Down(x, u) % u = 0
         /\ Down(x, u) <= x /\ x < Down(x, u) + u
<1>1. Down(x, u) \in Int /\ Down(x, u) % u = 0
  BY DEF Down
<1>2. Down(x, u) <= x /\ x < Down(x, u) + u
  BY DEF Down
<1> QED
  BY <1>1, <1>2

(* A natural number rounds down to a natural number. *)
LEMMA DownIsNat ==
  ASSUME NEW x \in Nat, NEW u \in Nat \ {0}
  PROVE  Down(x, u) \in Nat
BY DEF Down

(* The next multiple of a unit is one unit further. *)
LEMMA NextMultiple ==
  ASSUME NEW x \in Int, NEW u \in Nat \ {0}, x % u = 0
  PROVE  (x + u) % u = 0
<1>1. x = (x \div u) * u
  OBVIOUS
<1>2. x + u = (x \div u + 1) * u
  BY <1>1
<1>3. x \div u + 1 \in Int
  OBVIOUS
<1>4. \A k \in Int : (k * u) % u = 0
  OBVIOUS
<1> QED
  BY <1>2, <1>3, <1>4

(* Every level is at least one unit away from the market. *)
LEMMA SpacingTimesLevel ==
  ASSUME NEW d \in Nat \ {0}, NEW l \in Nat \ {0}
  PROVE  d * l \in Nat /\ d * l >= 1
OBVIOUS

(***************************************************************************)
(* Types                                                                   *)
(***************************************************************************)
(* The arguments are those of the function, and so are their numbers. *)
LEMMA ArgumentTypes ==
  ASSUME call \in Calls
  PROVE  /\ call.best_bid \in Nat /\ call.best_ask \in Nat
         /\ call.current_inventory \in Int
         /\ call.grid_spacing \in Nat /\ call.base_size \in Nat
         /\ call.level_count \in 0..MaxLevels /\ call.max_inventory \in Nat
         /\ call.tick_size \in Nat /\ call.step_size \in Nat
BY CallsAssumption DEF Arguments

(* There is room for a natural number of units. *)
LEMMA CapacityIsNat ==
  ASSUME call \in Calls, NEW s \in Sides
  PROVE  Capacity(s) \in Nat
BY ArgumentTypes DEF Capacity, Room, Target

(* What a level takes is at most what is left. *)
LEMMA AmountIsNat ==
  ASSUME call \in Calls, Valid, allowed \in Nat
  PROVE  Amount \in Nat /\ Amount <= allowed
<1>1. call.step_size \in Nat \ {0} /\ call.base_size \in Nat
  BY ArgumentTypes DEF Valid
<1>2. BaseSize \in Nat
  BY <1>1, DownIsNat DEF BaseSize
<1> DEFINE cut == IF BaseSize <= allowed THEN BaseSize ELSE allowed
<1>3. cut \in Nat /\ cut <= allowed
  BY <1>2
<1>4. Amount = Down(cut, call.step_size)
  BY DEF Amount
<1> HIDE DEF cut
<1>5. Down(cut, call.step_size) \in Nat /\ Down(cut, call.step_size) <= cut
  BY <1>1, <1>3, DownIsNat, DownRounds
<1> QED
  BY <1>3, <1>4, <1>5

(***************************************************************************)
(* The inductive invariant.  While a loop runs, what it has proposed and   *)
(* what it may still propose make up the capacity of its side, and the     *)
(* levels it has not reached are empty; the side whose turn has not come   *)
(* is empty as well.                                                       *)
(***************************************************************************)
Untouched(s) == \A l \in 1..MaxLevels : amounts[s][l] = 0

Accounted ==
    /\ side \in Sides =>
          /\ Valid
          /\ Total(amounts[side]) + allowed = Capacity(side)
          /\ \A l \in i..MaxLevels : amounts[side][l] = 0
    /\ side \in {"none", "BUY"} => Untouched("SELL")
    /\ side = "none" => Untouched("BUY") /\ i = 1
    /\ \A s \in Sides : Untouched(s) \/ Valid

Inductive == TypeOK /\ Accounted /\ WithinInventory /\ PricesSound


(* Every price lies on a tick and on its own side of the market, whichever *)
(* way the rounding went.                                                  *)
LEMMA PriceSound ==
  ASSUME call \in Calls, Valid, NEW s \in Sides, NEW l \in Nat \ {0}
  PROVE  /\ Price(s, l) \in Int /\ Price(s, l) % call.tick_size = 0
         /\ IF s = "BUY" THEN Price(s, l) < call.best_bid ELSE Price(s, l) > call.best_ask
<1> DEFINE bid == call.best_bid
           ask == call.best_ask
           tick == call.tick_size
           far == call.grid_spacing * l
<1>1. bid \in Nat /\ ask \in Nat /\ tick \in Nat \ {0} /\ far \in Nat /\ far >= 1
  BY ArgumentTypes, SpacingTimesLevel DEF Valid
<1>2. /\ BidPrice(l) = IF Down(bid - far, tick) >= bid THEN bid - tick ELSE Down(bid - far, tick)
      /\ AskPrice(l) =
           LET below == Down(ask + far, tick)
               target == IF below < ask + far THEN below + tick ELSE below
           IN  IF target <= ask THEN ask + tick ELSE target
  BY DEF BidPrice, AskPrice
<1> HIDE DEF bid, ask, tick, far
<1>3. ASSUME s = "BUY"
      PROVE  BidPrice(l) \in Int /\ BidPrice(l) % tick = 0 /\ BidPrice(l) < bid
  <2>1. bid - far \in Int /\ bid - far < bid
    BY <1>1
  <2>2. /\ Down(bid - far, tick) \in Int /\ Down(bid - far, tick) % tick = 0
        /\ Down(bid - far, tick) <= bid - far
    BY <1>1, <2>1, DownRounds
  <2>3. BidPrice(l) = Down(bid - far, tick)
    BY <1>1, <1>2, <2>1, <2>2
  <2> QED
    BY <1>1, <2>1, <2>2, <2>3
<1>4. ASSUME s = "SELL"
      PROVE  AskPrice(l) \in Int /\ AskPrice(l) % tick = 0 /\ AskPrice(l) > ask
  <2> DEFINE below == Down(ask + far, tick)
  <2>1. ask + far \in Int /\ ask + far > ask
    BY <1>1
  <2>2. below \in Int /\ below % tick = 0 /\ below <= ask + far /\ ask + far < below + tick
    BY <1>1, <2>1, DownRounds
  <2>3. (below + tick) % tick = 0
    BY <1>1, <2>2, NextMultiple
  <2> HIDE DEF below
  <2>4. AskPrice(l) = IF below < ask + far THEN below + tick ELSE below
    BY <1>1, <1>2, <2>1, <2>2 DEF below
  <2> QED
    BY <1>1, <2>1, <2>2, <2>3, <2>4
<1> QED
  BY <1>3, <1>4 DEF Price, Sides, bid, ask, tick

(***************************************************************************)
(* One step of each action                                                 *)
(***************************************************************************)
(* An empty table sums to zero. *)
LEMMA EmptyTotal ==
  ASSUME TypeOK, NEW s \in Sides, Untouched(s)
  PROVE  Total(amounts[s]) = 0
<1>1. amounts[s] \in [1..MaxLevels -> Nat] /\ \A l \in 1..MaxLevels : amounts[s][l] = 0
  BY DEF TypeOK, Untouched
<1> QED
  BY <1>1, TotalOfZeros

(* The invariant holds before the call. *)
LEMMA InductiveInit == Init => Inductive
<1> SUFFICES ASSUME Init PROVE Inductive
  OBVIOUS
<1>1. TypeOK
  BY MaxLevelsAssumption DEF Init, TypeOK, Nothing, Sides
<1>2. \A s \in Sides : Untouched(s)
  BY DEF Init, Nothing, Untouched
<1>3. Accounted
  BY <1>2 DEF Accounted, Init, Sides
<1>4. WithinInventory
  <2> SUFFICES ASSUME NEW s \in Sides PROVE Total(amounts[s]) <= Capacity(s)
    BY DEF WithinInventory
  <2>1. Total(amounts[s]) = 0 /\ Capacity(s) \in Nat
    BY <1>1, <1>2, EmptyTotal, CapacityIsNat DEF TypeOK
  <2> QED
    BY <2>1
<1>5. PricesSound
  BY <1>2 DEF PricesSound, Proposed, Untouched
<1> QED
  BY <1>1, <1>3, <1>4, <1>5 DEF Inductive

(* A step that changes neither the arguments nor the proposals keeps what  *)
(* is said of them alone.                                                  *)
LEMMA SameProposals ==
  ASSUME Inductive, call' = call, amounts' = amounts
  PROVE  /\ WithinInventory' /\ PricesSound'
         /\ Valid' = Valid
         /\ \A s \in Sides : Capacity(s)' = Capacity(s) /\ Untouched(s)' = Untouched(s)
<1>1. Valid' = Valid
  BY DEF Valid, BaseSize
<1>2. \A s \in Sides : Capacity(s)' = Capacity(s) /\ Untouched(s)' = Untouched(s)
  BY DEF Capacity, Room, Target, RiskReducingOnly, Untouched
<1>3. WithinInventory'
  BY <1>2 DEF Inductive, WithinInventory
<1>4. PricesSound'
  BY DEF Inductive, PricesSound, Proposed, Price, BidPrice, AskPrice
<1> QED
  BY <1>1, <1>2, <1>3, <1>4

(* The first loop starts with the whole capacity of the bids. *)
LEMMA GenerateStep == Inductive /\ Generate => Inductive'
<1> SUFFICES ASSUME Inductive, Generate PROVE Inductive'
  OBVIOUS
<1>1. /\ TypeOK /\ side = "none" /\ call' = call /\ amounts' = amounts /\ i' = i
      /\ IF Valid THEN side' = "BUY" /\ allowed' = Capacity("BUY")
                  ELSE side' = "done" /\ allowed' = allowed
  BY DEF Inductive, Generate
<1>2. Capacity("BUY") \in Nat
  BY <1>1, CapacityIsNat DEF TypeOK, Sides
<1>3. TypeOK'
  BY <1>1, <1>2 DEF TypeOK, Sides
<1>4. /\ WithinInventory' /\ PricesSound' /\ Valid' = Valid
      /\ \A s \in Sides : Capacity(s)' = Capacity(s) /\ Untouched(s)' = Untouched(s)
  BY <1>1, SameProposals
<1>5. Untouched("BUY") /\ Untouched("SELL") /\ i = 1
  BY <1>1 DEF Inductive, Accounted
<1>6. Total(amounts["BUY"]) = 0
  BY <1>1, <1>5, EmptyTotal DEF Sides
<1>7. Accounted'
  <2>1. ASSUME side' \in Sides
        PROVE  (/\ Valid
                /\ Total(amounts[side]) + allowed = Capacity(side)
                /\ \A l \in i..MaxLevels : amounts[side][l] = 0)'
    <3>1. Valid /\ side' = "BUY" /\ allowed' = Capacity("BUY")
      BY <1>1, <2>1 DEF Sides
    <3>2. Total(amounts["BUY"]) + Capacity("BUY") = Capacity("BUY")
      BY <1>2, <1>6
    <3>3. Capacity(side)' = Capacity("BUY")
      BY <1>1, <3>1 DEF Capacity, Room, Target, RiskReducingOnly
    <3> QED
      BY <1>1, <1>4, <1>5, <3>1, <3>2, <3>3 DEF Untouched
  <2>2. \A s \in Sides : Untouched(s)'
    BY <1>4, <1>5 DEF Sides
  <2>3. side' # "none"
    BY <1>1
  <2> QED
    BY <2>1, <2>2, <2>3 DEF Accounted, Sides
<1> QED
  BY <1>3, <1>4, <1>7 DEF Inductive

(* A level that proposes nothing stays empty. *)
LEMMA SkipStep == Inductive /\ Skip => Inductive'
<1> SUFFICES ASSUME Inductive, Skip PROVE Inductive'
  OBVIOUS
<1>1. /\ TypeOK /\ side \in Sides /\ i <= call.level_count /\ i' = i + 1
      /\ call' = call /\ side' = side /\ allowed' = allowed /\ amounts' = amounts
  BY DEF Inductive, Skip
<1>2. i \in Nat /\ i + 1 \in 1..MaxLevels + 1
  <2>1. call.level_count \in 0..MaxLevels /\ i \in 1..MaxLevels + 1
    BY <1>1, ArgumentTypes DEF TypeOK
  <2> QED
    BY <1>1, <2>1, MaxLevelsAssumption
<1>3. TypeOK'
  BY <1>1, <1>2 DEF TypeOK
<1>4. /\ WithinInventory' /\ PricesSound' /\ Valid' = Valid
      /\ \A s \in Sides : Capacity(s)' = Capacity(s) /\ Untouched(s)' = Untouched(s)
  BY <1>1, SameProposals
<1>5. Accounted'
  <2>1. /\ Valid /\ Total(amounts[side]) + allowed = Capacity(side)
        /\ \A l \in i..MaxLevels : amounts[side][l] = 0
        /\ side = "BUY" => Untouched("SELL")
    BY <1>1 DEF Inductive, Accounted
  <2>2. Capacity(side)' = Capacity(side)
    BY <1>1 DEF Capacity, Room, Target, RiskReducingOnly
  <2>3. \A l \in i + 1..MaxLevels : l \in i..MaxLevels
    BY <1>2, MaxLevelsAssumption
  <2> QED
    BY <1>1, <1>4, <2>1, <2>2, <2>3 DEF Accounted, Sides
<1> QED
  BY <1>3, <1>4, <1>5 DEF Inductive

(* When a loop ends, the other one starts with the whole capacity of its   *)
(* own side, whatever the first has left.                                  *)
LEMMA EndSideStep ==
  ASSUME Inductive, side \in Sides, EndSide, WithinInventory', PricesSound',
         amounts' \in [Sides -> [1..MaxLevels -> Nat]],
         \A s \in Sides \ {side} : amounts'[s] = amounts[s]
  PROVE  Inductive'
<1>1. /\ TypeOK /\ Valid /\ call' = call /\ i' = 1
      /\ side' = IF side = "BUY" THEN "SELL" ELSE "done"
      /\ allowed' = IF side = "BUY" THEN Capacity("SELL") ELSE 0
      /\ side = "BUY" => Untouched("SELL")
  BY DEF Inductive, Accounted, EndSide
<1>2. Capacity("SELL") \in Nat /\ 1 \in 1..MaxLevels + 1
  BY <1>1, CapacityIsNat, MaxLevelsAssumption DEF TypeOK, Sides
<1>3. TypeOK'
  BY <1>1, <1>2 DEF TypeOK, Sides
<1>4. Valid'
  BY <1>1 DEF Valid, BaseSize
<1>5. CASE side = "BUY"
  <2>1. Untouched("SELL")' /\ amounts'["SELL"] = amounts["SELL"] /\ Untouched("SELL")
    BY <1>1, <1>5 DEF Untouched, Sides
  <2>2. Total(amounts["SELL"]) = 0
    BY <1>1, <2>1, EmptyTotal DEF Sides
  <2>3. Total(amounts["SELL"]) + Capacity("SELL") = Capacity("SELL")
    BY <1>2, <2>2
  <2>4. side' = "SELL" /\ allowed' = Capacity("SELL")
    BY <1>1, <1>5
  <2>5. Capacity(side)' = Capacity("SELL")
    BY <1>1, <2>4 DEF Capacity, Room, Target, RiskReducingOnly
  <2>6. \A l \in i'..MaxLevels : amounts'["SELL"][l] = 0
    BY <1>1, <2>1 DEF Untouched
  <2>7. Accounted'
    BY <1>4, <2>1, <2>3, <2>4, <2>5, <2>6 DEF Accounted
  <2> QED
    BY <1>3, <2>7 DEF Inductive
<1>6. CASE side = "SELL"
  <2>1. side' = "done"
    BY <1>1, <1>6
  <2>2. Accounted'
    BY <1>4, <2>1 DEF Accounted, Sides
  <2> QED
    BY <1>3, <2>2 DEF Inductive
<1> QED
  BY <1>5, <1>6 DEF Sides

(* The last level passed: nothing is proposed. *)
LEMMA LastLevelStep == Inductive /\ LastLevel => Inductive'
<1> SUFFICES ASSUME Inductive, LastLevel PROVE Inductive'
  OBVIOUS
<1>1. /\ TypeOK /\ side \in Sides /\ EndSide /\ amounts' = amounts /\ call' = call
  BY DEF Inductive, LastLevel, EndSide
<1>2. WithinInventory' /\ PricesSound'
  BY <1>1, SameProposals
<1> QED
  BY <1>1, <1>2, EndSideStep DEF TypeOK

(* A proposal takes its amount off what is left and adds an order with a   *)
(* sound price that no other has.                                          *)
LEMMA Proposal ==
  ASSUME Inductive, Propose
  PROVE  /\ i \in 1..MaxLevels /\ call' = call
         /\ amounts' = [amounts EXCEPT ![side][i] = Amount]
         /\ amounts' \in [Sides -> [1..MaxLevels -> Nat]]
         /\ Amount \in Nat /\ Amount <= allowed
         /\ Total(amounts'[side]) + (allowed - Amount) = Capacity(side)
         /\ Total(amounts'[side]) \in Nat
         /\ WithinInventory' /\ PricesSound'
<1>1. /\ TypeOK /\ side \in Sides /\ i <= call.level_count /\ Open(i)
      /\ amounts' = [amounts EXCEPT ![side][i] = Amount] /\ call' = call
  BY DEF Inductive, Propose, EndSide
<1>2. i \in 1..MaxLevels
  <2>1. call.level_count \in 0..MaxLevels /\ i \in 1..MaxLevels + 1
    BY <1>1, ArgumentTypes DEF TypeOK
  <2> QED
    BY <1>1, <2>1, MaxLevelsAssumption
<1>3. /\ Valid /\ Total(amounts[side]) + allowed = Capacity(side)
      /\ \A l \in i..MaxLevels : amounts[side][l] = 0
  BY <1>1 DEF Inductive, Accounted
<1>4. Amount \in Nat /\ Amount <= allowed /\ Amount > 0
  BY <1>1, <1>3, AmountIsNat DEF TypeOK, Open
<1>5. amounts' \in [Sides -> [1..MaxLevels -> Nat]]
  BY <1>1, <1>2, <1>4 DEF TypeOK
<1>6. /\ amounts'[side] = [amounts[side] EXCEPT ![i] = Amount]
      /\ \A s \in Sides \ {side} : amounts'[s] = amounts[s]
  BY <1>1, <1>2 DEF TypeOK
<1>7. /\ Total(amounts'[side]) = Total(amounts[side]) + Amount
      /\ Total(amounts[side]) \in Nat /\ Total(amounts'[side]) \in Nat
  <2>1. amounts[side] \in [1..MaxLevels -> Nat] /\ amounts'[side] \in [1..MaxLevels -> Nat]
    BY <1>1, <1>5 DEF TypeOK
  <2>2. PICK f \in [1..MaxLevels -> Nat], g \in [1..MaxLevels -> Nat], k \in 1..MaxLevels,
             n \in Nat :
          f = amounts[side] /\ g = amounts'[side] /\ k = i /\ n = Amount
    BY <1>2, <1>4, <2>1
  <2>3. i \in i..MaxLevels
    BY <1>2, MaxLevelsAssumption
  <2>4. f[k] = 0 /\ g = [f EXCEPT ![k] = n]
    BY <1>3, <1>6, <2>2, <2>3
  <2>5. g[k] = n /\ \A l \in (1..MaxLevels) \ {k} : g[l] = f[l]
    BY <2>4
  <2>6. IsFiniteSet(1..MaxLevels)
    BY MaxLevelsAssumption, FS_Interval
  <2>7. Total(g) = Total(f) - f[k] + g[k] /\ Total(f) \in Nat /\ Total(g) \in Nat
    BY <2>5, <2>6, TotalUpdate
  <2>8. Total(g) = Total(f) + n
    BY <2>4, <2>5, <2>7
  <2> QED
    BY <2>2, <2>7, <2>8
<1>8. Total(amounts'[side]) + (allowed - Amount) = Capacity(side)
  <2>1. allowed \in Nat
    BY <1>1 DEF TypeOK
  <2> QED
    BY <1>3, <1>4, <1>7, <2>1
<1>9. WithinInventory'
  <2>1. \A s \in Sides : Capacity(s)' = Capacity(s)
    BY <1>1 DEF Capacity, Room, Target, RiskReducingOnly
  <2>2. Total(amounts'[side]) <= Capacity(side)
    <3>1. allowed - Amount \in Nat /\ Capacity(side) \in Nat
      BY <1>1, <1>4, CapacityIsNat DEF TypeOK
    <3> QED
      BY <1>7, <1>8, <3>1
  <2>3. \A s \in Sides \ {side} : Total(amounts'[s]) <= Capacity(s)
    BY <1>6 DEF Inductive, WithinInventory
  <2> QED
    BY <2>1, <2>2, <2>3 DEF WithinInventory
<1>10. PricesSound'
  <2>1. \A s \in Sides, l \in 1..MaxLevels : Price(s, l)' = Price(s, l)
    BY <1>1 DEF Price, BidPrice, AskPrice
  <2>2. \A s \in Sides :
          Proposed(s)' = IF s = side THEN Proposed(s) \cup {i} ELSE Proposed(s)
    <3>1. \A l \in 1..MaxLevels :
            amounts'[side][l] = IF l = i THEN Amount ELSE amounts[side][l]
      BY <1>1, <1>2, <1>6 DEF TypeOK
    <3> QED
      BY <1>2, <1>4, <1>6, <3>1 DEF Proposed
  <2>3. /\ Price(side, i) > 0 /\ Price(side, i) % call.tick_size = 0
        /\ IF side = "BUY" THEN Price(side, i) < call.best_bid ELSE Price(side, i) > call.best_ask
    BY <1>1, <1>2, <1>3, PriceSound DEF TypeOK, Open
  <2>4. \A k \in Proposed(side) : k < i /\ Price(side, k) # Price(side, i)
    <3>1. \A k \in Proposed(side) : k \in 1..i - 1
      BY <1>1, <1>2, <1>3, MaxLevelsAssumption DEF Proposed, TypeOK
    <3>2. \A k \in Proposed(side) : Price(side, k) # Price(side, i)
      BY <1>1, <3>1 DEF Open, Seen, Proposed
    <3> QED
      BY <1>2, <3>1, <3>2
  <2>5. PricesSound
    BY DEF Inductive
  <2> SUFFICES ASSUME NEW s \in Sides, NEW l \in Proposed(s)'
               PROVE  (/\ Price(s, l) > 0
                       /\ Price(s, l) % call.tick_size = 0
                       /\ IF s = "BUY" THEN Price(s, l) < call.best_bid
                                       ELSE Price(s, l) > call.best_ask
                       /\ \A k \in Proposed(s) : Price(s, k) = Price(s, l) => k = l)'
    BY DEF PricesSound
  <2> QED
    BY <1>1, <1>2, <2>1, <2>2, <2>3, <2>4, <2>5 DEF PricesSound, Proposed
<1> QED
  BY <1>1, <1>2, <1>4, <1>5, <1>7, <1>8, <1>9, <1>10

(* After a proposal the loop goes on with what is left, or ends. *)
LEMMA ProposeStep == Inductive /\ Propose => Inductive'
<1> SUFFICES ASSUME Inductive, Propose PROVE Inductive'
  OBVIOUS
<1>1. /\ TypeOK /\ side \in Sides /\ Valid
  BY DEF Inductive, Accounted, Propose
<1>2. /\ i \in 1..MaxLevels /\ call' = call
      /\ amounts' = [amounts EXCEPT ![side][i] = Amount]
      /\ amounts' \in [Sides -> [1..MaxLevels -> Nat]]
      /\ Amount \in Nat /\ Amount <= allowed
      /\ Total(amounts'[side]) + (allowed - Amount) = Capacity(side)
      /\ WithinInventory' /\ PricesSound'
  BY Proposal
<1>3. /\ amounts'[side] = [amounts[side] EXCEPT ![i] = Amount]
      /\ \A s \in Sides \ {side} : amounts'[s] = amounts[s]
  BY <1>1, <1>2 DEF TypeOK
<1>4. CASE Amount < allowed
  <2>1. side' = side /\ i' = i + 1 /\ allowed' = allowed - Amount
    BY <1>4 DEF Propose
  <2>2. i + 1 \in 1..MaxLevels + 1 /\ allowed - Amount \in Nat
    BY <1>1, <1>2, <1>4, MaxLevelsAssumption DEF TypeOK
  <2>3. TypeOK'
    BY <1>1, <1>2, <2>1, <2>2 DEF TypeOK
  <2>4. Valid' /\ Capacity(side)' = Capacity(side)
    BY <1>1, <1>2, <2>1 DEF Valid, BaseSize, Capacity, Room, Target, RiskReducingOnly
  <2>5. \A l \in i + 1..MaxLevels : amounts'[side][l] = 0
    <3>1. \A l \in i + 1..MaxLevels : l \in i..MaxLevels /\ l \in 1..MaxLevels /\ l # i
      BY <1>2, MaxLevelsAssumption
    <3>2. \A l \in i..MaxLevels : amounts[side][l] = 0
      BY <1>1 DEF Inductive, Accounted
    <3> QED
      BY <1>1, <1>3, <3>1, <3>2 DEF TypeOK
  <2>6. side = "BUY" => Untouched("SELL")'
    BY <1>1, <1>3 DEF Inductive, Accounted, Untouched, Sides
  <2>7. Total(amounts'[side]) + allowed' = Capacity(side)
    BY <1>2, <2>1
  <2>8. Accounted'
    BY <1>1, <2>1, <2>4, <2>5, <2>6, <2>7 DEF Accounted, Sides
  <2> QED
    BY <1>2, <2>3, <2>8 DEF Inductive
<1>5. CASE ~(Amount < allowed)
  <2>1. EndSide
    BY <1>5 DEF Propose
  <2> QED
    BY <1>1, <1>2, <1>3, <2>1, EndSideStep
<1> QED
  BY <1>4, <1>5

(* No step breaks the invariant. *)
LEMMA InductiveStep == Inductive /\ [Next]_vars => Inductive'
<1> SUFFICES ASSUME Inductive, [Next]_vars PROVE Inductive'
  OBVIOUS
<1>1. CASE Generate
  BY <1>1, GenerateStep
<1>2. CASE Skip
  BY <1>2, SkipStep
<1>3. CASE Propose
  BY <1>3, ProposeStep
<1>4. CASE LastLevel
  BY <1>4, LastLevelStep
<1>5. CASE UNCHANGED vars
  <2>1. /\ call' = call /\ side' = side /\ i' = i /\ allowed' = allowed /\ amounts' = amounts
    BY <1>5 DEF vars
  <2>2. TypeOK'
    BY <2>1 DEF Inductive, TypeOK
  <2>3. /\ WithinInventory' /\ PricesSound' /\ Valid' = Valid
        /\ \A s \in Sides : Capacity(s)' = Capacity(s) /\ Untouched(s)' = Untouched(s)
    BY <2>1, SameProposals
  <2>4. Capacity(side)' = Capacity(side)
    BY <2>1 DEF Capacity, Room, Target, RiskReducingOnly
  <2>5. Accounted'
    BY <2>1, <2>3, <2>4 DEF Inductive, Accounted, Sides
  <2> QED
    BY <2>2, <2>3, <2>5 DEF Inductive
<1> QED
  BY <1>1, <1>2, <1>3, <1>4, <1>5 DEF Next

(***************************************************************************)
(* The quantities.  What follows shows that the loop, cutting to what is   *)
(* left and rounding down, deals out what the reference does.              *)
(***************************************************************************)
(* Multiples of a unit are ordered as their factors are, and a multiple    *)
(* less than one unit beyond another is not beyond it.                     *)
LEMMA MultiplesOrdered ==
  ASSUME NEW u \in Nat \ {0}, NEW p \in Int, NEW q \in Int
  PROVE  /\ p <= q => p * u <= q * u
         /\ p * u < q * u + u => p <= q
<1>1. p * u \in Int /\ q * u \in Int /\ (q + 1) * u = q * u + u
  OBVIOUS
<1>2. ASSUME NEW a \in Int, NEW b \in Int, a <= b PROVE a * u <= b * u
  <2>1. b - a \in Nat
    BY <1>2
  <2>2. (b - a) * u \in Nat
    BY <2>1
  <2>3. b * u = a * u + (b - a) * u
    OBVIOUS
  <2> QED
    BY <2>2, <2>3
<1>3. ASSUME p * u < q * u + u, ~(p <= q) PROVE FALSE
  <2>1. q + 1 <= p /\ q + 1 \in Int
    BY <1>3
  <2>2. (q + 1) * u <= p * u
    BY <1>2, <2>1
  <2> QED
    BY <1>1, <1>3, <2>2
<1> QED
  BY <1>2, <1>3

(* Rounding down finds the one multiple that is at most a unit below. *)
LEMMA DownIsMultiple ==
  ASSUME NEW u \in Nat \ {0}, NEW x \in Int
  PROVE  /\ \E q \in Int : Down(x, u) = q * u
         /\ \A q \in Int : q * u <= x /\ x < q * u + u => Down(x, u) = q * u
<1>1. PICK d \in Int : Down(x, u) = d * u
  BY DEF Down
<1>2. Down(x, u) \in Int /\ Down(x, u) <= x /\ x < Down(x, u) + u
  BY DownRounds
<1>3. ASSUME NEW q \in Int, q * u <= x, x < q * u + u PROVE Down(x, u) = q * u
  <2>1. d * u < q * u + u /\ q * u < d * u + u
    <3>1. d * u \in Int /\ q * u \in Int
      OBVIOUS
    <3> QED
      BY <1>1, <1>2, <1>3, <3>1
  <2>2. d <= q /\ q <= d
    BY <2>1, MultiplesOrdered
  <2>3. d = q
    BY <2>2
  <2> QED
    BY <1>1, <2>3
<1> QED
  BY <1>1, <1>3

(* Rounding down keeps the order. *)
LEMMA DownOrdered ==
  ASSUME NEW u \in Nat \ {0}, NEW x \in Int, NEW y \in Int, x <= y
  PROVE  Down(x, u) <= Down(y, u)
<1>1. PICK p \in Int, q \in Int : Down(x, u) = p * u /\ Down(y, u) = q * u
  BY DownIsMultiple
<1>2. p * u <= x /\ y < q * u + u /\ p * u \in Int /\ q * u \in Int
  BY <1>1, DownRounds
<1>3. p * u < q * u + u
  BY <1>2
<1> QED
  BY <1>1, <1>3, MultiplesOrdered

(* So does rounding up to the next multiple, as the asks do. *)
Up(x, u) == IF Down(x, u) < x THEN Down(x, u) + u ELSE Down(x, u)

LEMMA UpOrdered ==
  ASSUME NEW u \in Nat \ {0}, NEW x \in Int, NEW y \in Int, x <= y
  PROVE  Up(x, u) \in Int /\ Up(y, u) \in Int /\ x <= Up(x, u) /\ Up(x, u) <= Up(y, u)
<1>1. PICK p \in Int, q \in Int : Down(x, u) = p * u /\ Down(y, u) = q * u
  BY DownIsMultiple
<1>2. /\ Down(x, u) \in Int /\ Down(x, u) <= x /\ x < Down(x, u) + u
      /\ Down(y, u) \in Int /\ Down(y, u) <= y /\ y < Down(y, u) + u
      /\ Down(x, u) <= Down(y, u)
  BY DownRounds, DownOrdered
<1>3. CASE Down(y, u) < y
  BY <1>2, <1>3 DEF Up
<1>4. CASE Down(y, u) = y /\ Down(x, u) < x
  <2>1. (p + 1) * u = p * u + u /\ (q + 1) * u = q * u + u /\ p * u \in Int /\ q * u \in Int
    OBVIOUS
  <2>2. (p + 1) * u < q * u + u
    <3>1. p * u < q * u
      BY <1>1, <1>2, <1>4
    <3> QED
      BY <2>1, <3>1
  <2>3. p + 1 <= q
    BY <2>2, MultiplesOrdered
  <2>4. (p + 1) * u <= q * u
    BY <2>3, MultiplesOrdered
  <2>5. Down(x, u) + u <= Down(y, u)
    BY <1>1, <2>1, <2>4
  <2> QED
    BY <1>2, <1>4, <2>5 DEF Up
<1>5. CASE Down(y, u) = y /\ Down(x, u) = x
  BY <1>2, <1>5 DEF Up
<1> QED
  BY <1>2, <1>3, <1>4, <1>5

(* What is left of a capacity c when m prices have taken what they are due, *)
(* and what the next price is due: b is the base size, u the step.         *)
Left(c, u, b, m) == c - (IF b * m <= Down(c, u) THEN b * m ELSE Down(c, u))

Due(c, u, b, m) ==
    LET rest == Down(c, u) - b * m
    IN  IF rest <= 0 THEN 0 ELSE IF rest < b THEN rest ELSE b

(* Cutting the base size to what is left, and rounding that down, gives    *)
(* what is due, and leaves what is left for the price after it.            *)
LEMMA CutIsDue ==
  ASSUME NEW c \in Nat, NEW u \in Nat \ {0}, NEW b \in Nat \ {0}, NEW m \in Nat,
         \E k \in Int : b = k * u
  PROVE  LET left == Left(c, u, b, m)
             cut == Down(IF b <= left THEN b ELSE left, u)
         IN  left \in Nat /\ cut = Due(c, u, b, m) /\ Left(c, u, b, m + 1) = left - cut
<1> DEFINE left == Left(c, u, b, m)
           next == Left(c, u, b, m + 1)
           a == Down(IF b <= left THEN b ELSE left, u)
           w == Down(c, u)
           all == b * m
           more == b * (m + 1)
<1>1. w \in Nat
  BY DownIsNat
<1>2. left = c - (IF all <= w THEN all ELSE w) /\ next = c - (IF more <= w THEN more ELSE w)
  BY DEF Left
<1>3. all \in Nat /\ more \in Nat /\ all = b * m
  OBVIOUS
<1>4. PICK k \in Int : b = k * u
  OBVIOUS
<1>5. a = Down(IF b <= left THEN b ELSE left, u) /\ w = Down(c, u)
  OBVIOUS
<1>6. Due(c, u, b, m) = IF w - all <= 0 THEN 0 ELSE IF w - all < b THEN w - all ELSE b
  BY DEF Due
<1>7. more = all + b
  OBVIOUS
<1> SUFFICES left \in Nat /\ a = Due(c, u, b, m) /\ next = left - a
  OBVIOUS
<1> USE <1>1, <1>2, <1>3, <1>4, <1>5
<1> HIDE DEF left, next, a, w, all, more
<1>8. PICK d \in Int : w = d * u
  <2>1. c \in Int
    OBVIOUS
  <2>2. \E q \in Int : Down(c, u) = q * u
    BY ONLY u \in Nat \ {0}, <2>1, DownIsMultiple, Zenon
  <2> QED
    BY <2>2
<1>9. w <= c /\ c < w + u
  BY DownRounds
<1>10. u <= b
  <2>1. 0 * u < k * u /\ 0 * u = 0 /\ 1 * u = u /\ k * u + u = (k + 1) * u
    OBVIOUS
  <2>2. 1 * u < k * u + u
    BY <2>1
  <2>3. 1 <= k
    BY <2>2, MultiplesOrdered
  <2>4. 1 * u <= k * u
    BY <2>3, MultiplesOrdered
  <2> QED
    BY <2>1, <2>4
<1>11. left \in Nat /\ next \in Nat
  BY <1>9
<1>12. all = (k * m) * u /\ k * m \in Int
  <2>1. (k * u) * m = (k * m) * u
    OBVIOUS
  <2> QED
    BY <2>1
<1>13. CASE w <= all
  <2>1. left = c - w /\ next = c - w
    BY <1>7, <1>9, <1>13
  <2>2. left < u /\ left <= b
    BY <1>9, <1>10, <2>1
  <2>3. (IF b <= left THEN b ELSE left) = left
    BY <1>10, <1>11, <2>2
  <2>4. Down(left, u) = 0
    <3>1. 0 \in Int /\ 0 * u = 0 /\ 0 * u <= left /\ left < 0 * u + u /\ left \in Int
      BY <1>11, <2>2
    <3>2. Down(left, u) = 0 * u
      BY ONLY u \in Nat \ {0}, <3>1, DownIsMultiple, Zenon
    <3> QED
      BY <3>1, <3>2
  <2>5. a = 0
    BY <2>3, <2>4
  <2> QED
    BY <1>6, <1>11, <1>13, <2>1, <2>5
<1>14. CASE all < w
  <2>1. left = c - all
    BY <1>14
  <2>2. CASE b <= left
    <3>1. a = b
      <4>1. Down(b, u) = b
        <5>1. k * u <= b /\ b < k * u + u /\ b \in Int
          OBVIOUS
        <5> QED
          BY <5>1, DownIsMultiple
      <4> QED
        BY <2>2, <4>1
    <3>2. more <= w
      <4>1. more = (k * m + k) * u /\ k * m + k \in Int
        <5>1. (k * m + k) * u = (k * m) * u + k * u
          BY <1>12
        <5> QED
          BY <1>7, <1>12, <5>1
      <4>2. more <= c
        BY <1>7, <2>1, <2>2
      <4>3. (k * m + k) * u < d * u + u
        BY <1>8, <1>9, <4>1, <4>2
      <4>4. k * m + k <= d
        BY <4>1, <4>3, MultiplesOrdered
      <4>5. (k * m + k) * u <= d * u
        BY <4>1, <4>4, MultiplesOrdered
      <4> QED
        BY <1>8, <4>1, <4>5
    <3>3. next = c - more
      BY <3>2
    <3> QED
      BY <1>6, <1>7, <1>11, <1>14, <2>1, <3>1, <3>2, <3>3
  <2>3. CASE ~(b <= left)
    <3>1. a = Down(left, u)
      BY <2>3
    <3>2. w - all = (d - k * m) * u /\ d - k * m \in Int
      <4>1. (d - k * m) * u = d * u - (k * m) * u
        BY <1>12
      <4> QED
        BY <1>8, <1>12, <4>1
    <3>3. w - all <= left /\ left < w - all + u
      BY <1>9, <2>1
    <3>4. Down(left, u) = w - all
      <4>1. /\ left \in Int /\ d - k * m \in Int
            /\ (d - k * m) * u <= left /\ left < (d - k * m) * u + u
        BY <1>11, <3>2, <3>3
      <4>2. Down(left, u) = (d - k * m) * u
        BY ONLY u \in Nat \ {0}, <4>1, DownIsMultiple, Zenon
      <4> QED
        BY <3>2, <4>2
    <3>5. w - all < b
      BY <1>11, <2>3, <3>3
    <3>6. ~(more <= w)
      BY <1>7, <3>5
    <3> QED
      BY <1>6, <1>11, <1>14, <2>1, <3>1, <3>4, <3>5, <3>6
  <2> QED
    BY <2>2, <2>3
<1> QED
  BY <1>13, <1>14

(* What is due shrinks to nothing and stays nothing; and when nothing is   *)
(* left, nothing is due.                                                   *)
LEMMA NothingDue ==
  ASSUME NEW c \in Nat, NEW u \in Nat \ {0}, NEW b \in Nat \ {0},
         NEW m \in Nat, NEW n \in Nat, m <= n,
         Due(c, u, b, m) = 0 \/ Left(c, u, b, m) = 0
  PROVE  Due(c, u, b, n) = 0
<1> DEFINE w == Down(c, u)
           before == b * m
           all == b * n
<1>1. w \in Nat /\ w <= c
  BY DownIsNat, DownRounds
<1>2. before \in Nat /\ all \in Nat /\ before <= all
  <2>1. m * b <= n * b
    BY MultiplesOrdered
  <2> QED
    BY <2>1
<1>3. /\ Due(c, u, b, m) = IF w - before <= 0 THEN 0
                           ELSE IF w - before < b THEN w - before ELSE b
      /\ Due(c, u, b, n) = IF w - all <= 0 THEN 0 ELSE IF w - all < b THEN w - all ELSE b
      /\ Left(c, u, b, m) = c - (IF before <= w THEN before ELSE w)
  BY DEF Due, Left
<1> HIDE DEF w, before, all
<1>4. w <= before
  BY <1>1, <1>2, <1>3
<1> QED
  BY <1>1, <1>2, <1>3, <1>4

(* Both prices are the exact one rounded away from the market.             *)
LEMMA PriceRounds ==
  ASSUME call \in Calls, Valid, NEW l \in Nat \ {0}
  PROVE  /\ BidPrice(l) = Down(call.best_bid - call.grid_spacing * l, call.tick_size)
         /\ AskPrice(l) = Up(call.best_ask + call.grid_spacing * l, call.tick_size)
<1> DEFINE bid == call.best_bid
           ask == call.best_ask
           tick == call.tick_size
           far == call.grid_spacing * l
<1>1. bid \in Nat /\ ask \in Nat /\ tick \in Nat \ {0} /\ far \in Nat /\ far >= 1
  BY ArgumentTypes, SpacingTimesLevel DEF Valid
<1>2. /\ BidPrice(l) = IF Down(bid - far, tick) >= bid THEN bid - tick ELSE Down(bid - far, tick)
      /\ AskPrice(l) =
           LET below == Down(ask + far, tick)
               target == IF below < ask + far THEN below + tick ELSE below
           IN  IF target <= ask THEN ask + tick ELSE target
  BY DEF BidPrice, AskPrice
<1> SUFFICES /\ BidPrice(l) = Down(bid - far, tick)
             /\ AskPrice(l) = Up(ask + far, tick)
  OBVIOUS
<1> HIDE DEF bid, ask, tick, far
<1>3. bid - far \in Int /\ bid - far < bid /\ ask + far \in Int /\ ask < ask + far
  BY <1>1
<1>4. Down(bid - far, tick) \in Int /\ Down(bid - far, tick) <= bid - far
  BY <1>1, <1>3, DownRounds
<1>5. Up(ask + far, tick) \in Int /\ ask + far <= Up(ask + far, tick)
  BY <1>1, <1>3, UpOrdered
<1>6. BidPrice(l) = Down(bid - far, tick)
  BY <1>1, <1>2, <1>3, <1>4
<1>7. AskPrice(l) = IF Up(ask + far, tick) <= ask THEN ask + tick ELSE Up(ask + far, tick)
  BY <1>2 DEF Up
<1>8. ~(Up(ask + far, tick) <= ask)
  BY <1>1, <1>3, <1>5
<1> QED
  BY <1>6, <1>7, <1>8

(* A later level is never nearer the market than an earlier one.           *)
LEMMA PriceOrdered ==
  ASSUME call \in Calls, Valid, NEW s \in Sides,
         NEW k \in Nat \ {0}, NEW l \in Nat \ {0}, k <= l
  PROVE  /\ Price(s, k) \in Int /\ Price(s, l) \in Int
         /\ Price(s, k) = Price(s, l) \/ Nearer(s, Price(s, k), Price(s, l))
<1> DEFINE bid == call.best_bid
           ask == call.best_ask
           tick == call.tick_size
           near == call.grid_spacing * k
           far == call.grid_spacing * l
<1>1. bid \in Nat /\ ask \in Nat /\ tick \in Nat \ {0} /\ near \in Nat /\ far \in Nat
  BY ArgumentTypes, SpacingTimesLevel DEF Valid
<1>2. near <= far
  <2>1. call.grid_spacing \in Nat \ {0}
    BY ArgumentTypes DEF Valid
  <2>2. k * call.grid_spacing <= l * call.grid_spacing
    BY <2>1, MultiplesOrdered
  <2> QED
    BY <2>1, <2>2
<1>3. Price(s, k) \in Int /\ Price(s, l) \in Int
  BY PriceSound
<1>4. /\ BidPrice(k) = Down(bid - near, tick) /\ AskPrice(k) = Up(ask + near, tick)
      /\ BidPrice(l) = Down(bid - far, tick) /\ AskPrice(l) = Up(ask + far, tick)
  BY PriceRounds
<1> HIDE DEF bid, ask, tick, near, far
<1>5. /\ bid - far \in Int /\ bid - near \in Int /\ bid - far <= bid - near
      /\ ask + far \in Int /\ ask + near \in Int /\ ask + near <= ask + far
  BY <1>1, <1>2
<1>6. BidPrice(l) <= BidPrice(k)
  BY <1>1, <1>4, <1>5, DownOrdered
<1>7. AskPrice(k) <= AskPrice(l)
  BY <1>1, <1>4, <1>5, UpOrdered
<1> QED
  BY <1>3, <1>6, <1>7 DEF Price, Nearer, Sides

(***************************************************************************)
(* The prices of the first n levels, and the invariant: as far as a loop   *)
(* has come, every price has its share and no level has another amount,    *)
(* and what may still be proposed is what the shares have left.            *)
(***************************************************************************)
Passed(s, n) == {p \in {Price(s, l) : l \in 1..n} : p > 0}

LeftOver(s, n) == Left(Capacity(s), call.step_size, BaseSize, Cardinality(Passed(s, n)))

DealtTo(s, n) ==
    /\ \A l \in Proposed(s) : amounts[s][l] = Share(s, Price(s, l))
    /\ \A p \in Passed(s, n) : Share(s, p) > 0 => \E l \in Proposed(s) : Price(s, l) = p

Dealt ==
    /\ side \in Sides =>
          /\ i - 1 <= call.level_count
          /\ DealtTo(side, i - 1)
          /\ allowed = LeftOver(side, i - 1)
    /\ side = "SELL" => DealtTo("BUY", call.level_count)
    /\ side = "done" => IF Valid THEN \A s \in Sides : DealtTo(s, call.level_count)
                                 ELSE amounts = Nothing

(* The reference's ladder is what all the levels pass. *)
LEMMA LadderPassed == \A s : Ladder(s) = Passed(s, call.level_count)
BY DEF Ladder, Passed

(* A number is among the prices passed if it is the price of a level.      *)
LEMMA PassedMember ==
  ASSUME NEW s, NEW n, NEW p
  PROVE  p \in Passed(s, n) <=> p > 0 /\ \E l \in 1..n : p = Price(s, l)
BY DEF Passed

(* The quantities a call works with. *)
LEMMA QuantityTypes ==
  ASSUME call \in Calls, Valid, NEW s \in Sides
  PROVE  /\ call.step_size \in Nat \ {0} /\ BaseSize \in Nat \ {0}
         /\ Capacity(s) \in Nat
         /\ \E k \in Int : BaseSize = k * call.step_size
<1>1. call.step_size \in Nat \ {0} /\ call.base_size \in Nat /\ BaseSize > 0
  BY ArgumentTypes DEF Valid
<1>2. BaseSize \in Nat /\ \E k \in Int : BaseSize = k * call.step_size
  <2>1. Down(call.base_size, call.step_size) \in Nat
    BY <1>1, DownIsNat
  <2>2. call.base_size \in Int
    BY <1>1
  <2>3. \E k \in Int : Down(call.base_size, call.step_size) = k * call.step_size
    BY <1>1, <2>2, DownIsMultiple, Zenon
  <2> QED
    BY <2>1, <2>3 DEF BaseSize
<1>3. Capacity(s) \in Nat
  BY CapacityIsNat
<1> QED
  BY <1>1, <1>2, <1>3

(* Finitely many prices are passed, all of them numbers. *)
LEMMA PassedFinite ==
  ASSUME call \in Calls, Valid, NEW s \in Sides, NEW n \in Nat
  PROVE  /\ IsFiniteSet(Passed(s, n)) /\ Cardinality(Passed(s, n)) \in Nat
         /\ \A p \in Passed(s, n) : p \in Int
<1> DEFINE prices == {Price(s, l) : l \in 1..n}
           priceOf == [l \in 1..n |-> Price(s, l)]
<1>1. IsFiniteSet(1..n)
  BY FS_Interval
<1>2. priceOf \in Surjection(1..n, prices)
  BY DEF Surjection
<1>3. IsFiniteSet(prices)
  BY <1>1, <1>2, FS_Surjection
<1>4. Passed(s, n) \in SUBSET prices
  BY DEF Passed
<1>5. IsFiniteSet(Passed(s, n))
  BY <1>3, <1>4, FS_Subset
<1>6. \A l \in 1..n : l \in Nat \ {0} /\ Price(s, l) \in Int
  BY PriceSound
<1> QED
  BY <1>5, <1>6, FS_CardinalityType DEF Passed

(* One more level adds its price, if it is one. *)
LEMMA PassedNext ==
  ASSUME call \in Calls, Valid, NEW s \in Sides, NEW n \in Nat \ {0}
  PROVE  /\ Price(s, n) > 0 => Passed(s, n) = Passed(s, n - 1) \cup {Price(s, n)}
         /\ ~(Price(s, n) > 0) => Passed(s, n) = Passed(s, n - 1)
         /\ Passed(s, n - 1) \subseteq Passed(s, n)
<1>1. \A l : l \in 1..n <=> l \in 1..n - 1 \/ l = n
  OBVIOUS
<1> QED
  BY <1>1 DEF Passed

(* The prices nearer than that of a level are among those passed before    *)
(* it; and those passed before a level with a price of its own are nearer. *)
LEMMA NearerPassed ==
  ASSUME call \in Calls, Valid, NEW s \in Sides, NEW n \in Nat, NEW l \in Nat,
         n < l, l <= call.level_count, Price(s, l) > 0
  PROVE  LET nearer == {q \in Ladder(s) : Nearer(s, q, Price(s, l))}
         IN  /\ nearer \subseteq Passed(s, l - 1)
             /\ Price(s, l) \notin Passed(s, n) => Passed(s, n) \subseteq nearer
             /\ IsFiniteSet(nearer) /\ Cardinality(nearer) \in Nat
<1> DEFINE nearer == {q \in Ladder(s) : Nearer(s, q, Price(s, l))}
<1>0. call.level_count \in Nat /\ l \in Nat \ {0}
  BY ArgumentTypes, MaxLevelsAssumption
<1>1. ASSUME NEW q \in nearer PROVE q \in Passed(s, l - 1)
  <2>1. q > 0 /\ Nearer(s, q, Price(s, l))
    BY LadderPassed, PassedMember
  <2>2. PICK k \in 1..call.level_count : q = Price(s, k)
    BY LadderPassed, PassedMember
  <2>3. k < l
    <3>1. SUFFICES ASSUME ~(k < l) PROVE FALSE
      OBVIOUS
    <3>2. k \in Nat \ {0} /\ l <= k
      BY <1>0, <3>1
    <3>3. /\ Price(s, l) \in Int /\ Price(s, k) \in Int
          /\ Price(s, l) = Price(s, k) \/ Nearer(s, Price(s, l), Price(s, k))
      BY <1>0, <3>2, PriceOrdered
    <3> QED
      BY <2>1, <2>2, <3>3 DEF Nearer
  <2>4. k \in 1..l - 1
    BY <1>0, <2>3
  <2> QED
    BY <2>1, <2>2, <2>4, PassedMember
<1>2. ASSUME Price(s, l) \notin Passed(s, n), NEW q \in Passed(s, n) PROVE q \in nearer
  <2>1. PICK k \in 1..n : q = Price(s, k) /\ q > 0
    BY PassedMember
  <2>2. k \in Nat \ {0} /\ k <= l /\ k \in 1..call.level_count
    BY <1>0
  <2>3. q \in Ladder(s)
    BY <2>1, <2>2, LadderPassed, PassedMember
  <2>4. q # Price(s, l)
    BY <1>2
  <2>5. Nearer(s, q, Price(s, l))
    BY <1>0, <2>1, <2>2, <2>4, PriceOrdered
  <2> QED
    BY <2>3, <2>5
<1>3. IsFiniteSet(nearer) /\ Cardinality(nearer) \in Nat
  <2>1. IsFiniteSet(Passed(s, l - 1))
    <3>1. l - 1 \in Nat
      BY <1>0
    <3> QED
      BY <3>1, PassedFinite
  <2>2. nearer \in SUBSET Passed(s, l - 1)
    BY <1>1
  <2> QED
    BY <2>1, <2>2, FS_Subset, FS_CardinalityType
<1> QED
  BY <1>1, <1>2, <1>3

(* The share of a price is what is due to it.                              *)
LEMMA ShareIsDue ==
  \A s, p : Share(s, p) = Due(Capacity(s), call.step_size, BaseSize,
                              Cardinality({q \in Ladder(s) : Nearer(s, q, p)}))
BY DEF Share, Due

(* A level with a price of its own takes that price's share; a level whose *)
(* price has no share takes nothing.                                       *)
LEMMA LevelShare ==
  ASSUME call \in Calls, Valid, side \in Sides, i \in Nat \ {0}, i <= call.level_count,
         allowed = LeftOver(side, i - 1), Price(side, i) > 0
  PROVE  /\ Price(side, i) \notin Passed(side, i - 1) =>
               Amount = Share(side, Price(side, i)) /\ LeftOver(side, i) = allowed - Amount
         /\ Share(side, Price(side, i)) = 0 => Amount = 0
<1> DEFINE p == Price(side, i)
           before == Passed(side, i - 1)
           m == Cardinality(before)
           nearer == {q \in Ladder(side) : Nearer(side, q, p)}
           c == Capacity(side)
           u == call.step_size
           b == BaseSize
<1>1. i - 1 \in Nat /\ i - 1 < i /\ i \in Nat
  OBVIOUS
<1>2. c \in Nat /\ u \in Nat \ {0} /\ b \in Nat \ {0} /\ \E k \in Int : b = k * u
  BY QuantityTypes
<1>3. /\ nearer \subseteq before /\ IsFiniteSet(before) /\ m \in Nat
      /\ p \notin before => before \subseteq nearer
      /\ Cardinality(nearer) \in Nat
  <2>1. IsFiniteSet(before) /\ m \in Nat
    BY <1>1, PassedFinite
  <2> QED
    BY <1>1, <2>1, NearerPassed
<1>4. /\ Amount = Due(c, u, b, m)
      /\ Left(c, u, b, m + 1) = allowed - Amount
  <2>1. allowed = Left(c, u, b, m)
    BY DEF LeftOver
  <2>2. Amount = Down(IF b <= allowed THEN b ELSE allowed, u)
    BY DEF Amount
  <2> HIDE DEF c, u, b, m
  <2> QED
    <3>1. LET left == Left(c, u, b, m)
              cut == Down(IF b <= left THEN b ELSE left, u)
          IN  left \in Nat /\ cut = Due(c, u, b, m) /\ Left(c, u, b, m + 1) = left - cut
      BY ONLY <1>2, <1>3, CutIsDue
    <3> QED
      BY <2>1, <2>2, <3>1
<1>5. Share(side, p) = Due(c, u, b, Cardinality(nearer))
  BY ShareIsDue
<1>6. ASSUME p \notin before
      PROVE  Amount = Share(side, p) /\ LeftOver(side, i) = allowed - Amount
  <2>1. nearer = before
    BY <1>3, <1>6
  <2>2. Passed(side, i) = before \cup {p}
    BY PassedNext
  <2>3. Cardinality(Passed(side, i)) = m + 1
    <3>1. IsFiniteSet(before) /\ p \notin before
      BY <1>3, <1>6
    <3>2. Cardinality(before \cup {p}) = m + 1
      BY ONLY <3>1, FS_AddElement
    <3> QED
      BY <2>2, <3>2
  <2>4. LeftOver(side, i) = Left(c, u, b, m + 1)
    BY <2>3 DEF LeftOver
  <2> QED
    BY <1>4, <1>5, <2>1, <2>4
<1>7. ASSUME Share(side, p) = 0 PROVE Amount = 0
  <2>1. nearer \in SUBSET before
    BY <1>3
  <2>2. Cardinality(nearer) <= m
    BY <1>3, <2>1, FS_Subset
  <2>3. PICK n \in Nat : n = Cardinality(nearer)
    BY <1>3
  <2> HIDE DEF c, u, b, m, nearer
  <2> QED
    BY <1>2, <1>3, <1>4, <1>5, <1>7, <2>2, <2>3, NothingDue
<1> QED
  BY <1>6, <1>7

(* When nothing is left, no price further out has a share.                 *)
LEMMA NothingLeft ==
  ASSUME call \in Calls, Valid, NEW s \in Sides, NEW n \in Nat, n <= call.level_count,
         LeftOver(s, n) = 0, NEW p \in Passed(s, call.level_count), p \notin Passed(s, n)
  PROVE  Share(s, p) = 0
<1>2. PICK l \in 1..call.level_count : p = Price(s, l) /\ p > 0
  BY PassedMember
<1>3. call.level_count \in Nat /\ l \in Nat /\ n < l /\ l <= call.level_count
  <2>1. call.level_count \in Nat
    BY ArgumentTypes, MaxLevelsAssumption
  <2>2. ~(l \in 1..n)
    BY <1>2, PassedMember
  <2> QED
    BY <2>1, <2>2
<1> DEFINE m == Cardinality(Passed(s, n))
           nearer == {q \in Ladder(s) : Nearer(s, q, p)}
           c == Capacity(s)
           u == call.step_size
           b == BaseSize
<1>4. Passed(s, n) \in SUBSET nearer /\ IsFiniteSet(nearer) /\ Cardinality(nearer) \in Nat
  BY <1>2, <1>3, NearerPassed
<1>5. m \in Nat /\ m <= Cardinality(nearer)
  BY <1>4, PassedFinite, FS_Subset
<1>6. c \in Nat /\ u \in Nat \ {0} /\ b \in Nat \ {0}
  BY QuantityTypes
<1>7. Left(c, u, b, m) = 0 /\ Share(s, p) = Due(c, u, b, Cardinality(nearer))
  BY ShareIsDue DEF LeftOver
<1> HIDE DEF c, u, b, m, nearer
<1> QED
  BY <1>4, <1>5, <1>6, <1>7, NothingDue

(* What a side is due does not change while the arguments do not.          *)
LEMMA SameDue ==
  ASSUME call' = call
  PROVE  /\ Valid' = Valid
         /\ \A s, p : Share(s, p)' = Share(s, p)
         /\ \A s, n : Passed(s, n)' = Passed(s, n) /\ LeftOver(s, n)' = LeftOver(s, n)
         /\ \A s : Capacity(s)' = Capacity(s)
         /\ \A s, l : Price(s, l)' = Price(s, l)
<1>1. \A s, l : Price(s, l)' = Price(s, l)
  BY DEF Price, BidPrice, AskPrice
<1>2. Valid' = Valid /\ BaseSize' = BaseSize
  BY DEF Valid, BaseSize
<1>3. \A s : Capacity(s)' = Capacity(s)
  BY DEF Capacity, Room, Target, RiskReducingOnly
<1>4. ASSUME NEW s, NEW n PROVE Passed(s, n)' = Passed(s, n)
  BY <1>1 DEF Passed
<1>5. ASSUME NEW s, NEW n PROVE LeftOver(s, n)' = LeftOver(s, n)
  BY <1>2, <1>3, <1>4 DEF LeftOver
<1>6. ASSUME NEW s, NEW p PROVE Share(s, p)' = Share(s, p)
  <2>1. Ladder(s)' = Ladder(s)
    BY <1>1 DEF Ladder
  <2>2. {q \in Ladder(s) : Nearer(s, q, p)}' = {q \in Ladder(s) : Nearer(s, q, p)}
    BY <2>1 DEF Nearer
  <2> QED
    BY <1>2, <1>3, <2>2 DEF Share
<1> QED
  BY <1>1, <1>2, <1>3, <1>4, <1>5, <1>6

(* Nor does what it has been dealt while its amounts do not.              *)
LEMMA SameDealt ==
  ASSUME call' = call, NEW s, NEW n, amounts'[s] = amounts[s]
  PROVE  DealtTo(s, n)' = DealtTo(s, n)
<1>1. Proposed(s)' = Proposed(s)
  BY DEF Proposed
<1>2. Passed(s, n)' = Passed(s, n)
  BY SameDue
<1>3. \A p : Share(s, p)' = Share(s, p)
  BY SameDue
<1>4. \A l : Price(s, l)' = Price(s, l)
  BY SameDue
<1> QED
  BY <1>1, <1>2, <1>3, <1>4 DEF DealtTo

(* A loop starts with nothing dealt and the whole capacity left.           *)
LEMMA SideStarts ==
  ASSUME call \in Calls, Valid, NEW s \in Sides, Untouched(s)
  PROVE  DealtTo(s, 0) /\ LeftOver(s, 0) = Capacity(s)
<1>1. Proposed(s) = {} /\ Passed(s, 0) = {}
  BY DEF Proposed, Untouched, Passed
<1>2. Cardinality({}) = 0
  BY FS_EmptySet
<1>3. Capacity(s) \in Nat /\ call.step_size \in Nat \ {0} /\ BaseSize \in Nat \ {0}
  BY QuantityTypes
<1>4. LeftOver(s, 0) = Capacity(s)
  <2>1. Down(Capacity(s), call.step_size) \in Nat /\ BaseSize * 0 = 0
    BY <1>3, DownIsNat
  <2>2. LeftOver(s, 0) = Left(Capacity(s), call.step_size, BaseSize, 0)
    BY <1>1, <1>2 DEF LeftOver
  <2>3. LeftOver(s, 0) = Capacity(s) - 0
    BY <2>1, <2>2 DEF Left
  <2> QED
    BY <1>3, <2>3
<1> QED
  BY <1>1, <1>4 DEF DealtTo

(* A level the loop passes over changes nothing that is due.               *)
LEMMA SkippedLevel ==
  ASSUME TypeOK, Valid, side \in Sides, i <= call.level_count, ~Open(i),
         DealtTo(side, i - 1), allowed = LeftOver(side, i - 1)
  PROVE  DealtTo(side, i) /\ allowed = LeftOver(side, i)
<1>1. i \in Nat \ {0} /\ call \in Calls /\ allowed \in Nat
  BY MaxLevelsAssumption DEF TypeOK
<1>2. CASE ~(Price(side, i) > 0) \/ Price(side, i) \in Passed(side, i - 1)
  <2>1. Passed(side, i) = Passed(side, i - 1)
    BY <1>1, <1>2, PassedNext
  <2> QED
    BY <2>1 DEF DealtTo, LeftOver
<1>3. CASE Price(side, i) > 0 /\ Price(side, i) \notin Passed(side, i - 1)
  <2>1. ~Seen(i)
    BY <1>3, PassedMember DEF Seen
  <2>2. Amount = 0
    <3>1. Amount \in Nat
      BY <1>1, AmountIsNat
    <3> QED
      BY <1>3, <2>1, <3>1 DEF Open
  <2>3. Share(side, Price(side, i)) = 0 /\ LeftOver(side, i) = allowed
    BY <1>1, <1>3, <2>2, LevelShare
  <2>4. Passed(side, i) = Passed(side, i - 1) \cup {Price(side, i)}
    BY <1>1, <1>3, PassedNext
  <2> QED
    BY <2>3, <2>4 DEF DealtTo
<1> QED
  BY <1>2, <1>3

(* A price's share is a quantity.                                          *)
LEMMA ShareIsNat ==
  ASSUME call \in Calls, Valid, NEW s \in Sides, NEW l \in Nat \ {0}, l <= call.level_count,
         Price(s, l) > 0
  PROVE  Share(s, Price(s, l)) \in Nat
<1> DEFINE nearer == {q \in Ladder(s) : Nearer(s, q, Price(s, l))}
           w == Down(Capacity(s), call.step_size)
           all == BaseSize * Cardinality(nearer)
<1>1. 0 \in Nat /\ 0 < l /\ l \in Nat
  OBVIOUS
<1>2. Cardinality(nearer) \in Nat
  BY <1>1, NearerPassed
<1>3. BaseSize \in Nat /\ w \in Nat
  BY QuantityTypes, DownIsNat
<1>4. all \in Nat
  BY <1>2, <1>3
<1>5. Share(s, Price(s, l)) = IF w - all <= 0 THEN 0
                             ELSE IF w - all < BaseSize THEN w - all ELSE BaseSize
  BY ShareIsDue DEF Due
<1> HIDE DEF w, all
<1> QED
  BY <1>3, <1>4, <1>5

(* A proposal gives a price of its own its share.                          *)
LEMMA ProposedLevel ==
  ASSUME Inductive, Dealt, Propose, NEW s, s = side, NEW n, n = i
  PROVE  /\ DealtTo(s, n)'
         /\ LeftOver(side, i) = allowed - Amount
<1>1. /\ TypeOK /\ Valid /\ side \in Sides /\ i <= call.level_count /\ Open(i)
      /\ call \in Calls /\ i \in Nat \ {0} /\ allowed = LeftOver(side, i - 1)
      /\ DealtTo(side, i - 1)
  BY MaxLevelsAssumption DEF Inductive, Accounted, Dealt, Propose, TypeOK
<1>2. /\ i \in 1..MaxLevels /\ call' = call
      /\ amounts' = [amounts EXCEPT ![side][i] = Amount] /\ Amount \in Nat
  BY Proposal
<1>3. Price(side, i) > 0 /\ Amount > 0 /\ ~Seen(i)
  BY <1>1 DEF Open
<1>4. Price(side, i) \notin Passed(side, i - 1)
  <2> SUFFICES ASSUME Price(side, i) \in Passed(side, i - 1) PROVE FALSE
    OBVIOUS
  <2>1. CASE \E l \in Proposed(side) : Price(side, l) = Price(side, i)
    <3>1. PICK l \in Proposed(side) : Price(side, l) = Price(side, i)
      BY <2>1
    <3>2. l \in 1..MaxLevels /\ amounts[side][l] > 0
      BY DEF Proposed
    <3>3. \A k \in i..MaxLevels : amounts[side][k] = 0
      BY <1>1 DEF Inductive, Accounted
    <3>4. l \in 1..i - 1
      BY <1>1, <3>2, <3>3, MaxLevelsAssumption
    <3> QED
      BY <1>3, <3>1, <3>2, <3>4 DEF Seen
  <2>2. CASE ~(\E l \in Proposed(side) : Price(side, l) = Price(side, i))
    <3>1. ~(Share(side, Price(side, i)) > 0)
      BY <1>1, <2>2 DEF DealtTo
    <3>2. Share(side, Price(side, i)) = 0
      BY <1>1, <1>3, <3>1, ShareIsNat
    <3> QED
      BY <1>1, <1>3, <3>2, LevelShare
  <2> QED
    BY <2>1, <2>2
<1>5. Amount = Share(side, Price(side, i)) /\ LeftOver(side, i) = allowed - Amount
  BY <1>1, <1>3, <1>4, LevelShare
<1>6. Passed(side, i) = Passed(side, i - 1) \cup {Price(side, i)}
  BY <1>1, <1>3, PassedNext
<1>7. \A l \in 1..MaxLevels :
        amounts'[s][l] = IF l = n THEN Amount ELSE amounts[s][l]
  BY <1>1, <1>2 DEF TypeOK
<1>8. Proposed(s)' = Proposed(s) \cup {n}
  <2>1. Proposed(s)' = {l \in 1..MaxLevels : amounts'[s][l] > 0}
    BY DEF Proposed
  <2> QED
    BY <1>2, <1>3, <1>7, <2>1 DEF Proposed
<1>9. \A l \in Proposed(s)' : amounts'[s][l] = Share(s, Price(s, l))
  <2>1. \A l \in Proposed(s) : amounts[s][l] = Share(s, Price(s, l)) /\ l \in 1..MaxLevels
    BY <1>1 DEF DealtTo, Proposed
  <2> QED
    BY <1>2, <1>5, <1>7, <1>8, <2>1
<1>10. \A p \in Passed(s, n) :
        Share(s, p) > 0 => \E l \in Proposed(s)' : Price(s, l) = p
  BY <1>1, <1>6, <1>8 DEF DealtTo
<1>11. \A x, p : Share(x, p)' = Share(x, p)
  BY <1>2, SameDue
<1>12. \A x, l : Price(x, l)' = Price(x, l)
  BY <1>2, SameDue
<1>13. \A x, l : Passed(x, l)' = Passed(x, l)
  BY <1>2, SameDue
<1> QED
  BY <1>5, <1>9, <1>10, <1>11, <1>12, <1>13 DEF DealtTo

(* The other loop starts with its own capacity, or both are done.          *)
LEMMA EndSideDealt ==
  ASSUME Inductive, Inductive', Dealt, side \in Sides, EndSide,
         \A s \in Sides \ {side} : amounts'[s] = amounts[s],
         \A s : s = side => DealtTo(s, call.level_count)'
  PROVE  Dealt'
<1>1. /\ TypeOK /\ Valid /\ call' = call /\ i' = 1 /\ call \in Calls
      /\ side' = IF side = "BUY" THEN "SELL" ELSE "done"
      /\ allowed' = IF side = "BUY" THEN Capacity("SELL") ELSE 0
      /\ side = "BUY" => Untouched("SELL")
  BY DEF Inductive, Accounted, EndSide, TypeOK
<1>2. /\ Valid' /\ \A s, n : LeftOver(s, n)' = LeftOver(s, n)
      /\ call'.level_count = call.level_count /\ call.level_count \in Nat
  BY <1>1, SameDue, ArgumentTypes, MaxLevelsAssumption
<1>3. CASE side = "BUY"
  <2>1. side' = "SELL" /\ i' - 1 = 0
    BY <1>1, <1>3
  <2>2. DealtTo("SELL", 0) /\ LeftOver("SELL", 0) = Capacity("SELL")
    BY <1>1, <1>3, SideStarts DEF Sides
  <2>3. DealtTo("SELL", 0)'
    <3>1. amounts'["SELL"] = amounts["SELL"]
      BY <1>3 DEF Sides
    <3> QED
      BY <1>1, <2>2, <3>1, SameDealt
  <2>4. DealtTo("BUY", call.level_count)'
    BY <1>3
  <2>5. DealtTo(side, i - 1)'
    BY <2>1, <2>3
  <2>6. allowed' = LeftOver(side, i - 1)'
    <3>1. LeftOver("SELL", 0)' = LeftOver("SELL", 0)
      BY <1>2
    <3>2. LeftOver(side, i - 1)' = LeftOver("SELL", 0)'
      BY <2>1
    <3> QED
      BY <1>1, <1>3, <2>2, <3>1, <3>2
  <2> QED
    BY <1>2, <2>1, <2>4, <2>5, <2>6 DEF Dealt
<1>4. CASE side = "SELL"
  <2>1. side' = "done"
    BY <1>1, <1>4
  <2>2. DealtTo("SELL", call.level_count)'
    BY <1>4
  <2>3. DealtTo("BUY", call.level_count)'
    <3>1. DealtTo("BUY", call.level_count) /\ amounts'["BUY"] = amounts["BUY"]
      BY <1>4 DEF Dealt, Sides
    <3>2. \A n : DealtTo("BUY", n)' = DealtTo("BUY", n)
      BY <1>1, <3>1, SameDealt
    <3>3. PICK n : n = call.level_count
      OBVIOUS
    <3>4. DealtTo("BUY", n)'
      BY <3>1, <3>2, <3>3
    <3> QED
      BY <1>2, <3>3, <3>4
  <2> QED
    BY <1>2, <2>1, <2>2, <2>3 DEF Dealt, Sides
<1> QED
  BY <1>3, <1>4 DEF Sides

(* The first loop starts with nothing dealt; a call that is refused        *)
(* proposes nothing.                                                       *)
LEMMA GenerateDealt == Inductive /\ Dealt /\ Generate => Dealt'
<1> SUFFICES ASSUME Inductive, Dealt, Generate PROVE Dealt'
  OBVIOUS
<1>1. /\ TypeOK /\ side = "none" /\ call' = call /\ amounts' = amounts /\ i' = i /\ i = 1
      /\ IF Valid THEN side' = "BUY" /\ allowed' = Capacity("BUY")
                  ELSE side' = "done" /\ allowed' = allowed
      /\ call \in Calls /\ Untouched("BUY") /\ Untouched("SELL")
  BY DEF Inductive, Accounted, Generate, TypeOK
<1>2. /\ Valid' = Valid /\ LeftOver("BUY", 0)' = LeftOver("BUY", 0)
      /\ call'.level_count = call.level_count /\ call.level_count \in Nat
  BY <1>1, SameDue, ArgumentTypes, MaxLevelsAssumption
<1>3. CASE Valid
  <2>1. side' = "BUY" /\ i' - 1 = 0
    BY <1>1, <1>3
  <2>2. DealtTo("BUY", 0) /\ LeftOver("BUY", 0) = Capacity("BUY")
    BY <1>1, <1>3, SideStarts DEF Sides
  <2>3. DealtTo("BUY", 0)'
    BY <1>1, <2>2, SameDealt
  <2>4. DealtTo(side, i - 1)'
    BY <2>1, <2>3
  <2>5. allowed' = LeftOver(side, i - 1)'
    <3>1. LeftOver(side, i - 1)' = LeftOver("BUY", 0)'
      BY <2>1
    <3> QED
      BY <1>1, <1>2, <1>3, <2>2, <3>1
  <2> QED
    BY <1>2, <2>1, <2>4, <2>5 DEF Dealt
<1>4. CASE ~Valid
  <2>1. \A s \in Sides : amounts[s] \in [1..MaxLevels -> Nat] /\ Untouched(s)
    BY <1>1 DEF TypeOK, Sides
  <2>2. amounts = Nothing
    BY <1>1, <2>1 DEF TypeOK, Nothing, Untouched
  <2>3. side' = "done" /\ ~Valid' /\ (amounts = Nothing)'
    BY <1>1, <1>2, <1>4, <2>2 DEF Nothing
  <2> QED
    BY <2>3 DEF Dealt, Sides
<1> QED
  BY <1>3, <1>4

(* A level passed over leaves every price with its share.                  *)
LEMMA SkipDealt == Inductive /\ Dealt /\ Skip => Dealt'
<1> SUFFICES ASSUME Inductive, Dealt, Skip PROVE Dealt'
  OBVIOUS
<1>1. /\ TypeOK /\ Valid /\ side \in Sides /\ i <= call.level_count /\ i' = i + 1 /\ ~Open(i)
      /\ call' = call /\ side' = side /\ allowed' = allowed /\ amounts' = amounts
      /\ DealtTo(side, i - 1) /\ allowed = LeftOver(side, i - 1)
      /\ side = "SELL" => DealtTo("BUY", call.level_count)
  BY DEF Inductive, Accounted, Dealt, Skip
<1>2. i \in Nat /\ call.level_count \in Nat /\ i' - 1 = i
  BY <1>1, ArgumentTypes, MaxLevelsAssumption DEF TypeOK
<1>3. DealtTo(side, i) /\ allowed = LeftOver(side, i)
  BY <1>1, SkippedLevel
<1>4. PICK s \in Sides, n \in Nat, k \in Nat : s = side /\ n = i /\ k = call.level_count
  BY <1>1, <1>2
<1>5. \A x, m : DealtTo(x, m)' = DealtTo(x, m) /\ LeftOver(x, m)' = LeftOver(x, m)
  BY <1>1, SameDealt, SameDue
<1>6. DealtTo(s, n)' /\ allowed' = LeftOver(s, n)' /\ (s = "SELL" => DealtTo("BUY", k)')
  BY <1>1, <1>3, <1>4, <1>5
<1>7. DealtTo(side, i - 1)' /\ allowed' = LeftOver(side, i - 1)'
  <2>1. side' = s /\ i' - 1 = n
    BY <1>1, <1>2, <1>4
  <2> QED
    BY <1>6, <2>1
<1>8. side' = "SELL" => DealtTo("BUY", call.level_count)'
  <2>1. call'.level_count = k
    BY <1>1, <1>4
  <2> QED
    BY <1>1, <1>4, <1>6, <2>1
<1>9. i' - 1 <= call'.level_count
  BY <1>1, <1>2
<1> QED
  BY <1>1, <1>7, <1>8, <1>9 DEF Dealt, Sides

(* After the last level the whole ladder has been dealt to.                *)
LEMMA LastLevelDealt == Inductive /\ Inductive' /\ Dealt /\ LastLevel => Dealt'
<1> SUFFICES ASSUME Inductive, Inductive', Dealt, LastLevel PROVE Dealt'
  OBVIOUS
<1>1. /\ TypeOK /\ side \in Sides /\ ~(i <= call.level_count) /\ EndSide /\ amounts' = amounts
      /\ call' = call /\ i - 1 <= call.level_count /\ DealtTo(side, i - 1)
  BY ArgumentTypes, MaxLevelsAssumption DEF Inductive, Dealt, LastLevel, EndSide, TypeOK
<1>2. i - 1 = call.level_count
  BY <1>1, ArgumentTypes, MaxLevelsAssumption DEF TypeOK
<1>3. PICK s \in Sides, k \in {call.level_count} : s = side
  BY <1>1
<1>4. DealtTo(s, k)'
  BY <1>1, <1>2, <1>3, SameDealt
<1>5. \A x : x = side => DealtTo(x, call.level_count)'
  <2>1. call'.level_count = k
    BY <1>1, <1>3
  <2> QED
    BY <1>3, <1>4, <2>1
<1> QED
  BY <1>1, <1>5, EndSideDealt

(* A proposal goes on with what is left, or ends the loop with nothing left. *)
LEMMA ProposeDealt == Inductive /\ Inductive' /\ Dealt /\ Propose => Dealt'
<1> SUFFICES ASSUME Inductive, Inductive', Dealt, Propose PROVE Dealt'
  OBVIOUS
<1>1. /\ TypeOK /\ Valid /\ side \in Sides /\ call \in Calls /\ i \in Nat /\ i <= call.level_count
      /\ allowed \in Nat
      /\ side = "SELL" => DealtTo("BUY", call.level_count)
  BY MaxLevelsAssumption DEF Inductive, Accounted, Dealt, Propose, TypeOK
<1>2. /\ i \in 1..MaxLevels /\ call' = call /\ Amount \in Nat /\ Amount <= allowed
      /\ amounts' = [amounts EXCEPT ![side][i] = Amount]
  BY Proposal
<1>3. \A s \in Sides \ {side} : amounts'[s] = amounts[s]
  BY <1>1, <1>2 DEF TypeOK
<1>4. PICK s \in Sides, n \in Nat, k \in Nat : s = side /\ n = i /\ k = call.level_count
  BY <1>1, ArgumentTypes, MaxLevelsAssumption
<1>5. DealtTo(s, n)' /\ LeftOver(s, n) = allowed - Amount
  BY <1>4, ProposedLevel
<1>6. call'.level_count = k /\ LeftOver(s, n)' = LeftOver(s, n)
  BY <1>2, <1>4, SameDue
<1>7. CASE Amount < allowed
  <2>1. side' = s /\ i' = n + 1 /\ i' - 1 = n /\ allowed' = allowed - Amount
    BY <1>4, <1>7 DEF Propose
  <2>2. DealtTo(side, i - 1)' /\ allowed' = LeftOver(side, i - 1)'
    BY <1>5, <1>6, <2>1
  <2>3. side' = "SELL" => DealtTo("BUY", call.level_count)'
    <3> SUFFICES ASSUME s = "SELL" PROVE DealtTo("BUY", call.level_count)'
      BY <2>1
    <3>1. DealtTo("BUY", k) /\ amounts'["BUY"] = amounts["BUY"]
      BY <1>1, <1>3, <1>4 DEF Sides
    <3>2. \A m : DealtTo("BUY", m)' = DealtTo("BUY", m)
      BY <1>2, <3>1, SameDealt
    <3>3. DealtTo("BUY", k)'
      BY <3>1, <3>2
    <3> QED
      BY <1>6, <3>3
  <2>4. i' - 1 <= call'.level_count
    BY <1>1, <1>4, <1>6, <2>1
  <2> QED
    BY <1>4, <2>1, <2>2, <2>3, <2>4 DEF Dealt, Sides
<1>8. CASE ~(Amount < allowed)
  <2>1. EndSide
    BY <1>8 DEF Propose
  <2>2. LeftOver(s, n) = 0
    BY <1>1, <1>2, <1>5, <1>8
  <2>3. DealtTo(s, k)'
    <3>1. \A p \in Passed(s, k) \ Passed(s, n) : Share(s, p) = 0
      BY <1>1, <1>4, <2>2, NothingLeft
    <3>2. \A p \in Passed(s, k)' \ Passed(s, n)' : ~(Share(s, p)' > 0)
      <4>1. \A p : Share(s, p)' = Share(s, p)
        BY <1>2, SameDue
      <4>2. Passed(s, k)' = Passed(s, k) /\ Passed(s, n)' = Passed(s, n)
        BY <1>2, SameDue
      <4> QED
        BY <3>1, <4>1, <4>2
    <3> QED
      BY <1>5, <3>2 DEF DealtTo
  <2>4. \A x : x = side => DealtTo(x, call.level_count)'
    BY <1>4, <1>6, <2>3
  <2> QED
    BY <1>1, <1>3, <2>1, <2>4, EndSideDealt
<1> QED
  BY <1>7, <1>8

(* No step breaks it. *)
LEMMA DealtStep == Inductive /\ Inductive' /\ Dealt /\ [Next]_vars => Dealt'
<1> SUFFICES ASSUME Inductive, Inductive', Dealt, [Next]_vars PROVE Dealt'
  OBVIOUS
<1>1. CASE Generate
  BY <1>1, GenerateDealt
<1>2. CASE Skip
  BY <1>2, SkipDealt
<1>3. CASE Propose
  BY <1>3, ProposeDealt
<1>4. CASE LastLevel
  BY <1>4, LastLevelDealt
<1>5. CASE UNCHANGED vars
  <2>1. call' = call /\ side' = side /\ i' = i /\ allowed' = allowed /\ amounts' = amounts
    BY <1>5 DEF vars
  <2>2. \A s, n : DealtTo(s, n)' = DealtTo(s, n) /\ LeftOver(s, n)' = LeftOver(s, n)
    BY <2>1, SameDealt, SameDue
  <2>3. Valid' = Valid
    BY <2>1, SameDue
  <2>4. PICK s, n, k : s = side /\ n = i - 1 /\ k = call.level_count
    OBVIOUS
  <2>5. side' = s /\ i' - 1 = n /\ call'.level_count = k
    BY <2>1, <2>4
  <2>6. /\ s \in Sides => n <= k /\ DealtTo(s, n)' /\ allowed' = LeftOver(s, n)'
        /\ s = "SELL" => DealtTo("BUY", k)'
        /\ s = "done" => IF Valid THEN \A x \in Sides : DealtTo(x, k)' ELSE amounts = Nothing
    BY <2>1, <2>2, <2>4 DEF Dealt
  <2> QED
    BY <2>1, <2>3, <2>5, <2>6 DEF Dealt, Nothing
<1> QED
  BY <1>1, <1>2, <1>3, <1>4, <1>5 DEF Next

(***************************************************************************)
(* Theorems                                                                *)
(***************************************************************************)
(* The invariant holds at every point of every call. *)
THEOREM StrategyInductive == Spec => []Inductive
<1> QED
  BY InductiveInit, InductiveStep, PTL DEF Spec

(* What is left to propose stays a natural number: cutting to it and       *)
(* rounding down (lines 95-96, 120-121) never take more than there is.     *)
THEOREM StrategyTypeCorrect == Spec => []TypeOK
<1>1. Inductive => TypeOK
  BY DEF Inductive
<1> QED
  BY <1>1, StrategyInductive, PTL

(* The orders proposed for a side never add up to more than its room in    *)
(* the inventory (lines 67-75).                                            *)
THEOREM StrategyWithinInventory == Spec => []WithinInventory
<1>1. Inductive => WithinInventory
  BY DEF Inductive
<1> QED
  BY <1>1, StrategyInductive, PTL

(* Every price proposed is positive, on a tick, on its own side of the     *)
(* market and proposed once (lines 82-93, 107-118).                        *)
THEOREM StrategyPricesSound == Spec => []PricesSound
<1>1. Inductive => PricesSound
  BY DEF Inductive
<1> QED
  BY <1>1, StrategyInductive, PTL

(* Each side deals its whole steps out to the distinct prices, nearest     *)
(* first and a base size at most each, and a call that is refused proposes *)
(* nothing (lines 37-127).                                                 *)
THEOREM StrategyDealtOut == Spec => []DealtOut
<1>1. Init => Dealt
  BY DEF Init, Dealt, Sides
<1>2. Dealt => DealtOut
  <2> SUFFICES ASSUME Dealt PROVE DealtOut
    OBVIOUS
  <2> QED
    BY LadderPassed DEF Dealt, DealtTo, DealtOut
<1>3. Inductive /\ [Next]_vars => Inductive'
  BY InductiveStep
<1>4. Inductive /\ Inductive' /\ Dealt /\ [Next]_vars => Dealt'
  BY DealtStep
<1> QED
  BY <1>1, <1>2, <1>3, <1>4, InductiveInit, PTL DEF Spec
=============================================================================
