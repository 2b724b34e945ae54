--------------------------- MODULE RiskUnitsProofs ---------------------------
(***************************************************************************)
(* What Total computes, for every finite table of natural numbers: the     *)
(* facts about sums that the proofs of the ledger's invariants rest on.    *)
(***************************************************************************)
EXTENDS RiskUnits, FiniteSetTheorems, TLAPS

(* An owner contributes as many units as its amount says. *)
LEMMA UnitsOfOwner ==
  ASSUME NEW x, NEW n \in Nat
  PROVE  IsFiniteSet(UnitsOf(x, n)) /\ Cardinality(UnitsOf(x, n)) = n
<1>1. IsFiniteSet({x}) /\ Cardinality({x}) = 1
  BY FS_Singleton
<1>2. IsFiniteSet(1..n) /\ Cardinality(1..n) = n
  BY FS_Interval
<1>3. IsFiniteSet({x} \X (1..n)) /\ Cardinality({x} \X (1..n)) = 1 * n
  BY <1>1, <1>2, FS_Product
<1> QED
  BY <1>3 DEF UnitsOf

(* A unit belongs to a table exactly if it is among its owner's units. *)
LEMMA UnitsMembership ==
  ASSUME NEW S, NEW f \in [S -> Nat], NEW u
  PROVE  u \in Units(f) <=> \E x \in S : u \in UnitsOf(x, f[x])
BY DEF Units

(* A finite table holds finitely many units, so its sum is a natural number. *)
LEMMA TotalIsNat ==
  ASSUME NEW S, IsFiniteSet(S), NEW f \in [S -> Nat]
  PROVE  IsFiniteSet(Units(f)) /\ Total(f) \in Nat
<1> DEFINE Blocks == {UnitsOf(x, f[x]) : x \in S}
           Block == [x \in S |-> UnitsOf(x, f[x])]
<1>1. Block \in Surjection(S, Blocks)
  BY DEF Surjection
<1>2. IsFiniteSet(Blocks)
  BY <1>1, FS_Surjection
<1>3. \A B \in Blocks : IsFiniteSet(B)
  BY UnitsOfOwner
<1>4. IsFiniteSet(UNION Blocks)
  BY <1>2, <1>3, FS_UNION
<1>5. Units(f) = UNION Blocks
  BY DEF Units
<1> QED
  BY <1>4, <1>5, FS_CardinalityType DEF Total

(* Splitting a table between two owners' groups splits its sum. *)
LEMMA TotalSplit ==
  ASSUME NEW S, IsFiniteSet(S),
         NEW f \in [S -> Nat], NEW g \in [S -> Nat], NEW h \in [S -> Nat],
         \A x \in S : \/ g[x] = f[x] /\ h[x] = 0
                      \/ g[x] = 0 /\ h[x] = f[x]
  PROVE  Total(f) = Total(g) + Total(h)
<1>1. \A x : UnitsOf(x, 0) = {}
  BY DEF UnitsOf
<1>2. Units(f) = Units(g) \cup Units(h)
  <2>1. ASSUME NEW u \in Units(f) PROVE u \in Units(g) \cup Units(h)
    <3>1. PICK x \in S : u \in UnitsOf(x, f[x])
      BY <2>1, UnitsMembership
    <3>2. u \in UnitsOf(x, g[x]) \/ u \in UnitsOf(x, h[x])
      BY <3>1
    <3> QED
      BY <3>2, UnitsMembership
  <2>2. ASSUME NEW u \in Units(g) \cup Units(h) PROVE u \in Units(f)
    <3>1. PICK x \in S : u \in UnitsOf(x, g[x]) \/ u \in UnitsOf(x, h[x])
      BY <2>2, UnitsMembership
    <3>2. u \in UnitsOf(x, f[x])
      BY <3>1, <1>1
    <3> QED
      BY <3>2, UnitsMembership
  <2> QED
    BY <2>1, <2>2
<1>3. Units(g) \cap Units(h) = {}
  <2>1. SUFFICES ASSUME NEW u, u \in Units(g), u \in Units(h) PROVE FALSE
    OBVIOUS
  <2>2. PICK x \in S : u \in UnitsOf(x, g[x])
    BY <2>1, UnitsMembership
  <2>3. PICK y \in S : u \in UnitsOf(y, h[y])
    BY <2>1, UnitsMembership
  <2>4. x = y
    BY <2>2, <2>3 DEF UnitsOf
  <2> QED
    BY <2>2, <2>3, <2>4, <1>1
<1>4. /\ IsFiniteSet(Units(g)) /\ IsFiniteSet(Units(h))
      /\ Total(g) \in Nat /\ Total(h) \in Nat
  BY TotalIsNat
<1>5. Cardinality(Units(f)) =
        Cardinality(Units(g)) + Cardinality(Units(h)) - Cardinality({})
  BY <1>2, <1>3, <1>4, FS_Union
<1>6. Cardinality({}) = 0
  BY FS_EmptySet
<1> QED
  BY <1>4, <1>5, <1>6 DEF Total

(* A table of zeros sums to zero. *)
LEMMA TotalOfZeros ==
  ASSUME NEW S, NEW f \in [S -> Nat], \A x \in S : f[x] = 0
  PROVE  Total(f) = 0
<1>1. \A x : UnitsOf(x, 0) = {}
  BY DEF UnitsOf
<1>2. Units(f) = {}
  BY <1>1 DEF Units
<1> QED
  BY <1>2, FS_EmptySet DEF Total

(* A table with one owner sums to that owner's amount. *)
LEMMA TotalOfOne ==
  ASSUME NEW S, NEW x \in S, NEW f \in [S -> Nat],
         \A y \in S \ {x} : f[y] = 0
  PROVE  Total(f) = f[x]
<1>1. \A y : UnitsOf(y, 0) = {}
  BY DEF UnitsOf
<1>2. \A u : u \in Units(f) <=> u \in UnitsOf(x, f[x])
  BY <1>1, UnitsMembership
<1>3. Units(f) = UnitsOf(x, f[x])
  BY <1>2
<1> QED
  BY <1>3, UnitsOfOwner DEF Total

(* Changing one owner's amount changes the sum by as much. *)
LEMMA TotalUpdate ==
  ASSUME NEW S, IsFiniteSet(S), NEW x \in S,
         NEW f \in [S -> Nat], NEW g \in [S -> Nat],
         \A y \in S \ {x} : g[y] = f[y]
  PROVE  /\ Total(g) = Total(f) - f[x] + g[x]
         /\ Total(f) \in Nat /\ Total(g) \in Nat
         /\ f[x] <= Total(f)
<1> DEFINE Rest == [y \in S |-> IF y = x THEN 0 ELSE f[y]]
           Before == [y \in S |-> IF y = x THEN f[x] ELSE 0]
           After == [y \in S |-> IF y = x THEN g[x] ELSE 0]
<1>1. Rest \in [S -> Nat] /\ Before \in [S -> Nat] /\ After \in [S -> Nat]
  OBVIOUS
<1>2. Total(f) = Total(Rest) + Total(Before)
  BY <1>1, TotalSplit
<1>3. Total(g) = Total(Rest) + Total(After)
  BY <1>1, TotalSplit
<1>4. Total(Before) = f[x] /\ Total(After) = g[x]
  <2>1. Total(Before) = Before[x]
    BY <1>1, TotalOfOne
  <2>2. Total(After) = After[x]
    BY <1>1, TotalOfOne
  <2> QED
    BY <2>1, <2>2
<1>5. Total(Rest) \in Nat
  BY <1>1, TotalIsNat
<1>6. f[x] \in Nat /\ g[x] \in Nat
  OBVIOUS
<1> HIDE DEF Rest, Before, After
<1> QED
  BY <1>2, <1>3, <1>4, <1>5, <1>6

(* A table that is nowhere larger has no larger sum. *)
LEMMA TotalMonotone ==
  ASSUME NEW S, IsFiniteSet(S), NEW f \in [S -> Nat], NEW g \in [S -> Nat],
         \A x \in S : f[x] <= g[x]
  PROVE  Total(f) <= Total(g)
<1>1. \A x \in S : UnitsOf(x, f[x]) \subseteq UnitsOf(x, g[x])
  <2>1. SUFFICES ASSUME NEW x \in S PROVE 1..f[x] \subseteq 1..g[x]
    BY DEF UnitsOf
  <2>2. f[x] \in Nat /\ g[x] \in Nat /\ f[x] <= g[x]
    OBVIOUS
  <2> QED
    BY <2>2
<1>2. Units(f) \subseteq Units(g)
  <2>1. SUFFICES ASSUME NEW u \in Units(f) PROVE u \in Units(g)
    OBVIOUS
  <2>2. PICK x \in S : u \in UnitsOf(x, f[x])
    BY UnitsMembership
  <2> QED
    BY <1>1, <2>2, UnitsMembership
<1>3. IsFiniteSet(Units(g))
  BY TotalIsNat
<1> QED
  BY <1>2, <1>3, FS_Subset DEF Total

(* The sum of two tables added owner by owner is the sum of their sums: the units of
   the second table are moved behind those of the first. *)
LEMMA TotalAdd ==
  ASSUME NEW S, IsFiniteSet(S), NEW f \in [S -> Nat], NEW g \in [S -> Nat],
         NEW h \in [S -> Nat], \A x \in S : h[x] = f[x] + g[x]
  PROVE  Total(h) = Total(f) + Total(g)
<1> DEFINE Shift == [u \in Units(g) |-> <<u[1], f[u[1]] + u[2]>>]
           Moved == {Shift[u] : u \in Units(g)}
<1>1. \A u \in Units(g) : u[1] \in S /\ u[2] \in 1..g[u[1]] /\ u = <<u[1], u[2]>>
  <2>1. SUFFICES ASSUME NEW u \in Units(g)
                 PROVE  u[1] \in S /\ u[2] \in 1..g[u[1]] /\ u = <<u[1], u[2]>>
    OBVIOUS
  <2>2. PICK x \in S : u \in {x} \X (1..g[x])
    BY UnitsMembership DEF UnitsOf
  <2> QED
    BY <2>2
<1>2. Shift \in Bijection(Units(g), Moved)
  <2>1. Shift \in Surjection(Units(g), Moved)
    BY DEF Surjection
  <2>2. ASSUME NEW u \in Units(g), NEW v \in Units(g), Shift[u] = Shift[v] PROVE u = v
    <3>1. u[1] = v[1] /\ f[u[1]] + u[2] = f[v[1]] + v[2]
      BY <2>2
    <3>2. u[2] = v[2]
      BY <1>1, <3>1
    <3> QED
      BY <1>1, <3>1, <3>2
  <2> QED
    BY <2>1, <2>2 DEF Bijection, Injection, IsInjective, Surjection
<1>3. IsFiniteSet(Units(g)) /\ IsFiniteSet(Units(f))
  BY TotalIsNat
<1>4. IsFiniteSet(Moved) /\ Cardinality(Moved) = Total(g)
  <2> HIDE DEF Shift, Moved
  <2> QED
    BY <1>2, <1>3, FS_Bijection DEF Total, ExistsBijection
<1>5. \A x, n : <<x, n>> \in Moved <=> x \in S /\ n \in (f[x] + 1)..(f[x] + g[x])
  <2>1. ASSUME NEW x, NEW n, <<x, n>> \in Moved
        PROVE  x \in S /\ n \in (f[x] + 1)..(f[x] + g[x])
    <3>1. PICK u \in Units(g) : <<x, n>> = <<u[1], f[u[1]] + u[2]>>
      BY <2>1
    <3>2. x \in S /\ n = f[x] + u[2] /\ u[2] \in 1..g[x]
      BY <1>1, <3>1
    <3>3. f[x] \in Nat /\ g[x] \in Nat
      BY <3>2
    <3> QED
      BY <3>2, <3>3
  <2>2. ASSUME NEW x \in S, NEW n \in (f[x] + 1)..(f[x] + g[x])
        PROVE  <<x, n>> \in Moved
    <3> DEFINE u == <<x, n - f[x]>>
    <3>1. f[x] \in Nat /\ g[x] \in Nat
      OBVIOUS
    <3>2. n - f[x] \in 1..g[x] /\ f[x] + (n - f[x]) = n
      BY <3>1
    <3>3. u \in Units(g)
      BY <3>2, UnitsMembership DEF UnitsOf
    <3>4. Shift[u] = <<x, n>>
      BY <3>2, <3>3
    <3> QED
      BY <3>3, <3>4
  <2> QED
    BY <2>1, <2>2
<1>6. \A x, n : <<x, n>> \in Units(f) <=> x \in S /\ n \in 1..f[x]
  BY UnitsMembership DEF UnitsOf
<1>7. \A x, n : <<x, n>> \in Units(h) <=> x \in S /\ n \in 1..(f[x] + g[x])
  BY UnitsMembership DEF UnitsOf
<1>8. \A u : u \in Units(f) \/ u \in Units(h) \/ u \in Moved => u = <<u[1], u[2]>>
  BY <1>1, UnitsMembership DEF UnitsOf
<1>9. Units(h) = Units(f) \cup Moved
  <2>1. ASSUME NEW x \in S, NEW n
        PROVE  n \in 1..(f[x] + g[x]) <=> n \in 1..f[x] \/ n \in (f[x] + 1)..(f[x] + g[x])
    <3>1. f[x] \in Nat /\ g[x] \in Nat
      OBVIOUS
    <3> QED
      BY <3>1
  <2>2. \A x, n : <<x, n>> \in Units(h) <=> <<x, n>> \in Units(f) \/ <<x, n>> \in Moved
    BY <1>5, <1>6, <1>7, <2>1
  <2> HIDE DEF Moved
  <2> QED
    BY <1>8, <2>2
<1>10. Units(f) \cap Moved = {}
  <2>1. SUFFICES ASSUME NEW u \in Units(f), u \in Moved PROVE FALSE
    OBVIOUS
  <2>2. /\ u[1] \in S /\ u[2] \in 1..f[u[1]]
        /\ u[2] \in (f[u[1]] + 1)..(f[u[1]] + g[u[1]])
    BY <1>5, <1>6, <1>8, <2>1
  <2>3. f[u[1]] \in Nat
    BY <2>2
  <2> QED
    BY <2>2, <2>3
<1>11. Cardinality(Units(h)) =
         Cardinality(Units(f)) + Cardinality(Moved) - Cardinality({})
  BY <1>3, <1>4, <1>9, <1>10, FS_Union
<1>12. Cardinality({}) = 0 /\ Total(f) \in Nat /\ Total(g) \in Nat
  BY TotalIsNat, FS_EmptySet
<1> HIDE DEF Moved
<1> QED
  BY <1>4, <1>11, <1>12 DEF Total
=============================================================================
