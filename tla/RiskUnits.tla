----------------------------- MODULE RiskUnits -----------------------------
(***************************************************************************)
(* Amounts of risk as sets of units.                                       *)
(*                                                                         *)
(* The risk engine adds and subtracts exact Decimals.  The models count    *)
(* them in lot steps, so an amount is a natural number and the sum of a    *)
(* table of amounts is the number of units it holds.  Stating the sum as   *)
(* the cardinality of a set, and not as a fold, keeps it within reach of   *)
(* the proof system (RiskUnitsProofs).                                     *)
(***************************************************************************)
EXTENDS Integers, FiniteSets

\* The n units that owner x contributes, and the units of a whole table.
UnitsOf(x, n) == {x} \X (1..n)
Units(table) == UNION {UnitsOf(x, table[x]) : x \in DOMAIN table}

\* The sum of the amounts in a table of natural numbers.
Total(table) == Cardinality(Units(table))

\* The part of a table that belongs to the owners in S.
Part(table, S) == [x \in DOMAIN table |-> IF x \in S THEN table[x] ELSE 0]
=============================================================================
