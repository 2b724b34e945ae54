------------------------- MODULE MCEventResilience --------------------------
(***************************************************************************)
(* Model checking of EventResilience: two orders of two lots each, with a  *)
(* limit of three: the second has to wait until the venue closes the first *)
(* or part of it is known never to come.                                   *)
(***************************************************************************)
EXTENDS EventResilience, TLC

CONSTANTS first, second

Sizes == (first :> 2) @@ (second :> 2)
NoPosition == {<<second, 1>>}
=============================================================================
