---------------------------- MODULE MCRiskVenue -----------------------------
(***************************************************************************)
(* Model checking of RiskVenue: two orders of one or two lots, with a      *)
(* limit that holds both only if one of them is small or closed.           *)
(***************************************************************************)
EXTENDS RiskVenue

AllFills == Orders \X (1..MaxQty)
=============================================================================
