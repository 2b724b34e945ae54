----------------------------- MODULE MCGridBot ------------------------------
(***************************************************************************)
(* Model checking of GridBot on small instances.                           *)
(***************************************************************************)
EXTENDS GridBot, TLC

AllOrders == Levels \X (0..MaxGenerations - 1)
AllThreads == Threads
=============================================================================
