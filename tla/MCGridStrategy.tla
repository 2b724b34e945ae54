--------------------------- MODULE MCGridStrategy ---------------------------
(***************************************************************************)
(* Model checking of GridStrategy on small numbers.                        *)
(***************************************************************************)
EXTENDS GridStrategy, TLC

\* Spacings smaller and larger than the tick, prices near zero, sizes that are no
\* multiple of the step, inventories beyond the maximum on both sides.
Grids ==
    [best_bid : {0, 4, 7}, best_ask : {7, 8}, current_inventory : {-5, -2, 0, 1, 4},
     grid_spacing : {1, 2, 3}, base_size : {1, 2, 3}, level_count : {2, 4},
     max_inventory : {3, 4}, tick_size : {1, 2, 3}, step_size : {1, 2},
     system_state : {"OPERATIONAL"}, market_regime : {"NEUTRAL"}, is_stale_data : {FALSE}]

\* The same with the states that restrict or forbid, and arguments that are refused.
Restricted ==
    [best_bid : {7}, best_ask : {8}, current_inventory : {-2, 0, 3},
     grid_spacing : {0, 2}, base_size : {0, 2}, level_count : {0, 3},
     max_inventory : {4}, tick_size : {0, 2}, step_size : {0, 1},
     system_state : SystemStates, market_regime : {"NEUTRAL", "BREAKOUT"},
     is_stale_data : BOOLEAN]

SmallCalls == Grids \cup Restricted
=============================================================================
