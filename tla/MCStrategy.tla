----------------------------- MODULE MCStrategy -----------------------------
(* Strategy on one strategy object: three prices, cumulative flows on both *)
(* sides of the thresholds, every strategy type, stop loss on and off.     *)
EXTENDS Strategy

MCPrices == 1..3

(* Both flows strongly or weakly on one side, and one pair between.        *)
MCFlows == {[qqq |-> x, spy |-> x] : x \in {-1, 1, 2}} \cup {[qqq |-> 1, spy |-> -1]}

(* For the run of strategy_short: a short market, a long one, and neither. *)
MCPricesLive == 1..2

MCFlowsLive == {[qqq |-> x, spy |-> x] : x \in {-1, 1}} \cup {[qqq |-> 1, spy |-> -1]}
=============================================================================
