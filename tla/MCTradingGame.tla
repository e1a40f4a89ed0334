--------------------------- MODULE MCTradingGame ---------------------------
(* Instance of TradingGame: a quote with a bid, one with none that gives   *)
(* the middle, and one whose bid is missing.                               *)
EXTENDS TradingGame

MCQuotes ==
    {[bid |-> 2, ask |-> 4], [bid |-> 0, ask |-> 2], [bid |-> NaN, ask |-> 4]}
=============================================================================
