--------------------------- MODULE MCTradeManager ---------------------------
(* Three strategy objects, so that settings can change and change back.    *)
EXTENDS TradeManager, TLC

Symmetric == Permutations(Strategies) \cup Permutations(Instruments)
=============================================================================
