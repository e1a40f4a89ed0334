SPECIFICATION FairSpecStrategy
CONSTANTS
    Strategies = {s1}
    Prices <- MCPricesLive
    Flows <- MCFlowsLive
    TakeProfits = {1}
    StopLosses = {0, 1}
    Bullish = 0
    Bearish = 0
    Widening = 1
    WarmUpTicks = 2
PROPERTIES
    ShortReentersAfterFlip
