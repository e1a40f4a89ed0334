SPECIFICATION FairSpecStrategy
CONSTANTS
    Strategies = {s1}
    Prices <- MCPrices
    Flows <- MCFlows
    TakeProfits = {2}
    StopLosses = {0, 1}
    Bullish = 0
    Bearish = 0
    Widening = 1
    WarmUpTicks = 2
INVARIANTS
    StrategyTypeOK
    HeldInsideBand
    HeldWithMarket
PROPERTIES
    ReentryNeedsWidening
    LongReentersAfterFlip
    ImplementsSignals
