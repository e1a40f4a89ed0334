SPECIFICATION FairSpec
CONSTANTS
    Instruments = {i1, i2}
    Quotes <- MCQuotes
    NaN = NaN
    NoQuote = NoQuote
    Slots = {s1, s2}
    MaxMoves = 2
    MaxPositions = 2
INVARIANTS
    GameTypeOK
    MarksAreCurrent
    PositionsMatchFills
    ProfitIsPaid
PROPERTIES
    MarksSettle
