SPECIFICATION SpecTradeManager
CONSTANTS
    Strategies = {s1, s2, s3}
    Variants = {v1}
    Instruments = {i1, i2}
    MaxOrders = 3
    NoStrategy = NoStrategy
    NoSettings = NoSettings
SYMMETRY Symmetric
INVARIANTS
    TradeManagerTypeOK
    NoStuckOrder
    Netting
    NoOrphan
PROPERTIES
    SaleBalanced
