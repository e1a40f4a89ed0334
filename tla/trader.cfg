SPECIFICATION FairSpec
CONSTANTS
    Orders = {o1}
    NoOrder = NoOrder
    Instruments = {i1}
    InstrumentOf <- MCInstrumentOf
    MaxAttempts = 5
    Slots = {s1, s2}
    MaxCancels = 2
INVARIANTS
    TraderTypeOK
    NeverLeftWorking
    StatesAreTrue
    ListedOnce
PROPERTIES
    ProcessEnds
    ListSettles
