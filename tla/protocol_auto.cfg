SPECIFICATION FairSpec
CONSTANTS
    Redialers = {"b"}
    MaxSends <- MCSendsBoth
    MaxMoves = 2
    MaxFlight = 0
CHECK_DEADLOCK FALSE
PROPERTIES
    ImplementsChannel
    GapHeals
