SPECIFICATION FairSpec
CONSTANTS
    Redialers = {"a", "b"}
    MaxSends <- MCSendsApart
    MaxMoves = 2
    MaxFlight = 1
CHECK_DEADLOCK FALSE
INVARIANTS
    ProtocolTypeOK
    QueueIsComplete
    SilenceIsNoticed
    NoGapAfterRedial
PROPERTIES
    AllAcknowledged
