SPECIFICATION FairSpec
CONSTANTS
    Calls = {c1}
    Events = {e1}
    MaxPages = 2
    MaxRestarts <- MCRestarts
    MaxListens <- MCListens
CHECK_DEADLOCK FALSE
INVARIANTS
    ChannelsTypeOK
    AtMostOnce
    AnswerIsOwn
    SubscriptionsMatch
PROPERTIES
    CallsSettle
    ListenersAreServed
