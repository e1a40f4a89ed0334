CONSTANTS
    Statuses = {s1, s2}
    Panels = {p1}
    Polls = {1}
    Listings <- MCListings
    MaxAttempts = 2
    Keys = {TRUE, FALSE}
    None = None
SPECIFICATION FairSpec
INVARIANTS
    QueueInStep
PROPERTIES
    ListedIsStored
