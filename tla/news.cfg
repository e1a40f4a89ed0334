CONSTANTS
    Statuses = {s1}
    Panels = {p1, p2}
    Polls = {1, 2}
    Listings <- MCListings
    MaxAttempts = 2
    Keys = {TRUE, FALSE}
    None = None
SYMMETRY MCSymmetry
SPECIFICATION Spec
INVARIANTS
    FeedTypeOK
    AlertedOnce
PROPERTIES
    NeverAnalyzedAgain
