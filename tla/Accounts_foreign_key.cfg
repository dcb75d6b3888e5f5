CONSTANTS
    d1 = d1
    d2 = d2
    p1 = p1
    p2 = p2
    n1 = n1
    Dialogs <- TwoDialogs
    Panels <- TwoPanels
    Names <- OneName
    Clicks <- OneEach
    ReviewerKey = TRUE
    PipeLen = 1
    MaxAsks = 2
    MaxTroubles = 1
    NoBox = NoBox
SPECIFICATION FairSpec
INVARIANT
    RefusedWasReviewed
