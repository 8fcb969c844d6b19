SPECIFICATION FairSpec
CONSTANTS
    Conn = {c1, c2}
    Entry = {e1}
    c1 = c1
    c2 = c2
    e1 = e1
    None = None
    Route <- MCRoute
    InterestLimit = 5
    Refusals = TRUE
    Exhausted = TRUE
INVARIANT TypeOK
INVARIANT RetiredKeptWhileUsed
PROPERTY WaitEnds
PROPERTY ReloadHappens
CHECK_DEADLOCK FALSE
