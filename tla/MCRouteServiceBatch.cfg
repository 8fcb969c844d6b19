SPECIFICATION Spec
CONSTANTS
    Conn = {c1, c2, c3}
    Entry = {e1}
    c1 = c1
    c2 = c2
    c3 = c3
    e1 = e1
    None = None
    Route <- MCRoute
    InterestLimit = 5
    Refusals = FALSE
    Exhausted = FALSE
INVARIANT ListenerSurvives
CHECK_DEADLOCK FALSE
