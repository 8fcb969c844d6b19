SPECIFICATION Spec
CONSTANTS
    Conn = {c1, c2}
    Entry = {e1, e2}
    c1 = c1
    c2 = c2
    e1 = e1
    e2 = e2
    None = None
    Route <- MCRoute
    InterestLimit = 5
    Refusals = FALSE
    Exhausted = TRUE
SYMMETRY Symmetry
CONSTRAINT ClosingTold
INVARIANT BooksAgree
INVARIANT PendingHasQuery
CHECK_DEADLOCK FALSE
