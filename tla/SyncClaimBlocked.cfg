SPECIFICATION RetryingSpec

CONSTANTS
    o1 = o1
    c1 = c1
    c2 = c2
    c3 = c3
    none = none
    some = some
    all = all
    twice = twice
    null = null
    ok = ok
    partial = partial
    rejected = rejected
    Orders <- OneOrder
    Clicks <- TwoClicks
    Expiring <- OneOrder
    Notes <- MCNotes
    NoNote = null
    LineDetails <- MCLines
    NoLines = none
    Unstorable <- MCTwice
    Outcomes <- MCOutcomes
    MaxFaults = 1

PROPERTY NoOrderBlockedForever
