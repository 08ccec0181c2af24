SPECIFICATION FlowSpec

CONSTANTS
    alpha = alpha
    long = long
    beta = beta
    c1 = c1
    c2 = c2
    s1 = s1
    s2 = s2
    s3 = s3
    s4 = s4
    s5 = s5
    Orders <- OneLong
    Clicks <- OneClick
    Expiring <- None
    SKUs <- FiveSKUs
    Items <- MCItems
    AlphaOrders <- OneLong
    OutOfStock <- None
    MaxAttempts = 1
    Notes <- MCNotes
    NoNote = "null"
    LineDetails <- MCLineDetails
    NoLines <- MCNoLines
    Unstorable <- MCUnstorable
    Outcomes <- MCOutcomes
    MaxFaults = 0

INVARIANT PartialCoversOrder
