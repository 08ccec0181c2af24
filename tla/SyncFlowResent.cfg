SPECIFICATION FlowSpec

CONSTANTS
    alpha = alpha
    long = long
    beta = beta
    c1 = c1
    c2 = c2
    s1 = s1
    s2 = s2
    s3 = s3
    s4 = s4
    s5 = s5
    Orders <- OneBeta
    Clicks <- OneClick
    Expiring <- None
    SKUs <- BetaSKUs
    Items <- MCItems
    AlphaOrders <- None
    OutOfStock <- LastBetaSKU
    MaxAttempts = 1
    Notes <- MCNotes
    NoNote = "null"
    LineDetails <- MCLineDetails
    NoLines <- MCNoLines
    Unstorable <- MCUnstorable
    Outcomes <- MCOutcomes
    MaxFaults = 0

PROPERTY AcceptedNotBookedAgain
