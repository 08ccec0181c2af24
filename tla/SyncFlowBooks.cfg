SPECIFICATION OneOrderSpec

CONSTANTS
    alpha = alpha
    long = long
    beta = beta
    c1 = c1
    c2 = c2
    s1 = s1
    s2 = s2
    s3 = s3
    s4 = s4
    s5 = s5
    Orders <- BothTenants
    Clicks <- TwoClicks
    Expiring <- OneBeta
    SKUs <- FourSKUs
    Items <- MCItems
    AlphaOrders <- OneAlpha
    OutOfStock <- Scarce
    MaxAttempts = 2
    Notes <- MCNotes
    NoNote = "null"
    LineDetails <- MCLineDetails
    NoLines <- MCNoLines
    Unstorable <- MCUnstorable
    Outcomes <- MCOutcomes
    MaxFaults = 1

SYMMETRY ClickSymmetry
INVARIANT FlowTypeOK
INVARIANT AlphaBookedOnce
INVARIANT SyncedMeansBooked
INVARIANT AcceptedMeansBooked
INVARIANT PartialIsPartial
