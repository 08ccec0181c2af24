SPECIFICATION RetryingIntakeSpec

CONSTANTS
    o1 = o1
    o2 = o2
    p1 = p1
    p2 = p2
    l1 = l1
    s1 = s1
    s2 = s2
    s3 = s3
    Half = 16384
    Orders <- TwoOrders
    Posts <- TwoPosts
    Loads <- OneLoad
    SKUs <- AllSKUs
    Bodies <- MCBodies
    MaxLineItems = 3
    MaxFaults = 1

INVARIANT IntakeTypeOK
INVARIANT WholeConfirmation
INVARIANT LoadsWhole
INVARIANT CreatedStands
INVARIANT QuotedIsSent
INVARIANT PricedAsConfirmed
PROPERTY StoredForGood
PROPERTY StoredInTheEnd
PROPERTY ImplementsStore
