SPECIFICATION IntakeSpec

CONSTANTS
    o1 = o1
    o2 = o2
    p1 = p1
    p2 = p2
    l1 = l1
    s1 = s1
    s2 = s2
    s3 = s3
    Half = 16384
    Orders <- TwoOrders
    Posts <- TwoPosts
    Loads <- OneLoad
    SKUs <- AllSKUs
    Bodies <- MCPhoneBodies
    MaxLineItems = 3
    MaxFaults = 1

INVARIANT StoredCanSync
