SPECIFICATION MCBatchSpec

CONSTANTS
    o1 = o1
    o2 = o2
    c1 = c1
    c2 = c2
    none = none
    some = some
    all = all
    null = null
    ok = ok
    partial = partial
    Orders <- MCOrders
    Clicks <- MCClicks
    Batches <- MCBatches
    Lists <- MCLists
    Singles <- FirstOnly
    Expiring <- FirstOnly
    Notes <- MCNotes
    NoNote = null
    LineDetails <- MCLines
    NoLines = none
    Unstorable <- MCNever
    Outcomes <- MCOutcomes
    MaxFaults = 1

INVARIANT BatchTypeOK
INVARIANT BatchSyncedStands
INVARIANT SyncedOnceInBatch
INVARIANT ToldWasRecorded
PROPERTY ImplementsPromise
PROPERTY BatchAnswers
PROPERTY NoOrderHeldBack
