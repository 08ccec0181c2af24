SPECIFICATION TimeSpec

CONSTANTS
    Second = 10
    Timeout = 100
    MaxAttempts = 4
    BackoffBase = 1
    BackoffMax = 20
    Half = 32768
    WriteTimeout = 50
    ReclaimSeconds = 120
    Chunks = 2
    RetryAfters <- MCRetryAfters
    AttemptTimes <- MCAttemptTimes
    WriteTimes <- MCWriteTimes

\* A dispatch ends.
CHECK_DEADLOCK FALSE

INVARIANT TimeTypeOK
INVARIANT WithinWorstCase
INVARIANT NeverPanics
INVARIANT LeaseOutlasts
