---------------------------- MODULE DispatchTime ----------------------------
(***************************************************************************)
(* How long a dispatch keeps its claim, against the age at which another   *)
(* request may take the claim over: the retry loop of erp.Client with its  *)
(* timeouts and waits, for the chunks of one order, and the write of the   *)
(* result at the end.  SyncClaim leaves durations out and lets a claim     *)
(* turn old at any moment.                                                 *)
(*                                                                         *)
(* Time passes in units of a constant length.  The claim's updated_at and  *)
(* the instant it is compared with have whole seconds only.                *)
(***************************************************************************)
EXTENDS Int64

CONSTANTS
    Second,           \* units of time in a second
    Timeout,          \* config.ERP.Timeout
    MaxAttempts,      \* config.ERP.MaxAttempts
    BackoffBase,      \* config.ERP.BackoffBase
    BackoffMax,       \* config.ERP.BackoffMax
    WriteTimeout,     \* busy_timeout, what the result may wait for another writer
    ReclaimSeconds,   \* PendingReclaimAfter
    Chunks,           \* requests of the order
    RetryAfters,      \* seconds an ERP may ask for in Retry-After, 0 for no header
    AttemptTimes,     \* how long an attempt may take
    WriteTimes        \* how long the result may take to be written

VARIABLES
    offset,    \* where in its second the claim was made
    elapsed,   \* time since the claim
    phase,     \* "attempting", "waiting", "writing" or "done"
    chunk,     \* the current request
    try,       \* the number of its attempt
    after      \* what the ERP asked the client to wait, 0 if it did not

timeVars == <<offset, elapsed, phase, chunk, try, after>>

-----------------------------------------------------------------------------
(***************************************************************************)
(* backoff.                                                                *)
(***************************************************************************)
AtMost(n, bound) == IF n <= bound THEN n ELSE bound

\* The powers of two.
TwoTo[n \in 0..MaxAttempts] == IF n = 0 THEN 1 ELSE 2 * TwoTo[n - 1]

\* BackoffBase << (n - 1), which drops the bits that leave a time.Duration.
Shifted(n) == Wrap(BackoffBase * TwoTo[n - 1])
Delay(n)   == AtMost(Shifted(n), BackoffMax)

\* Mutated form of JitterRange: the jitter begins at BackoffBase.
JitterAboveBase(n) == Delay(n) - BackoffBase

\* What rand.Int64N is called with; it panics on anything that is not positive.
JitterRange(n) == Delay(n)

\* rand.Int64N(delay) + delay / 2
Jittered(n) == {r + Delay(n) \div 2 : r \in 0..(JitterRange(n) - 1)}

\* Mutated form of Waits: Retry-After is not capped.
WaitsUncapped(n, asked) == IF asked > 0 THEN {asked} ELSE Jittered(n)

\* The waits that may follow the n-th attempt.
Waits(n, asked) == IF asked > 0 THEN {AtMost(asked, BackoffMax)} ELSE Jittered(n)

ASSUME TimeAssumption ==
    /\ Second \in Nat \ {0}
    /\ Timeout \in Nat
    /\ MaxAttempts \in Nat \ {0}
    /\ BackoffBase \in 0..(Half - 1)
    /\ BackoffMax \in 0..(Half - 1)
    /\ WriteTimeout \in Nat
    /\ ReclaimSeconds \in Nat
    /\ Chunks \in Nat \ {0}
    /\ RetryAfters \subseteq Nat
    /\ AttemptTimes \subseteq 0..Timeout
    /\ WriteTimes \subseteq 0..WriteTimeout

-----------------------------------------------------------------------------
TimeInit ==
    /\ offset \in 0..(Second - 1)
    /\ elapsed = 0
    /\ phase = "attempting"
    /\ chunk = 1
    /\ try = 1
    /\ after = 0

\* Mutated form of LastAttempt: one more than configured.
OneAttemptMore == try > MaxAttempts

LastAttempt == try = MaxAttempts

\* An attempt with a final answer: on to the next chunk, or to the result.
Answered(d) ==
    /\ phase = "attempting"
    /\ elapsed' = elapsed + d
    /\ \/ chunk < Chunks /\ chunk' = chunk + 1 /\ try' = 1 /\ UNCHANGED phase
       \/ chunk = Chunks /\ phase' = "writing" /\ UNCHANGED <<chunk, try>>
    /\ UNCHANGED <<offset, after>>

\* A failed attempt that is not the last: an answer may carry Retry-After, a timeout
\* does not.
Retried(d, seconds) ==
    /\ phase = "attempting"
    /\ ~LastAttempt
    /\ d = Timeout => seconds = 0
    /\ elapsed' = elapsed + d
    /\ after' = Wrap(seconds * Second)
    /\ phase' = "waiting"
    /\ UNCHANGED <<offset, chunk, try>>

\* The last attempt failed: the dispatch stops.
GivenUp(d) ==
    /\ phase = "attempting"
    /\ LastAttempt
    /\ elapsed' = elapsed + d
    /\ phase' = "writing"
    /\ UNCHANGED <<offset, chunk, try, after>>

Wait ==
    /\ phase = "waiting"
    /\ \E w \in Waits(try, after) : elapsed' = elapsed + w
    /\ try' = try + 1
    /\ phase' = "attempting"
    /\ UNCHANGED <<offset, chunk, after>>

Written(d) ==
    /\ phase = "writing"
    /\ elapsed' = elapsed + d
    /\ phase' = "done"
    /\ UNCHANGED <<offset, chunk, try, after>>

TimeNext ==
    \/ \E d \in AttemptTimes :
          \/ Answered(d) \/ GivenUp(d)
          \/ \E seconds \in RetryAfters : Retried(d, seconds)
    \/ Wait
    \/ \E d \in WriteTimes : Written(d)

TimeSpec == TimeInit /\ [][TimeNext]_timeVars

-----------------------------------------------------------------------------
TimeTypeOK ==
    /\ offset \in 0..(Second - 1)
    /\ elapsed \in Nat
    /\ phase \in {"attempting", "waiting", "writing", "done"}
    /\ chunk \in 1..Chunks
    /\ try \in 1..MaxAttempts
    /\ after \in Int

\* The longest a dispatch of n requests may take: the jitter adds up to half of
\* BackoffMax to it.
MaxWait    == BackoffMax + BackoffMax \div 2
PerRequest == MaxAttempts * Timeout + (MaxAttempts - 1) * MaxWait
WorstCase  == Chunks * PerRequest + WriteTimeout

\* The age that the reclaiming UPDATE asks for.
Old == (offset + elapsed) \div Second >= ReclaimSeconds

\* However attempts fail, answer late or name a Retry-After, the claim is held no
\* longer than the configuration allows (Dispatch, send, backoff).
WithinWorstCase == elapsed <= WorstCase

\* Every wait that follows a failed attempt is possible: rand.Int64N is not called with
\* zero or with a delay that has overflowed (backoff).
NeverPanics == phase = "waiting" => after > 0 \/ JitterRange(try) > 0

\* No other request may take the claim over before the result is written: the window
\* of PendingReclaimAfter outlasts the dispatch, whole seconds considered.
LeaseOutlasts == phase # "done" => ~Old
=============================================================================
