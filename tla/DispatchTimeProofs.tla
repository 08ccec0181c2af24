------------------------- MODULE DispatchTimeProofs -------------------------
(***************************************************************************)
(* Proofs about the time of a dispatch, for any configuration and any      *)
(* number of chunks.                                                       *)
(*                                                                         *)
(* The inductive invariant says what each phase may have spent: all of the *)
(* chunks before the current one, and at the current one a timeout and a   *)
(* wait for each attempt before this one.                                  *)
(***************************************************************************)
EXTENDS DispatchTime, MoneyProofs

Before == (chunk - 1) * PerRequest + (try - 1) * (Timeout + MaxWait)

TimeInv ==
    /\ TimeTypeOK
    /\ phase = "attempting" => elapsed <= Before
    /\ phase = "waiting"    => elapsed <= Before + Timeout /\ try < MaxAttempts
    /\ phase = "writing"    => elapsed <= Chunks * PerRequest
    /\ elapsed <= WorstCase

\* The numbers of the configuration are naturals.
LEMMA TimesAreNatural ==
  MaxWait \in Nat /\ PerRequest \in Nat /\ WorstCase \in Nat
<1>1. MaxWait \in Nat
  BY TimeAssumption DEF MaxWait
<1>2. PerRequest \in Nat
  <2>1. MaxAttempts * Timeout \in Nat /\ (MaxAttempts - 1) * MaxWait \in Nat
    BY <1>1, TimeAssumption
  <2>2. QED
    BY <2>1 DEF PerRequest
<1>3. Chunks * PerRequest \in Nat
  BY <1>2, TimeAssumption
<1>4. QED
  BY <1>1, <1>2, <1>3, TimeAssumption DEF WorstCase

\* Products of naturals grow with their factors.
LEMMA Monotone ==
  ASSUME NEW m \in Nat, NEW n \in Nat, NEW k \in Nat, m <= n
  PROVE  m * k <= n * k
<1>1. n * k = m * k + (n - m) * k
  OBVIOUS
<1>2. (n - m) * k \in Nat
  OBVIOUS
<1>3. QED
  BY <1>1, <1>2

\* A wrapped integer is an integer.
LEMMA WrapIsInt ==
  ASSUME NEW x \in Int
  PROVE  Wrap(x) \in Int
BY WrapFits, HalfAssumption DEF Amounts

\* What wraps around by less than a whole turn comes out negative.
LEMMA WrapTurns ==
  ASSUME NEW x \in Half..(2 * Half - 1)
  PROVE  Wrap(x) = x - 2 * Half
<1> DEFINE w == 2 * Half
           r == x - Half
<1>1. w \in Nat \ {0} /\ r \in 0..(w - 1) /\ x + Half = 1 * w + r
  BY HalfAssumption
<1> HIDE DEF w, r
<1>2. (1 * w + r) % w = r
  BY <1>1, RemainderUnique
<1>3. (x + Half) % w = r
  BY <1>1, <1>2
<1>4. Wrap(x) = r - Half
  BY <1>3 DEF Wrap, w
<1>5. QED
  BY <1>4, HalfAssumption DEF r

\* TwoTo doubles from one.
LEMMA TwoToDoubles ==
  /\ TwoTo[0] = 1
  /\ \A n \in 1..MaxAttempts : TwoTo[n] = 2 * TwoTo[n - 1]
  /\ \A n \in 0..MaxAttempts : TwoTo[n] \in Nat \ {0}
<1> DEFINE next       == [x \in Nat \X (1..MaxAttempts) |-> 2 * x[1]]
           Doubles(f) == f = [n \in 0..MaxAttempts |-> IF n = 0 THEN 1 ELSE 2 * f[n - 1]]
           chosen     == CHOOSE f : Doubles(f)
<1>1. MaxAttempts \in Nat
  BY TimeAssumption
<1>2. \E f : Doubles(f)
  <2>1. next \in [Nat \X (1..MaxAttempts) -> Nat] /\ 1 \in Nat
    OBVIOUS
  <2>2. \A x \in Nat, n \in 1..MaxAttempts : next[<<x, n>>] = 2 * x
    OBVIOUS
  <2> HIDE DEF next
  <2>3. PICK f \in [0..MaxAttempts -> Nat] : Recursive(f, MaxAttempts, 1, next)
    BY <1>1, <2>1, RecursionExists
  <2>4. ASSUME NEW n \in 1..MaxAttempts
        PROVE  f[n] = 2 * f[n - 1]
    <3>1. f[n - 1] \in Nat
      BY <1>1
    <3>2. f[n] = next[<<f[n - 1], n>>]
      BY <2>3 DEF Recursive
    <3>3. QED
      BY <2>2, <3>1, <3>2
  <2>5. f = [n \in 0..MaxAttempts |-> IF n = 0 THEN 1 ELSE 2 * f[n - 1]]
    BY <1>1, <2>3, <2>4 DEF Recursive
  <2>6. QED
    BY <2>5
<1>3. TwoTo = chosen
  BY DEF TwoTo
<1> HIDE DEF Doubles
<1>4. Doubles(chosen)
  BY <1>2, Zenon
<1> HIDE DEF chosen
<1>5. TwoTo = [n \in 0..MaxAttempts |-> IF n = 0 THEN 1 ELSE 2 * TwoTo[n - 1]]
  BY <1>3, <1>4 DEF Doubles
<1>6. TwoTo[0] = 1 /\ \A n \in 1..MaxAttempts : TwoTo[n] = 2 * TwoTo[n - 1]
  BY <1>1, <1>5
<1> DEFINE T == {n \in Nat : n \in 0..MaxAttempts => TwoTo[n] \in Nat \ {0}}
<1>7. 0 \in T
  BY <1>6
<1>8. ASSUME NEW n \in Nat, n \in T
      PROVE  n + 1 \in T
  <2>1. n + 1 \in 0..MaxAttempts => TwoTo[n + 1] = 2 * TwoTo[n] /\ n \in 0..MaxAttempts
    BY <1>1, <1>6
  <2>2. QED
    BY <1>8, <2>1
<1> HIDE DEF T
<1>9. Nat \subseteq T
  BY <1>7, <1>8, SetInduction
<1>10. QED
  BY <1>6, <1>9 DEF T

\* A shifted delay is a time.Duration.
LEMMA ShiftFits ==
  ASSUME NEW n \in 1..MaxAttempts
  PROVE  Shifted(n) \in Int
<1>1. n - 1 \in 0..MaxAttempts /\ BackoffBase \in Int
  BY TimeAssumption
<1>2. BackoffBase * TwoTo[n - 1] \in Int
  BY <1>1, TwoToDoubles
<1>3. QED
  BY <1>2, WrapIsInt DEF Shifted

\* TwoTo grows.
LEMMA TwoToGrows ==
  ASSUME NEW m \in 0..MaxAttempts, NEW n \in 0..m
  PROVE  TwoTo[n] <= TwoTo[m]
<1> DEFINE T == {k \in Nat : n + k \in 0..MaxAttempts => TwoTo[n] <= TwoTo[n + k]}
<1>1. MaxAttempts \in Nat
  BY TimeAssumption
<1>2. 0 \in T
  BY TwoToDoubles, <1>1
<1>3. ASSUME NEW k \in Nat, k \in T
      PROVE  k + 1 \in T
  <2> SUFFICES ASSUME n + (k + 1) \in 0..MaxAttempts
               PROVE  TwoTo[n] <= TwoTo[n + (k + 1)]
    OBVIOUS
  <2> DEFINE i == n + k
  <2>1. i \in 0..MaxAttempts /\ i + 1 \in 1..MaxAttempts /\ n + (k + 1) = i + 1
    BY <1>1
  <2>2. TwoTo[n] <= TwoTo[i]
    BY <1>3, <2>1
  <2> HIDE DEF i
  <2>3. TwoTo[i + 1] = 2 * TwoTo[i]
    <3>1. (i + 1) - 1 = i
      BY <2>1
    <3>2. TwoTo[i + 1] = 2 * TwoTo[(i + 1) - 1]
      BY <2>1, TwoToDoubles
    <3>3. QED
      BY <3>1, <3>2
  <2>4. TwoTo[i] \in Nat /\ TwoTo[n] \in Nat
    BY <1>1, <2>1, TwoToDoubles
  <2>5. QED
    BY <2>1, <2>2, <2>3, <2>4
<1> HIDE DEF T
<1>4. m - n \in T
  BY <1>1, <1>2, <1>3, SetInduction
<1>5. QED
  BY <1>1, <1>4 DEF T

\* The configurations that leave the shift of backoff enough room.
BackoffFits ==
    /\ BackoffBase > 0 /\ BackoffMax > 0
    /\ BackoffBase * TwoTo[MaxAttempts - 2] < Half

\* backoff can draw its jitter after every attempt exactly if both durations of the
\* configuration are positive and the last shift loses no bit: the first shift that
\* loses one comes out negative, and rand.Int64N panics.
THEOREM JitterIsPossible ==
  ASSUME MaxAttempts >= 2
  PROVE  (\A n \in 1..(MaxAttempts - 1) : JitterRange(n) > 0) <=> BackoffFits
<1> DEFINE last == MaxAttempts - 2
           Exact(k) == BackoffBase * TwoTo[k]
<1>1. /\ last \in Nat /\ MaxAttempts = last + 2
      /\ BackoffBase \in 0..(Half - 1) /\ BackoffMax \in 0..(Half - 1) /\ Half \in Nat \ {0}
  BY TimeAssumption, HalfAssumption
<1>2. \A k \in 0..last : TwoTo[k] \in Nat \ {0} /\ Exact(k) \in Nat
  <2> TAKE k \in 0..last
  <2>1. TwoTo[k] \in Nat \ {0}
    BY <1>1, TwoToDoubles
  <2>2. QED
    BY <1>1, <2>1
<1>3. TwoTo[0] = 1 /\ Exact(0) = BackoffBase
  BY <1>1, TwoToDoubles
<1>4. \A k \in 0..last : k # 0 => Exact(k) = 2 * Exact(k - 1)
  <2> TAKE k \in 0..last
  <2>1. HAVE k # 0
  <2>2. TwoTo[k] = 2 * TwoTo[k - 1] /\ k - 1 \in 0..last
    BY <1>1, <2>1, TwoToDoubles
  <2>3. TwoTo[k - 1] \in Nat
    BY <1>2, <2>2
  <2>4. QED
    BY <1>1, <2>2, <2>3
<1>5. \A k \in 0..last : Exact(k) <= Exact(last) /\ (BackoffBase > 0 => Exact(k) > 0)
  <2> TAKE k \in 0..last
  <2> DEFINE a == TwoTo[k]
             b == TwoTo[last]
  <2>1. a \in Nat \ {0} /\ b \in Nat \ {0} /\ a <= b
    BY <1>1, <1>2, TwoToGrows
  <2> HIDE DEF a, b, last
  <2>2. BackoffBase * a <= BackoffBase * b /\ (BackoffBase > 0 => BackoffBase * a > 0)
    <3>1. a * BackoffBase <= b * BackoffBase
      BY <1>1, <2>1, Monotone
    <3>2. QED
      BY <1>1, <2>1, <3>1
  <2>3. QED
    BY <2>2 DEF a, b
<1>6. ASSUME NEW n \in 1..(MaxAttempts - 1)
      PROVE  /\ n - 1 \in 0..last
             /\ JitterRange(n) = AtMost(Wrap(Exact(n - 1)), BackoffMax)
  BY <1>1, <1>6 DEF JitterRange, Delay, Shifted
<1> HIDE DEF last, Exact
<1>7. ASSUME BackoffFits, NEW n \in 1..(MaxAttempts - 1)
      PROVE  JitterRange(n) > 0
  <2>1. n - 1 \in 0..last /\ Exact(n - 1) \in Nat
    BY <1>2, <1>6
  <2>2. Exact(n - 1) > 0 /\ Exact(n - 1) < Half
    <3>1. Exact(n - 1) <= Exact(last) /\ Exact(n - 1) > 0
      BY <1>5, <1>7, <2>1 DEF BackoffFits
    <3>2. Exact(last) < Half /\ Exact(last) \in Nat
      BY <1>1, <1>2, <1>7 DEF BackoffFits, Exact, last
    <3>3. QED
      BY <1>1, <2>1, <3>1, <3>2
  <2>3. Wrap(Exact(n - 1)) = Exact(n - 1)
    BY <1>1, <2>1, <2>2, WrapFits DEF Amounts
  <2>4. QED
    BY <1>1, <1>6, <1>7, <2>1, <2>2, <2>3 DEF BackoffFits, AtMost
<1>8. ASSUME \A n \in 1..(MaxAttempts - 1) : JitterRange(n) > 0
      PROVE  BackoffFits
  <2>1. \A k \in 0..last : AtMost(Wrap(Exact(k)), BackoffMax) > 0
    <3> TAKE k \in 0..last
    <3>1. k + 1 \in 1..(MaxAttempts - 1) /\ (k + 1) - 1 = k
      BY <1>1
    <3>2. JitterRange(k + 1) = AtMost(Wrap(Exact((k + 1) - 1)), BackoffMax)
      BY <1>6, <3>1
    <3>3. QED
      BY <1>8, <3>1, <3>2
  <2>2. \A k \in 0..last : Wrap(Exact(k)) \in Int
    BY <1>2, WrapIsInt
  <2>3. \A k \in 0..last : Wrap(Exact(k)) > 0 /\ BackoffMax > 0
    BY <1>1, <2>1, <2>2 DEF AtMost
  <2>4. BackoffMax > 0 /\ BackoffBase > 0
    <3>1. Wrap(BackoffBase) = BackoffBase /\ 0 \in 0..last
      BY <1>1, WrapFits DEF Amounts
    <3>2. QED
      BY <1>1, <1>3, <2>3, <3>1
  <2> DEFINE Over == {k \in 0..last : Exact(k) >= Half}
  <2>5. Over = {}
    <3> SUFFICES ASSUME Over # {}
                 PROVE  FALSE
      OBVIOUS
    <3>1. PICK k \in Over : \A j \in Over : k <= j
      <4>1. Over \subseteq Nat
        BY <1>1
      <4>2. QED
        BY <4>1, LeastNumber
    <3>2. k \in 0..last /\ Exact(k) >= Half /\ k # 0
      BY <1>1, <1>3, <3>1
    <3>3. k - 1 \in 0..last /\ k - 1 \notin Over
      BY <1>1, <3>1, <3>2
    <3>4. Exact(k - 1) < Half /\ Exact(k) = 2 * Exact(k - 1)
      BY <1>1, <1>2, <1>4, <3>2, <3>3
    <3>5. Exact(k) \in Half..(2 * Half - 1)
      BY <1>1, <1>2, <3>2, <3>3, <3>4
    <3>6. Wrap(Exact(k)) = Exact(k) - 2 * Half
      BY <3>5, WrapTurns
    <3>7. QED
      BY <1>1, <2>3, <3>2, <3>5, <3>6
  <2>6. Exact(last) < Half
    <3>1. last \in 0..last /\ last \notin Over /\ Exact(last) \in Nat
      BY <1>1, <1>2, <2>5
    <3> HIDE <2>5
    <3>2. QED
      BY <1>1, <3>1
  <2>7. QED
    BY <2>4, <2>6 DEF BackoffFits, Exact, last
<1>9. QED
  BY <1>7, <1>8

\* No wait of backoff is longer than MaxWait, whatever the ERP asks for.
LEMMA WaitBound ==
  ASSUME NEW n \in 1..(MaxAttempts - 1), NEW asked \in Int, NEW w \in Waits(n, asked)
  PROVE  w \in 0..MaxWait
<1>1. Delay(n) \in Int /\ Delay(n) <= BackoffMax
  BY ShiftFits, TimeAssumption DEF Delay, AtMost
<1>2. CASE asked > 0
  BY <1>2, TimeAssumption DEF Waits, AtMost, MaxWait
<1>3. CASE ~(asked > 0)
  <2>1. PICK r \in 0..(Delay(n) - 1) : w = r + Delay(n) \div 2
    BY <1>3 DEF Waits, Jittered, JitterRange
  <2>2. Delay(n) \div 2 <= BackoffMax \div 2 /\ Delay(n) \div 2 \in Nat
    BY <1>1, <2>1, TimeAssumption
  <2>3. QED
    BY <1>1, <2>1, <2>2, TimeAssumption DEF MaxWait
<1>4. QED
  BY <1>2, <1>3

\* The last attempt of a request that has spent all the others stays within its share.
LEMMA RequestBound ==
  ASSUME NEW n \in 1..MaxAttempts
  PROVE  (n - 1) * (Timeout + MaxWait) + Timeout <= PerRequest
<1> USE TimeAssumption, TimesAreNatural
<1>1. (n - 1) * (Timeout + MaxWait) + Timeout = n * Timeout + (n - 1) * MaxWait
  OBVIOUS
<1>2. n * Timeout <= MaxAttempts * Timeout
  BY Monotone
<1>3. (n - 1) * MaxWait <= (MaxAttempts - 1) * MaxWait
  BY Monotone
<1>4. QED
  BY <1>1, <1>2, <1>3 DEF PerRequest

\* What is spent before or at an attempt is within the share of the chunks so far.
LEMMA ShareBound ==
  ASSUME NEW k \in 1..Chunks, NEW n \in 1..MaxAttempts
  PROVE  /\ (k - 1) * PerRequest + (n - 1) * (Timeout + MaxWait) + Timeout <= k * PerRequest
         /\ k * PerRequest <= Chunks * PerRequest
<1> USE TimeAssumption, TimesAreNatural
<1>1. k * PerRequest = (k - 1) * PerRequest + PerRequest
  OBVIOUS
<1>2. (n - 1) * (Timeout + MaxWait) \in Nat /\ (k - 1) * PerRequest \in Nat
  OBVIOUS
<1>3. k * PerRequest <= Chunks * PerRequest
  BY Monotone
<1>4. QED
  BY <1>1, <1>2, <1>3, RequestBound

\* The claim has just been made.
LEMMA TimeInitInv == TimeInit => TimeInv
BY TimeAssumption, TimesAreNatural DEF TimeInit, TimeInv, TimeTypeOK, Before

\* Every step spends no more than its share.
LEMMA TimeStepInv == TimeInv /\ [TimeNext]_timeVars => TimeInv'
<1> SUFFICES ASSUME TimeInv, [TimeNext]_timeVars
             PROVE  TimeInv'
  OBVIOUS
<1> USE TimeAssumption, TimesAreNatural DEF TimeInv, TimeTypeOK
<1> DEFINE Share(k, n) == (k - 1) * PerRequest + (n - 1) * (Timeout + MaxWait)
<1>0. /\ Before = Share(chunk, try)
      /\ Before' = Share(chunk', try')
      /\ Share(chunk, try) + Timeout <= chunk * PerRequest
      /\ chunk * PerRequest <= Chunks * PerRequest
      /\ Before \in Nat /\ chunk * PerRequest \in Nat /\ Chunks * PerRequest \in Nat
  <2>1. Before = Share(chunk, try) /\ Before' = Share(chunk', try')
    BY DEF Before, PerRequest, MaxWait
  <2>2. Share(chunk, try) + Timeout <= chunk * PerRequest
        /\ chunk * PerRequest <= Chunks * PerRequest
    BY ShareBound
  <2>3. (chunk - 1) * PerRequest \in Nat /\ (try - 1) * (Timeout + MaxWait) \in Nat
        /\ chunk * PerRequest \in Nat /\ Chunks * PerRequest \in Nat
    OBVIOUS
  <2>4. QED
    BY <2>1, <2>2, <2>3
<1> HIDE DEF Share
<1>1. ASSUME NEW d \in AttemptTimes, Answered(d) PROVE TimeInv'
  <2>1. elapsed' <= chunk * PerRequest
    BY <1>0, <1>1 DEF Answered
  <2>2. CASE chunk < Chunks /\ chunk' = chunk + 1 /\ try' = 1 /\ UNCHANGED phase
    <3>1. Before' = chunk * PerRequest
      BY <1>0, <2>2 DEF Share
    <3>2. QED
      BY <1>0, <1>1, <2>1, <2>2, <3>1 DEF Answered, WorstCase
  <2>3. CASE chunk = Chunks /\ phase' = "writing" /\ UNCHANGED <<chunk, try>>
    BY <1>0, <1>1, <2>1, <2>3 DEF Answered, WorstCase
  <2>4. QED
    BY <1>1, <2>2, <2>3 DEF Answered
<1>2. ASSUME NEW d \in AttemptTimes, NEW seconds \in RetryAfters, Retried(d, seconds) PROVE TimeInv'
  <2>1. after' \in Int
    <3>1. seconds * Second \in Int
      OBVIOUS
    <3>2. QED
      BY <1>2, <3>1, WrapIsInt DEF Retried
  <2>2. Before' = Before
    BY <1>0, <1>2 DEF Retried
  <2>3. QED
    BY <1>0, <1>2, <2>1, <2>2 DEF Retried, LastAttempt, WorstCase
<1>3. ASSUME NEW d \in AttemptTimes, GivenUp(d) PROVE TimeInv'
  BY <1>0, <1>3 DEF GivenUp, WorstCase
<1>4. ASSUME Wait PROVE TimeInv'
  <2>1. PICK w \in Waits(try, after) : elapsed' = elapsed + w
    BY <1>4 DEF Wait
  <2>2. w \in 0..MaxWait
    BY <1>4, <2>1, WaitBound DEF Wait
  <2>3. Before' = Before + Timeout + MaxWait
    BY <1>0, <1>4 DEF Share, Wait
  <2>4. Before' + Timeout <= chunk * PerRequest
    <3>1. try + 1 \in 1..MaxAttempts /\ try + 1 = try' /\ chunk = chunk'
      BY <1>4 DEF Wait
    <3>2. Share(chunk, try + 1) + Timeout <= chunk * PerRequest
      BY <3>1, ShareBound DEF Share
    <3>3. QED
      BY <1>0, <3>1, <3>2
  <2>5. QED
    BY <1>0, <1>4, <2>1, <2>2, <2>3, <2>4 DEF Wait, WorstCase
<1>5. ASSUME NEW d \in WriteTimes, Written(d) PROVE TimeInv'
  BY <1>0, <1>5 DEF Written, WorstCase
<1>6. CASE UNCHANGED timeVars
  BY <1>0, <1>6 DEF timeVars, Before, WorstCase, PerRequest, MaxWait
<1>7. QED
  BY <1>1, <1>2, <1>3, <1>4, <1>5, <1>6 DEF TimeNext

\* Type correctness: no request is tried more often than configured and the counters
\* of a dispatch stay in their ranges, for any configuration (send).
THEOREM TimeTypeCorrect == TimeSpec => []TimeTypeOK
<1>1. TimeInv => TimeTypeOK
  BY DEF TimeInv
<1>2. QED
  BY <1>1, TimeInitInv, TimeStepInv, PTL DEF TimeSpec

\* With a configuration that fits, or that never waits, no dispatch panics in backoff: it
\* tries no more often than the shift has room for (backoff, send).
THEOREM BackoffNeverPanics ==
  ASSUME MaxAttempts >= 2 => BackoffFits
  PROVE  TimeSpec => []NeverPanics
<1>1. TimeInv => NeverPanics
  <2> SUFFICES ASSUME TimeInv, phase = "waiting"
               PROVE  JitterRange(try) > 0
    BY DEF NeverPanics
  <2>1. try \in 1..MaxAttempts /\ try < MaxAttempts
    BY DEF TimeInv, TimeTypeOK
  <2>2. MaxAttempts >= 2 /\ try \in 1..(MaxAttempts - 1)
    BY <2>1, TimeAssumption
  <2>3. QED
    BY <2>2, JitterIsPossible
<1>2. QED
  BY <1>1, TimeInitInv, TimeStepInv, PTL DEF TimeSpec

\* A dispatch and the write of its result take no longer than the configuration
\* allows, for any number of chunks, timeouts and Retry-After headers.
THEOREM DispatchIsBounded == TimeSpec => []WithinWorstCase
<1>1. TimeInv => WithinWorstCase
  BY DEF TimeInv, WithinWorstCase
<1>2. QED
  BY <1>1, TimeInitInv, TimeStepInv, PTL DEF TimeSpec

\* If the worst case is a second shorter than PendingReclaimAfter, no claim is taken
\* over from a request that still runs: the second is lost in the timestamps.
THEOREM LeaseHolds ==
  ASSUME WorstCase + Second <= ReclaimSeconds * Second
  PROVE  TimeSpec => []LeaseOutlasts
<1>1. TimeInv => LeaseOutlasts
  <2> SUFFICES ASSUME TimeInv, Old PROVE FALSE
    BY DEF LeaseOutlasts
  <2> USE TimeAssumption, TimesAreNatural DEF TimeInv, TimeTypeOK
  <2> DEFINE q == (offset + elapsed) \div Second
  <2>1. q \in Nat /\ q * Second <= offset + elapsed
    OBVIOUS
  <2>2. ReclaimSeconds * Second <= q * Second
    BY <2>1, Monotone DEF Old
  <2>3. ReclaimSeconds * Second \in Nat /\ q * Second \in Nat
    BY <2>1
  <2>4. QED
    BY <2>1, <2>2, <2>3
<1>2. QED
  BY <1>1, TimeInitInv, TimeStepInv, PTL DEF TimeSpec
=============================================================================
