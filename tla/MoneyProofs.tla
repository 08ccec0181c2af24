---------------------------- MODULE MoneyProofs ----------------------------
(***************************************************************************)
(* Rounding and line totals for integers of any size and any word size.    *)
(***************************************************************************)
EXTENDS Money, WellFoundedInduction, TLAPS

(***************************************************************************)
(* Induction and recursion, for sets: the natural numbers are well-founded *)
(* (WFMin), and a set of them stands for what is proved by induction.      *)
(***************************************************************************)
\* A set of natural numbers has a least element.
LEMMA LeastNumber ==
  ASSUME NEW T, T \subseteq Nat, T # {}
  PROVE  \E m \in T : \A k \in T : m <= k
<1>1. PICK m \in T : \A k \in T : ~(<<k, m>> \in OpToRel(<, Nat))
  BY WFMin, NatLessThanWellFounded
<1>2. \A k \in T : <<k, m>> \in OpToRel(<, Nat) <=> k < m
  BY DEF OpToRel
<1>3. \A k \in T : m <= k
  <2> TAKE k \in T
  <2>1. ~(k < m)
    BY <1>1, <1>2
  <2>2. k \in Nat /\ m \in Nat
    OBVIOUS
  <2> HIDE <1>1, <1>2
  <2>3. QED
    BY <2>1, <2>2
<1>4. QED
  BY <1>3

\* A set that holds 0 and, with each natural number, the next, holds them all.
LEMMA SetInduction ==
  ASSUME NEW T, 0 \in T, \A n \in Nat : n \in T => n + 1 \in T
  PROVE  Nat \subseteq T
<1> SUFFICES ASSUME Nat \ T # {}
             PROVE  FALSE
  OBVIOUS
<1>1. PICK m \in Nat \ T : \A k \in Nat \ T : m <= k
  BY LeastNumber
<1>2. m - 1 \in Nat /\ m - 1 \in T
  BY <1>1
<1>3. QED
  BY <1>1, <1>2

\* f is the function that its first value and the way from each value to the next define.
Recursive(f, N, first, next) ==
    /\ f[0] = first
    /\ \A n \in 1..N : f[n] = next[<<f[n - 1], n>>]

\* A recursive function over 0..N exists.
LEMMA RecursionExists ==
  ASSUME NEW S, NEW first \in S, NEW N \in Nat, NEW next \in [S \X (1..N) -> S]
  PROVE  \E f \in [0..N -> S] : Recursive(f, N, first, next)
<1> DEFINE T == {m \in Nat : m <= N => \E f \in [0..m -> S] : Recursive(f, m, first, next)}
<1>1. 0 \in T
  <2> DEFINE f == [n \in 0..0 |-> first]
  <2>1. f \in [0..0 -> S] /\ Recursive(f, 0, first, next)
    BY DEF Recursive
  <2>2. QED
    BY <2>1
<1>2. ASSUME NEW m \in Nat, m \in T
      PROVE  m + 1 \in T
  <2> SUFFICES ASSUME m + 1 <= N
               PROVE  \E f \in [0..(m + 1) -> S] : Recursive(f, m + 1, first, next)
    OBVIOUS
  <2>1. PICK f \in [0..m -> S] : Recursive(f, m, first, next)
    BY <1>2
  <2> DEFINE g == [n \in 0..(m + 1) |-> IF n = m + 1 THEN next[<<f[m], m + 1>>] ELSE f[n]]
  <2>2. next[<<f[m], m + 1>>] \in S
    OBVIOUS
  <2>3. g \in [0..(m + 1) -> S]
    BY <2>2
  <2>4. ASSUME NEW n \in 1..(m + 1)
        PROVE  g[n] = next[<<g[n - 1], n>>]
    <3>1. n - 1 \in 0..(m + 1) /\ n - 1 # m + 1 /\ g[n - 1] = f[n - 1]
      OBVIOUS
    <3>2. CASE n = m + 1
      BY <3>1, <3>2
    <3>3. CASE n # m + 1
      <4>1. n \in 1..m /\ g[n] = f[n]
        BY <3>3
      <4>2. QED
        BY <2>1, <3>1, <4>1 DEF Recursive
    <3>4. QED
      BY <3>2, <3>3
  <2>5. g[0] = first
    BY <2>1 DEF Recursive
  <2> HIDE DEF g
  <2>6. Recursive(g, m + 1, first, next)
    BY <2>4, <2>5 DEF Recursive
  <2>7. QED
    BY <2>3, <2>6
<1> HIDE DEF T
<1>3. N \in T
  BY <1>1, <1>2, SetInduction
<1>4. QED
  BY <1>3 DEF T

(***************************************************************************)
(* Sums of any length.                                                     *)
(***************************************************************************)
\* f holds the sums of the first elements of a.
RunningSum(f, a, N) ==
    /\ f \in [0..N -> Int] /\ f[0] = 0
    /\ \A n \in 1..N : f[n] = f[n - 1] + a[n]

\* SumOf is the last of the running sums.
LEMMA SumOfRuns ==
  ASSUME NEW N \in Nat, NEW a \in [1..N -> Int]
  PROVE  \E f : RunningSum(f, a, N) /\ SumOf(a) = f[N]
<1> DEFINE next   == [x \in Int \X (1..N) |-> x[1] + a[x[2]]]
           Adds(f) == f = [n \in 0..N |-> IF n = 0 THEN 0 ELSE f[n - 1] + a[n]]
           sum    == CHOOSE f : Adds(f)
<1>1. Len(a) = N
  OBVIOUS
<1>2. SumOf(a) = sum[N]
  BY <1>1 DEF SumOf
<1>3. \E f : Adds(f)
  <2>1. next \in [Int \X (1..N) -> Int] /\ 0 \in Int
    OBVIOUS
  <2>2. \A x \in Int, n \in 1..N : next[<<x, n>>] = x + a[n]
    OBVIOUS
  <2> HIDE DEF next
  <2>3. PICK f \in [0..N -> Int] : Recursive(f, N, 0, next)
    BY <2>1, RecursionExists
  <2>4. ASSUME NEW n \in 1..N
        PROVE  f[n] = f[n - 1] + a[n]
    <3>1. f[n - 1] \in Int
      OBVIOUS
    <3>2. f[n] = next[<<f[n - 1], n>>]
      BY <2>3 DEF Recursive
    <3>3. QED
      BY <2>2, <3>1, <3>2
  <2>5. f = [n \in 0..N |-> IF n = 0 THEN 0 ELSE f[n - 1] + a[n]]
    BY <2>3, <2>4 DEF Recursive
  <2>6. QED
    BY <2>5
<1> HIDE DEF Adds
<1>4. Adds(sum)
  BY <1>3, Zenon
<1> HIDE DEF sum
<1>5. sum = [n \in 0..N |-> IF n = 0 THEN 0 ELSE sum[n - 1] + a[n]]
  BY <1>4 DEF Adds
<1>6. \A n \in 1..N : sum[n] = sum[n - 1] + a[n]
  BY <1>5
<1>7. sum[0] = 0
  BY <1>5
<1>8. \A n \in 0..N : sum[n] \in Int
  <2> DEFINE T == {n \in Nat : n \in 0..N => sum[n] \in Int}
  <2>1. 0 \in T
    BY <1>7
  <2>2. ASSUME NEW n \in Nat, n \in T
        PROVE  n + 1 \in T
    <3>1. n + 1 \in 0..N => sum[n + 1] = sum[n] + a[n + 1] /\ n \in 0..N
      BY <1>6
    <3>2. QED
      BY <2>2, <3>1
  <2> HIDE DEF T
  <2>3. Nat \subseteq T
    BY <2>1, <2>2, SetInduction
  <2>4. QED
    BY <2>3 DEF T
<1>9. sum \in [0..N -> Int]
  BY <1>5, <1>8
<1>10. QED
  BY <1>2, <1>6, <1>7, <1>9 DEF RunningSum

\* Sums of smaller elements are smaller, and no element exceeds a sum of natural numbers.
LEMMA SumsGrow ==
  ASSUME NEW N \in Nat, NEW a \in [1..N -> Nat], NEW b \in [1..N -> Nat],
         \A i \in 1..N : a[i] <= b[i]
  PROVE  /\ SumOf(a) \in 0..SumOf(b) /\ SumOf(b) \in Nat
         /\ \A i \in 1..N : b[i] <= SumOf(b)
<1>1. PICK f : RunningSum(f, a, N) /\ SumOf(a) = f[N]
  BY SumOfRuns
<1>2. PICK g : RunningSum(g, b, N) /\ SumOf(b) = g[N]
  BY SumOfRuns
<1> DEFINE T == {n \in Nat : n \in 0..N => /\ g[n] \in Nat /\ f[n] \in 0..g[n]
                                           /\ \A i \in 1..n : b[i] <= g[n]}
<1>3. 0 \in T
  BY <1>1, <1>2 DEF RunningSum
<1>4. ASSUME NEW n \in Nat, n \in T
      PROVE  n + 1 \in T
  <2> SUFFICES ASSUME n + 1 \in 0..N
               PROVE  /\ g[n + 1] \in Nat /\ f[n + 1] \in 0..g[n + 1]
                      /\ \A i \in 1..(n + 1) : b[i] <= g[n + 1]
    OBVIOUS
  <2>1. n \in 0..N /\ n + 1 \in 1..N
    OBVIOUS
  <2>2. g[n] \in Nat /\ f[n] \in 0..g[n] /\ \A i \in 1..n : b[i] <= g[n]
    BY <1>4, <2>1
  <2>3. f[n + 1] = f[n] + a[n + 1] /\ g[n + 1] = g[n] + b[n + 1]
    BY <1>1, <1>2, <2>1 DEF RunningSum
  <2>4. a[n + 1] \in Nat /\ b[n + 1] \in Nat /\ a[n + 1] <= b[n + 1]
    BY <2>1
  <2>5. \A i \in 1..(n + 1) : i \in 1..n \/ i = n + 1
    OBVIOUS
  <2>6. \A i \in 1..n : b[i] \in Nat
    BY <2>1
  <2>7. QED
    BY <2>2, <2>3, <2>4, <2>5, <2>6
<1> HIDE DEF T
<1>5. N \in T
  BY <1>3, <1>4, SetInduction
<1>6. QED
  BY <1>1, <1>2, <1>5 DEF T

\* Division with remainder of a natural number.
LEMMA QuoRem ==
  ASSUME NEW m \in Nat, NEW den \in Nat \ {0}
  PROVE  /\ m \div den \in Nat /\ m % den \in 0..(den - 1)
         /\ m = (m \div den) * den + (m % den)
OBVIOUS

\* The magnitude of a number is natural and multiplies like the number.
LEMMA Magnitudes ==
  ASSUME NEW x \in Int
  PROVE  /\ Magnitude(x) \in Nat
         /\ x >= 0 => Magnitude(x) = x
         /\ x < 0 => Magnitude(x) = -x
BY DEF Magnitude

\* fromRat rounds to the nearest integer, a half away from zero.
THEOREM RoundedIsNearest ==
  ASSUME NEW num \in Int, NEW den \in Nat \ {0}
  PROVE  /\ Rounded(num, den) \in Int
         /\ Nearest(num, den, Rounded(num, den))
<1> DEFINE m   == Magnitude(num)
           quo == m \div den
           rem == m % den
           abs == IF 2 * rem >= den THEN quo + 1 ELSE quo
<1>1. m \in Nat
  BY Magnitudes
<1>2. quo \in Nat /\ rem \in 0..(den - 1) /\ m = quo * den + rem
  BY <1>1, QuoRem
<1>3. abs \in Nat /\ Rounded(num, den) = IF num < 0 THEN -abs ELSE abs
  BY <1>2 DEF Rounded
<1> HIDE DEF quo, rem
<1>4. abs * den - m = IF 2 * rem >= den THEN den - rem ELSE -rem
  <2>1. quo * den \in Int /\ (quo + 1) * den = quo * den + den
    BY <1>2
  <2>2. QED
    BY <1>1, <1>2, <2>1
<1> HIDE DEF abs, m
<1>5. /\ 2 * Magnitude(abs * den - m) <= den
      /\ 2 * Magnitude(abs * den - m) = den => abs * den > m
  BY <1>1, <1>2, <1>3, <1>4 DEF Magnitude
<1>6. CASE num >= 0
  <2>1. Rounded(num, den) = abs /\ m = num
    BY <1>3, <1>6, Magnitudes DEF m
  <2>2. abs * den \in Nat /\ Magnitude(abs * den) = abs * den /\ Magnitude(num) = num
    BY <1>3, <1>6 DEF Magnitude
  <2>3. QED
    BY <1>3, <1>5, <2>1, <2>2 DEF Nearest
<1>7. CASE num < 0
  <2>1. Rounded(num, den) = -abs /\ m = -num
    BY <1>3, <1>7, Magnitudes DEF m
  <2>2. abs * den \in Nat /\ (-abs) * den = -(abs * den)
    BY <1>3
  <2>3. /\ Magnitude((-abs) * den) = abs * den /\ Magnitude(num) = m
        /\ Magnitude((-abs) * den - num) = Magnitude(abs * den - m)
    BY <1>1, <1>7, <2>1, <2>2 DEF Magnitude
  <2>4. QED
    BY <1>3, <1>5, <2>1, <2>3 DEF Nearest
<1>8. QED
  BY <1>6, <1>7

\* A ratio of at most one makes no amount larger, so that the panic of MulRatio is
\* indeed unreachable for discounts and for percentages up to a hundred.
THEOREM RatioShrinks ==
  ASSUME NEW a \in Int, NEW den \in Nat \ {0}, NEW num \in 0..den
  PROVE  /\ MulRatio(a, num, den) \in Int
         /\ a >= 0 => MulRatio(a, num, den) \in 0..a
         /\ a <= 0 => MulRatio(a, num, den) \in a..0
<1> DEFINE m   == Magnitude(a * num)
           quo == m \div den
           rem == m % den
           abs == IF 2 * rem >= den THEN quo + 1 ELSE quo
           top == Magnitude(a)
<1>1. top \in Nat /\ m \in Nat /\ m = top * num
  BY DEF Magnitude
<1>2. m <= top * den
  BY <1>1
<1>3. quo \in Nat /\ rem \in 0..(den - 1) /\ m = quo * den + rem
  BY <1>1, QuoRem
<1>4. abs \in Nat /\ MulRatio(a, num, den) = IF a * num < 0 THEN -abs ELSE abs
  BY <1>3 DEF Rounded, MulRatio
<1> HIDE DEF quo, rem, m, top
<1>5. abs <= top
  <2>1. quo <= top
    <3>1. CASE quo >= top + 1
      <4>1. quo * den >= (top + 1) * den
        BY <1>1, <1>3, <3>1
      <4>2. (top + 1) * den = top * den + den
        BY <1>1
      <4>3. QED
        BY <1>1, <1>2, <1>3, <4>1, <4>2
    <3>2. QED
      BY <1>1, <1>3, <3>1
  <2>2. quo = top => rem = 0
    BY <1>1, <1>2, <1>3
  <2>3. QED
    BY <1>1, <1>3, <2>1, <2>2
<1> HIDE DEF abs
<1>6. CASE a >= 0
  BY <1>1, <1>4, <1>5, <1>6 DEF top, Magnitude
<1>7. CASE a < 0
  <2>1. a * num <= 0
    BY <1>7
  <2>2. a * num = 0 => abs = 0
    BY <1>1, <1>3 DEF abs, m, quo, rem, Magnitude
  <2>3. QED
    BY <1>1, <1>4, <1>5, <1>7, <2>1, <2>2 DEF top, Magnitude
<1>8. QED
  BY <1>6, <1>7

\* An int64 holds what wrapping leaves, and keeps what fits.
LEMMA WrapFits ==
  ASSUME NEW x \in Int
  PROVE  /\ Wrap(x) \in Amounts
         /\ x \in Amounts => Wrap(x) = x
<1>1. 2 * Half \in Nat \ {0}
  BY HalfAssumption
<1>2. (x + Half) % (2 * Half) \in 0..(2 * Half - 1)
  BY <1>1, HalfAssumption
<1>3. x \in Amounts => (x + Half) % (2 * Half) = x + Half
  <2>1. \A n, w \in Nat : n < w => n % w = n
    OBVIOUS
  <2>2. x \in Amounts => x + Half \in Nat /\ x + Half < 2 * Half
    BY HalfAssumption DEF Amounts
  <2>3. QED
    BY <1>1, <2>1, <2>2
<1>4. QED
  BY <1>2, <1>3, HalfAssumption DEF Wrap, Amounts

\* An item as Validate lets it through.
ValidItem(item) ==
    /\ item.price \in Nat /\ item.price \in Amounts
    /\ item.qty \in Nat \ {0}
    /\ item.bps \in 0..BPS

\* What a discount leaves is a share of at most the whole (ApplyDiscount).
LEMMA DiscountInRange ==
  ASSUME NEW item, ValidItem(item)
  PROVE  BPS - item.bps \in 0..BPS /\ BPS \in Nat \ {0}
<1>1. BPS \in Nat \ {0}
  BY DEF BPS
<1>2. item.bps \in 0..BPS
  BY DEF ValidItem
<1>3. BPS - item.bps \in 0..BPS
  BY <1>1, <1>2
<1>4. QED
  BY <1>1, <1>3

\* Every valid item has a line total that an int64 holds: nothing panics, whatever
\* the multiplication has wrapped around to.
THEOREM LineTotalFits ==
  ASSUME NEW item, ValidItem(item)
  PROVE  LineTotal(item) \in Amounts
<1> DEFINE gross == Mul(item.price, item.qty)
<1>1. gross \in Amounts /\ gross \in Int
  <2>1. item.price * item.qty \in Int
    BY DEF ValidItem
  <2>2. QED
    BY <2>1, WrapFits, HalfAssumption DEF Mul, Amounts
<1> HIDE DEF gross
<1>2. BPS - item.bps \in 0..BPS /\ BPS \in Nat \ {0}
  BY DiscountInRange
<1>3. MulRatio(gross, BPS - item.bps, BPS) \in Amounts
  <2> DEFINE net == MulRatio(gross, BPS - item.bps, BPS)
  <2>1. net \in Int /\ (gross >= 0 => net \in 0..gross) /\ (gross <= 0 => net \in gross..0)
    BY <1>1, <1>2, RatioShrinks
  <2> HIDE DEF net
  <2>2. net \in Amounts
    BY <1>1, <2>1, HalfAssumption DEF Amounts
  <2>3. QED
    BY <2>2 DEF net
<1>4. QED
  BY <1>1, <1>3 DEF LineTotal, ApplyDiscount, gross

\* As long as price times quantity fits, the line total is the documented one,
\* rounded once, and lies between nothing and the undiscounted price.
THEOREM LineTotalIsRight ==
  ASSUME NEW item, ValidItem(item), item.price * item.qty \in Amounts
  PROVE  /\ PricedRight(item, LineTotal(item))
         /\ LineTotal(item) \in 0..(item.price * item.qty)
<1> DEFINE gross == item.price * item.qty
           kept  == BPS - item.bps
<1>1. gross \in Nat /\ Mul(item.price, item.qty) = gross
  <2>1. gross \in Nat
    BY DEF ValidItem
  <2>2. QED
    BY <2>1, WrapFits DEF Mul
<1>2. kept \in 0..BPS /\ BPS \in Nat \ {0}
  BY DiscountInRange
<1>3. item.bps # 0 => LineTotal(item) = MulRatio(gross, kept, BPS)
  BY <1>1 DEF LineTotal, ApplyDiscount
<1>4. item.bps = 0 => LineTotal(item) = gross /\ kept = BPS
  BY <1>1 DEF LineTotal, ApplyDiscount, BPS
<1>5. PricedRight(item, LineTotal(item)) <=> Nearest(gross * kept, BPS, LineTotal(item))
  BY DEF PricedRight
<1> HIDE DEF gross, kept
<1>6. CASE item.bps # 0
  <2>1. Nearest(gross * kept, BPS, MulRatio(gross, kept, BPS))
    BY <1>1, <1>2, RoundedIsNearest DEF MulRatio
  <2>2. MulRatio(gross, kept, BPS) \in 0..gross
    BY <1>1, <1>2, RatioShrinks
  <2>3. QED
    BY <1>3, <1>5, <1>6, <2>1, <2>2 DEF gross
<1>7. CASE item.bps = 0
  <2>1. Nearest(gross * kept, BPS, gross)
    BY <1>1, <1>4, <1>7 DEF Nearest, Magnitude, BPS
  <2>2. gross \in 0..gross
    BY <1>1
  <2>3. QED
    BY <1>4, <1>5, <1>7, <2>1, <2>2 DEF gross
<1>8. QED
  BY <1>6, <1>7

(***************************************************************************)
(* Subtotals.                                                              *)
(***************************************************************************)
\* A remainder is determined by a quotient.
LEMMA RemainderUnique ==
  ASSUME NEW w \in Nat \ {0}, NEW q \in Int, NEW r \in 0..(w - 1)
  PROVE  (q * w + r) % w = r
<1> DEFINE x == q * w + r
           p == x \div w
           m == x % w
<1>1. x \in Int
  OBVIOUS
<1>2. p \in Int /\ m \in 0..(w - 1) /\ x = p * w + m
  <2> HIDE DEF x
  <2>1. QED
    BY <1>1
<1>3. p * w + m = q * w + r
  BY <1>2
<1> HIDE DEF x, p, m
<1>4. (p - q) * w = r - m /\ (q - p) * w = m - r
  BY <1>2, <1>3
<1>5. p = q
  <2>1. CASE p > q
    <3>1. (p - q) * w >= 1 * w
      BY <1>2, <2>1
    <3>2. QED
      BY <1>2, <1>4, <3>1
  <2>2. CASE q > p
    <3>1. (q - p) * w >= 1 * w
      BY <1>2, <2>2
    <3>2. QED
      BY <1>2, <1>4, <3>1
  <2>3. QED
    BY <1>2, <2>1, <2>2
<1>6. m = r
  BY <1>2, <1>3, <1>5
<1>7. QED
  BY <1>6 DEF m, x

\* Wrapping on the way to a sum changes nothing of its last wrap: int64 addition is
\* addition modulo 2^64.
LEMMA WrapAbsorbed ==
  ASSUME NEW x \in Int, NEW y \in Int
  PROVE  Wrap(Wrap(x) + y) = Wrap(x + y)
<1> DEFINE w == 2 * Half
           k == (x + Half) \div w
           r == (x + y + Half) % w
           q == (x + y + Half) \div w
<1>1. w \in Nat \ {0} /\ Half \in Nat
  BY HalfAssumption
<1>2. k \in Int /\ x + Half = k * w + ((x + Half) % w) /\ (x + Half) % w \in Int
  <2> HIDE DEF w
  <2>1. QED
    BY <1>1
<1>3. q \in Int /\ r \in 0..(w - 1) /\ x + y + Half = q * w + r
  <2> HIDE DEF w
  <2>1. QED
    BY <1>1
<1>4. Wrap(x) = (x + Half) - k * w - Half
  <2> DEFINE m == (x + Half) % w
  <2>1. Wrap(x) = m - Half
    BY DEF Wrap
  <2>2. m \in Int /\ x + Half = k * w + m
    BY <1>2
  <2> HIDE DEF m, k, w
  <2>3. k * w \in Int
    BY <1>1, <1>2
  <2>4. QED
    BY <1>1, <2>1, <2>2, <2>3
<1>5. Wrap(x) + y + Half = (q - k) * w + r
  <2> HIDE DEF k, q, r, w
  <2>1. (q - k) * w = q * w - k * w /\ q * w \in Int /\ k * w \in Int
    BY <1>1, <1>2, <1>3
  <2>2. QED
    BY <1>1, <1>2, <1>3, <1>4, <2>1
<1>6. ((q - k) * w + r) % w = r
  <2> HIDE DEF k, q, r, w
  <2>1. q - k \in Int
    BY <1>2, <1>3
  <2>2. QED
    BY <1>1, <1>3, <2>1, RemainderUnique
<1>7. QED
  BY <1>5, <1>6 DEF Wrap

\* The items of an order as Validate lets them through.
ValidItems(items) == DOMAIN items = 1..Len(items) /\ \A i \in DOMAIN items : ValidItem(items[i])

Totals(items) == [i \in DOMAIN items |-> LineTotal(items[i])]

\* Subtotal wraps around as it adds, and comes to the wrapped sum of the line totals.
THEOREM SubtotalWrapsOnce ==
  ASSUME NEW items, Len(items) \in Nat, ValidItems(items)
  PROVE  Subtotal(items) = Wrap(SumOf(Totals(items)))
<1> DEFINE N       == Len(items)
           a       == Totals(items)
           next    == [x \in Int \X (1..N) |-> Wrap(x[1] + a[x[2]])]
           Adds(f) == f = [n \in 0..N |->
                              IF n = 0 THEN 0 ELSE Wrap(f[n - 1] + LineTotal(items[n]))]
           total   == CHOOSE f : Adds(f)
<1>1. N \in Nat /\ DOMAIN items = 1..N
  BY DEF ValidItems
<1>2. Subtotal(items) = total[N]
  BY DEF Subtotal
<1> HIDE DEF N
<1>3. a \in [1..N -> Int] /\ \A n \in 1..N : a[n] = LineTotal(items[n])
  <2>1. \A n \in 1..N : LineTotal(items[n]) \in Int
    <3> TAKE n \in 1..N
    <3>1. ValidItem(items[n])
      BY <1>1 DEF ValidItems
    <3>2. LineTotal(items[n]) \in Amounts
      BY <3>1, LineTotalFits
    <3>3. QED
      BY <3>2, HalfAssumption DEF Amounts
  <2>2. QED
    BY <1>1, <2>1 DEF Totals
<1> HIDE DEF a
<1>4. \E f : Adds(f)
  <2>1. next \in [Int \X (1..N) -> Int] /\ 0 \in Int
    <3>1. \A x \in Int : Wrap(x) \in Int
      BY WrapFits, HalfAssumption DEF Amounts
    <3>2. QED
      BY <1>3, <3>1
  <2>2. \A x \in Int, n \in 1..N : next[<<x, n>>] = Wrap(x + a[n])
    OBVIOUS
  <2> HIDE DEF next
  <2>3. PICK f \in [0..N -> Int] : Recursive(f, N, 0, next)
    BY <1>1, <2>1, RecursionExists
  <2>4. ASSUME NEW n \in 1..N
        PROVE  f[n] = Wrap(f[n - 1] + LineTotal(items[n]))
    <3>1. f[n - 1] \in Int
      BY <1>1
    <3>2. f[n] = next[<<f[n - 1], n>>]
      BY <2>3 DEF Recursive
    <3>3. QED
      BY <1>3, <2>2, <3>1, <3>2
  <2>5. f = [n \in 0..N |-> IF n = 0 THEN 0 ELSE Wrap(f[n - 1] + LineTotal(items[n]))]
    BY <1>1, <2>3, <2>4 DEF Recursive
  <2>6. QED
    BY <2>5
<1> HIDE DEF Adds
<1>5. Adds(total)
  BY <1>4, Zenon
<1> HIDE DEF total
<1>6. /\ total[0] = 0
      /\ \A n \in 1..N : total[n] = Wrap(total[n - 1] + a[n])
  BY <1>1, <1>3, <1>5 DEF Adds
<1>7. PICK f : RunningSum(f, a, N) /\ SumOf(a) = f[N]
  BY <1>1, <1>3, SumOfRuns
<1> DEFINE T == {n \in Nat : n \in 0..N => total[n] = Wrap(f[n])}
<1>8. 0 \in T
  <2>1. Wrap(0) = 0
    BY WrapFits, HalfAssumption DEF Amounts
  <2>2. QED
    BY <1>6, <1>7, <2>1 DEF RunningSum
<1>9. ASSUME NEW n \in Nat, n \in T
      PROVE  n + 1 \in T
  <2> SUFFICES ASSUME n + 1 \in 0..N
               PROVE  total[n + 1] = Wrap(f[n + 1])
    OBVIOUS
  <2>1. n \in 0..N /\ n + 1 \in 1..N /\ (n + 1) - 1 = n
    BY <1>1
  <2>2. total[n + 1] = Wrap(Wrap(f[n]) + a[n + 1])
    BY <1>6, <1>9, <2>1
  <2>3. f[n + 1] = f[n] + a[n + 1] /\ f[n] \in Int /\ a[n + 1] \in Int
    BY <1>3, <1>7, <2>1 DEF RunningSum
  <2>4. QED
    BY <2>2, <2>3, WrapAbsorbed
<1> HIDE DEF T
<1>10. N \in T
  BY <1>1, <1>8, <1>9, SetInduction
<1>11. QED
  BY <1>1, <1>2, <1>7, <1>10 DEF T, a

\* As long as the undiscounted order fits 64 bits, with as much again to spare, no
\* addition or multiplication of its pricing wraps: the subtotal is the sum of the line
\* totals, and each of them is the documented one.
THEOREM SubtotalIsRight ==
  ASSUME NEW items, Len(items) \in Nat, ValidItems(items), 2 * Gross(items) \in Amounts
  PROVE  /\ Subtotal(items) = SumOf(Totals(items))
         /\ Subtotal(items) \in 0..Gross(items) /\ Gross(items) \in Nat
         /\ \A i \in DOMAIN items : PricedRight(items[i], Totals(items)[i])
<1> DEFINE N == Len(items)
           a == Totals(items)
           b == [i \in DOMAIN items |-> items[i].price * items[i].qty]
<1>1. N \in Nat /\ DOMAIN items = 1..N /\ \A i \in 1..N : ValidItem(items[i])
  BY DEF ValidItems
<1>2. Gross(items) = SumOf(b)
  BY DEF Gross
<1>3. Subtotal(items) = Wrap(SumOf(a))
  BY SubtotalWrapsOnce
<1> HIDE DEF N
<1>4. b \in [1..N -> Nat] /\ \A i \in 1..N : b[i] = items[i].price * items[i].qty
  <2>1. \A i \in 1..N : items[i].price * items[i].qty \in Nat
    BY <1>1 DEF ValidItem
  <2>2. QED
    BY <1>1, <2>1
<1> HIDE DEF b
<1>5. SumOf(b) \in Nat /\ \A i \in 1..N : b[i] \in 0..SumOf(b)
  BY <1>1, <1>4, SumsGrow
<1>6. \A x \in 0..SumOf(b) : x \in Amounts
  BY <1>2, <1>5, HalfAssumption DEF Amounts
<1>7. \A i \in 1..N : PricedRight(items[i], LineTotal(items[i])) /\ LineTotal(items[i]) \in 0..b[i]
  <2> TAKE i \in 1..N
  <2>1. items[i].price * items[i].qty \in Amounts
    BY <1>4, <1>5, <1>6
  <2>2. QED
    BY <1>1, <1>4, <2>1, LineTotalIsRight
<1>8. a \in [1..N -> Nat] /\ \A i \in 1..N : a[i] = LineTotal(items[i]) /\ a[i] <= b[i]
  <2>1. \A i \in 1..N : LineTotal(items[i]) \in Nat /\ LineTotal(items[i]) <= b[i]
    BY <1>4, <1>7
  <2>2. QED
    BY <1>1, <2>1 DEF Totals
<1> HIDE DEF a
<1>9. SumOf(a) \in 0..SumOf(b)
  BY <1>1, <1>4, <1>8, SumsGrow
<1>10. Wrap(SumOf(a)) = SumOf(a)
  <2>1. SumOf(a) \in Int
    BY <1>5, <1>9
  <2>2. QED
    BY <1>6, <1>9, <2>1, WrapFits
<1>11. QED
  BY <1>1, <1>2, <1>3, <1>5, <1>7, <1>8, <1>9, <1>10 DEF a
=============================================================================
