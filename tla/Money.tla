------------------------------- MODULE Money -------------------------------
(***************************************************************************)
(* pkg/money and the totals of an order: amounts are 64-bit counts of      *)
(* cents, prices and discounts enter as decimals.  A decimal is given in   *)
(* thousandths, the first place that ParseDecimal rounds off.  big.Rat is  *)
(* exact and stands for the integers of TLA+; int64 wraps around.          *)
(***************************************************************************)
EXTENDS Int64, Sequences

Amounts == (-Half)..(Half - 1)

Scale          == 100     \* cents of a major unit, basis points of a percent
Thousandths    == 1000
BPS            == 10000   \* basis points of a whole
BetaSSTPercent == 8

Magnitude(x) == IF x < 0 THEN -x ELSE x

\* num / den for den > 0, to the nearest integer, half away from zero.
Rounded(num, den) ==
    LET quo == Magnitude(num) \div den
        rem == Magnitude(num) % den
        abs == IF 2 * rem >= den THEN quo + 1 ELSE quo
    IN  IF num < 0 THEN -abs ELSE abs

ParseDecimal(thousandths) == Rounded(thousandths * Scale, Thousandths)
Parses(thousandths)       == ParseDecimal(thousandths) \in Amounts

Mul(a, qty) == Wrap(a * qty)

MulRatio(a, num, den) == Rounded(a * num, den)
ApplyDiscount(a, bps) == IF bps = 0 THEN a ELSE MulRatio(a, BPS - bps, BPS)
Percent(a, pct)       == MulRatio(a, pct, 100)

\* Mutated form of LineTotal: the discounted unit price is rounded.
LineTotalByUnit(item) == Mul(ApplyDiscount(item.price, item.bps), item.qty)

LineTotal(item) == ApplyDiscount(Mul(item.price, item.qty), item.bps)

\* The sum of the line totals, wrapping around as it grows.
Subtotal(items) ==
    LET total[n \in 0..Len(items)] ==
          IF n = 0 THEN 0 ELSE Wrap(total[n - 1] + LineTotal(items[n]))
    IN  total[Len(items)]

-----------------------------------------------------------------------------
(***************************************************************************)
(* What the results should be, without a rounding algorithm.               *)
(***************************************************************************)
\* r is the integer nearest to num / den, a half counted away from zero.
Nearest(num, den, r) ==
    /\ 2 * Magnitude(r * den - num) <= den
    /\ 2 * Magnitude(r * den - num) = den => Magnitude(r * den) > Magnitude(num)

\* The elements of a sequence of integers added up, without a width.
SumOf(s) ==
    LET sum[n \in 0..Len(s)] == IF n = 0 THEN 0 ELSE sum[n - 1] + s[n]
    IN  sum[Len(s)]

\* What the lines of an order cost before discounts.
Gross(items) == SumOf([i \in DOMAIN items |-> items[i].price * items[i].qty])

\* DECISIONS.md: round(unit_cents x qty x (10000 - discount_bps) / 10000).
PricedRight(item, total) == Nearest(item.price * item.qty * (BPS - item.bps), BPS, total)
=============================================================================
