------------------------------ MODULE MCIntake ------------------------------
(***************************************************************************)
(* A small instance of Intake for TLC: integers of 15 bits, two different  *)
(* confirmations of one order, and for another order one that overflows    *)
(* and one that is refused.                                                *)
(***************************************************************************)
EXTENDS Intake

CONSTANTS o1, o2, p1, p2, l1, s1, s2, s3

TwoOrders == {o1, o2}
TwoPosts  == {p1, p2}
OneLoad   == {l1}
AllSKUs   == {s1, s2, s3}

Item(sku, qty, price, discount) ==
    [sku |-> sku, qty |-> qty, price |-> price, discount |-> discount]

Body(order, tenant, ref, phone, lines) ==
    [order |-> order, tenant |-> tenant, ref |-> ref, phone |-> phone, complete |-> TRUE,
     items |-> lines]

\* 0.335 x 3 less 33.33 %, where rounding the unit price goes wrong; half a cent.
Odd      == Item(s1, 3, 335, 33330)
HalfCent == Item(s2, 1, 1005, 0)

MCBodies ==
    { Body(o1, "tenant_beta", "CUST-882", "none", <<Odd, HalfCent>>),
      Body(o1, "tenant_alpha", "none", "+60 12", <<HalfCent, Odd, Item(s3, 2, 180, 12500)>>),
      \* 82.00 x 3 leaves the small int64
      Body(o2, "tenant_alpha", "free text", "none", <<Item(s1, 3, 82000, 0)>>),
      \* refused: a negative price
      Body(o2, "tenant_beta", "CUST-882", "none", <<Item(s1, 1, -335, 0)>>) }

\* A customer known by phone, of the tenant whose ERP wants a reference.
MCPhoneBodies ==
    { Body(o, "tenant_beta", "none", "+60 12", <<Odd>>) : o \in Orders } \cup MCBodies
=============================================================================
