------------------------------- MODULE Intake -------------------------------
(***************************************************************************)
(* From "Confirm Order" to the requests for the ERP: POST /orders, which   *)
(* stores an order and its lines in one transaction, and the syncs that    *)
(* load the order with two SELECTs, check it and price it.                 *)
(*                                                                         *)
(* A post writes with one statement per line; loads and other posts fall   *)
(* between any two.  SQLite has one writer: the first INSERT takes the     *)
(* lock, COMMIT or ROLLBACK gives it back, and readers see what is         *)
(* committed.  Every order is stored as CONFIRMED, so that the status      *)
(* check of loadOrder always passes.                                       *)
(***************************************************************************)
EXTENDS Money, Mapping, FiniteSets

CONSTANTS
    Orders,
    Posts,        \* slots for POST /orders
    Loads,        \* slots for syncs that load an order
    SKUs,
    Bodies,       \* the confirmations that are posted
    MaxLineItems, \* 200
    MaxFaults     \* bound: errors, cancelled requests, crashes of a behaviour

Tenants    == {"tenant_alpha", "tenant_beta", "unmapped"}
Registered == {"tenant_alpha", "tenant_beta"}
Refs       == {"none", "CUST-882", "free text"}
Phones     == {"none", "+60 12", "+"}

\* A line as it is posted, in thousandths, and as it is stored.
PostedItems == [sku : SKUs, qty : Int, price : Int, discount : Int]
StoredItems == [sku : SKUs, qty : Nat \ {0}, price : Nat \cap Amounts, bps : 0..BPS]

ASSUME IntakeAssumption ==
    /\ Bodies \subseteq [order : Orders, tenant : Tenants, ref : Refs, phone : Phones,
                         complete : BOOLEAN, items : Seq(PostedItems)]
    /\ Posts \cap Loads = {}
    /\ MaxLineItems \in Nat
    /\ MaxFaults \in Nat

VARIABLES
    orders,   \* the committed row of each order: Header, or Blank
    items,    \* the committed rows of order_items, by line_no
    writer,   \* the post whose transaction holds the write lock
    draft,    \* the lines this transaction has inserted
    pc,       \* the next statement of each post and each load
    body,     \* what each post has been given
    reply,    \* how each post or load was answered
    quote,    \* the subtotal that a post was answered with
    held,     \* the order that each load has read
    request,  \* what each load has built
    old,      \* orders confirmed more than 24 hours ago
    faults

intakeVars == <<orders, items, writer, draft, pc, body, reply, quote, held, request, old,
                faults>>

Replies == {"none", "invalid", "exists", "created", "failed", "not_found", "refused", "built"}

Header(b) == [tenant |-> b.tenant, ref |-> b.ref, phone |-> b.phone]
Blank     == [tenant |-> "none", ref |-> "none", phone |-> "none"]
Headers   == [tenant : Registered, ref : Refs, phone : Phones] \cup {Blank}
Stored(o) == orders[o] # Blank

(***************************************************************************)
(* The request.                                                            *)
(***************************************************************************)
Binds(b) ==
    \A i \in DOMAIN b.items : Parses(b.items[i].price) /\ Parses(b.items[i].discount)

\* ToModel, the lines: thousandths become cents and basis points.
ToModel(b) ==
    [i \in DOMAIN b.items |-> [sku   |-> b.items[i].sku,
                               qty   |-> b.items[i].qty,
                               price |-> ParseDecimal(b.items[i].price),
                               bps   |-> ParseDecimal(b.items[i].discount)]]

\* Mutated form of Validate: signs and discounts are not looked at.
ValidateShape(b) ==
    /\ b.complete
    /\ b.phone # "none" \/ b.ref # "none"
    /\ Len(b.items) \in 1..MaxLineItems

\* complete stands for the fields without a part in the rest: ids, time, user, currency.
Validate(b) ==
    /\ b.complete
    /\ b.phone # "none" \/ b.ref # "none"
    /\ Len(b.items) \in 1..MaxLineItems
    /\ \A i \in DOMAIN b.items :
          /\ b.items[i].qty > 0
          /\ ParseDecimal(b.items[i].price) >= 0
          /\ ParseDecimal(b.items[i].discount) \in 0..BPS

Acceptable(b) == Binds(b) /\ Validate(b) /\ b.tenant \in Registered

(***************************************************************************)
(* The mappers: what they refuse, and the amounts they send.               *)
(***************************************************************************)
\* The customer id of ERP A: the reference, or the phone without "+" and spaces.
AlphaCustomer(header) == header.ref # "none" \/ header.phone = "+60 12"

PreValidate(o, header, lines) ==
    /\ lines # <<>>
    /\ \/ header.tenant = "tenant_alpha" /\ AlphaCustomer(header)
       \/ header.tenant = "tenant_beta" /\ o \notin old /\ header.ref = "CUST-882"

\* The amounts in the header of an order of tenant_beta; the tax is charged once.
BetaHeader(lines) ==
    LET untaxed == Subtotal(lines)
        tax     == Percent(untaxed, BetaSSTPercent)
    IN  [untaxed |-> untaxed, tax |-> tax, total |-> Wrap(untaxed + tax)]

NoHeader == [untaxed |-> 0, tax |-> 0, total |-> 0]

\* The line totals of each request, and the header of ERP B.
BuildAmounts(header, lines) ==
    LET totals == [i \in DOMAIN lines |-> LineTotal(lines[i])]
    IN  IF header.tenant = "tenant_alpha"
        THEN [chunks |-> AlphaBuild(totals), header |-> NoHeader]
        ELSE [chunks |-> BetaBuild(totals), header |-> BetaHeader(lines)]

NoRequest == [chunks |-> <<>>, header |-> NoHeader]

(***************************************************************************)
(* Helpers.                                                                *)
(***************************************************************************)
SpendFault == faults < MaxFaults /\ faults' = faults + 1

Return(r, answer) ==
    /\ pc'    = [pc EXCEPT ![r] = "idle"]
    /\ reply' = [reply EXCEPT ![r] = answer]

\* Mutated form of Release: an error path without Rollback.
ReleaseNothing(P) == UNCHANGED <<writer, draft>>

\* The transactions of the posts in P are over.
Release(P) ==
    /\ writer' = writer \ P
    /\ draft'  = IF writer \cap P = {} THEN draft ELSE <<>>

-----------------------------------------------------------------------------
IntakeInit ==
    /\ orders  = [o \in Orders |-> Blank]
    /\ items   = [o \in Orders |-> <<>>]
    /\ writer  = {}
    /\ draft   = <<>>
    /\ pc      = [r \in Posts \cup Loads |-> "idle"]
    /\ body    \in [Posts -> Bodies]
    /\ reply   = [r \in Posts \cup Loads |-> "none"]
    /\ quote   = [p \in Posts |-> 0]
    /\ held    \in [Loads -> {[order |-> o, header |-> Blank, lines |-> <<>>] : o \in Orders}]
    /\ request = [l \in Loads |-> NoRequest]
    /\ old     = {}
    /\ faults  = 0

(***************************************************************************)
(* POST /orders.                                                           *)
(***************************************************************************)
\* Bind, Validate, the registry.
Confirm(p, b) ==
    /\ pc[p] = "idle"
    /\ body'  = [body EXCEPT ![p] = b]
    /\ quote' = [quote EXCEPT ![p] = 0]
    /\ IF Acceptable(b)
       THEN /\ pc'    = [pc EXCEPT ![p] = "inserting"]
            /\ reply' = [reply EXCEPT ![p] = "none"]
       ELSE Return(p, "invalid")
    /\ UNCHANGED <<orders, items, writer, draft, held, request, old, faults>>

\* Mutated form of Conflicts: ON CONFLICT DO UPDATE.
ConflictsNever(o) == FALSE

\* ON CONFLICT (order_id).
Conflicts(o) == Stored(o)

\* Mutated form of InsertOrder: the header is written outside the transaction.
InsertOrderAtOnce(p) ==
    LET o == body[p].order IN
    /\ pc[p] = "inserting" /\ writer = {}
    /\ ~Conflicts(o)
    /\ orders' = [orders EXCEPT ![o] = Header(body[p])]
    /\ writer' = {p}
    /\ pc'     = [pc EXCEPT ![p] = "writing"]
    /\ UNCHANGED <<items, draft, body, reply, quote, held, request, old, faults>>

\* The INSERT of the header, which takes the lock.
InsertOrder(p) ==
    /\ pc[p] = "inserting" /\ writer = {}
    /\ ~Conflicts(body[p].order)
    /\ writer' = {p}
    /\ pc'     = [pc EXCEPT ![p] = "writing"]
    /\ UNCHANGED <<orders, items, draft, body, reply, quote, held, request, old, faults>>

\* No row was inserted: 409, and the transaction is rolled back.
InsertConflict(p) ==
    /\ pc[p] = "inserting" /\ writer = {}
    /\ Conflicts(body[p].order)
    /\ Return(p, "exists")
    /\ UNCHANGED <<orders, items, writer, draft, body, quote, held, request, old, faults>>

\* Another writer keeps the lock for longer than busy_timeout.
Busy(p) ==
    /\ pc[p] = "inserting" /\ writer # {}
    /\ Return(p, "failed")
    /\ UNCHANGED <<orders, items, writer, draft, body, quote, held, request, old, faults>>

\* The INSERT of the next line.
InsertItem(p) ==
    LET lines == ToModel(body[p]) IN
    /\ pc[p] = "writing" /\ Len(draft) < Len(lines)
    /\ draft' = Append(draft, lines[Len(draft) + 1])
    /\ UNCHANGED <<orders, items, writer, pc, body, reply, quote, held, request, old, faults>>

\* COMMIT of the whole order.
Keep(p) ==
    LET o == body[p].order IN
    /\ pc[p] = "writing" /\ Len(draft) = Len(ToModel(body[p]))
    /\ orders' = [orders EXCEPT ![o] = Header(body[p])]
    /\ items'  = [items EXCEPT ![o] = draft]
    /\ Release({p})

\* 201 with the subtotal.
Commit(p) ==
    /\ Keep(p)
    /\ Return(p, "created")
    /\ quote' = [quote EXCEPT ![p] = Subtotal(ToModel(body[p]))]
    /\ UNCHANGED <<body, held, request, old, faults>>

\* The transaction is committed and the caller hears of an error.
CommitUnheard(p) ==
    /\ Keep(p)
    /\ Return(p, "failed")
    /\ SpendFault
    /\ UNCHANGED <<body, quote, held, request, old>>

\* A statement fails, or the client has hung up: rollback.
Rollback(p) ==
    /\ pc[p] # "idle"
    /\ Release({p})
    /\ Return(p, "failed")
    /\ SpendFault
    /\ UNCHANGED <<orders, items, body, quote, held, request, old>>

(***************************************************************************)
(* A sync loads an order: the two SELECTs of loadOrder, then PreValidate   *)
(* and Build.                                                              *)
(***************************************************************************)
LoadOrder(l, o) ==
    /\ pc[l] = "idle"
    /\ request' = [request EXCEPT ![l] = NoRequest]
    /\ held' = [held EXCEPT ![l] = [order |-> o, header |-> orders[o], lines |-> <<>>]]
    /\ IF Stored(o)
       THEN /\ pc'    = [pc EXCEPT ![l] = "loading"]
            /\ reply' = [reply EXCEPT ![l] = "none"]
       ELSE Return(l, "not_found")
    /\ UNCHANGED <<orders, items, writer, draft, body, quote, old, faults>>

LoadItems(l) ==
    LET o == held[l].order IN
    /\ pc[l] = "loading"
    /\ held' = [held EXCEPT ![l].lines = items[o]]
    /\ IF PreValidate(o, held[l].header, items[o])
       THEN /\ request' = [request EXCEPT ![l] = BuildAmounts(held[l].header, items[o])]
            /\ Return(l, "built")
       ELSE Return(l, "refused") /\ UNCHANGED request
    /\ UNCHANGED <<orders, items, writer, draft, body, quote, old, faults>>

\* Time and crashes.
Age(o) ==
    /\ Stored(o) /\ o \notin old
    /\ old' = old \cup {o}
    /\ UNCHANGED <<orders, items, writer, draft, pc, body, reply, quote, held, request, faults>>

\* The process dies, and what was not committed with it.
Crash ==
    /\ \E r \in Posts \cup Loads : pc[r] # "idle"
    /\ pc'    = [r \in Posts \cup Loads |-> "idle"]
    /\ reply' = [r \in Posts \cup Loads |-> IF pc[r] = "idle" THEN reply[r] ELSE "failed"]
    /\ Release(Posts)
    /\ SpendFault
    /\ UNCHANGED <<orders, items, body, quote, held, request, old>>

PostStep(p) ==
    \/ InsertOrder(p) \/ InsertConflict(p) \/ Busy(p)
    \/ InsertItem(p) \/ Commit(p)

IntakeNext ==
    \/ \E p \in Posts : \E b \in Bodies : Confirm(p, b)
    \/ \E p \in Posts : PostStep(p) \/ CommitUnheard(p) \/ Rollback(p)
    \/ \E l \in Loads : LoadItems(l) \/ \E o \in Orders : LoadOrder(l, o)
    \/ \E o \in Orders : Age(o)
    \/ Crash

IntakeSpec == IntakeInit /\ [][IntakeNext]_intakeVars

\* Handlers are scheduled, statements return, and each order that may be accepted is
\* confirmed again as long as there is a free slot for it.
RetryingIntakeSpec ==
    /\ IntakeSpec
    /\ \A p \in Posts : WF_intakeVars(PostStep(p))
    /\ \A b \in Bodies :
          Acceptable(b) => SF_intakeVars(\E p \in Posts : Confirm(p, b))

-----------------------------------------------------------------------------
IntakeTypeOK ==
    /\ orders \in [Orders -> Headers]
    /\ items \in [Orders -> Seq(StoredItems)]
    /\ writer \subseteq Posts
    /\ draft \in Seq(StoredItems)
    /\ pc \in [Posts \cup Loads -> {"idle", "inserting", "writing", "loading"}]
    /\ body \in [Posts -> Bodies]
    /\ reply \in [Posts \cup Loads -> Replies]
    /\ held \in [Loads -> [order : Orders, header : Headers, lines : Seq(StoredItems)]]
    /\ DOMAIN quote = Posts /\ DOMAIN request = Loads
    /\ old \subseteq Orders
    /\ faults \in 0..MaxFaults

\* An order is one whole confirmation or nothing: header and lines come from the same
\* request, whatever posts for the order overlap, fail or die (CreateOrder).
Whole(o, header, lines) ==
    \E b \in Bodies :
        /\ b.order = o /\ Acceptable(b)
        /\ header = Header(b) /\ lines = ToModel(b)

WholeConfirmation ==
    \A o \in Orders : IF Stored(o) THEN Whole(o, orders[o], items[o]) ELSE items[o] = <<>>

\* "so a sync can never read an order whose items are still being written"
\* (repository/order.go): what two SELECTs have read is one whole confirmation.
LoadsWhole ==
    \A l \in Loads : reply[l] \in {"built", "refused"} =>
        Whole(held[l].order, held[l].header, held[l].lines)

\* Who was answered 201 has his own confirmation in the database, and keeps it; who
\* was answered 409 finds one there.
CreatedStands ==
    \A p \in Posts :
        /\ reply[p] = "created" => /\ orders[body[p].order] = Header(body[p])
                                   /\ items[body[p].order] = ToModel(body[p])
        /\ reply[p] = "exists" => Stored(body[p].order)

\* "Overwriting would silently change what a completed sync attempt was built from"
\* (repository/order.go): no step changes a stored order.
StoredForGood ==
    [][\A o \in Orders : Stored(o) => orders'[o] = orders[o] /\ items'[o] = items[o]]_intakeVars

\* The undiscounted order fits an int64, with room for the tax.
InRange(lines) == 2 * Gross(lines) \in Amounts

\* The chunks one after the other.
Joined(chunks) ==
    LET upTo[k \in 0..Len(chunks)] == IF k = 0 THEN <<>> ELSE upTo[k - 1] \o chunks[k]
    IN  upTo[Len(chunks)]

\* The line totals of all chunks, in the order of the requests.
SentTotals(l) == Joined(request[l].chunks)

\* The subtotal that the order taker was quoted is what the requests of any sync of the
\* order add up to, as an int64, however they are cut, and what the header of ERP B says
\* (CreatedOrderFromModel, Alpha.Build, Beta.Build).
QuotedIsSent ==
    \A p \in Posts, l \in Loads :
        reply[p] = "created" /\ reply[l] = "built" /\ held[l].order = body[p].order
            => /\ quote[p] = Wrap(SumOf(SentTotals(l)))
               /\ held[l].header.tenant = "tenant_beta" => request[l].header.untaxed = quote[p]

\* As long as nothing leaves 64 bits, each line is sent once, at the price that
\* DECISIONS.md gives it, and the header of ERP B adds the lines up and taxes their sum
\* (LineTotal, Alpha.Build, Beta.Build).
PricedAsConfirmed ==
    \A l \in Loads : reply[l] = "built" /\ InRange(held[l].lines) =>
        LET lines  == held[l].lines
            totals == SentTotals(l)
            header == request[l].header
        IN  /\ Len(totals) = Len(lines)
            /\ \A i \in DOMAIN lines : PricedRight(lines[i], totals[i])
            /\ held[l].header.tenant = "tenant_beta" =>
                  /\ header.untaxed = SumOf(totals)
                  /\ Nearest(header.untaxed * BetaSSTPercent, 100, header.tax)
                  /\ header.total = header.untaxed + header.tax

\* An order that somebody keeps confirming is stored in the end: no failed, busy or
\* dead request leaves the database locked.
StoredInTheEnd ==
    \A o \in Orders : (\E p \in Posts : pc[p] = "inserting" /\ body[p].order = o) ~> Stored(o)

(***************************************************************************)
(* What intake and loads implement: OrderStore, with the two tables as one *)
(* store.  A load is done when it is answered about the order.             *)
(***************************************************************************)
Row(header, lines) == [header |-> header, lines |-> lines]
Asks(b)            == [order |-> b.order, value |-> Row(Header(b), ToModel(b))]
Unseen(o)          == [order |-> o, done |-> FALSE, value |-> Row(Blank, <<>>)]

View(l) ==
    IF reply[l] \in {"built", "refused", "not_found"}
    THEN [order |-> held[l].order, done |-> TRUE, value |-> Row(held[l].header, held[l].lines)]
    ELSE Unseen(held[l].order)

rows    == [o \in Orders |-> Row(orders[o], items[o])]
asks    == [p \in Posts |-> Asks(body[p])]
answers == [p \in Posts |-> reply[p]]
views   == [l \in Loads |-> View(l)]

Store == INSTANCE OrderStore WITH
    Writers <- Posts, Readers <- Loads, Requests <- {Asks(b) : b \in Bodies},
    Nothing <- Row(Blank, <<>>),
    store <- rows, asked <- asks, answer <- answers, seen <- views

\* INSERTs line by line, COMMITs and rollbacks, crashes and two SELECTs per load add up
\* to a store where an order appears whole, at once and for good, and every answer and
\* every load is about one instant of it (CreateOrder, loadOrder).
ImplementsStore == Store!Spec

(***************************************************************************)
(* What a comment says.                                                    *)
(***************************************************************************)
\* service/order.go: "an order can never be stored in a state where no sync could ever
\* succeed": the mapper of a stored order does not refuse it from the start.
StoredCanSync ==
    \A o \in Orders : Stored(o) /\ o \notin old => PreValidate(o, orders[o], items[o])
=============================================================================
