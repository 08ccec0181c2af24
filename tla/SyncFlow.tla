------------------------------ MODULE SyncFlow ------------------------------
(***************************************************************************)
(* One order from the click to the ERP's books: SyncClaim with its         *)
(* dispatch spelled out as the HTTP attempts of erp.Client, the requests   *)
(* of the tenant mappers and the ERPs at the other end.                    *)
(*                                                                         *)
(* An attempt ends in a final answer, or in one the client retries: 429,   *)
(* 5xx, a timeout, a broken connection.  In the second case the ERP may    *)
(* never get the request, may have booked it, or may get it later, when    *)
(* the client has gone on.  The waits between attempts are time only.      *)
(***************************************************************************)
EXTENDS SyncClaim, Mapping

CONSTANTS
    SKUs,
    Items,        \* the SKUs of each order, line by line
    AlphaOrders,  \* orders of tenant_alpha; the others are tenant_beta's
    OutOfStock,   \* SKUs the ERPs refuse at first
    MaxAttempts   \* config.ERP.MaxAttempts

Requests(o) == IF o \in AlphaOrders THEN AlphaBuild(Items[o]) ELSE BetaBuild(Items[o])

Interpret(o, responses) ==
    IF o \in AlphaOrders THEN AlphaInterpret(Items[o], responses)
                         ELSE BetaInterpret(Items[o], responses)

\* The responses a mapper may be given: 207 is ERP B's.
ResponsesTo(o) ==
    {Response(kind, {}) : kind \in Kinds \ {"multi"}} \cup
    IF o \in AlphaOrders THEN {} ELSE {Response("multi", accepted) : accepted \in SUBSET SKUs}

ResponseLists(o) == UNION {[1..n -> ResponsesTo(o)] : n \in 1..Len(Requests(o))}

\* Line rows that name a SKU twice, which sync_line_results refuses.
Repeats(ls) == \E i, j \in DOMAIN ls : i # j /\ ls[i].sku = ls[j].sku

ASSUME FlowAssumption ==
    /\ Items \in [Orders -> Seq(SKUs)]
    /\ \A o \in Orders : Items[o] # <<>>
    /\ AlphaOrders \subseteq Orders
    /\ OutOfStock \subseteq SKUs
    /\ MaxAttempts \in Nat \ {0}
    /\ NoLines = <<>>
    /\ \A o \in Orders : \A responses \in ResponseLists(o) : Interpret(o, responses) \in Outcomes
    /\ \A ls \in LineDetails : ls \in Unstorable <=> Repeats(ls)

VARIABLES
    sent,     \* responses each dispatching click has collected
    try,      \* number of the attempt at its current request
    late,     \* requests the client gave up on that still travel to the ERP
    booked,   \* how often the ERP booked each line; 2 stands for more than once
    seen,     \* keys ERP A has booked a chunk under
    refused   \* SKUs out of stock

flowVars == <<sent, try, late, booked, seen, refused>>
allVars  == <<vars, flowVars>>

LinesOf(o)  == 1..Len(Items[o])
ChunksOf(o) == 1..Len(Requests(o))

(***************************************************************************)
(* The ERPs.                                                               *)
(***************************************************************************)
\* Mutated form of Key: the header of the specification without the chunk index.
KeyWithoutIndex(o, k) == <<o, 1>>

\* X-Idempotency-Key and X-Chunk-Index, what ERP A dedupes on.
Key(o, k) == <<o, k>>

\* The lines that request k carries.
Carried(o, k) ==
    IF o \in AlphaOrders THEN {i \in LinesOf(o) : ChunkOf(i) = k} ELSE LinesOf(o)

InStock(o, k) == {i \in Carried(o, k) : Items[o][i] \notin refused}

\* The final answer to request k.  ERP A takes or refuses a chunk as a whole, with a
\* 4xx as in alpha_test.go (the mock has no stock of its own); ERP B follows the mock.
Verdict(o, k) ==
    IF o \in AlphaOrders
    THEN IF InStock(o, k) = Carried(o, k) THEN Response("ok", {}) ELSE Response("rejected", {})
    ELSE IF o \in unsendable THEN Response("expired", {})
    ELSE IF InStock(o, k) = Carried(o, k) THEN Response("ok", {})
    ELSE Response("multi", {Items[o][i] : i \in InStock(o, k)})

\* Mutated form of Taken: ERP A books a repeated chunk again.
TakenAgain(o, k) ==
    {i \in Carried(o, k) :
        \/ Verdict(o, k).kind = "ok"
        \/ Verdict(o, k).kind = "multi" /\ i \in InStock(o, k)}

\* The lines booked when request k arrives: none for a repeated chunk at ERP A,
\* all that are in stock at ERP B, which does not look at the key.
Taken(o, k) ==
    {i \in Carried(o, k) :
        /\ o \in AlphaOrders => Key(o, k) \notin seen
        /\ \/ Verdict(o, k).kind = "ok"
           \/ Verdict(o, k).kind = "multi" /\ i \in InStock(o, k)}

\* The ERP handles request k of order o.
Book(o, k) ==
    /\ booked' = [booked EXCEPT ![o] = [i \in LinesOf(o) |->
                     IF i \in Taken(o, k) THEN Lesser(2, booked[o][i] + 1)
                                          ELSE booked[o][i]]]
    /\ seen' = IF o \in AlphaOrders /\ Verdict(o, k).kind = "ok"
               THEN seen \cup {Key(o, k)} ELSE seen

-----------------------------------------------------------------------------
(***************************************************************************)
(* erp.Client: Dispatch sends the requests in order, send retries one.     *)
(***************************************************************************)
\* A 4xx does not stop the dispatch, a transport failure does.
Done(c) ==
    \/ Len(sent[c]) = Len(Requests(order[c]))
    \/ sent[c] # <<>> /\ sent[c][Len(sent[c])].kind = "error"

Sending(c) == Running(c, "dispatching") /\ ~Done(c)
Current(c) == Len(sent[c]) + 1

\* Mutated form of LastAttempt: one more than configured.
BeyondLastAttempt(c) == try[c] > MaxAttempts

LastAttempt(c) == try[c] = MaxAttempts

\* An attempt with a final answer.
Heard(c) ==
    /\ Sending(c)
    /\ Book(order[c], Current(c))
    /\ sent' = [sent EXCEPT ![c] = Append(sent[c], Verdict(order[c], Current(c)))]
    /\ try'  = [try EXCEPT ![c] = 1]
    /\ UNCHANGED <<vars, late, refused>>

\* An attempt without one: try again, or give the request up.
Unheard(c) ==
    LET request == <<order[c], Current(c)>> IN
    /\ Sending(c)
    /\ \/ Book(order[c], Current(c)) /\ UNCHANGED late
       \/ UNCHANGED <<booked, seen, late>>
       \/ request \notin late /\ late' = late \cup {request} /\ UNCHANGED <<booked, seen>>
    /\ \/ /\ ~LastAttempt(c)
          /\ try' = [try EXCEPT ![c] = try[c] + 1]
          /\ UNCHANGED sent
       \/ /\ LastAttempt(c)
          /\ try'  = [try EXCEPT ![c] = 1]
          /\ sent' = [sent EXCEPT ![c] = Append(sent[c], Response("error", {}))]
    /\ UNCHANGED <<vars, refused>>

Interpreted(c) == Done(c) /\ Dispatch(c, Interpret(order[c], sent[c]))

\* The network and the shops.
Deliver(o, k) ==
    /\ <<o, k>> \in late
    /\ late' = late \ {<<o, k>>}
    /\ Book(o, k)
    /\ UNCHANGED <<vars, sent, try, refused>>

Restock(sku) ==
    /\ sku \in refused
    /\ refused' = refused \ {sku}
    /\ UNCHANGED <<vars, sent, try, late, booked, seen>>

\* The locals of a dispatch end with it.
Forget ==
    /\ sent' = [c \in Clicks |-> IF pc'[c] = "dispatching" THEN sent[c] ELSE <<>>]
    /\ try'  = [c \in Clicks |-> IF pc'[c] = "dispatching" THEN try[c] ELSE 1]
    /\ UNCHANGED <<late, booked, seen, refused>>

FlowInit ==
    /\ Init
    /\ sent = [c \in Clicks |-> <<>>]
    /\ try  = [c \in Clicks |-> 1]
    /\ late = {}
    /\ booked = [o \in Orders |-> [i \in LinesOf(o) |-> 0]]
    /\ seen = {}
    /\ refused = OutOfStock

FlowServe(c) ==
    \/ (Handle(c) \/ Interpreted(c)) /\ Forget
    \/ Heard(c) \/ Unheard(c)

FlowNext ==
    \/ \E c \in Clicks : FlowServe(c)
    \/ Environment /\ Forget
    \/ \E o \in Orders : \E k \in ChunksOf(o) : Deliver(o, k)
    \/ \E sku \in SKUs : Restock(sku)

FlowSpec == FlowInit /\ [][FlowNext]_allVars

(***************************************************************************)
(* The fairness of RetryingSpec, and ERPs that answer each request and     *)
(* restock sooner or later.                                                *)
(***************************************************************************)
RetryingFlowSpec ==
    /\ FlowSpec
    /\ \A c \in Clicks :
          /\ WF_allVars(FlowServe(c))
          /\ \A o \in Orders : \A k \in ChunksOf(o) :
                SF_allVars(Heard(c) /\ order[c] = o /\ Current(c) = k)
    /\ \A o \in Orders :
          /\ WF_allVars(Age(o) /\ Forget)
          /\ SF_allVars((\E c \in Clicks : Click(c, o)) /\ Forget)
    /\ \A sku \in SKUs : WF_allVars(Restock(sku))

-----------------------------------------------------------------------------
FlowTypeOK ==
    /\ TypeOK
    /\ \A c \in Clicks : sent[c] = <<>> \/ sent[c] \in ResponseLists(order[c])
    /\ try \in [Clicks -> 1..MaxAttempts]
    /\ late \subseteq UNION {{<<o, k>> : k \in ChunksOf(o)} : o \in Orders}
    /\ seen \subseteq UNION {{<<o, k>> : k \in ChunksOf(o)} : o \in Orders}
    /\ \A o \in Orders : booked[o] \in [LinesOf(o) -> 0..2]
    /\ refused \subseteq SKUs

\* ERP A never books a line twice: retries after lost answers, requests that arrive
\* late, re-syncs after a partial result and even two dispatches at once carry the
\* same key and chunk index, by which it knows a chunk again (Build, handleAlpha;
\* tenant/alpha.go:108-109 expects that re-sent chunks "would duplicate the lines").
AlphaBookedOnce ==
    \A o \in AlphaOrders : \A i \in LinesOf(o) : booked[o][i] <= 1

\* A SYNCED order is in the ERP with every line, and every line is reported: no
\* chunk is dropped by dedupe, by a dispatch that stopped early or by a result
\* that some other dispatch recorded (Dispatch, Interpret, CompleteAttempt).
SyncedMeansBooked ==
    \A o \in Orders : row[o].status = "SYNCED" =>
        /\ Len(lines[o]) = Len(Items[o])
        /\ \A i \in LinesOf(o) : lines[o][i].accepted /\ booked[o][i] >= 1

\* A line reported as accepted, in the database or in an answer, is in the ERP
\* (AlphaLines, BetaPartial).
AcceptedMeansBooked ==
    /\ \A o \in Orders : \A i \in DOMAIN lines[o] : lines[o][i].accepted => booked[o][i] >= 1
    /\ \A c \in Clicks : \A i \in DOMAIN att[c].lines :
          att[c].lines[i].accepted => booked[order[c]][i] >= 1

\* A recorded PARTIAL_SUCCESS is partial: some line is in the ERP, some line is
\* reported as refused ("a 207 with zero accepted lines is FAILED").
PartialIsPartial ==
    \A o \in Orders : row[o].status = "PARTIAL_SUCCESS" =>
        /\ \E i \in LinesOf(o) : booked[o][i] >= 1
        /\ \E i \in DOMAIN lines[o] : lines[o][i].accepted
        /\ \E i \in DOMAIN lines[o] : ~lines[o][i].accepted

\* Clicking again until it works does work: a claimed order is SYNCED in the end,
\* whatever was lost, refused or cut off on the way.
SyncedInTheEnd ==
    \A o \in Orders : row[o].status = "PENDING" ~> row[o].status = "SYNCED"

(***************************************************************************)
(* What comments and messages say.                                         *)
(***************************************************************************)
\* 000001_init.up.sql: "the dashboard needs to know which SKU failed, not just that
\* the order was partial": the lines of a partial result cover the order.
PartialCoversOrder ==
    \A o \in Orders : row[o].status = "PARTIAL_SUCCESS" => Len(lines[o]) = Len(Items[o])

\* beta.go: a 207 is not wholly FAILED because that "would tell the order taker to
\* re-send items the ERP already accepted": accepted lines are not booked again.
AcceptedNotBookedAgain ==
    [][\A o \in Orders : \A i \in DOMAIN lines[o] :
         lines[o][i].accepted => booked'[o][i] = booked[o][i]]_allVars
=============================================================================
