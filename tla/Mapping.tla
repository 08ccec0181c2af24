------------------------------ MODULE Mapping ------------------------------
(***************************************************************************)
(* The tenant mappers as functions: how an order is cut into requests      *)
(* (Build) and what a list of responses means for the order (Interpret).   *)
(*                                                                         *)
(* An order is the sequence of its SKUs, a request the sequence of SKUs it *)
(* carries.  A response is reduced to what Interpret branches on:          *)
(*    ok        OK(), any 2xx but 207                                      *)
(*    multi     207, with the SKUs that ERP B reports as accepted          *)
(*    rejected  a final 4xx                                                *)
(*    expired   a final 4xx whose error names ORDER_EXPIRED                *)
(*    error     TransportErr: no answer, or 429 and 5xx to the end         *)
(* Reasons and message parameters are wording and left out; prices are not *)
(* looked at by Interpret.                                                 *)
(***************************************************************************)
EXTENDS Naturals, Sequences

AlphaMaxLinesPerRequest == 2

Kinds == {"ok", "multi", "rejected", "expired", "error"}
Response(kind, accepted) == [kind |-> kind, accepted |-> accepted]

Lesser(m, n) == IF m <= n THEN m ELSE n

(***************************************************************************)
(* Build.                                                                  *)
(***************************************************************************)
ChunkCount(items) ==
    (Len(items) + AlphaMaxLinesPerRequest - 1) \div AlphaMaxLinesPerRequest

\* The chunk that carries the i-th item.
ChunkOf(i) == (i + AlphaMaxLinesPerRequest - 1) \div AlphaMaxLinesPerRequest

Chunk(items, k) ==
    SubSeq(items, AlphaMaxLinesPerRequest * (k - 1) + 1,
                  Lesser(AlphaMaxLinesPerRequest * k, Len(items)))

\* Mutated form of AlphaBuild: a chunk that is not full is forgotten.
AlphaBuildFullChunks(items) ==
    [k \in 1..(Len(items) \div AlphaMaxLinesPerRequest) |-> Chunk(items, k)]

AlphaBuild(items) == [k \in 1..ChunkCount(items) |-> Chunk(items, k)]
BetaBuild(items)  == <<items>>

(***************************************************************************)
(* Interpret: status, message code and line results.                       *)
(***************************************************************************)
Line(sku, accepted) == [sku |-> sku, accepted |-> accepted]
Outcome(status, note, lines) == [status |-> status, note |-> note, lines |-> lines]

\* A line per SKU of every chunk that was answered or given up; no line for the
\* chunks after the one dispatch stopped at.
AlphaLines(items, responses) ==
    [i \in 1..Lesser(AlphaMaxLinesPerRequest * Len(responses), Len(items)) |->
        Line(items[i], responses[ChunkOf(i)].kind = "ok")]

\* Mutated form of AlphaStatus: one accepted chunk is enough.
AlphaStatusAnyChunk(anyOK, anyFail) == IF anyOK THEN "SYNCED" ELSE "FAILED"

AlphaStatus(anyOK, anyFail) ==
    IF ~anyFail THEN "SYNCED" ELSE IF anyOK THEN "PARTIAL_SUCCESS" ELSE "FAILED"

MessageOf == [ SYNCED          |-> "sync.success",
               PARTIAL_SUCCESS |-> "sync.partial",
               FAILED          |-> "sync.failed" ]

AlphaInterpret(items, responses) ==
    LET anyOK   == \E k \in DOMAIN responses : responses[k].kind = "ok"
        anyFail == \E k \in DOMAIN responses : responses[k].kind # "ok"
        status  == AlphaStatus(anyOK, anyFail)
    IN  Outcome(status, MessageOf[status], AlphaLines(items, responses))

BetaLines(items, accepted) == [i \in DOMAIN items |-> Line(items[i], accepted)]

\* Mutated form of BetaPartial: a 207 is a partial success whatever it accepted.
BetaPartialAlways(items, accepted) ==
    Outcome("PARTIAL_SUCCESS", "sync.partial",
            [i \in DOMAIN items |-> Line(items[i], items[i] \in accepted)])

\* 207: a SKU the answer omits counts as rejected.
BetaPartial(items, accepted) ==
    LET lines == [i \in DOMAIN items |-> Line(items[i], items[i] \in accepted)]
    IN  IF \A i \in DOMAIN items : ~lines[i].accepted
        THEN Outcome("FAILED", "sync.failed", lines)
        ELSE Outcome("PARTIAL_SUCCESS", "sync.partial", lines)

\* The message of an answer that accepts nothing.
RefusalOf == [ error    |-> "sync.erp_unavailable",
               expired  |-> "sync.order_expired",
               rejected |-> "sync.failed" ]

BetaInterpret(items, responses) ==
    LET refused == BetaLines(items, FALSE)
        kind    == responses[1].kind
    IN  IF responses = <<>> THEN Outcome("FAILED", "sync.failed", refused)
        ELSE IF kind = "multi" THEN BetaPartial(items, responses[1].accepted)
        ELSE IF kind = "ok" THEN Outcome("SYNCED", "sync.success", BetaLines(items, TRUE))
        ELSE Outcome("FAILED", RefusalOf[kind], refused)
=============================================================================
