--------------------------- MODULE MappingProofs ---------------------------
(***************************************************************************)
(* Facts about the tenant mappers for orders of any length: how Build cuts *)
(* an order, and what Interpret may claim about it.                        *)
(***************************************************************************)
EXTENDS Mapping, TLAPS

\* The chunks of an order hold all of its lines (chunkItems).
LEMMA ChunksCover ==
  ASSUME NEW S, NEW items \in Seq(S), items # <<>>
  PROVE  /\ ChunkCount(items) \in Nat \ {0}
         /\ AlphaMaxLinesPerRequest * ChunkCount(items) >= Len(items)
         /\ \A i \in 1..Len(items) : ChunkOf(i) \in 1..ChunkCount(items)
<1>1. Len(items) \in Nat \ {0}
  OBVIOUS
<1>2. \A n \in Nat \ {0} : (n + 1) \div 2 \in Nat \ {0} /\ 2 * ((n + 1) \div 2) >= n
  OBVIOUS
<1>3. \A m, n \in Nat : m >= 1 /\ n >= m => (m + 1) \div 2 \in 1..((n + 1) \div 2)
  OBVIOUS
<1>4. QED
  BY <1>1, <1>2, <1>3 DEF ChunkCount, ChunkOf, AlphaMaxLinesPerRequest

\* No chunk is empty: it carries at least its first line.
LEMMA ChunksCarry ==
  ASSUME NEW S, NEW items \in Seq(S), NEW k \in 1..ChunkCount(items)
  PROVE  /\ 2 * k - 1 \in 1..Len(items)
         /\ ChunkOf(2 * k - 1) = k
<1>1. \A n \in Nat : k <= (n + 1) \div 2 => 2 * k - 1 \in 1..n
  OBVIOUS
<1>2. (2 * k - 1 + 2 - 1) \div 2 = k
  OBVIOUS
<1>3. QED
  BY <1>1, <1>2 DEF ChunkCount, ChunkOf, AlphaMaxLinesPerRequest

\* One request per chunk for ERP A, one for ERP B (Build).
LEMMA RequestsSized ==
  ASSUME NEW S, NEW items \in Seq(S), items # <<>>
  PROVE  /\ Len(AlphaBuild(items)) = ChunkCount(items)
         /\ Len(BetaBuild(items)) = 1
<1>1. Len(AlphaBuild(items)) = ChunkCount(items)
  BY ChunksCover DEF AlphaBuild
<1>2. Len(BetaBuild(items)) = 1
  BY DEF BetaBuild
<1>3. QED
  BY <1>1, <1>2

\* What the interpretation of a list of n responses may claim: a line is accepted
\* exactly if its chunk is, SYNCED reports every line as accepted, PARTIAL_SUCCESS
\* has lines of either kind.
AlphaTruthful(items, n, responses) ==
    LET outcome == AlphaInterpret(items, responses)
        ls      == outcome.lines
    IN  /\ DOMAIN ls = 1..Len(ls) /\ Len(ls) \in 0..Len(items)
        /\ \A i \in DOMAIN ls : ChunkOf(i) \in 1..n
        /\ \A i \in DOMAIN ls : ls[i].accepted <=> responses[ChunkOf(i)].kind = "ok"
        /\ outcome.status = "SYNCED" =>
              Len(ls) = Len(items) /\ \A i \in DOMAIN ls : ls[i].accepted
        /\ outcome.status = "PARTIAL_SUCCESS" =>
              /\ \E i \in DOMAIN ls : ls[i].accepted
              /\ \E i \in DOMAIN ls : ~ls[i].accepted

\* Alpha.Interpret is truthful about a dispatch that went through or stopped
\* at a transport failure.
LEMMA AlphaIsTruthful ==
  ASSUME NEW S, NEW items \in Seq(S), items # <<>>, NEW R,
         NEW n \in 1..ChunkCount(items), NEW responses \in [1..n -> R],
         n = ChunkCount(items) \/ responses[n].kind = "error"
  PROVE  AlphaTruthful(items, n, responses)
<1> DEFINE ls      == AlphaLines(items, responses)
           size    == Lesser(2 * n, Len(items))
           anyOK   == \E k \in DOMAIN responses : responses[k].kind = "ok"
           anyFail == \E k \in DOMAIN responses : responses[k].kind # "ok"
<1>1. n \in Nat \ {0} /\ Len(items) \in Nat /\ Len(responses) = n
  BY ChunksCover
<1>2. size \in Nat /\ size <= 2 * n /\ size <= Len(items)
  BY <1>1 DEF Lesser
<1>3. ls = [i \in 1..size |-> Line(items[i], responses[ChunkOf(i)].kind = "ok")]
  BY <1>1 DEF AlphaLines, AlphaMaxLinesPerRequest
<1>4. DOMAIN ls = 1..size /\ Len(ls) = size
  BY <1>2, <1>3
<1>5. \A i \in 1..size : ChunkOf(i) \in 1..n
  <2>1. \A i, m \in Nat : i >= 1 /\ i <= 2 * m => (i + 2 - 1) \div 2 \in 1..m
    OBVIOUS
  <2>2. QED
    BY <2>1, <1>1, <1>2 DEF ChunkOf, AlphaMaxLinesPerRequest
<1>6. n = ChunkCount(items) => size = Len(items)
  BY <1>1, ChunksCover DEF Lesser, AlphaMaxLinesPerRequest
<1>7. \A k \in 1..n : 2 * k - 1 \in 1..size /\ ChunkOf(2 * k - 1) = k
  <2>1. TAKE k \in 1..n
  <2>2. k \in 1..ChunkCount(items)
    BY ChunksCover
  <2>3. 2 * k - 1 \in 1..Len(items) /\ ChunkOf(2 * k - 1) = k
    BY <2>2, ChunksCarry
  <2>4. QED
    BY <2>3, <1>1 DEF Lesser
<1>8. \A i \in 1..size : ls[i].accepted <=> responses[ChunkOf(i)].kind = "ok"
  <2>1. \A i \in 1..size : ls[i].accepted = (responses[ChunkOf(i)].kind = "ok")
    BY <1>3 DEF Line
  <2>2. QED
    BY <2>1, Zenon
<1>9. /\ AlphaInterpret(items, responses).lines = ls
      /\ AlphaInterpret(items, responses).status = AlphaStatus(anyOK, anyFail)
  BY DEF AlphaInterpret, Outcome
<1> HIDE DEF ls, size
<1>10. ASSUME AlphaStatus(anyOK, anyFail) = "SYNCED"
       PROVE  size = Len(items) /\ \A i \in 1..size : ls[i].accepted
  <2>1. \A k \in 1..n : responses[k].kind = "ok"
    BY <1>10 DEF AlphaStatus
  <2>2. n = ChunkCount(items)
    BY <2>1, <1>1
  <2>3. QED
    BY <2>1, <2>2, <1>5, <1>6, <1>8
<1>11. ASSUME AlphaStatus(anyOK, anyFail) = "PARTIAL_SUCCESS"
       PROVE  /\ \E i \in 1..size : ls[i].accepted
              /\ \E i \in 1..size : ~ls[i].accepted
  <2>1. anyOK /\ anyFail
    BY <1>11 DEF AlphaStatus
  <2>2. PICK k \in 1..n : responses[k].kind = "ok"
    BY <2>1
  <2>3. PICK m \in 1..n : responses[m].kind # "ok"
    BY <2>1
  <2>4. QED
    BY <2>2, <2>3, <1>7, <1>8
<1>12. Len(ls) \in 0..Len(items)
  BY <1>1, <1>2, <1>4
<1>13. QED
  BY <1>4, <1>5, <1>8, <1>9, <1>10, <1>11, <1>12 DEF AlphaTruthful

\* The same for the one response of ERP B, where a 207 is told apart line by line and
\* is PARTIAL_SUCCESS only if it accepted something.
BetaTruthful(items, response) ==
    LET outcome == BetaInterpret(items, <<response>>)
        ls      == outcome.lines
    IN  /\ DOMAIN ls = 1..Len(items) /\ Len(ls) = Len(items)
        /\ \A i \in DOMAIN ls : ls[i].accepted =>
              \/ response.kind = "ok"
              \/ response.kind = "multi" /\ items[i] \in response.accepted
        /\ outcome.status = "SYNCED" => \A i \in DOMAIN ls : ls[i].accepted
        /\ outcome.status = "PARTIAL_SUCCESS" =>
              /\ response.kind = "multi"
              /\ \E i \in DOMAIN ls : ls[i].accepted
              /\ \A i \in DOMAIN ls : ls[i].accepted <=> items[i] \in response.accepted

\* Beta.Interpret is truthful about any response.
LEMMA BetaIsTruthful ==
  ASSUME NEW S, NEW items \in Seq(S), items # <<>>,
         NEW response, response.kind \in Kinds
  PROVE  BetaTruthful(items, response)
<1> DEFINE outcome == BetaInterpret(items, <<response>>)
           ls      == [i \in DOMAIN items |-> Line(items[i], items[i] \in response.accepted)]
<1>1. DOMAIN items = 1..Len(items) /\ Len(items) \in Nat
  OBVIOUS
<1>2. <<response>>[1] = response /\ <<response>> # <<>>
  OBVIOUS
<1>3. CASE response.kind = "multi"
  <2>1. outcome = BetaPartial(items, response.accepted)
    BY <1>2, <1>3 DEF BetaInterpret
  <2>2. DOMAIN ls = 1..Len(items) /\ Len(ls) = Len(items)
    BY <1>1
  <2>3. \A i \in DOMAIN ls : ls[i].accepted <=> items[i] \in response.accepted
    <3>1. \A i \in DOMAIN ls : ls[i].accepted = (items[i] \in response.accepted)
      BY DEF Line
    <3>2. QED
      BY <3>1, Zenon
  <2>4. CASE \A i \in DOMAIN items : ~ls[i].accepted
    <3>1. outcome.status = "FAILED" /\ outcome.lines = ls
      BY <2>1, <2>4 DEF BetaPartial, Outcome
    <3>2. QED
      BY <3>1, <2>2, <2>3, <1>3 DEF BetaTruthful
  <2>5. CASE ~(\A i \in DOMAIN items : ~ls[i].accepted)
    <3>1. outcome.status = "PARTIAL_SUCCESS" /\ outcome.lines = ls
      BY <2>1, <2>5 DEF BetaPartial, Outcome
    <3>2. QED
      BY <3>1, <2>2, <2>3, <2>5, <1>1, <1>3 DEF BetaTruthful
  <2>6. QED
    BY <2>4, <2>5
<1>4. CASE response.kind = "ok"
  <2>1. outcome.status = "SYNCED" /\ outcome.lines = BetaLines(items, TRUE)
    BY <1>2, <1>4 DEF BetaInterpret, Outcome
  <2>2. QED
    BY <2>1, <1>1, <1>4 DEF BetaTruthful, BetaLines, Line
<1>5. CASE response.kind \in {"error", "expired", "rejected"}
  <2>1. outcome.status = "FAILED" /\ outcome.lines = BetaLines(items, FALSE)
    BY <1>2, <1>5 DEF BetaInterpret, Outcome
  <2>2. QED
    BY <2>1, <1>1 DEF BetaTruthful, BetaLines, Line
<1>6. QED
  BY <1>3, <1>4, <1>5 DEF Kinds
=============================================================================
