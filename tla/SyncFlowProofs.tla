--------------------------- MODULE SyncFlowProofs ---------------------------
(***************************************************************************)
(* Proofs about one order from the click to the ERP's books, for orders of *)
(* any length, any number of attempts, clicks and faults: SyncFlow is a    *)
(* SyncClaim, so that every theorem about the claim protocol holds of it,  *)
(* and what it records is what the ERPs booked.                            *)
(***************************************************************************)
EXTENDS SyncFlow, SyncClaimRefinement, MappingProofs, SequenceTheorems

(***************************************************************************)
(* SyncFlow implements SyncClaim.                                          *)
(***************************************************************************)
\* A click that dispatches holds the responses to the requests of its order so far.
SentOK ==
    /\ sent = [c \in Clicks |-> sent[c]]
    /\ \A c \in Clicks :
          \/ sent[c] = <<>>
          \/ /\ pc[c] = "dispatching"
             /\ \E n \in ChunksOf(order[c]) : sent[c] \in [1..n -> ResponsesTo(order[c])]

\* The steps of SyncFlow that are steps of SyncClaim, the dispatch apart.
ClaimStep == (\E c \in Clicks : Handle(c)) \/ Environment

\* An order is cut into at least one request: one per chunk, or one.
LEMMA RequestsCounted ==
  ASSUME NEW o \in Orders
  PROVE  /\ Len(Requests(o)) \in Nat \ {0}
         /\ o \in AlphaOrders => Len(Requests(o)) = ChunkCount(Items[o])
         /\ o \notin AlphaOrders => Len(Requests(o)) = 1
<1>1. Items[o] \in Seq(SKUs) /\ Items[o] # <<>>
  BY FlowAssumption
<1>2. ChunkCount(Items[o]) \in Nat \ {0}
  BY <1>1, ChunksCover
<1>3. Len(AlphaBuild(Items[o])) = ChunkCount(Items[o]) /\ Len(BetaBuild(Items[o])) = 1
  BY <1>1, RequestsSized
<1>4. QED
  BY <1>2, <1>3 DEF Requests

\* What an ERP answers is a response the mapper of the order knows.
LEMMA VerdictTyped ==
  ASSUME NEW o \in Orders, NEW k \in ChunksOf(o)
  PROVE  Verdict(o, k) \in ResponsesTo(o)
<1>1. CASE o \in AlphaOrders
  BY <1>1 DEF Verdict, ResponsesTo, Kinds
<1>2. CASE o \notin AlphaOrders
  <2>1. \A i \in LinesOf(o) : Items[o][i] \in SKUs
    BY FlowAssumption DEF LinesOf
  <2>2. InStock(o, k) \subseteq LinesOf(o)
    BY <1>2 DEF InStock, Carried
  <2>3. {Items[o][i] : i \in InStock(o, k)} \in SUBSET SKUs
    BY <2>1, <2>2
  <2>4. QED
    BY <1>2, <2>3 DEF Verdict, ResponsesTo, Kinds
<1>3. QED
  BY <1>1, <1>2

\* A request that is not idle works on the order it came for.
LEMMA OrderKept ==
  ASSUME TypeOK, ClaimStep, NEW d \in Clicks, pc[d] # "idle"
  PROVE  order'[d] = order[d]
<1>1. ASSUME NEW c \in Clicks, Handle(c) PROVE order'[d] = order[d]
  BY <1>1 DEF Handle, Refuse, Admit, InsertClaim, InsertConflict, Reclaim, ReclaimLost, ReadRow, NoRow, ReadLines, Complete, CompleteRolledBack, Abort
<1>2. ASSUME NEW c \in Clicks, NEW o \in Orders, Click(c, o) \/ CheckStatus(c, o) PROVE order'[d] = order[d]
  BY <1>2 DEF TypeOK, Click, CheckStatus, Arrive
<1>3. ASSUME NEW c \in Clicks, CompleteUnheard(c) \/ DatabaseError(c) \/ Disconnect(c) PROVE order'[d] = order[d]
  BY <1>3 DEF CompleteUnheard, DatabaseError, Disconnect
<1>4. ASSUME NEW D \in SUBSET Clicks, Crash(D) PROVE order'[d] = order[d]
  BY <1>4 DEF Crash
<1>5. ASSUME NEW o \in Orders, Age(o) \/ Expire(o) PROVE order'[d] = order[d]
  BY <1>5 DEF Age, Expire
<1>6. QED
  BY <1>1, <1>2, <1>3, <1>4, <1>5 DEF ClaimStep, Environment

\* Done is reached with at least one response, so that the outcome is one of Outcomes.
LEMMA InterpretedIsDispatch ==
  ASSUME TypeOK, SentOK, NEW c \in Clicks, Interpreted(c)
  PROVE  Interpret(order[c], sent[c]) \in Outcomes
<1>1. order[c] \in Orders
  BY DEF TypeOK
<1>2. sent[c] # <<>>
  <2>1. Len(Requests(order[c])) # 0
    BY <1>1, RequestsCounted
  <2>2. QED
    BY <2>1 DEF Interpreted, Done
<1>3. sent[c] \in ResponseLists(order[c])
  BY <1>2 DEF SentOK, ResponseLists, ChunksOf
<1>4. QED
  BY <1>1, <1>3, FlowAssumption

\* A step of SyncFlow is a step of SyncClaim or leaves its variables alone.
LEMMA FlowStep ==
  ASSUME TypeOK, SentOK, [FlowNext]_allVars
  PROVE  [Next]_vars
<1>1. ASSUME NEW c \in Clicks, Handle(c) PROVE Next
  BY <1>1 DEF Next, Serve
<1>2. ASSUME NEW c \in Clicks, Interpreted(c) PROVE Next
  BY <1>2, InterpretedIsDispatch DEF Interpreted, Next, Serve
<1>3. ASSUME NEW c \in Clicks, Heard(c) \/ Unheard(c) PROVE UNCHANGED vars
  BY <1>3 DEF Heard, Unheard
<1>4. ASSUME Environment PROVE Next
  BY <1>4 DEF Next
<1>5. ASSUME NEW o \in Orders, NEW k \in ChunksOf(o), Deliver(o, k) PROVE UNCHANGED vars
  BY <1>5 DEF Deliver
<1>6. ASSUME NEW sku \in SKUs, Restock(sku) PROVE UNCHANGED vars
  BY <1>6 DEF Restock
<1>7. CASE UNCHANGED allVars
  BY <1>7 DEF allVars
<1>8. QED
  BY <1>1, <1>2, <1>3, <1>4, <1>5, <1>6, <1>7 DEF FlowNext, FlowServe

\* Forget drops the responses of whoever stops dispatching.
LEMMA SentForgotten ==
  ASSUME SentOK, Forget,
         \A c \in Clicks : pc[c] = "dispatching" /\ pc'[c] = "dispatching"
                              => order'[c] = order[c]
  PROVE  SentOK'
BY DEF SentOK, Forget, ChunksOf, ResponsesTo, Requests

\* The request a click is at is one of its order.
LEMMA SentCurrent ==
  ASSUME TypeOK, SentOK, NEW c \in Clicks, Sending(c)
  PROVE  /\ sent[c] \in [1..Len(sent[c]) -> ResponsesTo(order[c])]
         /\ Len(sent[c]) \in Nat
         /\ Current(c) \in ChunksOf(order[c])
<1> DEFINE o == order[c]
           L == Len(Requests(o))
<1>1. o \in Orders /\ L \in Nat \ {0}
  BY RequestsCounted DEF TypeOK
<1>2. PICK n \in 0..L : sent[c] \in [1..n -> ResponsesTo(o)] /\ Len(sent[c]) = n
  <2>1. CASE sent[c] = <<>>
    <3>1. sent[c] \in [1..0 -> ResponsesTo(o)] /\ Len(sent[c]) = 0
      BY <2>1
    <3>2. QED
      BY <3>1, <1>1
  <2>2. CASE sent[c] # <<>>
    <3>1. PICK n \in 1..L : sent[c] \in [1..n -> ResponsesTo(o)]
      BY <2>2 DEF SentOK, ChunksOf
    <3>2. Len(sent[c]) = n
      BY <3>1, <1>1
    <3>3. QED
      BY <3>1, <3>2, <1>1
  <2>3. QED
    BY <2>1, <2>2
<1>3. n + 1 \in 1..L /\ Current(c) = n + 1
  <2>1. Len(sent[c]) # L
    BY DEF Sending, Done
  <2> HIDE DEF L
  <2>2. QED
    BY <1>1, <1>2, <2>1 DEF Current
<1>4. QED
  BY <1>1, <1>2, <1>3 DEF ChunksOf

\* One more response, r, for the current request of click c.
LEMMA SentAppended ==
  ASSUME TypeOK, SentOK, NEW c \in Clicks, Sending(c), UNCHANGED vars,
         NEW r \in ResponsesTo(order[c]),
         sent' = [sent EXCEPT ![c] = Append(sent[c], r)]
  PROVE  /\ SentOK'
         /\ Len(sent'[c]) = Current(c)
         /\ sent'[c][Current(c)] = r
         /\ \A k \in 1..Len(sent[c]) : sent'[c][k] = sent[c][k]
         /\ \A d \in Clicks \ {c} : sent'[d] = sent[d]
<1> DEFINE o == order[c]
           n == Len(sent[c])
<1>1. /\ sent[c] \in [1..n -> ResponsesTo(o)]
      /\ n \in Nat
      /\ Current(c) = n + 1
      /\ Current(c) \in ChunksOf(o)
  BY SentCurrent DEF Current
<1>2. sent[c] \in Seq(ResponsesTo(o))
  BY <1>1
<1>3. sent'[c] = Append(sent[c], r)
  BY DEF SentOK
<1>4. /\ sent'[c] \in Seq(ResponsesTo(o))
      /\ Len(sent'[c]) = n + 1
      /\ sent'[c][n + 1] = r
      /\ \A k \in 1..n : sent'[c][k] = sent[c][k]
  <2> DEFINE longer == Append(sent[c], r)
  <2>1. longer \in Seq(ResponsesTo(o)) /\ Len(longer) = n + 1
    BY <1>2, AppendProperties
  <2>2. longer[n + 1] = r
    BY <1>2, AppendProperties
  <2>3. \A k \in 1..n : longer[k] = sent[c][k]
    BY <1>2, AppendProperties
  <2>4. QED
    BY <2>1, <2>2, <2>3, <1>3
<1>5. sent'[c] \in [1..(n + 1) -> ResponsesTo(o)]
  <2>1. sent'[c] \in [1..Len(sent'[c]) -> ResponsesTo(o)]
    BY <1>4, LenProperties
  <2>2. QED
    BY <1>4, <2>1
<1>6. \A d \in Clicks \ {c} : sent'[d] = sent[d]
  BY DEF SentOK
<1>7. sent' = [d \in Clicks |-> sent'[d]]
  BY DEF SentOK
<1>8. pc[c] = "dispatching" /\ pc' = pc /\ order' = order
  BY DEF Sending, Running, vars
<1>9. \A d \in Clicks : /\ ChunksOf(order'[d]) = ChunksOf(order[d])
                        /\ ResponsesTo(order'[d]) = ResponsesTo(order[d])
  BY <1>8
<1>10. SentOK'
  BY <1>1, <1>5, <1>6, <1>7, <1>8, <1>9 DEF SentOK, ChunksOf
<1>11. QED
  BY <1>1, <1>4, <1>6, <1>10

\* A step keeps the shape of the responses collected so far.
LEMMA SentStep ==
  ASSUME TypeOK, RoleOK, SentOK, [FlowNext]_allVars
  PROVE  SentOK'
<1>1. ASSUME ClaimStep, Forget PROVE SentOK'
  BY <1>1, OrderKept, SentForgotten
<1>2. ASSUME NEW c \in Clicks, Interpreted(c), Forget PROVE SentOK'
  BY <1>2, SentForgotten DEF Interpreted, Dispatch
<1>3. ASSUME NEW c \in Clicks, Heard(c) PROVE SentOK'
  <2> DEFINE k == Current(c)
  <2>1. order[c] \in Orders /\ Sending(c) /\ UNCHANGED vars
    BY <1>3 DEF Heard, TypeOK
  <2>2. k \in ChunksOf(order[c])
    BY <2>1, SentCurrent
  <2>3. QED
    BY <1>3, <2>1, <2>2, VerdictTyped, SentAppended DEF Heard
<1>4. ASSUME NEW c \in Clicks, Unheard(c) PROVE SentOK'
  <2>1. Sending(c) /\ UNCHANGED vars
    BY <1>4 DEF Unheard
  <2>2. CASE UNCHANGED sent
    BY <2>1, <2>2 DEF SentOK, vars, ChunksOf, ResponsesTo, Requests
  <2>3. CASE sent' = [sent EXCEPT ![c] = Append(sent[c], Response("error", {}))]
    <3>1. Response("error", {}) \in ResponsesTo(order[c])
      BY DEF ResponsesTo, Kinds
    <3>2. QED
      BY <2>1, <2>3, <3>1, SentAppended
  <2>4. QED
    BY <1>4, <2>2, <2>3 DEF Unheard
<1>5. ASSUME UNCHANGED <<vars, sent>> PROVE SentOK'
  BY <1>5 DEF SentOK, vars, ChunksOf, ResponsesTo, Requests
<1>6. ASSUME NEW o \in Orders, NEW k \in ChunksOf(o), Deliver(o, k) PROVE SentOK'
  BY <1>5, <1>6 DEF Deliver
<1>7. ASSUME NEW sku \in SKUs, Restock(sku) PROVE SentOK'
  BY <1>5, <1>7 DEF Restock
<1>8. CASE UNCHANGED allVars
  BY <1>5, <1>8 DEF allVars, flowVars
<1>9. QED
  BY <1>1, <1>2, <1>3, <1>4, <1>6, <1>7, <1>8 DEF FlowNext, FlowServe, ClaimStep

\* The invariants hold at first, and a step keeps them.
LEMMA FlowInitInv == FlowInit => IInv /\ SentOK
BY InitInv DEF FlowInit, SentOK

\* A step of the flow keeps both invariants and is a step of the claim protocol.
LEMMA FlowStepInv == IInv /\ SentOK /\ [FlowNext]_allVars => IInv' /\ SentOK' /\ [Next]_vars
BY FlowStep, SentStep, StepInv DEF IInv

\* The invariant of the claim protocol is one of the whole path.
THEOREM FlowInvariance == FlowSpec => []IInv /\ []SentOK
BY FlowInitInv, FlowStepInv, PTL DEF FlowSpec

\* HTTP attempts, mappers and ERPs refine the dispatch of SyncClaim, so that the
\* theorems about the claim protocol are theorems about the whole path.
THEOREM FlowImplementsClaim == FlowSpec => Spec
<1>1. FlowInit => Init
  BY DEF FlowInit
<1>2. QED
  BY <1>1, FlowInitInv, FlowStepInv, PTL DEF FlowSpec, Spec

\* From the click to the ERP and back, runs of an order are exclusive, end with the
\* one outcome that the mapper read out of the responses, and stop at SYNCED, unless
\* a live claim was taken over (SyncOrder with erp.Client and the mappers).
THEOREM FlowKeepsThePromise == FlowSpec => ImplementsPromise
BY FlowImplementsClaim, Refinement, PTL

(***************************************************************************)
(* What the ERPs have booked.                                              *)
(***************************************************************************)
\* ERP A has seen exactly the chunks whose lines it booked, and booked them once.
AlphaBooks ==
    \A o \in AlphaOrders : \A i \in LinesOf(o) :
        /\ booked[o][i] <= 1
        /\ booked[o][i] >= 1 <=> Key(o, ChunkOf(i)) \in seen

BooksOK ==
    /\ booked = [o \in Orders |-> booked[o]]
    /\ \A o \in Orders : booked[o] \in [LinesOf(o) -> 0..2]
    /\ AlphaBooks

\* No booked line is ever unbooked.
Grown(before, after) ==
    /\ DOMAIN after = DOMAIN before
    /\ \A i \in DOMAIN before : before[i] >= 1 => after[i] >= 1

\* What response r to request k of an order says about its books.
Honest(books, o, k, r) ==
    /\ r.kind \in Kinds
    /\ r.kind = "ok" => \A i \in Carried(o, k) : books[i] >= 1
    /\ r.kind = "multi" =>
          /\ \A i \in LinesOf(o) : Items[o][i] \in r.accepted => books[i] >= 1
          /\ \E i \in LinesOf(o) : Items[o][i] \notin r.accepted

\* A request books what it is said to book, and ERP A nothing twice.
LEMMA BookStep ==
  ASSUME BooksOK, NEW o \in Orders, NEW k \in ChunksOf(o), Book(o, k)
  PROVE  /\ BooksOK'
         /\ \A p \in Orders : Grown(booked[p], booked'[p])
         /\ Honest(booked'[o], o, k, Verdict(o, k))
<1> DEFINE b == [i \in LinesOf(o) |-> IF i \in Taken(o, k) THEN Lesser(2, booked[o][i] + 1)
                                                          ELSE booked[o][i]]
<1>0. AlphaBooks
  BY DEF BooksOK
<1>1. booked'[o] = b /\ \A p \in Orders \ {o} : booked'[p] = booked[p]
  BY DEF Book, BooksOK
<1>2. booked' = [p \in Orders |-> booked'[p]]
  BY DEF Book, BooksOK
<1>3. \A i \in LinesOf(o) : booked[o][i] \in 0..2
  BY DEF BooksOK
<1>4. b \in [LinesOf(o) -> 0..2]
  BY <1>3 DEF Lesser
<1>5. \A i \in LinesOf(o) : /\ i \in Taken(o, k) => b[i] >= 1
                            /\ booked[o][i] >= 1 => b[i] >= 1
                            /\ i \notin Taken(o, k) => b[i] = booked[o][i]
                            /\ booked[o][i] = 0 => b[i] <= 1
  BY <1>3 DEF Lesser
<1>6. \A p \in Orders : Grown(booked[p], booked'[p])
  BY <1>1, <1>4, <1>5 DEF Grown, BooksOK
<1>7. ASSUME o \in AlphaOrders
      PROVE  /\ Taken(o, k) = IF Key(o, k) \notin seen /\ Verdict(o, k).kind = "ok"
                              THEN Carried(o, k) ELSE {}
             /\ Carried(o, k) = {i \in LinesOf(o) : ChunkOf(i) = k}
             /\ seen' = IF Verdict(o, k).kind = "ok" THEN seen \cup {Key(o, k)} ELSE seen
  BY <1>7 DEF Taken, Carried, Verdict, Response, Book
<1>8. ASSUME o \notin AlphaOrders PROVE seen' = seen
  BY <1>8 DEF Book
<1>9. AlphaBooks'
  <2>1. ASSUME NEW p \in AlphaOrders, NEW i \in LinesOf(p), p # o
        PROVE  /\ booked'[p][i] <= 1
               /\ booked'[p][i] >= 1 <=> Key(p, ChunkOf(i)) \in seen'
    <3>1. booked'[p] = booked[p]
      BY <1>1, <2>1, FlowAssumption
    <3>2. Key(p, ChunkOf(i)) \in seen' <=> Key(p, ChunkOf(i)) \in seen
      BY <1>7, <1>8, <2>1 DEF Key
    <3>3. QED
      BY <3>1, <3>2, <2>1, <1>0 DEF AlphaBooks
  <2>2. ASSUME NEW i \in LinesOf(o), o \in AlphaOrders
        PROVE  /\ booked'[o][i] <= 1
               /\ booked'[o][i] >= 1 <=> Key(o, ChunkOf(i)) \in seen'
    <3>1. /\ booked[o][i] \in 0..1
          /\ booked[o][i] >= 1 <=> Key(o, ChunkOf(i)) \in seen
      <4>1. booked[o][i] \in 0..2
        BY <1>3
      <4>2. booked[o][i] <= 1 /\ (booked[o][i] >= 1 <=> Key(o, ChunkOf(i)) \in seen)
        BY <1>0, <2>2 DEF AlphaBooks
      <4>3. QED
        BY <4>1, <4>2
    <3>2. CASE i \in Taken(o, k)
      <4>1. ChunkOf(i) = k /\ Key(o, k) \notin seen /\ Key(o, k) \in seen'
        BY <1>7, <2>2, <3>2
      <4>2. QED
        BY <4>1, <3>1, <3>2, <1>1, <1>5
    <3>3. CASE i \notin Taken(o, k)
      <4>1. Key(o, ChunkOf(i)) \in seen' <=> Key(o, ChunkOf(i)) \in seen
        BY <1>7, <2>2, <3>3 DEF Key
      <4>2. QED
        BY <4>1, <3>1, <3>3, <1>1, <1>5
    <3>4. QED
      BY <3>2, <3>3
  <2>3. QED
    BY <2>1, <2>2 DEF AlphaBooks, LinesOf
<1>10. Honest(booked'[o], o, k, Verdict(o, k))
  <2>1. CASE o \in AlphaOrders
    <3>1. ASSUME Verdict(o, k).kind = "ok", NEW i \in Carried(o, k) PROVE b[i] >= 1
      <4>1. i \in LinesOf(o) /\ ChunkOf(i) = k
        BY <1>7, <2>1
      <4>2. CASE Key(o, k) \in seen
        BY <4>1, <4>2, <2>1, <1>0, <1>5 DEF AlphaBooks
      <4>3. CASE Key(o, k) \notin seen
        BY <4>1, <4>3, <3>1, <2>1, <1>5, <1>7
      <4>4. QED
        BY <4>2, <4>3
    <3>2. Verdict(o, k).kind \in {"ok", "rejected"}
      BY <2>1 DEF Verdict, Response
    <3>3. QED
      BY <3>1, <3>2, <1>1 DEF Honest, Kinds
  <2>2. CASE o \notin AlphaOrders
    <3>1. Carried(o, k) = LinesOf(o)
      BY <2>2 DEF Carried
    <3>2. CASE Verdict(o, k).kind = "ok"
      <4>1. Taken(o, k) = LinesOf(o)
        BY <3>1, <3>2, <2>2 DEF Taken
      <4>2. QED
        BY <4>1, <3>1, <3>2, <1>1, <1>5 DEF Honest, Kinds
    <3>3. CASE Verdict(o, k).kind = "multi"
      <4>1. Taken(o, k) = InStock(o, k)
        BY <3>3, <2>2 DEF Taken, InStock
      <4>2. /\ Verdict(o, k).accepted = {Items[o][i] : i \in InStock(o, k)}
            /\ InStock(o, k) # LinesOf(o)
        BY <3>1, <3>3, <2>2 DEF Verdict, Response
      <4>3. \A i \in LinesOf(o) : Items[o][i] \in Verdict(o, k).accepted => i \in InStock(o, k)
        BY <4>2, <3>1 DEF InStock
      <4>4. \E i \in LinesOf(o) : i \notin InStock(o, k)
        BY <4>2, <3>1 DEF InStock
      <4>5. QED
        BY <4>1, <4>3, <4>4, <3>3, <1>1, <1>5 DEF Honest, Kinds
    <3>4. CASE Verdict(o, k).kind = "expired"
      BY <3>4 DEF Honest, Kinds
    <3>5. QED
      BY <3>2, <3>3, <3>4, <2>2 DEF Verdict, Response
  <2>3. QED
    BY <2>1, <2>2
<1>11. QED
  BY <1>1, <1>2, <1>4, <1>6, <1>9, <1>10 DEF BooksOK

(***************************************************************************)
(* What the requests hold and the database records of it.                  *)
(***************************************************************************)
\* Every line reported as accepted is in the books.
Backed(books, ls) ==
    \A i \in DOMAIN ls : ls[i].accepted => i \in DOMAIN books /\ books[i] >= 1

\* A result of an order of n lines is as good as its line rows.
Settles(n, status, ls) ==
    /\ status = "SYNCED" => Len(ls) = n /\ \A i \in 1..n : i \in DOMAIN ls /\ ls[i].accepted
    /\ status = "PARTIAL_SUCCESS" => /\ \E i \in DOMAIN ls : ls[i].accepted
                                     /\ \E i \in DOMAIN ls : ~ls[i].accepted

SentHonest ==
    \A c \in Clicks : \A k \in 1..Len(sent[c]) :
        Honest(booked[order[c]], order[c], k, sent[c][k])

RecordsOK ==
    /\ \A o \in Orders : /\ Backed(booked[o], lines[o])
                         /\ Settles(Len(Items[o]), row[o].status, lines[o])
    /\ \A c \in Clicks :
          /\ Backed(booked[order[c]], att[c].lines)
          /\ pc[c] = "completing" => Settles(Len(Items[order[c]]), att[c].status, att[c].lines)

\* What was backed stays backed.
LEMMA BackedStays ==
  ASSUME NEW before, NEW after, Grown(before, after), NEW ls, Backed(before, ls)
  PROVE  Backed(after, ls)
BY DEF Backed, Grown

\* What was honest stays honest.
LEMMA HonestStays ==
  ASSUME NEW before, NEW after, Grown(before, after), NEW o, NEW k, NEW r,
         LinesOf(o) = DOMAIN before, Carried(o, k) \subseteq LinesOf(o),
         Honest(before, o, k, r)
  PROVE  Honest(after, o, k, r)
BY DEF Honest, Grown

\* The outcome of a dispatch tells of a line only what its responses say.
LEMMA InterpretedIsHonest ==
  ASSUME TypeOK, SentOK, BooksOK, SentHonest, NEW c \in Clicks, Interpreted(c)
  PROVE  LET outcome == Interpret(order[c], sent[c])
         IN  /\ Backed(booked[order[c]], outcome.lines)
             /\ Settles(Len(Items[order[c]]), outcome.status, outcome.lines)
<1> DEFINE o  == order[c]
           oc == Interpret(o, sent[c])
<1>1. o \in Orders /\ Items[o] \in Seq(SKUs) /\ Items[o] # <<>>
  BY FlowAssumption DEF TypeOK
<1>2. Len(Items[o]) \in Nat \ {0}
  BY <1>1
<1>3. sent[c] # <<>>
  <2>1. Len(Requests(o)) # 0
    BY <1>1, RequestsCounted
  <2>2. QED
    BY <2>1 DEF Interpreted, Done
<1>4. Len(Requests(o)) \in Nat
  BY <1>1, RequestsCounted
<1>5. PICK n \in ChunksOf(o) : sent[c] \in [1..n -> ResponsesTo(o)]
  BY <1>3 DEF SentOK
<1>6. n \in Nat \ {0} /\ Len(sent[c]) = n /\ n \in 1..n
  BY <1>4, <1>5 DEF ChunksOf
<1>7. n = Len(Requests(o)) \/ sent[c][n].kind = "error"
  BY <1>6 DEF Interpreted, Done
<1>8. \A k \in 1..n : Honest(booked[o], o, k, sent[c][k])
  BY <1>6 DEF SentHonest
<1>9. DOMAIN booked[o] = 1..Len(Items[o])
  BY <1>1 DEF BooksOK, LinesOf
<1>10. CASE o \in AlphaOrders
  <2>1. AlphaTruthful(Items[o], n, sent[c])
    <3>1. Len(Requests(o)) = ChunkCount(Items[o])
      BY <1>1, <1>10, RequestsCounted
    <3>2. n \in 1..ChunkCount(Items[o])
      BY <3>1 DEF ChunksOf
    <3>3. n = ChunkCount(Items[o]) \/ sent[c][n].kind = "error"
      BY <3>1, <1>7
    <3>4. QED
      BY <3>2, <3>3, <1>1, <1>5, AlphaIsTruthful
  <2>2. oc = AlphaInterpret(Items[o], sent[c])
    BY <1>10 DEF Interpret
  <2>3. Settles(Len(Items[o]), oc.status, oc.lines)
    BY <2>1, <2>2 DEF AlphaTruthful, Settles
  <2>4. ASSUME NEW i \in DOMAIN oc.lines, oc.lines[i].accepted
        PROVE  i \in DOMAIN booked[o] /\ booked[o][i] >= 1
    <3>1. i \in 1..Len(Items[o])
      BY <2>1, <2>2, <1>2 DEF AlphaTruthful
    <3>2. ChunkOf(i) \in 1..n /\ sent[c][ChunkOf(i)].kind = "ok"
      BY <2>1, <2>2, <2>4 DEF AlphaTruthful
    <3>3. i \in Carried(o, ChunkOf(i))
      BY <3>1, <1>10 DEF Carried, LinesOf
    <3>4. QED
      BY <3>1, <3>2, <3>3, <1>8, <1>9 DEF Honest
  <2>5. QED
    BY <2>3, <2>4 DEF Backed
<1>11. CASE o \notin AlphaOrders
  <2>1. n = 1
    <3>1. Len(Requests(o)) = 1
      BY <1>1, <1>11, RequestsCounted
    <3>2. n \in 1..Len(Requests(o))
      BY DEF ChunksOf
    <3>3. QED
      BY <3>1, <3>2
  <2>2. Honest(booked[o], o, 1, sent[c][1])
    BY <2>1, <1>8
  <2>3. sent[c] = <<sent[c][1]>>
    BY <2>1, <1>5
  <2>4. BetaTruthful(Items[o], sent[c][1])
    BY <2>2, <1>1, BetaIsTruthful DEF Honest
  <2>5. oc = BetaInterpret(Items[o], <<sent[c][1]>>)
    BY <2>3, <1>11 DEF Interpret
  <2>6. Carried(o, 1) = LinesOf(o) /\ LinesOf(o) = 1..Len(Items[o])
    BY <1>11 DEF Carried, LinesOf
  <2>7. Backed(booked[o], oc.lines)
    BY <2>2, <2>4, <2>5, <2>6, <1>9 DEF Backed, Honest, BetaTruthful
  <2>8. Settles(Len(Items[o]), oc.status, oc.lines)
    BY <2>2, <2>4, <2>5, <2>6 DEF Settles, Honest, BetaTruthful
  <2>9. QED
    BY <2>7, <2>8
<1>12. QED
  BY <1>10, <1>11

\* Where the attempt a request holds comes from: from before, from a row just read,
\* without lines yet, or with the lines of the database.
AttFrom(c) ==
    \/ att'[c] = att[c] /\ order'[c] = order[c] /\ (pc'[c] = "completing" => pc[c] = "completing")
    \/ att'[c].lines = NoLines /\ pc'[c] # "completing"
    \/ order'[c] = order[c] /\ att'[c].lines = lines[order[c]] /\ pc'[c] # "completing"

\* Where the record of an order comes from: from before, or from a request that completes.
RecordFrom(o) ==
    \/ lines'[o] = lines[o] /\ row'[o].status \in {row[o].status, "PENDING"}
    \/ \E c \in Clicks : /\ pc[c] = "completing" /\ order[c] = o
                         /\ row'[o].status = att[c].status /\ lines'[o] = att[c].lines

\* Each step of the claim protocol, the dispatch apart, has such sources.
LEMMA ClaimRecords ==
  ASSUME TypeOK, ClaimStep
  PROVE  (\A c \in Clicks : AttFrom(c)) /\ (\A o \in Orders : RecordFrom(o))
<1> DEFINE Goal == (\A c \in Clicks : AttFrom(c)) /\ (\A o \in Orders : RecordFrom(o))
<1> USE DEF TypeOK, AttFrom, RecordFrom
<1>1. ASSUME NEW c \in Clicks, NEW o \in Orders, Click(c, o) \/ CheckStatus(c, o) PROVE Goal
  BY <1>1 DEF Click, CheckStatus, Arrive, Blank
<1>2. ASSUME NEW c \in Clicks, Refuse(c) \/ Admit(c) \/ NoRow(c) \/ Abort(c) PROVE Goal
  BY <1>2 DEF Refuse, Admit, NoRow, Abort, Answer
<1>3. ASSUME NEW c \in Clicks, InsertClaim(c) PROVE Goal
  BY <1>3 DEF InsertClaim, Win
<1>4. ASSUME NEW c \in Clicks, InsertConflict(c) \/ ReclaimLost(c) PROVE Goal
  BY <1>4 DEF InsertConflict, ReclaimLost
<1>5. ASSUME NEW c \in Clicks, Reclaim(c) PROVE Goal
  BY <1>5 DEF Reclaim, Win
<1>6. ASSUME NEW c \in Clicks, ReadRow(c) PROVE Goal
  BY <1>6 DEF ReadRow
<1>7. ASSUME NEW c \in Clicks, ReadLines(c) PROVE Goal
  BY <1>7 DEF ReadLines, WithLines, Answer
<1>8. ASSUME NEW c \in Clicks, Complete(c) \/ CompleteUnheard(c) PROVE Goal
  <2>1. pc[c] = "completing" /\ Write(c) /\ att' = att /\ order' = order
    BY <1>8 DEF Complete, CompleteUnheard, Running
  <2>2. \A d \in Clicks : pc'[d] = "completing" => pc[d] = "completing"
    BY <1>8 DEF Complete, CompleteUnheard, Answer
  <2>3. RecordFrom(order[c])
    BY <2>1 DEF Write
  <2>4. \A o \in Orders \ {order[c]} : RecordFrom(o)
    BY <2>1 DEF Write
  <2>5. QED
    BY <2>1, <2>2, <2>3, <2>4
<1>9. ASSUME NEW c \in Clicks, CompleteRolledBack(c) \/ DatabaseError(c) PROVE Goal
  BY <1>9 DEF CompleteRolledBack, DatabaseError, Answer
<1>10. ASSUME NEW c \in Clicks, Disconnect(c) PROVE Goal
  BY <1>10 DEF Disconnect
<1>11. ASSUME NEW D \in SUBSET Clicks, Crash(D) PROVE Goal
  BY <1>11 DEF Crash
<1>12. ASSUME NEW o \in Orders, Age(o) \/ Expire(o) PROVE Goal
  BY <1>12 DEF Age, Expire
<1>13. QED
  BY <1>1, <1>2, <1>3, <1>4, <1>5, <1>6, <1>7, <1>8, <1>9, <1>10, <1>11, <1>12 DEF ClaimStep, Handle, Environment

\* A step of the claim protocol moves records about without adding to them.
LEMMA RecordsMoved ==
  ASSUME TypeOK, RecordsOK, ClaimStep, booked' = booked
  PROVE  RecordsOK'
<1>1. /\ \A c \in Clicks : AttFrom(c)
      /\ \A o \in Orders : RecordFrom(o)
  BY ClaimRecords
<1>2. \A b : Backed(b, NoLines)
  BY FlowAssumption DEF Backed
<1>3. \A n, ls : Settles(n, "PENDING", ls)
  BY DEF Settles
<1>4. ASSUME NEW o \in Orders
      PROVE  Backed(booked[o], lines'[o]) /\ Settles(Len(Items[o]), row'[o].status, lines'[o])
  BY <1>1, <1>3 DEF RecordFrom, RecordsOK
<1>5. ASSUME NEW c \in Clicks
      PROVE  /\ Backed(booked[order'[c]], att'[c].lines)
             /\ pc'[c] = "completing" =>
                   Settles(Len(Items[order'[c]]), att'[c].status, att'[c].lines)
  BY <1>1, <1>2 DEF AttFrom, RecordsOK, TypeOK
<1>6. QED
  BY <1>4, <1>5 DEF RecordsOK

\* Forgotten responses need not be honest.
LEMMA HonestyForgotten ==
  ASSUME SentOK, SentHonest, Forget,
         \A c \in Clicks : pc[c] = "dispatching" /\ pc'[c] = "dispatching"
                              => order'[c] = order[c]
  PROVE  SentHonest'
<1>1. booked' = booked
  BY DEF Forget
<1>2. ASSUME NEW c \in Clicks, NEW k \in 1..Len(sent'[c])
      PROVE  Honest(booked[order'[c]], order'[c], k, sent'[c][k])
  <2>1. CASE sent'[c] = <<>>
    BY <2>1, <1>2
  <2>2. CASE sent'[c] # <<>>
    <3>1. pc'[c] = "dispatching" /\ sent'[c] = sent[c]
      BY <2>2 DEF Forget
    <3>2. pc[c] = "dispatching"
      BY <3>1, <2>2 DEF SentOK
    <3>3. QED
      BY <3>1, <3>2, <1>2 DEF SentHonest
  <2>3. QED
    BY <2>1, <2>2
<1>3. QED
  BY <1>1, <1>2 DEF SentHonest, Honest, Carried, LinesOf

FlowInv == SentOK /\ BooksOK /\ SentHonest /\ RecordsOK

\* Booking disturbs nothing that was said before.
LEMMA BookedFurther ==
  ASSUME TypeOK, SentOK, BooksOK, SentHonest, RecordsOK, UNCHANGED vars,
         NEW o \in Orders, NEW k \in ChunksOf(o), Book(o, k)
  PROVE  /\ BooksOK'
         /\ RecordsOK'
         /\ \A c \in Clicks : \A j \in 1..Len(sent[c]) :
               Honest(booked'[order[c]], order[c], j, sent[c][j])
<1>1. BooksOK' /\ \A p \in Orders : Grown(booked[p], booked'[p])
  BY BookStep
<1>2. RecordsOK'
  BY <1>1, BackedStays DEF RecordsOK, vars, TypeOK
<1>3. ASSUME NEW c \in Clicks, NEW j \in 1..Len(sent[c])
      PROVE  Honest(booked'[order[c]], order[c], j, sent[c][j])
  <2>1. order[c] \in Orders
    BY DEF TypeOK
  <2>2. LinesOf(order[c]) = DOMAIN booked[order[c]]
    BY <2>1 DEF BooksOK
  <2>3. Carried(order[c], j) \subseteq LinesOf(order[c])
    BY DEF Carried
  <2>4. Honest(booked[order[c]], order[c], j, sent[c][j])
    BY DEF SentHonest
  <2>5. QED
    BY <2>1, <2>2, <2>3, <2>4, <1>1, HonestStays
<1>4. QED
  BY <1>1, <1>2, <1>3

\* One more honest response keeps the collection honest.
LEMMA HonestyAppended ==
  ASSUME TypeOK, SentOK, NEW c \in Clicks, Sending(c), UNCHANGED vars,
         NEW r \in ResponsesTo(order[c]),
         sent' = [sent EXCEPT ![c] = Append(sent[c], r)],
         Honest(booked'[order[c]], order[c], Current(c), r),
         \A d \in Clicks : \A j \in 1..Len(sent[d]) :
             Honest(booked'[order[d]], order[d], j, sent[d][j])
  PROVE  SentHonest'
<1>1. Len(sent[c]) \in Nat /\ Current(c) = Len(sent[c]) + 1
  BY SentCurrent DEF Current
<1>2. /\ Len(sent'[c]) = Current(c)
      /\ sent'[c][Current(c)] = r
      /\ \A j \in 1..Len(sent[c]) : sent'[c][j] = sent[c][j]
      /\ \A d \in Clicks \ {c} : sent'[d] = sent[d]
  BY SentAppended
<1>3. order' = order
  BY DEF vars
<1>4. ASSUME NEW d \in Clicks, NEW j \in 1..Len(sent'[d])
      PROVE  Honest(booked'[order[d]], order[d], j, sent'[d][j])
  <2>1. CASE d # c
    BY <1>2, <1>4, <2>1
  <2>2. CASE d = c /\ j = Current(c)
    BY <1>2, <2>2
  <2>3. CASE d = c /\ j # Current(c)
    <3>1. j \in 1..Len(sent[c])
      BY <1>1, <1>2, <1>4, <2>3
    <3>2. QED
      BY <3>1, <1>2, <2>3
  <2>4. QED
    BY <2>1, <2>2, <2>3
<1>5. QED
  BY <1>3, <1>4 DEF SentHonest, Honest, Carried, LinesOf

\* Nothing is booked, sent or recorded at first.
LEMMA BooksInit == FlowInit => FlowInv
<1> SUFFICES ASSUME FlowInit PROVE FlowInv
  OBVIOUS
<1>1. SentOK
  BY FlowInitInv
<1>2. BooksOK
  <2>1. booked = [o \in Orders |-> booked[o]]
    BY DEF FlowInit
  <2>2. \A o \in Orders : booked[o] = [i \in LinesOf(o) |-> 0]
    BY DEF FlowInit
  <2>3. seen = {}
    BY DEF FlowInit
  <2>4. QED
    BY <2>1, <2>2, <2>3, FlowAssumption DEF BooksOK, AlphaBooks
<1>3. SentHonest
  BY DEF FlowInit, SentHonest
<1>4. RecordsOK
  BY FlowAssumption DEF FlowInit, Init, RecordsOK, Backed, Settles, Blank
<1>5. QED
  BY <1>1, <1>2, <1>3, <1>4 DEF FlowInv

\* One step per kind of step of FlowNext; those that book go through BookedFurther.
LEMMA BooksStep == IInv /\ FlowInv /\ [FlowNext]_allVars => FlowInv'
<1> SUFFICES ASSUME IInv, FlowInv, [FlowNext]_allVars PROVE FlowInv'
  OBVIOUS
<1>1. TypeOK /\ RoleOK /\ SentOK /\ BooksOK /\ SentHonest /\ RecordsOK
  BY DEF IInv, FlowInv
<1>2. SentOK'
  BY <1>1, SentStep
<1>3. ASSUME ClaimStep, Forget PROVE BooksOK' /\ SentHonest' /\ RecordsOK'
  <2>1. booked' = booked /\ seen' = seen
    BY <1>3 DEF Forget
  <2>2. BooksOK'
    BY <1>1, <2>1 DEF BooksOK, AlphaBooks, LinesOf
  <2>3. SentHonest'
    BY <1>1, <1>3, OrderKept, HonestyForgotten
  <2>4. QED
    BY <1>1, <1>3, <2>1, <2>2, <2>3, RecordsMoved
<1>4. ASSUME NEW c \in Clicks, Interpreted(c), Forget PROVE BooksOK' /\ SentHonest' /\ RecordsOK'
  <2> DEFINE outcome == Interpret(order[c], sent[c])
  <2>1. booked' = booked /\ seen' = seen
    BY <1>4 DEF Forget
  <2>2. /\ order' = order /\ row' = row /\ lines' = lines
        /\ att' = [att EXCEPT ![c] = outcome]
        /\ pc' = [pc EXCEPT ![c] = "completing"]
    BY <1>4 DEF Interpreted, Dispatch
  <2>3. BooksOK'
    BY <1>1, <2>1 DEF BooksOK, AlphaBooks, LinesOf
  <2>4. SentHonest'
    BY <1>1, <1>4, <2>2, HonestyForgotten
  <2>5. /\ Backed(booked[order[c]], outcome.lines)
        /\ Settles(Len(Items[order[c]]), outcome.status, outcome.lines)
    BY <1>1, <1>4, InterpretedIsHonest
  <2>6. RecordsOK'
    <3> HIDE DEF outcome
    <3>1. att'[c] = outcome /\ \A d \in Clicks \ {c} : att'[d] = att[d] /\ pc'[d] = pc[d]
      BY <1>1, <2>2 DEF TypeOK
    <3>2. QED
      BY <1>1, <2>1, <2>2, <2>5, <3>1 DEF RecordsOK
  <2>7. QED
    BY <2>3, <2>4, <2>6
<1>5. ASSUME NEW c \in Clicks, Heard(c) PROVE BooksOK' /\ SentHonest' /\ RecordsOK'
  <2> DEFINE o == order[c]
             k == Current(c)
  <2>1. o \in Orders /\ Sending(c) /\ UNCHANGED vars /\ Book(o, k)
    BY <1>1, <1>5 DEF Heard, TypeOK
  <2>2. k \in ChunksOf(o)
    BY <1>1, <2>1, SentCurrent
  <2>3. Honest(booked'[o], o, k, Verdict(o, k))
    BY <1>1, <2>1, <2>2, BookStep
  <2>4. /\ BooksOK' /\ RecordsOK'
        /\ \A d \in Clicks : \A j \in 1..Len(sent[d]) :
              Honest(booked'[order[d]], order[d], j, sent[d][j])
    BY <1>1, <2>1, <2>2, BookedFurther
  <2>5. Verdict(o, k) \in ResponsesTo(o) /\ sent' = [sent EXCEPT ![c] = Append(sent[c], Verdict(o, k))]
    BY <1>5, <2>1, <2>2, VerdictTyped DEF Heard
  <2>6. SentHonest'
    BY <1>1, <2>1, <2>3, <2>4, <2>5, HonestyAppended
  <2>7. QED
    BY <2>4, <2>6
<1>6. ASSUME UNCHANGED <<vars, sent, booked, seen>> PROVE BooksOK' /\ SentHonest' /\ RecordsOK'
  BY <1>1, <1>6 DEF BooksOK, AlphaBooks, LinesOf, SentHonest, Honest, Carried, RecordsOK, vars
<1>7. ASSUME NEW o \in Orders, NEW k \in ChunksOf(o), Book(o, k), UNCHANGED <<vars, sent>>
      PROVE  BooksOK' /\ SentHonest' /\ RecordsOK'
  <2>1. UNCHANGED vars /\ sent' = sent /\ order' = order
    BY <1>7 DEF vars
  <2>2. /\ BooksOK' /\ RecordsOK'
        /\ \A d \in Clicks : \A j \in 1..Len(sent[d]) :
              Honest(booked'[order[d]], order[d], j, sent[d][j])
    BY <1>1, <1>7, <2>1, BookedFurther
  <2>3. SentHonest'
    BY <2>1, <2>2 DEF SentHonest, Honest, Carried, LinesOf
  <2>4. QED
    BY <2>2, <2>3
<1>8. ASSUME NEW c \in Clicks, Unheard(c) PROVE BooksOK' /\ SentHonest' /\ RecordsOK'
  <2> DEFINE o == order[c]
             k == Current(c)
             error == Response("error", {})
  <2>1. o \in Orders /\ Sending(c) /\ UNCHANGED vars
    BY <1>1, <1>8 DEF Unheard, TypeOK
  <2>2. k \in ChunksOf(o)
    BY <1>1, <2>1, SentCurrent
  <2>3. Book(o, k) \/ UNCHANGED <<booked, seen>>
    BY <1>8 DEF Unheard
  <2>4. CASE UNCHANGED sent
    BY <2>1, <2>2, <2>3, <2>4, <1>6, <1>7
  <2>5. CASE sent' = [sent EXCEPT ![c] = Append(sent[c], error)]
    <3>1. /\ BooksOK' /\ RecordsOK'
          /\ \A d \in Clicks : \A j \in 1..Len(sent[d]) :
                Honest(booked'[order[d]], order[d], j, sent[d][j])
      <4>1. CASE Book(o, k)
        BY <1>1, <2>1, <2>2, <4>1, BookedFurther
      <4>2. CASE UNCHANGED <<booked, seen>>
        BY <1>1, <2>1, <4>2 DEF BooksOK, AlphaBooks, LinesOf, SentHonest, RecordsOK, vars
      <4>3. QED
        BY <2>3, <4>1, <4>2
    <3>2. error \in ResponsesTo(o) /\ Honest(booked'[o], o, k, error)
      BY DEF ResponsesTo, Response, Kinds, Honest
    <3>3. SentHonest'
      BY <1>1, <2>1, <2>5, <3>1, <3>2, HonestyAppended
    <3>4. QED
      BY <3>1, <3>3
  <2>6. QED
    BY <1>8, <2>4, <2>5 DEF Unheard
<1>9. ASSUME NEW o \in Orders, NEW k \in ChunksOf(o), Deliver(o, k)
      PROVE  BooksOK' /\ SentHonest' /\ RecordsOK'
  BY <1>7, <1>9 DEF Deliver
<1>10. ASSUME NEW sku \in SKUs, Restock(sku) PROVE BooksOK' /\ SentHonest' /\ RecordsOK'
  BY <1>6, <1>10 DEF Restock
<1>11. CASE UNCHANGED allVars
  BY <1>2, <1>6, <1>11 DEF allVars, flowVars, FlowInv
<1>12. QED
  BY <1>2, <1>3, <1>4, <1>5, <1>8, <1>9, <1>10, <1>11 DEF FlowNext, FlowServe, ClaimStep, FlowInv

\* The invariant behind the four theorems below.
THEOREM BooksInvariance == FlowSpec => []FlowInv
BY BooksInit, BooksStep, FlowInvariance, PTL DEF FlowSpec

\* ERP A never books a line twice: whatever is lost, late, retried, re-clicked or
\* dispatched by two requests at once, the chunk comes with the same key and index.
THEOREM AlphaNeverBooksTwice == FlowSpec => []AlphaBookedOnce
<1>1. FlowInv => AlphaBookedOnce
  BY DEF FlowInv, BooksOK, AlphaBooks, AlphaBookedOnce
<1>2. QED
  BY <1>1, BooksInvariance, PTL

\* SYNCED is the truth: the ERP has every line of the order, and every line is
\* reported, for an order of any length cut into any number of chunks.
THEOREM SyncedOrdersAreBooked == FlowSpec => []SyncedMeansBooked
<1>1. FlowInv => SyncedMeansBooked
  BY DEF FlowInv, RecordsOK, Settles, Backed, SyncedMeansBooked, LinesOf
<1>2. QED
  BY <1>1, BooksInvariance, PTL

\* No line is reported as accepted that the ERP does not have.
THEOREM AcceptedLinesAreBooked == FlowSpec => []AcceptedMeansBooked
<1>1. FlowInv => AcceptedMeansBooked
  BY DEF FlowInv, RecordsOK, Backed, AcceptedMeansBooked
<1>2. QED
  BY <1>1, BooksInvariance, PTL

\* PARTIAL_SUCCESS means that the ERP has something and refused something.
THEOREM PartialOrdersArePartial == FlowSpec => []PartialIsPartial
<1>1. FlowInv => PartialIsPartial
  <2> SUFFICES ASSUME FlowInv, NEW o \in Orders, row[o].status = "PARTIAL_SUCCESS"
               PROVE  /\ \E i \in LinesOf(o) : booked[o][i] >= 1
                      /\ \E i \in DOMAIN lines[o] : lines[o][i].accepted
                      /\ \E i \in DOMAIN lines[o] : ~lines[o][i].accepted
    BY DEF PartialIsPartial
  <2>1. /\ \E i \in DOMAIN lines[o] : lines[o][i].accepted
        /\ \E i \in DOMAIN lines[o] : ~lines[o][i].accepted
    BY DEF FlowInv, RecordsOK, Settles
  <2>2. PICK i \in DOMAIN lines[o] : lines[o][i].accepted
    BY <2>1
  <2>3. i \in DOMAIN booked[o] /\ booked[o][i] >= 1
    BY <2>2 DEF FlowInv, RecordsOK, Backed
  <2>4. QED
    BY <2>1, <2>3 DEF FlowInv, BooksOK
<1>2. QED
  BY <1>1, BooksInvariance, PTL

(***************************************************************************)
(* Type correctness of the whole path.                                     *)
(***************************************************************************)
\* A request of an order, by number.
Numbered == UNION {{<<o, k>> : k \in ChunksOf(o)} : o \in Orders}

\* What FlowTypeOK says beyond the invariants above.
FlowTypeInv ==
    /\ try \in [Clicks -> 1..MaxAttempts]
    /\ late \subseteq Numbered
    /\ seen \subseteq Numbered
    /\ refused \subseteq SKUs

\* A request that is booked leaves at most its own key.
LEMMA BookTyped ==
  ASSUME NEW o \in Orders, NEW k \in ChunksOf(o), Book(o, k), seen \subseteq Numbered
  PROVE  seen' \subseteq Numbered
<1>1. <<o, k>> \in Numbered
  BY DEF Numbered
<1>2. seen' \subseteq seen \cup {<<o, k>>}
  BY DEF Book, Key
<1>3. QED
  BY <1>1, <1>2

\* One step per kind of step of FlowNext; only attempts count and only requests travel.
LEMMA FlowTypeStep ==
  IInv /\ FlowInv /\ FlowTypeInv /\ [FlowNext]_allVars => FlowTypeInv'
<1> SUFFICES ASSUME IInv, FlowInv, FlowTypeInv, [FlowNext]_allVars PROVE FlowTypeInv'
  OBVIOUS
<1>1. TypeOK /\ SentOK
  BY DEF IInv, FlowInv
<1>2. 1 \in 1..MaxAttempts
  BY FlowAssumption
<1>3. Numbered' = Numbered
  BY DEF Numbered, ChunksOf
<1>4. ASSUME Forget PROVE FlowTypeInv'
  BY <1>2, <1>3, <1>4 DEF Forget, FlowTypeInv
<1>5. ASSUME NEW c \in Clicks, Heard(c) PROVE FlowTypeInv'
  <2>1. /\ order[c] \in Orders
        /\ Current(c) \in ChunksOf(order[c])
        /\ Book(order[c], Current(c))
    BY <1>1, <1>5, SentCurrent DEF Heard, TypeOK
  <2>2. seen' \subseteq Numbered
    BY <2>1, BookTyped DEF FlowTypeInv
  <2>3. QED
    BY <1>2, <1>3, <1>5, <2>2 DEF Heard, FlowTypeInv
<1>6. ASSUME NEW c \in Clicks, Unheard(c) PROVE FlowTypeInv'
  <2>1. order[c] \in Orders /\ Current(c) \in ChunksOf(order[c])
    BY <1>1, <1>6, SentCurrent DEF Unheard, TypeOK
  <2>2. seen' \subseteq Numbered
    BY <1>6, <2>1, BookTyped DEF Unheard, FlowTypeInv
  <2>3. late' \subseteq Numbered
    <3>1. <<order[c], Current(c)>> \in Numbered
      BY <2>1 DEF Numbered
    <3>2. late' \subseteq late \cup {<<order[c], Current(c)>>}
      BY <1>6 DEF Unheard
    <3>3. QED
      BY <3>1, <3>2 DEF FlowTypeInv
  <2>4. try' \in [Clicks -> 1..MaxAttempts]
    <3>1. CASE try' = [try EXCEPT ![c] = 1]
      BY <1>2, <3>1 DEF FlowTypeInv
    <3>2. CASE ~LastAttempt(c) /\ try' = [try EXCEPT ![c] = try[c] + 1]
      <4>1. try[c] \in 1..MaxAttempts /\ try[c] # MaxAttempts
        BY <3>2 DEF LastAttempt, FlowTypeInv
      <4>2. try[c] + 1 \in 1..MaxAttempts
        BY <4>1, FlowAssumption
      <4>3. QED
        BY <3>2, <4>2 DEF FlowTypeInv
    <3>3. QED
      BY <1>6, <3>1, <3>2 DEF Unheard
  <2>5. QED
    BY <1>3, <1>6, <2>2, <2>3, <2>4 DEF Unheard, FlowTypeInv
<1>7. ASSUME NEW o \in Orders, NEW k \in ChunksOf(o), Deliver(o, k) PROVE FlowTypeInv'
  <2>1. seen' \subseteq Numbered
    BY <1>7, BookTyped DEF Deliver, FlowTypeInv
  <2>2. QED
    BY <1>3, <1>7, <2>1 DEF Deliver, FlowTypeInv
<1>8. ASSUME NEW sku \in SKUs, Restock(sku) PROVE FlowTypeInv'
  BY <1>3, <1>8 DEF Restock, FlowTypeInv
<1>9. CASE UNCHANGED allVars
  BY <1>3, <1>9 DEF allVars, flowVars, FlowTypeInv
<1>10. QED
  BY <1>4, <1>5, <1>6, <1>7, <1>8, <1>9 DEF FlowNext, FlowServe

\* Type correctness of the flow: no click makes more attempts than configured
\* (send), and no request outside an order's chunks is sent, delivered or deduped.
THEOREM FlowTypeCorrect == FlowSpec => []FlowTypeOK
<1>1. FlowInit => FlowTypeInv
  BY FlowAssumption DEF FlowInit, FlowTypeInv
<1>2. IInv /\ FlowInv /\ FlowTypeInv => FlowTypeOK
  <2> SUFFICES ASSUME IInv, FlowInv, FlowTypeInv PROVE FlowTypeOK
    OBVIOUS
  <2>1. TypeOK /\ \A o \in Orders : booked[o] \in [LinesOf(o) -> 0..2]
    BY DEF IInv, FlowInv, BooksOK
  <2>2. ASSUME NEW c \in Clicks PROVE sent[c] = <<>> \/ sent[c] \in ResponseLists(order[c])
    BY DEF FlowInv, SentOK, ResponseLists, ChunksOf
  <2>3. QED
    BY <2>1, <2>2 DEF FlowTypeOK, FlowTypeInv, Numbered
<1>3. QED
  BY <1>1, <1>2, FlowTypeStep, FlowInvariance, BooksInvariance, PTL DEF FlowSpec
=============================================================================
