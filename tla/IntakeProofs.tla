---------------------------- MODULE IntakeProofs ----------------------------
(***************************************************************************)
(* What CreateOrder and loadOrder guarantee for any number of overlapping  *)
(* posts and loads, any confirmations and any number of faults.            *)
(***************************************************************************)
EXTENDS Intake, MoneyProofs, MappingProofs, SequenceTheorems

(***************************************************************************)
(* Confirmations.                                                          *)
(***************************************************************************)
\* The lines of an acceptable confirmation satisfy the CHECKs of order_items.
LEMMA AcceptableLines ==
  ASSUME NEW b \in Bodies, Acceptable(b)
  PROVE  ToModel(b) \in Seq(StoredItems)
<1> DEFINE n == Len(b.items)
<1>1. b.items \in Seq(PostedItems) /\ DOMAIN b.items = 1..n /\ n \in Nat
  BY IntakeAssumption
<1>2. ASSUME NEW i \in 1..n
      PROVE  [sku   |-> b.items[i].sku, qty |-> b.items[i].qty,
              price |-> ParseDecimal(b.items[i].price),
              bps   |-> ParseDecimal(b.items[i].discount)] \in StoredItems
  <2> DEFINE it == b.items[i]
  <2>1. it \in PostedItems
    BY <1>1
  <2>2. it.qty > 0 /\ ParseDecimal(it.price) >= 0 /\ ParseDecimal(it.discount) \in 0..BPS
    BY <1>1 DEF Acceptable, Validate
  <2>3. ParseDecimal(it.price) \in Amounts
    BY <1>1 DEF Acceptable, Binds, Parses
  <2>4. it.sku \in SKUs /\ it.qty \in Nat \ {0}
    BY <2>1, <2>2 DEF PostedItems
  <2>5. ParseDecimal(it.price) \in Nat \cap Amounts
    BY <2>2, <2>3, HalfAssumption DEF Amounts
  <2>6. QED
    BY <2>2, <2>4, <2>5 DEF StoredItems
<1>3. QED
  BY <1>1, <1>2 DEF ToModel

\* The header of a confirmation is a row, if it is acceptable one of the table.
LEMMA BodyHeader ==
  ASSUME NEW b \in Bodies
  PROVE  /\ Acceptable(b) => Header(b) \in Headers
         /\ Header(b) # Blank
<1>1. /\ Acceptable(b) => b.tenant \in Registered
      /\ b.tenant \in Tenants /\ b.ref \in Refs /\ b.phone \in Phones
  BY IntakeAssumption DEF Acceptable
<1>2. Header(b).tenant # Blank.tenant
  BY <1>1 DEF Header, Blank, Tenants
<1>3. QED
  BY <1>1, <1>2 DEF Header, Headers

(***************************************************************************)
(* The inductive invariant.                                                *)
(***************************************************************************)
\* A post that runs has been accepted; the one that writes holds the lock, its order
\* is not stored yet, and it has inserted its first lines.
PostsOK ==
    /\ writer = {} => draft = <<>>
    /\ \A p \in Posts :
        /\ pc[p] # "idle" => Acceptable(body[p])
        /\ pc[p] = "writing" =>
              /\ writer = {p}
              /\ ~Stored(body[p].order)
              /\ Len(draft) <= Len(ToModel(body[p]))
              /\ \A i \in 1..Len(draft) : draft[i] = ToModel(body[p])[i]

\* A load between its SELECTs holds the header that is stored.
LoadsOK ==
    \A l \in Loads : pc[l] = "loading" =>
        Stored(held[l].order) /\ held[l].header = orders[held[l].order]

\* A request that runs has not been answered.
Unanswered == \A r \in Posts \cup Loads : pc[r] # "idle" => reply[r] = "none"

IntakeInv ==
    /\ IntakeTypeOK
    /\ PostsOK
    /\ LoadsOK
    /\ Unanswered
    /\ WholeConfirmation
    /\ LoadsWhole
    /\ CreatedStands

\* The initial state satisfies the invariant.
LEMMA IntakeInitially == IntakeInit => IntakeInv
<1> SUFFICES ASSUME IntakeInit
             PROVE  IntakeInv
  OBVIOUS
<1>1. IntakeTypeOK
  <2>1. orders \in [Orders -> Headers] /\ items \in [Orders -> Seq(StoredItems)]
    BY DEF IntakeInit, Headers
  <2>2. writer \subseteq Posts /\ draft \in Seq(StoredItems) /\ body \in [Posts -> Bodies]
    BY DEF IntakeInit
  <2>3. /\ pc \in [Posts \cup Loads -> {"idle", "inserting", "writing", "loading"}]
        /\ reply \in [Posts \cup Loads -> Replies]
    BY DEF IntakeInit, Replies
  <2>4. held \in [Loads -> [order : Orders, header : Headers, lines : Seq(StoredItems)]]
    <3> DEFINE Unread == {[order |-> o, header |-> Blank, lines |-> <<>>] : o \in Orders}
               Read   == [order : Orders, header : Headers, lines : Seq(StoredItems)]
    <3>1. Blank \in Headers /\ <<>> \in Seq(StoredItems)
      BY DEF Headers
    <3>2. Unread \subseteq Read
      <4>1. ASSUME NEW ls \in Seq(StoredItems)
            PROVE  \A o \in Orders : [order |-> o, header |-> Blank, lines |-> ls] \in Read
        BY <3>1
      <4>2. QED
        BY <3>1, <4>1
    <3>3. held \in [Loads -> Unread]
      BY DEF IntakeInit
    <3> HIDE DEF Unread, Read
    <3>4. held \in [Loads -> Read]
      BY <3>2, <3>3
    <3>5. QED
      BY <3>4 DEF Read
  <2>5. DOMAIN quote = Posts /\ DOMAIN request = Loads /\ old \subseteq Orders /\ faults \in 0..MaxFaults
    BY IntakeAssumption DEF IntakeInit
  <2>6. QED
    BY <2>1, <2>2, <2>3, <2>4, <2>5 DEF IntakeTypeOK
<1>2. PostsOK /\ LoadsOK /\ Unanswered
  BY DEF IntakeInit, PostsOK, LoadsOK, Unanswered
<1>3. WholeConfirmation /\ LoadsWhole /\ CreatedStands
  BY DEF IntakeInit, WholeConfirmation, LoadsWhole, CreatedStands, Stored
<1>4. QED
  BY <1>1, <1>2, <1>3 DEF IntakeInv

(***************************************************************************)
(* What the steps may rely on.                                             *)
(***************************************************************************)
\* What COMMIT keeps is the whole confirmation, of an order that is not stored yet.
LEMMA KeepIsWhole ==
  ASSUME IntakeInv, NEW p \in Posts, Keep(p)
  PROVE  /\ body[p] \in Bodies /\ body[p].order \in Orders
         /\ Acceptable(body[p]) /\ ~Stored(body[p].order)
         /\ writer = {p}
         /\ draft = ToModel(body[p]) /\ draft \in Seq(StoredItems)
<1>1. body[p] \in Bodies /\ body[p].order \in Orders
  BY IntakeAssumption DEF IntakeInv, IntakeTypeOK
<1>2. Acceptable(body[p]) /\ ~Stored(body[p].order) /\ writer = {p}
  BY DEF IntakeInv, PostsOK, Keep
<1>3. draft \in Seq(StoredItems) /\ ToModel(body[p]) \in Seq(StoredItems)
  BY <1>1, <1>2, AcceptableLines DEF IntakeInv, IntakeTypeOK
<1>4. /\ Len(draft) = Len(ToModel(body[p]))
      /\ \A i \in 1..Len(draft) : draft[i] = ToModel(body[p])[i]
  BY DEF IntakeInv, PostsOK, Keep
<1>5. draft = ToModel(body[p])
  BY <1>3, <1>4, SeqEqual
<1>6. QED
  BY <1>1, <1>2, <1>3, <1>5

\* The confirmation of post p is stored where there was none.
StoresOne(p) ==
    /\ ~Stored(body[p].order) /\ Acceptable(body[p])
    /\ orders' = [orders EXCEPT ![body[p].order] = Header(body[p])]
    /\ items'  = [items EXCEPT ![body[p].order] = ToModel(body[p])]

\* A step stores nothing, or one whole confirmation (Keep).
LEMMA WhatIsStored ==
  ASSUME IntakeInv, [IntakeNext]_intakeVars
  PROVE  \/ UNCHANGED <<orders, items>>
         \/ \E p \in Posts : StoresOne(p)
<1>1. ASSUME NEW p \in Posts, Keep(p)
      PROVE  StoresOne(p)
  BY <1>1, KeepIsWhole DEF Keep, StoresOne
<1>2. CASE \E p \in Posts : Commit(p) \/ CommitUnheard(p)
  BY <1>1, <1>2 DEF Commit, CommitUnheard
<1>3. CASE ~\E p \in Posts : Commit(p) \/ CommitUnheard(p)
  BY <1>3 DEF IntakeNext, PostStep, Confirm, InsertOrder, InsertConflict, Busy, InsertItem,
              Rollback, LoadOrder, LoadItems, Age, Crash, intakeVars
<1>4. QED
  BY <1>2, <1>3

\* A stored order is never changed.
LEMMA StoredStays ==
  ASSUME IntakeInv, [IntakeNext]_intakeVars
  PROVE  \A o \in Orders : Stored(o) =>
            Stored(o)' /\ orders'[o] = orders[o] /\ items'[o] = items[o]
<1>1. CASE UNCHANGED <<orders, items>>
  BY <1>1 DEF Stored
<1>2. CASE \E p \in Posts : StoresOne(p)
  BY <1>2 DEF StoresOne, Stored, IntakeInv, IntakeTypeOK
<1>3. QED
  BY <1>1, <1>2, WhatIsStored

\* Stored orders stay whole confirmations (CreateOrder).
LEMMA WholeStep ==
  ASSUME IntakeInv, [IntakeNext]_intakeVars
  PROVE  WholeConfirmation'
<1>1. CASE UNCHANGED <<orders, items>>
  BY <1>1 DEF IntakeInv, WholeConfirmation, Stored
<1>2. CASE \E p \in Posts : StoresOne(p)
  <2> PICK p \in Posts : StoresOne(p)
    BY <1>2
  <2> DEFINE b == body[p]
  <2>1. b \in Bodies /\ Acceptable(b) /\ b.order \in Orders
    BY IntakeAssumption DEF StoresOne, IntakeInv, IntakeTypeOK
  <2>2. Header(b) # Blank /\ Whole(b.order, Header(b), ToModel(b))
    BY <2>1, BodyHeader DEF Whole
  <2>3. ASSUME NEW o \in Orders, o = b.order
        PROVE  orders'[o] = Header(b) /\ items'[o] = ToModel(b)
    BY <2>1, <2>3 DEF StoresOne, IntakeInv, IntakeTypeOK
  <2>4. ASSUME NEW o \in Orders, o # b.order
        PROVE  orders'[o] = orders[o] /\ items'[o] = items[o]
    BY <2>1, <2>4 DEF StoresOne, IntakeInv, IntakeTypeOK
  <2>5. QED
    BY <2>2, <2>3, <2>4 DEF IntakeInv, WholeConfirmation, Stored
<1>3. QED
  BY <1>1, <1>2, WhatIsStored

\* What post p has been asked and answered is as before.
SamePost(p) == body'[p] = body[p] /\ reply'[p] = reply[p] /\ quote'[p] = quote[p]

\* How a step may change what post p has been answered.
LEMMA AnswersOfPost ==
  ASSUME IntakeInv, [IntakeNext]_intakeVars, NEW p \in Posts
  PROVE  \/ SamePost(p)
         \/ reply'[p] \notin {"created", "exists"}
         \/ InsertConflict(p)
         \/ Commit(p)
<1>1. /\ body \in [Posts -> Bodies] /\ reply \in [Posts \cup Loads -> Replies]
      /\ p \in Posts \cup Loads /\ p \notin Loads /\ DOMAIN quote = Posts
  BY IntakeAssumption DEF IntakeInv, IntakeTypeOK
<1>2. CASE UNCHANGED intakeVars
  BY <1>2 DEF intakeVars, SamePost
<1>3. ASSUME NEW q \in Posts, NEW b \in Bodies, Confirm(q, b)
      PROVE  SamePost(p) \/ reply'[p] \notin {"created", "exists"}
  BY <1>1, <1>3 DEF Confirm, Return, SamePost
<1>4. ASSUME NEW q \in Posts, InsertOrder(q) \/ InsertItem(q)
      PROVE  SamePost(p)
  BY <1>4 DEF InsertOrder, InsertItem, SamePost
<1>5. ASSUME NEW q \in Posts, InsertConflict(q) \/ Commit(q), q # p
      PROVE  SamePost(p)
  BY <1>1, <1>5 DEF InsertConflict, Commit, Return, SamePost
<1>6. ASSUME NEW q \in Posts, Busy(q) \/ CommitUnheard(q) \/ Rollback(q)
      PROVE  SamePost(p) \/ reply'[p] \notin {"created", "exists"}
  BY <1>1, <1>6 DEF Busy, CommitUnheard, Rollback, Return, SamePost
<1>7. ASSUME NEW l \in Loads, LoadItems(l) \/ \E o \in Orders : LoadOrder(l, o)
      PROVE  SamePost(p)
  BY <1>1, <1>7 DEF LoadItems, LoadOrder, Return, SamePost
<1>8. ASSUME NEW o \in Orders, Age(o)
      PROVE  SamePost(p)
  BY <1>8 DEF Age, SamePost
<1>9. CASE Crash
  BY <1>1, <1>9 DEF Crash, SamePost
<1>10. QED
  BY <1>2, <1>3, <1>4, <1>5, <1>6, <1>7, <1>8, <1>9 DEF IntakeNext, PostStep

\* What a post was answered stays true (CreateOrder).
LEMMA CreatedStep ==
  ASSUME IntakeInv, [IntakeNext]_intakeVars
  PROVE  CreatedStands'
<1> DEFINE Good(p) ==
             /\ reply'[p] = "created" => /\ orders'[body'[p].order] = Header(body'[p])
                                         /\ items'[body'[p].order] = ToModel(body'[p])
             /\ reply'[p] = "exists" => orders'[body'[p].order] # Blank
<1>1. ASSUME NEW p \in Posts
      PROVE  Good(p)
  <2> DEFINE b == body[p]
             o == b.order
  <2>1. b \in Bodies /\ o \in Orders /\ Header(b) # Blank
    BY IntakeAssumption, BodyHeader DEF IntakeInv, IntakeTypeOK
  <2>2. CASE SamePost(p)
    <3>1. /\ reply[p] = "created" => orders[o] = Header(b) /\ items[o] = ToModel(b)
          /\ reply[p] = "exists" => Stored(o)
      BY DEF IntakeInv, CreatedStands
    <3>2. Stored(o) => orders'[o] = orders[o] /\ items'[o] = items[o]
      BY <2>1, StoredStays
    <3>3. QED
      BY <2>1, <2>2, <3>1, <3>2 DEF Stored, SamePost
  <2>3. CASE reply'[p] \notin {"created", "exists"}
    BY <2>3
  <2>4. CASE InsertConflict(p)
    <3>1. Stored(o) /\ orders' = orders /\ body' = body
      BY <2>4 DEF InsertConflict, Conflicts
    <3>2. reply'[p] = "exists"
      BY <2>4 DEF InsertConflict, Return, IntakeInv, IntakeTypeOK
    <3>3. QED
      BY <3>1, <3>2 DEF Stored
  <2>5. CASE Commit(p)
    <3>1. StoresOne(p) /\ body' = body
      BY <2>5, KeepIsWhole DEF Commit, Keep, StoresOne
    <3>2. reply'[p] = "created"
      BY <2>5 DEF Commit, Return, IntakeInv, IntakeTypeOK
    <3>3. orders'[o] = Header(b) /\ items'[o] = ToModel(b)
      BY <2>1, <3>1 DEF StoresOne, IntakeInv, IntakeTypeOK
    <3>4. QED
      BY <3>1, <3>2, <3>3
  <2>6. QED
    BY <2>2, <2>3, <2>4, <2>5, AnswersOfPost
<1>2. QED
  BY <1>1 DEF CreatedStands, Stored

\* What load l has read, built and answered is as before.
SameLoad(l) == held'[l] = held[l] /\ reply'[l] = reply[l] /\ request'[l] = request[l]

\* How a step may change what load l has read and answered.
LEMMA AnswersOfLoad ==
  ASSUME IntakeInv, [IntakeNext]_intakeVars, NEW l \in Loads
  PROVE  \/ SameLoad(l)
         \/ reply'[l] \notin {"built", "refused"}
         \/ LoadItems(l)
<1>1. /\ held \in [Loads -> [order : Orders, header : Headers, lines : Seq(StoredItems)]]
      /\ reply \in [Posts \cup Loads -> Replies]
      /\ l \in Posts \cup Loads /\ l \notin Posts /\ DOMAIN request = Loads
  BY IntakeAssumption DEF IntakeInv, IntakeTypeOK
<1>2. CASE UNCHANGED intakeVars
  BY <1>2 DEF intakeVars, SameLoad
<1>3. ASSUME NEW p \in Posts,
             \/ \E b \in Bodies : Confirm(p, b)
             \/ PostStep(p) \/ CommitUnheard(p) \/ Rollback(p)
      PROVE  SameLoad(l)
  BY <1>1, <1>3 DEF Confirm, PostStep, InsertOrder, InsertConflict, Busy, InsertItem,
                    Commit, CommitUnheard, Rollback, Return, SameLoad
<1>4. ASSUME NEW k \in Loads, LoadItems(k), k # l
      PROVE  SameLoad(l)
  BY <1>1, <1>4 DEF LoadItems, Return, SameLoad
<1>5. ASSUME NEW k \in Loads, NEW o \in Orders, LoadOrder(k, o)
      PROVE  SameLoad(l) \/ reply'[l] \notin {"built", "refused"}
  BY <1>1, <1>5 DEF LoadOrder, Return, SameLoad
<1>6. CASE Crash
  BY <1>1, <1>6 DEF Crash, SameLoad
<1>7. ASSUME NEW o \in Orders, Age(o)
      PROVE  SameLoad(l)
  BY <1>7 DEF Age, SameLoad
<1>8. QED
  BY <1>2, <1>3, <1>4, <1>5, <1>6, <1>7 DEF IntakeNext

\* What LoadItems has read is the order that is stored, header and lines.
LEMMA LoadReads ==
  ASSUME IntakeInv, NEW l \in Loads, LoadItems(l)
  PROVE  LET o == held[l].order IN
         /\ o \in Orders /\ Stored(o) /\ UNCHANGED <<orders, items>>
         /\ held'[l].order = o /\ held'[l].header = orders[o] /\ held'[l].lines = items[o]
<1> DEFINE o == held[l].order
<1>1. held \in [Loads -> [order : Orders, header : Headers, lines : Seq(StoredItems)]]
  BY DEF IntakeInv, IntakeTypeOK
<1>2. o \in Orders /\ Stored(o) /\ held[l].header = orders[o]
  BY <1>1 DEF LoadItems, IntakeInv, LoadsOK
<1>3. held'[l] = [held[l] EXCEPT !.lines = items[o]]
  BY <1>1 DEF LoadItems
<1>4. held'[l].order = o /\ held'[l].header = held[l].header /\ held'[l].lines = items[o]
  BY <1>1, <1>3
<1>5. QED
  BY <1>2, <1>4 DEF LoadItems

\* What a load answers with is whole: its header is still the one that is stored when it
\* reads the lines.
LEMMA LoadsWholeStep ==
  ASSUME IntakeInv, [IntakeNext]_intakeVars
  PROVE  LoadsWhole'
<1>1. ASSUME NEW l \in Loads
      PROVE  reply'[l] \in {"built", "refused"} =>
                Whole(held'[l].order, held'[l].header, held'[l].lines)
  <2>1. CASE SameLoad(l)
    BY <2>1 DEF IntakeInv, LoadsWhole, SameLoad
  <2>2. CASE reply'[l] \notin {"built", "refused"}
    BY <2>2
  <2>3. CASE LoadItems(l)
    <3> DEFINE o == held[l].order
    <3>1. /\ o \in Orders /\ Stored(o)
          /\ held'[l].order = o /\ held'[l].header = orders[o] /\ held'[l].lines = items[o]
      BY <2>3, LoadReads
    <3>2. Whole(o, orders[o], items[o])
      BY <3>1 DEF IntakeInv, WholeConfirmation
    <3>3. QED
      BY <3>1, <3>2
  <2>4. QED
    BY <2>1, <2>2, <2>3, AnswersOfLoad
<1>2. QED
  BY <1>1 DEF LoadsWhole

\* Between the two SELECTs of a load its header stays what is stored.
LEMMA LoadsStep ==
  ASSUME IntakeInv, [IntakeNext]_intakeVars
  PROVE  LoadsOK'
<1>1. /\ held \in [Loads -> [order : Orders, header : Headers, lines : Seq(StoredItems)]]
      /\ pc \in [Posts \cup Loads -> {"idle", "inserting", "writing", "loading"}]
  BY DEF IntakeInv, IntakeTypeOK
<1>2. ASSUME NEW l \in Loads
      PROVE  pc'[l] = "loading" => /\ orders'[held'[l].order] # Blank
                                   /\ held'[l].header = orders'[held'[l].order]
  <2>1. l \in Posts \cup Loads /\ l \notin Posts
    BY IntakeAssumption
  <2>2. CASE held'[l] = held[l] /\ pc'[l] = pc[l]
    <3>1. held[l].order \in Orders
      BY <1>1
    <3>2. pc[l] = "loading" => Stored(held[l].order) /\ held[l].header = orders[held[l].order]
      BY DEF IntakeInv, LoadsOK
    <3>3. QED
      BY <2>2, <3>1, <3>2, StoredStays DEF Stored
  <2>3. CASE pc'[l] # "loading"
    BY <2>3
  <2>4. ASSUME NEW o \in Orders, LoadOrder(l, o)
        PROVE  \/ pc'[l] # "loading"
               \/ orders'[held'[l].order] # Blank /\ held'[l].header = orders'[held'[l].order]
    BY <1>1, <2>1, <2>4 DEF LoadOrder, Return, Stored
  <2>5. CASE UNCHANGED intakeVars
    BY <2>2, <2>5 DEF intakeVars
  <2>6. ASSUME NEW p \in Posts,
               \/ \E b \in Bodies : Confirm(p, b)
               \/ PostStep(p) \/ CommitUnheard(p) \/ Rollback(p)
        PROVE  held'[l] = held[l] /\ pc'[l] = pc[l]
    BY <1>1, <2>1, <2>6 DEF Confirm, PostStep, InsertOrder, InsertConflict, Busy, InsertItem,
                            Commit, CommitUnheard, Rollback, Return
  <2>7. ASSUME NEW k \in Loads, LoadItems(k)
        PROVE  (held'[l] = held[l] /\ pc'[l] = pc[l]) \/ pc'[l] # "loading"
    BY <1>1, <2>1, <2>7 DEF LoadItems, Return
  <2>8. ASSUME NEW k \in Loads, k # l, NEW o \in Orders, LoadOrder(k, o)
        PROVE  held'[l] = held[l] /\ pc'[l] = pc[l]
    BY <1>1, <2>1, <2>8 DEF LoadOrder, Return
  <2>9. CASE Crash
    BY <2>1, <2>3, <2>9 DEF Crash
  <2>10. ASSUME NEW o \in Orders, Age(o)
         PROVE  held'[l] = held[l] /\ pc'[l] = pc[l]
    BY <2>10 DEF Age
  <2>11. QED
    BY <2>2, <2>3, <2>4, <2>5, <2>6, <2>7, <2>8, <2>9, <2>10 DEF IntakeNext
<1>3. QED
  BY <1>2 DEF LoadsOK, Stored

\* Requests are answered when they end, and not before.
LEMMA UnansweredStep ==
  ASSUME IntakeInv, [IntakeNext]_intakeVars
  PROVE  Unanswered'
<1>1. /\ pc \in [Posts \cup Loads -> {"idle", "inserting", "writing", "loading"}]
      /\ reply \in [Posts \cup Loads -> Replies]
      /\ \A r \in Posts \cup Loads : pc[r] # "idle" => reply[r] = "none"
  BY DEF IntakeInv, IntakeTypeOK, Unanswered
<1>2. CASE UNCHANGED <<pc, reply>>
  BY <1>1, <1>2 DEF Unanswered
<1>3. ASSUME NEW r \in Posts \cup Loads, NEW answer, Return(r, answer)
      PROVE  Unanswered'
  BY <1>1, <1>3 DEF Return, Unanswered
<1>4. ASSUME NEW p \in Posts, NEW b \in Bodies, Confirm(p, b)
      PROVE  Unanswered'
  BY <1>1, <1>3, <1>4 DEF Confirm, Unanswered
<1>5. ASSUME NEW p \in Posts, InsertOrder(p)
      PROVE  Unanswered'
  BY <1>1, <1>5 DEF InsertOrder, Unanswered
<1>6. ASSUME NEW p \in Posts,
             InsertConflict(p) \/ Busy(p) \/ Commit(p) \/ CommitUnheard(p) \/ Rollback(p)
      PROVE  Unanswered'
  BY <1>3, <1>6 DEF InsertConflict, Busy, Commit, CommitUnheard, Rollback
<1>7. ASSUME NEW l \in Loads, NEW o \in Orders, LoadOrder(l, o)
      PROVE  Unanswered'
  BY <1>1, <1>3, <1>7 DEF LoadOrder, Unanswered
<1>8. ASSUME NEW l \in Loads, LoadItems(l)
      PROVE  Unanswered'
  BY <1>3, <1>8 DEF LoadItems
<1>9. CASE Crash
  BY <1>9 DEF Crash, Unanswered
<1>10. ASSUME NEW p \in Posts, InsertItem(p)
       PROVE  UNCHANGED <<pc, reply>>
  BY <1>10 DEF InsertItem
<1>11. ASSUME NEW o \in Orders, Age(o)
       PROVE  UNCHANGED <<pc, reply>>
  BY <1>11 DEF Age
<1>12. QED
  BY <1>2, <1>4, <1>5, <1>6, <1>7, <1>8, <1>9, <1>10, <1>11
     DEF IntakeNext, PostStep, intakeVars

(***************************************************************************)
(* The transaction of a post, one step at a time.                          *)
(***************************************************************************)
\* What PostsOK says of one post.
PostOK(q) ==
    /\ pc[q] # "idle" => Acceptable(body[q])
    /\ pc[q] = "writing" =>
          /\ writer = {q}
          /\ ~Stored(body[q].order)
          /\ Len(draft) <= Len(ToModel(body[q]))
          /\ \A i \in 1..Len(draft) : draft[i] = ToModel(body[q])[i]

\* A step that leaves the transaction alone and starts no post disturbs nothing.
LEMMA PostsUndisturbed ==
  ASSUME IntakeInv, UNCHANGED <<orders, writer, draft, body>>,
         \A q \in Posts : pc'[q] = pc[q] \/ pc'[q] = "idle"
  PROVE  PostsOK'
<1>1. writer' = {} => draft' = <<>>
  BY DEF IntakeInv, PostsOK
<1>2. ASSUME NEW q \in Posts
      PROVE  PostOK(q)'
  BY DEF IntakeInv, PostsOK, PostOK, Stored
<1>3. QED
  BY <1>1, <1>2 DEF PostsOK, PostOK

\* The end of a transaction disturbs no other.
LEMMA PostsReleased ==
  ASSUME IntakeInv, NEW P \in SUBSET Posts, Release(P), UNCHANGED body,
         \A q \in Posts : IF q \in P THEN pc'[q] = "idle" ELSE pc'[q] = pc[q],
         UNCHANGED orders \/ \E p \in P : writer = {p}
  PROVE  PostsOK'
<1>1. PostsOK
  BY DEF IntakeInv
<1>2. writer' = {} => draft' = <<>>
  BY <1>1 DEF Release, PostsOK
<1>3. ASSUME NEW q \in Posts
      PROVE  PostOK(q)'
  <2>1. CASE q \in P
    BY <2>1 DEF PostOK
  <2>2. CASE q \notin P /\ pc[q] # "writing"
    BY <1>1, <2>2 DEF PostOK, PostsOK
  <2>3. CASE q \notin P /\ pc[q] = "writing"
    <3>1. writer = {q} /\ writer \cap P = {}
      BY <1>1, <2>3 DEF PostsOK
    <3>2. UNCHANGED <<writer, draft>> /\ pc'[q] = pc[q]
      BY <2>3, <3>1 DEF Release
    <3>3. UNCHANGED orders
      BY <3>1, <2>3
    <3>4. QED
      BY <1>1, <2>3, <3>2, <3>3 DEF PostOK, PostsOK, Stored
  <2>4. QED
    BY <2>1, <2>2, <2>3
<1>4. QED
  BY <1>2, <1>3 DEF PostsOK, PostOK

\* A transaction is undisturbed by every step but its own.
LEMMA PostsStep ==
  ASSUME IntakeInv, [IntakeNext]_intakeVars
  PROVE  PostsOK'
<1>1. /\ pc \in [Posts \cup Loads -> {"idle", "inserting", "writing", "loading"}]
      /\ body \in [Posts -> Bodies] /\ draft \in Seq(StoredItems)
      /\ PostsOK /\ Posts \cap Loads = {}
  BY IntakeAssumption DEF IntakeInv, IntakeTypeOK
<1>2. ASSUME NEW p \in Posts, NEW b \in Bodies, Confirm(p, b)
      PROVE  PostsOK'
  <2>1. ASSUME NEW q \in Posts
        PROVE  PostOK(q)'
    <3>1. CASE q = p
      BY <1>1, <1>2, <3>1 DEF Confirm, Return, PostOK
    <3>2. CASE q # p
      BY <1>1, <1>2, <3>2 DEF Confirm, Return, PostOK, PostsOK, Stored
    <3>3. QED
      BY <3>1, <3>2
  <2>2. writer' = {} => draft' = <<>>
    BY <1>1, <1>2 DEF Confirm, PostsOK
  <2>3. QED
    BY <2>1, <2>2 DEF PostsOK, PostOK
<1>3. ASSUME NEW p \in Posts, InsertOrder(p)
      PROVE  PostsOK'
  <2>1. draft' = <<>> /\ writer' = {p} /\ UNCHANGED <<orders, body>>
    BY <1>1, <1>3 DEF InsertOrder, PostsOK
  <2>2. ASSUME NEW q \in Posts
        PROVE  PostOK(q)'
    <3>1. CASE q = p
      <4>1. Acceptable(body[p]) /\ ~Stored(body[p].order)
        BY <1>1, <1>3 DEF InsertOrder, Conflicts, PostsOK
      <4>2. Len(ToModel(body[p])) \in Nat
        BY <1>1, <4>1, AcceptableLines, LenProperties
      <4>3. QED
        BY <2>1, <3>1, <4>1, <4>2 DEF PostOK, Stored
    <3>2. CASE q # p
      <4>1. pc'[q] = pc[q] /\ pc[q] # "writing"
        BY <1>1, <1>3, <3>2 DEF InsertOrder, PostsOK
      <4>2. QED
        BY <1>1, <2>1, <4>1 DEF PostOK, PostsOK
    <3>3. QED
      BY <3>1, <3>2
  <2>3. QED
    BY <2>1, <2>2 DEF PostsOK, PostOK
<1>4. ASSUME NEW p \in Posts, InsertConflict(p) \/ Busy(p)
      PROVE  PostsOK'
  BY <1>1, <1>4, PostsUndisturbed DEF InsertConflict, Busy, Return
<1>5. ASSUME NEW p \in Posts, InsertItem(p)
      PROVE  PostsOK'
  <2> DEFINE lines == ToModel(body[p])
             n     == Len(draft)
  <2>1. /\ pc[p] = "writing" /\ n < Len(lines) /\ draft' = Append(draft, lines[n + 1])
        /\ UNCHANGED <<orders, writer, pc, body>>
    BY <1>5 DEF InsertItem
  <2>2. writer = {p} /\ Acceptable(body[p])
    BY <1>1, <2>1 DEF PostsOK
  <2>3. lines \in Seq(StoredItems)
    BY <1>1, <2>2, AcceptableLines
  <2>4. /\ Len(draft') = n + 1
        /\ \A i \in 1..n : draft'[i] = draft[i]
        /\ draft'[n + 1] = lines[n + 1]
    <3>1. lines[n + 1] \in StoredItems
      BY <1>1, <2>1, <2>3, ElementOfSeq, LenProperties
    <3>2. QED
      BY <1>1, <2>1, <3>1, AppendProperties
  <2>5. \A i \in 1..n : draft[i] = lines[i]
    BY <1>1, <2>1 DEF PostsOK
  <2>6. n \in Nat /\ Len(lines) \in Nat
    BY <1>1, <2>3, LenProperties
  <2> HIDE DEF lines, n
  <2>7. \A i \in 1..(n + 1) : draft'[i] = lines[i]
    BY <2>4, <2>5, <2>6
  <2>8. ASSUME NEW q \in Posts
        PROVE  PostOK(q)'
    <3>1. CASE q = p
      <4>1. writer' = {p} /\ Acceptable(body'[p]) /\ ToModel(body'[p]) = lines
        BY <2>1, <2>2 DEF lines
      <4>2. ~Stored(body[p].order)'
        BY <1>1, <2>1 DEF PostsOK, Stored
      <4>3. Len(draft') <= Len(lines) /\ \A i \in 1..Len(draft') : draft'[i] = lines[i]
        BY <2>1, <2>4, <2>6, <2>7
      <4>4. PostOK(p)'
        BY <4>1, <4>2, <4>3 DEF PostOK
      <4>5. QED
        BY <3>1, <4>4 DEF PostOK
    <3>2. CASE q # p
      <4>1. pc'[q] = pc[q] /\ pc[q] # "writing" /\ body' = body
        BY <1>1, <2>1, <2>2, <3>2 DEF PostsOK
      <4>2. QED
        BY <1>1, <4>1 DEF PostOK, PostsOK
    <3>3. QED
      BY <3>1, <3>2
  <2>9. QED
    BY <2>1, <2>2, <2>8 DEF PostsOK, PostOK
<1>6. ASSUME NEW p \in Posts, Commit(p) \/ CommitUnheard(p)
      PROVE  PostsOK'
  <2>1. Release({p}) /\ UNCHANGED body /\ writer = {p} /\ {p} \in SUBSET Posts
    BY <1>1, <1>6 DEF Commit, CommitUnheard, Keep, PostsOK
  <2>2. \A q \in Posts : IF q \in {p} THEN pc'[q] = "idle" ELSE pc'[q] = pc[q]
    BY <1>1, <1>6 DEF Commit, CommitUnheard, Return
  <2>3. QED
    BY <2>1, <2>2, PostsReleased
<1>7. ASSUME NEW p \in Posts, Rollback(p)
      PROVE  PostsOK'
  <2>1. Release({p}) /\ UNCHANGED <<orders, body>> /\ {p} \in SUBSET Posts
    BY <1>7 DEF Rollback
  <2>2. \A q \in Posts : IF q \in {p} THEN pc'[q] = "idle" ELSE pc'[q] = pc[q]
    BY <1>1, <1>7 DEF Rollback, Return
  <2>3. QED
    BY <2>1, <2>2, PostsReleased
<1>8. ASSUME NEW l \in Loads, LoadItems(l) \/ \E o \in Orders : LoadOrder(l, o)
      PROVE  PostsOK'
  BY <1>1, <1>8, PostsUndisturbed DEF LoadItems, LoadOrder, Return
<1>9. ASSUME NEW o \in Orders, Age(o)
      PROVE  PostsOK'
  BY <1>9, PostsUndisturbed DEF Age
<1>10. CASE Crash
  <2>1. Release(Posts) /\ UNCHANGED <<orders, body>> /\ \A q \in Posts : pc'[q] = "idle"
    BY <1>10 DEF Crash
  <2>2. QED
    BY <2>1, PostsReleased
<1>11. CASE UNCHANGED intakeVars
  BY <1>11, PostsUndisturbed DEF intakeVars
<1>12. QED
  BY <1>2, <1>3, <1>4, <1>5, <1>6, <1>7, <1>8, <1>9, <1>10, <1>11 DEF IntakeNext, PostStep

(***************************************************************************)
(* Types.                                                                  *)
(***************************************************************************)
\* Where a request is and how it was answered.
ControlTypeOK ==
    /\ pc \in [Posts \cup Loads -> {"idle", "inserting", "writing", "loading"}]
    /\ reply \in [Posts \cup Loads -> Replies]

\* Every answer is one of Replies.
LEMMA ControlStep ==
  ASSUME IntakeInv, [IntakeNext]_intakeVars
  PROVE  ControlTypeOK'
<1>1. /\ pc \in [Posts \cup Loads -> {"idle", "inserting", "writing", "loading"}]
      /\ reply \in [Posts \cup Loads -> Replies]
  BY DEF IntakeInv, IntakeTypeOK
<1>2. ASSUME NEW r \in Posts \cup Loads, NEW answer \in Replies, Return(r, answer)
      PROVE  ControlTypeOK'
  BY <1>1, <1>2 DEF Return, ControlTypeOK
<1>3. ASSUME NEW r \in Posts \cup Loads, NEW step \in {"idle", "inserting", "writing", "loading"},
             pc' = [pc EXCEPT ![r] = step],
             reply' = reply \/ reply' = [reply EXCEPT ![r] = "none"]
      PROVE  ControlTypeOK'
  BY <1>1, <1>3 DEF Replies, ControlTypeOK
<1>4. ASSUME NEW p \in Posts, NEW b \in Bodies, Confirm(p, b)
      PROVE  ControlTypeOK'
  BY <1>2, <1>3, <1>4 DEF Confirm, Replies
<1>5. ASSUME NEW p \in Posts, InsertOrder(p)
      PROVE  ControlTypeOK'
  BY <1>3, <1>5 DEF InsertOrder
<1>6. ASSUME NEW p \in Posts,
             InsertConflict(p) \/ Busy(p) \/ Commit(p) \/ CommitUnheard(p) \/ Rollback(p)
      PROVE  ControlTypeOK'
  BY <1>2, <1>6 DEF InsertConflict, Busy, Commit, CommitUnheard, Rollback, Replies
<1>7. ASSUME NEW l \in Loads, NEW o \in Orders, LoadOrder(l, o)
      PROVE  ControlTypeOK'
  BY <1>1, <1>7 DEF LoadOrder, Return, Replies, ControlTypeOK
<1>8. ASSUME NEW l \in Loads, LoadItems(l)
      PROVE  ControlTypeOK'
  BY <1>2, <1>8 DEF LoadItems, Replies
<1>9. CASE Crash
  BY <1>1, <1>9 DEF Crash, Replies, ControlTypeOK
<1>10. CASE UNCHANGED <<pc, reply>>
  BY <1>1, <1>10 DEF ControlTypeOK
<1>11. ASSUME NEW p \in Posts, InsertItem(p)
       PROVE  ControlTypeOK'
  BY <1>10, <1>11 DEF InsertItem
<1>12. ASSUME NEW o \in Orders, Age(o)
       PROVE  ControlTypeOK'
  BY <1>10, <1>12 DEF Age
<1>13. CASE UNCHANGED intakeVars
  BY <1>10, <1>13 DEF intakeVars
<1>14. QED
  BY <1>4, <1>5, <1>6, <1>7, <1>8, <1>9, <1>11, <1>12, <1>13 DEF IntakeNext, PostStep

\* Types are preserved; the lines that are stored are those of an acceptable request.
LEMMA TypeStep ==
  ASSUME IntakeInv, [IntakeNext]_intakeVars
  PROVE  IntakeTypeOK'
<1> DEFINE Held == [order : Orders, header : Headers, lines : Seq(StoredItems)]
<1>1. IntakeTypeOK /\ PostsOK
  BY DEF IntakeInv
<1>2. orders' \in [Orders -> Headers] /\ items' \in [Orders -> Seq(StoredItems)]
  <2>1. CASE UNCHANGED <<orders, items>>
    BY <1>1, <2>1 DEF IntakeTypeOK
  <2>2. ASSUME NEW p \in Posts, StoresOne(p)
        PROVE  orders' \in [Orders -> Headers] /\ items' \in [Orders -> Seq(StoredItems)]
    <3>1. body[p] \in Bodies /\ Acceptable(body[p])
      BY <1>1, <2>2 DEF StoresOne, IntakeTypeOK
    <3>2. Header(body[p]) \in Headers /\ ToModel(body[p]) \in Seq(StoredItems)
      BY <3>1, BodyHeader, AcceptableLines
    <3>3. QED
      BY <1>1, <2>2, <3>2 DEF StoresOne, IntakeTypeOK
  <2>3. QED
    BY <2>1, <2>2, WhatIsStored
<1>3. writer' \subseteq Posts /\ draft' \in Seq(StoredItems)
  <2>1. CASE UNCHANGED <<writer, draft>>
    BY <1>1, <2>1 DEF IntakeTypeOK
  <2>2. ASSUME NEW P, Release(P)
        PROVE  writer' \subseteq Posts /\ draft' \in Seq(StoredItems)
    BY <1>1, <2>2 DEF Release, IntakeTypeOK
  <2>3. ASSUME NEW p \in Posts, InsertOrder(p)
        PROVE  writer' \subseteq Posts /\ draft' \in Seq(StoredItems)
    BY <1>1, <2>3 DEF InsertOrder, IntakeTypeOK
  <2>4. ASSUME NEW p \in Posts, InsertItem(p)
        PROVE  writer' \subseteq Posts /\ draft' \in Seq(StoredItems)
    <3> DEFINE lines == ToModel(body[p])
               n     == Len(draft)
    <3>1. lines \in Seq(StoredItems)
      BY <1>1, <2>4, AcceptableLines DEF InsertItem, PostsOK, IntakeTypeOK
    <3>2. n \in Nat /\ Len(lines) \in Nat
      BY <1>1, <3>1, LenProperties DEF IntakeTypeOK
    <3>3. lines[n + 1] \in StoredItems
      BY <2>4, <3>1, <3>2, ElementOfSeq DEF InsertItem
    <3>4. Append(draft, lines[n + 1]) \in Seq(StoredItems)
      BY <1>1, <3>3, AppendProperties DEF IntakeTypeOK
    <3>5. QED
      BY <1>1, <2>4, <3>4 DEF InsertItem, IntakeTypeOK
  <2>5. QED
    BY <2>1, <2>2, <2>3, <2>4
       DEF IntakeNext, PostStep, Confirm, InsertConflict, Busy, Commit, CommitUnheard, Keep,
           Rollback, LoadOrder, LoadItems, Age, Crash, intakeVars
<1>4. /\ pc' \in [Posts \cup Loads -> {"idle", "inserting", "writing", "loading"}]
      /\ reply' \in [Posts \cup Loads -> Replies]
  BY ControlStep DEF ControlTypeOK
<1>6. body' \in [Posts -> Bodies]
  BY <1>1 DEF IntakeTypeOK, IntakeNext, PostStep, Confirm, InsertOrder, InsertConflict, Busy,
              InsertItem, Commit, CommitUnheard, Rollback, LoadOrder, LoadItems, Age, Crash,
              intakeVars
<1>7. held' \in [Loads -> Held]
  <2>1. CASE UNCHANGED held
    BY <1>1, <2>1 DEF IntakeTypeOK
  <2>2. ASSUME NEW l \in Loads, NEW o \in Orders, LoadOrder(l, o)
        PROVE  held' \in [Loads -> Held]
    <3>1. orders[o] \in Headers
      BY <1>1 DEF IntakeTypeOK
    <3>2. ASSUME NEW ls \in Seq(StoredItems)
          PROVE  [order |-> o, header |-> orders[o], lines |-> ls] \in Held
      BY <3>1
    <3>3. <<>> \in Seq(StoredItems)
      OBVIOUS
    <3>4. [order |-> o, header |-> orders[o], lines |-> <<>>] \in Held
      BY <3>2, <3>3
    <3> HIDE DEF Held
    <3>5. held \in [Loads -> Held]
      BY <1>1 DEF IntakeTypeOK, Held
    <3>6. QED
      BY <2>2, <3>4, <3>5 DEF LoadOrder
  <2>3. ASSUME NEW l \in Loads, LoadItems(l)
        PROVE  held' \in [Loads -> Held]
    <3>1. held[l] \in Held /\ items[held[l].order] \in Seq(StoredItems)
      BY <1>1 DEF IntakeTypeOK
    <3>2. [held[l] EXCEPT !.lines = items[held[l].order]] \in Held
      BY <3>1
    <3>3. held' = [held EXCEPT ![l] = [held[l] EXCEPT !.lines = items[held[l].order]]]
      BY <2>3 DEF LoadItems
    <3> HIDE DEF Held
    <3>4. held \in [Loads -> Held]
      BY <1>1 DEF IntakeTypeOK, Held
    <3>5. QED
      BY <3>2, <3>3, <3>4
  <2>4. QED
    BY <2>1, <2>2, <2>3
       DEF IntakeNext, PostStep, Confirm, InsertOrder, InsertConflict, Busy, InsertItem, Commit,
           CommitUnheard, Rollback, Age, Crash, intakeVars
<1>8. DOMAIN quote' = Posts /\ DOMAIN request' = Loads
  BY <1>1 DEF IntakeTypeOK, IntakeNext, PostStep, Confirm, InsertOrder, InsertConflict, Busy,
              InsertItem, Commit, CommitUnheard, Rollback, LoadOrder, LoadItems, Age, Crash,
              intakeVars
<1>9. old' \subseteq Orders
  BY <1>1
     DEF IntakeTypeOK, IntakeNext, PostStep, Confirm, InsertOrder, InsertConflict, Busy,
         InsertItem, Commit, CommitUnheard, Rollback, LoadOrder, LoadItems, Age, Crash,
         intakeVars
<1>10. faults' \in 0..MaxFaults
  <2>1. faults \in 0..MaxFaults /\ MaxFaults \in Nat
    BY <1>1, IntakeAssumption DEF IntakeTypeOK
  <2>2. CASE SpendFault
    BY <2>1, <2>2 DEF SpendFault
  <2>3. CASE ~SpendFault
    <3>1. UNCHANGED faults
      BY <2>3
         DEF IntakeNext, PostStep, Confirm, InsertOrder, InsertConflict, Busy, InsertItem,
             Commit, CommitUnheard, Rollback, LoadOrder, LoadItems, Age, Crash, intakeVars
    <3>2. QED
      BY <2>1, <3>1
  <2>4. QED
    BY <2>2, <2>3
<1>11. QED
  BY <1>2, <1>3, <1>4, <1>6, <1>7, <1>8, <1>9, <1>10 DEF IntakeTypeOK

(***************************************************************************)
(* What the chunks of a request carry.                                     *)
(***************************************************************************)
\* A function over 0..M that grows by a chunk at a time exists, and is what Joined
\* takes its last value of.
LEMMA JoinedGrows ==
  ASSUME NEW S, NEW M \in Nat, NEW chunks \in [1..M -> Seq(S)]
  PROVE  \E f : /\ f[0] = <<>>
                /\ \A k \in 1..M : f[k] = f[k - 1] \o chunks[k]
                /\ Joined(chunks) = f[M]
<1> DEFINE Q         == Seq(S)
           none      == <<>>
           Cat(x, k) == x \o chunks[k]
           next      == [x \in Q \X (1..M) |-> Cat(x[1], x[2])]
           Joins(f)  == f = [k \in 0..M |-> IF k = 0 THEN none ELSE Cat(f[k - 1], k)]
           upTo      == CHOOSE f : Joins(f)
<1>1. Len(chunks) = M
  OBVIOUS
<1>2. Joined(chunks) = upTo[M]
  BY <1>1 DEF Joined
<1>3. none \in Q /\ \A x \in Q, k \in 1..M : Cat(x, k) \in Q
  BY ConcatProperties
<1> HIDE DEF Q, none, Cat
<1>4. \E f : Joins(f)
  <2>1. next \in [Q \X (1..M) -> Q]
    BY <1>3
  <2>2. \A x \in Q, k \in 1..M : next[<<x, k>>] = Cat(x, k)
    OBVIOUS
  <2> HIDE DEF next
  <2>3. PICK f \in [0..M -> Q] : Recursive(f, M, none, next)
    BY <1>3, <2>1, RecursionExists
  <2>4. ASSUME NEW k \in 1..M
        PROVE  f[k] = Cat(f[k - 1], k)
    <3>1. f[k - 1] \in Q
      OBVIOUS
    <3>2. f[k] = next[<<f[k - 1], k>>]
      BY <2>3 DEF Recursive
    <3>3. QED
      BY <2>2, <3>1, <3>2
  <2>5. f[0] = none
    BY <2>3 DEF Recursive
  <2>6. f = [k \in 0..M |-> IF k = 0 THEN none ELSE Cat(f[k - 1], k)]
    BY <2>4, <2>5
  <2>7. QED
    BY <2>6
<1> HIDE DEF Joins
<1>5. Joins(upTo)
  BY <1>4, Zenon
<1> HIDE DEF upTo
<1>6. upTo[0] = none /\ \A k \in 1..M : upTo[k] = Cat(upTo[k - 1], k)
  BY <1>5 DEF Joins
<1>7. QED
  BY <1>2, <1>6, Zenon DEF none, Cat

\* The requests together carry every line once, in order: nothing is lost, repeated or
\* swapped where an order is cut (Alpha.Build, Beta.Build).
THEOREM ChunksJoin ==
  ASSUME NEW S, NEW s \in Seq(S), s # <<>>
  PROVE  /\ Joined(AlphaBuild(s)) = s
         /\ Joined(BetaBuild(s)) = s
<1> DEFINE n == Len(s)
           M == ChunkCount(s)
<1>1. n \in Nat \ {0}
  OBVIOUS
<1>2. M \in Nat \ {0} /\ 2 * M >= n /\ M = (n + 1) \div 2
  BY <1>1, ChunksCover DEF ChunkCount, AlphaMaxLinesPerRequest
<1>3. \A k \in 1..M : Chunk(s, k) = SubSeq(s, 2 * (k - 1) + 1, Lesser(2 * k, n))
  BY DEF Chunk, AlphaMaxLinesPerRequest
<1>4. \A i \in 1..n : s[i] \in S
  BY ElementOfSeq
<1> HIDE DEF n, M
<1>5. \A k \in 1..M : 2 * (k - 1) < n /\ Lesser(2 * k, n) \in (2 * (k - 1))..n
  BY <1>1, <1>2 DEF Lesser
<1>6. Joined(AlphaBuild(s)) = s
  <2> DEFINE chunks == AlphaBuild(s)
  <2>1. chunks \in [1..M -> Seq(S)] /\ \A k \in 1..M : chunks[k] = Chunk(s, k)
    <3>1. \A k \in 1..M : Chunk(s, k) \in Seq(S)
      <4> TAKE k \in 1..M
      <4> DEFINE lo == 2 * (k - 1) + 1
                 hi == Lesser(2 * k, n)
      <4>1. lo \in Int /\ hi \in Int /\ lo..hi \subseteq 1..n
        BY <1>1, <1>2, <1>5
      <4>2. Chunk(s, k) = SubSeq(s, lo, hi)
        BY <1>3
      <4> HIDE DEF lo, hi
      <4>3. \A i \in lo..hi : s[i] \in S
        BY <1>4, <4>1
      <4>4. SubSeq(s, lo, hi) \in Seq(S)
        BY <4>1, <4>3, SubSeqProperties
      <4>5. QED
        BY <4>2, <4>4
    <3>2. QED
      BY <3>1 DEF AlphaBuild, M
  <2> HIDE DEF chunks
  <2>2. PICK f : /\ f[0] = <<>>
                 /\ \A k \in 1..M : f[k] = f[k - 1] \o chunks[k]
                 /\ Joined(chunks) = f[M]
    BY <1>2, <2>1, JoinedGrows
  <2> DEFINE T == {k \in Nat : k \in 0..M => f[k] = SubSeq(s, 1, Lesser(2 * k, n))}
  <2>3. 0 \in T
    <3>1. Lesser(2 * 0, n) = 0
      BY <1>1 DEF Lesser
    <3>2. SubSeq(s, 1, 0) = <<>>
      BY SubSeqEmpty
    <3>3. QED
      BY <2>2, <3>1, <3>2
  <2>4. ASSUME NEW k \in Nat, k \in T
        PROVE  k + 1 \in T
    <3> SUFFICES ASSUME k + 1 \in 0..M
                 PROVE  f[k + 1] = SubSeq(s, 1, Lesser(2 * (k + 1), n))
      OBVIOUS
    <3> DEFINE m  == 2 * k
               hi == Lesser(2 * (k + 1), n)
    <3>1. k \in 0..M /\ k + 1 \in 1..M /\ (k + 1) - 1 = k
      BY <1>2
    <3>2. m \in Nat /\ m < n /\ hi \in m..n /\ Lesser(2 * k, n) = m
      BY <1>1, <1>5, <3>1 DEF Lesser
    <3>3. f[k] = SubSeq(s, 1, m)
      BY <2>4, <3>1, <3>2
    <3>4. chunks[k + 1] = SubSeq(s, m + 1, hi)
      BY <1>3, <2>1, <3>1
    <3>5. f[k + 1] = f[k] \o chunks[k + 1]
      BY <2>2, <3>1
    <3> HIDE DEF m, hi
    <3>6. SubSeq(s, 1, m) \o SubSeq(s, m + 1, hi) = SubSeq(s, 1, hi)
      <4>1. 1 \in 1..(n + 1) /\ m \in (1 - 1)..n /\ hi \in m..n
        BY <1>1, <3>2
      <4>2. QED
        BY <4>1, ConcatAdjacentSubSeq DEF n
    <3>7. QED
      BY <3>3, <3>4, <3>5, <3>6 DEF hi
  <2> HIDE DEF T
  <2>5. M \in T
    BY <1>2, <2>3, <2>4, SetInduction
  <2>6. f[M] = SubSeq(s, 1, n)
    <3>1. M \in 0..M /\ Lesser(2 * M, n) = n
      BY <1>1, <1>2 DEF Lesser
    <3>2. QED
      BY <2>5, <3>1 DEF T
  <2>7. QED
    BY <2>2, <2>6, SubSeqFull DEF chunks, n
<1>7. Joined(BetaBuild(s)) = s
  <2> DEFINE chunks == BetaBuild(s)
  <2>1. chunks \in [1..1 -> Seq(S)] /\ chunks[1] = s
    BY DEF BetaBuild
  <2> HIDE DEF chunks
  <2> DEFINE One == 1
  <2>2. One \in Nat /\ chunks \in [1..One -> Seq(S)] /\ 1..One = {1} /\ One = 1
    BY <2>1
  <2> HIDE DEF One
  <2>3. PICK f : /\ f[0] = <<>>
                 /\ \A k \in 1..One : f[k] = f[k - 1] \o chunks[k]
                 /\ Joined(chunks) = f[One]
    BY <2>2, JoinedGrows
  <2>4. f[1] = <<>> \o s
    <3>1. 1 - 1 = 0
      OBVIOUS
    <3>2. f[1] = f[1 - 1] \o chunks[1]
      BY <2>2, <2>3
    <3>3. QED
      BY <2>1, <2>3, <3>1, <3>2
  <2>5. <<>> \o s = s
    BY ConcatEmptySeq
  <2>6. QED
    BY <2>2, <2>3, <2>4, <2>5 DEF chunks
<1>8. QED
  BY <1>6, <1>7

(***************************************************************************)
(* What is quoted and what is sent.                                        *)
(***************************************************************************)
\* The quote of a 201 is the subtotal of the confirmation.
QuotesOK ==
    \A p \in Posts : reply[p] = "created" => quote[p] = Subtotal(ToModel(body[p]))

\* A load that was answered has read what is stored, and still is.
LoadsStand ==
    \A l \in Loads : reply[l] \in {"built", "refused"} =>
        /\ held[l].order \in Orders /\ Stored(held[l].order)
        /\ held[l].header = orders[held[l].order]
        /\ held[l].lines = items[held[l].order]

\* The request of a load is built from what it has read, by a mapper that takes it.
RequestsOK ==
    \A l \in Loads : reply[l] = "built" =>
        /\ held[l].lines # <<>>
        /\ held[l].header.tenant \in Registered
        /\ request[l] = BuildAmounts(held[l].header, held[l].lines)

PricingInv == IntakeInv /\ QuotesOK /\ LoadsStand /\ RequestsOK

\* A 201 is answered with the subtotal of what it has stored (Confirm, in service/order.go).
LEMMA QuotesStep ==
  ASSUME PricingInv, [IntakeNext]_intakeVars
  PROVE  QuotesOK'
<1>1. IntakeInv
  BY DEF PricingInv
<1>2. ASSUME NEW p \in Posts
      PROVE  reply'[p] = "created" => quote'[p] = Subtotal(ToModel(body'[p]))
  <2>1. CASE SamePost(p)
    BY <2>1 DEF SamePost, PricingInv, QuotesOK
  <2>2. CASE reply'[p] \notin {"created", "exists"}
    BY <2>2
  <2>3. CASE InsertConflict(p)
    <3>1. reply'[p] = "exists"
      BY <1>1, <2>3 DEF InsertConflict, Return, IntakeInv, IntakeTypeOK
    <3>2. QED
      BY <3>1
  <2>4. CASE Commit(p)
    <3>1. DOMAIN quote = Posts
      BY <1>1 DEF IntakeInv, IntakeTypeOK
    <3>2. body' = body /\ quote' = [quote EXCEPT ![p] = Subtotal(ToModel(body[p]))]
      BY <2>4 DEF Commit
    <3>3. QED
      BY <3>1, <3>2
  <2>5. QED
    BY <1>1, <2>1, <2>2, <2>3, <2>4, AnswersOfPost
<1>3. QED
  BY <1>2 DEF QuotesOK

\* What a load has read stays what is stored.
LEMMA LoadsStandStep ==
  ASSUME PricingInv, [IntakeNext]_intakeVars
  PROVE  LoadsStand'
<1>1. IntakeInv
  BY DEF PricingInv
<1>2. ASSUME NEW l \in Loads
      PROVE  reply'[l] \in {"built", "refused"} =>
                /\ held'[l].order \in Orders /\ orders'[held'[l].order] # Blank
                /\ held'[l].header = orders'[held'[l].order]
                /\ held'[l].lines = items'[held'[l].order]
  <2>1. CASE SameLoad(l)
    <3> SUFFICES ASSUME reply[l] \in {"built", "refused"}
                 PROVE  /\ held[l].order \in Orders /\ orders'[held[l].order] # Blank
                        /\ held[l].header = orders'[held[l].order]
                        /\ held[l].lines = items'[held[l].order]
      BY <2>1 DEF SameLoad
    <3>1. /\ held[l].order \in Orders /\ Stored(held[l].order)
          /\ held[l].header = orders[held[l].order]
          /\ held[l].lines = items[held[l].order]
      BY DEF PricingInv, LoadsStand
    <3>2. QED
      BY <1>1, <3>1, StoredStays DEF Stored
  <2>2. CASE reply'[l] \notin {"built", "refused"}
    BY <2>2
  <2>3. CASE LoadItems(l)
    BY <1>1, <2>3, LoadReads DEF Stored
  <2>4. QED
    BY <1>1, <2>1, <2>2, <2>3, AnswersOfLoad
<1>3. QED
  BY <1>2 DEF LoadsStand, Stored

\* A request is built from the lines that were read with it (loadOrder, Build).
LEMMA RequestsStep ==
  ASSUME PricingInv, [IntakeNext]_intakeVars
  PROVE  RequestsOK'
<1>1. IntakeInv
  BY DEF PricingInv
<1>2. ASSUME NEW l \in Loads
      PROVE  reply'[l] = "built" =>
                /\ held'[l].lines # <<>>
                /\ held'[l].header.tenant \in Registered
                /\ request'[l] = BuildAmounts(held'[l].header, held'[l].lines)
  <2>1. CASE SameLoad(l)
    BY <2>1 DEF SameLoad, PricingInv, RequestsOK
  <2>2. CASE reply'[l] \notin {"built", "refused"}
    BY <2>2
  <2>3. CASE LoadItems(l)
    <3> DEFINE o == held[l].order
               h == held[l].header
    <3>1. /\ held'[l].header = orders[o] /\ held'[l].lines = items[o]
      BY <1>1, <2>3, LoadReads
    <3>2. h = orders[o]
      BY <1>1, <2>3 DEF LoadItems, IntakeInv, LoadsOK
    <3>3. DOMAIN request = Loads /\ reply \in [Posts \cup Loads -> Replies] /\ l \in Posts \cup Loads
      BY <1>1 DEF IntakeInv, IntakeTypeOK
    <3>4. CASE PreValidate(o, h, items[o])
      <4>1. request' = [request EXCEPT ![l] = BuildAmounts(h, items[o])]
        BY <2>3, <3>4 DEF LoadItems
      <4>2. items[o] # <<>> /\ h.tenant \in Registered
        BY <3>4 DEF PreValidate, Registered
      <4>3. QED
        BY <3>1, <3>2, <3>3, <4>1, <4>2
    <3>5. CASE ~PreValidate(o, h, items[o])
      <4>1. Return(l, "refused")
        BY <2>3, <3>5 DEF LoadItems
      <4>2. reply'[l] = "refused"
        BY <3>3, <4>1 DEF Return
      <4>3. QED
        BY <4>2
    <3>6. QED
      BY <3>4, <3>5
  <2>4. QED
    BY <1>1, <2>1, <2>2, <2>3, AnswersOfLoad
<1>3. QED
  BY <1>2 DEF RequestsOK

(***************************************************************************)
(* What the lines of a request cost.                                       *)
(***************************************************************************)
\* The lines of a stored order are valid items, and have line totals.
LEMMA StoredLinesValid ==
  ASSUME NEW lines \in Seq(StoredItems), lines # <<>>
  PROVE  /\ Len(lines) \in Nat /\ ValidItems(lines)
         /\ Totals(lines) \in Seq(Amounts) /\ Totals(lines) # <<>>
         /\ Len(Totals(lines)) = Len(lines)
<1> DEFINE n == Len(lines)
<1>1. n \in Nat \ {0} /\ DOMAIN lines = 1..n /\ \A i \in 1..n : lines[i] \in StoredItems
  OBVIOUS
<1>2. \A i \in 1..n : ValidItem(lines[i])
  BY <1>1 DEF StoredItems, ValidItem
<1>3. ValidItems(lines)
  BY <1>1, <1>2 DEF ValidItems
<1>4. \A i \in 1..n : LineTotal(lines[i]) \in Amounts
  BY <1>2, LineTotalFits
<1>5. Totals(lines) = [i \in 1..n |-> LineTotal(lines[i])]
  BY <1>1 DEF Totals
<1> HIDE DEF n
<1>6. Totals(lines) \in [1..n -> Amounts]
  BY <1>4, <1>5
<1>7. Totals(lines) \in Seq(Amounts) /\ Len(Totals(lines)) = n /\ Totals(lines) # <<>>
  BY <1>1, <1>6
<1>8. QED
  BY <1>1, <1>3, <1>7 DEF n

\* The header of ERP B: the lines added up, their sum taxed once and rounded once, and
\* nothing wraps around (betaTotals).
LEMMA BetaHeaderIsRight ==
  ASSUME NEW lines \in Seq(StoredItems), lines # <<>>, InRange(lines)
  PROVE  LET header == BetaHeader(lines) IN
         /\ header.untaxed = SumOf(Totals(lines))
         /\ Nearest(header.untaxed * BetaSSTPercent, 100, header.tax)
         /\ header.total = header.untaxed + header.tax
<1> DEFINE untaxed == Subtotal(lines)
           gross   == Gross(lines)
           tax     == Percent(untaxed, BetaSSTPercent)
<1>1. untaxed = SumOf(Totals(lines)) /\ untaxed \in 0..gross /\ gross \in Nat
  BY StoredLinesValid, SubtotalIsRight DEF InRange
<1>2. /\ BetaHeader(lines).untaxed = untaxed
      /\ BetaHeader(lines).tax = tax
      /\ BetaHeader(lines).total = Wrap(untaxed + tax)
  BY DEF BetaHeader
<1>3. 2 * gross \in Amounts
  BY DEF InRange
<1> HIDE DEF untaxed, gross
<1>4. Nearest(untaxed * BetaSSTPercent, 100, tax)
  BY <1>1, RoundedIsNearest DEF Percent, MulRatio, BetaSSTPercent
<1>5. tax \in 0..untaxed
  <2>1. untaxed \in Int /\ untaxed >= 0 /\ BetaSSTPercent \in 0..100 /\ 100 \in Nat \ {0}
    BY <1>1 DEF BetaSSTPercent
  <2>2. QED
    BY <2>1, RatioShrinks DEF Percent
<1> HIDE DEF tax
<1>6. untaxed + tax \in Amounts /\ untaxed + tax \in Int
  BY <1>1, <1>3, <1>5, HalfAssumption DEF Amounts
<1>7. Wrap(untaxed + tax) = untaxed + tax
  BY <1>6, WrapFits
<1>8. QED
  BY <1>1, <1>2, <1>4, <1>7

(***************************************************************************)
(* The store that intake implements: what each step does to it.            *)
(***************************************************************************)
NoRow == Row(Blank, <<>>)

\* The tables as a store are as before.
LEMMA RowsKept ==
  ASSUME UNCHANGED <<orders, items>>
  PROVE  UNCHANGED rows
BY DEF rows

\* An answer to one post changes what this post has been told, and no load's view.
LEMMA PostAnswered ==
  ASSUME IntakeInv, NEW p \in Posts, NEW answer, reply' = [reply EXCEPT ![p] = answer],
         UNCHANGED held
  PROVE  answers' = [answers EXCEPT ![p] = answer] /\ UNCHANGED views
<1>1. reply \in [Posts \cup Loads -> Replies] /\ Posts \cap Loads = {}
  BY IntakeAssumption DEF IntakeInv, IntakeTypeOK
<1>2. \A q \in Posts : reply'[q] = IF q = p THEN answer ELSE reply[q]
  BY <1>1
<1>3. \A l \in Loads : reply'[l] = reply[l]
  BY <1>1
<1>4. answers' = [answers EXCEPT ![p] = answer]
  BY <1>2 DEF answers
<1>5. \A l \in Loads : View(l)' = View(l)
  BY <1>3 DEF View
<1>6. UNCHANGED views
  BY <1>5 DEF views
<1>7. QED
  BY <1>4, <1>6

\* An answer to one load changes its view, and what no post has been told.
LEMMA LoadAnswered ==
  ASSUME IntakeInv, NEW l \in Loads, \A r \in (Posts \cup Loads) \ {l} : reply'[r] = reply[r],
         \A k \in Loads \ {l} : held'[k] = held[k], NEW view, View(l)' = view
  PROVE  views' = [views EXCEPT ![l] = view] /\ UNCHANGED answers
<1>1. \A q \in Posts : reply'[q] = reply[q]
  BY IntakeAssumption
<1>2. UNCHANGED answers
  BY <1>1 DEF answers
<1>3. \A k \in Loads \ {l} : View(k)' = View(k)
  BY DEF View
<1>4. views' = [views EXCEPT ![l] = view]
  BY <1>3 DEF views
<1>5. QED
  BY <1>2, <1>4

\* Confirm asks for a value, and may be turned away.
LEMMA ConfirmAsks ==
  ASSUME IntakeInv, NEW p \in Posts, NEW b \in Bodies, Confirm(p, b)
  PROVE  \E r \in {Asks(c) : c \in Bodies}, verdict \in {"none", "invalid"} :
            Store!Ask(p, r, verdict)
<1>1. PICK verdict \in {"none", "invalid"} : reply' = [reply EXCEPT ![p] = verdict]
  BY DEF Confirm, Return
<1>2. UNCHANGED <<orders, items, held>> /\ body' = [body EXCEPT ![p] = b]
  BY DEF Confirm
<1>3. UNCHANGED rows
  BY <1>2, RowsKept
<1>4. answers' = [answers EXCEPT ![p] = verdict] /\ UNCHANGED views
  BY <1>1, <1>2, PostAnswered
<1>5. asks' = [asks EXCEPT ![p] = Asks(b)]
  <2>1. body \in [Posts -> Bodies]
    BY DEF IntakeInv, IntakeTypeOK
  <2>2. \A q \in Posts : body'[q] = IF q = p THEN b ELSE body[q]
    BY <1>2, <2>1
  <2>3. \A q \in Posts : Asks(body'[q]) = IF q = p THEN Asks(b) ELSE Asks(body[q])
    BY <2>2
  <2> HIDE DEF Asks
  <2>4. QED
    BY <2>3 DEF asks
<1>6. Store!Ask(p, Asks(b), verdict)
  BY <1>3, <1>4, <1>5 DEF Store!Ask
<1>7. QED
  BY <1>6

\* COMMIT, heard of or not, creates the order where there was none.
LEMMA CommitCreates ==
  ASSUME IntakeInv, NEW p \in Posts, NEW verdict \in {"created", "failed"},
         Keep(p), Return(p, verdict), UNCHANGED <<body, held>>
  PROVE  Store!Create(p, verdict)
<1> DEFINE b == body[p]
           o == b.order
<1>1. /\ b \in Bodies /\ o \in Orders /\ Acceptable(b) /\ ~Stored(o)
      /\ draft = ToModel(b)
  BY KeepIsWhole
<1>2. answers' = [answers EXCEPT ![p] = verdict] /\ UNCHANGED views
  BY PostAnswered DEF Return
<1>3. answers[p] = "none"
  <2>1. reply[p] = "none"
    BY DEF IntakeInv, Unanswered, Keep
  <2>2. QED
    BY <2>1 DEF answers
<1>4. asks[p] = Asks(b) /\ asks[p].order = o /\ asks[p].value = Row(Header(b), ToModel(b))
  BY DEF asks, Asks
<1>5. rows[o] = NoRow
  <2>1. orders[o] = Blank /\ items[o] = <<>>
    BY <1>1 DEF IntakeInv, WholeConfirmation, Stored
  <2>2. QED
    BY <1>1, <2>1 DEF rows, NoRow
<1>6. rows' = [rows EXCEPT ![o] = Row(Header(b), ToModel(b))]
  <2>1. orders' = [orders EXCEPT ![o] = Header(b)] /\ items' = [items EXCEPT ![o] = ToModel(b)]
    BY <1>1 DEF Keep
  <2>2. orders \in [Orders -> Headers] /\ items \in [Orders -> Seq(StoredItems)]
    BY DEF IntakeInv, IntakeTypeOK
  <2>3. \A q \in Orders : Row(orders'[q], items'[q]) =
                             IF q = o THEN Row(Header(b), ToModel(b)) ELSE Row(orders[q], items[q])
    BY <1>1, <2>1, <2>2
  <2> HIDE DEF o, b
  <2>4. QED
    BY <2>3 DEF rows
<1>7. UNCHANGED asks
  BY DEF asks
<1>8. QED
  BY <1>2, <1>3, <1>4, <1>5, <1>6, <1>7 DEF Store!Create, NoRow

\* A conflict is answered about an order that is there.
LEMMA ConflictExists ==
  ASSUME IntakeInv, NEW p \in Posts, InsertConflict(p)
  PROVE  Store!Exists(p)
<1> DEFINE o == body[p].order
<1>1. o \in Orders /\ orders[o] # Blank
  BY IntakeAssumption DEF InsertConflict, Conflicts, Stored, IntakeInv, IntakeTypeOK
<1>2. UNCHANGED <<orders, items, body, held>> /\ reply' = [reply EXCEPT ![p] = "exists"]
  BY DEF InsertConflict, Return
<1>3. answers' = [answers EXCEPT ![p] = "exists"] /\ UNCHANGED <<views, rows, asks>>
  BY <1>2, PostAnswered, RowsKept DEF asks
<1>4. answers[p] = "none"
  BY DEF IntakeInv, Unanswered, InsertConflict, answers
<1>5. rows[o] # NoRow
  BY <1>1 DEF rows, NoRow, Row
<1>6. asks[p].order = o
  BY DEF asks, Asks
<1>7. QED
  BY <1>3, <1>4, <1>5, <1>6 DEF Store!Exists, NoRow

\* Requests that end without a COMMIT fail, and nothing is stored for them.
LEMMA EndFails ==
  ASSUME IntakeInv, NEW P \in SUBSET Posts, \A p \in P : pc[p] # "idle",
         \A p \in Posts : reply'[p] = IF p \in P THEN "failed" ELSE reply[p],
         \A l \in Loads : View(l)' = View(l),
         UNCHANGED <<orders, items, body>>
  PROVE  Store!Fail(P)
<1>1. \A p \in P : answers[p] = "none"
  BY DEF IntakeInv, Unanswered, answers
<1>2. answers' = [p \in Posts |-> IF p \in P THEN "failed" ELSE answers[p]]
  BY DEF answers
<1>3. UNCHANGED <<rows, asks, views>>
  BY RowsKept DEF asks, views
<1>4. QED
  BY <1>1, <1>2, <1>3 DEF Store!Fail

\* The first SELECT of a load looks for the order, or reads that there is none.
LEMMA LoadLooks ==
  ASSUME IntakeInv, NEW l \in Loads, NEW o \in Orders, LoadOrder(l, o)
  PROVE  Store!Look(l, o) \/ Store!Read(l, o)
<1>1. /\ held \in [Loads -> [order : Orders, header : Headers, lines : Seq(StoredItems)]]
      /\ reply \in [Posts \cup Loads -> Replies]
  BY DEF IntakeInv, IntakeTypeOK
<1>2. held' = [held EXCEPT ![l] = [order |-> o, header |-> orders[o], lines |-> <<>>]]
  BY DEF LoadOrder
<1>3. held'[l].order = o /\ held'[l].header = orders[o] /\ held'[l].lines = <<>>
  BY <1>1, <1>2
<1>4. \A k \in Loads \ {l} : held'[k] = held[k]
  BY <1>1, <1>2
<1>5. UNCHANGED <<rows, asks>>
  BY RowsKept DEF LoadOrder, asks
<1>6. CASE Stored(o)
  <2>1. reply' = [reply EXCEPT ![l] = "none"]
    BY <1>6 DEF LoadOrder
  <2>2. reply'[l] = "none" /\ \A r \in (Posts \cup Loads) \ {l} : reply'[r] = reply[r]
    BY <1>1, <2>1
  <2>3. View(l)' = Unseen(o)
    BY <1>3, <2>2 DEF View, Unseen
  <2>4. views' = [views EXCEPT ![l] = Unseen(o)] /\ UNCHANGED answers
    BY <1>4, <2>2, <2>3, LoadAnswered
  <2>5. QED
    BY <1>5, <2>4 DEF Store!Look, Unseen
<1>7. CASE ~Stored(o)
  <2>1. reply' = [reply EXCEPT ![l] = "not_found"]
    BY <1>7 DEF LoadOrder, Return
  <2>2. reply'[l] = "not_found" /\ \A r \in (Posts \cup Loads) \ {l} : reply'[r] = reply[r]
    BY <1>1, <2>1
  <2>3. items[o] = <<>>
    BY <1>7 DEF IntakeInv, WholeConfirmation
  <2> DEFINE view == [order |-> o, done |-> TRUE, value |-> rows[o]]
  <2>4. View(l)' = view
    BY <1>3, <2>2, <2>3 DEF View, rows
  <2> HIDE DEF view
  <2>5. views' = [views EXCEPT ![l] = view] /\ UNCHANGED answers
    BY <1>4, <2>2, <2>4, LoadAnswered
  <2>6. QED
    BY <1>5, <2>5 DEF Store!Read, view
<1>8. QED
  BY <1>6, <1>7

\* Both SELECTs together read what is there at the second one.
LEMMA LoadIsRead ==
  ASSUME IntakeInv, NEW l \in Loads, LoadItems(l)
  PROVE  held[l].order \in Orders /\ Store!Read(l, held[l].order)
<1> DEFINE o    == held[l].order
           view == [order |-> o, done |-> TRUE, value |-> rows[o]]
<1>1. /\ held \in [Loads -> [order : Orders, header : Headers, lines : Seq(StoredItems)]]
      /\ reply \in [Posts \cup Loads -> Replies]
  BY DEF IntakeInv, IntakeTypeOK
<1>2. /\ o \in Orders /\ UNCHANGED <<orders, items>>
      /\ held'[l].order = o /\ held'[l].header = orders[o] /\ held'[l].lines = items[o]
  BY LoadReads
<1>3. \A k \in Loads \ {l} : held'[k] = held[k]
  BY <1>1 DEF LoadItems
<1>4. PICK verdict \in {"built", "refused"} : reply' = [reply EXCEPT ![l] = verdict]
  BY DEF LoadItems, Return
<1>5. /\ reply'[l] \in {"built", "refused"}
      /\ \A r \in (Posts \cup Loads) \ {l} : reply'[r] = reply[r]
  BY <1>1, <1>4
<1>6. View(l)' = view
  BY <1>2, <1>5 DEF View, rows
<1> HIDE DEF view
<1>7. views' = [views EXCEPT ![l] = view] /\ UNCHANGED answers
  BY <1>3, <1>5, <1>6, LoadAnswered
<1>8. UNCHANGED <<rows, asks>>
  BY <1>2, RowsKept DEF LoadItems, asks
<1>9. QED
  BY <1>2, <1>7, <1>8 DEF Store!Read, view

\* Every step of intake or of a load is a step of the store, or none.
LEMMA StoreStep ==
  ASSUME IntakeInv, [IntakeNext]_intakeVars
  PROVE  [Store!Next]_(Store!vars)
<1>1. /\ pc \in [Posts \cup Loads -> {"idle", "inserting", "writing", "loading"}]
      /\ reply \in [Posts \cup Loads -> Replies] /\ Posts \cap Loads = {}
      /\ \A r \in Posts \cup Loads : pc[r] # "idle" => reply[r] = "none"
  BY IntakeAssumption DEF IntakeInv, IntakeTypeOK, Unanswered
<1>2. ASSUME UNCHANGED <<orders, items, body, reply, held>>
      PROVE  UNCHANGED Store!vars
  <2>1. \A l \in Loads : View(l)' = View(l)
    BY <1>2 DEF View
  <2>2. QED
    BY <1>2, <2>1, RowsKept DEF Store!vars, asks, answers, views
<1>3. ASSUME NEW p \in Posts, InsertOrder(p) \/ InsertItem(p)
      PROVE  UNCHANGED Store!vars
  BY <1>2, <1>3 DEF InsertOrder, InsertItem
<1>4. ASSUME NEW o \in Orders, Age(o)
      PROVE  UNCHANGED Store!vars
  BY <1>2, <1>4 DEF Age
<1>5. CASE UNCHANGED intakeVars
  BY <1>2, <1>5 DEF intakeVars
<1>6. ASSUME NEW p \in Posts, Busy(p) \/ Rollback(p)
      PROVE  \E W \in SUBSET Posts : Store!Fail(W)
  <2>1. /\ pc[p] # "idle" /\ reply' = [reply EXCEPT ![p] = "failed"]
        /\ UNCHANGED <<orders, items, body, held>>
    BY <1>6 DEF Busy, Rollback, Return
  <2>2. \A q \in Posts : reply'[q] = IF q \in {p} THEN "failed" ELSE reply[q]
    BY <1>1, <2>1
  <2>3. \A l \in Loads : View(l)' = View(l)
    BY <1>1, <2>1 DEF View
  <2>4. {p} \in SUBSET Posts /\ \A q \in {p} : pc[q] # "idle"
    BY <2>1
  <2>5. Store!Fail({p})
    BY <2>1, <2>2, <2>3, <2>4, EndFails
  <2>6. QED
    BY <2>4, <2>5
<1>7. ASSUME Crash
      PROVE  \E W \in SUBSET Posts : Store!Fail(W)
  <2> DEFINE W == {p \in Posts : pc[p] # "idle"}
  <2>1. /\ \A r \in Posts \cup Loads : reply'[r] = IF pc[r] = "idle" THEN reply[r] ELSE "failed"
        /\ UNCHANGED <<orders, items, body, held>>
    BY <1>7 DEF Crash
  <2>2. \A q \in Posts : reply'[q] = IF q \in W THEN "failed" ELSE reply[q]
    BY <2>1
  <2>3. \A l \in Loads : View(l)' = View(l)
    BY <1>1, <2>1 DEF View
  <2>4. W \in SUBSET Posts /\ \A q \in W : pc[q] # "idle"
    OBVIOUS
  <2> HIDE DEF W
  <2>5. Store!Fail(W)
    BY <2>1, <2>2, <2>3, <2>4, EndFails
  <2>6. QED
    BY <2>4, <2>5
<1>8. ASSUME NEW p \in Posts, Commit(p) \/ CommitUnheard(p)
      PROVE  \E verdict \in {"created", "failed"} : Store!Create(p, verdict)
  BY <1>8, CommitCreates DEF Commit, CommitUnheard
<1>9. QED
  BY <1>3, <1>4, <1>5, <1>6, <1>7, <1>8, ConfirmAsks, ConflictExists, LoadLooks, LoadIsRead
     DEF IntakeNext, PostStep, Store!Next

\* Empty tables are an empty store.
LEMMA StoreInit == IntakeInit => Store!Init
<1> SUFFICES ASSUME IntakeInit
             PROVE  Store!Init
  OBVIOUS
<1>1. rows = [o \in Orders |-> NoRow]
  BY DEF IntakeInit, rows, NoRow
<1>2. asks \in [Posts -> {Asks(b) : b \in Bodies}]
  BY DEF IntakeInit, asks
<1>3. answers = [p \in Posts |-> "none"]
  BY DEF IntakeInit, answers
<1>4. views \in [Loads -> {Unseen(o) : o \in Orders}]
  <2>1. \A l \in Loads : held[l].order \in Orders /\ reply[l] = "none"
    BY DEF IntakeInit
  <2>2. \A l \in Loads : View(l) \in {Unseen(o) : o \in Orders}
    BY <2>1 DEF View
  <2>3. QED
    BY <2>2 DEF views
<1>5. QED
  BY <1>1, <1>2, <1>3, <1>4 DEF Store!Init, NoRow, Unseen

(***************************************************************************)
(* The theorems.                                                           *)
(***************************************************************************)
\* The invariant holds throughout, whatever posts, loads, faults and crashes do.
THEOREM IntakeInvariance == IntakeSpec => []IntakeInv
<1>1. IntakeInit => IntakeInv
  BY IntakeInitially
<1>2. IntakeInv /\ [IntakeNext]_intakeVars => IntakeInv'
  BY TypeStep, PostsStep, LoadsStep, UnansweredStep, WholeStep, LoadsWholeStep, CreatedStep
     DEF IntakeInv
<1>3. QED
  BY <1>1, <1>2, PTL DEF IntakeSpec

\* Every stored line has passed the checks of Validate, in cents and basis points that fit.
THEOREM IntakeTypeCorrect == IntakeSpec => []IntakeTypeOK
<1>1. IntakeInv => IntakeTypeOK
  BY DEF IntakeInv
<1>2. QED
  BY <1>1, IntakeInvariance, PTL

\* Every stored order is one whole confirmation (CreateOrder).
THEOREM OrdersAreWhole == IntakeSpec => []WholeConfirmation
<1>1. IntakeInv => WholeConfirmation
  BY DEF IntakeInv
<1>2. QED
  BY <1>1, IntakeInvariance, PTL

\* Every sync reads one whole confirmation, though in two statements (loadOrder).
THEOREM SyncsReadWholeOrders == IntakeSpec => []LoadsWhole
<1>1. IntakeInv => LoadsWhole
  BY DEF IntakeInv
<1>2. QED
  BY <1>1, IntakeInvariance, PTL

\* A 201 and a 409 tell the truth, and go on telling it (CreateOrder).
THEOREM AnswersOfIntakeStand == IntakeSpec => []CreatedStands
<1>1. IntakeInv => CreatedStands
  BY DEF IntakeInv
<1>2. QED
  BY <1>1, IntakeInvariance, PTL

\* No step changes a stored order (ON CONFLICT DO NOTHING).
THEOREM OrdersAreStoredForGood == IntakeSpec => StoredForGood
<1>1. IntakeInv /\ [IntakeNext]_intakeVars =>
        [\A o \in Orders : Stored(o) => orders'[o] = orders[o] /\ items'[o] = items[o]]_intakeVars
  BY StoredStays
<1>2. QED
  BY <1>1, IntakeInvariance, PTL DEF IntakeSpec, StoredForGood

\* The invariant with what is quoted, read and built holds throughout.
THEOREM PricingInvariance == IntakeSpec => []PricingInv
<1>1. IntakeInit => PricingInv
  <2> SUFFICES ASSUME IntakeInit
               PROVE  PricingInv
    OBVIOUS
  <2>1. QuotesOK /\ LoadsStand /\ RequestsOK
    BY DEF IntakeInit, QuotesOK, LoadsStand, RequestsOK
  <2>2. QED
    BY <2>1, IntakeInitially DEF PricingInv
<1>2. PricingInv /\ [IntakeNext]_intakeVars => PricingInv'
  <2> SUFFICES ASSUME PricingInv, [IntakeNext]_intakeVars
               PROVE  PricingInv'
    OBVIOUS
  <2>1. IntakeInv'
    BY TypeStep, PostsStep, LoadsStep, UnansweredStep, WholeStep, LoadsWholeStep, CreatedStep
       DEF PricingInv, IntakeInv
  <2>2. QED
    BY <2>1, QuotesStep, LoadsStandStep, RequestsStep DEF PricingInv
<1>3. QED
  BY <1>1, <1>2, PTL DEF IntakeSpec

\* What the requests of a load carry, whatever their chunks, are the line totals of what
\* it has read (Alpha.Build, Beta.Build).
LEMMA RequestsCarryTotals ==
  ASSUME PricingInv, NEW l \in Loads, reply[l] = "built"
  PROVE  /\ held[l].lines \in Seq(StoredItems) /\ held[l].lines # <<>>
         /\ SentTotals(l) = Totals(held[l].lines)
<1> DEFINE lines  == held[l].lines
           totals == Totals(lines)
<1>1. lines \in Seq(StoredItems)
  BY DEF PricingInv, IntakeInv, IntakeTypeOK
<1>2. /\ lines # <<>> /\ held[l].header.tenant \in Registered
      /\ request[l] = BuildAmounts(held[l].header, lines)
  BY DEF PricingInv, RequestsOK
<1>3. totals \in Seq(Amounts) /\ totals # <<>>
  BY <1>1, <1>2, StoredLinesValid
<1>4. \/ request[l].chunks = AlphaBuild(totals)
      \/ request[l].chunks = BetaBuild(totals)
  BY <1>2 DEF BuildAmounts, Totals
<1>5. SentTotals(l) = totals
  BY <1>3, <1>4, ChunksJoin DEF SentTotals
<1>6. QED
  BY <1>1, <1>2, <1>5

\* What the order taker was quoted is, to the last cent of an int64, what the requests of
\* any later sync of the order add up to, for either ERP, for any number of chunks and
\* whatever was posted, loaded, lost or rolled back in between; the header of ERP B says
\* the same (Confirm, loadOrder, Alpha.Build, Beta.Build).
THEOREM TheQuoteIsSent == IntakeSpec => []QuotedIsSent
<1>1. PricingInv => QuotedIsSent
  <2> SUFFICES ASSUME PricingInv, NEW p \in Posts, NEW l \in Loads,
                      reply[p] = "created", reply[l] = "built",
                      held[l].order = body[p].order
               PROVE  /\ quote[p] = Wrap(SumOf(SentTotals(l)))
                      /\ held[l].header.tenant = "tenant_beta" =>
                            request[l].header.untaxed = quote[p]
    BY DEF QuotedIsSent
  <2>1. items[body[p].order] = ToModel(body[p])
    BY DEF PricingInv, IntakeInv, CreatedStands
  <2>2. held[l].lines = items[body[p].order]
    BY DEF PricingInv, LoadsStand
  <2>3. quote[p] = Subtotal(held[l].lines)
    BY <2>1, <2>2 DEF PricingInv, QuotesOK
  <2>4. Subtotal(held[l].lines) = Wrap(SumOf(SentTotals(l)))
    <3>1. /\ held[l].lines \in Seq(StoredItems) /\ held[l].lines # <<>>
          /\ SentTotals(l) = Totals(held[l].lines)
      BY RequestsCarryTotals
    <3>2. Len(held[l].lines) \in Nat /\ ValidItems(held[l].lines)
      BY <3>1, StoredLinesValid
    <3>3. QED
      BY <3>1, <3>2, SubtotalWrapsOnce
  <2>5. ASSUME held[l].header.tenant = "tenant_beta"
        PROVE  request[l].header.untaxed = Subtotal(held[l].lines)
    <3>1. request[l] = BuildAmounts(held[l].header, held[l].lines)
      BY DEF PricingInv, RequestsOK
    <3>2. request[l].header = BetaHeader(held[l].lines)
      BY <2>5, <3>1 DEF BuildAmounts
    <3>3. QED
      BY <3>2 DEF BetaHeader
  <2>6. QED
    BY <2>3, <2>4, <2>5
<1>2. QED
  BY <1>1, PricingInvariance, PTL

\* Every request carries each line of the confirmed order once, at the documented price,
\* and the header of ERP B adds them up and taxes the sum, for orders of any length and
\* any amounts that leave 64 bits some room (LineTotal, Alpha.Build, Beta.Build).
THEOREM OrdersArePricedRight == IntakeSpec => []PricedAsConfirmed
<1>1. PricingInv => PricedAsConfirmed
  <2> SUFFICES ASSUME PricingInv, NEW l \in Loads, reply[l] = "built",
                      InRange(held[l].lines)
               PROVE  LET lines  == held[l].lines
                          totals == SentTotals(l)
                          header == request[l].header
                      IN  /\ Len(totals) = Len(lines)
                          /\ \A i \in DOMAIN lines : PricedRight(lines[i], totals[i])
                          /\ held[l].header.tenant = "tenant_beta" =>
                                /\ header.untaxed = SumOf(totals)
                                /\ Nearest(header.untaxed * BetaSSTPercent, 100, header.tax)
                                /\ header.total = header.untaxed + header.tax
    BY DEF PricedAsConfirmed
  <2> DEFINE lines  == held[l].lines
             totals == Totals(lines)
  <2>1. lines \in Seq(StoredItems)
    BY DEF PricingInv, IntakeInv, IntakeTypeOK
  <2>2. /\ lines # <<>> /\ held[l].header.tenant \in Registered
        /\ request[l] = BuildAmounts(held[l].header, lines)
    BY DEF PricingInv, RequestsOK
  <2>3. /\ Len(lines) \in Nat /\ ValidItems(lines)
        /\ totals \in Seq(Amounts) /\ totals # <<>> /\ Len(totals) = Len(lines)
    BY <2>1, <2>2, StoredLinesValid
  <2>4. \A i \in DOMAIN lines : PricedRight(lines[i], totals[i])
    BY <2>3, SubtotalIsRight DEF InRange
  <2>5. SentTotals(l) = totals
    BY RequestsCarryTotals
  <2>6. ASSUME held[l].header.tenant = "tenant_beta"
        PROVE  request[l].header = BetaHeader(lines)
    BY <2>2, <2>6 DEF BuildAmounts
  <2>7. LET header == BetaHeader(lines) IN
        /\ header.untaxed = SumOf(totals)
        /\ Nearest(header.untaxed * BetaSSTPercent, 100, header.tax)
        /\ header.total = header.untaxed + header.tax
    BY <2>1, <2>2, BetaHeaderIsRight
  <2> HIDE DEF lines, totals
  <2>8. QED
    BY <2>3, <2>4, <2>5, <2>6, <2>7 DEF lines
<1>2. QED
  BY <1>1, PricingInvariance, PTL

\* Intake and loads implement OrderStore: an order appears whole, at once and for good,
\* and every answer and every load is about one instant (CreateOrder, loadOrder).
THEOREM IntakeIsAStore == IntakeSpec => ImplementsStore
<1>1. IntakeInv /\ [IntakeNext]_intakeVars => [Store!Next]_(Store!vars)
  BY StoreStep
<1>2. QED
  BY <1>1, StoreInit, IntakeInvariance, PTL DEF IntakeSpec, ImplementsStore, Store!Spec
=============================================================================
