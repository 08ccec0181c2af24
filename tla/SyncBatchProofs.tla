--------------------------- MODULE SyncBatchProofs ---------------------------
(***************************************************************************)
(* Proofs about batches, for lists of any length with any repetitions, any *)
(* number of batches and single requests beside each other, any outcomes   *)
(* and any number of faults.                                               *)
(*                                                                         *)
(* A batch is a client of the claim protocol (BatchImplementsClaim), so    *)
(* that the invariant of SyncClaim holds of it.  On top of it, Placed says *)
(* how far a batch has come, NotPushedAgain that the order it has just     *)
(* pushed is none it already has a SYNCED for, and History and ReadHeld    *)
(* that codes and lines, in the database or half read by a request, are    *)
(* those of results the database once had; ToldHeld and ListHeld say so of *)
(* what a request has answered and of the lists of batches.                *)
(***************************************************************************)
EXTENDS SyncBatch, SyncClaimRefinement, SequenceTheorems

Placed ==
    \A c \in Clicks :
        /\ ids[c] # <<>> => c \in Batches
        /\ c \in Batches /\ pc[c] # "idle" => Serving(c)
        /\ Serving(c) => order[c] = ids[c][Len(answers[c]) + 1]

\* Where one slot stands in its batch.
SlotOK(c) ==
    /\ ids[c] \in Lists \cup {<<>>}
    /\ answers[c] \in Seq(Entries)
    /\ Len(answers[c]) <= Len(ids[c])
    /\ c \in severed => Serving(c)
    /\ \A i \in DOMAIN answers[c] : answers[c][i].order = ids[c][i]
    /\ ids[c] # <<>> => c \in Batches
    /\ c \in Batches /\ pc[c] # "idle" => Serving(c)
    /\ Serving(c) => order[c] = ids[c][Len(answers[c]) + 1]

\* What a batch is, in steps: the types of its parts and its place in its list.
BatchShape == BatchTypeOK /\ Placed

-----------------------------------------------------------------------------
\* The orders of a batch are orders, and it has at least one.
LEMMA ListsAreOrders ==
  ASSUME NEW list \in Lists
  PROVE  /\ list \in Seq(Orders)
         /\ Len(list) \in Nat \ {0}
         /\ \A i \in 1..Len(list) : list[i] \in Orders
<1>1. list \in Seq(Orders) /\ Len(list) \in 1..MaxBatchSize
  BY BatchAssumption
<1>2. Len(list) \in Nat \ {0}
  <2>1. Len(list) \in Nat
    BY <1>1, LenProperties
  <2>2. MaxBatchSize \in Int
    BY DEF MaxBatchSize
  <2>3. Len(list) >= 1
    BY <1>1, <2>1, <2>2
  <2>4. QED
    BY <2>1, <2>3
<1>3. \A i \in 1..Len(list) : list[i] \in Orders
  BY <1>1, ElementOfSeq
<1>4. QED
  BY <1>1, <1>2, <1>3

\* A batch under way has a list, and the order it is at is on it.
LEMMA NextOrder ==
  ASSUME BatchShape, NEW c \in Clicks, Serving(c)
  PROVE  /\ ids[c] \in Lists
         /\ Len(answers[c]) \in Nat
         /\ Len(answers[c]) + 1 \in 1..Len(ids[c])
         /\ \A i \in 1..Len(ids[c]) : ids[c][i] \in Orders
<1>1. answers[c] \in Seq(Entries) /\ ids[c] \in Lists \cup {<<>>}
  BY DEF BatchShape, BatchTypeOK
<1>2. Len(answers[c]) \in Nat
  BY <1>1, LenProperties
<1>3. ids[c] \in Lists
  BY <1>1, <1>2 DEF Serving
<1>4. Len(ids[c]) \in Nat
  BY <1>3, ListsAreOrders
<1>5. Len(answers[c]) + 1 \in 1..Len(ids[c])
  BY <1>2, <1>4 DEF Serving
<1>6. QED
  BY <1>2, <1>3, <1>5, ListsAreOrders

\* Every step of a batch, and of whoever is beside it, is a step of the protocol.
LEMMA ClaimStepOrNone ==
  ASSUME BatchShape, [BatchNext]_everything
  PROVE  [Next]_vars
<1>1. ASSUME NEW c \in Clicks, RunOrder(c) PROVE Next
  BY <1>1 DEF RunOrder, Next
<1>2. ASSUME NEW c \in Clicks, NEW o \in Orders, Click(c, o) \/ CheckStatus(c, o) PROVE Next
  BY <1>2 DEF Next, Environment
<1>3. ASSUME NEW c \in Clicks, Collect(c) PROVE [Next]_vars
  <2>1. CASE UNCHANGED vars
    BY <2>1
  <2>2. CASE /\ Len(Append(answers[c], EntryOf(c))) < Len(ids[c])
             /\ Click(c, ids[c][Len(Append(answers[c], EntryOf(c))) + 1])
    <3>1. answers[c] \in Seq(Entries) /\ Serving(c)
      BY <1>3 DEF Collect, BatchShape, BatchTypeOK
    <3>2. Len(Append(answers[c], EntryOf(c))) = Len(answers[c]) + 1
      BY <3>1
    <3>3. Len(answers[c]) + 2 \in 1..Len(ids[c])
      <4>1. Len(answers[c]) \in Nat /\ Len(ids[c]) \in Nat
        BY <3>1, NextOrder, ListsAreOrders
      <4>2. QED
        BY <2>2, <3>2, <4>1
    <3>4. ids[c][Len(Append(answers[c], EntryOf(c))) + 1] \in Orders
      BY <3>1, <3>2, <3>3, NextOrder
    <3>5. QED
      BY <1>2, <2>2, <3>4
  <2>3. QED
    BY <1>3, <2>1, <2>2 DEF Collect
<1>4. ASSUME NEW c \in Clicks, NEW list \in Lists, Submit(c, list) PROVE Next
  <2>1. list[1] \in Orders
    BY ListsAreOrders
  <2>2. QED
    BY <1>2, <1>4, <2>1 DEF Submit
<1>5. ASSUME NEW c \in Clicks, CollectSevered(c) PROVE UNCHANGED vars
  BY <1>5 DEF CollectSevered
<1>6. ASSUME NEW c \in Clicks, HangUp(c) PROVE Next
  BY <1>6 DEF HangUp, Next, Environment
<1>7. ASSUME NEW D \in SUBSET Clicks, Die(D) PROVE Next
  BY <1>7 DEF Die, Next, Environment
<1>8. ASSUME Mishap PROVE Next
  BY <1>8 DEF Mishap, Next, Environment
<1>9. QED
  BY <1>1, <1>2, <1>3, <1>4, <1>5, <1>6, <1>7, <1>8 DEF BatchNext, BatchStep, Single, everything

-----------------------------------------------------------------------------
\* A step of a request already under way, or a mishap, starts nothing and changes
\* no slot's order.
LEMMA NothingStarts ==
  ASSUME TypeOK, \/ \E c \in Clicks : Serve(c) \/ CompleteUnheard(c) \/ DatabaseError(c) \/ Disconnect(c)
                 \/ \E o \in Orders : Age(o) \/ Expire(o)
                 \/ \E D \in SUBSET Clicks : Crash(D)
  PROVE  /\ order' = order
         /\ \A d \in Clicks : pc'[d] # "idle" => pc[d] # "idle"
<1> USE DEF TypeOK, Running, Answer
<1>1. ASSUME NEW c \in Clicks, Refuse(c) \/ Admit(c) \/ InsertClaim(c) \/ InsertConflict(c) \/ Reclaim(c) \/ ReclaimLost(c)
      PROVE  order' = order /\ \A d \in Clicks : pc'[d] # "idle" => pc[d] # "idle"
  BY <1>1 DEF Refuse, Admit, InsertClaim, InsertConflict, Reclaim, ReclaimLost
<1>2. ASSUME NEW c \in Clicks, ReadRow(c) \/ NoRow(c) \/ ReadLines(c) \/ \E outcome \in Outcomes : Dispatch(c, outcome)
      PROVE  order' = order /\ \A d \in Clicks : pc'[d] # "idle" => pc[d] # "idle"
  BY <1>2 DEF ReadRow, NoRow, ReadLines, Dispatch
<1>3. ASSUME NEW c \in Clicks, Complete(c) \/ CompleteRolledBack(c) \/ Abort(c) \/ CompleteUnheard(c)
                               \/ DatabaseError(c) \/ Disconnect(c)
      PROVE  order' = order /\ \A d \in Clicks : pc'[d] # "idle" => pc[d] # "idle"
  BY <1>3 DEF Complete, CompleteRolledBack, Abort, CompleteUnheard, DatabaseError, Disconnect
<1>4. QED
  BY <1>1, <1>2, <1>3 DEF Serve, Handle, Age, Expire, Crash

\* A slot whose batch does not move.
LEMMA SlotKept ==
  ASSUME NEW d, SlotOK(d),
         ids'[d] = ids[d], answers'[d] = answers[d],
         Serving(d) => order'[d] = order[d],
         d \in Batches /\ pc'[d] # "idle" => pc[d] # "idle",
         d \in severed' => d \in severed \/ Serving(d)
  PROVE  SlotOK(d)'
BY DEF SlotOK, Serving

\* A batch that just arrived stands at its first order.
LEMMA SlotSubmitted ==
  ASSUME NEW c \in Batches, NEW list \in Lists, SlotOK(c), ~Serving(c),
         ids'[c] = list, answers'[c] = <<>>, order'[c] = list[1], severed' = severed
  PROVE  SlotOK(c)'
<1>1. /\ Len(answers'[c]) = 0 /\ answers'[c] \in Seq(Entries) /\ DOMAIN answers'[c] = {}
  BY EmptySeq, LenProperties
<1>2. Len(list) \in Nat \ {0}
  BY ListsAreOrders
<1>3. Serving(c)' /\ order'[c] = ids'[c][Len(answers'[c]) + 1]
  BY <1>1, <1>2 DEF Serving
<1>4. QED
  BY <1>1, <1>2, <1>3 DEF SlotOK

\* What a slot adds to its list is a result of the order it stands at.
LEMMA EntryTyped ==
  ASSUME TypeOK, NEW c \in Clicks
  PROVE  EntryOf(c) \in Entries /\ EntryOf(c).order = order[c]
<1> USE ClaimAssumption DEF TypeOK, Terminal, RowStatus, Answers, Attempts, Entries, Blank
<1>1. FromError(order[c], reply[c]) \in Entries /\ FromError(order[c], reply[c]).order = order[c]
  BY DEF FromError, Entry
<1>2. Entry(order[c], reply[c], att[c]) \in Entries /\ Entry(order[c], reply[c], att[c]).order = order[c]
  BY DEF Entry
<1>3. QED
  BY <1>1, <1>2 DEF EntryOf

\* A result is added at the place of its order.
LEMMA SlotCollected ==
  ASSUME TypeOK, BatchShape, NEW c \in Clicks, SlotOK(c), Collect(c)
  PROVE  SlotOK(c)'
<1> DEFINE n == Len(answers[c])
<1> DEFINE done == Append(answers[c], EntryOf(c))
<1>1. /\ n \in Nat /\ n + 1 \in 1..Len(ids[c]) /\ ids[c] \in Lists
      /\ answers[c] \in Seq(Entries) /\ Len(ids[c]) \in Nat
  BY NextOrder, ListsAreOrders DEF Collect, SlotOK
<1>2. /\ done \in Seq(Entries) /\ Len(done) = n + 1
      /\ DOMAIN done = 1..(n + 1)
      /\ \A i \in 1..n : done[i] = answers[c][i]
      /\ done[n + 1] = EntryOf(c)
      /\ DOMAIN answers[c] = 1..n
  <2>1. EntryOf(c) \in Entries
    BY EntryTyped
  <2>2. QED
    BY <1>1, <2>1, AppendProperties, LenProperties
<1>3. answers'[c] = done /\ ids'[c] = ids[c] /\ severed' = severed /\ c \notin severed
  <2>1. answers \in [Clicks -> Seq(Entries)]
    BY DEF BatchShape, BatchTypeOK
  <2>2. QED
    BY <2>1 DEF Collect
<1>4. \A i \in 1..(n + 1) : done[i].order = ids[c][i]
  <2>1. EntryOf(c).order = ids[c][n + 1]
    BY EntryTyped DEF Collect, SlotOK
  <2>2. \A i \in 1..n : answers[c][i].order = ids[c][i]
    BY <1>2 DEF SlotOK
  <2>3. QED
    BY <1>1, <1>2, <2>1, <2>2
<1>5. CASE n + 1 < Len(ids[c])
  <2>1. Click(c, ids[c][n + 2])
    BY <1>1, <1>2, <1>5 DEF Collect
  <2>2. order'[c] = ids[c][n + 2]
    BY <2>1 DEF Click, Arrive, TypeOK
  <2>3. Serving(c)' /\ order'[c] = ids'[c][Len(answers'[c]) + 1]
    BY <1>1, <1>2, <1>3, <1>5, <2>2 DEF Serving
  <2>4. QED
    BY <1>1, <1>2, <1>3, <1>4, <1>5, <2>3 DEF SlotOK
<1>6. CASE ~(n + 1 < Len(ids[c]))
  <2>1. UNCHANGED vars /\ pc[c] = "idle"
    BY <1>2, <1>6 DEF Collect
  <2>2. ~Serving(c)' /\ pc'[c] = "idle" /\ Len(answers'[c]) <= Len(ids'[c])
    BY <1>1, <1>2, <1>3, <1>6, <2>1 DEF Serving, vars
  <2>3. QED
    BY <1>1, <1>2, <1>3, <1>4, <2>2 DEF SlotOK
<1>7. QED
  BY <1>5, <1>6

\* A list written out place by place.
LEMMA ListOf ==
  ASSUME NEW T, NEW m \in Nat, NEW f \in [1..m -> T]
  PROVE  f \in Seq(T) /\ Len(f) = m /\ DOMAIN f = 1..m
OBVIOUS

\* What a severed batch has in its list, place by place.
LEMMA SeveredList ==
  ASSUME TypeOK, BatchShape, NEW c \in Clicks, SlotOK(c), CollectSevered(c)
  PROVE  /\ answers'[c] \in Seq(Entries)
         /\ Len(answers'[c]) = Len(ids[c])
         /\ DOMAIN answers'[c] = 1..Len(ids[c])
         /\ \A i \in 1..Len(ids[c]) :
               /\ i \in DOMAIN answers[c] => answers'[c][i] = answers[c][i]
               /\ i = Len(answers[c]) + 1 => answers'[c][i] = EntryOf(c)
               /\ i \notin DOMAIN answers[c] /\ i # Len(answers[c]) + 1
                     => answers'[c][i] = FromError(ids[c][i], "failed")
<1> DEFINE n == Len(answers[c])
<1> DEFINE m == Len(ids[c])
<1> DEFINE F(i) == IF i < n + 1 THEN answers[c][i]
                   ELSE IF i = n + 1 THEN EntryOf(c) ELSE FromError(ids[c][i], "failed")
<1> DEFINE f == [i \in 1..m |-> F(i)]
<1>1. /\ n \in Nat /\ m \in Nat /\ \A i \in 1..m : ids[c][i] \in Orders
      /\ DOMAIN answers[c] = 1..n
      /\ \A i \in 1..n : answers[c][i] \in Entries
  BY NextOrder, ListsAreOrders, LenProperties, ElementOfSeq DEF CollectSevered, SlotOK
<1>2. answers'[c] = f
  BY DEF CollectSevered, BatchShape, BatchTypeOK
<1>3. \A o \in Orders : FromError(o, "failed") \in Entries
  BY ClaimAssumption DEF FromError, Entry, Entries, Answers, Attempts, Blank, RowStatus, Terminal
<1>4. EntryOf(c) \in Entries
  BY EntryTyped
<1> HIDE DEF n, m
<1>5. f \in [1..m -> Entries]
  BY <1>1, <1>3, <1>4
<1>6. \A i \in 1..m : /\ i \in DOMAIN answers[c] => f[i] = answers[c][i]
                      /\ i = n + 1 => f[i] = EntryOf(c)
                      /\ i \notin DOMAIN answers[c] /\ i # n + 1 => f[i] = FromError(ids[c][i], "failed")
  BY <1>1
<1> HIDE DEF f
<1>7. f \in Seq(Entries) /\ Len(f) = m /\ DOMAIN f = 1..m
  BY <1>1, <1>5, ListOf
<1>8. QED
  BY <1>2, <1>6, <1>7 DEF n, m

\* A severed batch is answered for to the end.
LEMMA SlotSevered ==
  ASSUME TypeOK, BatchShape, NEW c \in Clicks, SlotOK(c), CollectSevered(c)
  PROVE  SlotOK(c)'
<1>1. /\ Len(answers[c]) \in Nat /\ Len(ids[c]) \in Nat /\ ids[c] \in Lists
      /\ \A i \in 1..Len(ids[c]) : ids[c][i] \in Orders
      /\ Serving(c)
  BY NextOrder, ListsAreOrders DEF CollectSevered
<1>2. ids'[c] = ids[c] /\ c \notin severed' /\ UNCHANGED vars /\ pc[c] = "idle"
  BY DEF CollectSevered
<1>3. ASSUME NEW i \in DOMAIN answers'[c] PROVE answers'[c][i].order = ids[c][i]
  <2>1. i \in 1..Len(ids[c])
    BY <1>3, SeveredList
  <2>2. CASE i \in DOMAIN answers[c]
    BY <2>1, <2>2, SeveredList DEF SlotOK
  <2>3. CASE i = Len(answers[c]) + 1
    <3>1. EntryOf(c).order = ids[c][Len(answers[c]) + 1]
      BY <1>1, EntryTyped DEF SlotOK
    <3>2. answers'[c][i] = EntryOf(c)
      BY <2>1, <2>3, SeveredList
    <3>3. QED
      BY <2>3, <3>1, <3>2
  <2>4. CASE i \notin DOMAIN answers[c] /\ i # Len(answers[c]) + 1
    <3>1. answers'[c][i] = FromError(ids[c][i], "failed")
      BY <2>1, <2>4, SeveredList
    <3>2. QED
      BY <3>1 DEF FromError, Entry
  <2>5. QED
    BY <2>2, <2>3, <2>4
<1>4. ~Serving(c)' /\ pc'[c] = "idle" /\ Len(answers'[c]) <= Len(ids'[c])
  <2>1. Len(answers'[c]) = Len(ids'[c])
    BY <1>2, SeveredList
  <2>2. QED
    BY <1>1, <1>2, <2>1 DEF Serving, vars
<1>5. answers'[c] \in Seq(Entries)
  BY SeveredList
<1>6. QED
  BY <1>1, <1>2, <1>3, <1>4, <1>5 DEF SlotOK

-----------------------------------------------------------------------------
\* Who steps, and what happens to the list of each slot.
LEMMA ShapeStep ==
  ASSUME IInv, BatchShape, [BatchNext]_everything
  PROVE  BatchShape'
<1>1. TypeOK /\ TypeOK'
  BY ClaimStepOrNone, StepInv DEF IInv
<1>2. \A d \in Clicks : SlotOK(d)
  BY DEF BatchShape, BatchTypeOK, Placed, SlotOK
<1>3. recorded' \in [Orders -> SUBSET Attempts]
  <2>1. \A o \in Orders : row'[o].status \in Terminal => Stored(o)' \in Attempts
    BY <1>1 DEF TypeOK, Stored, Attempts, RowStatus
  <2>2. CASE Record
    BY <2>1, <2>2 DEF Record, BatchShape, BatchTypeOK
  <2>3. CASE recorded' = recorded
    BY <2>3 DEF BatchShape, BatchTypeOK
  <2>4. QED
    BY <2>2, <2>3 DEF BatchNext, everything, batchVars
<1> DEFINE Shape == /\ ids' \in [Clicks -> Lists \cup {<<>>}]
                    /\ answers' = [d \in Clicks |-> answers'[d]]
                    /\ severed' \subseteq Batches
                    /\ \A d \in Clicks : SlotOK(d)'
<1>4. ASSUME UNCHANGED <<ids, answers, severed>>, order' = order,
             \A d \in Clicks : pc'[d] # "idle" => pc[d] # "idle"
      PROVE  Shape
  <2>1. \A d \in Clicks : SlotOK(d)'
    BY <1>2, <1>4, SlotKept
  <2>2. QED
    BY <1>4, <2>1 DEF BatchShape, BatchTypeOK
<1>5. ASSUME NEW c \in Clicks, RunOrder(c) PROVE Shape
  BY <1>1, <1>4, <1>5, NothingStarts DEF RunOrder
<1>6. ASSUME Mishap PROVE Shape
  <2>1. order' = order /\ \A d \in Clicks : pc'[d] # "idle" => pc[d] # "idle"
    BY <1>1, <1>6, NothingStarts DEF Mishap
  <2>2. QED
    BY <1>4, <1>6, <2>1 DEF Mishap
<1>7. ASSUME NEW c \in Clicks, NEW o \in Orders, Single(c, o) PROVE Shape
  <2>1. /\ UNCHANGED <<ids, answers, severed>> /\ c \notin Batches
        /\ \A d \in Clicks \ {c} : order'[d] = order[d] /\ pc'[d] = pc[d]
    BY <1>1, <1>7 DEF Single, Click, CheckStatus, Arrive, TypeOK
  <2>2. ~Serving(c)
    <3>1. ids[c] = <<>> /\ Len(answers[c]) \in Nat
      BY <1>2, <2>1, LenProperties DEF SlotOK
    <3>2. QED
      BY <3>1 DEF Serving
  <2>3. \A d \in Clicks : SlotOK(d)'
    BY <1>2, <2>1, <2>2, SlotKept
  <2>4. QED
    BY <2>1, <2>3 DEF BatchShape, BatchTypeOK
<1>8. ASSUME NEW c \in Clicks, HangUp(c) PROVE Shape
  <2>1. /\ UNCHANGED <<ids, answers, order, pc>>
        /\ pc[c] # "idle" /\ severed' = severed \cup ({c} \cap Batches)
    BY <1>8 DEF HangUp, Disconnect
  <2>2. \A d \in Clicks : d \in severed' => d \in severed \/ Serving(d)
    BY <1>2, <2>1 DEF SlotOK
  <2>3. \A d \in Clicks : SlotOK(d)'
    BY <1>2, <2>1, <2>2, SlotKept
  <2>4. QED
    BY <2>1, <2>3 DEF BatchShape, BatchTypeOK
<1>9. ASSUME NEW D \in SUBSET Clicks, Die(D) PROVE Shape
  <2>1. order' = order /\ \A d \in Clicks : pc'[d] # "idle" => pc[d] # "idle"
    BY <1>1, <1>9, NothingStarts DEF Die
  <2>2. /\ ids' \in [Clicks -> Lists \cup {<<>>}] /\ answers' = [d \in Clicks |-> answers'[d]] /\ severed' \subseteq Batches
        /\ \A d \in Clicks \ D : ids'[d] = ids[d] /\ answers'[d] = answers[d] /\ (d \in severed' => d \in severed)
        /\ \A d \in D : ids'[d] = <<>> /\ answers'[d] = <<>> /\ d \notin severed'
    BY <1>9 DEF Die, BatchShape, BatchTypeOK
  <2>3. \A d \in D : SlotOK(d)'
    <3>1. ASSUME NEW d \in D PROVE SlotOK(d)'
      <4>1. pc'[d] = "idle"
        BY <1>9 DEF Die, Crash
      <4>2. answers'[d] = <<>> /\ ids'[d] = <<>> /\ d \notin severed'
        BY <2>2
      <4>3. /\ ~Serving(d)' /\ answers'[d] \in Seq(Entries) /\ DOMAIN answers'[d] = {}
            /\ Len(answers'[d]) <= Len(ids'[d])
        BY <4>2 DEF Serving
      <4>4. QED
        BY <4>1, <4>2, <4>3 DEF SlotOK
    <3>2. QED
      BY <3>1
  <2>4. \A d \in Clicks \ D : SlotOK(d)'
    BY <1>2, <2>1, <2>2, SlotKept
  <2>5. QED
    BY <2>2, <2>3, <2>4
<1>10. ASSUME NEW c \in Clicks, NEW list \in Lists, Submit(c, list) PROVE Shape
  <2>1. /\ c \in Batches /\ ~Serving(c) /\ severed' = severed
        /\ ids' = [ids EXCEPT ![c] = list] /\ answers' = [answers EXCEPT ![c] = <<>>]
        /\ order'[c] = list[1]
        /\ \A d \in Clicks \ {c} : order'[d] = order[d] /\ pc'[d] = pc[d]
    BY <1>1, <1>10 DEF Submit, Click, Arrive, TypeOK
  <2>2. /\ ids' \in [Clicks -> Lists \cup {<<>>}] /\ answers' = [d \in Clicks |-> answers'[d]] /\ severed' \subseteq Batches
        /\ ids'[c] = list /\ answers'[c] = <<>>
        /\ \A d \in Clicks \ {c} : ids'[d] = ids[d] /\ answers'[d] = answers[d]
    BY <2>1 DEF BatchShape, BatchTypeOK
  <2>3. SlotOK(c)'
    BY <1>2, <2>1, <2>2, SlotSubmitted
  <2>4. \A d \in Clicks \ {c} : SlotOK(d)'
    BY <1>2, <2>1, <2>2, SlotKept
  <2>5. QED
    BY <2>2, <2>3, <2>4
<1>11. ASSUME NEW c \in Clicks, Collect(c) \/ CollectSevered(c) PROVE Shape
  <2>1. /\ \A d \in Clicks \ {c} : order'[d] = order[d] /\ pc'[d] = pc[d]
        /\ ids' = ids /\ severed' \subseteq severed
        /\ answers' = [d \in Clicks |-> answers'[d]]
        /\ \A d \in Clicks \ {c} : answers'[d] = answers[d]
    BY <1>1, <1>11 DEF Collect, CollectSevered, Click, Arrive, TypeOK, vars, BatchShape, BatchTypeOK
  <2>2. SlotOK(c)'
    BY <1>1, <1>2, <1>11, SlotCollected, SlotSevered
  <2>3. \A d \in Clicks \ {c} : SlotOK(d)'
    BY <1>2, <2>1, SlotKept
  <2>4. QED
    BY <2>1, <2>2, <2>3 DEF BatchShape, BatchTypeOK
<1>12. Shape
  <2>1. CASE BatchNext
    BY <2>1, <1>5, <1>6, <1>7, <1>8, <1>9, <1>10, <1>11 DEF BatchNext, BatchStep
  <2>2. CASE UNCHANGED everything
    BY <1>4, <2>2 DEF everything, batchVars, vars
  <2>3. QED
    BY <2>1, <2>2
<1>13. answers' \in [Clicks -> Seq(Entries)]
  <2>1. \A d \in Clicks : answers'[d] \in Seq(Entries)
    BY <1>12 DEF SlotOK
  <2>2. answers' = [d \in Clicks |-> answers'[d]]
    BY <1>12
  <2>3. QED
    BY <2>1, <2>2
<1>14. Placed'
  BY <1>12 DEF Placed, SlotOK
<1>15. \A c \in Clicks : /\ Len(answers'[c]) <= Len(ids'[c])
                         /\ c \in severed' => Serving(c)'
                         /\ \A i \in DOMAIN answers'[c] : answers'[c][i].order = ids'[c][i]
  BY <1>12 DEF SlotOK
<1>16. QED
  BY <1>1, <1>3, <1>12, <1>13, <1>14, <1>15 DEF BatchShape, BatchTypeOK

-----------------------------------------------------------------------------
(***************************************************************************)
(* SYNCED in a batch.                                                      *)
(***************************************************************************)
\* The list of c tells that order o is SYNCED.
ToldSynced(c, i, o) ==
    /\ answers[c][i].order = o
    /\ Told(answers[c][i].answer)
    /\ answers[c][i].att.status = "SYNCED"

\* The order a batch has just pushed is none of those it has a SYNCED for.
NotPushedAgain ==
    \A c \in Clicks :
        Serving(c) /\ reply[c] = "completed" /\ order[c] \notin overrun
        => \A i \in DOMAIN answers[c] : ~ToldSynced(c, i, order[c])

BatchInv ==
    /\ IInv
    /\ BatchShape
    /\ BatchSyncedStands
    /\ SyncedOnceInBatch
    /\ NotPushedAgain

\* What one step does to the list of a slot.
LEMMA ListMoved ==
  ASSUME BatchShape, [BatchNext]_everything, NEW c \in Clicks
  PROVE  \/ answers'[c] = answers[c] /\ ids'[c] = ids[c]
         \/ answers'[c] = <<>>
         \/ Collect(c) \/ CollectSevered(c)
<1> DEFINE Same == answers'[c] = answers[c] /\ ids'[c] = ids[c]
<1> DEFINE Gone == answers'[c] = <<>>
<1>1. ASSUME NEW d \in Clicks, Collect(d) \/ CollectSevered(d) \/ RunOrder(d) \/ HangUp(d)
                               \/ \E list \in Lists : Submit(d, list)
      PROVE  Same \/ Gone \/ Collect(c) \/ CollectSevered(c)
  BY <1>1 DEF Collect, CollectSevered, RunOrder, HangUp, Submit, BatchShape, BatchTypeOK
<1>2. ASSUME NEW D \in SUBSET Clicks, Die(D) PROVE Same \/ Gone
  BY <1>2 DEF Die
<1>3. ASSUME \/ \E d \in Clicks : \E o \in Orders : Single(d, o)
             \/ Mishap \/ UNCHANGED everything
      PROVE  Same
  BY <1>3 DEF Single, Mishap, everything, batchVars
<1>4. QED
  BY <1>1, <1>2, <1>3 DEF BatchNext, BatchStep

\* A result in a list was in it before, or is that of the order just run, or is an
\* error; nothing else happens to the database when a result is added.
LEMMA EntriesMoved ==
  ASSUME TypeOK, BatchShape, [BatchNext]_everything,
         NEW c \in Clicks, NEW i \in DOMAIN answers'[c]
  PROVE  \/ i \in DOMAIN answers[c] /\ answers'[c][i] = answers[c][i]
         \/ /\ Collect(c) \/ CollectSevered(c)
            /\ i = Len(answers[c]) + 1
            /\ answers'[c][i] = EntryOf(c)
            /\ UNCHANGED <<row, lines, overrun>>
         \/ ~Told(answers'[c][i].answer)
<1> DEFINE Same == answers'[c] = answers[c]
<1> DEFINE Gone == answers'[c] = <<>>
<1>0. \A d \in Clicks : SlotOK(d)
  BY DEF BatchShape, BatchTypeOK, Placed, SlotOK
<1>1. Same \/ Gone \/ Collect(c) \/ CollectSevered(c)
  BY ListMoved
<1>2. CASE Same
  BY <1>2
<1>3. CASE Gone
  BY <1>3
<1>4. CASE Collect(c)
  <2>1. answers'[c] = Append(answers[c], EntryOf(c)) /\ answers[c] \in Seq(Entries)
    BY <1>4 DEF Collect, BatchShape, BatchTypeOK
  <2>2. EntryOf(c) \in Entries
    BY EntryTyped
  <2>3. /\ DOMAIN answers'[c] = 1..(Len(answers[c]) + 1)
        /\ \A j \in 1..Len(answers[c]) : answers'[c][j] = answers[c][j]
        /\ answers'[c][Len(answers[c]) + 1] = EntryOf(c)
        /\ Len(answers[c]) \in Nat
        /\ DOMAIN answers[c] = 1..Len(answers[c])
    BY <2>1, <2>2, AppendProperties, LenProperties
  <2>4. UNCHANGED <<row, lines, overrun>>
    BY <1>4 DEF Collect, Click, Arrive, vars
  <2>5. QED
    BY <1>4, <2>3, <2>4
<1>5. CASE CollectSevered(c)
  <2>1. i \in 1..Len(ids[c])
    BY <1>0, <1>5, SeveredList
  <2>2. UNCHANGED <<row, lines, overrun>>
    BY <1>5 DEF CollectSevered, vars
  <2>3. CASE i \in DOMAIN answers[c]
    BY <1>0, <1>5, <2>1, <2>3, SeveredList
  <2>4. CASE i = Len(answers[c]) + 1
    BY <1>0, <1>5, <2>1, <2>2, <2>4, SeveredList
  <2>5. CASE i \notin DOMAIN answers[c] /\ i # Len(answers[c]) + 1
    <3>1. answers'[c][i] = FromError(ids[c][i], "failed")
      BY <1>0, <1>5, <2>1, <2>5, SeveredList
    <3>2. answers'[c][i].answer = "failed"
      BY <3>1 DEF FromError, Entry
    <3>3. QED
      BY <3>2 DEF Told
  <2>6. QED
    BY <2>3, <2>4, <2>5
<1>6. QED
  BY <1>1, <1>2, <1>3, <1>4, <1>5

\* An order once overrun stays so.
LEMMA OverrunGrows ==
  ASSUME TypeOK, [Next]_vars
  PROVE  overrun \subseteq overrun'
<1>1. ASSUME NEW c \in Clicks, Reclaim(c) PROVE overrun \subseteq overrun'
  BY <1>1 DEF Reclaim
<1>2. ASSUME NEW c \in Clicks,
             \/ Handle(c) /\ ~Reclaim(c)
             \/ CompleteUnheard(c) \/ DatabaseError(c) \/ Disconnect(c)
             \/ \E outcome \in Outcomes : Dispatch(c, outcome)
             \/ \E o \in Orders : Click(c, o) \/ CheckStatus(c, o)
      PROVE  overrun' = overrun
  BY <1>2 DEF Handle, Refuse, Admit, InsertClaim, InsertConflict, ReclaimLost, ReadRow, NoRow, ReadLines, Complete,
     CompleteRolledBack, Abort, CompleteUnheard, DatabaseError, Disconnect, Dispatch, Click, CheckStatus, Arrive
<1>3. ASSUME \/ \E o \in Orders : Age(o) \/ Expire(o)
             \/ \E D \in SUBSET Clicks : Crash(D)
             \/ UNCHANGED vars
      PROVE  overrun' = overrun
  BY <1>3 DEF Age, Expire, Crash, vars
<1>4. ASSUME NEW c \in Clicks, Serve(c) PROVE overrun \subseteq overrun'
  <2>1. CASE Reclaim(c)
    BY <1>1, <2>1
  <2>2. CASE ~Reclaim(c)
    <3>1. overrun' = overrun
      BY <1>2, <1>4, <2>2 DEF Serve
    <3>2. QED
      BY <3>1
  <2>3. QED
    BY <2>1, <2>2
<1>5. CASE Environment
  BY <1>2, <1>3, <1>5 DEF Environment
<1>6. QED
  BY <1>3, <1>4, <1>5 DEF Next

\* A SYNCED told to a batch stands through every step.
LEMMA StandsStep ==
  ASSUME IInv, BatchShape, BatchSyncedStands, [BatchNext]_everything
  PROVE  BatchSyncedStands'
<1>1. TypeOK /\ SyncedAnswerStands /\ [Next]_vars
  BY ClaimStepOrNone DEF IInv
<1>2. SyncedKept /\ overrun \subseteq overrun'
  BY <1>1, StickStep, OverrunGrows DEF IInv
<1>3. ASSUME NEW c \in Clicks, NEW i \in DOMAIN answers'[c],
             Told(answers'[c][i].answer), answers'[c][i].att.status = "SYNCED",
             answers'[c][i].order \notin overrun'
      PROVE  (answers[c][i].att = Stored(answers[c][i].order))'
  <2>1. CASE i \in DOMAIN answers[c] /\ answers'[c][i] = answers[c][i]
    <3> DEFINE o == answers[c][i].order
    <3>1. o \in Orders
      <4>1. answers[c] \in Seq(Entries) /\ i \in 1..Len(answers[c])
        BY <2>1, LenProperties DEF BatchShape, BatchTypeOK
      <4>2. answers[c][i] \in Entries
        BY <4>1, ElementOfSeq
      <4>3. QED
        BY <4>2 DEF Entries
    <3>2. answers[c][i].att = Stored(o)
      BY <1>2, <1>3, <2>1 DEF BatchSyncedStands
    <3>3. row[o].status = "SYNCED" /\ o \notin overrun
      BY <1>2, <1>3, <2>1, <3>2 DEF Stored
    <3>4. row'[o] = row[o] /\ lines'[o] = lines[o]
      BY <1>2, <3>1, <3>3 DEF SyncedKept
    <3>5. QED
      BY <2>1, <3>2, <3>4 DEF Stored
  <2>2. CASE answers'[c][i] = EntryOf(c) /\ UNCHANGED <<row, lines, overrun>>
    <3>1. Told(reply[c]) /\ answers'[c][i] = Entry(order[c], reply[c], att[c])
      <4>1. CASE Told(reply[c])
        BY <2>2, <4>1 DEF EntryOf
      <4>2. CASE ~Told(reply[c])
        <5>1. answers'[c][i].answer = reply[c]
          BY <2>2, <4>2 DEF EntryOf, FromError, Entry
        <5>2. QED
          BY <1>3, <4>2, <5>1
      <4>3. QED
        BY <4>1, <4>2
    <3>2. att[c].status = "SYNCED" /\ order[c] \notin overrun
      BY <1>3, <2>2, <3>1 DEF Entry
    <3>3. att[c] = Stored(order[c])
      BY <1>1, <3>1, <3>2 DEF SyncedAnswerStands, Told
    <3>4. QED
      BY <2>2, <3>1, <3>3 DEF Entry, Stored
  <2>3. QED
    BY <1>1, <1>3, <2>1, <2>2, EntriesMoved, Zenon
<1>4. QED
  BY <1>3 DEF BatchSyncedStands

\* A result that is no error was in the list before, but for the last one.
LEMMA OlderEntries ==
  ASSUME TypeOK, BatchShape, [BatchNext]_everything,
         NEW c \in Clicks, NEW i \in DOMAIN answers'[c], Told(answers'[c][i].answer),
         i <= Len(answers[c])
  PROVE  i \in DOMAIN answers[c] /\ answers'[c][i] = answers[c][i]
<1>1. Len(answers[c]) \in Nat
  BY LenProperties DEF BatchShape, BatchTypeOK
<1>2. i # Len(answers[c]) + 1
  BY <1>1
<1>3. QED
  BY <1>2, EntriesMoved, Zenon

\* No list gains a push after a SYNCED of the same order.
LEMMA OnceStep ==
  ASSUME IInv, BatchShape, SyncedOnceInBatch, NotPushedAgain, [BatchNext]_everything
  PROVE  SyncedOnceInBatch'
<1>1. TypeOK /\ overrun \subseteq overrun'
  BY ClaimStepOrNone, OverrunGrows DEF IInv
<1>2. ASSUME NEW c \in Clicks, NEW i \in DOMAIN answers'[c], NEW j \in DOMAIN answers'[c],
             i < j, answers'[c][i].order = answers'[c][j].order,
             Told(answers'[c][i].answer), answers'[c][i].att.status = "SYNCED",
             answers'[c][i].order \notin overrun',
             answers'[c][j].answer = "completed"
      PROVE  FALSE
  <2>1. /\ Len(answers[c]) \in Nat /\ DOMAIN answers[c] = 1..Len(answers[c])
        /\ i \in Int /\ j \in Int
    <3>1. answers[c] \in Seq(Entries) /\ answers'[c] \in Seq(Entries)
      BY ShapeStep DEF BatchShape, BatchTypeOK
    <3>2. QED
      BY <3>1, <1>2, LenProperties
  <2>2. Told(answers'[c][j].answer)
    BY <1>2 DEF Told
  <2>3. CASE j \in DOMAIN answers[c] /\ answers'[c][j] = answers[c][j]
    <3>1. i \in DOMAIN answers[c] /\ answers'[c][i] = answers[c][i]
      BY <1>1, <1>2, <2>1, <2>3, OlderEntries
    <3>2. QED
      BY <1>1, <1>2, <2>3, <3>1 DEF SyncedOnceInBatch
  <2>4. CASE /\ Collect(c) \/ CollectSevered(c)
             /\ j = Len(answers[c]) + 1
             /\ answers'[c][j] = EntryOf(c)
    <3>1. i \in DOMAIN answers[c] /\ answers'[c][i] = answers[c][i]
      BY <1>1, <1>2, <2>1, <2>4, OlderEntries
    <3>2. reply[c] = "completed" /\ EntryOf(c).order = order[c]
      BY <1>1, <1>2, <2>2, <2>4 DEF EntryOf, Entry, FromError, Told
    <3>3. Serving(c)
      BY <2>4 DEF Collect, CollectSevered
    <3>4. ToldSynced(c, i, order[c]) /\ order[c] \notin overrun
      BY <1>1, <1>2, <2>4, <3>1, <3>2 DEF ToldSynced
    <3>5. QED
      BY <3>1, <3>2, <3>3, <3>4 DEF NotPushedAgain
  <2>5. QED
    BY <1>1, <2>2, <2>3, <2>4, EntriesMoved, Zenon
<1>3. QED
  BY <1>2 DEF SyncedOnceInBatch

\* A request is told "completed" by its own Complete, and by nothing else.
LEMMA CompletedBy ==
  ASSUME TypeOK, [Next]_vars, NEW c \in Clicks, reply'[c] = "completed"
  PROVE  Complete(c) \/ (reply[c] = "completed" /\ order'[c] = order[c])
<1> USE DEF TypeOK, Answer
<1>1. ASSUME NEW d \in Clicks, Handle(d) PROVE Complete(c) \/ (reply[c] = "completed" /\ order'[c] = order[c])
  <2>1. CASE Complete(d)
    BY <2>1 DEF Complete
  <2>2. CASE Refuse(d) \/ Admit(d) \/ InsertClaim(d) \/ InsertConflict(d) \/ Reclaim(d) \/ ReclaimLost(d)
    BY <2>2 DEF Refuse, Admit, InsertClaim, InsertConflict, Reclaim, ReclaimLost
  <2>3. CASE ReadRow(d) \/ NoRow(d) \/ ReadLines(d) \/ CompleteRolledBack(d) \/ Abort(d)
    BY <2>3 DEF ReadRow, NoRow, ReadLines, CompleteRolledBack, Abort
  <2>4. QED
    BY <1>1, <2>1, <2>2, <2>3 DEF Handle
<1>2. ASSUME NEW d \in Clicks,
             \/ CompleteUnheard(d) \/ DatabaseError(d) \/ Disconnect(d)
             \/ \E outcome \in Outcomes : Dispatch(d, outcome)
             \/ \E o \in Orders : Click(d, o) \/ CheckStatus(d, o)
      PROVE  reply[c] = "completed" /\ order'[c] = order[c]
  BY <1>2 DEF CompleteUnheard, DatabaseError, Disconnect, Dispatch, Click, CheckStatus, Arrive
<1>3. ASSUME \/ \E o \in Orders : Age(o) \/ Expire(o)
             \/ \E D \in SUBSET Clicks : Crash(D)
             \/ UNCHANGED vars
      PROVE  reply[c] = "completed" /\ order'[c] = order[c]
  BY <1>3 DEF Age, Expire, Crash, vars
<1>4. CASE \E d \in Clicks : Serve(d)
  BY <1>1, <1>2, <1>4 DEF Serve
<1>5. CASE Environment
  BY <1>2, <1>3, <1>5 DEF Environment
<1>6. QED
  BY <1>3, <1>4, <1>5 DEF Next

\* An order the batch has a SYNCED for is not pushed by it again.
LEMMA NotPushedStep ==
  ASSUME BatchInv, [BatchNext]_everything
  PROVE  NotPushedAgain'
<1>1. IInv /\ BatchShape /\ TypeOK /\ overrun \subseteq overrun' /\ [Next]_vars
  BY ClaimStepOrNone, OverrunGrows DEF BatchInv, IInv
<1>2. ASSUME NEW c \in Clicks, Serving(c)', reply'[c] = "completed", order'[c] \notin overrun',
             NEW i \in DOMAIN answers'[c], ToldSynced(c, i, order[c])'
      PROVE  FALSE
  <2>1. ~CollectSevered(c)
    <3>1. ASSUME CollectSevered(c) PROVE FALSE
      <4>1. Len(answers'[c]) = Len(ids[c]) /\ ids'[c] = ids[c] /\ Len(ids[c]) \in Nat
        <5>1. SlotOK(c)
          BY <1>1 DEF BatchShape, BatchTypeOK, Placed, SlotOK
        <5>2. Serving(c)
          BY <3>1 DEF CollectSevered
        <5>3. QED
          BY <1>1, <3>1, <5>1, <5>2, SeveredList, NextOrder, ListsAreOrders DEF CollectSevered
      <4>2. QED
        BY <1>2, <4>1 DEF Serving
    <3>2. QED
      BY <3>1
  <2>2. ~Collect(c)
    <3>1. ASSUME Collect(c) PROVE FALSE
      <4>1. CASE UNCHANGED vars /\ ~(Len(Append(answers[c], EntryOf(c))) < Len(ids[c]))
        <5>1. answers'[c] = Append(answers[c], EntryOf(c)) /\ ids'[c] = ids[c]
          BY <1>1, <3>1 DEF Collect, BatchShape, BatchTypeOK
        <5>2. QED
          BY <1>2, <4>1, <5>1 DEF Serving
      <4>2. CASE \E o : Click(c, o)
        BY <1>1, <1>2, <4>2 DEF Click, Arrive, TypeOK
      <4>3. QED
        BY <3>1, <4>1, <4>2 DEF Collect
    <3>2. QED
      BY <3>1
  <2>3. answers'[c] = answers[c] /\ ids'[c] = ids[c]
    <3>1. answers'[c] # <<>>
      BY <1>2
    <3>2. QED
      BY <1>1, <2>1, <2>2, <3>1, ListMoved
  <2>4. Serving(c) /\ i \in DOMAIN answers[c]
    BY <1>2, <2>3 DEF Serving
  <2>5. CASE reply[c] = "completed" /\ order'[c] = order[c]
    <3>1. ToldSynced(c, i, order[c]) /\ order[c] \notin overrun
      BY <1>1, <1>2, <2>3, <2>5 DEF ToldSynced
    <3>2. QED
      BY <2>4, <2>5, <3>1 DEF BatchInv, NotPushedAgain
  <2>6. CASE Complete(c)
    <3>1. role[c] = "owner" /\ order' = order /\ overrun' = overrun
      BY <1>1, <2>6 DEF Complete, Running, IInv, RoleOK
    <3>2. row[order[c]].status = "PENDING"
      BY <1>1, <1>2, <3>1 DEF IInv, QuietUnlessPending
    <3>3. ToldSynced(c, i, order[c]) /\ order[c] \notin overrun
      BY <1>2, <2>3, <3>1 DEF ToldSynced
    <3>4. answers[c][i].att = Stored(order[c])
      BY <2>4, <3>3 DEF BatchInv, BatchSyncedStands, ToldSynced
    <3>5. QED
      BY <3>2, <3>3, <3>4 DEF Stored, ToldSynced
  <2>7. QED
    BY <1>1, <1>2, <2>5, <2>6, CompletedBy
<1>3. QED
  BY <1>2 DEF NotPushedAgain

\* The invariant holds at the start and is inductive.
LEMMA BatchInitInv == BatchInit => BatchInv
<1> SUFFICES ASSUME BatchInit PROVE BatchInv
  OBVIOUS
<1>1. IInv
  BY InitInv DEF BatchInit
<1>2. /\ \A c \in Clicks : ids[c] = <<>> /\ answers[c] = <<>> /\ pc[c] = "idle" /\ ~Serving(c)
      /\ \A c \in Clicks : DOMAIN answers[c] = {} /\ Len(answers[c]) <= Len(ids[c])
      /\ severed = {}
  BY DEF BatchInit, Init, Serving
<1>3. BatchTypeOK
  BY <1>1, <1>2 DEF BatchInit, BatchTypeOK, IInv
<1>4. Placed /\ BatchSyncedStands /\ SyncedOnceInBatch /\ NotPushedAgain
  BY <1>2 DEF Placed, BatchSyncedStands, SyncedOnceInBatch, NotPushedAgain
<1>5. QED
  BY <1>1, <1>3, <1>4 DEF BatchInv, BatchShape

LEMMA BatchStepInv == BatchInv /\ [BatchNext]_everything => BatchInv' /\ [Next]_vars
<1> SUFFICES ASSUME BatchInv, [BatchNext]_everything PROVE BatchInv' /\ [Next]_vars
  OBVIOUS
<1>1. IInv /\ BatchShape /\ BatchSyncedStands /\ SyncedOnceInBatch /\ NotPushedAgain
  BY DEF BatchInv
<1>2. [Next]_vars /\ IInv'
  BY <1>1, ClaimStepOrNone, StepInv
<1>3. BatchShape' /\ BatchSyncedStands' /\ SyncedOnceInBatch' /\ NotPushedAgain'
  BY <1>1, ShapeStep, StandsStep, OnceStep, NotPushedStep
<1>4. QED
  BY <1>2, <1>3 DEF BatchInv

THEOREM BatchInvariance == BatchSpec => []BatchInv
  BY BatchInitInv, BatchStepInv, PTL DEF BatchSpec

\* A batch is a client of the claim protocol that clicks its orders one after the
\* other: every theorem about Spec holds of batches too (handler BatchSyncOrders on
\* top of SyncOrder).
THEOREM BatchImplementsClaim == BatchSpec => Spec
<1>1. BatchInit => Init
  BY DEF BatchInit
<1>2. QED
  BY <1>1, BatchInvariance, BatchStepInv, PTL DEF BatchSpec, Spec

\* Runs are exclusive, end with one outcome and stop at SYNCED beside batches too,
\* whatever order a list names twice (BatchSyncOrders through ClaimAttempt).
THEOREM BatchesKeepThePromise == BatchSpec => ImplementsPromise
BY BatchImplementsClaim, Refinement, PTL

\* The list of a batch never has more results than it was given orders, each at the
\* place of its order, and every variable keeps its type (BatchSyncOrders).
THEOREM BatchTypeCorrect == BatchSpec => []BatchTypeOK
<1>1. BatchInv => BatchTypeOK
  BY DEF BatchInv, BatchShape
<1>2. QED
  BY <1>1, BatchInvariance, PTL

\* A SYNCED in the list of a batch is what the database holds, until the batch
\* answers and after, unless a running claim of that order was taken over.
THEOREM BatchSyncedAnswersStand == BatchSpec => []BatchSyncedStands
<1>1. BatchInv => BatchSyncedStands
  BY DEF BatchInv
<1>2. QED
  BY <1>1, BatchInvariance, PTL

\* However often a batch names an order, it does not push it again after a SYNCED
\* (SyncOrder inside the loop of BatchSyncOrders, with requests beside it).
THEOREM OncePerBatch == BatchSpec => []SyncedOnceInBatch
<1>1. BatchInv => SyncedOnceInBatch
  BY DEF BatchInv
<1>2. QED
  BY <1>1, BatchInvariance, PTL

-----------------------------------------------------------------------------
(***************************************************************************)
(* Results that were recorded.                                             *)
(***************************************************************************)
PastOf(o) == recorded[o] \cup {Blank}

\* Codes and lines in the database are those of results it has had, or none.
History ==
    \A o \in Orders :
        /\ row[o].status \in Terminal => Stored(o) \in recorded[o]
        /\ \E r \in PastOf(o) : r.note = row[o].note
        /\ \E r \in PastOf(o) : r.lines = lines[o]

\* So is the row a request has read, while the result it had may be gone by now.
ReadHeld(c) ==
    pc[c] = "readLines" =>
        /\ \E r \in PastOf(order[c]) : r.note = att[c].note
        /\ \/ att[c].status = "PENDING"
           \/ \E r \in recorded[order[c]] : r.status = att[c].status /\ r.note = att[c].note

ToldHeld(c) == Recorded(order[c], reply[c], att[c])

\* So is every result in the list of a batch.
ListHeld(c) ==
    \A i \in DOMAIN answers[c] :
        Told(answers[c][i].answer) =>
            Recorded(answers[c][i].order, answers[c][i].answer, answers[c][i].att)

Chronicle == History /\ \A c \in Clicks : ReadHeld(c) /\ ToldHeld(c)

\* What Record does: it forgets nothing, and notes the result of a settled row.
Recording ==
    /\ \A o \in Orders : recorded[o] \subseteq recorded'[o]
    /\ \A o \in Orders : row'[o].status \in Terminal => Stored(o)' \in recorded'[o]

LEMMA RecordingStep ==
  ASSUME History, Record \/ UNCHANGED <<row, lines, recorded>>
  PROVE  Recording
<1>1. CASE Record
  BY <1>1 DEF Record, Recording
<1>2. CASE UNCHANGED <<row, lines, recorded>>
  BY <1>2 DEF History, Recording, Stored
<1>3. QED
  BY <1>1, <1>2

\* A slot that reads and answers nothing in a step keeps what it has.
LEMMA SlotRemembers ==
  ASSUME Recording, NEW c \in Clicks, order[c] \in Orders, order'[c] = order[c], att'[c] = att[c],
         reply'[c] = reply[c] \/ reply'[c] \notin {"completed", "replayed", "status"},
         pc'[c] = "readLines" => pc[c] = "readLines",
         ReadHeld(c), ToldHeld(c)
  PROVE  ReadHeld(c)' /\ ToldHeld(c)'
<1>1. recorded[order[c]] \subseteq recorded'[order[c]] /\ PastOf(order[c]) \subseteq PastOf(order[c])'
  BY DEF Recording, PastOf, Blank
<1>2. ReadHeld(c)'
  BY <1>1 DEF ReadHeld
<1>3. ToldHeld(c)'
  BY <1>1 DEF ToldHeld, Recorded, PastOf
<1>4. QED
  BY <1>2, <1>3

LEMMA HistoryStep ==
  ASSUME IInv, History, Recording, [Next]_vars
  PROVE  History'
<1> USE DEF IInv, TypeOK
<1>1. ASSUME NEW o \in Orders,
             row'[o].note = row[o].note \/ row'[o].note = NoNote, lines'[o] = lines[o]
      PROVE  /\ \E r \in PastOf(o)' : r.note = row'[o].note
             /\ \E r \in PastOf(o)' : r.lines = lines'[o]
  <2>1. PastOf(o) \subseteq PastOf(o)' /\ Blank \in PastOf(o)' /\ Blank.note = NoNote
    BY DEF Recording, PastOf, Blank
  <2>2. QED
    BY <1>1, <2>1 DEF History
<1>2. ASSUME NEW o \in Orders, row'[o].status \in Terminal
      PROVE  /\ \E r \in PastOf(o)' : r.note = row'[o].note
             /\ \E r \in PastOf(o)' : r.lines = lines'[o]
  <2>1. Stored(o)' \in PastOf(o)'
    BY <1>2 DEF Recording, PastOf
  <2>2. Stored(o)'.note = row'[o].note /\ Stored(o)'.lines = lines'[o]
    BY DEF Stored
  <2>3. QED
    BY <2>1, <2>2
<1>3. ASSUME NEW o \in Orders
      PROVE  \/ row'[o].status \in Terminal
             \/ lines'[o] = lines[o] /\ (row'[o].note = row[o].note \/ row'[o].note = NoNote)
  <2>1. ASSUME NEW c \in Clicks, InsertClaim(c) \/ Reclaim(c)
        PROVE  lines'[o] = lines[o] /\ (row'[o].note = row[o].note \/ row'[o].note = NoNote)
    BY <2>1 DEF InsertClaim, Reclaim
  <2>2. ASSUME NEW c \in Clicks, Complete(c) \/ CompleteUnheard(c)
        PROVE  \/ row'[o].status \in Terminal
               \/ lines'[o] = lines[o] /\ row'[o].note = row[o].note
    <3>1. att[c] \in Outcomes /\ Write(c)
      BY <2>2 DEF Complete, CompleteUnheard, Running, OutcomeHeld
    <3>2. att[c].status \in Terminal
      BY <3>1, ClaimAssumption
    <3>3. QED
      BY <3>1, <3>2 DEF Write
  <2>3. ASSUME NEW p \in Orders, Age(p)
        PROVE  lines'[o] = lines[o] /\ row'[o].note = row[o].note
    BY <2>3 DEF Age
  <2>4. CASE row' = row /\ lines' = lines
    BY <2>4
  <2>5. QED
    BY <2>1, <2>2, <2>3, <2>4 DEF Next, Serve, Handle, Environment, vars, Click, CheckStatus, Arrive, Refuse, Admit,
       InsertConflict, ReclaimLost, ReadRow, NoRow, ReadLines, Dispatch, Abort, CompleteRolledBack,
       DatabaseError, Disconnect, Crash, Expire
<1>4. \A o \in Orders : row'[o].status \in Terminal => Stored(o)' \in recorded'[o]
  BY DEF Recording
<1>5. QED
  BY <1>1, <1>2, <1>3, <1>4 DEF History

\* A request that runs: only ReadRow, ReadLines and Complete take something over.
LEMMA HandleRemembers ==
  ASSUME IInv, Chronicle, Recording, History', NEW c \in Clicks,
         Handle(c) \/ \E outcome \in Outcomes : Dispatch(c, outcome)
  PROVE  ReadHeld(c)' /\ ToldHeld(c)'
<1> USE DEF IInv, TypeOK
<1>0. /\ recorded[order[c]] \subseteq recorded'[order[c]]
      /\ PastOf(order[c]) \subseteq PastOf(order[c])'
      /\ order[c] \in Orders /\ order' = order
  <2>1. order' = order
    BY NothingStarts DEF Serve
  <2>2. QED
    BY <2>1 DEF Recording, PastOf, Blank
<1>1. CASE ReadRow(c)
  <2>1. /\ att'[c].status = row[order[c]].status /\ att'[c].note = row[order[c]].note
        /\ reply'[c] = "none" /\ row[order[c]].status \in {"PENDING"} \cup Terminal
    BY <1>1 DEF ReadRow, Running, RoleOK, RowStatus, Terminal
  <2>2. \E r \in PastOf(order[c]) : r.note = att'[c].note
    BY <1>0, <2>1 DEF Chronicle, History
  <2>3. \/ att'[c].status = "PENDING"
        \/ \E r \in recorded[order[c]] : r.status = att'[c].status /\ r.note = att'[c].note
    <3>1. CASE row[order[c]].status \in Terminal
      <4>1. Stored(order[c]) \in recorded[order[c]]
        BY <1>0, <3>1 DEF Chronicle, History
      <4>2. Stored(order[c]).status = att'[c].status /\ Stored(order[c]).note = att'[c].note
        BY <2>1 DEF Stored
      <4>3. QED
        BY <4>1, <4>2
    <3>2. QED
      BY <2>1, <3>1
  <2>4. ReadHeld(c)'
    BY <1>0, <2>2, <2>3 DEF ReadHeld
  <2>5. QED
    BY <2>1, <2>4 DEF ToldHeld, Recorded
<1>2. CASE ReadLines(c)
  <2>1. pc[c] = "readLines" /\ pc'[c] # "readLines"
    BY <1>2 DEF ReadLines, Running, Answer
  <2>2. /\ att'[c].status = att[c].status /\ att'[c].note = att[c].note
        /\ att'[c].lines = lines[order[c]] /\ reply'[c] # "completed"
    BY <1>2, <2>1 DEF ReadLines, WithLines, Answer, RoleOK
  <2>3. /\ \E r \in PastOf(order[c])' : r.note = att'[c].note
        /\ \E r \in PastOf(order[c])' : r.lines = att'[c].lines
    <3>1. \E r \in PastOf(order[c]) : r.note = att[c].note
      BY <2>1 DEF Chronicle, ReadHeld
    <3>2. \E r \in PastOf(order[c]) : r.lines = lines[order[c]]
      BY <1>0 DEF Chronicle, History
    <3>3. QED
      BY <1>0, <2>2, <3>1, <3>2
  <2>4. \/ att'[c].status = "PENDING"
        \/ \E r \in recorded'[order[c]] : r.status = att'[c].status /\ r.note = att'[c].note
    <3>1. \/ att[c].status = "PENDING"
          \/ \E r \in recorded[order[c]] : r.status = att[c].status /\ r.note = att[c].note
      BY <2>1 DEF Chronicle, ReadHeld
    <3>2. QED
      BY <1>0, <2>2, <3>1
  <2>5. QED
    BY <1>0, <2>1, <2>2, <2>3, <2>4 DEF ReadHeld, ToldHeld, Recorded, PastOf
<1>3. CASE Complete(c)
  <2>1. att' = att /\ reply'[c] = "completed" /\ pc'[c] = "idle"
    BY <1>3 DEF Complete, Answer
  <2>2. att[c] \in Outcomes /\ Write(c)
    BY <1>3 DEF Complete, Running, OutcomeHeld
  <2>3. att[c] \in [status : Terminal, note : Notes, lines : LineDetails]
    BY <2>2, ClaimAssumption
  <2>4. Stored(order[c])' = att[c] /\ row'[order[c]].status \in Terminal
    BY <1>0, <2>2, <2>3 DEF Write, Stored
  <2>5. att'[c] \in recorded'[order'[c]]
    BY <1>0, <2>1, <2>4 DEF Recording
  <2>6. QED
    BY <2>1, <2>5 DEF ReadHeld, ToldHeld, Recorded, PastOf
<1>4. CASE \/ Refuse(c) \/ NoRow(c) \/ CompleteRolledBack(c) \/ Abort(c)
  BY <1>4, <1>0, SlotRemembers DEF Refuse, NoRow, CompleteRolledBack, Abort, Answer, Chronicle
<1>5. CASE \/ Admit(c) \/ InsertClaim(c) \/ InsertConflict(c) \/ Reclaim(c) \/ ReclaimLost(c)
  BY <1>5, <1>0, SlotRemembers DEF Admit, InsertClaim, InsertConflict, Reclaim, ReclaimLost, Chronicle
<1>6. CASE \E outcome \in Outcomes : Dispatch(c, outcome)
  <2>1. pc'[c] = "completing" /\ reply'[c] = "none"
    BY <1>6 DEF Dispatch, Running, RoleOK
  <2>2. QED
    BY <2>1 DEF ReadHeld, ToldHeld, Recorded, PastOf
<1>7. QED
  BY <1>1, <1>2, <1>3, <1>4, <1>5, <1>6 DEF Handle

\* What a step leaves alone of the requests other than c.
LEMMA OthersUntouched ==
  ASSUME TypeOK, NEW c \in Clicks, NEW d \in Clicks \ {c},
         \/ Handle(c) \/ CompleteUnheard(c) \/ DatabaseError(c) \/ Disconnect(c)
         \/ \E outcome \in Outcomes : Dispatch(c, outcome)
         \/ \E o \in Orders : Click(c, o) \/ CheckStatus(c, o)
  PROVE  order'[d] = order[d] /\ att'[d] = att[d] /\ reply'[d] = reply[d] /\ pc'[d] = pc[d]
<1> USE DEF TypeOK, Answer
<1>1. CASE Refuse(c) \/ Admit(c) \/ InsertClaim(c) \/ InsertConflict(c) \/ Reclaim(c) \/ ReclaimLost(c)
  BY <1>1 DEF Refuse, Admit, InsertClaim, InsertConflict, Reclaim, ReclaimLost
<1>2. CASE ReadRow(c) \/ NoRow(c) \/ ReadLines(c) \/ Complete(c) \/ CompleteRolledBack(c) \/ Abort(c)
  BY <1>2 DEF ReadRow, NoRow, ReadLines, Complete, CompleteRolledBack, Abort
<1>3. CASE CompleteUnheard(c) \/ DatabaseError(c) \/ Disconnect(c) \/ \E outcome \in Outcomes : Dispatch(c, outcome)
  BY <1>3 DEF CompleteUnheard, DatabaseError, Disconnect, Dispatch
<1>4. CASE \E o \in Orders : Click(c, o) \/ CheckStatus(c, o)
  BY <1>4 DEF Click, CheckStatus, Arrive
<1>5. QED
  BY <1>1, <1>2, <1>3, <1>4 DEF Handle

\* No step makes a request hold or tell a result that was not recorded.
LEMMA ChronicleStep ==
  ASSUME IInv, Chronicle, [Next]_vars, Record \/ UNCHANGED <<row, lines, recorded>>
  PROVE  Chronicle'
<1> USE DEF IInv, TypeOK
<1>1. Recording /\ History'
  BY RecordingStep, HistoryStep DEF Chronicle
<1>2. ASSUME NEW c \in Clicks, Serve(c), NEW d \in Clicks PROVE ReadHeld(d)' /\ ToldHeld(d)'
  <2>1. CASE d = c
    BY <1>1, <1>2, <2>1, HandleRemembers DEF Serve
  <2>2. CASE d # c
    <3>1. order'[d] = order[d] /\ att'[d] = att[d] /\ reply'[d] = reply[d] /\ pc'[d] = pc[d]
      BY <1>2, <2>2, OthersUntouched DEF Serve
    <3>2. QED
      BY <1>1, <3>1, SlotRemembers DEF Chronicle
  <2>3. QED
    BY <2>1, <2>2
<1>3. ASSUME NEW c \in Clicks, NEW o \in Orders, Click(c, o) \/ CheckStatus(c, o), NEW d \in Clicks
      PROVE  ReadHeld(d)' /\ ToldHeld(d)'
  <2>1. CASE d = c
    <3>1. reply'[c] = "none" /\ pc'[c] # "readLines"
      BY <1>3 DEF Click, CheckStatus, Arrive
    <3>2. QED
      BY <2>1, <3>1 DEF ReadHeld, ToldHeld, Recorded, PastOf
  <2>2. CASE d # c
    <3>1. order'[d] = order[d] /\ att'[d] = att[d] /\ reply'[d] = reply[d] /\ pc'[d] = pc[d]
      BY <1>3, <2>2, OthersUntouched
    <3>2. QED
      BY <1>1, <3>1, SlotRemembers DEF Chronicle
  <2>3. QED
    BY <2>1, <2>2
<1>4. ASSUME NEW c \in Clicks, CompleteUnheard(c) \/ DatabaseError(c) \/ Disconnect(c), NEW d \in Clicks
      PROVE  ReadHeld(d)' /\ ToldHeld(d)'
  <2>1. /\ order'[d] = order[d] /\ att'[d] = att[d]
        /\ reply'[d] = reply[d] \/ reply'[d] = "failed"
        /\ pc'[d] = pc[d] \/ pc'[d] = "idle"
    BY <1>4 DEF CompleteUnheard, DatabaseError, Disconnect, Answer
  <2>2. QED
    BY <1>1, <2>1, SlotRemembers DEF Chronicle
<1>5. ASSUME NEW D \in SUBSET Clicks, Crash(D), NEW d \in Clicks PROVE ReadHeld(d)' /\ ToldHeld(d)'
  <2>1. /\ order'[d] = order[d] /\ att'[d] = att[d]
        /\ reply'[d] = reply[d] \/ reply'[d] = "lost"
        /\ pc'[d] = pc[d] \/ pc'[d] = "idle"
    BY <1>5 DEF Crash
  <2>2. QED
    BY <1>1, <2>1, SlotRemembers DEF Chronicle
<1>6. ASSUME (\E o \in Orders : Age(o) \/ Expire(o)) \/ UNCHANGED vars, NEW d \in Clicks
      PROVE  ReadHeld(d)' /\ ToldHeld(d)'
  <2>1. UNCHANGED <<order, att, reply, pc>>
    BY <1>6 DEF Age, Expire, vars
  <2>2. QED
    BY <1>1, <2>1, SlotRemembers DEF Chronicle
<1>7. \A d \in Clicks : ReadHeld(d)' /\ ToldHeld(d)'
  BY <1>2, <1>3, <1>4, <1>5, <1>6 DEF Next, Environment
<1>8. QED
  BY <1>1, <1>7 DEF Chronicle

\* What was recorded stays so.
LEMMA RecordedStays ==
  ASSUME TypeOK, Recording, NEW o \in Orders, NEW answer \in Answers, NEW told \in Attempts,
         Recorded(o, answer, told)
  PROVE  /\ answer = "completed" => told \in recorded'[o]
         /\ answer \in {"replayed", "status"} =>
               /\ \E r \in recorded'[o] \cup {Blank} : r.note = told.note
               /\ \E r \in recorded'[o] \cup {Blank} : r.lines = told.lines
               /\ \/ told.status = "PENDING"
                  \/ \E r \in recorded'[o] : r.status = told.status /\ r.note = told.note
  BY DEF Recorded, Recording

\* A result enters a list from the answer of the order that was just run.
LEMMA ListsStep ==
  ASSUME TypeOK, BatchShape, \A c \in Clicks : ToldHeld(c) /\ ListHeld(c),
         Recording, [BatchNext]_everything, NEW c \in Clicks
  PROVE  ListHeld(c)'
<1>1. ASSUME NEW i \in DOMAIN answers'[c], Told(answers'[c][i].answer)
      PROVE  Recorded(answers[c][i].order, answers[c][i].answer, answers[c][i].att)'
  <2>1. PICK o \in Orders, answer \in Answers, told \in Attempts :
            answers'[c][i] = Entry(o, answer, told) /\ Recorded(o, answer, told)
    <3>1. CASE i \in DOMAIN answers[c] /\ answers'[c][i] = answers[c][i]
      <4>1. answers[c] \in Seq(Entries) /\ i \in 1..Len(answers[c])
        BY <3>1, LenProperties DEF BatchShape, BatchTypeOK
      <4>2. answers[c][i] \in Entries
        BY <4>1, ElementOfSeq
      <4>3. /\ answers[c][i].order \in Orders /\ answers[c][i].answer \in Answers
            /\ answers[c][i].att \in Attempts
            /\ answers[c][i] = Entry(answers[c][i].order, answers[c][i].answer, answers[c][i].att)
        BY <4>2 DEF Entries, Entry
      <4>4. Recorded(answers[c][i].order, answers[c][i].answer, answers[c][i].att)
        BY <1>1, <3>1 DEF ListHeld
      <4>5. QED
        BY <3>1, <4>3, <4>4
    <3>2. CASE answers'[c][i] = EntryOf(c)
      <4>1. order[c] \in Orders /\ reply[c] \in Answers /\ att[c] \in Attempts
        BY DEF TypeOK
      <4>2. Told(reply[c])
        BY <1>1, <3>2 DEF EntryOf, FromError, Entry
      <4>3. answers'[c][i] = Entry(order[c], reply[c], att[c])
        BY <3>2, <4>2 DEF EntryOf
      <4>4. QED
        BY <4>1, <4>3 DEF ToldHeld
    <3>3. QED
      BY <1>1, <3>1, <3>2, EntriesMoved
  <2>2. /\ answers'[c][i].order = o /\ answers'[c][i].answer = answer
        /\ answers'[c][i].att = told
    BY <2>1 DEF Entry
  <2>3. QED
    BY <2>1, <2>2, RecordedStays DEF Recorded
<1>2. QED
  BY <1>1 DEF ListHeld

\* Every answer of a completed, replayed or looked-up attempt, and every result in the
\* list of a batch, tells codes and lines that were recorded, overrun or not (finish,
\* replay, GetSyncStatus, BatchSyncOrders).
THEOREM ToldResultsWereRecorded == BatchSpec => []ToldWasRecorded
<1> DEFINE Held == Chronicle /\ \A c \in Clicks : ListHeld(c)
<1>1. BatchInit => Held
  <2> SUFFICES ASSUME BatchInit PROVE Held
    OBVIOUS
  <2>1. History
    <3>1. ASSUME NEW o \in Orders
          PROVE  /\ row[o].status \notin Terminal
                 /\ row[o].note = Blank.note /\ lines[o] = Blank.lines
                 /\ Blank \in PastOf(o)
      BY DEF BatchInit, Init, PastOf, Blank, Terminal
    <3>2. QED
      BY <3>1 DEF History
  <2>2. \A c \in Clicks : ReadHeld(c) /\ ToldHeld(c)
    BY DEF BatchInit, Init, ReadHeld, ToldHeld, Recorded
  <2>3. \A c \in Clicks : ListHeld(c)
    BY DEF BatchInit, ListHeld
  <2>4. QED
    BY <2>1, <2>2, <2>3 DEF Chronicle
<1>2. BatchInv /\ Held /\ [BatchNext]_everything => Held'
  <2> SUFFICES ASSUME BatchInv, Held, [BatchNext]_everything PROVE Held'
    OBVIOUS
  <2>1. IInv /\ [Next]_vars
    BY BatchStepInv DEF BatchInv
  <2>2. Record \/ UNCHANGED <<row, lines, recorded>>
    <3>1. CASE BatchNext
      BY <3>1 DEF BatchNext
    <3>2. CASE UNCHANGED everything
      BY <3>2 DEF everything, batchVars, vars
    <3>3. QED
      BY <3>1, <3>2
  <2>3. Chronicle'
    BY <2>1, <2>2, ChronicleStep
  <2>4. Recording
    BY <2>2, RecordingStep DEF Chronicle
  <2>5. \A c \in Clicks : ListHeld(c)'
    BY <2>1, <2>4, ListsStep DEF Chronicle, BatchInv, IInv
  <2>6. QED
    BY <2>3, <2>5
<1>3. Held => ToldWasRecorded
  BY DEF Chronicle, ToldHeld, ListHeld, ToldWasRecorded
<1>4. QED
  BY <1>1, <1>2, <1>3, BatchInvariance, PTL DEF BatchSpec
=============================================================================
