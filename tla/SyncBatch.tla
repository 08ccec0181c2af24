----------------------------- MODULE SyncBatch -----------------------------
(***************************************************************************)
(* BatchSyncOrders on top of the claim protocol: one request that runs     *)
(* SyncOrder on its orders one after the other, in one context, and        *)
(* answers a list with one result per order it was given.  Other batches,  *)
(* single requests and status reads run beside it.                         *)
(*                                                                         *)
(* An error of SyncOrder becomes a FAILED result and the batch goes on;    *)
(* only the loss of the process stops it.  Once the client has hung up,    *)
(* the first statement of every order still to come fails.                 *)
(***************************************************************************)
EXTENDS SyncClaim, Sequences

CONSTANTS
    Batches,   \* request slots that serve batches; the others serve one order
    Lists,     \* the order_ids clients send in a batch
    Singles    \* the orders clients also sync or look at one by one

MaxBatchSize == 100

ASSUME BatchAssumption ==
    /\ Batches \subseteq Clicks
    /\ Singles \subseteq Orders
    /\ Lists \subseteq Seq(Orders)
    /\ \A list \in Lists : Len(list) \in 1..MaxBatchSize

VARIABLES
    ids,       \* order_ids of the last batch each slot was given
    answers,   \* its results so far
    severed,   \* batches whose client has hung up
    recorded   \* ghost: the results each order has had in the database

batchVars == <<ids, answers, severed, recorded>>
everything == <<vars, batchVars>>

\* A batch is under way until it has a result for each order.
Serving(c) == Len(answers[c]) < Len(ids[c])

-----------------------------------------------------------------------------
(***************************************************************************)
(* Results.                                                                *)
(***************************************************************************)
Entry(o, answer, attempt) == [order |-> o, answer |-> answer, att |-> attempt]

\* SyncResultFromError: FAILED, with the code of the error and nothing of the row.
FromError(o, answer) == Entry(o, answer, [Blank EXCEPT !.status = "FAILED"])

Told(answer) == answer \in {"completed", "replayed"}

\* The result of the order that slot c has just run.
EntryOf(c) == IF Told(reply[c]) THEN Entry(order[c], reply[c], att[c])
                                ELSE FromError(order[c], reply[c])

Entries == [order : Orders, answer : Answers, att : Attempts]

\* History: what the database holds of an order whenever it has a result.
Record ==
    recorded' = [o \in Orders |-> IF row'[o].status \in Terminal
                                  THEN recorded[o] \cup {Stored(o)'} ELSE recorded[o]]

-----------------------------------------------------------------------------
BatchInit ==
    /\ Init
    /\ ids      = [c \in Clicks |-> <<>>]
    /\ answers  = [c \in Clicks |-> <<>>]
    /\ severed  = {}
    /\ recorded = [o \in Orders |-> {}]

\* A batch arrives and its first order is run.
Submit(c, list) ==
    /\ c \in Batches
    /\ ~Serving(c)
    /\ Click(c, list[1])
    /\ ids'     = [ids EXCEPT ![c] = list]
    /\ answers' = [answers EXCEPT ![c] = <<>>]
    /\ UNCHANGED severed

\* Mutated forms of Collect: the batch stops at the first error; it runs an order
\* again that ended with an error.
CollectUntilError(c) ==
    LET done == Append(answers[c], EntryOf(c)) IN
    /\ Serving(c)
    /\ pc[c] = "idle"
    /\ c \notin severed
    /\ answers' = [answers EXCEPT ![c] = done]
    /\ IF Len(done) < Len(ids[c]) /\ Told(reply[c])
       THEN Click(c, ids[c][Len(done) + 1]) /\ UNCHANGED ids
       ELSE UNCHANGED vars /\ ids' = [ids EXCEPT ![c] = SubSeq(ids[c], 1, Len(done))]
    /\ UNCHANGED severed

CollectOnceTold(c) ==
    LET done == IF Told(reply[c]) THEN Append(answers[c], EntryOf(c)) ELSE answers[c] IN
    /\ Serving(c)
    /\ pc[c] = "idle"
    /\ c \notin severed
    /\ answers' = [answers EXCEPT ![c] = done]
    /\ IF Len(done) < Len(ids[c]) THEN Click(c, ids[c][Len(done) + 1]) ELSE UNCHANGED vars
    /\ UNCHANGED <<ids, severed>>

\* SyncOrder has returned: its result is added and the next order is run.
Collect(c) ==
    LET done == Append(answers[c], EntryOf(c)) IN
    /\ Serving(c)
    /\ pc[c] = "idle"
    /\ c \notin severed
    /\ answers' = [answers EXCEPT ![c] = done]
    /\ IF Len(done) < Len(ids[c]) THEN Click(c, ids[c][Len(done) + 1]) ELSE UNCHANGED vars
    /\ UNCHANGED <<ids, severed>>

\* Mutated form of CollectSevered: the orders to come are off by one.
CollectSeveredShifted(c) ==
    LET here == Len(answers[c]) + 1 IN
    /\ Serving(c)
    /\ pc[c] = "idle"
    /\ c \in severed
    /\ answers' = [answers EXCEPT ![c] = [i \in 1..Len(ids[c]) |->
                      IF i < here THEN answers[c][i]
                      ELSE IF i = here THEN EntryOf(c) ELSE FromError(ids[c][i - 1], "failed")]]
    /\ severed' = severed \ {c}
    /\ UNCHANGED <<vars, ids>>

\* In a cancelled context the orders still to come are not even read.
CollectSevered(c) ==
    LET here == Len(answers[c]) + 1 IN
    /\ Serving(c)
    /\ pc[c] = "idle"
    /\ c \in severed
    /\ answers' = [answers EXCEPT ![c] = [i \in 1..Len(ids[c]) |->
                      IF i < here THEN answers[c][i]
                      ELSE IF i = here THEN EntryOf(c) ELSE FromError(ids[c][i], "failed")]]
    /\ severed' = severed \ {c}
    /\ UNCHANGED <<vars, ids>>

\* The steps of SyncClaim: those of the orders a batch runs, and everybody else's.
RunOrder(c) == Serve(c) /\ UNCHANGED <<ids, answers, severed>>

Single(c, o) ==
    /\ c \notin Batches
    /\ o \in Singles
    /\ Click(c, o) \/ CheckStatus(c, o)
    /\ UNCHANGED <<ids, answers, severed>>

HangUp(c) ==
    /\ Disconnect(c)
    /\ severed' = severed \cup ({c} \cap Batches)
    /\ UNCHANGED <<ids, answers>>

Die(D) ==
    /\ Crash(D)
    /\ ids'     = [c \in Clicks |-> IF c \in D THEN <<>> ELSE ids[c]]
    /\ answers' = [c \in Clicks |-> IF c \in D THEN <<>> ELSE answers[c]]
    /\ severed' = severed \ D

Mishap ==
    /\ \/ \E c \in Clicks : CompleteUnheard(c) \/ DatabaseError(c)
       \/ \E o \in Orders : Age(o) \/ Expire(o)
    /\ UNCHANGED <<ids, answers, severed>>

BatchStep(c) == RunOrder(c) \/ Collect(c) \/ CollectSevered(c)

BatchNext ==
    /\ \/ \E c \in Clicks : BatchStep(c) \/ HangUp(c)
       \/ \E c \in Clicks : \E list \in Lists : Submit(c, list)
       \/ \E c \in Clicks : \E o \in Orders : Single(c, o)
       \/ \E D \in SUBSET Clicks : Die(D)
       \/ Mishap
    /\ Record

BatchSpec == BatchInit /\ [][BatchNext]_everything

(***************************************************************************)
(* Requests go on running, claims turn old, and somebody sends each list   *)
(* again and again.  Nobody is assumed to click an order by itself.        *)
(***************************************************************************)
BatchFairness ==
    /\ \A c \in Clicks : WF_everything(BatchStep(c) /\ Record)
    /\ \A o \in Orders : WF_everything(Age(o) /\ UNCHANGED <<ids, answers, severed>> /\ Record)
    /\ \A list \in Lists : SF_everything((\E c \in Clicks : Submit(c, list)) /\ Record)

RetryingBatchSpec == BatchSpec /\ BatchFairness

-----------------------------------------------------------------------------
BatchTypeOK ==
    /\ TypeOK
    /\ ids \in [Clicks -> Lists \cup {<<>>}]
    /\ answers \in [Clicks -> Seq(Entries)]
    /\ severed \subseteq Batches
    /\ recorded \in [Orders -> SUBSET Attempts]
    /\ \A c \in Clicks :
          /\ Len(answers[c]) <= Len(ids[c])
          /\ c \in severed => Serving(c)
          /\ \A i \in DOMAIN answers[c] : answers[c][i].order = ids[c][i]

\* A SYNCED in the list of a batch is still what the database holds when the batch
\* answers, long after it was recorded: later orders of the same batch, the same
\* order named again and other requests leave it alone.
BatchSyncedStands ==
    \A c \in Clicks : \A i \in DOMAIN answers[c] :
        LET e == answers[c][i] IN
        Told(e.answer) /\ e.att.status = "SYNCED" /\ e.order \notin overrun
        => e.att = Stored(e.order)

\* An order that a batch names twice is not pushed again after a SYNCED: the second
\* mention replays it, or fails before it reaches the ERP.
SyncedOnceInBatch ==
    \A c \in Clicks : \A i, j \in DOMAIN answers[c] :
        LET e == answers[c][i]  f == answers[c][j] IN
        i < j /\ e.order = f.order /\ Told(e.answer) /\ e.att.status = "SYNCED"
        /\ e.order \notin overrun
        => f.answer # "completed"

\* What an answer, or an entry in the list of a batch, says of an order's result.
Recorded(o, answer, told) ==
    LET past == recorded[o]
        seen == past \cup {Blank} IN
    /\ answer = "completed" => told \in past
    /\ answer \in {"replayed", "status"} =>
          /\ \E r \in seen : r.note = told.note
          /\ \E r \in seen : r.lines = told.lines
          /\ \/ told.status = "PENDING"
             \/ \E r \in past : r.status = told.status /\ r.note = told.note

\* A result that is told was recorded, overrun or not: status and codes are those of one
\* recorded result, the lines those of a recorded result (a reader may see the row of one
\* and the lines of the next), and a status read of a PENDING order shows the last codes
\* or none, never those of the dispatch under way (finish, replay, GetSyncStatus "returns
\* the last known state").  The same holds of each entry in a batch's list, for as long
\* as the client holds it; an entry made from an error tells no result.
ToldWasRecorded ==
    \A c \in Clicks :
        /\ Recorded(order[c], reply[c], att[c])
        /\ \A i \in DOMAIN answers[c] :
              LET e == answers[c][i] IN
              Told(e.answer) => Recorded(e.order, e.answer, e.att)

\* A batch that is not lost with its process answers, with a result per order.
BatchAnswers == \A c \in Batches : Serving(c) ~> ~Serving(c)

\* An order that the preflight refuses does not hold back the orders behind it: a claimed
\* order that can be sent gets a result when nothing but batches retries it.
NoOrderHeldBack ==
    \A o \in Orders \ Expiring : row[o].status = "PENDING" ~> row[o].status \in Terminal
=============================================================================
