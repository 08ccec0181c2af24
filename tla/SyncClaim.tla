----------------------------- MODULE SyncClaim -----------------------------
(***************************************************************************)
(* The claim protocol of the sync service: who may push an order to its    *)
(* tenant's ERP, decided by one row of sync_attempts per order, written    *)
(* with single SQL statements by requests that run concurrently.           *)
(*                                                                         *)
(* A request ("click") is the handler SyncOrder or GetSyncStatus running   *)
(* one order; its steps are the SQL statements the repository issues, so   *)
(* that other requests, disconnects, database errors and process crashes   *)
(* may fall between any two of them.  BatchSyncOrders is the same request  *)
(* run on its orders one after the other, which is one actor clicking      *)
(* again.  What the ERP and the tenant mapper make of a dispatch is        *)
(* abstracted to the choice of one of Outcomes.                            *)
(***************************************************************************)
EXTENDS Naturals, FiniteSets

CONSTANTS
    Orders,        \* orders: each has one idempotency key, hence one row
    Clicks,        \* request slots; a slot is reused once it is answered
    Expiring,      \* orders that the preflight starts to refuse one day
    Notes,         \* error and message codes of an attempt
    NoNote,        \* the codes of a row just inserted: NULL
    LineDetails,   \* contents of sync_line_results for one attempt
    NoLines,       \* no line rows
    Unstorable,    \* line rows that break UNIQUE (sync_attempt_id, sku)
    Outcomes,      \* what a dispatch may be interpreted as
    MaxFaults      \* bound: disconnects, database errors, crashes of a behaviour

Terminal  == {"SYNCED", "PARTIAL_SUCCESS", "FAILED"}
RowStatus == {"NONE", "PENDING"} \cup Terminal

ASSUME ClaimAssumption ==
    /\ Expiring \subseteq Orders
    /\ NoNote \in Notes
    /\ NoLines \in LineDetails
    /\ Unstorable \subseteq LineDetails \ {NoLines}
    /\ Outcomes \subseteq [status : Terminal, note : Notes, lines : LineDetails]
    /\ MaxFaults \in Nat

VARIABLES
    row,        \* sync_attempts: status, codes, and whether updated_at is 2 min old
    lines,      \* sync_line_results of the order's attempt
    pc,         \* the next statement of each click
    order,      \* the order each click works on
    role,       \* what the click is to the attempt
    att,        \* the SyncAttempt the click holds, at the end the one it answers
    reply,      \* how the click's last request was answered
    gone,       \* clicks whose context is cancelled
    unsendable, \* orders that PreValidate refuses
    faults,     \* faults so far
    overrun,    \* ghost: orders whose live claim was taken over for its age
    abandoned   \* ghost: orders whose last claim ended without a result

vars == <<row, lines, pc, order, role, att, reply, gone, unsendable, faults,
          overrun, abandoned>>

Steps   == {"idle", "loading", "inserting", "reclaiming", "readRow", "readLines",
            "dispatching", "completing"}
Roles   == {"none", "owner", "loser", "reader"}
Answers == {"none", "refused", "failed", "lost", "not_found", "in_progress",
            "completed", "replayed", "status"}

Attempts == [status : RowStatus, note : Notes, lines : LineDetails]
Blank    == [status |-> "NONE", note |-> NoNote, lines |-> NoLines]
Stored(o) == [status |-> row[o].status, note |-> row[o].note, lines |-> lines[o]]

Owns(c, o) == role[c] = "owner" /\ order[c] = o
Owned(o)   == \E c \in Clicks : Owns(c, o)
Running(c, step) == pc[c] = step /\ c \notin gone

(***************************************************************************)
(* Helpers.                                                                *)
(***************************************************************************)
\* Mutated forms of Reclaimable: the age of a claim is not asked; SYNCED may be
\* reclaimed too; nothing but an aged claim is.
ReclaimableAtAnyAge(o) == row[o].status \in {"PENDING", "FAILED", "PARTIAL_SUCCESS"}
ReclaimableIfSynced(o) ==
    row[o].status \in Terminal \/ (row[o].status = "PENDING" /\ row[o].stale)
ReclaimableIfAged(o) == row[o].status = "PENDING" /\ row[o].stale

\* The predicate of the reclaiming UPDATE.
Reclaimable(o) ==
    \/ row[o].status = "PENDING" /\ row[o].stale
    \/ row[o].status \in {"FAILED", "PARTIAL_SUCCESS"}

\* The handler of click c returns.
Answer(c, answer) ==
    /\ pc'    = [pc EXCEPT ![c] = "idle"]
    /\ role'  = [role EXCEPT ![c] = "none"]
    /\ reply' = [reply EXCEPT ![c] = answer]
    /\ gone'  = gone \ {c}

\* The requests in D end without writing a result: the orders they own are
\* left as they are.
Drop(D) == abandoned' = abandoned \cup {order[c] : c \in {d \in D : role[d] = "owner"}}

\* Mutated form of Win: the caller is told claimed = false.
WinUntold(c) ==
    /\ role'      = [role EXCEPT ![c] = "loser"]
    /\ abandoned' = abandoned \ {order[c]}

\* A claim is won by click c.
Win(c) ==
    /\ role'      = [role EXCEPT ![c] = "owner"]
    /\ abandoned' = abandoned \ {order[c]}

SpendFault == faults < MaxFaults /\ faults' = faults + 1

-----------------------------------------------------------------------------
Init ==
    /\ row   = [o \in Orders |-> [status |-> "NONE", note |-> NoNote, stale |-> FALSE]]
    /\ lines = [o \in Orders |-> NoLines]
    /\ pc    = [c \in Clicks |-> "idle"]
    /\ order \in [Clicks -> Orders]
    /\ role  = [c \in Clicks |-> "none"]
    /\ att   = [c \in Clicks |-> Blank]
    /\ reply = [c \in Clicks |-> "none"]
    /\ gone  = {}
    /\ unsendable = {}
    /\ faults = 0
    /\ overrun = {}
    /\ abandoned = {}

(***************************************************************************)
(* A request arrives.                                                      *)
(***************************************************************************)
Arrive(c, o, step, as) ==
    /\ pc[c] = "idle"
    /\ pc'    = [pc EXCEPT ![c] = step]
    /\ order' = [order EXCEPT ![c] = o]
    /\ role'  = [role EXCEPT ![c] = as]
    /\ att'   = [att EXCEPT ![c] = Blank]
    /\ reply' = [reply EXCEPT ![c] = "none"]
    /\ UNCHANGED <<row, lines, gone, unsendable, faults, overrun, abandoned>>

Click(c, o)       == Arrive(c, o, "loading", "none")
CheckStatus(c, o) == Arrive(c, o, "readRow", "reader")

(***************************************************************************)
(* Load the order, resolve its mapper, preflight.                          *)
(***************************************************************************)
Refuse(c) ==
    /\ Running(c, "loading")
    /\ order[c] \in unsendable
    /\ Answer(c, "refused")
    /\ UNCHANGED <<row, lines, order, att, unsendable, faults, overrun, abandoned>>

Admit(c) ==
    /\ Running(c, "loading")
    /\ order[c] \notin unsendable
    /\ pc' = [pc EXCEPT ![c] = "inserting"]
    /\ UNCHANGED <<row, lines, order, role, att, reply, gone, unsendable, faults,
                   overrun, abandoned>>

(***************************************************************************)
(* ClaimAttempt: INSERT ... ON CONFLICT DO NOTHING, then the reclaiming    *)
(* UPDATE, then the row as it is now.                                      *)
(***************************************************************************)
InsertClaim(c) ==
    /\ Running(c, "inserting")
    /\ row[order[c]].status = "NONE"
    /\ row' = [row EXCEPT ![order[c]] =
                  [status |-> "PENDING", note |-> NoNote, stale |-> FALSE]]
    /\ pc' = [pc EXCEPT ![c] = "readRow"]
    /\ Win(c)
    /\ UNCHANGED <<lines, order, att, reply, gone, unsendable, faults, overrun>>

InsertConflict(c) ==
    /\ Running(c, "inserting")
    /\ row[order[c]].status # "NONE"
    /\ pc' = [pc EXCEPT ![c] = "reclaiming"]
    /\ UNCHANGED <<row, lines, order, role, att, reply, gone, unsendable, faults,
                   overrun, abandoned>>

\* The codes and the line rows of the previous attempt stay in place.
Reclaim(c) ==
    LET o == order[c] IN
    /\ Running(c, "reclaiming")
    /\ Reclaimable(o)
    /\ row' = [row EXCEPT ![o] =
                  [status |-> "PENDING", note |-> row[o].note, stale |-> FALSE]]
    /\ pc' = [pc EXCEPT ![c] = "readRow"]
    /\ Win(c)
    /\ overrun' = IF row[o].status = "PENDING" /\ row[o].stale /\ Owned(o)
                    THEN overrun \cup {o} ELSE overrun
    /\ UNCHANGED <<lines, order, att, reply, gone, unsendable, faults>>

ReclaimLost(c) ==
    /\ Running(c, "reclaiming")
    /\ ~Reclaimable(order[c])
    /\ pc'   = [pc EXCEPT ![c] = "readRow"]
    /\ role' = [role EXCEPT ![c] = "loser"]
    /\ UNCHANGED <<row, lines, order, att, reply, gone, unsendable, faults, overrun,
                   abandoned>>

(***************************************************************************)
(* GetAttemptByKey and GetLatestAttemptByOrderID: the row, then, in a      *)
(* statement of its own, the lines.                                        *)
(***************************************************************************)
ReadRow(c) ==
    LET r == row[order[c]] IN
    /\ Running(c, "readRow")
    /\ r.status # "NONE"
    /\ att' = [att EXCEPT ![c] = [status |-> r.status, note |-> r.note, lines |-> NoLines]]
    /\ pc'  = [pc EXCEPT ![c] = "readLines"]
    /\ UNCHANGED <<row, lines, order, role, reply, gone, unsendable, faults, overrun,
                   abandoned>>

NoRow(c) ==
    /\ Running(c, "readRow")
    /\ row[order[c]].status = "NONE"
    /\ Answer(c, "not_found")
    /\ UNCHANGED <<row, lines, order, att, unsendable, faults, overrun, abandoned>>

\* The attempt read by the first SELECT, with the lines of the second.
WithLines(c) ==
    [status |-> att[c].status, note |-> att[c].note, lines |-> lines[order[c]]]

\* Mutated form of ReadLines: a loser replays whatever it finds, PENDING included.
ReadLinesUnchecked(c) ==
    /\ Running(c, "readLines")
    /\ att' = [att EXCEPT ![c] = WithLines(c)]
    /\ \/ /\ role[c] = "owner"
          /\ pc' = [pc EXCEPT ![c] = "dispatching"]
          /\ UNCHANGED <<role, reply, gone>>
       \/ role[c] = "loser" /\ Answer(c, "replayed")
       \/ role[c] = "reader" /\ Answer(c, "status")
    /\ UNCHANGED <<row, lines, order, unsendable, faults, overrun, abandoned>>

\* The owner goes on to the ERP; a loser replays a terminal result or answers
\* 409; a status request answers what it read.
ReadLines(c) ==
    /\ Running(c, "readLines")
    /\ att' = [att EXCEPT ![c] = WithLines(c)]
    /\ \/ /\ role[c] = "owner"
          /\ pc' = [pc EXCEPT ![c] = "dispatching"]
          /\ UNCHANGED <<role, reply, gone>>
       \/ role[c] = "loser" /\ att[c].status \in Terminal /\ Answer(c, "replayed")
       \/ role[c] = "loser" /\ att[c].status \notin Terminal /\ Answer(c, "in_progress")
       \/ role[c] = "reader" /\ Answer(c, "status")
    /\ UNCHANGED <<row, lines, order, unsendable, faults, overrun, abandoned>>

(***************************************************************************)
(* Build, dispatch and interpret, then CompleteAttempt in one transaction: *)
(* UPDATE by id, without asking who owns the row now.                      *)
(***************************************************************************)
Dispatch(c, outcome) ==
    /\ Running(c, "dispatching")
    /\ att' = [att EXCEPT ![c] = outcome]
    /\ pc'  = [pc EXCEPT ![c] = "completing"]
    /\ UNCHANGED <<row, lines, order, role, reply, gone, unsendable, faults, overrun,
                   abandoned>>

\* Mutated form of Write: the line rows of the previous attempt are kept.
WriteRowOnly(c) ==
    /\ row'   = [row EXCEPT ![order[c]] =
                    [status |-> att[c].status, note |-> att[c].note, stale |-> FALSE]]
    /\ lines' = lines

\* Mutated form of Write: there is no DELETE, and line rows that are there already win.
WriteLinesOnce(c) ==
    /\ row'   = [row EXCEPT ![order[c]] =
                    [status |-> att[c].status, note |-> att[c].note, stale |-> FALSE]]
    /\ lines' = [lines EXCEPT ![order[c]] = IF @ = NoLines THEN att[c].lines ELSE @]

Write(c) ==
    /\ row'   = [row EXCEPT ![order[c]] =
                    [status |-> att[c].status, note |-> att[c].note, stale |-> FALSE]]
    /\ lines' = [lines EXCEPT ![order[c]] = att[c].lines]

Complete(c) ==
    /\ Running(c, "completing")
    /\ att[c].lines \notin Unstorable
    /\ Write(c)
    /\ Answer(c, "completed")
    /\ UNCHANGED <<order, att, unsendable, faults, overrun, abandoned>>

\* The transaction commits and the error of a broken connection is returned.
CompleteUnheard(c) ==
    /\ Running(c, "completing")
    /\ att[c].lines \notin Unstorable
    /\ SpendFault
    /\ Write(c)
    /\ Answer(c, "failed")
    /\ UNCHANGED <<order, att, unsendable, overrun, abandoned>>

\* The INSERT of a line breaks the constraint and the transaction rolls back.
CompleteRolledBack(c) ==
    /\ Running(c, "completing")
    /\ att[c].lines \in Unstorable
    /\ Answer(c, "failed")
    /\ Drop({c})
    /\ UNCHANGED <<row, lines, order, att, unsendable, faults, overrun>>

(***************************************************************************)
(* Faults: a statement fails, a client hangs up, a process dies.           *)
(***************************************************************************)
\* Any statement may fail; a claim just won is then lost track of.
DatabaseError(c) ==
    /\ \E step \in Steps \ {"idle", "dispatching"} : Running(c, step)
    /\ SpendFault
    /\ Answer(c, "failed")
    /\ Drop({c})
    /\ UNCHANGED <<row, lines, order, att, unsendable, overrun>>

Disconnect(c) ==
    /\ pc[c] # "idle"
    /\ c \notin gone
    /\ SpendFault
    /\ gone' = gone \cup {c}
    /\ UNCHANGED <<row, lines, pc, order, role, att, reply, unsendable, overrun,
                   abandoned>>

\* With its context cancelled every later statement of the request fails, the
\* one that would record the result included.
Abort(c) ==
    /\ pc[c] # "idle"
    /\ c \in gone
    /\ Answer(c, "failed")
    /\ Drop({c})
    /\ UNCHANGED <<row, lines, order, att, unsendable, faults, overrun>>

\* The process serving the requests D dies with them.
Crash(D) ==
    /\ D # {}
    /\ \A c \in D : pc[c] # "idle"
    /\ SpendFault
    /\ pc'    = [c \in Clicks |-> IF c \in D THEN "idle" ELSE pc[c]]
    /\ role'  = [c \in Clicks |-> IF c \in D THEN "none" ELSE role[c]]
    /\ reply' = [c \in Clicks |-> IF c \in D THEN "lost" ELSE reply[c]]
    /\ gone'  = gone \ D
    /\ Drop(D)
    /\ UNCHANGED <<row, lines, order, att, unsendable, overrun>>

(***************************************************************************)
(* Time: a claim turns two minutes old, an order too old to be sent.       *)
(***************************************************************************)
Age(o) ==
    /\ row[o].status = "PENDING"
    /\ ~row[o].stale
    /\ row' = [row EXCEPT ![o] =
                  [status |-> "PENDING", note |-> row[o].note, stale |-> TRUE]]
    /\ UNCHANGED <<lines, pc, order, role, att, reply, gone, unsendable, faults,
                   overrun, abandoned>>

Expire(o) ==
    /\ o \in Expiring \ unsendable
    /\ unsendable' = unsendable \cup {o}
    /\ UNCHANGED <<row, lines, pc, order, role, att, reply, gone, faults, overrun,
                   abandoned>>

\* What the handler does but for the dispatch itself.
Handle(c) ==
    \/ Refuse(c) \/ Admit(c)
    \/ InsertClaim(c) \/ InsertConflict(c) \/ Reclaim(c) \/ ReclaimLost(c)
    \/ ReadRow(c) \/ NoRow(c) \/ ReadLines(c)
    \/ Complete(c) \/ CompleteRolledBack(c) \/ Abort(c)

Serve(c) == Handle(c) \/ \E outcome \in Outcomes : Dispatch(c, outcome)

Environment ==
    \/ \E c \in Clicks :
          \/ \E o \in Orders : Click(c, o) \/ CheckStatus(c, o)
          \/ CompleteUnheard(c) \/ DatabaseError(c) \/ Disconnect(c)
    \/ \E D \in SUBSET Clicks : Crash(D)
    \/ \E o \in Orders : Age(o) \/ Expire(o)

Next == (\E c \in Clicks : Serve(c)) \/ Environment

Spec == Init /\ [][Next]_vars

(***************************************************************************)
(* A request that runs goes on running, time passes, and somebody keeps    *)
(* clicking each order (an operator, or a caller of the batch endpoint):   *)
(* the protocol has no sweeper of its own.                                 *)
(***************************************************************************)
RetryingSpec ==
    /\ Spec
    /\ \A c \in Clicks : WF_vars(Serve(c))
    /\ \A o \in Orders : WF_vars(Age(o)) /\ SF_vars(\E c \in Clicks : Click(c, o))

-----------------------------------------------------------------------------
\* An answer that carries a result carries a final one (finish, replay).
TypeOK ==
    /\ row \in [Orders -> [status : RowStatus, note : Notes, stale : BOOLEAN]]
    /\ lines \in [Orders -> LineDetails]
    /\ pc \in [Clicks -> Steps]
    /\ order \in [Clicks -> Orders]
    /\ role \in [Clicks -> Roles]
    /\ att \in [Clicks -> Attempts]
    /\ reply \in [Clicks -> Answers]
    /\ gone \subseteq Clicks
    /\ unsendable \subseteq Orders
    /\ faults \in 0..MaxFaults
    /\ overrun \subseteq Orders
    /\ abandoned \subseteq Orders
    /\ \A c \in Clicks : reply[c] \in {"completed", "replayed"} => att[c].status \in Terminal

(***************************************************************************)
(* Safety.  The first three hold as long as no claim is taken over from a  *)
(* request that still runs: the two-minute window is the only lease.       *)
(***************************************************************************)
\* One order is pushed by at most one request at a time, whatever the
\* interleaving of INSERTs, reclaiming UPDATEs, crashes and disconnects
\* (ClaimAttempt; "two requests racing to reclaim the same row cannot both win").
OneDispatcher ==
    \A c, d \in Clicks :
        /\ role[c] = "owner" /\ role[d] = "owner" /\ order[c] = order[d]
        /\ order[c] \notin overrun
        => c = d

\* No request is on its way to the ERP for an order whose result is recorded:
\* the row leaves PENDING only when the one request that claimed it is done, so
\* that a reclaim of FAILED or PARTIAL_SUCCESS never doubles a live dispatch.
SettledIsQuiet ==
    \A o \in Orders \ overrun : row[o].status \in Terminal => ~Owned(o)

\* Whoever has been told SYNCED, by its own dispatch, by a replay or by the
\* status endpoint, was told exactly what is stored now, codes and lines
\* included: the row and the lines are read in two statements and other
\* requests click on, yet the answer is neither torn nor revoked.
SyncedAnswerStands ==
    \A c \in Clicks :
        /\ reply[c] \in {"completed", "replayed", "status"}
        /\ att[c].status = "SYNCED"
        /\ order[c] \notin overrun
        => att[c] = Stored(order[c])

\* A PENDING row belongs to a request that still runs, unless the last one that
\* claimed it was cut off by a fault: no sequence of replies, conflicts and
\* reclaims leaves a claim nobody holds.
PendingHasOwner ==
    \A o \in Orders : row[o].status = "PENDING" => Owned(o) \/ o \in abandoned

\* A SYNCED order is never claimed, rewritten or lost again: the idempotency
\* guarantee, for orders whose claims were never overrun.
SyncedSticks ==
    [][\A o \in Orders : row[o].status = "SYNCED" /\ o \notin overrun
            => row'[o] = row[o] /\ lines'[o] = lines[o]]_vars

(***************************************************************************)
(* What DECISIONS.md says, without that proviso.                           *)
(***************************************************************************)
\* "SYNCED: never [reclaimable] ... no amount of clicking sends it again":
\* a SYNCED row keeps its status.
SyncedIsFinal ==
    [][\A o \in Orders : row[o].status = "SYNCED" => row'[o].status = "SYNCED"]_vars

(***************************************************************************)
(* Liveness.                                                               *)
(***************************************************************************)
\* "A process that died mid-dispatch would otherwise block the order forever":
\* whatever was cut off, an order that was claimed gets a result as long as
\* somebody clicks it again.
NoOrderBlockedForever ==
    \A o \in Orders : row[o].status = "PENDING" ~> row[o].status \in Terminal

(***************************************************************************)
(* What the protocol implements: the promise of SyncPromise, which lapses  *)
(* for an order whose running claim is taken over, and for no other.       *)
(***************************************************************************)
Phase(o) ==
    IF o \in overrun THEN "overtaken"
    ELSE IF row[o].status = "NONE" THEN "fresh"
    ELSE IF row[o].status \in Terminal THEN "settled"
    ELSE IF Owned(o) THEN "running" ELSE "cut"

Result(o) ==
    IF o \notin overrun /\ row[o].status \in Terminal THEN Stored(o) ELSE Blank

phases  == [o \in Orders |-> Phase(o)]
results == [o \in Orders |-> Result(o)]

Promise == INSTANCE SyncPromise WITH Nothing <- Blank, phase <- phases, result <- results

\* Rows, SELECTs and UPDATEs by many requests add up to exclusive runs with one
\* outcome each, and to a final SYNCED (SyncOrder on top of ClaimAttempt and
\* CompleteAttempt).  One order that is taken over voids nothing for the others.
ImplementsPromise == Promise!Spec
=============================================================================
