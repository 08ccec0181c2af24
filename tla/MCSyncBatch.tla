---------------------------- MODULE MCSyncBatch ----------------------------
(***************************************************************************)
(* A small instance of SyncBatch for TLC: one batch slot and one slot for  *)
(* single requests, two orders of which the first may expire, and a batch  *)
(* that names the first one twice and the other one last.                  *)
(***************************************************************************)
EXTENDS SyncBatch

CONSTANTS o1, o2, c1, c2, none, some, all, null, ok, partial

MCOutcomes == { [status |-> "SYNCED",          note |-> ok,      lines |-> all],
                [status |-> "PARTIAL_SUCCESS", note |-> partial, lines |-> some] }

MCOrders  == {o1, o2}
MCClicks  == {c1, c2}
MCBatches == {c2}
MCLists   == {<<o1, o1, o2>>}
FirstOnly == {o1}
MCNotes   == {null, ok, partial}
MCLines   == {none, some, all}
MCNever   == {}

(***************************************************************************)
(* Results of the first order are partial or complete, those of the other  *)
(* complete.  A behaviour has partial results or a fault, not both: they   *)
(* meet in claim_race.                                                     *)
(***************************************************************************)
Partial(a) == a.status = "PARTIAL_SUCCESS"

PartialSeen ==
    \/ \E c \in Clicks : Partial(att[c])
    \/ \E o \in Orders : \E r \in recorded[o] : Partial(r)

MCBatchNext ==
    /\ BatchNext
    /\ PartialSeen' => faults' = 0
    /\ \A c \in Clicks : Partial(att'[c]) => order'[c] = o1

MCBatchSpec == BatchInit /\ [][MCBatchNext]_everything /\ BatchFairness
=============================================================================
