---------------------------- MODULE SyncPromise ----------------------------
(***************************************************************************)
(* What the sync service promises about an order, without rows, requests   *)
(* or SQL: runs of the order are exclusive, each ends with one outcome or  *)
(* is cut off, a new run may start after anything but SYNCED, and SYNCED   *)
(* is final.  The promise lapses for an order whose run is overtaken by    *)
(* another, and for no other order.                                        *)
(***************************************************************************)
CONSTANTS
    Orders,
    Outcomes,   \* records with a field status
    Nothing     \* no outcome yet, or it was withdrawn by a new run

VARIABLES
    phase,      \* "fresh", "running", "cut", "settled" or "overtaken"
    result      \* the outcome of a settled order

vars == <<phase, result>>

TypeOK ==
    /\ phase \in [Orders -> {"fresh", "running", "cut", "settled", "overtaken"}]
    /\ result \in [Orders -> Outcomes \cup {Nothing}]

Init ==
    /\ phase  = [o \in Orders |-> "fresh"]
    /\ result = [o \in Orders |-> Nothing]

Begin(o) ==
    /\ phase[o] \notin {"running", "overtaken"}
    /\ phase[o] = "settled" => result[o].status # "SYNCED"
    /\ phase'  = [phase EXCEPT ![o] = "running"]
    /\ result' = [result EXCEPT ![o] = Nothing]

Settle(o, outcome) ==
    /\ phase[o] = "running"
    /\ phase'  = [phase EXCEPT ![o] = "settled"]
    /\ result' = [result EXCEPT ![o] = outcome]

\* The runs of the orders O end at once without an outcome.
CutOff(O) ==
    /\ \A o \in O : phase[o] = "running"
    /\ phase' = [o \in Orders |-> IF o \in O THEN "cut" ELSE phase[o]]
    /\ UNCHANGED result

\* The run of order o outlives its lease and another one begins beside it.
Overtake(o) ==
    /\ phase[o] = "running"
    /\ phase' = [phase EXCEPT ![o] = "overtaken"]
    /\ UNCHANGED result

Next ==
    \/ \E o \in Orders : Begin(o) \/ Overtake(o) \/ \E outcome \in Outcomes : Settle(o, outcome)
    \/ \E O \in SUBSET Orders : CutOff(O)

Spec == Init /\ [][Next]_vars
=============================================================================
