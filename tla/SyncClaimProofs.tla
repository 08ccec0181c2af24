-------------------------- MODULE SyncClaimProofs --------------------------
(***************************************************************************)
(* Proofs about the claim protocol, for any sets of orders and requests    *)
(* and any number of faults.                                               *)
(*                                                                         *)
(* The inductive invariant adds to the safety invariants what each         *)
(* statement of a request knows: its role (RoleOK), that what it is about  *)
(* to write is an outcome (OutcomeHeld), that a row which is not PENDING   *)
(* has no owner (QuietUnlessPending), and that the SYNCED row read by the  *)
(* first SELECT is still there at the second (SyncedRowHeld).              *)
(***************************************************************************)
EXTENDS SyncClaim, TLAPS

RoleOK ==
    \A c \in Clicks :
        /\ pc[c] = "idle" => c \notin gone
        /\ pc[c] # "idle" => reply[c] = "none"
        /\ pc[c] \in {"idle", "loading", "inserting", "reclaiming"} => role[c] = "none"
        /\ pc[c] \in {"readRow", "readLines"} => role[c] \in {"owner", "loser", "reader"}
        /\ pc[c] \in {"dispatching", "completing"} => role[c] = "owner"

OutcomeHeld == \A c \in Clicks : pc[c] = "completing" => att[c] \in Outcomes

QuietUnlessPending ==
    \A c \in Clicks :
        role[c] = "owner" /\ order[c] \notin overrun => row[order[c]].status = "PENDING"

SyncedRowHeld ==
    \A c \in Clicks :
        pc[c] = "readLines" /\ att[c].status = "SYNCED" /\ order[c] \notin overrun
        => row[order[c]].status = "SYNCED" /\ row[order[c]].note = att[c].note

\* What one step leaves alone: a SYNCED row that was never overrun, and its lines.
SyncedKept ==
    \A o \in Orders : row[o].status = "SYNCED" /\ o \notin overrun
        => row'[o] = row[o] /\ lines'[o] = lines[o]

IInv ==
    /\ TypeOK
    /\ RoleOK
    /\ OutcomeHeld
    /\ OneDispatcher
    /\ QuietUnlessPending
    /\ PendingHasOwner
    /\ SyncedRowHeld
    /\ SyncedAnswerStands

\* Every step keeps the types; what CompleteAttempt writes is an outcome.
LEMMA TypeStep ==
  ASSUME TypeOK, RoleOK, OutcomeHeld, [Next]_vars
  PROVE  TypeOK'
<1> USE ClaimAssumption DEF TypeOK, Terminal, RowStatus, Steps, Roles, Answers, Attempts, Blank, OutcomeHeld
<1>1. ASSUME NEW c \in Clicks, NEW o \in Orders, Click(c, o) PROVE TypeOK'
  BY <1>1 DEF Click, Arrive
<1>2. ASSUME NEW c \in Clicks, NEW o \in Orders, CheckStatus(c, o) PROVE TypeOK'
  BY <1>2 DEF CheckStatus, Arrive
<1>3. ASSUME NEW c \in Clicks, Refuse(c) PROVE TypeOK'
  BY <1>3 DEF Refuse, Answer, Running
<1>4. ASSUME NEW c \in Clicks, Admit(c) PROVE TypeOK'
  BY <1>4 DEF Admit, Running
<1>5. ASSUME NEW c \in Clicks, InsertClaim(c) PROVE TypeOK'
  BY <1>5 DEF InsertClaim, Win, Running
<1>6. ASSUME NEW c \in Clicks, InsertConflict(c) PROVE TypeOK'
  BY <1>6 DEF InsertConflict, Running
<1>7. ASSUME NEW c \in Clicks, Reclaim(c) PROVE TypeOK'
  BY <1>7 DEF Reclaim, Reclaimable, Win, Running, Owned, Owns
<1>8. ASSUME NEW c \in Clicks, ReclaimLost(c) PROVE TypeOK'
  BY <1>8 DEF ReclaimLost, Running
<1>9. ASSUME NEW c \in Clicks, ReadRow(c) PROVE TypeOK'
  BY <1>9 DEF ReadRow, Running, RoleOK
<1>10. ASSUME NEW c \in Clicks, NoRow(c) PROVE TypeOK'
  BY <1>10 DEF NoRow, Answer, Running
<1>11. ASSUME NEW c \in Clicks, ReadLines(c) PROVE TypeOK'
  BY <1>11 DEF ReadLines, WithLines, Answer, Running
<1>12. ASSUME NEW c \in Clicks, NEW outcome \in Outcomes, Dispatch(c, outcome) PROVE TypeOK'
  BY <1>12 DEF Dispatch, Running
<1>13. ASSUME NEW c \in Clicks, Complete(c) PROVE TypeOK'
  BY <1>13 DEF Complete, Write, Answer, Running
<1>14. ASSUME NEW c \in Clicks, CompleteRolledBack(c) PROVE TypeOK'
  BY <1>14 DEF CompleteRolledBack, Answer, Drop, Running
<1>15. ASSUME NEW c \in Clicks, Abort(c) PROVE TypeOK'
  BY <1>15 DEF Abort, Answer, Drop
<1>16. ASSUME NEW c \in Clicks, CompleteUnheard(c) PROVE TypeOK'
  BY <1>16 DEF CompleteUnheard, Write, Answer, SpendFault, Running
<1>17. ASSUME NEW c \in Clicks, DatabaseError(c) PROVE TypeOK'
  BY <1>17 DEF DatabaseError, Answer, Drop, SpendFault, Running
<1>18. ASSUME NEW c \in Clicks, Disconnect(c) PROVE TypeOK'
  BY <1>18 DEF Disconnect, SpendFault
<1>19. ASSUME NEW D \in SUBSET Clicks, Crash(D) PROVE TypeOK'
  BY <1>19 DEF Crash, Drop, SpendFault
<1>20. ASSUME NEW o \in Orders, Age(o) PROVE TypeOK'
  BY <1>20 DEF Age
<1>21. ASSUME NEW o \in Orders, Expire(o) PROVE TypeOK'
  BY <1>21 DEF Expire
<1>22. CASE UNCHANGED vars
  BY <1>22 DEF vars
<1>23. QED
  BY <1>1, <1>2, <1>3, <1>4, <1>5, <1>6, <1>7, <1>8, <1>9, <1>10, <1>11, <1>12, <1>13, <1>14, <1>15, <1>16, <1>17, <1>18, <1>19, <1>20, <1>21, <1>22 DEF Next, Serve, Handle, Environment

\* Every step keeps the role a request has at each of its statements.
LEMMA RoleStep ==
  ASSUME TypeOK, RoleOK, [Next]_vars
  PROVE  RoleOK'
<1> USE ClaimAssumption DEF TypeOK, Steps, RoleOK
<1>1. ASSUME NEW c \in Clicks, NEW o \in Orders, Click(c, o) PROVE RoleOK'
  BY <1>1 DEF Click, Arrive
<1>2. ASSUME NEW c \in Clicks, NEW o \in Orders, CheckStatus(c, o) PROVE RoleOK'
  BY <1>2 DEF CheckStatus, Arrive
<1>3. ASSUME NEW c \in Clicks, Refuse(c) PROVE RoleOK'
  BY <1>3 DEF Refuse, Answer, Running
<1>4. ASSUME NEW c \in Clicks, Admit(c) PROVE RoleOK'
  BY <1>4 DEF Admit, Running
<1>5. ASSUME NEW c \in Clicks, InsertClaim(c) PROVE RoleOK'
  BY <1>5 DEF InsertClaim, Win, Running
<1>6. ASSUME NEW c \in Clicks, InsertConflict(c) PROVE RoleOK'
  BY <1>6 DEF InsertConflict, Running
<1>7. ASSUME NEW c \in Clicks, Reclaim(c) PROVE RoleOK'
  BY <1>7 DEF Reclaim, Reclaimable, Win, Running, Owned, Owns
<1>8. ASSUME NEW c \in Clicks, ReclaimLost(c) PROVE RoleOK'
  BY <1>8 DEF ReclaimLost, Running
<1>9. ASSUME NEW c \in Clicks, ReadRow(c) PROVE RoleOK'
  BY <1>9 DEF ReadRow, Running
<1>10. ASSUME NEW c \in Clicks, NoRow(c) PROVE RoleOK'
  BY <1>10 DEF NoRow, Answer, Running
<1>11. ASSUME NEW c \in Clicks, ReadLines(c) PROVE RoleOK'
  BY <1>11 DEF ReadLines, WithLines, Answer, Running
<1>12. ASSUME NEW c \in Clicks, NEW outcome \in Outcomes, Dispatch(c, outcome) PROVE RoleOK'
  BY <1>12 DEF Dispatch, Running
<1>13. ASSUME NEW c \in Clicks, Complete(c) PROVE RoleOK'
  BY <1>13 DEF Complete, Write, Answer, Running
<1>14. ASSUME NEW c \in Clicks, CompleteRolledBack(c) PROVE RoleOK'
  BY <1>14 DEF CompleteRolledBack, Answer, Drop, Running
<1>15. ASSUME NEW c \in Clicks, Abort(c) PROVE RoleOK'
  BY <1>15 DEF Abort, Answer, Drop
<1>16. ASSUME NEW c \in Clicks, CompleteUnheard(c) PROVE RoleOK'
  BY <1>16 DEF CompleteUnheard, Write, Answer, SpendFault, Running
<1>17. ASSUME NEW c \in Clicks, DatabaseError(c) PROVE RoleOK'
  BY <1>17 DEF DatabaseError, Answer, Drop, SpendFault, Running
<1>18. ASSUME NEW c \in Clicks, Disconnect(c) PROVE RoleOK'
  BY <1>18 DEF Disconnect, SpendFault
<1>19. ASSUME NEW D \in SUBSET Clicks, Crash(D) PROVE RoleOK'
  BY <1>19 DEF Crash, Drop, SpendFault
<1>20. ASSUME NEW o \in Orders, Age(o) PROVE RoleOK'
  BY <1>20 DEF Age
<1>21. ASSUME NEW o \in Orders, Expire(o) PROVE RoleOK'
  BY <1>21 DEF Expire
<1>22. CASE UNCHANGED vars
  BY <1>22 DEF vars
<1>23. QED
  BY <1>1, <1>2, <1>3, <1>4, <1>5, <1>6, <1>7, <1>8, <1>9, <1>10, <1>11, <1>12, <1>13, <1>14, <1>15, <1>16, <1>17, <1>18, <1>19, <1>20, <1>21, <1>22 DEF Next, Serve, Handle, Environment

\* Only Dispatch hands a request what it will write.
LEMMA OutcomeStep ==
  ASSUME TypeOK, OutcomeHeld, [Next]_vars
  PROVE  OutcomeHeld'
<1> USE ClaimAssumption DEF TypeOK, Steps, OutcomeHeld
<1>1. ASSUME NEW c \in Clicks, NEW o \in Orders, Click(c, o) PROVE OutcomeHeld'
  BY <1>1 DEF Click, Arrive
<1>2. ASSUME NEW c \in Clicks, NEW o \in Orders, CheckStatus(c, o) PROVE OutcomeHeld'
  BY <1>2 DEF CheckStatus, Arrive
<1>3. ASSUME NEW c \in Clicks, Refuse(c) PROVE OutcomeHeld'
  BY <1>3 DEF Refuse, Answer, Running
<1>4. ASSUME NEW c \in Clicks, Admit(c) PROVE OutcomeHeld'
  BY <1>4 DEF Admit, Running
<1>5. ASSUME NEW c \in Clicks, InsertClaim(c) PROVE OutcomeHeld'
  BY <1>5 DEF InsertClaim, Win, Running
<1>6. ASSUME NEW c \in Clicks, InsertConflict(c) PROVE OutcomeHeld'
  BY <1>6 DEF InsertConflict, Running
<1>7. ASSUME NEW c \in Clicks, Reclaim(c) PROVE OutcomeHeld'
  BY <1>7 DEF Reclaim, Reclaimable, Win, Running, Owned, Owns
<1>8. ASSUME NEW c \in Clicks, ReclaimLost(c) PROVE OutcomeHeld'
  BY <1>8 DEF ReclaimLost, Running
<1>9. ASSUME NEW c \in Clicks, ReadRow(c) PROVE OutcomeHeld'
  BY <1>9 DEF ReadRow, Running
<1>10. ASSUME NEW c \in Clicks, NoRow(c) PROVE OutcomeHeld'
  BY <1>10 DEF NoRow, Answer, Running
<1>11. ASSUME NEW c \in Clicks, ReadLines(c) PROVE OutcomeHeld'
  BY <1>11 DEF ReadLines, WithLines, Answer, Running
<1>12. ASSUME NEW c \in Clicks, NEW outcome \in Outcomes, Dispatch(c, outcome) PROVE OutcomeHeld'
  BY <1>12 DEF Dispatch, Running
<1>13. ASSUME NEW c \in Clicks, Complete(c) PROVE OutcomeHeld'
  BY <1>13 DEF Complete, Write, Answer, Running
<1>14. ASSUME NEW c \in Clicks, CompleteRolledBack(c) PROVE OutcomeHeld'
  BY <1>14 DEF CompleteRolledBack, Answer, Drop, Running
<1>15. ASSUME NEW c \in Clicks, Abort(c) PROVE OutcomeHeld'
  BY <1>15 DEF Abort, Answer, Drop
<1>16. ASSUME NEW c \in Clicks, CompleteUnheard(c) PROVE OutcomeHeld'
  BY <1>16 DEF CompleteUnheard, Write, Answer, SpendFault, Running
<1>17. ASSUME NEW c \in Clicks, DatabaseError(c) PROVE OutcomeHeld'
  BY <1>17 DEF DatabaseError, Answer, Drop, SpendFault, Running
<1>18. ASSUME NEW c \in Clicks, Disconnect(c) PROVE OutcomeHeld'
  BY <1>18 DEF Disconnect, SpendFault
<1>19. ASSUME NEW D \in SUBSET Clicks, Crash(D) PROVE OutcomeHeld'
  BY <1>19 DEF Crash, Drop, SpendFault
<1>20. ASSUME NEW o \in Orders, Age(o) PROVE OutcomeHeld'
  BY <1>20 DEF Age
<1>21. ASSUME NEW o \in Orders, Expire(o) PROVE OutcomeHeld'
  BY <1>21 DEF Expire
<1>22. CASE UNCHANGED vars
  BY <1>22 DEF vars
<1>23. QED
  BY <1>1, <1>2, <1>3, <1>4, <1>5, <1>6, <1>7, <1>8, <1>9, <1>10, <1>11, <1>12, <1>13, <1>14, <1>15, <1>16, <1>17, <1>18, <1>19, <1>20, <1>21, <1>22 DEF Next, Serve, Handle, Environment

\* A row leaves PENDING only when its one owner writes it.
LEMMA QuietStep ==
  ASSUME TypeOK, RoleOK, OneDispatcher, QuietUnlessPending, [Next]_vars
  PROVE  QuietUnlessPending'
<1> USE ClaimAssumption DEF TypeOK, RoleOK, OneDispatcher, QuietUnlessPending
<1>1. ASSUME NEW c \in Clicks, NEW o \in Orders, Click(c, o) PROVE QuietUnlessPending'
  BY <1>1 DEF Click, Arrive
<1>2. ASSUME NEW c \in Clicks, NEW o \in Orders, CheckStatus(c, o) PROVE QuietUnlessPending'
  BY <1>2 DEF CheckStatus, Arrive
<1>3. ASSUME NEW c \in Clicks, Refuse(c) PROVE QuietUnlessPending'
  BY <1>3 DEF Refuse, Answer, Running
<1>4. ASSUME NEW c \in Clicks, Admit(c) PROVE QuietUnlessPending'
  BY <1>4 DEF Admit, Running
<1>5. ASSUME NEW c \in Clicks, InsertClaim(c) PROVE QuietUnlessPending'
  BY <1>5 DEF InsertClaim, Win, Running
<1>6. ASSUME NEW c \in Clicks, InsertConflict(c) PROVE QuietUnlessPending'
  BY <1>6 DEF InsertConflict, Running
<1>7. ASSUME NEW c \in Clicks, Reclaim(c) PROVE QuietUnlessPending'
  BY <1>7 DEF Reclaim, Reclaimable, Win, Running, Owned, Owns
<1>8. ASSUME NEW c \in Clicks, ReclaimLost(c) PROVE QuietUnlessPending'
  BY <1>8 DEF ReclaimLost, Running
<1>9. ASSUME NEW c \in Clicks, ReadRow(c) PROVE QuietUnlessPending'
  BY <1>9 DEF ReadRow, Running
<1>10. ASSUME NEW c \in Clicks, NoRow(c) PROVE QuietUnlessPending'
  BY <1>10 DEF NoRow, Answer, Running
<1>11. ASSUME NEW c \in Clicks, ReadLines(c) PROVE QuietUnlessPending'
  BY <1>11 DEF ReadLines, WithLines, Answer, Running
<1>12. ASSUME NEW c \in Clicks, NEW outcome \in Outcomes, Dispatch(c, outcome) PROVE QuietUnlessPending'
  BY <1>12 DEF Dispatch, Running
<1>13. ASSUME NEW c \in Clicks, Complete(c) PROVE QuietUnlessPending'
  BY <1>13 DEF Complete, Write, Answer, Running
<1>14. ASSUME NEW c \in Clicks, CompleteRolledBack(c) PROVE QuietUnlessPending'
  BY <1>14 DEF CompleteRolledBack, Answer, Drop, Running
<1>15. ASSUME NEW c \in Clicks, Abort(c) PROVE QuietUnlessPending'
  BY <1>15 DEF Abort, Answer, Drop
<1>16. ASSUME NEW c \in Clicks, CompleteUnheard(c) PROVE QuietUnlessPending'
  BY <1>16 DEF CompleteUnheard, Write, Answer, SpendFault, Running
<1>17. ASSUME NEW c \in Clicks, DatabaseError(c) PROVE QuietUnlessPending'
  BY <1>17 DEF DatabaseError, Answer, Drop, SpendFault, Running
<1>18. ASSUME NEW c \in Clicks, Disconnect(c) PROVE QuietUnlessPending'
  BY <1>18 DEF Disconnect, SpendFault
<1>19. ASSUME NEW D \in SUBSET Clicks, Crash(D) PROVE QuietUnlessPending'
  BY <1>19 DEF Crash, Drop, SpendFault
<1>20. ASSUME NEW o \in Orders, Age(o) PROVE QuietUnlessPending'
  BY <1>20 DEF Age
<1>21. ASSUME NEW o \in Orders, Expire(o) PROVE QuietUnlessPending'
  BY <1>21 DEF Expire
<1>22. CASE UNCHANGED vars
  BY <1>22 DEF vars
<1>23. QED
  BY <1>1, <1>2, <1>3, <1>4, <1>5, <1>6, <1>7, <1>8, <1>9, <1>10, <1>11, <1>12, <1>13, <1>14, <1>15, <1>16, <1>17, <1>18, <1>19, <1>20, <1>21, <1>22 DEF Next, Serve, Handle, Environment

\* A claim is won on a row without an owner, or its order is overrun.
LEMMA OneStep ==
  ASSUME TypeOK, RoleOK, OneDispatcher, QuietUnlessPending, [Next]_vars
  PROVE  OneDispatcher'
<1> USE ClaimAssumption DEF TypeOK, RoleOK, OneDispatcher, QuietUnlessPending
<1>1. ASSUME NEW c \in Clicks, NEW o \in Orders, Click(c, o) PROVE OneDispatcher'
  BY <1>1 DEF Click, Arrive
<1>2. ASSUME NEW c \in Clicks, NEW o \in Orders, CheckStatus(c, o) PROVE OneDispatcher'
  BY <1>2 DEF CheckStatus, Arrive
<1>3. ASSUME NEW c \in Clicks, Refuse(c) PROVE OneDispatcher'
  BY <1>3 DEF Refuse, Answer, Running
<1>4. ASSUME NEW c \in Clicks, Admit(c) PROVE OneDispatcher'
  BY <1>4 DEF Admit, Running
<1>5. ASSUME NEW c \in Clicks, InsertClaim(c) PROVE OneDispatcher'
  BY <1>5 DEF InsertClaim, Win, Running
<1>6. ASSUME NEW c \in Clicks, InsertConflict(c) PROVE OneDispatcher'
  BY <1>6 DEF InsertConflict, Running
<1>7. ASSUME NEW c \in Clicks, Reclaim(c) PROVE OneDispatcher'
  BY <1>7 DEF Reclaim, Reclaimable, Win, Running, Owned, Owns
<1>8. ASSUME NEW c \in Clicks, ReclaimLost(c) PROVE OneDispatcher'
  BY <1>8 DEF ReclaimLost, Running
<1>9. ASSUME NEW c \in Clicks, ReadRow(c) PROVE OneDispatcher'
  BY <1>9 DEF ReadRow, Running
<1>10. ASSUME NEW c \in Clicks, NoRow(c) PROVE OneDispatcher'
  BY <1>10 DEF NoRow, Answer, Running
<1>11. ASSUME NEW c \in Clicks, ReadLines(c) PROVE OneDispatcher'
  BY <1>11 DEF ReadLines, WithLines, Answer, Running
<1>12. ASSUME NEW c \in Clicks, NEW outcome \in Outcomes, Dispatch(c, outcome) PROVE OneDispatcher'
  BY <1>12 DEF Dispatch, Running
<1>13. ASSUME NEW c \in Clicks, Complete(c) PROVE OneDispatcher'
  BY <1>13 DEF Complete, Write, Answer, Running
<1>14. ASSUME NEW c \in Clicks, CompleteRolledBack(c) PROVE OneDispatcher'
  BY <1>14 DEF CompleteRolledBack, Answer, Drop, Running
<1>15. ASSUME NEW c \in Clicks, Abort(c) PROVE OneDispatcher'
  BY <1>15 DEF Abort, Answer, Drop
<1>16. ASSUME NEW c \in Clicks, CompleteUnheard(c) PROVE OneDispatcher'
  BY <1>16 DEF CompleteUnheard, Write, Answer, SpendFault, Running
<1>17. ASSUME NEW c \in Clicks, DatabaseError(c) PROVE OneDispatcher'
  BY <1>17 DEF DatabaseError, Answer, Drop, SpendFault, Running
<1>18. ASSUME NEW c \in Clicks, Disconnect(c) PROVE OneDispatcher'
  BY <1>18 DEF Disconnect, SpendFault
<1>19. ASSUME NEW D \in SUBSET Clicks, Crash(D) PROVE OneDispatcher'
  BY <1>19 DEF Crash, Drop, SpendFault
<1>20. ASSUME NEW o \in Orders, Age(o) PROVE OneDispatcher'
  BY <1>20 DEF Age
<1>21. ASSUME NEW o \in Orders, Expire(o) PROVE OneDispatcher'
  BY <1>21 DEF Expire
<1>22. CASE UNCHANGED vars
  BY <1>22 DEF vars
<1>23. QED
  BY <1>1, <1>2, <1>3, <1>4, <1>5, <1>6, <1>7, <1>8, <1>9, <1>10, <1>11, <1>12, <1>13, <1>14, <1>15, <1>16, <1>17, <1>18, <1>19, <1>20, <1>21, <1>22 DEF Next, Serve, Handle, Environment

\* A row becomes PENDING with an owner, and an owner that ends without writing is
\* marked abandoned.
LEMMA OwnerStep ==
  ASSUME TypeOK, RoleOK, OutcomeHeld, PendingHasOwner, [Next]_vars
  PROVE  PendingHasOwner'
<1> USE ClaimAssumption DEF TypeOK, RoleOK, OutcomeHeld, PendingHasOwner, Owned, Owns, Terminal
<1>1. ASSUME NEW c \in Clicks, NEW o \in Orders, Click(c, o) PROVE PendingHasOwner'
  BY <1>1 DEF Click, Arrive
<1>2. ASSUME NEW c \in Clicks, NEW o \in Orders, CheckStatus(c, o) PROVE PendingHasOwner'
  BY <1>2 DEF CheckStatus, Arrive
<1>3. ASSUME NEW c \in Clicks, Refuse(c) PROVE PendingHasOwner'
  BY <1>3 DEF Refuse, Answer, Running
<1>4. ASSUME NEW c \in Clicks, Admit(c) PROVE PendingHasOwner'
  BY <1>4 DEF Admit, Running
<1>5. ASSUME NEW c \in Clicks, InsertClaim(c) PROVE PendingHasOwner'
  BY <1>5 DEF InsertClaim, Win, Running
<1>6. ASSUME NEW c \in Clicks, InsertConflict(c) PROVE PendingHasOwner'
  BY <1>6 DEF InsertConflict, Running
<1>7. ASSUME NEW c \in Clicks, Reclaim(c) PROVE PendingHasOwner'
  BY <1>7 DEF Reclaim, Reclaimable, Win, Running, Owned, Owns
<1>8. ASSUME NEW c \in Clicks, ReclaimLost(c) PROVE PendingHasOwner'
  BY <1>8 DEF ReclaimLost, Running
<1>9. ASSUME NEW c \in Clicks, ReadRow(c) PROVE PendingHasOwner'
  BY <1>9 DEF ReadRow, Running
<1>10. ASSUME NEW c \in Clicks, NoRow(c) PROVE PendingHasOwner'
  BY <1>10 DEF NoRow, Answer, Running
<1>11. ASSUME NEW c \in Clicks, ReadLines(c) PROVE PendingHasOwner'
  BY <1>11 DEF ReadLines, WithLines, Answer, Running
<1>12. ASSUME NEW c \in Clicks, NEW outcome \in Outcomes, Dispatch(c, outcome) PROVE PendingHasOwner'
  BY <1>12 DEF Dispatch, Running
<1>13. ASSUME NEW c \in Clicks, Complete(c) PROVE PendingHasOwner'
  BY <1>13 DEF Complete, Write, Answer, Running
<1>14. ASSUME NEW c \in Clicks, CompleteRolledBack(c) PROVE PendingHasOwner'
  BY <1>14 DEF CompleteRolledBack, Answer, Drop, Running
<1>15. ASSUME NEW c \in Clicks, Abort(c) PROVE PendingHasOwner'
  BY <1>15 DEF Abort, Answer, Drop
<1>16. ASSUME NEW c \in Clicks, CompleteUnheard(c) PROVE PendingHasOwner'
  BY <1>16 DEF CompleteUnheard, Write, Answer, SpendFault, Running
<1>17. ASSUME NEW c \in Clicks, DatabaseError(c) PROVE PendingHasOwner'
  BY <1>17 DEF DatabaseError, Answer, Drop, SpendFault, Running
<1>18. ASSUME NEW c \in Clicks, Disconnect(c) PROVE PendingHasOwner'
  BY <1>18 DEF Disconnect, SpendFault
<1>19. ASSUME NEW D \in SUBSET Clicks, Crash(D) PROVE PendingHasOwner'
  BY <1>19 DEF Crash, Drop, SpendFault
<1>20. ASSUME NEW o \in Orders, Age(o) PROVE PendingHasOwner'
  BY <1>20 DEF Age
<1>21. ASSUME NEW o \in Orders, Expire(o) PROVE PendingHasOwner'
  BY <1>21 DEF Expire
<1>22. CASE UNCHANGED vars
  BY <1>22 DEF vars
<1>23. QED
  BY <1>1, <1>2, <1>3, <1>4, <1>5, <1>6, <1>7, <1>8, <1>9, <1>10, <1>11, <1>12, <1>13, <1>14, <1>15, <1>16, <1>17, <1>18, <1>19, <1>20, <1>21, <1>22 DEF Next, Serve, Handle, Environment

\* Nothing but a late owner writes a SYNCED row, and there is none.
LEMMA StickStep ==
  ASSUME TypeOK, RoleOK, QuietUnlessPending, [Next]_vars
  PROVE  SyncedKept
<1> USE ClaimAssumption DEF TypeOK, RoleOK, QuietUnlessPending, SyncedKept
<1>1. ASSUME NEW c \in Clicks, NEW o \in Orders, Click(c, o) PROVE SyncedKept
  BY <1>1 DEF Click, Arrive
<1>2. ASSUME NEW c \in Clicks, NEW o \in Orders, CheckStatus(c, o) PROVE SyncedKept
  BY <1>2 DEF CheckStatus, Arrive
<1>3. ASSUME NEW c \in Clicks, Refuse(c) PROVE SyncedKept
  BY <1>3 DEF Refuse, Answer, Running
<1>4. ASSUME NEW c \in Clicks, Admit(c) PROVE SyncedKept
  BY <1>4 DEF Admit, Running
<1>5. ASSUME NEW c \in Clicks, InsertClaim(c) PROVE SyncedKept
  BY <1>5 DEF InsertClaim, Win, Running
<1>6. ASSUME NEW c \in Clicks, InsertConflict(c) PROVE SyncedKept
  BY <1>6 DEF InsertConflict, Running
<1>7. ASSUME NEW c \in Clicks, Reclaim(c) PROVE SyncedKept
  BY <1>7 DEF Reclaim, Reclaimable, Win, Running, Owned, Owns
<1>8. ASSUME NEW c \in Clicks, ReclaimLost(c) PROVE SyncedKept
  BY <1>8 DEF ReclaimLost, Running
<1>9. ASSUME NEW c \in Clicks, ReadRow(c) PROVE SyncedKept
  BY <1>9 DEF ReadRow, Running
<1>10. ASSUME NEW c \in Clicks, NoRow(c) PROVE SyncedKept
  BY <1>10 DEF NoRow, Answer, Running
<1>11. ASSUME NEW c \in Clicks, ReadLines(c) PROVE SyncedKept
  BY <1>11 DEF ReadLines, WithLines, Answer, Running
<1>12. ASSUME NEW c \in Clicks, NEW outcome \in Outcomes, Dispatch(c, outcome) PROVE SyncedKept
  BY <1>12 DEF Dispatch, Running
<1>13. ASSUME NEW c \in Clicks, Complete(c) PROVE SyncedKept
  BY <1>13 DEF Complete, Write, Answer, Running
<1>14. ASSUME NEW c \in Clicks, CompleteRolledBack(c) PROVE SyncedKept
  BY <1>14 DEF CompleteRolledBack, Answer, Drop, Running
<1>15. ASSUME NEW c \in Clicks, Abort(c) PROVE SyncedKept
  BY <1>15 DEF Abort, Answer, Drop
<1>16. ASSUME NEW c \in Clicks, CompleteUnheard(c) PROVE SyncedKept
  BY <1>16 DEF CompleteUnheard, Write, Answer, SpendFault, Running
<1>17. ASSUME NEW c \in Clicks, DatabaseError(c) PROVE SyncedKept
  BY <1>17 DEF DatabaseError, Answer, Drop, SpendFault, Running
<1>18. ASSUME NEW c \in Clicks, Disconnect(c) PROVE SyncedKept
  BY <1>18 DEF Disconnect, SpendFault
<1>19. ASSUME NEW D \in SUBSET Clicks, Crash(D) PROVE SyncedKept
  BY <1>19 DEF Crash, Drop, SpendFault
<1>20. ASSUME NEW o \in Orders, Age(o) PROVE SyncedKept
  BY <1>20 DEF Age
<1>21. ASSUME NEW o \in Orders, Expire(o) PROVE SyncedKept
  BY <1>21 DEF Expire
<1>22. CASE UNCHANGED vars
  BY <1>22 DEF vars
<1>23. QED
  BY <1>1, <1>2, <1>3, <1>4, <1>5, <1>6, <1>7, <1>8, <1>9, <1>10, <1>11, <1>12, <1>13, <1>14, <1>15, <1>16, <1>17, <1>18, <1>19, <1>20, <1>21, <1>22 DEF Next, Serve, Handle, Environment

\* Between the two SELECTs of a request a SYNCED row stays what it is.
LEMMA RowHeldStep ==
  ASSUME TypeOK, RoleOK, QuietUnlessPending, SyncedRowHeld, [Next]_vars
  PROVE  SyncedRowHeld'
<1> USE ClaimAssumption DEF TypeOK, RoleOK, SyncedRowHeld, SyncedKept
<1>0. SyncedKept
  BY StickStep
<1>1. ASSUME NEW c \in Clicks, NEW o \in Orders, Click(c, o) PROVE SyncedRowHeld'
  BY <1>0, <1>1 DEF Click, Arrive
<1>2. ASSUME NEW c \in Clicks, NEW o \in Orders, CheckStatus(c, o) PROVE SyncedRowHeld'
  BY <1>0, <1>2 DEF CheckStatus, Arrive
<1>3. ASSUME NEW c \in Clicks, Refuse(c) PROVE SyncedRowHeld'
  BY <1>0, <1>3 DEF Refuse, Answer, Running
<1>4. ASSUME NEW c \in Clicks, Admit(c) PROVE SyncedRowHeld'
  BY <1>0, <1>4 DEF Admit, Running
<1>5. ASSUME NEW c \in Clicks, InsertClaim(c) PROVE SyncedRowHeld'
  BY <1>0, <1>5 DEF InsertClaim, Win, Running
<1>6. ASSUME NEW c \in Clicks, InsertConflict(c) PROVE SyncedRowHeld'
  BY <1>0, <1>6 DEF InsertConflict, Running
<1>7. ASSUME NEW c \in Clicks, Reclaim(c) PROVE SyncedRowHeld'
  BY <1>0, <1>7 DEF Reclaim, Reclaimable, Win, Running, Owned, Owns
<1>8. ASSUME NEW c \in Clicks, ReclaimLost(c) PROVE SyncedRowHeld'
  BY <1>0, <1>8 DEF ReclaimLost, Running
<1>9. ASSUME NEW c \in Clicks, ReadRow(c) PROVE SyncedRowHeld'
  BY <1>0, <1>9 DEF ReadRow, Running
<1>10. ASSUME NEW c \in Clicks, NoRow(c) PROVE SyncedRowHeld'
  BY <1>0, <1>10 DEF NoRow, Answer, Running
<1>11. ASSUME NEW c \in Clicks, ReadLines(c) PROVE SyncedRowHeld'
  BY <1>0, <1>11 DEF ReadLines, WithLines, Answer, Running
<1>12. ASSUME NEW c \in Clicks, NEW outcome \in Outcomes, Dispatch(c, outcome) PROVE SyncedRowHeld'
  BY <1>0, <1>12 DEF Dispatch, Running
<1>13. ASSUME NEW c \in Clicks, Complete(c) PROVE SyncedRowHeld'
  BY <1>0, <1>13 DEF Complete, Write, Answer, Running
<1>14. ASSUME NEW c \in Clicks, CompleteRolledBack(c) PROVE SyncedRowHeld'
  BY <1>0, <1>14 DEF CompleteRolledBack, Answer, Drop, Running
<1>15. ASSUME NEW c \in Clicks, Abort(c) PROVE SyncedRowHeld'
  BY <1>0, <1>15 DEF Abort, Answer, Drop
<1>16. ASSUME NEW c \in Clicks, CompleteUnheard(c) PROVE SyncedRowHeld'
  BY <1>0, <1>16 DEF CompleteUnheard, Write, Answer, SpendFault, Running
<1>17. ASSUME NEW c \in Clicks, DatabaseError(c) PROVE SyncedRowHeld'
  BY <1>0, <1>17 DEF DatabaseError, Answer, Drop, SpendFault, Running
<1>18. ASSUME NEW c \in Clicks, Disconnect(c) PROVE SyncedRowHeld'
  BY <1>0, <1>18 DEF Disconnect, SpendFault
<1>19. ASSUME NEW D \in SUBSET Clicks, Crash(D) PROVE SyncedRowHeld'
  BY <1>0, <1>19 DEF Crash, Drop, SpendFault
<1>20. ASSUME NEW o \in Orders, Age(o) PROVE SyncedRowHeld'
  BY <1>0, <1>20 DEF Age
<1>21. ASSUME NEW o \in Orders, Expire(o) PROVE SyncedRowHeld'
  BY <1>0, <1>21 DEF Expire
<1>22. CASE UNCHANGED vars
  BY <1>0, <1>22 DEF vars
<1>23. QED
  BY <1>1, <1>2, <1>3, <1>4, <1>5, <1>6, <1>7, <1>8, <1>9, <1>10, <1>11, <1>12, <1>13, <1>14, <1>15, <1>16, <1>17, <1>18, <1>19, <1>20, <1>21, <1>22 DEF Next, Serve, Handle, Environment

\* A SYNCED answer given stays equal to the stored row and lines.
LEMMA AnswerStep ==
  ASSUME TypeOK, RoleOK, QuietUnlessPending, OutcomeHeld, SyncedRowHeld, SyncedAnswerStands, [Next]_vars
  PROVE  SyncedAnswerStands'
<1> USE ClaimAssumption DEF TypeOK, RoleOK, SyncedRowHeld, SyncedAnswerStands, Stored, SyncedKept, OutcomeHeld, Attempts
<1>0. SyncedKept
  BY StickStep
<1>1. ASSUME NEW c \in Clicks, NEW o \in Orders, Click(c, o) PROVE SyncedAnswerStands'
  BY <1>0, <1>1 DEF Click, Arrive
<1>2. ASSUME NEW c \in Clicks, NEW o \in Orders, CheckStatus(c, o) PROVE SyncedAnswerStands'
  BY <1>0, <1>2 DEF CheckStatus, Arrive
<1>3. ASSUME NEW c \in Clicks, Refuse(c) PROVE SyncedAnswerStands'
  BY <1>0, <1>3 DEF Refuse, Answer, Running
<1>4. ASSUME NEW c \in Clicks, Admit(c) PROVE SyncedAnswerStands'
  BY <1>0, <1>4 DEF Admit, Running
<1>5. ASSUME NEW c \in Clicks, InsertClaim(c) PROVE SyncedAnswerStands'
  BY <1>0, <1>5 DEF InsertClaim, Win, Running
<1>6. ASSUME NEW c \in Clicks, InsertConflict(c) PROVE SyncedAnswerStands'
  BY <1>0, <1>6 DEF InsertConflict, Running
<1>7. ASSUME NEW c \in Clicks, Reclaim(c) PROVE SyncedAnswerStands'
  BY <1>0, <1>7 DEF Reclaim, Reclaimable, Win, Running, Owned, Owns
<1>8. ASSUME NEW c \in Clicks, ReclaimLost(c) PROVE SyncedAnswerStands'
  BY <1>0, <1>8 DEF ReclaimLost, Running
<1>9. ASSUME NEW c \in Clicks, ReadRow(c) PROVE SyncedAnswerStands'
  BY <1>0, <1>9 DEF ReadRow, Running
<1>10. ASSUME NEW c \in Clicks, NoRow(c) PROVE SyncedAnswerStands'
  BY <1>0, <1>10 DEF NoRow, Answer, Running
<1>11. ASSUME NEW c \in Clicks, ReadLines(c) PROVE SyncedAnswerStands'
  BY <1>0, <1>11 DEF ReadLines, WithLines, Answer, Running
<1>12. ASSUME NEW c \in Clicks, NEW outcome \in Outcomes, Dispatch(c, outcome) PROVE SyncedAnswerStands'
  BY <1>0, <1>12 DEF Dispatch, Running
<1>13. ASSUME NEW c \in Clicks, Complete(c) PROVE SyncedAnswerStands'
  BY <1>0, <1>13 DEF Complete, Write, Answer, Running
<1>14. ASSUME NEW c \in Clicks, CompleteRolledBack(c) PROVE SyncedAnswerStands'
  BY <1>0, <1>14 DEF CompleteRolledBack, Answer, Drop, Running
<1>15. ASSUME NEW c \in Clicks, Abort(c) PROVE SyncedAnswerStands'
  BY <1>0, <1>15 DEF Abort, Answer, Drop
<1>16. ASSUME NEW c \in Clicks, CompleteUnheard(c) PROVE SyncedAnswerStands'
  BY <1>0, <1>16 DEF CompleteUnheard, Write, Answer, SpendFault, Running
<1>17. ASSUME NEW c \in Clicks, DatabaseError(c) PROVE SyncedAnswerStands'
  BY <1>0, <1>17 DEF DatabaseError, Answer, Drop, SpendFault, Running
<1>18. ASSUME NEW c \in Clicks, Disconnect(c) PROVE SyncedAnswerStands'
  BY <1>0, <1>18 DEF Disconnect, SpendFault
<1>19. ASSUME NEW D \in SUBSET Clicks, Crash(D) PROVE SyncedAnswerStands'
  BY <1>0, <1>19 DEF Crash, Drop, SpendFault
<1>20. ASSUME NEW o \in Orders, Age(o) PROVE SyncedAnswerStands'
  BY <1>0, <1>20 DEF Age
<1>21. ASSUME NEW o \in Orders, Expire(o) PROVE SyncedAnswerStands'
  BY <1>0, <1>21 DEF Expire
<1>22. CASE UNCHANGED vars
  BY <1>0, <1>22 DEF vars
<1>23. QED
  BY <1>1, <1>2, <1>3, <1>4, <1>5, <1>6, <1>7, <1>8, <1>9, <1>10, <1>11, <1>12, <1>13, <1>14, <1>15, <1>16, <1>17, <1>18, <1>19, <1>20, <1>21, <1>22 DEF Next, Serve, Handle, Environment

\* The invariant holds of an empty database without requests.
LEMMA InitInv == Init => IInv
<1> SUFFICES ASSUME Init PROVE IInv
  OBVIOUS
<1> USE ClaimAssumption DEF Init
<1>1. TypeOK
  BY DEF TypeOK, Terminal, RowStatus, Steps, Roles, Answers, Attempts, Blank
<1>2. RoleOK /\ OutcomeHeld /\ OneDispatcher /\ QuietUnlessPending /\ SyncedRowHeld
  BY DEF RoleOK, OutcomeHeld, OneDispatcher, QuietUnlessPending, SyncedRowHeld
<1>3. PendingHasOwner /\ SyncedAnswerStands
  BY DEF PendingHasOwner, SyncedAnswerStands
<1>4. QED
  BY <1>1, <1>2, <1>3 DEF IInv

\* The invariant is inductive.
LEMMA StepInv == IInv /\ [Next]_vars => IInv'
<1> SUFFICES ASSUME IInv, [Next]_vars PROVE IInv'
  OBVIOUS
<1> USE DEF IInv
<1>1. TypeOK' /\ RoleOK' /\ OutcomeHeld'
  BY TypeStep, RoleStep, OutcomeStep
<1>2. OneDispatcher' /\ QuietUnlessPending' /\ PendingHasOwner'
  BY OneStep, QuietStep, OwnerStep
<1>3. SyncedRowHeld' /\ SyncedAnswerStands'
  BY RowHeldStep, AnswerStep
<1>4. QED
  BY <1>1, <1>2, <1>3

\* The inductive invariant holds in every state the service reaches.
THEOREM Invariance == Spec => []IInv
  BY InitInv, StepInv, PTL DEF Spec

-----------------------------------------------------------------------------
\* Every variable keeps its type, whatever is interrupted (all of ClaimAttempt,
\* SyncOrder and CompleteAttempt as modelled).
THEOREM TypeCorrect == Spec => []TypeOK
<1>1. IInv => TypeOK
  BY DEF IInv
<1>2. QED
  BY <1>1, Invariance, PTL

\* However many requests race, at most one of them is on its way to the ERP for an
\* order, as long as no running claim was taken over for its age (ClaimAttempt).
THEOREM AtMostOneDispatcher == Spec => []OneDispatcher
<1>1. IInv => OneDispatcher
  BY DEF IInv
<1>2. QED
  BY <1>1, Invariance, PTL

\* An order with a recorded result has no request on its way to the ERP
\* (CompleteAttempt ends the only claim there is).
THEOREM SettledOrdersAreQuiet == Spec => []SettledIsQuiet
<1>1. IInv => SettledIsQuiet
  BY DEF IInv, QuietUnlessPending, SettledIsQuiet, Owned, Owns, Terminal
<1>2. QED
  BY <1>1, Invariance, PTL

\* A PENDING row has a running owner, or its last owner was cut off by a fault
\* (every error path of SyncOrder after the claim).
THEOREM PendingRowsAreOwned == Spec => []PendingHasOwner
<1>1. IInv => PendingHasOwner
  BY DEF IInv
<1>2. QED
  BY <1>1, Invariance, PTL

\* A SYNCED answer, from a dispatch, a replay or the status endpoint, is exactly
\* what the database holds, then and for ever (the two SELECTs of
\* GetAttemptByKey, replay, GetSyncStatus).
THEOREM SyncedAnswersStand == Spec => []SyncedAnswerStands
<1>1. IInv => SyncedAnswerStands
  BY DEF IInv
<1>2. QED
  BY <1>1, Invariance, PTL

\* The idempotency guarantee: no step rewrites a SYNCED row or its lines, unless a
\* running claim of that order was once taken over for its age.
THEOREM SyncedRowsStick == Spec => SyncedSticks
<1>1. IInv /\ [Next]_vars => SyncedKept
  BY StickStep DEF IInv
<1>2. SyncedKept <=> \A o \in Orders : row[o].status = "SYNCED" /\ o \notin overrun
                        => row'[o] = row[o] /\ lines'[o] = lines[o]
  BY DEF SyncedKept
<1>3. QED
  BY <1>1, <1>2, Invariance, PTL DEF Spec, SyncedSticks
=============================================================================
