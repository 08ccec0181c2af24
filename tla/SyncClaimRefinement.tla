------------------------ MODULE SyncClaimRefinement ------------------------
(***************************************************************************)
(* The claim protocol implements SyncPromise: every step of a request maps *)
(* to Begin, Settle, CutOff or Overtake, or to no step of the promise.     *)
(* The promise says nothing more of an order whose running claim was taken *)
(* over, so whatever happens to such an order is a stutter.                *)
(***************************************************************************)
EXTENDS SyncClaimProofs

\* A settled row and its lines together are one outcome of one dispatch.
SettledIsOutcome ==
    \A o \in Orders : row[o].status \in Terminal => Stored(o) \in Outcomes

LInv == IInv /\ SettledIsOutcome

\* SettledIsOutcome is kept by every step: only Write makes a row terminal, and it
\* writes the row and the lines of one outcome.
LEMMA SettledStep ==
  ASSUME IInv, SettledIsOutcome, [Next]_vars
  PROVE  SettledIsOutcome'
<1> USE ClaimAssumption DEF IInv, TypeOK, OutcomeHeld, SettledIsOutcome, Stored, Terminal
<1>1. ASSUME NEW c \in Clicks, InsertClaim(c) \/ Reclaim(c) PROVE SettledIsOutcome'
  BY <1>1 DEF InsertClaim, Reclaim
<1>2. ASSUME NEW c \in Clicks, Complete(c) \/ CompleteUnheard(c) PROVE SettledIsOutcome'
  <2>1. pc[c] = "completing" /\ Write(c)
    BY <1>2 DEF Complete, CompleteUnheard, Running
  <2>2. att[c] \in Outcomes /\ att[c] \in [status : Terminal, note : Notes, lines : LineDetails]
    BY <2>1
  <2>3. ASSUME NEW o \in Orders, row'[o].status \in Terminal PROVE Stored(o)' \in Outcomes
    <3>1. CASE o = order[c]
      <4>1. Stored(o)' = att[c]
        BY <2>1, <2>2, <3>1 DEF Write
      <4>2. QED
        BY <4>1, <2>2
    <3>2. CASE o # order[c]
      BY <2>1, <2>3, <3>2 DEF Write
    <3>3. QED
      BY <3>1, <3>2
  <2>4. QED
    BY <2>3
<1>3. ASSUME NEW o \in Orders, Age(o) PROVE SettledIsOutcome'
  BY <1>3 DEF Age
<1>4. CASE row' = row /\ lines' = lines
  BY <1>4
<1>5. QED
  BY <1>1, <1>2, <1>3, <1>4 DEF Next, Serve, Handle, Environment, vars, Click, CheckStatus, Arrive, Refuse, Admit,
     InsertConflict, ReclaimLost, ReadRow, NoRow, ReadLines, Dispatch, Abort, CompleteRolledBack,
     DatabaseError, Disconnect, Crash, Expire

\* What a step does to the promise is what it does to the phase and the result of
\* each order.
LEMMA Stutter ==
  ASSUME \A o \in Orders : Phase(o)' = Phase(o) /\ Result(o)' = Result(o)
  PROVE  UNCHANGED <<phases, results>>
BY DEF phases, results

LEMMA OneChange ==
  ASSUME NEW o \in Orders, NEW ph, NEW r,
         Phase(o)' = ph, Result(o)' = r,
         \A p \in Orders \ {o} : Phase(p)' = Phase(p) /\ Result(p)' = Result(p)
  PROVE  /\ phases'  = [phases EXCEPT ![o] = ph]
         /\ results' = [results EXCEPT ![o] = r]
BY DEF phases, results

\* What a won claim changes of rows and owners.
LEMMA ClaimWon ==
  ASSUME LInv, NEW c \in Clicks, InsertClaim(c) \/ Reclaim(c),
         NEW o \in Orders, o = order[c]
  PROVE  /\ row'[o].status = "PENDING"
         /\ row[o].status # "SYNCED"
         /\ Owned(o)'
         /\ \A p \in Orders \ {o} : Phase(p)' = Phase(p) /\ Result(p)' = Result(p)
<1> USE DEF LInv, IInv, TypeOK
<1>1. /\ row'[o].status = "PENDING"
      /\ \A p \in Orders \ {o} : row'[p] = row[p] /\ (p \in overrun' <=> p \in overrun)
      /\ lines' = lines
      /\ row[o].status # "SYNCED"
  BY DEF InsertClaim, Reclaim, Reclaimable
<1>2. Owned(o)' /\ \A p \in Orders \ {o} : (Owned(p)' <=> Owned(p))
  <2>1. role' = [role EXCEPT ![c] = "owner"] /\ order' = order /\ role[c] = "none"
    BY DEF InsertClaim, Reclaim, Win, RoleOK, Running
  <2>2. QED
    BY <2>1 DEF Owned, Owns
<1>3. \A p \in Orders \ {o} : Phase(p)' = Phase(p) /\ Result(p)' = Result(p)
  BY <1>1, <1>2 DEF Phase, Result, Stored, Blank
<1>4. QED
  BY <1>1, <1>2, <1>3

\* Winning a claim begins a run, unless a live claim of the order is or was taken
\* over: a row that is not overrun has no owner before.
LEMMA BeginStep ==
  ASSUME LInv, NEW c \in Clicks, InsertClaim(c) \/ Reclaim(c),
         NEW o \in Orders, o = order[c], o \notin overrun'
  PROVE  Promise!Begin(o)
<1> USE ClaimAssumption DEF LInv, IInv, TypeOK, Terminal
<1>1. o \notin overrun /\ ~Owned(o)
  <2>1. CASE InsertClaim(c)
    BY <2>1 DEF InsertClaim, QuietUnlessPending, Owned, Owns
  <2>2. CASE Reclaim(c)
    BY <2>2 DEF Reclaim, Reclaimable, QuietUnlessPending, Owned, Owns
  <2>3. QED
    BY <2>1, <2>2
<1>2. /\ phases[o] \notin {"running", "overtaken"}
      /\ phases[o] = "settled" => results[o].status # "SYNCED"
  BY <1>1, ClaimWon DEF phases, results, Phase, Result, Stored
<1>3. Phase(o)' = "running" /\ Result(o)' = Blank
  BY ClaimWon DEF Phase, Result, Blank
<1>4. QED
  BY <1>2, <1>3, ClaimWon, OneChange DEF Promise!Begin

\* A claim taken over from a request that still runs overtakes its run.
LEMMA OvertakeStep ==
  ASSUME LInv, NEW c \in Clicks, InsertClaim(c) \/ Reclaim(c),
         NEW o \in Orders, o = order[c], o \in overrun', o \notin overrun
  PROVE  Promise!Overtake(o)
<1> USE DEF LInv, IInv, TypeOK, Terminal
<1>1. row[o].status = "PENDING" /\ Owned(o)
  BY DEF InsertClaim, Reclaim
<1>2. phases[o] = "running" /\ results[o] = Blank
  BY <1>1 DEF phases, results, Phase, Result
<1>3. Phase(o)' = "overtaken" /\ Result(o)' = Blank
  BY DEF Phase, Result, Blank
<1>4. phases' = [phases EXCEPT ![o] = "overtaken"] /\ results' = [results EXCEPT ![o] = Blank]
  BY <1>3, ClaimWon, OneChange
<1>5. results' = results
  BY <1>2, <1>4 DEF results
<1>6. QED
  BY <1>2, <1>4, <1>5 DEF Promise!Overtake

\* CompleteAttempt settles the run of the only owner there is, unless there was
\* another one.
LEMMA SettleStep ==
  ASSUME LInv, NEW c \in Clicks, Complete(c) \/ CompleteUnheard(c),
         NEW o \in Orders, o = order[c], o \notin overrun
  PROVE  att[c] \in Outcomes /\ Promise!Settle(o, att[c])
<1> USE ClaimAssumption DEF LInv, IInv, TypeOK
<1>1. /\ pc[c] = "completing" /\ role[c] = "owner"
      /\ Write(c) /\ role' = [role EXCEPT ![c] = "none"]
      /\ UNCHANGED <<order, overrun>>
  BY DEF Complete, CompleteUnheard, Answer, Running, RoleOK
<1>2. att[c] \in Outcomes /\ att[c] \in [status : Terminal, note : Notes, lines : LineDetails]
  BY <1>1 DEF OutcomeHeld
<1>3. phases[o] = "running"
  BY <1>1 DEF phases, Phase, QuietUnlessPending, Owned, Owns, Terminal
<1>4. \A p \in Orders \ {o} : (Owned(p)' <=> Owned(p))
  BY <1>1 DEF Owned, Owns
<1>5. Stored(o)' = att[c] /\ row'[o].status \in Terminal /\ row'[o].status # "NONE"
  BY <1>1, <1>2 DEF Write, Stored, Terminal
<1>6. Phase(o)' = "settled" /\ Result(o)' = att[c]
  BY <1>1, <1>5 DEF Phase, Result
<1>7. \A p \in Orders \ {o} : row'[p] = row[p] /\ lines'[p] = lines[p]
  BY <1>1 DEF Write
<1>8. \A p \in Orders \ {o} : Phase(p)' = Phase(p) /\ Result(p)' = Result(p)
  BY <1>1, <1>4, <1>7 DEF Phase, Result, Stored, Blank
<1>9. QED
  BY <1>1, <1>2, <1>3, <1>6, <1>8, OneChange DEF Promise!Settle

\* Requests that end without a result cut the runs they own off, and no other.
LEMMA CutStep ==
  ASSUME LInv, NEW D \in SUBSET Clicks, UNCHANGED <<row, lines, order, overrun>>,
         role' = [c \in Clicks |-> IF c \in D THEN "none" ELSE role[c]]
  PROVE  \E O \in SUBSET Orders : Promise!CutOff(O)
<1> USE DEF LInv, IInv, TypeOK
<1> DEFINE O == {o \in Orders \ overrun : \E c \in D : Owns(c, o)}
<1>1. \A o \in Orders \ overrun : Owned(o)' <=> Owned(o) /\ o \notin O
  BY DEF Owned, Owns, OneDispatcher
<1>2. \A o \in O : row[o].status = "PENDING" /\ Owned(o)
  BY DEF Owned, Owns, QuietUnlessPending
<1>3. \A o \in O : phases[o] = "running"
  BY <1>2 DEF phases, Phase, Terminal
<1>4. \A o \in Orders : Phase(o)' = IF o \in O THEN "cut" ELSE Phase(o)
  BY <1>1, <1>2 DEF Phase, Terminal
<1>5. \A o \in Orders : Result(o)' = Result(o)
  BY DEF Result, Stored, Blank
<1>6. QED
  BY <1>3, <1>4, <1>5 DEF Promise!CutOff, phases, results

\* A request that is no owner before and after does nothing to the promise.
LEMMA BystanderStep ==
  ASSUME LInv, NEW c \in Clicks, UNCHANGED <<row, lines, overrun>>,
         role[c] # "owner", NEW r, r # "owner", role' = [role EXCEPT ![c] = r],
         \A d \in Clicks \ {c} : order'[d] = order[d]
  PROVE  UNCHANGED <<phases, results>>
<1> USE DEF LInv, IInv, TypeOK
<1>1. \A o \in Orders : Owned(o)' <=> Owned(o)
  BY DEF Owned, Owns
<1>2. \A o \in Orders : Phase(o)' = Phase(o) /\ Result(o)' = Result(o)
  BY <1>1 DEF Phase, Result, Stored, Blank
<1>3. QED
  BY <1>2, Stutter

\* What happens to an order that was overrun does nothing to the promise.
LEMMA OverrunStep ==
  ASSUME NEW o \in overrun, o \in overrun',
         \A p \in Orders \ {o} : Phase(p)' = Phase(p) /\ Result(p)' = Result(p)
  PROVE  UNCHANGED <<phases, results>>
<1>1. Phase(o)' = Phase(o) /\ Result(o)' = Result(o)
  BY DEF Phase, Result, Blank
<1>2. QED
  BY <1>1, Stutter

\* Every step of the protocol is a step of the promise, or none.
LEMMA PromiseStep ==
  ASSUME LInv, [Next]_vars
  PROVE  [Promise!Next]_(Promise!vars)
<1> USE DEF LInv, IInv, TypeOK, RoleOK
<1>1. ASSUME NEW c \in Clicks, NEW o \in Orders, Click(c, o) \/ CheckStatus(c, o)
      PROVE  UNCHANGED <<phases, results>>
  <2>1. PICK r : r \in {"none", "reader"} /\ role' = [role EXCEPT ![c] = r]
    BY <1>1 DEF Click, CheckStatus, Arrive
  <2>2. /\ UNCHANGED <<row, lines, overrun>> /\ role[c] # "owner"
        /\ \A d \in Clicks \ {c} : order'[d] = order[d]
    BY <1>1 DEF Click, CheckStatus, Arrive
  <2>3. QED
    BY <2>1, <2>2, BystanderStep
<1>2. ASSUME NEW c \in Clicks, Refuse(c) \/ ReclaimLost(c)
      PROVE  UNCHANGED <<phases, results>>
  <2>1. PICK r : r \in {"none", "loser"} /\ role' = [role EXCEPT ![c] = r]
    BY <1>2 DEF Refuse, ReclaimLost, Answer
  <2>2. UNCHANGED <<row, lines, order, overrun>> /\ role[c] # "owner"
    BY <1>2 DEF Refuse, ReclaimLost, Running
  <2>3. QED
    BY <2>1, <2>2, BystanderStep
<1>3. ASSUME NEW c \in Clicks,
             Admit(c) \/ InsertConflict(c) \/ ReadRow(c) \/ Disconnect(c)
             \/ \E outcome \in Outcomes : Dispatch(c, outcome)
      PROVE  UNCHANGED <<phases, results>>
  <2>1. UNCHANGED <<row, lines, order, role, overrun>>
    BY <1>3 DEF Admit, InsertConflict, ReadRow, Disconnect, Dispatch
  <2>2. QED
    BY <2>1, Stutter DEF Phase, Result, Owned, Owns, Stored, Blank
<1>4. ASSUME NEW c \in Clicks, NoRow(c) \/ DatabaseError(c) \/ Abort(c) \/ CompleteRolledBack(c)
      PROVE  \E O \in SUBSET Orders : Promise!CutOff(O)
  <2>1. /\ UNCHANGED <<row, lines, order, overrun>>
        /\ role' = [d \in Clicks |-> IF d \in {c} THEN "none" ELSE role[d]]
    BY <1>4 DEF NoRow, DatabaseError, Abort, CompleteRolledBack, Answer
  <2>2. {c} \in SUBSET Clicks
    OBVIOUS
  <2>3. QED
    BY <2>1, <2>2, CutStep
<1>5. ASSUME NEW D \in SUBSET Clicks, Crash(D)
      PROVE  \E O \in SUBSET Orders : Promise!CutOff(O)
  BY <1>5, CutStep DEF Crash
<1>6. ASSUME NEW c \in Clicks, ReadLines(c) PROVE UNCHANGED <<phases, results>>
  <2>1. UNCHANGED <<row, lines, order, overrun>>
    BY <1>6 DEF ReadLines
  <2>2. CASE role' = role
    BY <2>1, <2>2, Stutter DEF Phase, Result, Owned, Owns, Stored, Blank
  <2>3. CASE role[c] # "owner" /\ role' = [role EXCEPT ![c] = "none"]
    BY <2>1, <2>3, BystanderStep
  <2>4. QED
    BY <1>6, <2>2, <2>3 DEF ReadLines, Answer
<1>7. ASSUME NEW c \in Clicks, InsertClaim(c) \/ Reclaim(c)
      PROVE  \/ \E o \in Orders : Promise!Begin(o) \/ Promise!Overtake(o)
             \/ UNCHANGED <<phases, results>>
  <2>1. order[c] \in Orders
    OBVIOUS
  <2>2. CASE order[c] \notin overrun'
    BY <1>7, <2>1, <2>2, BeginStep
  <2>3. CASE order[c] \in overrun' /\ order[c] \notin overrun
    BY <1>7, <2>1, <2>3, OvertakeStep
  <2>4. CASE order[c] \in overrun' /\ order[c] \in overrun
    BY <1>7, <2>1, <2>4, ClaimWon, OverrunStep
  <2>5. QED
    BY <2>2, <2>3, <2>4
<1>8. ASSUME NEW c \in Clicks, Complete(c) \/ CompleteUnheard(c)
      PROVE  \/ \E o \in Orders, outcome \in Outcomes : Promise!Settle(o, outcome)
             \/ UNCHANGED <<phases, results>>
  <2>1. order[c] \in Orders
    OBVIOUS
  <2>2. CASE order[c] \notin overrun
    BY <1>8, <2>1, <2>2, SettleStep
  <2>3. CASE order[c] \in overrun
    <3>1. /\ Write(c) /\ role' = [role EXCEPT ![c] = "none"]
          /\ UNCHANGED <<order, overrun>>
      BY <1>8 DEF Complete, CompleteUnheard, Answer
    <3>2. \A p \in Orders \ {order[c]} : Phase(p)' = Phase(p) /\ Result(p)' = Result(p)
      BY <3>1 DEF Write, Phase, Result, Owned, Owns, Stored, Blank
    <3>3. QED
      BY <2>3, <3>1, <3>2, OverrunStep
  <2>4. QED
    BY <2>2, <2>3
<1>9. ASSUME NEW o \in Orders, Age(o) PROVE UNCHANGED <<phases, results>>
  <2>1. /\ UNCHANGED <<lines, order, role, overrun>>
        /\ \A p \in Orders : row'[p].status = row[p].status /\ row'[p].note = row[p].note
    BY <1>9 DEF Age
  <2>2. QED
    BY <2>1, Stutter DEF Phase, Result, Owned, Owns, Stored, Blank
<1>10. ASSUME NEW o \in Orders, Expire(o) PROVE UNCHANGED <<phases, results>>
  BY <1>10, Stutter DEF Expire, Phase, Result, Owned, Owns, Stored, Blank
<1>11. ASSUME UNCHANGED vars PROVE UNCHANGED <<phases, results>>
  BY <1>11, Stutter DEF vars, Phase, Result, Owned, Owns, Stored, Blank
<1>12. QED
  BY <1>1, <1>2, <1>3, <1>4, <1>5, <1>6, <1>7, <1>8, <1>9, <1>10, <1>11
     DEF Next, Serve, Handle, Environment, Promise!Next, Promise!vars

\* An empty database is a set of fresh orders.
LEMMA PromiseInit == Init => Promise!Init
BY DEF Init, Promise!Init, phases, results, Phase, Result, Terminal

\* The protocol of INSERTs, reclaiming UPDATEs and CompleteAttempt implements the
\* promise that runs are exclusive and SYNCED is final, which lapses order by order
\* where a running claim is taken over for its age, and nowhere else.
THEOREM Refinement == Spec => ImplementsPromise
<1>1. Init => LInv
  BY InitInv DEF LInv, SettledIsOutcome, Init, Terminal
<1>2. LInv /\ [Next]_vars => LInv'
  BY StepInv, SettledStep DEF LInv
<1>3. LInv /\ [Next]_vars => [Promise!Next]_(Promise!vars)
  BY PromiseStep
<1>4. QED
  BY <1>1, <1>2, <1>3, PromiseInit, PTL DEF Spec, ImplementsPromise, Promise!Spec
=============================================================================
