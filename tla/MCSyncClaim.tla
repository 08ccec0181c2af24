---------------------------- MODULE MCSyncClaim ----------------------------
(***************************************************************************)
(* Small instances of SyncClaim for TLC.                                   *)
(***************************************************************************)
EXTENDS SyncClaim, TLC

CONSTANTS o1, c1, c2, c3, none, some, all, twice, null, ok, partial, rejected

\* One result of each terminal status; a failed dispatch has no line rows.
MCOutcomes ==
    { [status |-> "SYNCED",          note |-> ok,       lines |-> all],
      [status |-> "PARTIAL_SUCCESS", note |-> partial,  lines |-> some],
      [status |-> "FAILED",          note |-> rejected, lines |-> none] }

\* Every dispatch answers line rows that name one SKU twice.
MCRepeatingOutcomes == { [status |-> "SYNCED", note |-> ok, lines |-> twice] }

\* No guard of SyncClaim tells FAILED from PARTIAL_SUCCESS.
MCRaceOutcomes == {x \in MCOutcomes : x.status # "FAILED"} \cup MCRepeatingOutcomes

OneOrder    == {o1}
NoOrder     == {}
TwoClicks   == {c1, c2}
ThreeClicks == {c1, c2, c3}
MCNotes     == {null, ok, partial, rejected}
MCLines     == {none, some, all, twice}
MCTwice     == {twice}

ClickSymmetry == Permutations(Clicks)
=============================================================================
