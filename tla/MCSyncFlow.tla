----------------------------- MODULE MCSyncFlow -----------------------------
(***************************************************************************)
(* Small instances of SyncFlow for TLC: an order of three lines for        *)
(* tenant_alpha (two chunks), of five (three chunks), and one of two lines *)
(* for tenant_beta.                                                        *)
(***************************************************************************)
EXTENDS SyncFlow, TLC

CONSTANTS alpha, long, beta, c1, c2, s1, s2, s3, s4, s5

OneAlpha  == {alpha}
OneLong   == {long}
OneBeta   == {beta}
None      == {}
OneClick  == {c1}
TwoClicks == {c1, c2}
ThreeSKUs == {s1, s2, s3}
FourSKUs  == {s1, s2, s3, s4}
FiveSKUs  == {s1, s2, s3, s4, s5}
LastSKU   == {s3}
BetaSKUs  == {s3, s4}
Scarce    == {s3, s4}
LastBetaSKU == {s4}
BothTenants == {alpha, beta}

MCItems == [o \in Orders |->
    CASE o = alpha -> <<s1, s2, s3>> [] o = long -> <<s1, s2, s3, s4, s5>> [] o = beta -> <<s3, s4>>]

\* Every outcome that some list of responses is interpreted as.
MCOutcomes ==
    UNION {{Interpret(o, responses) : responses \in ResponseLists(o)} : o \in Orders}

MCNotes == {"null", "sync.success", "sync.partial", "sync.failed",
            "sync.erp_unavailable", "sync.order_expired"}

MCLineDetails == {<<>>} \cup {outcome.lines : outcome \in MCOutcomes}
MCUnstorable  == {ls \in MCLineDetails : Repeats(ls)}

MCNoLines     == <<>>

ClickSymmetry == Permutations(Clicks)

(***************************************************************************)
(* Orders share neither rows nor books, so a behaviour is about one of     *)
(* them, either tenant's: every click is for it, and what has to do with   *)
(* the other order stands still.  Faults befall the order of tenant_alpha, *)
(* expiry that of tenant_beta (Expiring).  One request of the order at a   *)
(* time travels late, and s3 is restocked before s4.  Hang-ups, which end  *)
(* a dispatch as a crash of that one request does, and status requests,    *)
(* which read what a replay reads, are left to the other runs.             *)
(***************************************************************************)
InPlay == {order[c] : c \in Clicks}
Wanted == UNION {{Items[o][i] : i \in LinesOf(o)} : o \in InPlay}

OneOrderInit == FlowInit /\ \E o \in Orders : InPlay = {o}

OneOrderNext ==
    /\ FlowNext
    /\ order' = order
    /\ gone' = gone
    /\ unsendable' \subseteq InPlay
    /\ refused \ Wanted \subseteq refused'
    /\ s3 \in refused' => s4 \in refused'
    /\ \A x, y \in late' : x = y
    /\ faults' > faults => InPlay \subseteq AlphaOrders
    /\ \A c \in Clicks : role'[c] # "reader"

OneOrderSpec == OneOrderInit /\ [][OneOrderNext]_allVars
=============================================================================
