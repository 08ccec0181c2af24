----------------------------- MODULE OrderStore -----------------------------
(***************************************************************************)
(* What order intake promises, without statements, locks or transactions:  *)
(* a store that keeps one value per order for good.  A writer either puts  *)
(* his whole value there or finds one that was there before him, at one    *)
(* instant; a reader gets the whole value that is there at one instant.    *)
(* Who is told that he failed knows nothing: his value may be stored.      *)
(***************************************************************************)
CONSTANTS
    Orders,
    Writers,
    Readers,
    Requests,   \* what a writer may ask for: an order and a value for it
    Nothing     \* the value of an order that nobody has stored

VARIABLES
    store,      \* the value of each order
    asked,      \* what each writer asks for
    answer,     \* "none", "invalid", "created", "exists" or "failed"
    seen        \* the order each reader asks for, and if done what he has read

vars == <<store, asked, answer, seen>>

Init ==
    /\ store = [o \in Orders |-> Nothing]
    /\ asked \in [Writers -> Requests]
    /\ answer = [w \in Writers |-> "none"]
    /\ seen \in [Readers -> {[order |-> o, done |-> FALSE, value |-> Nothing] : o \in Orders}]

\* A writer asks, and may be turned away at once.
Ask(w, request, verdict) ==
    /\ verdict \in {"none", "invalid"}
    /\ answer' = [answer EXCEPT ![w] = verdict]
    /\ asked'  = [asked EXCEPT ![w] = request]
    /\ UNCHANGED <<store, seen>>

\* The value is stored; the writer may not hear of it.
Create(w, verdict) ==
    LET o == asked[w].order IN
    /\ verdict \in {"created", "failed"}
    /\ answer[w] = "none" /\ store[o] = Nothing
    /\ answer' = [answer EXCEPT ![w] = verdict]
    /\ store'  = [store EXCEPT ![o] = asked[w].value]
    /\ UNCHANGED <<asked, seen>>

Exists(w) ==
    /\ answer[w] = "none" /\ store[asked[w].order] # Nothing
    /\ answer' = [answer EXCEPT ![w] = "exists"]
    /\ UNCHANGED <<store, asked, seen>>

\* The writers W fail at once and have stored nothing.
Fail(W) ==
    /\ \A w \in W : answer[w] = "none"
    /\ answer' = [w \in Writers |-> IF w \in W THEN "failed" ELSE answer[w]]
    /\ UNCHANGED <<store, asked, seen>>

Look(r, o) ==
    /\ seen' = [seen EXCEPT ![r] = [order |-> o, done |-> FALSE, value |-> Nothing]]
    /\ UNCHANGED <<store, asked, answer>>

Read(r, o) ==
    /\ seen' = [seen EXCEPT ![r] = [order |-> o, done |-> TRUE, value |-> store[o]]]
    /\ UNCHANGED <<store, asked, answer>>

Next ==
    \/ \E w \in Writers :
          \/ \E verdict \in {"none", "invalid"}, request \in Requests : Ask(w, request, verdict)
          \/ \E verdict \in {"created", "failed"} : Create(w, verdict)
          \/ Exists(w)
    \/ \E W \in SUBSET Writers : Fail(W)
    \/ \E r \in Readers, o \in Orders : Look(r, o) \/ Read(r, o)

Spec == Init /\ [][Next]_vars
=============================================================================
