----------------------------- MODULE GracePeriod -----------------------------
(***************************************************************************)
(* What a safe memory reclamation scheme promises its clients, whatever    *)
(* the scheme: an object handed to retire() is given back to the allocator *)
(* only after every thread that was inside a pinned section at that moment *)
(* has left that section.                                                  *)
(***************************************************************************)
EXTENDS FiniteSets

CONSTANTS Thread, Node

VARIABLES
    pinned,     \* the threads inside a pinned section
    retired,    \* the objects retired and not yet given back
    waits       \* waits[n]: threads pinned at n's retirement and since then

gpVars == <<pinned, retired, waits>>

GPTypeOK ==
    /\ pinned \in SUBSET Thread
    /\ retired \in SUBSET Node
    /\ waits \in [Node -> SUBSET Thread]

GPInit ==
    /\ pinned = {}
    /\ retired = {}
    /\ waits = [n \in Node |-> {}]

GPPin(t) ==
    /\ t \notin pinned
    /\ pinned' = pinned \union {t}
    /\ UNCHANGED <<retired, waits>>

GPUnpin(t) ==
    /\ t \in pinned
    /\ pinned' = pinned \ {t}
    /\ waits' = [n \in Node |-> waits[n] \ {t}]
    /\ UNCHANGED retired

GPRetire(n) ==
    /\ n \notin retired
    /\ retired' = retired \union {n}
    /\ waits' = [waits EXCEPT ![n] = pinned]
    /\ UNCHANGED pinned

GPReclaim(n) ==
    /\ n \in retired
    /\ waits[n] = {}
    /\ retired' = retired \ {n}
    /\ UNCHANGED <<pinned, waits>>

GPNext ==
    \/ \E t \in Thread : GPPin(t) \/ GPUnpin(t)
    \/ \E n \in Node : GPRetire(n) \/ GPReclaim(n)

GPSpec == GPInit /\ [][GPNext]_gpVars
=============================================================================
