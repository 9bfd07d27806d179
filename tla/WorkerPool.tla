----------------------------- MODULE WorkerPool -----------------------------
(* What a bounded pool promises: at most Size jobs are in work, a job is    *)
(* refused only while the pool is full, and a place is given up once.       *)
EXTENDS Naturals, FiniteSets

CONSTANTS Jobs, Size

VARIABLES waiting, busy, refused

pvars == <<waiting, busy, refused>>

Init == waiting = Jobs /\ busy = {} /\ refused = {}

Take(j) ==
    /\ j \in waiting /\ Cardinality(busy) < Size
    /\ waiting' = waiting \ {j} /\ busy' = busy \cup {j}
    /\ UNCHANGED refused

Refuse(j) ==
    /\ j \in waiting /\ Cardinality(busy) = Size
    /\ waiting' = waiting \ {j} /\ refused' = refused \cup {j}
    /\ UNCHANGED busy

\* A job that never asks for a place.
Withdraw(j) ==
    /\ j \in waiting
    /\ waiting' = waiting \ {j}
    /\ UNCHANGED <<busy, refused>>

Leave(j) ==
    /\ j \in busy
    /\ busy' = busy \ {j}
    /\ UNCHANGED <<waiting, refused>>

\* The pool is lost with all that was in it.
Reset ==
    /\ busy' = {}
    /\ UNCHANGED <<waiting, refused>>

Next ==
    \/ \E j \in Jobs : Take(j) \/ Refuse(j) \/ Withdraw(j) \/ Leave(j)
    \/ Reset

Spec == Init /\ [][Next]_pvars
=============================================================================
