--------------------------- MODULE PriorityTracker ---------------------------
(***************************************************************************)
(* The weighted round-robin of patterns/priority_tracker.hpp: how many     *)
(* parts of each priority are sent in a row before the next priority gets  *)
(* its turn.  A tracker is a record [priority, counter].                   *)
(***************************************************************************)
EXTENDS Integers, FiniteSetsExt

CONSTANTS
    PriorityCount,  \* PriorityDistribution::SIZE
    Distribution    \* weight of each priority

Priorities == 0 .. (PriorityCount - 1)

ASSUME DistributionAssumption ==
    /\ PriorityCount \in Nat \ {0}
    /\ Distribution \in [Priorities -> Nat \ {0}]

PriorityTracker == [priority : Priorities, counter : Nat]

InitialTurn == [priority |-> 0, counter |-> 0]

Following(p) == (p + 1) % PriorityCount

\* One more part has been sent with the current priority.
NextTurn(t) ==
    IF t.counter = Distribution[t.priority]
    THEN [priority |-> Following(t.priority), counter |-> 1]
    ELSE [t EXCEPT !.counter = @ + 1]

\* How many times skip() is called from t before p is the current priority.
Skips(t, p) == (p - t.priority) % PriorityCount

\* The tracker after these skips: a skip resets the counter.
SkipTo(t, p) ==
    IF p = t.priority THEN t ELSE [priority |-> p, counter |-> 0]

\* The whole round has been skipped: the scan ends where it began.
SkipAll(t) == [t EXCEPT !.counter = 0]

\* The first priority of ready in the order in which the scan visits them.
FirstReady(t, ready) ==
    CHOOSE p \in ready : \A q \in ready : Skips(t, p) <= Skips(t, q)
=============================================================================
