----------------------------- MODULE MCRouting ------------------------------
(***************************************************************************)
(* Topologies for Routing.  Lower case names are gateways.                 *)
(***************************************************************************)
EXTENDS Routing

CONSTANTS a, b, c, d, A, D

AtOnce == [l \in Links |-> 0]

\* Three gateways in a ring.
RingNodes == {a, b, c}
RingGateways == RingNodes
RingLinks == {{a, b}, {b, c}, {a, c}}

\* The same with an ordinary node at one of them.
TailedNodes == RingNodes \cup {D}
TailedGateways == RingGateways
TailedLinks == RingLinks \cup {{c, D}}

\* Two ordinary nodes that two gateways join: A---b---D and A---c---D.
SquareNodes == {A, b, c, D}
SquareGateways == {b, c}
SquareLinks == {{A, b}, {A, c}, {D, b}, {D, c}}

\* Three gateways in a row and an ordinary node that first the one and then
\* the other end of the row is linked to.
DetourNodes == {a, b, c, D}
DetourGateways == {a, b, c}
DetourLinks == {{a, b}, {b, c}, {c, D}, {a, D}}
ShortcutLast == ({c, D} :> 0) @@ ({b, c} :> 1) @@ ({a, b} :> 2) @@ ({a, D} :> 3)

\* A---a---b---c---d---D, joined in the middle after both halves are up.
LongNodes == {A, a, b, c, d, D}
LongGateways == {a, b, c, d}
LongLinks == {{A, a}, {a, b}, {b, c}, {c, d}, {d, D}}
MiddleLast ==
    ({A, a} :> 0) @@ ({a, b} :> 1) @@ ({d, D} :> 2) @@ ({c, d} :> 3) @@ ({b, c} :> 4)
=============================================================================
