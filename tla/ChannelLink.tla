---------------------------- MODULE ChannelLink -----------------------------
(***************************************************************************)
(* What the layers above are promised of the channel between two nodes:    *)
(* each end is told of it and of its loss in turn, both ends of the same   *)
(* connection, and no end is told of a new one before the other end has    *)
(* been told of the loss of the old.  Delivery and Routing are written     *)
(* over such channels.                                                     *)
(***************************************************************************)
CONSTANT Nodes

VARIABLES
    wire,   \* whether the connection the ends were told of is alive
    up      \* up[n]: n was told of the channel, and not yet of its loss

vars == <<wire, up>>

Init == wire = FALSE /\ up = [n \in Nodes |-> FALSE]

EstablishFirst(n) ==
    /\ ~wire /\ \A m \in Nodes : ~up[m]
    /\ wire' = TRUE
    /\ up' = [up EXCEPT ![n] = TRUE]

EstablishSecond(n) ==
    /\ wire /\ ~up[n]
    /\ up' = [up EXCEPT ![n] = TRUE]
    /\ UNCHANGED wire

Break ==
    /\ wire
    /\ wire' = FALSE
    /\ UNCHANGED up

Destroy(n) ==
    /\ ~wire /\ up[n]
    /\ up' = [up EXCEPT ![n] = FALSE]
    /\ UNCHANGED wire

Next ==
    \/ Break
    \/ \E n \in Nodes : EstablishFirst(n) \/ EstablishSecond(n) \/ Destroy(n)

Spec == Init /\ [][Next]_vars
=============================================================================
