----------------------------- MODULE MCDelivery -----------------------------
(***************************************************************************)
(* Delivery on two nodes, for TLC.                                         *)
(***************************************************************************)
EXTENDS DeliveryInvariant, TLC

CONSTANTS nodeA, nodeB

MCNodes == {nodeA, nodeB}
MCPeer == (nodeA :> nodeB) @@ (nodeB :> nodeA)

OneWay == {nodeA}
BothWays == {nodeA, nodeB}

OneWeight == 0 :> 1
TwoWeights == (0 :> 2) @@ (1 :> 1)
=============================================================================
