------------------------------- MODULE MCPeer -------------------------------
(***************************************************************************)
(* Values of the constants of Peer.                                        *)
(***************************************************************************)
EXTENDS Peer, TLC

CONSTANTS A, B

Both == {A, B}
OnlyA == {A}
OnlyB == {B}
Nobody == {}

\* A has the greater ID: its requests are answered with a channel.
IDs == (A :> 2) @@ (B :> 1)
=============================================================================
