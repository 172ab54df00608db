---------------------------- MODULE MCHeartbeat ----------------------------
(***************************************************************************)
(* Heartbeat with model values for the sockets, which are alike.           *)
(***************************************************************************)
EXTENDS Heartbeat, TLC

Symmetry == Permutations(Sockets)
=============================================================================
