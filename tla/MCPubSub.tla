------------------------------ MODULE MCPubSub ------------------------------
(***************************************************************************)
(* Values for PubSub.                                                      *)
(***************************************************************************)
EXTENDS PubSub

CONSTANTS s1, s2, s3, noOne
Two == {s1, s2}
Three == {s1, s2, s3}
OneSocket == {1}
TwoSockets == {1, 2}
=============================================================================
