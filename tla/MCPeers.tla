------------------------------- MODULE MCPeers -------------------------------
(* Two connections to one peer, and one to a second. *)
EXTENDS Peers, TLC

CONSTANTS c1, c2, c3

Keys == (c1 :> "k") @@ (c2 :> "k") @@ (c3 :> "l")
=============================================================================
