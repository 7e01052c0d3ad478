------------------------------ MODULE MCPeerSet ------------------------------
(***************************************************************************)
(* A seed, a node of another network, an address whose IP address is       *)
(* unspecified and one that the endpoint cannot connect to; the seed host  *)
(* name resolves to three of them.                                         *)
(***************************************************************************)
EXTENDS PeerSet

MCHost == <<"v", "f", "a">>
=============================================================================
