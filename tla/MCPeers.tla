------------------------------ MODULE MCPeers ------------------------------
(* A small instance of Peers: one seed and one other peer, both of which   *)
(* may send something invalid; two such messages make a ban.               *)
EXTENDS Peers
=============================================================================
