----------------------------- MODULE MCAcceptor -----------------------------
(* Instances of Acceptor for TLC. *)
EXTENDS Acceptor

CONSTANTS p1, p2, p3, p4

MCPeers == {p1, p2, p3, p4}
=============================================================================
