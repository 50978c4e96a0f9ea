-------------------------- MODULE MCTcpConnection ---------------------------
(* Instances of TcpConnection for TLC; the bounds are in the cfg files. *)
EXTENDS TcpConnection
=============================================================================
