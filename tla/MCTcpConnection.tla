-------------------------- MODULE MCTcpConnection ---------------------------
(* Small connections for TLC: the constants come from the .cfg files.       *)
EXTENDS TcpConnection
=============================================================================
