---------------------------- MODULE MCTcpServer -----------------------------
(* Small servers for TLC: the constants come from the .cfg file.            *)
EXTENDS TcpServer
=============================================================================
