-------------------------- MODULE MCConnectionPool --------------------------
(* Small pools for TLC: the constants come from the .cfg files.            *)
EXTENDS ConnectionPool
=============================================================================
