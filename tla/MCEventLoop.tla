----------------------------- MODULE MCEventLoop ----------------------------
(* Small loops for TLC: the constants come from the .cfg files.            *)
EXTENDS EventLoop
=============================================================================
