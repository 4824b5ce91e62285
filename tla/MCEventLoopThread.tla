-------------------------- MODULE MCEventLoopThread -------------------------
(* Small instances for TLC: the constants come from the .cfg files.        *)
EXTENDS EventLoopThread
=============================================================================
