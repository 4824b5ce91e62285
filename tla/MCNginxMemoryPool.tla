------------------------- MODULE MCNginxMemoryPool --------------------------
(* Small pools for TLC: the constants come from the .cfg files.            *)
EXTENDS NginxMemoryPool, TLC

\* Addresses and handlers are interchangeable.
Symmetry == Permutations(LargeAddrs) \cup Permutations(Handlers)
=============================================================================
