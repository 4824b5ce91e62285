-------------------------- MODULE MCSgiMemoryPool ---------------------------
(* A small pool for TLC: the constants come from the .cfg file.            *)
EXTENDS SgiMemoryPool, TLC

\* The threads are interchangeable.
Symmetry == Permutations(Clients)
=============================================================================
