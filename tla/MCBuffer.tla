------------------------------ MODULE MCBuffer ------------------------------
(* A small buffer for TLC.                                                 *)
EXTENDS Buffer

MCBytes  == {0, 1, 2}
\* Strings of distinct bytes show a lost, repeated or displaced byte.
MCChunks == {<<1>>, <<2>>, <<1, 2>>, <<2, 1, 2>>}
=============================================================================
