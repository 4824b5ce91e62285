----------------------------- MODULE ByteQueue ------------------------------
(***************************************************************************)
(* What a buffer promises: bytes leave it in the order in which they were   *)
(* put in, none is lost, repeated or changed.  The promise does not mention *)
(* positions, moving or growing; Buffer implements it and TcpConnection     *)
(* relies on it.                                                            *)
(***************************************************************************)
EXTENDS Naturals, Sequences

CONSTANT Bytes

VARIABLES
    content,   \* the bytes inside, oldest first
    data       \* the bytes that the last call passed in or out

Init == content = <<>> /\ data = <<>>

Oldest(n) == SubSeq(content, 1, n)
Drop(n)   == SubSeq(content, n + 1, Len(content))

Put == data' \in Seq(Bytes) /\ content' = content \o data'

\* Look at the oldest bytes, remove them, or both.
Look   == (\E n \in 0..Len(content) : data' = Oldest(n)) /\ UNCHANGED content
Remove == (\E n \in 0..Len(content) : content' = Drop(n)) /\ UNCHANGED data
Take   == \E n \in 0..Len(content) : data' = Oldest(n) /\ content' = Drop(n)

Next == Put \/ Look \/ Remove \/ Take

Spec == Init /\ [][Next]_<<content, data>>
=============================================================================
