------------------------------ MODULE Executor ------------------------------
(***************************************************************************)
(* What a loop promises to those who hand it callbacks: every callback     *)
(* that was posted is executed at most once, and the callbacks are executed *)
(* in the order in which they were posted.  The promise does not mention   *)
(* wakeups, two queues or threads; EventLoop implements it.                 *)
(***************************************************************************)
EXTENDS Sequences

CONSTANT Jobs

VARIABLES
    posted,   \* the jobs that have been posted
    todo,     \* those not yet executed, oldest first
    done      \* those executed, in the order of execution

Init == posted = {} /\ todo = <<>> /\ done = <<>>

Post(j) ==
    /\ j \notin posted
    /\ posted' = posted \cup {j}
    /\ todo' = Append(todo, j)
    /\ UNCHANGED done

Execute ==
    /\ todo # <<>>
    /\ done' = Append(done, Head(todo))
    /\ todo' = Tail(todo)
    /\ UNCHANGED posted

Next == (\E j \in Jobs : Post(j)) \/ Execute

Spec == Init /\ [][Next]_<<posted, todo, done>>
=============================================================================
