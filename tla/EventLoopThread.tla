-------------------------- MODULE EventLoopThread ---------------------------
(***************************************************************************)
(* mymuduo/event_loop_thread.{h,cpp} and the thread.{h,cpp} it uses: an    *)
(* owner thread creates an EventLoopThread, StartLoop() starts a thread     *)
(* that builds an EventLoop on its stack and publishes its address in       *)
(* loop_, and the destructor quits the loop and joins the thread.           *)
(*                                                                         *)
(* The loop is EventLoop, running inside the thread; the owner's Quit is    *)
(* the foreign Quit call of the one element of Quitters, and the owner is   *)
(* the foreign thread that queues functors while it holds the loop.         *)
(***************************************************************************)
EXTENDS EventLoop

VARIABLES
    owner,   \* where the owner is
    thread,  \* where ThreadFunc is
    loop_,   \* loop_ # nullptr
    quit_by  \* history: who has set quit_ since Loop() last reset it

ownVars == <<owner, thread, loop_>>
allVars == <<ownVars, quit_by, loopVars>>

\* starting: in StartLoop, about to test loop_.  waiting: in cond_.wait.  holding:
\* StartLoop has returned.  quitting, waking: ~EventLoopThread has read a loop_ that
\* is set and calls Quit.  dismantling: it has read a null loop_ and destroys its
\* members.  joining: in Join or ~Thread.  undefined: the owner has used an EventLoop
\* that is gone, or destroyed a mutex_ that is held; nothing more is said of it.
OwnerStates == {"new", "starting", "waiting", "holding", "quitting", "waking", "dismantling",
                "joining", "destroyed", "undefined"}
\* init: the EventLoop exists, the ThreadInitCallback runs.  published: loop_ is
\* set.  leaving: loop_ is null again, mutex_ is held.  unlocked: mutex_ is free, the
\* EventLoop still exists.  done: it is destroyed.
ThreadStates == {"unborn", "init", "published", "leaving", "unlocked", "done"}

\* What StartLoop returned points to an EventLoop.
LoopExists == thread # "done"

-----------------------------------------------------------------------------
(* The owner.                                                              *)

\* StartLoop up to the lock.  Thread::Start returns when the thread exists.
StartLoop ==
    /\ owner = "new" /\ thread = "unborn"
    /\ owner' = "starting" /\ thread' = "init"
    /\ UNCHANGED <<loop_, quit_by, loopVars>>

\* cond_.wait(lock, loop_ != nullptr) is satisfied ...
StartLoopReturns ==
    /\ owner = "starting" /\ loop_
    /\ owner' = "holding"
    /\ UNCHANGED <<thread, loop_, quit_by, loopVars>>

\* ... or sleeps, and the condition variable may wake it for no reason.
StartLoopWaits ==
    /\ owner = "starting" /\ ~loop_ /\ thread # "leaving"
    /\ owner' = "waiting"
    /\ UNCHANGED <<thread, loop_, quit_by, loopVars>>

StartLoopSpurious ==
    /\ owner = "waiting"
    /\ owner' = "starting"
    /\ UNCHANGED <<thread, loop_, quit_by, loopVars>>

\* The owner hands functors to the loop it got from StartLoop ...
OwnerQueues ==
    /\ owner = "holding" /\ LoopExists
    /\ \E f \in Functors : QueueInLoop(f) \/ QueueInLoopWakeup(f)
    /\ UNCHANGED <<ownVars, quit_by>>

\* ... also when that has ended by itself and is gone.
OwnerQueuesLate ==
    /\ owner = "holding" /\ ~LoopExists
    /\ \E f \in Functors : call[f] \in {"new", "pushed"}
    /\ owner' = "undefined"
    /\ UNCHANGED <<thread, loop_, quit_by, loopVars>>

\* ~EventLoopThread: if (loop_), read without mutex_.
Destroy ==
    /\ owner \in {"new", "holding"}
    /\ \A f \in Functors : call[f] # "pushed"
    /\ owner' = IF loop_ THEN "quitting" ELSE "dismantling"
    /\ UNCHANGED <<thread, loop_, quit_by, loopVars>>

\* loop_->Quit(), the flag and the wakeup.  The pointer may be the one read by the
\* if, so that the loop need only exist.
DestroyQuit ==
    /\ owner = "quitting" /\ LoopExists
    /\ \E q \in Quitters : Quit(q)
    /\ owner' = "waking" /\ quit_by' = quit_by \cup {"owner"}
    /\ UNCHANGED <<thread, loop_>>

DestroyWakeup ==
    /\ owner = "waking" /\ LoopExists
    /\ \E q \in Quitters : QuitWakeup(q)
    /\ owner' = "joining"
    /\ UNCHANGED <<thread, loop_, quit_by>>

\* The same Quit when loop_ is null if it is read again, or the loop is gone before
\* the flag or between the flag and the wakeup.
DestroyQuitLate ==
    /\ \/ owner = "quitting" /\ ~loop_
       \/ owner = "waking" /\ ~LoopExists
    /\ owner' = "undefined"
    /\ UNCHANGED <<thread, loop_, quit_by, loopVars>>

\* faulty WithoutLoop: a thread whose loop_ is null again is not joined
ForgetThread == "destroyed"

\* What ~Thread does: join the thread if it was started.
WithoutLoop == IF thread = "unborn" THEN "destroyed" ELSE "joining"

\* The members are destroyed last to first: mutex_ before thread_, which joins.
DestroyMembers ==
    /\ owner = "dismantling"
    /\ owner' = IF thread = "leaving" THEN "undefined" ELSE WithoutLoop
    /\ UNCHANGED <<thread, loop_, quit_by, loopVars>>

Joined ==
    /\ owner = "joining" /\ thread = "done"
    /\ owner' = "destroyed"
    /\ UNCHANGED <<thread, loop_, quit_by, loopVars>>

-----------------------------------------------------------------------------
(* ThreadFunc.                                                             *)

\* A callback of the loop thread, which may call Quit.
Callback ==
    \/ CallbackRuns /\ UNCHANGED quit_by
    \/ QuitLocal /\ quit_by' = quit_by \cup {"callback"}

\* callback_(&loop), which may queue callbacks in its loop.
InitCallback ==
    /\ thread = "init"
    /\ Callback
    /\ UNCHANGED ownVars

\* faulty Notified: the notification is forgotten
NotNotified == owner

\* cond_.notify_one()
Notified == IF owner = "waiting" THEN "starting" ELSE owner

\* loop_ = &loop; cond_.notify_one();
Publish ==
    /\ thread = "init"
    /\ thread' = "published" /\ loop_' = TRUE /\ owner' = Notified
    /\ UNCHANGED <<quit_by, loopVars>>

RunLoop ==
    /\ thread = "published"
    /\ \/ (EnterLoop \/ LoopStep) /\ UNCHANGED quit_by
       \/ ResetQuit /\ quit_by' = {}
    /\ UNCHANGED ownVars

RunCallback ==
    /\ thread = "published" /\ lpc # "constructed"
    /\ Callback \/ (PollOther /\ UNCHANGED quit_by)
    /\ UNCHANGED ownVars

\* loop_ = nullptr
ResetLoop == FALSE

\* Loop() has returned: lock mutex_, reset loop_.
Leave ==
    /\ thread = "published" /\ lpc = "exited"
    /\ thread' = "leaving" /\ loop_' = ResetLoop
    /\ UNCHANGED <<owner, quit_by, loopVars>>

\* The locals of ThreadFunc are destroyed last to first: the lock ...
Unlock ==
    /\ thread = "leaving"
    /\ thread' = "unlocked"
    /\ UNCHANGED <<owner, loop_, quit_by, loopVars>>

\* ... and the EventLoop; the thread ends.
ThreadEnds ==
    /\ thread = "unlocked"
    /\ thread' = "done"
    /\ UNCHANGED <<owner, loop_, quit_by, loopVars>>

-----------------------------------------------------------------------------
ThreadInit ==
    Init /\ owner = "new" /\ thread = "unborn" /\ loop_ = FALSE /\ quit_by = {}

OwnerStep ==
    \/ StartLoopReturns \/ StartLoopWaits
    \/ DestroyQuit \/ DestroyWakeup \/ DestroyQuitLate \/ DestroyMembers \/ Joined

ThreadStep == Publish \/ RunLoop \/ Leave \/ Unlock \/ ThreadEnds

ThreadNext ==
    \/ StartLoop \/ StartLoopSpurious \/ OwnerQueues \/ OwnerQueuesLate \/ Destroy \/ OwnerStep
    \/ InitCallback \/ RunCallback \/ ThreadStep
    \/ owner \in {"destroyed", "undefined"} /\ UNCHANGED allVars

ThreadSpec == ThreadInit /\ [][ThreadNext]_allVars

\* Both threads are scheduled once they are inside a function of this file; the
\* owner is free to keep the object for ever.
FairThreadSpec ==
    ThreadSpec /\ WF_allVars(OwnerStep) /\ WF_allVars(ThreadStep)

-----------------------------------------------------------------------------
(* What EventLoopThread promises.                                          *)

\* While loop_ is set, the EventLoop it points to exists, and what StartLoop returned
\* stays published until a callback ends the loop.  The owner uses a loop that is gone,
\* or destroys a held mutex_, only if a callback called Quit as well, with one
\* exception: the second half of its own Quit (event_loop.cpp:135-136) may come after
\* the first half has ended the loop.  The destructor returns only after the thread
\* has ended.
LifetimesNested ==
    /\ loop_ => thread = "published"
    /\ owner = "holding" => loop_ \/ "callback" \in quit_by
    /\ owner = "undefined" =>
         "callback" \in quit_by \/ \E q \in Quitters : quitter[q] = "set"
    /\ owner = "destroyed" => thread \in {"unborn", "done"}

\* StartLoop returns, whether it tests loop_ before or after it is set, unless a
\* callback ended the loop before it looked at loop_.
StartLoopAlwaysReturns ==
    owner \in {"starting", "waiting"} ~> owner = "holding" \/ lpc = "exited"

\* The destructor of a loop that has reset quit_ (event_loop.cpp:98) ends the loop and
\* returns, unless it runs into one of the uses that LifetimesNested limits.
DtorOfLoopingReturns ==
    owner = "quitting" /\ lpc \notin {"constructed", "entering"} ~>
        owner \in {"destroyed", "undefined"}

\* The destructor does not hang: it quits the loop and joins the thread.
ThreadDtorReturns ==
    owner \in {"quitting", "joining"} ~> owner \in {"destroyed", "undefined"}
=============================================================================
