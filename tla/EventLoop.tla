----------------------------- MODULE EventLoop ------------------------------
(***************************************************************************)
(* mymuduo/event_loop.{h,cpp}: one thread runs Loop(), which alternates     *)
(* between epoll_wait, the handlers of the active channels and the pending  *)
(* functors; other threads hand it functors with QueueInLoop / RunInLoop    *)
(* and stop it with Quit.  They share quit_, pending_functors_ (under       *)
(* mutex_) and the counter of the eventfd wakeup_fd_.                       *)
(*                                                                         *)
(* Foreign calls are two steps, the change of the shared variable and the   *)
(* write to the eventfd, because the loop thread may run in between.  The   *)
(* poller appears as the two ways in which Poll can return.                 *)
(***************************************************************************)
EXTENDS Integers, Sequences

CONSTANTS
    Functors,         \* the callbacks handed to the loop, each of them once
    Quitters,         \* the foreign threads that call Quit, each of them once
    QueueBeforeLoop,  \* may the loop thread queue callbacks before Loop()?
    CallbacksQuit     \* may handlers and functors call Quit?

ASSUME SwitchesAssumption ==
    QueueBeforeLoop \in BOOLEAN /\ CallbacksQuit \in BOOLEAN

VARIABLES
    lpc,                        \* where the loop thread is
    looping_, quit_, calling_pending_functors_,
    pending_functors_,
    functors,                   \* the local vector of DoPendingFunctors
    eventfd,                    \* the counter of wakeup_fd_
    active,                     \* wakeup_channel_ is in active_channels_
    call,                       \* where each functor's QueueInLoop call is
    quitter,                    \* where each foreign Quit call is
    executed                    \* history: the queued functors, as executed

flags  == <<looping_, quit_, calling_pending_functors_>>
queues == <<pending_functors_, functors, executed>>
loopVars == <<lpc, flags, queues, eventfd, active, call, quitter>>

\* constructed: Loop() has not been called.  entering: between the two stores at
\* its start.  check: at while (!quit_).  poll: inside epoll_wait.  handle: running
\* the active channels' handlers.  pending: in DoPendingFunctors, before the swap.
\* run: executing functors.  exited: Loop() has returned, the object still exists.
LoopStates == {"constructed", "entering", "check", "poll", "handle", "pending", "run", "exited"}
\* pushed: in the queue, wakeup() still to come.  inline: executed by RunInLoop.
CallStates == {"new", "pushed", "queued", "inline"}
QuitStates == {"new", "set", "done"}

-----------------------------------------------------------------------------
(* Foreign threads.                                                        *)

\* QueueInLoop from another thread (RunInLoop there is the same): the push ...
QueueInLoop(f) ==
    /\ call[f] = "new"
    /\ pending_functors_' = Append(pending_functors_, f)
    /\ call' = [call EXCEPT ![f] = "pushed"]
    /\ UNCHANGED <<lpc, flags, functors, executed, eventfd, active, quitter>>

\* faulty Wakeup: the write is forgotten
NoWakeup == eventfd

\* write(wakeup_fd_, &one, 8)
Wakeup == eventfd + 1

\* ... and the wakeup.
QueueInLoopWakeup(f) ==
    /\ call[f] = "pushed"
    /\ eventfd' = Wakeup
    /\ call' = [call EXCEPT ![f] = "queued"]
    /\ UNCHANGED <<lpc, flags, queues, active, quitter>>

\* Quit from another thread: the flag ...
Quit(q) ==
    /\ quitter[q] = "new"
    /\ quit_' = TRUE
    /\ quitter' = [quitter EXCEPT ![q] = "set"]
    /\ UNCHANGED <<lpc, looping_, calling_pending_functors_, queues, eventfd, active, call>>

\* ... and the wakeup.
QuitWakeup(q) ==
    /\ quitter[q] = "set"
    /\ eventfd' = Wakeup
    /\ quitter' = [quitter EXCEPT ![q] = "done"]
    /\ UNCHANGED <<lpc, flags, queues, active, call>>

-----------------------------------------------------------------------------
(* Calls made by the loop thread itself: by a handler, by the functor that *)
(* is being executed or, before Loop(), by an initialisation callback.      *)

InCallback ==
    \/ lpc = "handle"
    \/ lpc = "run" /\ functors # <<>>
    \/ lpc = "constructed" /\ QueueBeforeLoop

\* faulty MustWakeup: the loop thread never needs to wake itself
NeverWakeup == FALSE

\* !IsInLoopThread() || calling_pending_functors_, in the loop thread
MustWakeup == calling_pending_functors_

QueueInLoopLocal(f) ==
    /\ call[f] = "new" /\ InCallback
    /\ pending_functors_' = Append(pending_functors_, f)
    /\ eventfd' = IF MustWakeup THEN Wakeup ELSE eventfd
    /\ call' = [call EXCEPT ![f] = "queued"]
    /\ UNCHANGED <<lpc, flags, functors, executed, active, quitter>>

RunInLoopLocal(f) ==
    /\ call[f] = "new" /\ InCallback
    /\ call' = [call EXCEPT ![f] = "inline"]
    /\ UNCHANGED <<lpc, flags, queues, eventfd, active, quitter>>

QuitLocal ==
    /\ CallbacksQuit /\ InCallback
    /\ quit_' = TRUE
    /\ UNCHANGED <<lpc, looping_, calling_pending_functors_, queues, eventfd, active, call, quitter>>

-----------------------------------------------------------------------------
(* The loop thread in Loop().                                              *)

\* looping_ = true ...
EnterLoop ==
    /\ lpc = "constructed"
    /\ lpc' = "entering"
    /\ looping_' = TRUE
    /\ UNCHANGED <<quit_, calling_pending_functors_, queues, eventfd, active, call, quitter>>

\* ... and quit_ = false, which overwrites every Quit that came before.
ResetQuit ==
    /\ lpc = "entering"
    /\ lpc' = "check"
    /\ quit_' = FALSE
    /\ UNCHANGED <<looping_, calling_pending_functors_, queues, eventfd, active, call, quitter>>

\* while (!quit_) : leave, with looping_ = false, which nobody reads, or clear
\* active_channels_ and call Poll.
CheckQuit ==
    /\ lpc = "check"
    /\ IF quit_ THEN lpc' = "exited" /\ looping_' = FALSE
                ELSE lpc' = "poll" /\ UNCHANGED looping_
    /\ active' = FALSE
    /\ UNCHANGED <<quit_, calling_pending_functors_, queues, eventfd, call, quitter>>

\* epoll_wait reports the readable eventfd (level triggered).
PollWakeup ==
    /\ lpc = "poll" /\ eventfd > 0
    /\ lpc' = "handle"
    /\ active' = TRUE
    /\ UNCHANGED <<flags, queues, eventfd, call, quitter>>

\* epoll_wait returns for another reason: other descriptors, the kPollTimeMs
\* timeout, a signal.
PollOther ==
    /\ lpc = "poll"
    /\ lpc' = "handle"
    /\ UNCHANGED <<flags, queues, eventfd, active, call, quitter>>

\* read(wakeup_fd_, &one, 8) resets the counter.
HandleRead ==
    /\ lpc = "handle" /\ active
    /\ eventfd' = 0
    /\ active' = FALSE
    /\ UNCHANGED <<lpc, flags, queues, call, quitter>>

\* All handlers have run; DoPendingFunctors begins.
HandlersDone ==
    /\ lpc = "handle" /\ ~active
    /\ lpc' = "pending"
    /\ calling_pending_functors_' = TRUE
    /\ UNCHANGED <<looping_, quit_, queues, eventfd, active, call, quitter>>

\* faulty AfterSwap: the functors are copied, not swapped
AfterCopy == pending_functors_

\* pending_functors_ after functors.swap(pending_functors_)
AfterSwap == <<>>

SwapFunctors ==
    /\ lpc = "pending"
    /\ lpc' = "run"
    /\ functors' = pending_functors_
    /\ pending_functors_' = AfterSwap
    /\ UNCHANGED <<flags, executed, eventfd, active, call, quitter>>

\* The functor that is being executed returns.
RunFunctor ==
    /\ lpc = "run" /\ functors # <<>>
    /\ executed' = Append(executed, Head(functors))
    /\ functors' = Tail(functors)
    /\ UNCHANGED <<lpc, flags, pending_functors_, eventfd, active, call, quitter>>

FunctorsDone ==
    /\ lpc = "run" /\ functors = <<>>
    /\ lpc' = "check"
    /\ calling_pending_functors_' = FALSE
    /\ UNCHANGED <<looping_, quit_, queues, eventfd, active, call, quitter>>

-----------------------------------------------------------------------------
Init ==
    /\ lpc = "constructed"
    /\ looping_ = FALSE /\ quit_ = FALSE /\ calling_pending_functors_ = FALSE
    /\ pending_functors_ = <<>> /\ functors = <<>> /\ executed = <<>>
    /\ eventfd = 0 /\ active = FALSE
    /\ call = [f \in Functors |-> "new"]
    /\ quitter = [q \in Quitters |-> "new"]

ForeignStep ==
    \/ \E f \in Functors : QueueInLoop(f) \/ QueueInLoopWakeup(f)
    \/ \E q \in Quitters : Quit(q) \/ QuitWakeup(q)

CallbackRuns == \E f \in Functors : QueueInLoopLocal(f) \/ RunInLoopLocal(f)

CallbackStep == CallbackRuns \/ QuitLocal

\* What the loop thread does without outside help.
LoopStep ==
    \/ CheckQuit \/ PollWakeup \/ HandleRead \/ HandlersDone
    \/ SwapFunctors \/ RunFunctor \/ FunctorsDone

Terminated == lpc = "exited" /\ UNCHANGED loopVars

Next ==
    \/ ForeignStep \/ CallbackStep
    \/ EnterLoop \/ ResetQuit \/ LoopStep \/ PollOther \/ Terminated

Spec == Init /\ [][Next]_loopVars

\* The loop thread and threads inside QueueInLoop and Quit are scheduled, and
\* callbacks return.  Poll need not return unless the eventfd is readable: what
\* follows must not depend on the kPollTimeMs timeout or on other traffic.
FairSpec ==
    /\ Spec
    /\ WF_loopVars(EnterLoop) /\ WF_loopVars(ResetQuit) /\ WF_loopVars(LoopStep)
    /\ \A f \in Functors : WF_loopVars(QueueInLoopWakeup(f))
    /\ \A q \in Quitters : WF_loopVars(QuitWakeup(q))

-----------------------------------------------------------------------------
(* What the loop promises.                                                 *)

\* The values the variables may take.
TypeOK ==
    /\ lpc \in LoopStates
    /\ looping_ \in BOOLEAN /\ quit_ \in BOOLEAN /\ calling_pending_functors_ \in BOOLEAN
    /\ pending_functors_ \in Seq(Functors) /\ functors \in Seq(Functors)
    /\ executed \in Seq(Functors)
    /\ eventfd \in Nat
    /\ active \in BOOLEAN
    /\ call \in [Functors -> CallStates]
    /\ quitter \in [Quitters -> QuitStates]

\* The loop never blocks in epoll_wait on work that is already there: if functors
\* are pending, the eventfd is readable or the thread that pushed one is about to
\* write it.
NoLostWakeup ==
    lpc = "poll" /\ pending_functors_ # <<>> =>
        eventfd > 0 \/ \E f \in Functors : call[f] = "pushed"

\* The loop never blocks in epoll_wait after Quit: the eventfd is readable or the
\* thread that set quit_ is about to write it.
NoLostQuit ==
    lpc = "poll" /\ quit_ => eventfd > 0 \/ \E q \in Quitters : quitter[q] = "set"

\* The loop implements an executor: functors are executed at most once and in
\* the order in which they entered pending_functors_, across the swap.
Exec == INSTANCE Executor WITH
    Jobs   <- Functors,
    posted <- {f \in Functors : call[f] \in {"pushed", "queued"}},
    todo   <- functors \o pending_functors_,
    done   <- executed

ImplementsExecutor == Exec!Spec

\* A queued functor is executed, without waiting for the poll timeout, unless the
\* loop is told to quit.
QueuedIsExecuted ==
    \A f \in Functors :
        call[f] \in {"pushed", "queued"} ~> quit_ \/ \E i \in DOMAIN executed : executed[i] = f
=============================================================================
