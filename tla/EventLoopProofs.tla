-------------------------- MODULE EventLoopProofs ---------------------------
(***************************************************************************)
(* Proofs about EventLoop for every set of functors and quitting threads.   *)
(* NoLostWakeup speaks of a loop blocked in Poll only; it is inductive once *)
(* it is stated for every place from which the loop reaches Poll without    *)
(* looking at pending_functors_ again, together with what the loop thread   *)
(* knows about calling_pending_functors_ and about the eventfd.             *)
(*                                                                         *)
(* The last part is about EventLoopThread, whose steps are steps of the     *)
(* loop or leave the loop alone, so that what was proved of the loop holds   *)
(* of the loop inside the thread.                                           *)
(***************************************************************************)
EXTENDS EventLoopThread, TLAPS

\* The loop thread reads the eventfd only when it is readable, and its own calls
\* of QueueInLoop see calling_pending_functors_ exactly while functors run.
LoopThreadView ==
    /\ active => eventfd > 0
    /\ lpc # "handle" => ~active
    /\ calling_pending_functors_ <=> lpc \in {"pending", "run"}
    /\ lpc # "run" => functors = <<>>

\* Some foreign QueueInLoop (Quit) is between its push (store) and its write.
Pushing == \E f \in Functors : call[f] = "pushed"
Setting == \E q \in Quitters : quitter[q] = "set"

WakeupComes ==
    pending_functors_ # <<>> /\ lpc \in {"constructed", "entering", "run", "check", "poll"} =>
        eventfd > 0 \/ Pushing

LoopInv == TypeOK /\ LoopThreadView /\ NoLostQuit

\* The constructor establishes the invariants.
LEMMA InitLoopInv == Init => LoopInv /\ WakeupComes
<1>. SUFFICES ASSUME Init PROVE LoopInv /\ WakeupComes
  OBVIOUS
<1>1. TypeOK
  <2>1. call \in [Functors -> CallStates] /\ quitter \in [Quitters -> QuitStates]
    BY DEF Init, CallStates, QuitStates
  <2>2. /\ pending_functors_ \in Seq(Functors) /\ functors \in Seq(Functors)
        /\ executed \in Seq(Functors)
    BY DEF Init
  <2>3. /\ looping_ \in BOOLEAN /\ quit_ \in BOOLEAN /\ calling_pending_functors_ \in BOOLEAN
        /\ active \in BOOLEAN
    BY DEF Init
  <2>. QED
    BY <2>1, <2>2, <2>3 DEF Init, TypeOK, LoopStates
<1>2. LoopThreadView /\ NoLostQuit /\ WakeupComes
  BY DEF Init, LoopThreadView, NoLostQuit, WakeupComes
<1>. QED
  BY <1>1, <1>2 DEF LoopInv

\* Every step keeps the types, the loop thread's view and the promise that a
\* quit loop is woken.
LEMMA StepLoopInv == LoopInv /\ [Next]_loopVars => LoopInv'
<1>. SUFFICES ASSUME LoopInv, [Next]_loopVars PROVE LoopInv'
  OBVIOUS
<1>. USE DEF LoopInv, LoopThreadView, NoLostQuit, flags, queues, Wakeup
<1>1. TypeOK'
  <2>. USE DEF TypeOK, LoopStates, CallStates, QuitStates
  <2>1. ASSUME NEW f \in Functors, QueueInLoop(f) PROVE TypeOK'
    <3>1. Append(pending_functors_, f) \in Seq(Functors)
      OBVIOUS
    <3>2. [call EXCEPT ![f] = "pushed"] \in [Functors -> CallStates]
      OBVIOUS
    <3>. QED
      BY <2>1, <3>1, <3>2 DEF QueueInLoop
  <2>2. ASSUME NEW f \in Functors, QueueInLoopWakeup(f) PROVE TypeOK'
    <3>1. [call EXCEPT ![f] = "queued"] \in [Functors -> CallStates]
      OBVIOUS
    <3>. QED
      BY <2>2, <3>1 DEF QueueInLoopWakeup
  <2>3. ASSUME NEW q \in Quitters, Quit(q) \/ QuitWakeup(q) PROVE TypeOK'
    <3>1. /\ [quitter EXCEPT ![q] = "set"] \in [Quitters -> QuitStates]
          /\ [quitter EXCEPT ![q] = "done"] \in [Quitters -> QuitStates]
      OBVIOUS
    <3>2. CASE Quit(q)
      BY <3>1, <3>2 DEF Quit
    <3>3. CASE QuitWakeup(q)
      BY <3>1, <3>3 DEF QuitWakeup
    <3>. QED
      BY <2>3, <3>2, <3>3
  <2>4. ASSUME NEW f \in Functors, QueueInLoopLocal(f) \/ RunInLoopLocal(f) PROVE TypeOK'
    <3>1. Append(pending_functors_, f) \in Seq(Functors)
      OBVIOUS
    <3>2. /\ [call EXCEPT ![f] = "queued"] \in [Functors -> CallStates]
          /\ [call EXCEPT ![f] = "inline"] \in [Functors -> CallStates]
      OBVIOUS
    <3>3. CASE QueueInLoopLocal(f)
      <4>1. eventfd' \in Nat
        BY <3>3 DEF QueueInLoopLocal
      <4>. QED
        BY <3>1, <3>2, <3>3, <4>1 DEF QueueInLoopLocal
    <3>4. CASE RunInLoopLocal(f)
      BY <3>2, <3>4 DEF RunInLoopLocal
    <3>. QED
      BY <2>4, <3>3, <3>4
  <2>5. CASE QuitLocal
    BY <2>5 DEF QuitLocal
  <2>6. CASE EnterLoop \/ ResetQuit
    BY <2>6 DEF EnterLoop, ResetQuit
  <2>7. CASE CheckQuit
    BY <2>7 DEF CheckQuit
  <2>8. CASE PollWakeup \/ PollOther
    BY <2>8 DEF PollWakeup, PollOther
  <2>9. CASE HandleRead
    BY <2>9 DEF HandleRead
  <2>10. CASE HandlersDone \/ FunctorsDone
    BY <2>10 DEF HandlersDone, FunctorsDone
  <2>11. CASE SwapFunctors
    BY <2>11 DEF SwapFunctors, AfterSwap
  <2>12. CASE RunFunctor
    <3>1. Head(functors) \in Functors /\ Tail(functors) \in Seq(Functors)
      BY <2>12 DEF RunFunctor
    <3>2. Append(executed, Head(functors)) \in Seq(Functors)
      BY <3>1
    <3>. QED
      BY <2>12, <3>1, <3>2 DEF RunFunctor
  <2>13. CASE UNCHANGED loopVars
    BY <2>13, Zenon DEF loopVars
  <2>. QED
    BY <2>1, <2>2, <2>3, <2>4, <2>5, <2>6, <2>7, <2>8, <2>9, <2>10, <2>11, <2>12,
       <2>13
       DEF Next, ForeignStep, CallbackStep, CallbackRuns, LoopStep, Terminated
<1>2. LoopThreadView' /\ NoLostQuit'
  <2>. USE DEF TypeOK
  <2>1. ASSUME NEW f \in Functors, QueueInLoop(f) \/ QueueInLoopWakeup(f)
        PROVE  LoopThreadView' /\ NoLostQuit'
    BY <2>1 DEF QueueInLoop, QueueInLoopWakeup
  <2>2. ASSUME NEW q \in Quitters, Quit(q) \/ QuitWakeup(q)
        PROVE  LoopThreadView' /\ NoLostQuit'
    BY <2>2 DEF Quit, QuitWakeup
  <2>3. ASSUME NEW f \in Functors, QueueInLoopLocal(f) \/ RunInLoopLocal(f)
        PROVE  LoopThreadView' /\ NoLostQuit'
    BY <2>3 DEF QueueInLoopLocal, RunInLoopLocal
  <2>4. CASE QuitLocal \/ EnterLoop \/ ResetQuit
    BY <2>4 DEF QuitLocal, InCallback, EnterLoop, ResetQuit
  <2>5. CASE CheckQuit \/ PollWakeup \/ PollOther
    BY <2>5 DEF CheckQuit, PollWakeup, PollOther
  <2>6. CASE HandleRead \/ HandlersDone \/ SwapFunctors \/ RunFunctor \/ FunctorsDone
    BY <2>6 DEF HandleRead, HandlersDone, SwapFunctors, RunFunctor, FunctorsDone
  <2>7. CASE UNCHANGED loopVars
    BY <2>7 DEF loopVars
  <2>. QED
    BY <2>1, <2>2, <2>3, <2>4, <2>5, <2>6, <2>7 DEF Next, ForeignStep, CallbackStep, CallbackRuns, LoopStep,
       Terminated
<1>. QED
  BY <1>1, <1>2

\* If nothing is queued by the loop thread before Loop(), every step keeps the
\* promise that pending functors will wake the loop.
LEMMA StepWakeupComes ==
    ASSUME QueueBeforeLoop = FALSE, LoopInv, WakeupComes, [Next]_loopVars
    PROVE  WakeupComes'
<1>. USE DEF LoopInv, TypeOK, LoopThreadView, WakeupComes, Pushing, flags, queues, Wakeup
<1>1. ASSUME NEW f \in Functors, QueueInLoop(f) PROVE WakeupComes'
  BY <1>1 DEF QueueInLoop
<1>2. ASSUME NEW f \in Functors, QueueInLoopWakeup(f) PROVE WakeupComes'
  BY <1>2 DEF QueueInLoopWakeup
<1>3. ASSUME NEW q \in Quitters, Quit(q) \/ QuitWakeup(q) PROVE WakeupComes'
  BY <1>3 DEF Quit, QuitWakeup
<1>4. ASSUME NEW f \in Functors, QueueInLoopLocal(f) PROVE WakeupComes'
  BY <1>4 DEF QueueInLoopLocal, InCallback, MustWakeup
<1>5. ASSUME NEW f \in Functors, RunInLoopLocal(f) PROVE WakeupComes'
  BY <1>5 DEF RunInLoopLocal, InCallback
<1>6. CASE QuitLocal \/ EnterLoop \/ ResetQuit
  BY <1>6 DEF QuitLocal, EnterLoop, ResetQuit
<1>7. CASE CheckQuit \/ PollWakeup \/ PollOther
  BY <1>7 DEF CheckQuit, PollWakeup, PollOther
<1>8. CASE HandleRead \/ HandlersDone \/ SwapFunctors \/ RunFunctor \/ FunctorsDone
  BY <1>8 DEF HandleRead, HandlersDone, SwapFunctors, RunFunctor, FunctorsDone, AfterSwap
<1>9. CASE UNCHANGED loopVars
  BY <1>9 DEF loopVars
<1>. QED
  BY <1>1, <1>2, <1>3, <1>4, <1>5, <1>6, <1>7, <1>8, <1>9 DEF Next, ForeignStep, CallbackStep, CallbackRuns,
     LoopStep, Terminated

\* The types, the loop thread's view and NoLostQuit hold in every reachable state.
LEMMA LoopInvariance == Spec => []LoopInv
<1>1. Init => LoopInv
  BY InitLoopInv
<1>2. LoopInv /\ [Next]_loopVars => LoopInv'
  BY StepLoopInv
<1>. QED
  BY <1>1, <1>2, PTL DEF Spec

\* The variables of the loop keep their types.
THEOREM LoopTypeCorrect == Spec => []TypeOK
<1>1. LoopInv => TypeOK
  BY DEF LoopInv
<1>. QED
  BY <1>1, LoopInvariance, PTL

\* A loop that was told to quit never sleeps in Poll without a wakeup on its way,
\* whichever threads call Quit and whenever.
THEOREM NoLostQuitAlways == Spec => []NoLostQuit
<1>1. LoopInv => NoLostQuit
  BY DEF LoopInv
<1>. QED
  BY <1>1, LoopInvariance, PTL

\* A loop never sleeps in Poll on pending functors without a wakeup on its way,
\* provided that the loop thread queues nothing before it calls Loop().
THEOREM NoLostWakeupAlways ==
    ASSUME QueueBeforeLoop = FALSE
    PROVE  Spec => []NoLostWakeup
<1>1. Init => WakeupComes
  BY InitLoopInv
<1>2. LoopInv /\ WakeupComes /\ [Next]_loopVars => WakeupComes'
  BY StepWakeupComes
<1>3. WakeupComes => NoLostWakeup
  BY DEF WakeupComes, NoLostWakeup, Pushing
<1>. QED
  BY <1>1, <1>2, <1>3, LoopInvariance, PTL DEF Spec

-----------------------------------------------------------------------------
(* EventLoop implements Executor.                                          *)

Posted == {f \in Functors : call[f] \in {"pushed", "queued"}}
Todo   == functors \o pending_functors_

\* A functor appended to pending_functors_ is the last of all that is to be done.
LEMMA TodoPush ==
    ASSUME NEW s \in Seq(Functors), NEW t \in Seq(Functors), NEW f \in Functors
    PROVE  s \o Append(t, f) = Append(s \o t, f)
OBVIOUS

\* The functor DoPendingFunctors executes next is the first of all.
LEMMA TodoPop ==
    ASSUME NEW s \in Seq(Functors), NEW t \in Seq(Functors), s # <<>>
    PROVE  /\ s \o t # <<>>
           /\ Head(s \o t) = Head(s)
           /\ Tail(s \o t) = Tail(s) \o t
OBVIOUS

\* Swapping the two vectors changes nothing when the local one is empty.
LEMMA TodoSwap ==
    ASSUME NEW t \in Seq(Functors)
    PROVE  <<>> \o t = t /\ t \o <<>> = t
OBVIOUS

\* Every step of the loop is a step of the executor or invisible to it.
LEMMA StepImplements ==
    ASSUME LoopInv, [Next]_loopVars
    PROVE  [Exec!Next]_<<Posted, Todo, executed>>
<1>. USE DEF LoopInv, TypeOK, flags, queues
<1>1. ASSUME NEW f \in Functors, QueueInLoop(f) \/ QueueInLoopLocal(f)
      PROVE  Exec!Post(f)
  <2>1. /\ call[f] = "new" /\ pending_functors_' = Append(pending_functors_, f)
        /\ functors' = functors /\ executed' = executed
        /\ \E c \in {"pushed", "queued"} : call' = [call EXCEPT ![f] = c]
    BY <1>1 DEF QueueInLoop, QueueInLoopLocal
  <2>2. f \notin Posted /\ Posted' = Posted \cup {f}
    BY <2>1 DEF Posted
  <2>3. Todo' = Append(Todo, f)
    BY <2>1, TodoPush DEF Todo
  <2>. QED
    BY <2>1, <2>2, <2>3 DEF Exec!Post, Posted, Todo
<1>2. CASE RunFunctor
  <2>1. /\ functors # <<>> /\ executed' = Append(executed, Head(functors))
        /\ functors' = Tail(functors) /\ pending_functors_' = pending_functors_ /\ call' = call
    BY <1>2 DEF RunFunctor
  <2>2. Todo # <<>> /\ executed' = Append(executed, Head(Todo)) /\ Todo' = Tail(Todo)
    BY <2>1, TodoPop DEF Todo
  <2>3. Posted' = Posted
    BY <2>1 DEF Posted
  <2>4. Exec!Execute
    BY <2>2, <2>3 DEF Exec!Execute, Posted, Todo
  <2>. QED
    BY <2>4 DEF Exec!Next
<1>3. CASE SwapFunctors
  <2>1. functors = <<>> /\ functors' = pending_functors_ /\ pending_functors_' = <<>>
    BY <1>3 DEF SwapFunctors, LoopThreadView, AfterSwap
  <2>2. Todo' = Todo
    BY <2>1, TodoSwap DEF Todo
  <2>. QED
    BY <1>3, <2>2 DEF SwapFunctors, Posted
<1>4. ASSUME NEW f \in Functors, QueueInLoopWakeup(f) \/ RunInLoopLocal(f)
      PROVE  UNCHANGED <<Posted, Todo, executed>>
  <2>1. Posted' = Posted
    BY <1>4 DEF QueueInLoopWakeup, RunInLoopLocal, Posted
  <2>. QED
    BY <1>4, <2>1 DEF QueueInLoopWakeup, RunInLoopLocal, Todo
<1>5. ASSUME UNCHANGED <<queues, call>>
      PROVE  UNCHANGED <<Posted, Todo, executed>>
  BY <1>5 DEF Posted, Todo
<1>6. ASSUME NEW q \in Quitters, Quit(q) \/ QuitWakeup(q)
      PROVE  UNCHANGED <<queues, call>>
  BY <1>6 DEF Quit, QuitWakeup
<1>7. CASE QuitLocal \/ EnterLoop \/ ResetQuit \/ CheckQuit \/ PollWakeup \/ PollOther
           \/ HandleRead \/ HandlersDone \/ FunctorsDone \/ UNCHANGED loopVars
  <2>1. UNCHANGED <<queues, call>>
    BY <1>7 DEF QuitLocal, EnterLoop, ResetQuit, CheckQuit, PollWakeup, PollOther, HandleRead,
       HandlersDone, FunctorsDone, loopVars
  <2>. QED
    BY <2>1, <1>5
<1>8. ASSUME NEW f \in Functors, QueueInLoop(f) \/ QueueInLoopLocal(f)
      PROVE  Exec!Next
  BY <1>1, <1>8 DEF Exec!Next
<1>. QED
  BY <1>2, <1>3, <1>4, <1>5, <1>6, <1>7, <1>8 DEF Next, ForeignStep, CallbackStep, CallbackRuns, LoopStep,
     Terminated

\* The loop with its two vectors, its eventfd and its foreign callers implements
\* the executor: at most once, and in the order of QueueInLoop.
THEOREM LoopImplementsExecutor == Spec => ImplementsExecutor
<1>1. Init => Exec!Init
  BY DEF Init, Exec!Init
<1>2. LoopInv /\ [Next]_loopVars => [Exec!Next]_<<Posted, Todo, executed>>
  BY StepImplements
<1>. QED
  BY <1>1, <1>2, LoopInvariance, PTL DEF Spec, ImplementsExecutor, Exec!Spec, Posted, Todo

-----------------------------------------------------------------------------
(* EventLoopThread.                                                        *)

\* Whatever owner and thread do is a step of the loop or leaves it alone.
LEMMA ThreadStepsAreLoopSteps == [ThreadNext]_allVars => [Next]_loopVars
<1>. SUFFICES ASSUME [ThreadNext]_allVars PROVE Next \/ UNCHANGED loopVars
  OBVIOUS
<1>1. CASE OwnerQueues \/ DestroyQuit \/ DestroyWakeup
  BY <1>1 DEF OwnerQueues, DestroyQuit, DestroyWakeup, Next, ForeignStep
<1>2. CASE InitCallback \/ RunCallback \/ RunLoop
  BY <1>2 DEF InitCallback, RunCallback, RunLoop, Callback, CallbackStep, Next
<1>3. CASE StartLoop \/ StartLoopReturns \/ StartLoopWaits \/ StartLoopSpurious \/ OwnerQueuesLate
           \/ Destroy \/ DestroyQuitLate \/ DestroyMembers \/ Joined
  BY <1>3 DEF StartLoop, StartLoopReturns, StartLoopWaits, StartLoopSpurious, OwnerQueuesLate,
              Destroy, DestroyQuitLate, DestroyMembers, Joined
<1>4. CASE Publish \/ Leave \/ Unlock \/ ThreadEnds
  BY <1>4 DEF Publish, Leave, Unlock, ThreadEnds
<1>5. CASE UNCHANGED allVars
  BY <1>5 DEF allVars
<1>. QED
  BY <1>1, <1>2, <1>3, <1>4, <1>5 DEF ThreadNext, OwnerStep, ThreadStep

\* The thread runs an unmodified EventLoop: every behaviour of EventLoopThread is one
\* of EventLoop, so that the theorems about Loop, Quit and QueueInLoop apply to it.
THEOREM ThreadRunsEventLoop == ThreadSpec => Spec
<1>1. ThreadInit => Init
  BY DEF ThreadInit
<1>2. [ThreadNext]_allVars => [Next]_loopVars
  BY ThreadStepsAreLoopSteps
<1>. QED
  BY <1>1, <1>2, PTL DEF ThreadSpec, Spec

\* How far owner and thread can be from one another, and where the loop is then.
InStep ==
    /\ owner \in OwnerStates /\ thread \in ThreadStates /\ loop_ \in BOOLEAN
    /\ loop_ <=> thread = "published"
    /\ thread \in {"unborn", "init"} => lpc = "constructed"
    /\ thread \in {"leaving", "unlocked", "done"} => lpc = "exited"
    /\ owner = "new" => thread = "unborn"
    /\ owner \in {"holding", "quitting", "waking"} => thread \notin {"unborn", "init"}
    /\ owner = "dismantling" => thread \notin {"init", "published"}
    /\ owner = "undefined" => thread \in {"leaving", "unlocked", "done"}
    /\ owner = "destroyed" => thread \in {"unborn", "done"}

\* Who told the loop to quit.  The owner is one of them only from its own Quit on, and
\* between the two halves of that call its Quitter is known.
QuitKnown ==
    /\ quit_by \subseteq {"callback", "owner"}
    /\ quit_ => quit_by # {}
    /\ lpc = "exited" => quit_
    /\ "owner" \in quit_by => owner \in {"waking", "joining", "destroyed", "undefined"}
    /\ owner = "waking" => \E q \in Quitters : quitter[q] = "set"
    /\ owner = "undefined" =>
         "callback" \in quit_by \/ \E q \in Quitters : quitter[q] = "set"

ThreadInv == InStep /\ QuitKnown

\* What a step of the loop does to quit_ and to the ends of Loop().
LEMMA LoopAndQuit ==
    ASSUME [Next]_loopVars, lpc = "exited" => quit_
    PROVE  /\ lpc' = "exited" => quit_'
           /\ lpc = "exited" => lpc' = "exited"
           /\ lpc = "constructed" => EnterLoop \/ lpc' = "constructed"
<1>. USE DEF flags, loopVars
<1>1. CASE ForeignStep
  BY <1>1 DEF ForeignStep, QueueInLoop, QueueInLoopWakeup, Quit, QuitWakeup
<1>2. CASE CallbackStep
  BY <1>2 DEF CallbackStep, CallbackRuns, QueueInLoopLocal, RunInLoopLocal, QuitLocal, InCallback
<1>3. CASE EnterLoop \/ ResetQuit
  BY <1>3 DEF EnterLoop, ResetQuit
<1>4. CASE LoopStep \/ PollOther
  BY <1>4 DEF LoopStep, CheckQuit, PollWakeup, HandleRead, HandlersDone, SwapFunctors, RunFunctor,
              FunctorsDone, PollOther
<1>5. CASE Terminated \/ UNCHANGED loopVars
  BY <1>5 DEF Terminated
<1>. QED
  BY <1>1, <1>2, <1>3, <1>4, <1>5 DEF Next

\* Only RunLoop enters Loop().
LEMMA OnlyThreadEnters ==
    ASSUME [ThreadNext]_allVars, EnterLoop
    PROVE  thread = "published"
<1>. USE DEF EnterLoop, flags, queues, loopVars
<1>1. CASE OwnerQueues \/ DestroyQuit \/ DestroyWakeup
  BY <1>1 DEF OwnerQueues, DestroyQuit, DestroyWakeup, QueueInLoop, QueueInLoopWakeup, Quit, QuitWakeup
<1>2. CASE InitCallback
  BY <1>2 DEF InitCallback, Callback, CallbackRuns, QueueInLoopLocal, RunInLoopLocal, QuitLocal
<1>3. CASE RunCallback \/ RunLoop
  BY <1>3 DEF RunCallback, RunLoop
<1>4. CASE StartLoop \/ StartLoopReturns \/ StartLoopWaits \/ StartLoopSpurious \/ OwnerQueuesLate
           \/ Destroy \/ DestroyQuitLate \/ DestroyMembers \/ Joined
  BY <1>4 DEF StartLoop, StartLoopReturns, StartLoopWaits, StartLoopSpurious, OwnerQueuesLate,
              Destroy, DestroyQuitLate, DestroyMembers, Joined
<1>5. CASE Publish \/ Leave \/ Unlock \/ ThreadEnds \/ UNCHANGED allVars
  BY <1>5 DEF Publish, Leave, Unlock, ThreadEnds, allVars
<1>. QED
  BY <1>1, <1>2, <1>3, <1>4, <1>5 DEF ThreadNext, OwnerStep, ThreadStep

\* Every step of owner and thread keeps them in step.
LEMMA StepInStep == ThreadInv /\ [ThreadNext]_allVars => InStep'
<1>. SUFFICES ASSUME ThreadInv, [ThreadNext]_allVars PROVE InStep'
  OBVIOUS
<1>1. /\ lpc = "exited" => lpc' = "exited"
      /\ lpc = "constructed" /\ thread # "published" => lpc' = "constructed"
  BY ThreadStepsAreLoopSteps, LoopAndQuit, OnlyThreadEnters DEF ThreadInv, QuitKnown
<1>. USE <1>1 DEF ThreadInv, InStep, OwnerStates, ThreadStates
<1>2. CASE OwnerQueues \/ InitCallback \/ RunCallback \/ RunLoop
  BY <1>2 DEF OwnerQueues, InitCallback, RunCallback, RunLoop, ownVars
<1>3. CASE StartLoop \/ StartLoopReturns \/ StartLoopWaits \/ StartLoopSpurious
  BY <1>3 DEF StartLoop, StartLoopReturns, StartLoopWaits, StartLoopSpurious
<1>4. CASE Destroy \/ OwnerQueuesLate \/ DestroyMembers \/ Joined
  BY <1>4 DEF Destroy, OwnerQueuesLate, DestroyMembers, Joined, WithoutLoop, LoopExists
<1>5. CASE DestroyQuit \/ DestroyWakeup \/ DestroyQuitLate
  BY <1>5 DEF DestroyQuit, DestroyWakeup, DestroyQuitLate, LoopExists
<1>6. CASE Publish
  BY <1>6 DEF Publish, Notified, loopVars
<1>7. CASE Leave
  BY <1>7 DEF Leave, ResetLoop, loopVars
<1>8. CASE Unlock \/ ThreadEnds
  BY <1>8 DEF Unlock, ThreadEnds
<1>9. CASE UNCHANGED allVars
  BY <1>9 DEF allVars, ownVars
<1>. QED
  BY <1>2, <1>3, <1>4, <1>5, <1>6, <1>7, <1>8, <1>9 DEF ThreadNext, OwnerStep, ThreadStep

\* Every step records who told the loop to quit.
LEMMA StepQuitKnown ==
    ASSUME LoopInv, ThreadInv, [ThreadNext]_allVars PROVE QuitKnown'
<1>1. lpc' = "exited" => quit_'
  BY ThreadStepsAreLoopSteps, LoopAndQuit DEF ThreadInv, QuitKnown
<1>. USE <1>1 DEF ThreadInv, InStep, QuitKnown, OwnerStates, flags
<1>2. CASE OwnerQueues
  BY <1>2 DEF OwnerQueues, QueueInLoop, QueueInLoopWakeup, ownVars
<1>3. CASE InitCallback \/ RunCallback
  BY <1>3 DEF InitCallback, RunCallback, Callback, CallbackRuns, QueueInLoopLocal, RunInLoopLocal,
              QuitLocal, PollOther, ownVars
<1>4. CASE RunLoop
  <2>1. CASE EnterLoop \/ LoopStep
    BY <1>4, <2>1 DEF RunLoop, EnterLoop, ResetQuit, LoopStep, CheckQuit, PollWakeup, HandleRead,
       HandlersDone, SwapFunctors, RunFunctor, FunctorsDone, ownVars
  <2>2. CASE ResetQuit /\ quit_by' = {}
    BY <1>4, <2>2 DEF RunLoop, ResetQuit, ownVars
  <2>. QED
    BY <1>4, <2>1, <2>2 DEF RunLoop
<1>5. CASE DestroyQuit
  <2>1. PICK q \in Quitters : Quit(q)
    BY <1>5 DEF DestroyQuit
  <2>2. quitter'[q] = "set"
    BY <2>1 DEF Quit, LoopInv, TypeOK
  <2>. QED
    BY <1>5, <2>1, <2>2 DEF DestroyQuit, Quit
<1>6. CASE DestroyWakeup
  BY <1>6 DEF DestroyWakeup, QuitWakeup
<1>7. CASE StartLoop \/ StartLoopReturns \/ StartLoopWaits \/ StartLoopSpurious \/ Destroy \/ Joined
           \/ Publish \/ Leave \/ Unlock \/ ThreadEnds
  BY <1>7 DEF StartLoop, StartLoopReturns, StartLoopWaits, StartLoopSpurious, Destroy, Joined, Publish,
              Notified, Leave, Unlock, ThreadEnds, loopVars
<1>8. CASE OwnerQueuesLate \/ DestroyQuitLate \/ DestroyMembers
  BY <1>8 DEF OwnerQueuesLate, DestroyQuitLate, DestroyMembers, WithoutLoop, LoopExists, ThreadStates,
              loopVars
<1>9. CASE UNCHANGED allVars
  BY <1>9 DEF allVars, ownVars, loopVars
<1>. QED
  BY <1>2, <1>3, <1>4, <1>5, <1>6, <1>7, <1>8, <1>9 DEF ThreadNext, OwnerStep, ThreadStep

\* loop_ points to a living EventLoop; what StartLoop returned stays published until a
\* callback quits; unless one did, the only use of something destroyed is the wakeup
\* half of the destructor's own Quit; and ~EventLoopThread returns only after the thread
\* has ended.
THEOREM LifetimesNestedAlways == ThreadSpec => []LifetimesNested
<1>1. ThreadInit => ThreadInv
  BY DEF ThreadInit, Init, ThreadInv, InStep, QuitKnown, OwnerStates, ThreadStates
<1>2. ThreadSpec => []LoopInv
  BY ThreadRunsEventLoop, LoopInvariance, PTL
<1>3. LoopInv /\ ThreadInv /\ [ThreadNext]_allVars => ThreadInv'
  BY StepInStep, StepQuitKnown DEF ThreadInv
<1>4. ThreadInv => LifetimesNested
  BY DEF ThreadInv, InStep, QuitKnown, ThreadStates, LifetimesNested
<1>. QED
  BY <1>1, <1>2, <1>3, <1>4, PTL DEF ThreadSpec
=============================================================================
