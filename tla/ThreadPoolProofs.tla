-------------------------- MODULE ThreadPoolProofs --------------------------
(***************************************************************************)
(* Proofs about ThreadPool, for every number of tasks and threads and every *)
(* configuration of the pool.  TypeOK is not inductive: that a counter does *)
(* not fall below zero follows from CounterAccounting, which in turn needs  *)
(* to know that ids are never reused, which threads Start has yet to start, *)
(* and that a SubmitTask call is in flight only while the owner is between  *)
(* Start and the destructor.                                                *)
(***************************************************************************)
EXTENDS ThreadPool, FiniteSetTheorems, TLAPS

Idle    == InState(IdleStates)
Current == InState(CurrentStates)
Live    == InState(LiveStates)
Awake   == InState(AwakeStates)

\* What is_running_, the queue and the threads are in each phase of the owner.
Phases ==
    /\ owner = "constructed" =>
          /\ ~is_running_ /\ threads_ = {} /\ task_que_ = <<>>
          /\ \A w \in ThreadIds : worker[w] = "none"
    /\ owner \in {"starting", "running"} => is_running_
    /\ owner \in {"stopping", "exit_wait", "exit_woken", "destroyed"} => ~is_running_
    /\ owner = "starting" =>
          /\ init_thread_size_ <= MaxThreadId + 1
          /\ \A w \in ThreadIds : w >= start_i /\ w \in threads_ => worker[w] = "created"

\* Ids not yet given out belong to no thread.
FreshIds == \A w \in ThreadIds : w >= generate_thread_id_ => worker[w] = "none"

\* Calls are in flight only between Start and the destructor.
CallsInFlight ==
    \A t \in Tasks : call[t] \in {"checked", "blocked", "expired"} => owner = "running"

\* threads_ holds exactly the threads that are still alive.
ThreadsAreLive == owner # "crashed" => threads_ = Live

\* The inductive invariant behind TypeOK and CounterAccounting.
Inv == TypeOK /\ CounterAccounting /\ Phases /\ FreshIds /\ CallsInFlight /\ ThreadsAreLive

-----------------------------------------------------------------------------
(* Counting threads.                                                       *)

\* Every set of workers is finite, and its size is a natural number.
LEMMA WorkersFinite ==
    ASSUME NEW S \in SUBSET ThreadIds
    PROVE  IsFiniteSet(S) /\ Cardinality(S) \in Nat
<1>1. MaxThreadId \in Nat
  BY SizesAssumption
<1>2. IsFiniteSet(ThreadIds)
  BY <1>1, FS_Interval DEF ThreadIds
<1>. QED
  BY <1>2, FS_Subset, FS_CardinalityType

\* One more worker in a state: ++ of a counter.
LEMMA OneMore ==
    ASSUME NEW S \in SUBSET ThreadIds, NEW w \in ThreadIds, w \notin S
    PROVE  Cardinality(S \cup {w}) = Cardinality(S) + 1
BY WorkersFinite, FS_AddElement

\* One worker less: -- of a counter that is not zero.
LEMMA OneLess ==
    ASSUME NEW S \in SUBSET ThreadIds, NEW w \in S
    PROVE  /\ Cardinality(S \ {w}) = Cardinality(S) - 1
           /\ Cardinality(S) > 0
<1>1. IsFiniteSet(S) /\ IsFiniteSet(S \ {w})
  BY WorkersFinite
<1>2. Cardinality(S \ {w}) = Cardinality(S) - 1
  BY <1>1, FS_RemoveElement
<1>3. Cardinality(S \ {w}) \in Nat /\ Cardinality(S) \in Nat
  BY WorkersFinite
<1>. QED
  BY <1>2, <1>3

\* Waking sleeping workers disturbs no set of workers that the counters count.
LEMMA WakeKeeps ==
    ASSUME NEW ws \in SUBSET Waiting, worker \in [ThreadIds -> WorkerStates]
    PROVE  /\ Wake(ws) \in [ThreadIds -> WorkerStates]
           /\ \A w \in ThreadIds : /\ Wake(ws)[w] \in IdleStates <=> worker[w] \in IdleStates
                                   /\ Wake(ws)[w] \in CurrentStates <=> worker[w] \in CurrentStates
                                   /\ Wake(ws)[w] \in LiveStates <=> worker[w] \in LiveStates
                                   /\ Wake(ws)[w] = "none" <=> worker[w] = "none"
                                   /\ Wake(ws)[w] = "created" <=> worker[w] = "created"
BY DEF Wake, Waiting, InState, IdleStates, CurrentStates, LiveStates, WorkerStates

-----------------------------------------------------------------------------
(* The invariant is inductive: one lemma per thread.                       *)

\* The constructor establishes the invariant.
LEMMA InitInv == Init => Inv
<1>. SUFFICES ASSUME Init PROVE Inv
  OBVIOUS
<1>1. Idle = {} /\ Current = {} /\ Live = {}
  BY DEF Init, Idle, Current, Live, InState, IdleStates, CurrentStates, LiveStates
<1>2. TypeOK
  <2>1. worker \in [ThreadIds -> WorkerStates] /\ cur \in [ThreadIds -> Tasks \cup {NoTask}]
    BY DEF Init, WorkerStates
  <2>2. call \in [Tasks -> CallStates] /\ ran \in [Tasks -> Nat] /\ task_que_ \in Seq(Tasks)
    BY DEF Init, CallStates
  <2>. QED
    BY <2>1, <2>2, SizesAssumption DEF Init, TypeOK, OwnerStates
<1>4. Phases /\ FreshIds /\ CallsInFlight
  BY DEF Init, Phases, FreshIds, CallsInFlight
<1>3. ThreadsAreLive /\ CounterAccounting
  BY <1>1, FS_EmptySet DEF Init, ThreadsAreLive, CounterAccounting, Idle, Current
<1>. QED
  BY <1>2, <1>3, <1>4 DEF Inv

\* A step that touches no worker and no counter keeps what they count.
LEMMA SameWorkers ==
    ASSUME Inv, UNCHANGED <<worker, sizes, que>>
    PROVE  CounterAccounting' /\ Live' = Live
BY DEF Inv, CounterAccounting, InState, Live, sizes, que

\* The owner's steps: the setters, Start and the destructor.
LEMMA OwnerInv == Inv /\ OwnerStep => Inv'
<1>. SUFFICES ASSUME Inv, OwnerStep PROVE Inv'
  OBVIOUS
<1>. USE DEF TypeOK, Phases, FreshIds, CallsInFlight, ThreadsAreLive, config, sizes, que,
             OwnerStates, WorkerStates, CallStates
<1>1. ASSUME NEW m \in Modes, SetMode(m) PROVE Inv'
  BY <1>1, SameWorkers, ModesAssumption DEF Inv, SetMode
<1>2. ASSUME NEW n \in QueMaxSizes, SetTaskQueMaxSize(n) PROVE Inv'
  BY <1>2, SameWorkers, SizesAssumption DEF Inv, SetTaskQueMaxSize
<1>3. ASSUME NEW n \in ThreadMaxSizes, SetThreadMaxSize(n) PROVE Inv'
  BY <1>3, SameWorkers, SizesAssumption DEF Inv, SetThreadMaxSize
<1>4. ASSUME NEW n \in InitSizes, Start(n) PROVE Inv'
  <2>. DEFINE m   == InitSize(n)
              ids == generate_thread_id_ .. generate_thread_id_ + m - 1
  <2>1. m \in Nat /\ ids \subseteq ThreadIds /\ generate_thread_id_ \in Nat
    BY <1>4, SizesAssumption DEF Inv, Start, InitSize
  <2>2. worker' = [w \in ThreadIds |-> IF w \in ids THEN "created" ELSE "none"]
    BY <1>4 DEF Inv, Start
  <2>3. Idle' = {} /\ Current' = ids /\ Live' = ids
    BY <2>1, <2>2 DEF Idle, Current, Live, InState, IdleStates, CurrentStates, LiveStates
  <2>4. Cardinality(ids) = m
    BY <2>1, FS_Interval
  <2>5. idle_thread_size_ = 0
    <3>1. Idle = {}
      BY <1>4 DEF Inv, Start, Idle, InState, IdleStates
    <3>. QED
      BY <3>1, FS_EmptySet DEF Inv, CounterAccounting, Idle
  <2>6. CounterAccounting'
    BY <1>4, <2>3, <2>4, <2>5, FS_EmptySet DEF Inv, Start, CounterAccounting, Idle, Current
  <2>7. m <= MaxThreadId + 1
    <3>1. CASE m = 0
      BY <3>1, SizesAssumption
    <3>2. CASE m > 0
      <4>1. generate_thread_id_ + m - 1 \in ids
        BY <2>1, <3>2
      <4>. QED
        BY <4>1, <2>1, SizesAssumption DEF ThreadIds
    <3>. QED
      BY <2>1, <3>1, <3>2
  <2>8. TypeOK'
    BY <1>4, <2>1, <2>2 DEF Inv, Start
  <2>9. Phases' /\ FreshIds' /\ CallsInFlight'
    BY <1>4, <2>1, <2>2, <2>7 DEF Inv, Start, ThreadIds
  <2>10. ThreadsAreLive'
    BY <1>4, <2>3 DEF Inv, Start
  <2>. QED
    BY <2>6, <2>8, <2>9, <2>10 DEF Inv
<1>5. CASE StartThread
  <2>1. start_i \in ThreadIds /\ worker[start_i] = "created"
    BY <1>5 DEF Inv, StartThread, ThreadIds
  <2>2. /\ start_i \notin Idle /\ Idle' = Idle \cup {start_i}
        /\ Current' = Current /\ Live' = Live
    BY <1>5, <2>1 DEF Inv, StartThread, Idle, Current, Live, InState, IdleStates,
       CurrentStates, LiveStates
  <2>3. Cardinality(Idle') = Cardinality(Idle) + 1
    BY <2>1, <2>2, OneMore DEF Idle, InState
  <2>4. CounterAccounting'
    BY <1>5, <2>2, <2>3 DEF Inv, StartThread, CounterAccounting, Idle, Current
  <2>5. TypeOK' /\ CallsInFlight' /\ ThreadsAreLive'
    BY <1>5, <2>1, <2>2 DEF Inv, StartThread
  <2>6. Phases' /\ FreshIds'
    BY <1>5, <2>1 DEF Inv, StartThread, ThreadIds
  <2>. QED
    BY <2>4, <2>5, <2>6 DEF Inv
<1>6. CASE StartNullThread
  BY <1>6, SameWorkers, SizesAssumption DEF Inv, StartNullThread, ThreadIds
<1>7. CASE StartReturns
  BY <1>7, SameWorkers DEF Inv, StartReturns
<1>8. CASE StopRunning
  BY <1>8, SameWorkers DEF Inv, StopRunning
<1>9. CASE NotifyAndWait
  <2>1. /\ worker' \in [ThreadIds -> WorkerStates]
        /\ Idle' = Idle /\ Current' = Current /\ Live' = Live
        /\ \A w \in ThreadIds : worker[w] = "none" => worker'[w] = "none"
    BY <1>9, WakeKeeps DEF Inv, NotifyAndWait, Idle, Current, Live, InState
  <2>2. CounterAccounting'
    BY <1>9, <2>1 DEF Inv, NotifyAndWait, CounterAccounting, Idle, Current
  <2>. QED
    BY <1>9, <2>1, <2>2 DEF Inv, NotifyAndWait, ExitPredicate
<1>10. CASE CheckExit
  BY <1>10, SameWorkers DEF Inv, CheckExit, ExitPredicate
<1>11. CASE SpuriousExitWakeup
  BY <1>11, SameWorkers DEF Inv, SpuriousExitWakeup
<1>. QED
  BY <1>1, <1>2, <1>3, <1>4, <1>5, <1>6, <1>7, <1>8, <1>9, <1>10, <1>11 DEF OwnerStep

\* The steps of a SubmitTask call.  Enqueue counts the queued task and, when it
\* grows the pool, the new thread.
LEMMA CallInv == ASSUME NEW t \in Tasks, Inv, CallStep(t) PROVE Inv'
<1>. USE DEF TypeOK, Phases, FreshIds, CallsInFlight, ThreadsAreLive, config, sizes, que,
             OwnerStates, WorkerStates, CallStates
<1>1. CASE CheckRunning(t)
  BY <1>1, SameWorkers DEF Inv, CheckRunning
<1>2. CASE Enqueue(t)
  <2>1. PICK ws \in NotifyOne(Waiting) :
          \/ /\ ~MustGrow
             /\ worker' = Wake(ws)
             /\ UNCHANGED <<generate_thread_id_, threads_, sizes>>
          \/ /\ MustGrow
             /\ generate_thread_id_ \in ThreadIds
             /\ worker' = [Wake(ws) EXCEPT ![generate_thread_id_] = "ready"]
             /\ threads_' = threads_ \cup {generate_thread_id_}
             /\ generate_thread_id_' = generate_thread_id_ + 1
             /\ current_thread_size_' = current_thread_size_ + 1
             /\ idle_thread_size_' = idle_thread_size_ + 1
    BY <1>2 DEF Enqueue
  <2>2. ws \in SUBSET Waiting
    BY DEF NotifyOne
  <2>3. owner = "running" /\ owner' = "running" /\ call' \in [Tasks -> CallStates]
    BY <1>2 DEF Inv, Enqueue
  <2>4. task_que_' \in Seq(Tasks) /\ Len(task_que_') = Len(task_que_) + 1
    BY <1>2 DEF Inv, Enqueue
  <2>5. task_size_' \in Nat /\ task_size_' = Len(task_que_')
    BY <1>2, <2>4 DEF Inv, Enqueue, CounterAccounting
  <2>6. CASE ~MustGrow
    <3>1. /\ worker' \in [ThreadIds -> WorkerStates]
          /\ Idle' = Idle /\ Current' = Current /\ Live' = Live
          /\ \A w \in ThreadIds : worker[w] = "none" => worker'[w] = "none"
      BY <2>1, <2>2, <2>6, WakeKeeps DEF Inv, Idle, Current, Live, InState
    <3>2. CounterAccounting'
      BY <2>1, <2>5, <2>6, <3>1 DEF Inv, CounterAccounting, Idle, Current
    <3>. QED
      BY <1>2, <2>1, <2>3, <2>4, <2>5, <2>6, <3>1, <3>2 DEF Inv, Enqueue
  <2>7. CASE MustGrow
    <3>. DEFINE id == generate_thread_id_
    <3>1. id \in ThreadIds /\ worker[id] = "none"
      BY <2>1, <2>7 DEF Inv
    <3>2. /\ worker' = [Wake(ws) EXCEPT ![id] = "ready"]
          /\ Wake(ws) \in [ThreadIds -> WorkerStates]
      BY <2>1, <2>2, <2>7, WakeKeeps DEF Inv
    <3>3. threads_' = threads_ \cup {id} /\ generate_thread_id_' = id + 1 /\ id \in Nat
      BY <2>1, <2>7 DEF Inv
    <3>. HIDE DEF id
    <3>4. /\ worker' \in [ThreadIds -> WorkerStates] /\ worker'[id] = "ready"
          /\ \A w \in ThreadIds \ {id} : worker'[w] = Wake(ws)[w]
      BY <3>1, <3>2
    <3>5. \A w \in ThreadIds \ {id} : worker[w] = "none" => worker'[w] = "none"
      BY <2>2, <3>4, WakeKeeps DEF Inv
    <3>6. \A w \in ThreadIds :
            /\ worker'[w] \in IdleStates <=> worker[w] \in IdleStates \/ w = id
            /\ worker'[w] \in CurrentStates <=> worker[w] \in CurrentStates \/ w = id
            /\ worker'[w] \in LiveStates <=> worker[w] \in LiveStates \/ w = id
      <4>1. "ready" \in IdleStates /\ "ready" \in CurrentStates /\ "ready" \in LiveStates
        BY DEF IdleStates, CurrentStates, LiveStates
      <4>2. \A w \in ThreadIds :
              /\ Wake(ws)[w] \in IdleStates <=> worker[w] \in IdleStates
              /\ Wake(ws)[w] \in CurrentStates <=> worker[w] \in CurrentStates
              /\ Wake(ws)[w] \in LiveStates <=> worker[w] \in LiveStates
        BY <2>2, WakeKeeps DEF Inv
      <4>. QED
        BY <3>4, <4>1, <4>2
    <3>7. Idle' = Idle \cup {id} /\ Current' = Current \cup {id} /\ Live' = Live \cup {id}
      BY <3>1, <3>6 DEF Idle, Current, Live, InState
    <3>8. id \notin Idle /\ id \notin Current
      BY <3>1 DEF Idle, Current, InState, IdleStates, CurrentStates, LiveStates
    <3>9. /\ Cardinality(Idle') = Cardinality(Idle) + 1
          /\ Cardinality(Current') = Cardinality(Current) + 1
      BY <3>1, <3>7, <3>8, OneMore DEF Idle, Current, InState
    <3>10. CounterAccounting'
      BY <2>1, <2>5, <2>7, <3>9 DEF Inv, CounterAccounting, Idle, Current
    <3>11. FreshIds'
      BY <3>1, <3>3, <3>5 DEF Inv, ThreadIds, id
    <3>12. TypeOK'
      BY <1>2, <2>1, <2>3, <2>4, <2>5, <2>7, <3>1, <3>3, <3>4 DEF Inv, Enqueue
    <3>13. Phases' /\ CallsInFlight' /\ ThreadsAreLive'
      BY <1>2, <2>3, <3>3, <3>7 DEF Inv, Enqueue
    <3>. QED
      BY <3>10, <3>11, <3>12, <3>13 DEF Inv
  <2>. QED
    BY <2>6, <2>7
<1>3. CASE Block(t)
  BY <1>3, SameWorkers DEF Inv, Block
<1>4. CASE BlockedTimeout(t)
  BY <1>4, SameWorkers DEF Inv, BlockedTimeout
<1>5. CASE Reject(t)
  BY <1>5, SameWorkers DEF Inv, Reject
<1>. QED
  BY <1>1, <1>2, <1>3, <1>4, <1>5 DEF CallStep

\* The steps of ThreadFunc.
LEMMA WorkerInv ==
    ASSUME NEW w \in ThreadIds, Inv, owner # "crashed",
           WorkerStep(w) \/ WaitTimeout(w) \/ SpuriousWakeup(w) \/ RecycleThread(w)
    PROVE  Inv'
<1>. USE DEF TypeOK, Phases, FreshIds, CallsInFlight, ThreadsAreLive, config, sizes, que,
             OwnerStates, WorkerStates, CallStates
<1>1. CASE TakeTask(w)
  <2>1. /\ worker' \in [ThreadIds -> WorkerStates]
        /\ w \in Idle /\ Idle' = Idle \ {w} /\ Current' = Current /\ Live' = Live
        /\ \A v \in ThreadIds : /\ worker[v] = "none" => worker'[v] = "none"
                                /\ worker[v] = "created" => worker'[v] = "created"
    BY <1>1, WakeKeeps DEF Inv, TakeTask, Idle, Current, Live, InState, IdleStates,
       CurrentStates, LiveStates
  <2>2. /\ Cardinality(Idle') = Cardinality(Idle) - 1
        /\ Cardinality(Idle) > 0
    BY <2>1, OneLess DEF Idle, InState
  <2>3. /\ Head(task_que_) \in Tasks /\ task_que_' \in Seq(Tasks)
        /\ Len(task_que_') = Len(task_que_) - 1 /\ Len(task_que_) > 0
    BY <1>1 DEF Inv, TakeTask, Popped
  <2>4. CounterAccounting' /\ idle_thread_size_' \in Nat /\ task_size_' \in Nat
    BY <1>1, <2>1, <2>2, <2>3 DEF Inv, TakeTask, CounterAccounting, Idle, Current
  <2>5. /\ call' \in [Tasks -> CallStates]
        /\ \A t \in Tasks : call'[t] \in {"checked", "blocked", "expired"} => owner = "running"
    BY <1>1 DEF Inv, TakeTask, WakeCalls
  <2>6. TypeOK'
    BY <1>1, <2>1, <2>3, <2>4, <2>5 DEF Inv, TakeTask
  <2>7. Phases' /\ FreshIds' /\ CallsInFlight' /\ ThreadsAreLive'
    BY <1>1, <2>1, <2>5 DEF Inv, TakeTask
  <2>. QED
    BY <2>4, <2>6, <2>7 DEF Inv
<1>2. CASE ExitThread(w)
  <2>1. /\ worker' \in [ThreadIds -> WorkerStates]
        /\ Idle' = Idle /\ Current' = Current /\ Live' = Live \ {w}
    BY <1>2 DEF Inv, ExitThread, Idle, Current, Live, InState, IdleStates, CurrentStates, LiveStates
  <2>2. CounterAccounting'
    BY <1>2, <2>1 DEF Inv, ExitThread, CounterAccounting, Idle, Current
  <2>3. owner \notin {"constructed", "starting", "running"}
    BY <1>2 DEF Inv, ExitThread, MayExit
  <2>. QED
    BY <1>2, <2>1, <2>2, <2>3 DEF Inv, ExitThread, WakeOwner
<1>3. CASE WaitForTask(w)
  <2>1. Idle' = Idle /\ Current' = Current /\ Live' = Live
    BY <1>3 DEF Inv, WaitForTask, Idle, Current, Live, InState, IdleStates, CurrentStates, LiveStates
  <2>2. CounterAccounting'
    BY <1>3, <2>1 DEF Inv, WaitForTask, CounterAccounting, Idle, Current
  <2>. QED
    BY <1>3, <2>1, <2>2 DEF Inv, WaitForTask
<1>4. CASE WaitTimeout(w) \/ SpuriousWakeup(w)
  <2>1. /\ worker[w] = "waiting" /\ worker' = [worker EXCEPT ![w] = "woken"]
        /\ UNCHANGED <<owner, start_i, config, init_thread_size_, is_running_,
                       generate_thread_id_, threads_, cur, sizes, que, call, ran>>
    BY <1>4 DEF WaitTimeout, SpuriousWakeup
  <2>2. Idle' = Idle /\ Current' = Current /\ Live' = Live
    BY <2>1 DEF Inv, Idle, Current, Live, InState, IdleStates, CurrentStates, LiveStates
  <2>3. CounterAccounting'
    BY <2>1, <2>2 DEF Inv, CounterAccounting, Idle, Current
  <2>. QED
    BY <2>1, <2>2, <2>3 DEF Inv
<1>5. CASE RecycleThread(w)
  <2>1. /\ w \in Idle /\ Idle' = Idle \ {w} /\ w \in Current /\ Current' = Current \ {w}
        /\ Live' = Live \ {w}
    BY <1>5 DEF Inv, RecycleThread, Idle, Current, Live, InState, IdleStates, CurrentStates,
       LiveStates
  <2>2. /\ Cardinality(Idle') = Cardinality(Idle) - 1 /\ Cardinality(Idle) > 0
        /\ Cardinality(Current') = Cardinality(Current) - 1 /\ Cardinality(Current) > 0
    BY <2>1, OneLess DEF Idle, Current, InState
  <2>3. CounterAccounting' /\ idle_thread_size_' \in Nat /\ current_thread_size_' \in Nat
    BY <1>5, <2>2 DEF Inv, RecycleThread, CounterAccounting, Idle, Current
  <2>. QED
    BY <1>5, <2>1, <2>3 DEF Inv, RecycleThread
<1>6. CASE RunTask(w)
  <2>1. Idle' = Idle /\ Current' = Current /\ Live' = Live
    BY <1>6 DEF Inv, RunTask, Idle, Current, Live, InState, IdleStates, CurrentStates, LiveStates
  <2>2. CounterAccounting'
    BY <1>6, <2>1 DEF Inv, RunTask, CounterAccounting, Idle, Current
  <2>3. cur' \in [ThreadIds -> Tasks \cup {NoTask}]
    BY <1>6 DEF Inv, RunTask
  <2>4. ran' = [t \in Tasks |-> IF t = cur[w] THEN ran[t] + 1 ELSE ran[t]]
    BY <1>6 DEF Inv, RunTask
  <2>5. ran' \in [Tasks -> Nat]
    BY <2>4 DEF Inv
  <2>. QED
    BY <1>6, <2>1, <2>2, <2>3, <2>5 DEF Inv, RunTask
<1>7. CASE BackToIdle(w)
  <2>1. w \notin Idle /\ Idle' = Idle \cup {w} /\ Current' = Current /\ Live' = Live
    BY <1>7 DEF Inv, BackToIdle, Idle, Current, Live, InState, IdleStates, CurrentStates, LiveStates
  <2>2. Cardinality(Idle') = Cardinality(Idle) + 1
    BY <2>1, OneMore DEF Idle, InState
  <2>3. CounterAccounting'
    BY <1>7, <2>1, <2>2 DEF Inv, BackToIdle, CounterAccounting, Idle, Current
  <2>. QED
    BY <1>7, <2>1, <2>3 DEF Inv, BackToIdle
<1>. QED
  BY <1>1, <1>2, <1>3, <1>4, <1>5, <1>6, <1>7 DEF WorkerStep

\* Every step of the pool keeps the invariant.
LEMMA StepInv == Inv /\ [Next]_vars => Inv'
<1>. SUFFICES ASSUME Inv, [Next]_vars PROVE Inv'
  OBVIOUS
<1>1. CASE UNCHANGED vars
  BY <1>1 DEF Inv, vars, config, sizes, que, TypeOK, CounterAccounting, Phases, FreshIds,
     CallsInFlight, ThreadsAreLive, Live, InState
<1>. QED
  BY <1>1, OwnerInv, CallInv, WorkerInv DEF Next, Terminated

\* The inductive invariant holds in every reachable state.
LEMMA Invariance == Spec => []Inv
<1>1. Init => Inv
  BY InitInv
<1>2. Inv /\ [Next]_vars => Inv'
  BY StepInv
<1>. QED
  BY <1>1, <1>2, PTL DEF Spec

\* In every pool the variables keep their types; in particular the unsigned
\* counters idle_thread_size_, current_thread_size_ and task_size_ never wrap.
THEOREM TypeCorrect == Spec => []TypeOK
<1>1. Inv => TypeOK
  BY DEF Inv
<1>. QED
  BY <1>1, Invariance, PTL

\* The counters that SubmitTask and ThreadFunc base their decisions on always
\* agree with the threads and the queue.
THEOREM CountersCorrect == Spec => []CounterAccounting
<1>1. Inv => CounterAccounting
  BY DEF Inv
<1>. QED
  BY <1>1, Invariance, PTL

-----------------------------------------------------------------------------
(* No wakeup is lost on not_empty_, not_full_ and exit_cond_.              *)

\* The destructor returns only when threads_ is empty, and stays that way.
EmptyWhenDestroyed == owner = "destroyed" => threads_ = {}

Wakeups == NoSleepWithWork /\ BlockedOnlyWhenFull /\ DtorIsWoken /\ EmptyWhenDestroyed

\* Nothing sleeps in a pool that has just been constructed.
LEMMA InitWakeups == Init => Wakeups
BY DEF Init, Wakeups, NoSleepWithWork, BlockedOnlyWhenFull, DtorIsWoken, EmptyWhenDestroyed,
   Waiting, InState, Blocked

\* A step that leaves workers, calls and queue alone loses no wakeup of theirs.
LEMMA OwnerWakeups == Inv /\ Wakeups /\ OwnerStep => Wakeups'
<1>. SUFFICES ASSUME Inv, Wakeups, OwnerStep PROVE Wakeups'
  OBVIOUS
<1>. USE DEF Wakeups, NoSleepWithWork, BlockedOnlyWhenFull, DtorIsWoken, EmptyWhenDestroyed,
             config, sizes, que
<1>1. CASE owner = "constructed"
  <2>1. Waiting' = {}
    BY <1>1 DEF Inv, Phases, OwnerStep, SetMode, SetTaskQueMaxSize, SetThreadMaxSize, Start,
       StartThread, StartNullThread, StartReturns, StopRunning, NotifyAndWait, CheckExit,
       SpuriousExitWakeup, Waiting, InState
  <2>2. Blocked' = {}
    BY <1>1 DEF Inv, CallsInFlight, OwnerStep, SetMode, SetTaskQueMaxSize, SetThreadMaxSize, Start,
       StartThread, StartNullThread, StartReturns, StopRunning, NotifyAndWait, CheckExit,
       SpuriousExitWakeup, Blocked
  <2>3. owner' \notin {"exit_wait", "exit_woken", "destroyed"}
    BY <1>1 DEF OwnerStep, SetMode, SetTaskQueMaxSize, SetThreadMaxSize, Start,
       StartThread, StartNullThread, StartReturns, StopRunning, NotifyAndWait, CheckExit,
       SpuriousExitWakeup
  <2>. QED
    BY <2>1, <2>2, <2>3
<1>2. CASE StartThread
  <2>1. start_i \in ThreadIds /\ worker[start_i] = "created"
    BY <1>2 DEF Inv, TypeOK, Phases, StartThread
  <2>2. Waiting' = Waiting /\ Awake' = Awake \cup {start_i} /\ start_i \notin Awake
    BY <1>2, <2>1 DEF Inv, TypeOK, StartThread, Waiting, Awake, InState, AwakeStates
  <2>3. Cardinality(Awake') = Cardinality(Awake) + 1 /\ Cardinality(Awake) \in Nat
    BY <2>1, <2>2, OneMore, WorkersFinite DEF Awake, InState
  <2>4. NoSleepWithWork'
    BY <1>2, <2>2, <2>3 DEF Inv, TypeOK, StartThread, Awake
  <2>. QED
    BY <1>2, <2>4 DEF StartThread, Blocked
<1>3. CASE NotifyAndWait
  <2>1. Waiting' = {}
    BY <1>3 DEF Inv, TypeOK, NotifyAndWait, Wake, Waiting, InState
  <2>. QED
    BY <1>3, <2>1 DEF NotifyAndWait, ExitPredicate, Blocked
<1>4. CASE StartNullThread \/ StartReturns \/ StopRunning \/ CheckExit \/ SpuriousExitWakeup
  <2>1. UNCHANGED <<worker, que, call, pool_mode_, task_que_max_size_>>
    BY <1>4 DEF StartNullThread, StartReturns, StopRunning, CheckExit, SpuriousExitWakeup
  <2>2. NoSleepWithWork' /\ BlockedOnlyWhenFull' /\ Waiting' = Waiting
    BY <2>1 DEF Waiting, Blocked, InState
  <2>3. DtorIsWoken' /\ EmptyWhenDestroyed'
    BY <1>4, <2>1, <2>2 DEF StartNullThread, StartReturns, StopRunning, CheckExit,
       SpuriousExitWakeup, ExitPredicate
  <2>. QED
    BY <2>2, <2>3
<1>5. CASE owner # "constructed" /\ ~is_running_
  <2>1. \A m : ~SetMode(m) /\ ~SetTaskQueMaxSize(m) /\ ~SetThreadMaxSize(m) /\ ~Start(m)
    BY <1>5 DEF Inv, Phases, SetMode, SetTaskQueMaxSize, SetThreadMaxSize, Start
  <2>. QED
    BY <2>1, <1>2, <1>3, <1>4 DEF OwnerStep
<1>6. CASE owner # "constructed" /\ is_running_
  <2>1. \A m : ~SetMode(m) /\ ~SetTaskQueMaxSize(m) /\ ~SetThreadMaxSize(m) /\ ~Start(m)
    BY <1>6 DEF SetMode, SetTaskQueMaxSize, SetThreadMaxSize, Start
  <2>. QED
    BY <2>1, <1>2, <1>3, <1>4 DEF OwnerStep
<1>. QED
  BY <1>1, <1>5, <1>6

\* SubmitTask: notify_one wakes a sleeping worker for the new task, and a call
\* blocks only on a full queue.
LEMMA CallWakeups == ASSUME NEW t \in Tasks, Inv, Wakeups, CallStep(t) PROVE Wakeups'
<1>. USE DEF Wakeups, NoSleepWithWork, BlockedOnlyWhenFull, DtorIsWoken, EmptyWhenDestroyed,
             config, sizes, que
<1>1. CASE Enqueue(t)
  <2>1. PICK ws \in NotifyOne(Waiting) : ~MustGrow => worker' = Wake(ws)
    BY <1>1 DEF Enqueue
  <2>2. owner' = "running" /\ pool_mode_' = pool_mode_
    BY <1>1 DEF Inv, CallsInFlight, Enqueue
  <2>3. Len(task_que_') = Len(task_que_) + 1 /\ Len(task_que_) \in Nat
    BY <1>1 DEF Inv, TypeOK, Enqueue
  <2>4. Blocked' = {}
    BY <1>1 DEF Inv, TypeOK, Enqueue, Blocked
  <2>5. ASSUME pool_mode_ = "MODE_FIXED", Waiting' # {}
        PROVE  Len(task_que_') <= Cardinality(Awake')
    <3>1. worker' = Wake(ws)
      BY <2>1, <2>5 DEF MustGrow
    <3>2. Waiting # {}
      BY <2>5, <3>1 DEF Wake, Waiting, InState
    <3>3. PICK x \in Waiting : ws = {x}
      BY <2>1, <3>2 DEF NotifyOne
    <3>4. x \in ThreadIds /\ x \notin Awake /\ Awake' = Awake \cup {x}
      BY <3>1, <3>3 DEF Inv, TypeOK, Wake, Waiting, Awake, InState, AwakeStates
    <3>5. Cardinality(Awake') = Cardinality(Awake) + 1 /\ Cardinality(Awake) \in Nat
      BY <3>4, OneMore, WorkersFinite DEF Awake, InState
    <3>. QED
      BY <2>3, <2>5, <3>2, <3>5 DEF Awake
  <2>. QED
    BY <2>2, <2>4, <2>5 DEF Awake
<1>2. CASE CheckRunning(t) \/ Block(t) \/ BlockedTimeout(t) \/ Reject(t)
  <2>1. UNCHANGED <<worker, que, owner, threads_, pool_mode_, task_que_max_size_>>
    BY <1>2 DEF CheckRunning, Block, BlockedTimeout, Reject
  <2>2. NoSleepWithWork' /\ DtorIsWoken' /\ EmptyWhenDestroyed'
    BY <2>1 DEF Waiting, InState
  <2>3. BlockedOnlyWhenFull'
    <3>1. Block(t) \/ Blocked' \subseteq Blocked
      BY <1>2 DEF Inv, TypeOK, CheckRunning, BlockedTimeout, Reject, Blocked
    <3>. QED
      BY <2>1, <3>1 DEF Block
  <2>. QED
    BY <2>2, <2>3
<1>. QED
  BY <1>1, <1>2 DEF CallStep

\* ThreadFunc: a worker that leaves tasks behind wakes the sleepers, makes room
\* known to the blocked calls and, on its way out, wakes the destructor.
LEMMA WorkerWakeups ==
    ASSUME NEW w \in ThreadIds, Inv, Wakeups, owner # "crashed",
           WorkerStep(w) \/ WaitTimeout(w) \/ SpuriousWakeup(w) \/ RecycleThread(w)
    PROVE  Wakeups'
<1>. USE DEF Wakeups, NoSleepWithWork, BlockedOnlyWhenFull, DtorIsWoken, EmptyWhenDestroyed,
             config, sizes, que
<1>0. Cardinality(Awake) \in Nat /\ Cardinality(Awake') \in Nat
  BY WorkersFinite DEF Awake, InState
<1>1. CASE TakeTask(w)
  <2>1. Len(task_que_') \in Nat /\ (Popped = <<>> => Len(task_que_') = 0)
    <3>1. task_que_' \in Seq(Tasks) /\ task_que_' = Popped
      BY <1>1 DEF Inv, TypeOK, TakeTask, Popped
    <3>. QED
      BY <3>1
  <2>2. Waiting' \subseteq Waiting /\ (Popped # <<>> => Waiting' = {})
    BY <1>1 DEF Inv, TypeOK, TakeTask, Wake, Waiting, InState
  <2>3. NoSleepWithWork'
    BY <1>0, <2>1, <2>2 DEF Awake
  <2>4. Blocked' = {}
    BY <1>1 DEF Inv, TypeOK, TakeTask, WakeCalls, Blocked
  <2>. QED
    BY <1>1, <2>2, <2>3, <2>4 DEF TakeTask
<1>2. CASE ExitThread(w)
  <2>1. Len(task_que_') = 0 /\ Waiting' = Waiting /\ Blocked' = Blocked
    BY <1>2 DEF Inv, TypeOK, ExitThread, MayExit, Waiting, InState, Blocked
  <2>2. NoSleepWithWork' /\ BlockedOnlyWhenFull'
    BY <1>0, <1>2, <2>1 DEF ExitThread, Awake
  <2>3. DtorIsWoken' /\ EmptyWhenDestroyed'
    BY <1>2, <2>1 DEF ExitThread, WakeOwner
  <2>. QED
    BY <2>2, <2>3
<1>3. CASE WaitForTask(w)
  <2>1. Len(task_que_') = 0 /\ Blocked' = Blocked
    BY <1>3 DEF WaitForTask, Blocked
  <2>2. owner' \notin {"exit_wait", "exit_woken", "destroyed"}
    BY <1>3 DEF Inv, Phases, WaitForTask
  <2>3. NoSleepWithWork'
    BY <1>0, <2>1 DEF Awake
  <2>. QED
    BY <1>3, <2>1, <2>2, <2>3 DEF WaitForTask
<1>4. CASE WaitTimeout(w) \/ SpuriousWakeup(w)
  <2>1. /\ worker[w] = "waiting" /\ worker' = [worker EXCEPT ![w] = "woken"]
        /\ UNCHANGED <<owner, config, threads_, que, call>>
    BY <1>4 DEF WaitTimeout, SpuriousWakeup
  <2>2. Waiting' \subseteq Waiting /\ w \notin Awake /\ Awake' = Awake \cup {w} /\ Blocked' = Blocked
    BY <2>1 DEF Inv, TypeOK, Waiting, Awake, InState, AwakeStates, Blocked
  <2>3. Cardinality(Awake') = Cardinality(Awake) + 1
    BY <2>2, OneMore DEF Awake, InState
  <2>4. NoSleepWithWork'
    BY <1>0, <2>1, <2>2, <2>3 DEF Inv, TypeOK, Awake
  <2>. QED
    BY <2>1, <2>2, <2>4
<1>5. CASE RecycleThread(w)
  <2>1. Waiting' = Waiting /\ Blocked' = Blocked
    BY <1>5 DEF Inv, TypeOK, RecycleThread, Waiting, InState, Blocked
  <2>. QED
    BY <1>5, <2>1 DEF RecycleThread
<1>6. CASE RunTask(w)
  <2>1. Waiting' = Waiting /\ Awake' = Awake /\ Blocked' = Blocked
    BY <1>6 DEF Inv, TypeOK, RunTask, Waiting, Awake, InState, AwakeStates, Blocked
  <2>. QED
    BY <1>6, <2>1 DEF RunTask, Awake
<1>7. CASE BackToIdle(w)
  <2>1. Waiting' = Waiting /\ w \notin Awake /\ Awake' = Awake \cup {w} /\ Blocked' = Blocked
    BY <1>7 DEF Inv, TypeOK, BackToIdle, Waiting, Awake, InState, AwakeStates, Blocked
  <2>2. Cardinality(Awake') = Cardinality(Awake) + 1
    BY <2>1, OneMore DEF Awake, InState
  <2>3. NoSleepWithWork'
    BY <1>0, <1>7, <2>1, <2>2 DEF Inv, TypeOK, BackToIdle, Awake
  <2>. QED
    BY <1>7, <2>1, <2>3 DEF BackToIdle
<1>. QED
  BY <1>1, <1>2, <1>3, <1>4, <1>5, <1>6, <1>7 DEF WorkerStep

\* No step loses a wakeup.
LEMMA StepWakeups == Inv /\ Wakeups /\ [Next]_vars => Wakeups'
<1>. SUFFICES ASSUME Inv, Wakeups, [Next]_vars PROVE Wakeups'
  OBVIOUS
<1>1. CASE UNCHANGED vars
  BY <1>1 DEF Wakeups, vars, config, que, NoSleepWithWork, BlockedOnlyWhenFull, DtorIsWoken,
     EmptyWhenDestroyed, Waiting, Blocked, InState
<1>. QED
  BY <1>1, OwnerWakeups, CallWakeups, WorkerWakeups DEF Next, Terminated

\* No wakeup is lost in any reachable state.
LEMMA WakeupsInvariance == Spec => []Wakeups
<1>1. Init => Wakeups
  BY InitWakeups
<1>2. Inv /\ Wakeups /\ [Next]_vars => Wakeups'
  BY StepWakeups
<1>. QED
  BY <1>1, <1>2, Invariance, PTL DEF Spec

\* Fixed mode: while a worker sleeps in not_empty_.wait there is a distinct awake
\* worker for every queued task, however many workers, tasks and callers.
THEOREM NoSleepWithWorkAlways == Spec => []NoSleepWithWork
<1>1. Wakeups => NoSleepWithWork
  BY DEF Wakeups
<1>. QED
  BY <1>1, WakeupsInvariance, PTL

\* No SubmitTask call sleeps on not_full_ while the queue has room.
THEOREM BlockedOnlyWhenFullAlways == Spec => []BlockedOnlyWhenFull
<1>1. Wakeups => BlockedOnlyWhenFull
  BY DEF Wakeups
<1>. QED
  BY <1>1, WakeupsInvariance, PTL

\* After the destructor's notify_all no worker sleeps, and in fixed mode the
\* destructor never sleeps on exit_cond_ with no thread left to notify it.
THEOREM DtorIsWokenAlways == Spec => []DtorIsWoken
<1>1. Wakeups => DtorIsWoken
  BY DEF Wakeups
<1>. QED
  BY <1>1, WakeupsInvariance, PTL

\* No thread outlives the pool whose members it uses.
THEOREM NoUseAfterDestroyAlways == Spec => []NoUseAfterDestroy
<1>1. Inv /\ Wakeups => NoUseAfterDestroy
  BY DEF Inv, Wakeups, ThreadsAreLive, EmptyWhenDestroyed, NoUseAfterDestroy, Live
<1>. QED
  BY <1>1, Invariance, WakeupsInvariance, PTL

-----------------------------------------------------------------------------
(* Accepted tasks are executed once.  ExactlyOnce counts; the invariant says *)
(* the same without counting, and which workers have a task.                *)

Queued(t)  == \E i \in DOMAIN task_que_ : task_que_[i] = t
Running(t) == \E w \in ThreadIds : cur[w] = t

\* Exactly the busy workers have a task.
BusyHaveTask == \A w \in ThreadIds : cur[w] # NoTask <=> worker[w] = "busy"

\* No two places of the queue and no two workers have the same task.
PlacesDiffer ==
    /\ \A i, j \in DOMAIN task_que_ : task_que_[i] = task_que_[j] => i = j
    /\ \A v, w \in ThreadIds : cur[v] = cur[w] /\ cur[v] # NoTask => v = w

\* A task is queued, running, executed once, or was not accepted.
OnePlace ==
    \A t \in Tasks :
        /\ ~(Queued(t) /\ Running(t))
        /\ Queued(t) \/ Running(t) => call[t] = "accepted" /\ ran[t] = 0
        /\ ~Queued(t) /\ ~Running(t) => ran[t] = IF call[t] = "accepted" THEN 1 ELSE 0

Placed == BusyHaveTask /\ PlacesDiffer /\ OnePlace

\* A step that leaves the queue, the tasks of the workers and what was executed
\* alone, makes nobody busy and accepts nothing keeps every task in its place.
LEMMA TasksStay ==
    ASSUME Placed, UNCHANGED <<task_que_, cur, ran>>,
           \A w \in ThreadIds : worker'[w] = "busy" <=> worker[w] = "busy",
           \A t \in Tasks : call'[t] = "accepted" <=> call[t] = "accepted"
    PROVE  Placed'
BY DEF Placed, BusyHaveTask, PlacesDiffer, OnePlace, Queued, Running

\* SubmitTask puts a task that was nowhere at the end of the queue.
LEMMA EnqueuePlaced ==
    ASSUME NEW t \in Tasks, Inv, Placed, Enqueue(t)
    PROVE  Placed'
<1>. USE DEF Inv, TypeOK
<1>1. /\ call[t] # "accepted" /\ task_que_' = Append(task_que_, t) /\ UNCHANGED <<cur, ran>>
      /\ call' = [call EXCEPT ![t] = "accepted"]
  BY DEF Enqueue
<1>2. \A w \in ThreadIds : worker'[w] = "busy" <=> worker[w] = "busy"
  <2>1. PICK ws \in NotifyOne(Waiting) :
           \/ worker' = Wake(ws)
           \/ /\ generate_thread_id_ \in ThreadIds
              /\ worker' = [Wake(ws) EXCEPT ![generate_thread_id_] = "ready"]
    BY DEF Enqueue
  <2>2. ws \subseteq Waiting
    BY DEF NotifyOne
  <2>3. \A w \in ThreadIds : Wake(ws)[w] = "busy" <=> worker[w] = "busy"
    BY <2>2 DEF Wake, Waiting, InState
  <2>4. generate_thread_id_ \in ThreadIds => worker[generate_thread_id_] = "none"
    BY DEF FreshIds
  <2>5. Wake(ws) \in [ThreadIds -> WorkerStates]
    BY <2>2, WakeKeeps
  <2>. QED
    BY <2>1, <2>3, <2>4, <2>5
<1>3. ~Queued(t) /\ ~Running(t) /\ ran[t] = 0
  BY <1>1 DEF Placed, OnePlace
<1>4. /\ DOMAIN task_que_' = 1 .. Len(task_que_) + 1
      /\ DOMAIN task_que_ = 1 .. Len(task_que_) /\ Len(task_que_) \in Nat
      /\ \A i \in DOMAIN task_que_ : task_que_'[i] = task_que_[i]
      /\ task_que_'[Len(task_que_) + 1] = t
  BY <1>1
<1>5. /\ \A x \in Tasks : Queued(x)' <=> Queued(x) \/ x = t
      /\ \A x \in Tasks : Running(x)' <=> Running(x)
  <2>1. ASSUME NEW x \in Tasks PROVE Queued(x)' <=> Queued(x) \/ x = t
    <3>1. Queued(x)' => Queued(x) \/ x = t
      BY <1>4 DEF Queued
    <3>2. Queued(x) => Queued(x)'
      BY <1>4 DEF Queued
    <3>3. Len(task_que_) + 1 \in DOMAIN task_que_'
      BY <1>4
    <3>. QED
      BY <1>4, <3>1, <3>2, <3>3 DEF Queued
  <2>2. ASSUME NEW x \in Tasks PROVE Running(x)' <=> Running(x)
    BY <1>1 DEF Running
  <2>. QED
    BY <2>1, <2>2
<1>6. BusyHaveTask'
  BY <1>1, <1>2 DEF Placed, BusyHaveTask
<1>7. PlacesDiffer'
  BY <1>1, <1>3, <1>4 DEF Placed, PlacesDiffer, Queued
<1>8. OnePlace'
  BY <1>1, <1>3, <1>5 DEF Placed, OnePlace
<1>. QED
  BY <1>6, <1>7, <1>8 DEF Placed

\* A worker moves the first task of the queue into its own hands.
LEMMA TakePlaced ==
    ASSUME NEW w \in ThreadIds, Inv, Placed, TakeTask(w)
    PROVE  Placed'
<1>. USE DEF Inv, TypeOK
<1>. DEFINE x == Head(task_que_)
<1>1. /\ worker[w] \in {"ready", "woken"} /\ task_que_ # <<>> /\ task_que_' = Tail(task_que_)
      /\ cur' = [cur EXCEPT ![w] = x] /\ UNCHANGED ran
  BY DEF TakeTask, Popped
<1>2. /\ worker'[w] = "busy"
      /\ \A v \in ThreadIds \ {w} : worker'[v] = "busy" <=> worker[v] = "busy"
  BY DEF TakeTask, Wake, Waiting, InState
<1>3. \A y \in Tasks : call'[y] = "accepted" <=> call[y] = "accepted"
  BY DEF TakeTask, WakeCalls
<1>4. /\ DOMAIN task_que_ = 1 .. Len(task_que_) /\ Len(task_que_) \in Nat \ {0}
      /\ DOMAIN task_que_' = 1 .. Len(task_que_) - 1
      /\ \A i \in DOMAIN task_que_' : task_que_'[i] = task_que_[i + 1]
      /\ x = task_que_[1] /\ x \in Tasks
  BY <1>1
<1>5. cur[w] = NoTask
  BY <1>1 DEF Placed, BusyHaveTask
<1>6. x # NoTask
  BY <1>4, TasksAssumption
<1>7. Queued(x) /\ ~Running(x)
  <2>1. 1 \in DOMAIN task_que_
    BY <1>4
  <2>. QED
    BY <1>4, <2>1 DEF Queued, Placed, OnePlace
<1>8. \A y \in Tasks : Queued(y)' <=> Queued(y) /\ y # x
  <2>. SUFFICES ASSUME NEW y \in Tasks PROVE Queued(y)' <=> Queued(y) /\ y # x
    OBVIOUS
  <2>1. Queued(y)' => Queued(y) /\ y # x
    <3>. SUFFICES ASSUME NEW i \in DOMAIN task_que_', task_que_'[i] = y PROVE Queued(y) /\ y # x
      BY DEF Queued
    <3>1. i + 1 \in DOMAIN task_que_ /\ task_que_[i + 1] = y /\ i + 1 # 1 /\ 1 \in DOMAIN task_que_
      BY <1>4
    <3>. QED
      BY <1>4, <3>1 DEF Queued, Placed, PlacesDiffer
  <2>2. Queued(y) /\ y # x => Queued(y)'
    <3>. SUFFICES ASSUME NEW i \in DOMAIN task_que_, task_que_[i] = y, y # x PROVE Queued(y)'
      BY DEF Queued
    <3>1. i - 1 \in DOMAIN task_que_' /\ task_que_'[i - 1] = y
      BY <1>4
    <3>. QED
      BY <3>1 DEF Queued
  <2>. QED
    BY <2>1, <2>2
<1>9. \A y \in Tasks : Running(y)' <=> Running(y) \/ y = x
  BY <1>1, <1>5, TasksAssumption DEF Running
<1>10. BusyHaveTask'
  BY <1>1, <1>2, <1>6 DEF Placed, BusyHaveTask
<1>11. PlacesDiffer'
  <2>1. \A i, j \in DOMAIN task_que_' : task_que_'[i] = task_que_'[j] => i = j
    <3>. SUFFICES ASSUME NEW i \in DOMAIN task_que_', NEW j \in DOMAIN task_que_',
                         task_que_'[i] = task_que_'[j]
                  PROVE  i = j
      OBVIOUS
    <3>1. i + 1 \in DOMAIN task_que_ /\ j + 1 \in DOMAIN task_que_ /\ i \in Int /\ j \in Int
      BY <1>4
    <3>2. i + 1 = j + 1
      BY <1>4, <3>1 DEF Placed, PlacesDiffer
    <3>. QED
      BY <3>1, <3>2
  <2>2. \A u, v \in ThreadIds : cur'[u] = cur'[v] /\ cur'[u] # NoTask => u = v
    BY <1>1, <1>7 DEF Placed, PlacesDiffer, Running
  <2>. QED
    BY <2>1, <2>2 DEF PlacesDiffer
<1>12. OnePlace'
  BY <1>1, <1>3, <1>4, <1>7, <1>8, <1>9 DEF Placed, OnePlace
<1>. QED
  BY <1>10, <1>11, <1>12 DEF Placed

\* A worker executes the task it has, and has none afterwards.
LEMMA RunPlaced ==
    ASSUME NEW w \in ThreadIds, Inv, Placed, RunTask(w)
    PROVE  Placed'
<1>. USE DEF Inv, TypeOK
<1>. DEFINE x == cur[w]
<1>1. /\ worker[w] = "busy" /\ worker' = [worker EXCEPT ![w] = "finished"]
      /\ cur' = [cur EXCEPT ![w] = NoTask] /\ ran' = [ran EXCEPT ![x] = @ + 1]
      /\ UNCHANGED <<task_que_, call>>
  BY DEF RunTask, que
<1>2. x \in Tasks /\ Running(x)
  BY <1>1 DEF Placed, BusyHaveTask, Running
<1>3. ~Queued(x) /\ call[x] = "accepted" /\ ran[x] = 0
  BY <1>2 DEF Placed, OnePlace
<1>4. /\ \A y \in Tasks : Queued(y)' <=> Queued(y)
      /\ \A y \in Tasks : Running(y)' <=> Running(y) /\ y # x
  <2>1. \A y \in Tasks : Queued(y)' <=> Queued(y)
    BY <1>1 DEF Queued
  <2>2. \A y \in Tasks : Running(y)' <=> Running(y) /\ y # x
    BY <1>1, <1>2, TasksAssumption DEF Running, Placed, PlacesDiffer
  <2>. QED
    BY <2>1, <2>2
<1>5. BusyHaveTask'
  BY <1>1 DEF Placed, BusyHaveTask
<1>6. PlacesDiffer'
  BY <1>1 DEF Placed, PlacesDiffer
<1>7. OnePlace'
  BY <1>1, <1>2, <1>3, <1>4 DEF Placed, OnePlace
<1>. QED
  BY <1>5, <1>6, <1>7 DEF Placed

\* Every step keeps every accepted task in one place.
LEMMA StepPlaced == Inv /\ Placed /\ [Next]_vars => Placed'
<1>. SUFFICES ASSUME Inv, Placed, [Next]_vars PROVE Placed'
  OBVIOUS
<1>. USE DEF config, sizes, que
<1>1. CASE OwnerStep
  <2>1. UNCHANGED <<task_que_, cur, ran, call>>
    BY <1>1 DEF OwnerStep, SetMode, SetTaskQueMaxSize, SetThreadMaxSize, Start, StartThread,
                StartNullThread, StartReturns, StopRunning, NotifyAndWait, CheckExit, SpuriousExitWakeup
  <2>2. \A w \in ThreadIds : worker'[w] = "busy" <=> worker[w] = "busy"
    <3>1. CASE StartThread
      BY <3>1 DEF StartThread, Inv, TypeOK, Phases
    <3>2. ASSUME NEW n \in InitSizes, Start(n)
          PROVE  \A w \in ThreadIds : worker'[w] = "busy" <=> worker[w] = "busy"
      BY <3>2 DEF Start, Inv, Phases
    <3>3. CASE NotifyAndWait
      BY <3>3 DEF NotifyAndWait, Wake, Waiting, InState
    <3>4. CASE UNCHANGED worker
      BY <3>4
    <3>. QED
      BY <1>1, <3>1, <3>2, <3>3, <3>4
      DEF OwnerStep, SetMode, SetTaskQueMaxSize, SetThreadMaxSize, StartNullThread, StartReturns,
          StopRunning, CheckExit, SpuriousExitWakeup
  <2>. QED
    BY <2>1, <2>2, TasksStay
<1>2. ASSUME NEW t \in Tasks, CallStep(t) PROVE Placed'
  <2>1. CASE Enqueue(t)
    BY <2>1, EnqueuePlaced
  <2>2. CASE CheckRunning(t) \/ Block(t) \/ BlockedTimeout(t) \/ Reject(t)
    BY <2>2, TasksStay DEF Inv, TypeOK, CheckRunning, Block, BlockedTimeout, Reject
  <2>. QED
    BY <1>2, <2>1, <2>2 DEF CallStep
<1>3. ASSUME NEW w \in ThreadIds,
             WorkerStep(w) \/ WaitTimeout(w) \/ SpuriousWakeup(w) \/ RecycleThread(w)
      PROVE  Placed'
  <2>1. CASE TakeTask(w)
    BY <2>1, TakePlaced
  <2>2. CASE RunTask(w)
    BY <2>2, RunPlaced
  <2>3. CASE ExitThread(w) \/ WaitForTask(w) \/ BackToIdle(w) \/ WaitTimeout(w) \/ SpuriousWakeup(w)
             \/ RecycleThread(w)
    BY <2>3, TasksStay
    DEF Inv, TypeOK, ExitThread, WaitForTask, BackToIdle, WaitTimeout, SpuriousWakeup, RecycleThread
  <2>. QED
    BY <1>3, <2>1, <2>2, <2>3 DEF WorkerStep
<1>4. CASE UNCHANGED vars
  BY <1>4, TasksStay DEF vars
<1>. QED
  BY <1>1, <1>2, <1>3, <1>4 DEF Next, Terminated

\* Counting the places of a task that is in one place at most.
LEMMA PlacedCounts == Inv /\ Placed => ExactlyOnce
<1>. SUFFICES ASSUME Inv, Placed, NEW t \in Tasks
              PROVE  Cardinality({i \in DOMAIN task_que_ : task_que_[i] = t})
                     + Cardinality({w \in ThreadIds : cur[w] = t})
                     + ran[t] = IF call[t] = "accepted" THEN 1 ELSE 0
  BY DEF ExactlyOnce
<1>. DEFINE I == {i \in DOMAIN task_que_ : task_que_[i] = t}
            W == {w \in ThreadIds : cur[w] = t}
<1>1. Cardinality(I) = IF Queued(t) THEN 1 ELSE 0
  <2>1. CASE Queued(t)
    <3>1. PICK i \in DOMAIN task_que_ : task_que_[i] = t
      BY <2>1 DEF Queued
    <3>2. I = {i}
      BY <3>1 DEF Placed, PlacesDiffer
    <3>. QED
      BY <2>1, <3>2, FS_Singleton
  <2>2. CASE ~Queued(t)
    <3>1. I = {}
      BY <2>2 DEF Queued
    <3>. QED
      BY <2>2, <3>1, FS_EmptySet
  <2>. QED
    BY <2>1, <2>2
<1>2. Cardinality(W) = IF Running(t) THEN 1 ELSE 0
  <2>1. CASE Running(t)
    <3>1. PICK w \in ThreadIds : cur[w] = t
      BY <2>1 DEF Running
    <3>2. W = {w}
      BY <3>1, TasksAssumption DEF Placed, PlacesDiffer
    <3>. QED
      BY <2>1, <3>2, FS_Singleton
  <2>2. CASE ~Running(t)
    <3>1. W = {}
      BY <2>2 DEF Running
    <3>. QED
      BY <2>2, <3>1, FS_EmptySet
  <2>. QED
    BY <2>1, <2>2
<1>. HIDE DEF I, W
<1>3. Cardinality(I) + Cardinality(W) + ran[t] = IF call[t] = "accepted" THEN 1 ELSE 0
  BY <1>1, <1>2 DEF Inv, TypeOK, Placed, OnePlace
<1>. QED
  BY <1>3 DEF I, W

\* A task that SubmitTask accepted is in the queue, with one worker, or has been
\* executed, and never in two of these: it is executed at most once, and not lost by
\* growing, recycling or stopping the pool.
THEOREM ExactlyOnceAlways == Spec => []ExactlyOnce
<1>1. Init => Placed
  <2>. SUFFICES ASSUME Init PROVE Placed
    OBVIOUS
  <2>1. DOMAIN task_que_ = {} /\ \A w \in ThreadIds : cur[w] = NoTask /\ worker[w] = "none"
    BY DEF Init
  <2>2. \A t \in Tasks : ran[t] = 0 /\ call[t] = "idle" /\ t # NoTask
    BY TasksAssumption DEF Init
  <2>. QED
    BY <2>1, <2>2 DEF Placed, BusyHaveTask, PlacesDiffer, OnePlace, Queued, Running
<1>2. Inv /\ Placed /\ [Next]_vars => Placed'
  BY StepPlaced
<1>3. Inv /\ Placed => ExactlyOnce
  BY PlacedCounts
<1>. QED
  BY <1>1, <1>2, <1>3, Invariance, PTL DEF Spec
=============================================================================
