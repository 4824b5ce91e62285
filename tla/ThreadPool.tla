----------------------------- MODULE ThreadPool -----------------------------
(***************************************************************************)
(* The fixed / cached thread pool of thread_pool/thread_pool.{h,cpp}.      *)
(*                                                                         *)
(* Three kinds of threads share one ThreadPool object: the owner, which    *)
(* configures, starts and destroys it; the callers of SubmitTask, one call *)
(* per element of Tasks; and the detached worker threads running           *)
(* ThreadFunc.  task_que_mtx_ is not a variable: what a thread does        *)
(* between acquiring it and releasing it (in a destructor or in a wait) is *)
(* one action.  The atomics that are touched outside the mutex             *)
(* (is_running_ in the destructor and in CheckRunningState, the            *)
(* ++idle_thread_size_ after a task) are actions of their own.             *)
(***************************************************************************)
EXTENDS Integers, Sequences, FiniteSets

CONSTANTS
    Tasks,           \* the SubmitTask calls; a call is identified with its task
    NoTask,          \* what a worker that runs no task holds
    Modes,           \* the modes SetMode may be given
    InitSizes,       \* the arguments Start may be given
    kThreadMaxSize,  \* thread_max_size_ of a new pool
    kTaskQueMaxSize, \* task_que_max_size_ of a new pool
    ThreadMaxSizes,  \* the arguments SetThreadMaxSize may be given
    QueMaxSizes,     \* the arguments SetTaskQueMaxSize may be given
    FirstIds,        \* Thread::generate_thread_id_ when the pool is constructed
    MaxThreadId      \* bound on the thread ids of a behaviour

ASSUME TasksAssumption == NoTask \notin Tasks
ASSUME ModesAssumption == Modes \subseteq {"MODE_FIXED", "MODE_CACHED"}
ASSUME SizesAssumption ==
    /\ InitSizes \subseteq Nat
    /\ kThreadMaxSize \in Nat /\ ThreadMaxSizes \subseteq Nat
    /\ kTaskQueMaxSize \in Nat /\ QueMaxSizes \subseteq Nat
    /\ FirstIds \subseteq Nat
    /\ MaxThreadId \in Nat

VARIABLES
    owner,                \* where the owner thread is in the pool's life
    start_i,              \* the index i of the second loop of Start
    pool_mode_, thread_max_size_, task_que_max_size_, init_thread_size_,
    is_running_,
    generate_thread_id_,  \* static: shared by every pool of the process
    threads_,             \* the keys of the map threads_
    worker,               \* where each thread is in ThreadFunc
    cur,                  \* the task each worker is executing
    current_thread_size_, idle_thread_size_,
    task_que_, task_size_,
    call,                 \* where each SubmitTask call is
    ran                   \* history: how often each task was executed

config  == <<pool_mode_, thread_max_size_, task_que_max_size_>>
sizes   == <<current_thread_size_, idle_thread_size_>>
que     == <<task_que_, task_size_>>
vars    == <<owner, start_i, config, init_thread_size_, is_running_,
             generate_thread_id_, threads_, worker, cur, sizes, que, call, ran>>

ThreadIds == 0 .. MaxThreadId

OwnerStates  == {"constructed", "starting", "running", "stopping",
                 "exit_wait", "exit_woken", "destroyed", "crashed"}
\* created: a Thread object without an OS thread.  ready: about to lock at the
\* top of the loop.  waiting: inside not_empty_.wait or wait_for.  woken: out of
\* the wait, about to reacquire the mutex.  finished: task() has returned,
\* ++idle_thread_size_ has not happened.  exited: returned because the pool
\* stopped.  recycled: returned because it was idle too long.
WorkerStates == {"none", "created", "ready", "waiting", "woken",
                 "busy", "finished", "exited", "recycled"}
CallStates   == {"idle", "checked", "blocked", "expired", "accepted", "rejected"}

InState(S) == {w \in ThreadIds : worker[w] \in S}
Waiting    == InState({"waiting"})
Blocked    == {t \in Tasks : call[t] = "blocked"}

-----------------------------------------------------------------------------
(* Condition variables.                                                    *)

NotifyNobody(ws) == {{}}     \* faulty NotifyOne: the notify is forgotten

\* not_empty_.notify_one : the sets of threads it may wake, of ws waiting ones.
NotifyOne(ws) == IF ws = {} THEN {{}} ELSE {{w} : w \in ws}

\* The workers once the threads of ws have been woken.
Wake(ws) == [w \in ThreadIds |-> IF w \in ws THEN "woken" ELSE worker[w]]

WakeNoCall == call           \* faulty WakeCalls: the notify is forgotten

\* not_full_.notify_all : every blocked call evaluates its predicate again.
WakeCalls == [t \in Tasks |-> IF call[t] = "blocked" THEN "checked" ELSE call[t]]

WakeNoOwner == owner         \* faulty WakeOwner: the notify is forgotten

\* exit_cond_.notify_all
WakeOwner == IF owner = "exit_wait" THEN "exit_woken" ELSE owner

-----------------------------------------------------------------------------
(* The owner: configuration, Start and the destructor.                     *)

\* The setters return at once when the pool is running.
SetMode(m) ==
    /\ owner \in {"constructed", "running"} /\ ~is_running_
    /\ pool_mode_' = m
    /\ UNCHANGED <<owner, start_i, thread_max_size_, task_que_max_size_,
                   init_thread_size_, is_running_, generate_thread_id_, threads_,
                   worker, cur, sizes, que, call, ran>>

SetTaskQueMaxSize(n) ==
    /\ owner \in {"constructed", "running"} /\ ~is_running_
    /\ task_que_max_size_' = n
    /\ UNCHANGED <<owner, start_i, pool_mode_, thread_max_size_,
                   init_thread_size_, is_running_, generate_thread_id_, threads_,
                   worker, cur, sizes, que, call, ran>>

SetThreadMaxSize(n) ==
    /\ owner \in {"constructed", "running"} /\ ~is_running_
    /\ thread_max_size_' = n
    /\ UNCHANGED <<owner, start_i, pool_mode_, task_que_max_size_,
                   init_thread_size_, is_running_, generate_thread_id_, threads_,
                   worker, cur, sizes, que, call, ran>>

\* std::min(init_thread_size, thread_max_size_)
InitSize(n) == IF n <= thread_max_size_ THEN n ELSE thread_max_size_

\* Start up to the end of its first loop: all Thread objects exist.
Start(n) ==
    LET m   == InitSize(n)
        ids == generate_thread_id_ .. generate_thread_id_ + m - 1
    IN  /\ owner = "constructed"
        /\ ids \subseteq ThreadIds
        /\ owner' = "starting"
        /\ start_i' = 0
        /\ is_running_' = TRUE
        /\ init_thread_size_' = m
        /\ current_thread_size_' = m
        /\ generate_thread_id_' = generate_thread_id_ + m
        /\ threads_' = threads_ \cup ids
        /\ worker' = [w \in ThreadIds |-> IF w \in ids THEN "created" ELSE worker[w]]
        /\ UNCHANGED <<config, cur, idle_thread_size_, que, call, ran>>

\* One iteration of the second loop, threads_[i]->Start(); ++idle_thread_size_.
StartThread ==
    /\ owner = "starting" /\ start_i < init_thread_size_
    /\ start_i \in threads_
    /\ worker' = [worker EXCEPT ![start_i] = "ready"]
    /\ idle_thread_size_' = idle_thread_size_ + 1
    /\ start_i' = start_i + 1
    /\ UNCHANGED <<owner, config, init_thread_size_, is_running_, generate_thread_id_,
                   threads_, cur, current_thread_size_, que, call, ran>>

\* The same iteration when no thread has the id i: operator[] inserts a null
\* unique_ptr and Start is called through it.
StartNullThread ==
    /\ owner = "starting" /\ start_i < init_thread_size_
    /\ start_i \notin threads_
    /\ owner' = "crashed"
    /\ threads_' = threads_ \cup {start_i}
    /\ UNCHANGED <<start_i, config, init_thread_size_, is_running_, generate_thread_id_,
                   worker, cur, sizes, que, call, ran>>

StartReturns ==
    /\ owner = "starting" /\ start_i = init_thread_size_
    /\ owner' = "running"
    /\ UNCHANGED <<start_i, config, init_thread_size_, is_running_, generate_thread_id_,
                   threads_, worker, cur, sizes, que, call, ran>>

\* ~ThreadPool, first statement.  The owner destroys the pool only when no
\* SubmitTask call is in flight.
StopRunning ==
    /\ owner \in {"constructed", "running"}
    /\ \A t \in Tasks : call[t] \in {"idle", "accepted", "rejected"}
    /\ owner' = "stopping"
    /\ is_running_' = FALSE
    /\ UNCHANGED <<start_i, config, init_thread_size_, generate_thread_id_, threads_,
                   worker, cur, sizes, que, call, ran>>

ReturnAtOnce == "destroyed"  \* faulty ExitPredicate: nothing is waited for

\* [&]() { return threads_.empty(); } : the destructor returns or (still) waits.
ExitPredicate == IF threads_ = {} THEN "destroyed" ELSE "exit_wait"

\* ~ThreadPool, from the lock to the first evaluation of the exit predicate.
NotifyAndWait ==
    /\ owner = "stopping"
    /\ worker' = Wake(Waiting)
    /\ owner' = ExitPredicate
    /\ UNCHANGED <<start_i, config, init_thread_size_, is_running_, generate_thread_id_,
                   threads_, cur, sizes, que, call, ran>>

\* exit_cond_.wait has been notified: the predicate is evaluated again.
CheckExit ==
    /\ owner = "exit_woken"
    /\ owner' = ExitPredicate
    /\ UNCHANGED <<start_i, config, init_thread_size_, is_running_, generate_thread_id_,
                   threads_, worker, cur, sizes, que, call, ran>>

\* exit_cond_ may also wake the owner without a notification.
SpuriousExitWakeup ==
    /\ owner = "exit_wait"
    /\ owner' = "exit_woken"
    /\ UNCHANGED <<start_i, config, init_thread_size_, is_running_, generate_thread_id_,
                   threads_, worker, cur, sizes, que, call, ran>>

-----------------------------------------------------------------------------
(* SubmitTask.                                                             *)

\* CheckRunningState, before the mutex is taken.  A call starts only while the
\* pool may be used: before Start, or between Start and the destructor.
CheckRunning(t) ==
    /\ call[t] = "idle"
    /\ owner \in {"constructed", "running"}
    /\ call' = [call EXCEPT ![t] = IF is_running_ THEN "checked" ELSE "rejected"]
    /\ UNCHANGED <<owner, start_i, config, init_thread_size_, is_running_,
                   generate_thread_id_, threads_, worker, cur, sizes, que, ran>>

\* faulty MustGrow: thread_max_size_ is ignored
GrowAnyway == pool_mode_ = "MODE_CACHED" /\ task_size_ + 1 > idle_thread_size_

\* cached mode: the new task outnumbers the idle threads and there is room.
MustGrow ==
    /\ pool_mode_ = "MODE_CACHED"
    /\ task_size_ + 1 > idle_thread_size_
    /\ current_thread_size_ < thread_max_size_

\* The queue has room: enqueue, notify one worker, and grow if necessary.
Enqueue(t) ==
    /\ call[t] \in {"checked", "expired"}
    /\ Len(task_que_) < task_que_max_size_
    /\ call' = [call EXCEPT ![t] = "accepted"]
    /\ task_que_' = Append(task_que_, t)
    /\ task_size_' = task_size_ + 1
    /\ \E ws \in NotifyOne(Waiting) :
          \/ /\ ~MustGrow
             /\ worker' = Wake(ws)
             /\ UNCHANGED <<generate_thread_id_, threads_, sizes>>
          \/ /\ MustGrow
             /\ generate_thread_id_ \in ThreadIds
             /\ worker' = [Wake(ws) EXCEPT ![generate_thread_id_] = "ready"]
             /\ threads_' = threads_ \cup {generate_thread_id_}
             /\ generate_thread_id_' = generate_thread_id_ + 1
             /\ current_thread_size_' = current_thread_size_ + 1
             /\ idle_thread_size_' = idle_thread_size_ + 1
    /\ UNCHANGED <<owner, start_i, config, init_thread_size_, is_running_, cur, ran>>

\* The queue is full: block in not_full_.wait_for.
Block(t) ==
    /\ call[t] = "checked"
    /\ Len(task_que_) >= task_que_max_size_
    /\ call' = [call EXCEPT ![t] = "blocked"]
    /\ UNCHANGED <<owner, start_i, config, init_thread_size_, is_running_,
                   generate_thread_id_, threads_, worker, cur, sizes, que, ran>>

\* One second has passed since the call blocked; the predicate is evaluated
\* once more when the mutex has been reacquired.
BlockedTimeout(t) ==
    /\ call[t] = "blocked"
    /\ call' = [call EXCEPT ![t] = "expired"]
    /\ UNCHANGED <<owner, start_i, config, init_thread_size_, is_running_,
                   generate_thread_id_, threads_, worker, cur, sizes, que, ran>>

\* Still full: the caller gets a future that holds a default value.
Reject(t) ==
    /\ call[t] = "expired"
    /\ Len(task_que_) >= task_que_max_size_
    /\ call' = [call EXCEPT ![t] = "rejected"]
    /\ UNCHANGED <<owner, start_i, config, init_thread_size_, is_running_,
                   generate_thread_id_, threads_, worker, cur, sizes, que, ran>>

-----------------------------------------------------------------------------
(* ThreadFunc.                                                             *)

NotPopped == task_que_       \* faulty Popped: front() without pop()

\* task_que_.pop()
Popped == Tail(task_que_)

\* The critical section that finds a task.
TakeTask(w) ==
    /\ worker[w] \in {"ready", "woken"}
    /\ task_que_ # <<>>
    /\ idle_thread_size_' = idle_thread_size_ - 1
    /\ cur' = [cur EXCEPT ![w] = Head(task_que_)]
    /\ task_que_' = Popped
    /\ task_size_' = task_size_ - 1
    /\ worker' = [Wake(IF Popped # <<>> THEN Waiting ELSE {})
                     EXCEPT ![w] = "busy"]
    /\ call' = WakeCalls
    /\ UNCHANGED <<owner, start_i, config, init_thread_size_, is_running_,
                   generate_thread_id_, threads_, current_thread_size_, ran>>

\* while (task_que_.empty()) { if (!is_running_) ...
MayExit == task_que_ = <<>> /\ ~is_running_

\* The critical section that finds the queue empty and the pool stopped.
ExitThread(w) ==
    /\ worker[w] \in {"ready", "woken"}
    /\ MayExit
    /\ threads_' = threads_ \ {w}
    /\ owner' = WakeOwner
    /\ worker' = [worker EXCEPT ![w] = "exited"]
    /\ UNCHANGED <<start_i, config, init_thread_size_, is_running_,
                   generate_thread_id_, cur, sizes, que, call, ran>>

\* The critical section that finds the queue empty and waits on not_empty_.
WaitForTask(w) ==
    /\ worker[w] \in {"ready", "woken"}
    /\ task_que_ = <<>>
    /\ is_running_
    /\ worker' = [worker EXCEPT ![w] = "waiting"]
    /\ UNCHANGED <<owner, start_i, config, init_thread_size_, is_running_,
                   generate_thread_id_, threads_, cur, sizes, que, call, ran>>

\* The 1 s timer of wait_for (cached mode) expires.
WaitTimeout(w) ==
    /\ worker[w] = "waiting"
    /\ pool_mode_ = "MODE_CACHED"
    /\ worker' = [worker EXCEPT ![w] = "woken"]
    /\ UNCHANGED <<owner, start_i, config, init_thread_size_, is_running_,
                   generate_thread_id_, threads_, cur, sizes, que, call, ran>>

\* A condition variable may wake a thread that nobody notified.
SpuriousWakeup(w) ==
    /\ worker[w] = "waiting"
    /\ pool_mode_ = "MODE_FIXED"
    /\ worker' = [worker EXCEPT ![w] = "woken"]
    /\ UNCHANGED <<owner, start_i, config, init_thread_size_, is_running_,
                   generate_thread_id_, threads_, cur, sizes, que, call, ran>>

\* wait_for returned timeout, the thread has been idle for kThreadMaxIdleTime
\* (how long is left open) and there are more threads than init_thread_size_.
\* A notified thread takes this path too when its deadline has passed by the
\* time it owns the mutex again: wait_for decides by the clock.
\* The queue is not looked at again and exit_cond_ is not notified.
RecycleThread(w) ==
    /\ worker[w] = "woken"
    /\ pool_mode_ = "MODE_CACHED"
    /\ current_thread_size_ > init_thread_size_
    /\ threads_' = threads_ \ {w}
    /\ current_thread_size_' = current_thread_size_ - 1
    /\ idle_thread_size_' = idle_thread_size_ - 1
    /\ worker' = [worker EXCEPT ![w] = "recycled"]
    /\ UNCHANGED <<owner, start_i, config, init_thread_size_, is_running_,
                   generate_thread_id_, cur, que, call, ran>>

\* task() runs to its end.
RunTask(w) ==
    /\ worker[w] = "busy"
    /\ worker' = [worker EXCEPT ![w] = "finished"]
    /\ ran' = [ran EXCEPT ![cur[w]] = @ + 1]
    /\ cur' = [cur EXCEPT ![w] = NoTask]
    /\ UNCHANGED <<owner, start_i, config, init_thread_size_, is_running_,
                   generate_thread_id_, threads_, sizes, que, call>>

\* faulty BackToIdle: the counter is not incremented
BackUncounted(w) ==
    /\ worker[w] = "finished"
    /\ worker' = [worker EXCEPT ![w] = "ready"]
    /\ UNCHANGED <<owner, start_i, config, init_thread_size_, is_running_,
                   generate_thread_id_, threads_, cur, sizes, que, call, ran>>

\* ++idle_thread_size_, outside the mutex.
BackToIdle(w) ==
    /\ worker[w] = "finished"
    /\ worker' = [worker EXCEPT ![w] = "ready"]
    /\ idle_thread_size_' = idle_thread_size_ + 1
    /\ UNCHANGED <<owner, start_i, config, init_thread_size_, is_running_,
                   generate_thread_id_, threads_, cur, current_thread_size_, que,
                   call, ran>>

-----------------------------------------------------------------------------
Init ==
    /\ owner = "constructed"
    /\ start_i = 0
    /\ pool_mode_ = "MODE_FIXED"
    /\ thread_max_size_ = kThreadMaxSize
    /\ task_que_max_size_ = kTaskQueMaxSize
    /\ init_thread_size_ = 0
    /\ is_running_ = FALSE
    /\ generate_thread_id_ \in FirstIds
    /\ threads_ = {}
    /\ worker = [w \in ThreadIds |-> "none"]
    /\ cur = [w \in ThreadIds |-> NoTask]
    /\ current_thread_size_ = 0
    /\ idle_thread_size_ = 0
    /\ task_que_ = <<>>
    /\ task_size_ = 0
    /\ call = [t \in Tasks |-> "idle"]
    /\ ran = [t \in Tasks |-> 0]

\* The end of the object's life, or of the process.
Terminated == owner \in {"destroyed", "crashed"} /\ UNCHANGED vars

OwnerStep ==
    \/ \E m \in Modes : SetMode(m)
    \/ \E n \in QueMaxSizes : SetTaskQueMaxSize(n)
    \/ \E n \in ThreadMaxSizes : SetThreadMaxSize(n)
    \/ \E n \in InitSizes : Start(n)
    \/ StartThread \/ StartNullThread \/ StartReturns
    \/ StopRunning \/ NotifyAndWait \/ CheckExit \/ SpuriousExitWakeup

CallStep(t) ==
    \/ CheckRunning(t) \/ Enqueue(t) \/ Block(t) \/ BlockedTimeout(t) \/ Reject(t)

WorkerStep(w) ==
    \/ TakeTask(w) \/ ExitThread(w) \/ WaitForTask(w)
    \/ RunTask(w) \/ BackToIdle(w)

Next ==
    \/ OwnerStep
    \/ \E t \in Tasks : CallStep(t)
    \/ /\ owner # "crashed"
       /\ \E w \in ThreadIds : \/ WorkerStep(w) \/ WaitTimeout(w)
                               \/ SpuriousWakeup(w) \/ RecycleThread(w)
    \/ Terminated

Spec == Init /\ [][Next]_vars

\* Fairness: a started thread is scheduled and gets the mutex, a timer fires, a
\* task returns.  Nothing makes the owner destroy the pool, a caller submit, a
\* condition variable wake spuriously or an idle thread exceed its idle time.
FairSpec ==
    /\ Spec
    /\ WF_vars(StartThread) /\ WF_vars(StartReturns)
    /\ WF_vars(NotifyAndWait) /\ WF_vars(CheckExit)
    /\ \A t \in Tasks : WF_vars(Enqueue(t) \/ Block(t) \/ BlockedTimeout(t) \/ Reject(t))
    /\ \A w \in ThreadIds : WF_vars(WorkerStep(w) \/ WaitTimeout(w))

-----------------------------------------------------------------------------
(* What the pool promises.                                                 *)

LiveStates    == {"created", "ready", "waiting", "woken", "busy", "finished"}
IdleStates    == {"ready", "waiting", "woken", "exited"}
CurrentStates == LiveStates \cup {"exited"}
AwakeStates   == {"ready", "woken"}

\* The values the variables may take.  The three atomics are unsigned in the
\* code: that they stay in Nat says that none of them ever wraps below zero.
TypeOK ==
    /\ owner \in OwnerStates
    /\ start_i \in Nat
    /\ pool_mode_ \in {"MODE_FIXED", "MODE_CACHED"}
    /\ thread_max_size_ \in Nat /\ task_que_max_size_ \in Nat
    /\ init_thread_size_ \in Nat
    /\ is_running_ \in BOOLEAN
    /\ generate_thread_id_ \in Nat
    /\ threads_ \subseteq ThreadIds
    /\ worker \in [ThreadIds -> WorkerStates]
    /\ cur \in [ThreadIds -> Tasks \cup {NoTask}]
    /\ current_thread_size_ \in Nat /\ idle_thread_size_ \in Nat
    /\ task_que_ \in Seq(Tasks) /\ task_size_ \in Nat
    /\ call \in [Tasks -> CallStates]
    /\ ran \in [Tasks -> Nat]

\* The three counters, incremented and decremented in different critical
\* sections and (after a task) in none, agree with the threads and the queue at
\* every step.  A worker that left because the pool stopped stays counted.
CounterAccounting ==
    /\ idle_thread_size_ = Cardinality(InState(IdleStates))
    /\ current_thread_size_ = Cardinality(InState(CurrentStates))
    /\ task_size_ = Len(task_que_)

\* An accepted task is in exactly one place: queued once, being executed by one
\* worker, or executed once; a task that was not accepted is nowhere.
ExactlyOnce ==
    \A t \in Tasks :
        Cardinality({i \in DOMAIN task_que_ : task_que_[i] = t})
        + Cardinality({w \in ThreadIds : cur[w] = t})
        + ran[t] = IF call[t] = "accepted" THEN 1 ELSE 0

\* No lost wakeup on not_empty_ (fixed mode): as long as some worker sleeps,
\* there is a distinct awake worker for every queued task.
NoSleepWithWork ==
    pool_mode_ = "MODE_FIXED" /\ Waiting # {} =>
        Len(task_que_) <= Cardinality(InState(AwakeStates))

\* No lost wakeup on not_full_: no SubmitTask call sleeps while there is room.
BlockedOnlyWhenFull ==
    Blocked # {} => Len(task_que_) >= task_que_max_size_

\* When the destructor returns no thread is left that would still touch the
\* pool's members.
NoUseAfterDestroy ==
    owner = "destroyed" => InState(LiveStates) = {}

\* Once the destructor has notified not_empty_, no worker sleeps, and (fixed
\* mode) the destructor itself sleeps only while some thread has yet to notify it.
DtorIsWoken ==
    /\ owner \in {"exit_wait", "exit_woken"} => Waiting = {}
    /\ owner = "exit_wait" /\ pool_mode_ = "MODE_FIXED" => threads_ # {}

\* Every SubmitTask call returns, accepted or given up after its timeout, and what it
\* accepted is executed eventually, shutdown or not (if Start created any thread).
SubmitTaskServed ==
    \A t \in Tasks :
        /\ call[t] \in {"checked", "blocked"} ~> call[t] \in {"accepted", "rejected"}
        /\ call[t] = "accepted" /\ init_thread_size_ > 0 ~> ran[t] = 1

\* ~ThreadPool, once begun, returns, or every thread has left and at least one of
\* them left for idleness, the way out that does not notify exit_cond_.  In fixed
\* mode no thread is ever recycled: the destructor returns.
DtorReturnsUnlessRecycled ==
    owner = "stopping" ~>
        owner = "destroyed" \/ (threads_ = {} /\ InState({"recycled"}) # {})

\* ~ThreadPool, once begun, returns.
DtorReturns == owner = "stopping" ~> owner = "destroyed"
=============================================================================
