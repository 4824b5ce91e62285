# Verification of cpp-toy

This directory models the repository's five libraries in TLA+ (thread pool,
network library, connection pool and two memory pools), checks them with TLC on
small instances and proves their safety invariants and refinements with TLAPS for
all instances. Every definition that models code is mapped to its
source lines in `PROJECT.json`.

## 1. Inventory

The repository holds five independent libraries.

| Component | State | Operations | Interaction | What is hard | What makes it correct |
|---|---|---|---|---|---|
| **Thread pool** (`thread_pool/`) | task queue, map of threads, three atomic counters, mode and limits, `is_running_` | `SetMode`, `SetTaskQueMaxSize`, `SetThreadMaxSize`, `Start`, `SubmitTask`, `ThreadFunc`, destructor | callers, owner and detached workers share one mutex and three condition variables | lost wakeups, timeouts racing with room in the queue, shutdown with queued tasks, counters touched outside the mutex | accepted tasks run exactly once, nobody sleeps while there is something to do, the destructor waits for all workers and returns |
| **EventLoop** (`mymuduo/event_loop.*`) | `quit_`, `looping_`, `calling_pending_functors_`, `pending_functors_`, the eventfd | `Loop`, `Quit`, `RunInLoop`, `QueueInLoop`, `wakeup` | any thread queues functors or quits; handlers and functors call back into the loop | push and wakeup are two steps, functors queue functors, the flag is set before the wakeup | no lost wakeup, no lost quit, functors run once and in order |
| **EventLoopThread, Thread** | `loop_`, the OS thread | constructor, `StartLoop`, `ThreadFunc`, destructor | condition variable between owner and thread; `Quit` and join at the end | the pointer is set and reset by the thread and read without the mutex; the loop may end before or in the middle of the owner's Quit | a returned loop exists until a callback ends it, destruction ends and joins the thread and uses nothing that is gone |
| **Connection pool** (`connection_pool/`) | queue of connections, size counter, idle stamps | constructor, `GetConnection`, deleter, producer thread, scanner thread | one mutex, one condition variable for producer and clients | who notifies whom, restarts of `wait_for`, the scanner against an empty queue | a connection has one user, the counter is exact and bounded, waiting ends |
| **EventLoopThreadPool** | vector of loops, `next_` | `Start`, `GetNextLoop`, `GetAllLoops` | creates EventLoopThreads for TcpServer | round robin at the boundary, zero threads | every loop is returned in turn |
| **Channel, EpollPoller** | interest set, `index_` (new, added, deleted), map of channels | `Enable*`/`Disable*`, `Remove`, `HandleEvent`, `Poll` | called by loop, acceptor and connections | agreement of `index_`, the map and what epoll watches; use after removal, the tie | a channel is watched exactly when it has interests |
| **TcpConnection** | `state_`, input and output buffer, channel interests | `Send`, `Shutdown`, `HandleRead/Write/Close/Error`, `ConnectEstablished/Destroyed` | called from user threads through its loop | sends and shutdowns from other threads, partial writes, half-close with pending output | bytes are sent in order, half-close after the last byte, closed once |
| **TcpServer, Acceptor** | map of connections, next id | `Start`, `NewConnection`, `RemoveConnection`, destructor | main loop and io loops pass functors to each other | a connection closes while the server is destroyed | each connection is established once and destroyed once |
| **Buffer** | byte vector, read and write index | `Retrieve*`, `Append`, `MakeSpace`, `ReadFd`, `WriteFd` | used by TcpConnection | index arithmetic when data is moved to the front | behaves as a byte queue |
| **SGI memory pool** (`sgi_memory_pool/`) | 16 free lists, the chunk `[start_free, end_free)` | `Allocate`, `Refill`, `AllocChunk`, `Deallocate`, `Reallocate` | one mutex | splitting remainders, failure of malloc in the middle | blocks handed out never overlap |
| **nginx memory pool** (`nginx_memory_pool/`) | chain of blocks with failure counters, large list, cleanup list | `Allocate*`, `LargeFree`, `Reset`, `AddCleanup`, `Destroy` | single threaded | alignment at the end of a block, the moving `current` pointer, reuse after `Reset` | blocks do not overlap, everything is freed once |
| Logger, Timestamp, InetAddress, Socket, CurrentThread | none to speak of | formatting and system calls | | | |

The hazards, at the lines where they bite, are listed in `PROJECT.json`.

## 2. Modules

| Module | Models |
|---|---|
| `ThreadPool` | the whole of `thread_pool.{h,cpp}` |
| `EventLoop` | `event_loop.{h,cpp}`, with the poller reduced to the two ways in which `Poll` returns |
| `Executor` | abstract specification: jobs are executed at most once, in the order posted |
| `EventLoopThread` | `event_loop_thread.{h,cpp}` and `thread.{h,cpp}`, composed with `EventLoop` |
| `ConnectionPool` | `connection_pool.{h,cpp}` and `connection.{h,cpp}` |
| `Buffer` | `buffer.{h,cpp}` |
| `ByteQueue` | abstract specification: bytes leave in the order in which they were put in |
| `EpollPoller` | `Epoll_poller.{h,cpp}` and `channel.{h,cpp}`, as operators on the state of a poller |
| `TcpConnection` | `tcp_connection.{h,cpp}`, composed with `EpollPoller`; one connection in detail |
| `TcpServer` | `tcp_server.{h,cpp}`, `acceptor.{h,cpp}`, `event_loop_thread_pool.{h,cpp}`, composed with `EpollPoller`; many connections and loops |
| `NginxMemoryPool` | `nginx_memory_pool/memory_pool.{h,cpp}` |
| `SgiMemoryPool` | `sgi_memory_pool/memory_pool.{h,cpp}` |
| `MC...` | the modules TLC runs; the `.cfg` files give the constants |
| `...Proofs` | theorems and proofs about the module of that name; `EventLoopProofs` also covers `EventLoopThread` |

Operators introduced by a comment that begins with "faulty" are deliberate
errors; they are used only to confirm that a property notices them.

### ThreadPool

Three kinds of threads: the owner (`owner`, `start_i`), one SubmitTask call per
element of `Tasks` (`call`), and the workers (`worker`, `cur`). A critical
section under `task_que_mtx_` is one action, because nothing else that touches
the protected state can happen inside it; code outside the mutex is separate
(`StopRunning`, `CheckRunning`, `RunTask`, `BackToIdle`). A thread inside a
condition variable is in state `waiting`/`blocked`/`exit_wait`; it leaves it by a
notification, a timeout or spuriously, and must then reacquire the mutex, so
that another thread can come first. `RecycleThread` is possible for every thread
that has left `wait_for`: the deadline, not the notification, decides what
`wait_for` returns, and the 60 s of idleness are left open. `Start` creates all
Thread objects in one step and starts them one by one. The process-wide id
counter begins with any member of `FirstIds`: a value above zero is a pool that
is not the first of its process.

Assumed of the environment: SubmitTask is called before Start or between Start
and the destructor, not concurrently with either, and Start is called once, as in
the repository's own use. `ran` is a history variable. `MaxThreadId` bounds the
ids; it is chosen as first id + initial size + number of tasks - 1 or more, so
that the bound never keeps a thread from being created.

### EventLoop

The loop thread's position is `lpc`. Each functor of `Functors` is handed over
once, from another thread (`QueueInLoop`, then `QueueInLoopWakeup`), from a
callback of the loop thread (`QueueInLoopLocal`), or executed at once
(`RunInLoopLocal`). Each member of `Quitters` calls Quit from another thread;
callbacks may quit when `CallbacksQuit`. The eventfd is its counter, which `read`
resets to zero. The two stores at the start of Loop(), `looping_ = true` and
`quit_ = false`, are two actions (`EnterLoop`, `ResetQuit`), since a Quit may come
between them; `looping_ = false` at its end is part of `CheckQuit`, since nothing reads
`looping_`. After Loop() has returned the object still exists, and other threads may
call it. `PollOther` stands for other descriptors, the poll timeout and
signals. `executed` is a history variable. `Executor` is implemented under

    posted <- functors that were pushed,  todo <- functors \o pending_functors_,
    done   <- executed

### EventLoopThread

EXTENDS `EventLoop` and adds the owner and the thread around it. The owner's
`loop_->Quit()` is the foreign Quit of the single member of `Quitters`; the
owner's QueueInLoop calls are the foreign calls. StartLoop tests `loop_`, sleeps in
`cond_.wait` and is woken by `Publish` or spuriously. `Destroy` is the first read of
`loop_` in the destructor, without the mutex, as in the code. If it is set, Quit follows
in two halves (`DestroyQuit`, `DestroyWakeup`); if it is null, the members are destroyed
in reverse order (`DestroyMembers`), `mutex_` before the join of `thread_`. The end of
ThreadFunc has three steps: `Leave` locks the mutex and resets `loop_`, `Unlock` releases
it, `ThreadEnds` destroys the EventLoop. The owner becomes `undefined` when it calls
through a `loop_` that is null by then, calls an EventLoop that is gone
(`DestroyQuitLate`, `OwnerQueuesLate`), or destroys the mutex while ThreadFunc holds it;
the thread runs on. The second read of `loop_` (line 24) may be answered by the compiler
with the first, so a Quit on a loop that is leaving has both outcomes. `quit_by` is a
history variable: who has set `quit_` since `Loop()` reset it, a callback or the owner.

### ConnectionPool

`client`, `producer` and `scanner` are the positions of the threads. `clock` is
the C function `clock()`, advanced by `Tick` up to `MaxClock`; `MaxIdle` is the
threshold, whose unit is left open. MySQL may refuse a connection
(`ConnectMayFail`), which the code does not notice (`dead`). A pass of the scanner
is one action, since it holds the mutex throughout: it deletes the longest prefix
it may, or reaches `front()` of an empty queue (`ScanEmptyQueue`), after which
nothing is known. `MaxSpurious` bounds the spurious wakeups: infinitely many of
them would restart every `wait_for` for ever.

### Buffer and ByteQueue

`buf` holds the vector and the two positions; the operations are operators on such
a record and the actions apply them. `data` is what the last call passed in or out
and makes the promise visible: `ByteQueue` is implemented under
`content <- Content(buf)`. `peak` is a history variable. A failed `readv` or `write`
changes nothing and has no action. `ReadFd` may receive up to the free cells plus
`ExtraSize` bytes. Callers of `RetrieveAsString(len)` ask for at most what there is,
as all callers in the repository do; `Retrieve` is called with any length.

### EpollPoller

A poller is a record: `index_` of each channel, the map `channels_`, what the kernel
watches (with the channel pointer given to `epoll_ctl`), and whether an
`epoll_ctl(ADD/MOD)` failed, which is LOG_FATAL. `Handlers` is the sequence of
handlers that `HandleEventWithGuard` calls. Urgent data (EPOLLPRI) is left out.

### TcpConnection

The actors are the loop's thread (`Poll`, handlers, functors and the user's
callbacks inside them), other threads that hold a `TcpConnectionPtr` (`user`), the
server's thread (`server`) and the peer. The loop is replaced by what `Executor`
promises, a queue of functors, and the buffers by what `ByteQueue` promises; both
are what `EventLoop` and `Buffer` are shown to implement. `todo` holds the handlers
still to be called for one report of epoll, because a handler that closes the
connection is followed by the others. A user callback is a state of its own, in
which the callback may Send and Shutdown; the second half of `HandleClose` and
`ConnectDestroyed` follows its return. `Send` and `Shutdown` from another thread
test `state_`, (set it,) and queue a functor in separate steps. `Alive` says who
holds a reference; the functor of Shutdown holds none. When the connection is
freed although someone still uses it, the model lets that use go on as if the
memory were intact; the properties say when this cannot happen.

External: the socket (`Ready`, `Takes`, `AfterWrite`) and the peer, which sends,
reads, closes and resets at any time. Assumed: SIGPIPE is ignored; all callbacks
are set; the message callback takes the whole input buffer, as in the examples;
the caller of Send keeps its string until the functor has run; a functor's
references are released when it was executed. History: `accepted`, `written`,
`downs`, and `late`, which records that a Shutdown which had seen `kConnected` went
on after the connection was closed.

### TcpServer

The loops are `0` (the server's own) and `1..num_threads_`. Of a loop its two
vectors of functors, the test of `quit_` and the end remain; of a connection
`state_`, the interests, the descriptor and the counts of its callbacks. A
connection exists while the map or a functor holds it, and its descriptor is then
free for the next `accept`, in any loop; when none is free `accept` fails. Start is
called (once or twice) by the thread of the server's loop before `Loop()`. The server
is destroyed by that thread after `Loop()` has returned, which is the order of the
examples; the io loops run on meanwhile. `threads_` is destroyed one by one: Quit,
join, next. The handshakes inside are those of `EventLoopThread`; loops are assumed
to have passed the start of `Loop()` (finding 2 is about the other case) and to outlive
both halves of the Quit that ends them (section 4). `lost` is a history
variable.

### NginxMemoryPool

The pool is used by one thread; its operations are the actions. A position in a
block is its distance from the block's start, which malloc aligns. Each block
keeps `start`, its failure counter and, as history, the pieces cut from it since
it was made or reset. An allocation is written as the set of its outcomes, because
malloc may fail and because AddCleanup performs two allocations in a row. The
caller of AddCleanup sets the handler at once. A piece that reaches past the end
of its block (`Corrupts`), or the use of a pool whose constructor obtained no
memory (`AllocateFromNothing`), makes the status `undefined`, after which the model
stops.

### SgiMemoryPool

Allocate and Deallocate hold `mtx_` throughout and are one action each, with one
action per way through Refill and AllocChunk; Reallocate takes the mutex twice and
is two (`Reallocate`, `ReallocateReturns`), with the client holding both blocks in
between. A free list is named by the size of its nodes. malloc is a growing
address space of `HeapLimit` bytes that may fail at any time; memory given back
with `free` is not handed out again. Clients follow the pool's contract: they give
back what they got, with the size they asked for, and ask for more than 0 bytes
(`memory_pool.cpp:23`).

## 3. Runs

| Run | Result | Shows |
|---|---|---|
| `thread_pool` | pass | both modes: safety invariants, accepted tasks are executed, SubmitTask returns, the destructor returns unless a thread was recycled |
| `thread_pool_cached_dtor` | violation | in cached mode the destructor may wait for ever (finding) |
| `event_loop` | pass | no lost wakeup, no lost quit, refinement of `Executor`, functors executed without the poll timeout |
| `event_loop_thread` | pass | the loop outlives the pointer to it; the owner uses nothing that is gone unless a callback quit or the loop ended inside the owner's own Quit; the thread is joined before its owner goes; StartLoop returns, and so does the destructor of a loop that has reset `quit_` |
| `event_loop_thread_early_dtor` | violation | a Quit before the second store of Loop() is lost and the join hangs (finding) |
| `connection_pool` | pass | exclusive use, exact and bounded counter, idle order, GetConnection returns below the limit |
| `nginx_memory_pool` | pass | pieces inside their blocks and disjoint for well-sized pools; list nodes never in reusable memory; large allocations freed exactly once and handlers called at most once |
| `sgi_memory_pool` | pass | blocks, free nodes and the chunk never overlap, and together are all the memory obtained from malloc |
| `buffer` | pass | positions in order, size bounded by twice the largest content, refinement of `ByteQueue` |
| `tcp_connection` | pass | bytes written and buffered are the bytes accepted, in order; `index_`, map and kernel agree; input is delivered before the close; one close callback; a Shutdown functor finds its connection; no registered channel without an owner; a peer's close is noticed and the channel removed |
| `tcp_connection_output` | violation | buffered output is never sent (finding) |
| `tcp_server` | pass | connections dealt out evenly, no dangling channel in spite of reused descriptors, one up and one down callback also when closes race with the destructor, none when the server is gone, closed connections are freed, the destructor returns |

### Bounds

* `thread_pool`: three calls against queue limits of 1 and 2 let the queue fill
  with calls blocked, expired and rejected; `InitSizes` 3 is above the thread
  limit; with limit 2 the cached pool grows, recycles and grows again. No symmetry
  is used, since the run checks temporal properties.
* `event_loop`: three functors are enough for one being executed, one in the
  swapped vector behind it and one pending; two foreign quitters and a quitting
  callback cover concurrent Quits.
* `event_loop_thread`: two functors and one quitter (the owner has one Quit), with an
  initialisation callback that queues and callbacks that quit: the loop ends before
  StartLoop looks, while the owner holds it, between the two reads of `loop_`, and
  between the two halves of Quit.
* `connection_pool`: two clients and up to three connections with a minimum of
  one: the producer works below its limit, clients compete, the scanner deletes
  zero, one or two connections and meets the empty queue. Two ticks of the clock
  separate older from newer connections.
* `nginx_memory_pool`: struct sizes, alignment and limits are scaled down so that
  a block holds one or two pieces. Four blocks with `kMaxFailed` 1 (4 in the code)
  let `current_block_` move; `kMaxTries` 0 (3 in the code) lets the search for an
  empty LargeBlock give up after two nodes while three exist. Pool sizes: none,
  one raised to the minimum (too small for `kMaxAlloc`, as in the code), one that is
  not aligned, and one cut to the default size, which is well-sized.
* `sgi_memory_pool`: three size classes, two nodes per refill (20 in the code), two
  threads that hold up to two blocks each, one size above `kMaxBytes`. 52 bytes
  allow two or three chunks, so that rests are donated, larger nodes are split,
  and the share `heap_size_ >> 4` (here a division by 8) is not a multiple of the
  alignment before it is rounded.

* `buffer`: one reserved cell, two cells at first, an extra buffer of two and at
  most four bytes inside: appends find room, move or grow, and reads fit, use part
  of the extra buffer or all of it. The strings have distinct bytes, so that a lost
  or displaced byte shows.
* `tcp_connection`: a message is named by its length; messages of one and two bytes
  against a send buffer of one (in both runs) give complete, partial and refused
  writes and output behind buffered output, and the two together cross the high
  water mark of two; one byte of input; one other thread, since its calls and those
  of the callbacks already interleave.
* `tcp_server`: three connections over two descriptors and two loops: a descriptor
  is used again in the same and in the other loop, and round robin wraps.

### Fairness

* `ThreadPool`: started workers, the two start loops, the destructor and a caller
  inside SubmitTask are scheduled; the one second timers of `wait_for` fire; tasks
  return. Nothing forces a call to SubmitTask, the destructor, a spurious wakeup or
  an idle time of 60 s. Weak fairness on a worker's critical sections assumes that
  the mutex is not held for ever, which is true since no critical section blocks.
* `EventLoop`: the loop thread and threads inside QueueInLoop and Quit are
  scheduled, callbacks return. `PollOther` has no fairness, so what is shown does
  not rest on the 10 s poll timeout.
* `EventLoopThread`: both threads are scheduled once they are inside its functions.
  Spurious wakeups, calls by the owner and callbacks need not happen.
* `ConnectionPool`: the producer and a thread inside GetConnection are scheduled;
  an undisturbed `wait_for` times out. The scanner, ticks and the release of
  connections need not happen.

* `TcpConnection`: callbacks return, threads inside Send and Shutdown and the
  server's loop are scheduled, and the peer reads. `RunFunctor` and `Poll` have strong
  fairness: every round of `Loop()` polls and then runs what is queued, so neither
  can keep the other from happening, although each is enabled only between the
  rounds of the other. Peers and users need not do anything else.
* `TcpServer`: loops run what is queued and leave when told, the destructor goes on.
  `HandleClose` has strong fairness because a loop polls again and again.

`event_loop_thread` does not check deadlock: when a callback ends the loop before
StartLoop looks at `loop_`, the owner waits for ever while the thread has ended
(see below). The runs of `TcpConnection` do not either: a connection that has been
destroyed, with all users gone, stops. All other runs check it.

## 4. What the code does differently from what it says

Shown by a run and listed under `findings` in `PROJECT.json`:

1. Cached thread pool: a worker that leaves for idleness during shutdown does not
   notify `exit_cond_`; if it is the last one the destructor hangs.
2. `Loop()` resets `quit_` (`event_loop.cpp:98`); a destructor that sets it after StartLoop
   has returned and before this store, be it before Loop() or between lines 97 and 98,
   hangs in the join. `DtorOfLoopingReturns` is therefore stated after line 98.
3. `IsWriteEvent()` is false for a channel that also reads, so `HandleWrite` never
   sends what `SendInLoop` buffered, and the loop spins on the writable socket.

Also met in the models, without a run of their own:

* Thread ids are static, `Start` indexes `threads_` from zero (`thread_pool.cpp:92`): in
  a second pool of the process it calls Start through a null pointer
  (`StartNullThread`, reached with `FirstIds` above 0).
* The scanner of the connection pool calls `front()` without testing `empty()`
  (`connection_pool.cpp:149`, the action `ScanEmptyQueue`).
* At `max_size_` the producer of the connection pool spins on `notify_all`, which
  restarts the full timeout of every waiting GetConnection, so that the timeout of
  `connection_pool/README.md:7` need never come; `ServedBelowMax` is stated below the
  limit for this reason.
* `ShutdownInLoop` also tests `IsWriteEvent()`: the write side is closed while output
  is pending, although `tcp_connection.cpp:257` says that all of it was sent.
* `SendInLoop` writes in state `kDisconnecting`, although `tcp_connection.cpp:167` says
  that nothing is sent after Shutdown.
* A failed write is buffered like a partial one: `fault_error` is set only inside the
  test for EWOULDBLOCK (`tcp_connection.cpp:189-197`), where errno is neither EPIPE
  nor ECONNRESET.
* A Shutdown that saw `kConnected` and goes on after the close overwrites
  `kDisconnected` (`tcp_connection.cpp:251`). The connection can then be closed a second
  time, a late Send registers the channel again, and the functor, bound to a raw
  `this`, can outlive the connection. This is what `late` excepts in the properties of
  `TcpConnection`; `server.ended` excepts the same for a half-closed connection whose
  server was destroyed.
* `ConnectDestroyed` of a half-closed connection (`kDisconnecting`) does not call the
  connection callback, and one that is queued after the last round of an io loop is
  destroyed with the loop; these are the two exceptions in `UpThenDownOnce`.
* `Send` passes a pointer to the caller's string to the functor
  (`tcp_connection.cpp:147`) and not a copy; the model assumes the string is kept.
* A functor that the loop thread queues before `Loop()` is not accompanied by a
  wakeup: with `QueueBeforeLoop = TRUE`, `NoLostWakeup` is violated in `EventLoop`.
  The functor waits for the first poll to time out.
* `loop_` becomes null again when the loop ends (`Leave`), although
  `event_loop_thread.cpp:18` says it never does; StartLoop can then wait for ever,
  which is the exception in `StartLoopAlwaysReturns`.
* The destructor of EventLoopThread can use what is gone; the model's owner is then
  `undefined`, and `LifetimesNested` says when this can happen.
  When a callback ends the loop: `event_loop_thread.cpp:23` reads `loop_` and line 24 reads
  it again, without the mutex, and in between ThreadFunc may have reset it and destroyed
  the EventLoop on its stack, so that Quit is called through null or on a dead object;
  and if line 23 reads null, `mutex_` is destroyed before `thread_` is joined
  (`event_loop_thread.h:31-32`) although ThreadFunc may still hold it (lines 70-72).
  Whoever ends the loop: after `quit_ = true` (`event_loop.cpp:133`) the loop may end and be
  destroyed before the same call reads `thread_id_` and `wakeup_fd_` (lines 135-136). This
  needs no callback: a poll that returns for another reason is enough.
* The deleter and the scanner of the connection pool do not notify `cond_`: a
  client can sleep beside an available connection and the producer beside an
  empty queue until some other notification or a timeout.
* The result of `Connect` is ignored; a refused connection is handed out.
* Idle times are differences of `clock()`, the CPU time of the process, and
  `connection_timeout_` is passed as microseconds; the model leaves the units open.
* A fixed thread pool started with 0 threads (`hardware_concurrency()` may return 0)
  accepts tasks that nobody executes.
* nginx pool: only for pool sizes that are `WellSized` (a multiple of 16 bytes, with
  room for the header and `kMaxAlloc` bytes, as the default size is) do pieces stay
  inside their blocks. `AllocateSmallBlock` cuts the first piece without comparing
  its size with `size_` (`memory_pool.cpp:157`), and when aligning moves the pointer
  past the end, `end - m` as `size_t` is huge (`memory_pool.cpp:127`). The constructor
  neither rounds the size nor reports a failed malloc (`memory_pool.cpp:13-22`).
* nginx pool: the last block of the chain never has a failure (each failure appends
  a block behind it), so the test of `memory_pool.cpp:171` is never true.
* SGI pool: when malloc fails twice and no list helps, AllocChunk goes on with a
  chunk at address 0 (`memory_pool.cpp:140-147`, the action `RefillFromNothing`).

## 5. Proofs

Every invariant that a passing run checks, and both refinements (`Executor`,
`ByteQueue`), are also theorems. They hold for every value of the constants that
satisfies the named assumptions: `TasksAssumption`, `ModesAssumption`,
`SizesAssumption` (ThreadPool), `SwitchesAssumption` (EventLoop), `BufferAssumption`,
`ConnectionAssumption`, `ServerAssumption` and the `PoolAssumption` of the three other
pools. These give the types of the parameters and say that `NoTask`, `NoConn`, `Null`
and `NoBlock` are not tasks, connections, addresses and blocks, that the connection
pool has finitely many clients (but not that its `init_size_` is at most `max_size_`, which
LoadConfig does not check: the counter then stays at `init_size_`), that the numbers of
loops a server may be given have a largest one, and that the nginx pool's large allocations are not nodes of its own.

**ThreadPoolProofs.** The counters are not inductive by themselves: that
`--idle_thread_size_` stays at zero or above needs to know that the worker that
performs it is counted, that a thread created later has a fresh id, and which
states are possible in which phase of the owner. `Inv` therefore joins `TypeOK`
and `CounterAccounting` with `Phases`, `FreshIds`, `CallsInFlight` and
`ThreadsAreLive`. On top of it `Wakeups` carries the condition variable
arguments: queued tasks never outnumber awake workers while one sleeps (a push
adds one task and wakes one sleeper; a worker that takes a task from a longer
queue wakes everybody), blocked calls imply a full queue, and during shutdown
nobody sleeps on `not_empty_`. `Placed` says where a task is: an accepted task that
was not executed is at one position of the queue or with one busy worker.
Theorems: `TypeCorrect`, `CountersCorrect`, `NoSleepWithWorkAlways`,
`BlockedOnlyWhenFullAlways`, `DtorIsWokenAlways`, `NoUseAfterDestroyAlways`,
`ExactlyOnceAlways`.

**EventLoopProofs.** `LoopInv` joins `TypeOK` with what the loop thread's position
says of its flags and queues (`LoopThreadView`) and with `NoLostQuit`, which needs
a strengthening for the positions on the way to `poll`. `WakeupComes` does the
same for functors: from the moment a functor is pending after the swap, the
eventfd is readable or its wakeup is still to come. `NoLostWakeupAlways` assumes
`QueueBeforeLoop = FALSE` (see section 4). `LoopImplementsExecutor` shows that each
step of the loop is a step of `Executor` or leaves its variables unchanged. The last
part is about EventLoopThread: `ThreadRunsEventLoop` (`ThreadSpec => Spec`) carries
the theorems about the loop over to the loop in the thread, and
`LifetimesNestedAlways` follows from `ThreadInv`. Its first part, `InStep`, relates the
positions of owner, thread and loop: `loop_` is set exactly while the thread is between
publishing and resetting it. Its second part, `QuitKnown`, says who told the loop to quit:
a loop that has ended was told to by someone, the owner is one of them only from its own
Quit on, and so a loop that ends before that was ended by a callback. The step from
`waking` needs the type of `quitter`, which `ThreadRunsEventLoop` brings over.

**ConnectionPoolProofs.** `IdleOrder` needs that no stamp lies in the future and
that a connection given back is not queued already; `ExclusiveUse` needs that a
client holds a connection exactly in state `holding`. `Inv` is the conjunction.
`Counted` adds that `current_connection_size_` is the length of the queue and the
number of holders. Theorems: `TypeCorrect`, `ExclusiveUseAlways`, `IdleOrderAlways`,
`SizeAccountingAlways`.

**BufferProofs.** `IndicesOrderedAlways`, `CapacityBoundedAlways` and
`BufferImplementsByteQueue` hold for every size of the reserved cells, the initial
vector and the extra buffer, and every set of strings. Each operator has a lemma
that says what it does to the order of the positions, the content and the size:
`WrittenIs`, `MovedIs`, `ResizedIs`, `EnsureIs`, `AppendedIs`, `AfterReadFdIs`,
`RetrieveIs`; they compare sequences byte by byte. The bound on the size is not
inductive without the order of the positions and without `ReadableBytes <= peak`:
`MakeSpace` grows only if the consumed cells are fewer than the bytes to be added,
so that the new size is at most the reserved cells, the content and twice what is
added.

**TcpConnectionProofs.** `Inv` is `Types`, `Registered`, `Fresh \/ Begun`, `ClosingOK` and
`OwnedOK`.
* `Registered`: map, kernel and `index_` of the channel agree with its interests; one
  lemma each for `UpdateChannel` and `RemoveChannel`.
* `Fresh`: before `ConnectEstablished` has run nothing else has happened to the
  connection. `Begun`: after it, an open connection keeps `IN` in its interests.
* `ClosingOK`: therefore only a read that finds the end of the input closes the
  connection, once; from then on `kDisconnected` makes `SendInLoop` give up, and
  only `Remove()` touches the channel. This holds until a connection is marked
  `late` (section 2), which the properties except for the agreement with the poller
  and the order of the bytes exclude.
* `OwnedOK`: until the channel is removed the server lists the connection, has been
  asked to remove it, or `ConnectDestroyed` is queued or about to be; and, since the
  loop's queue is first in first out, it is queued behind every `ShutdownInLoop`
  (`Covered`), which uses a bare pointer.
Theorems: `BytesInOrderAlways`, `PollerAgreesAlways`, `InputBeforeCloseAlways`,
`ClosedOnceAlways`, `ShutdownFindsConnectionAlways`, `RegisteredIsOwnedAlways`.

**TcpServerProofs.** `Inv` has one part per kind of state: what each phase of the server
allows (`PhasesOK`), that callbacks follow `state_` (`CallbacksOK`), where connections
and functors are (`PlacesOK`, `AddressedOK`), that no functor of a connection is queued
twice or in the wrong order (`QueuesOK`), what a queued functor says about its
connection (`FunctorsOK`, `UpOK`), that connections somebody still points to have
different descriptors (`FdsDiffer`), and that a poller knows the channels of its own
open or closing connections only (`PollersOK`). The step that needs all of them is
`NewConnection`, which may get a descriptor that was just closed, and
`ConnectDestroyed`, which finds the channel that it removes. `Dealing` gives the round
robin argument: the loops before `next_` have one connection more than the others.
Theorems: `TypeCorrect`, `NoDanglingChannelAlways`, `UpThenDownOnceAlways`,
`EvenlyDealtAlways`.

**NginxMemoryPoolProofs.** `PiecesDisjointAlways` holds for every alignment, struct
size, pool size and sequence of operations. It is not inductive by itself: the
invariant says that in every block the pieces are ordered and end at or before
`start` and that, in a well-sized pool, `start` is at most `size_` (`BlockOK`). The
arithmetic is in `AlignUp` and `AlignBound`: aligning moves a pointer by less than
one unit and not past an aligned address, so that in a well-sized pool `end - m`
never wraps. `CutKeepsBlock` and `NewBlockSound` treat the two ways of cutting a
piece, `AllocateSmallSound` and `OutcomesSound` an allocation as a whole. malloc's
own promise (memory not in use, aligned) is assumed. `ListInv` is about the two lists:
their nodes are pieces, and pieces only grow in number between two `Reset`s, which
drop the lists too; the large list knows each outstanding address in exactly one
node, whichever of its ways an allocation takes (`Outcomes` is split into failing,
reusing a node, adding one and cutting a piece); no handler is listed twice or after
it was called; `current_block_` is in the chain. Theorems: `PiecesDisjointAlways`,
`TypeCorrect`, `NodesLiveAlways`, `LargeAccountingAlways`, `CleanupOnceAlways`.

**SgiMemoryPoolProofs.** `Disjoint` compares intervals, which is awkward to carry
through splitting and joining. The invariant speaks of single bytes: every byte is
in at most one node, block or the chunk, and below `heap` (`NodesApart`, `HeldApart`,
`Separate`). For each operator on the lists there is a lemma that says which bytes it
frees and takes (`Pushed`, `Popped`, `RefilledOK`, `DonatedOK`, `ReturnedOK`), and
`RoundUpIs` and `NodeCountIs` give the arithmetic of `RoundUp` and of the division in
`AllocChunk`; that the rest of a chunk is a size class needs that everything is
aligned. `DisjointAlways` goes back from bytes to intervals. For `ConservationAlways`
the converse lemmas (`PushedAll` and so on) show that the bytes of the pool stay the
same in every step, except that a new chunk adds the interval that malloc returned,
as many bytes as `heap_size_` grows by. Theorems: `TypeCorrect`, `DisjointAlways`,
`ConservationAlways`.

Only model-checked: the liveness properties (`SubmitTaskServed`,
`DtorReturnsUnlessRecycled`, `QueuedIsExecuted`, `StartLoopAlwaysReturns`,
`DtorOfLoopingReturns`, `ServedBelowMax`, `PeerCloseIsNoticed`, `ClosedIsFreed`,
`DestructorReturns`), since the prover has no reasoning about fairness, and the three
violations of section 4. The type invariants are proved and have no run of their
own.

## 6. Plan

1. Action properties behind the liveness results that the prover can reach: what a
   step may never take back (an accepted task, a quit request, a closed connection).
2. Shorter proofs: the frame conditions of `TcpServerProofs` and `TcpConnectionProofs`
   repeat per action what one lemma about unchanged loops could say.

## 7. Not modelled

Logger, time stamps, addresses, socket options and the cached thread id format,
print or forward to system calls and keep no state that an operation could leave
wrong. `Connection::Update` and `Query` forward a string to MySQL. The growth of the
event vector in `EpollPoller::Poll`, and `GetAllLoops`, which returns a vector, are
left out, as are the examples and the build files.
