----------------------------- MODULE TcpServer ------------------------------
(***************************************************************************)
(* mymuduo/tcp_server.{h,cpp}, acceptor.{h,cpp}, event_loop_thread_pool.*:  *)
(* the server's thread accepts connections and deals them out to the loops  *)
(* of the pool; each connection is established, closed and destroyed in its *)
(* own loop, and forgotten by the server in the server's loop.  Then the    *)
(* server's loop ends and the destructor runs.                              *)
(*                                                                         *)
(* Of a loop remain its two queues of functors and the test of quit_; of a  *)
(* connection its state_, its channel and its callbacks (TcpConnection and  *)
(* EventLoop have the rest).  Descriptors are used again after close().     *)
(***************************************************************************)
EXTENDS Integers, FiniteSets, Sequences, Functions, EpollPoller

CONSTANTS
    ThreadNums,     \* the possible values of num_threads_
    MaxConns,       \* bounds the connections
    Fds             \* the descriptors that accept can return

ASSUME ServerAssumption ==
    /\ ThreadNums \subseteq Nat /\ \E n \in ThreadNums : \A m \in ThreadNums : m <= n
    /\ MaxConns \in Nat /\ Fds \subseteq Nat \ {0}

VARIABLES
    phase,          \* where the server's thread is
    num_threads_, started_, loops_, next_,
    next_conn_id_, connections_,
    conn,           \* state_, loop_, fd_, events_ and callbacks of each connection
    fin,            \* the connections whose peer has closed
    loop,           \* pc, pending_functors_, functors and quit_ of each loop
    poller,         \* the poller of each loop
    lost            \* history: connections whose ConnectDestroyed was dropped

pool == <<num_threads_, loops_, next_>>
vars == <<phase, pool, started_, next_conn_id_, connections_, conn, fin, loop, poller, lost>>

Conns    == 1..MaxConns
Main     == 0
ListenFd == 0
Acceptor == 0
Most     == CHOOSE n \in ThreadNums : \A m \in ThreadNums : m <= n
AllLoops == 0..Most

Functor(kind, c) == [kind |-> kind, conn |-> c]

\* The connections that someone holds a TcpConnectionPtr of.
HeldBy(q) == {f.conn : f \in Range(q)}
Alive     == connections_ \cup UNION {HeldBy(loop[l].pending) \cup HeldBy(loop[l].todo) : l \in AllLoops}

\* QueueInLoop, without the wakeup
Push(lps, l, f) == [lps EXCEPT ![l].pending = Append(@, f)]

-----------------------------------------------------------------------------
(* The connection, in its loop.                                            *)

\* new interests of connection c, and Update()
Update(c, events) ==
    poller' = [poller EXCEPT ![conn[c].loop] = UpdateChannel(@, c, conn[c].fd, events)]

\* faulty WasConnected: the channel is removed and nobody told
NeverTold(c) == FALSE

\* the test of ConnectDestroyed
WasConnected(c) == conn[c].state = "kConnected"

\* ConnectDestroyed: DisableAll, callback, Remove
AfterDestroyed(cn, c) ==
    IF WasConnected(c)
    THEN [cn EXCEPT ![c].state = "kDisconnected", ![c].events = {}, ![c].downs = @ + 1]
    ELSE cn

\* faulty PollerAfterDestroyed: Remove() is forgotten
OnlyDisables(p, c) == UpdateChannel(p, c, conn[c].fd, {})

PollerAfterDestroyed(p, c) ==
    RemoveChannel(IF WasConnected(c) THEN UpdateChannel(p, c, conn[c].fd, {}) ELSE p, c, conn[c].fd)

ConnectDestroyed(c) ==
    /\ conn' = AfterDestroyed(conn, c)
    /\ poller' = [poller EXCEPT ![conn[c].loop] = PollerAfterDestroyed(@, c)]

\* the record after ConnectEstablished: Tie, EnableReading, callback
Established(r) == [r EXCEPT !.state = "kConnected", !.events = @ \cup {"IN"}, !.ups = @ + 1]

-----------------------------------------------------------------------------
(* Start, and the acceptor.                                                *)

\* Start, by the thread of the server's loop: the pool's loops, then Listen.
Start ==
    /\ phase = "constructed" /\ started_ < 2
    /\ started_' = started_ + 1
    /\ IF started_ = 0
       THEN /\ loops_' = loops_ \o [i \in 1..num_threads_ |-> i]
            /\ loop' = [l \in AllLoops |-> IF l \in 1..num_threads_ THEN [loop[l] EXCEPT !.pc = "poll"]
                                                                    ELSE loop[l]]
            /\ poller' = [poller EXCEPT ![Main] = UpdateChannel(@, Acceptor, ListenFd, {"IN"})]
       ELSE UNCHANGED <<loops_, loop, poller>>
    /\ UNCHANGED <<phase, num_threads_, next_, next_conn_id_, connections_, conn, fin, lost>>

EnterLoop ==
    /\ phase = "constructed" /\ started_ > 0
    /\ phase' = "looping"
    /\ loop' = [loop EXCEPT ![Main].pc = "poll"]
    /\ UNCHANGED <<pool, started_, next_conn_id_, connections_, conn, fin, poller, lost>>

NextLoop == IF loops_ = <<>> THEN Main ELSE loops_[next_ + 1]

\* faulty AfterNext: the increment is forgotten
StaysPut == next_

\* next_ after GetNextLoop
AfterNext ==
    IF loops_ = <<>> THEN next_ ELSE IF next_ + 1 >= Len(loops_) THEN 0 ELSE next_ + 1

Waiting(l, fd) == \E w \in poller[l].epoll : w.fd = fd
FreeFds == Fds \ {conn[c].fd : c \in Alive}

\* Acceptor::HandleRead and TcpServer::NewConnection: a client is accepted on fd.  In
\* a server without threads ConnectEstablished is called at once.  When no descriptor
\* is free, accept fails and nothing changes.
NewConnection(fd) ==
    LET c == next_conn_id_
        l == NextLoop
        new == [state |-> "kConnecting", loop |-> l, fd |-> fd, events |-> {}, ups |-> 0, downs |-> 0]
        known == [k \in AllLoops |-> CloseFd(poller[k], fd)]   \* since its last close()
    IN  /\ loop[Main].pc = "poll" /\ Waiting(Main, ListenFd)
        /\ c <= MaxConns /\ fd \in FreeFds
        /\ next_' = AfterNext
        /\ next_conn_id_' = next_conn_id_ + 1
        /\ connections_' = connections_ \cup {c}
        /\ IF l = Main
           THEN /\ conn' = [conn EXCEPT ![c] = Established(new)]
                /\ poller' = [known EXCEPT ![l] = UpdateChannel(@, c, fd, {"IN"})]
                /\ UNCHANGED loop
           ELSE /\ conn' = [conn EXCEPT ![c] = new]
                /\ poller' = known
                /\ loop' = Push(loop, l, Functor("established", c))
        /\ UNCHANGED <<phase, num_threads_, loops_, started_, fin, lost>>

PeerCloses(c) ==
    /\ c < next_conn_id_ /\ c \notin fin
    /\ fin' = fin \cup {c}
    /\ UNCHANGED <<phase, pool, started_, next_conn_id_, connections_, conn, loop, poller, lost>>

\* A callback of the connection calls Shutdown.
Shutdown(c) ==
    /\ conn[c].state = "kConnected" /\ loop[conn[c].loop].pc # "exited"
    /\ conn' = [conn EXCEPT ![c].state = "kDisconnecting"]
    /\ UNCHANGED <<phase, pool, started_, next_conn_id_, connections_, fin, loop, poller, lost>>

-----------------------------------------------------------------------------
(* The way of a closed connection.                                         *)

\* TcpConnection::HandleClose and close_callback_, TcpServer::RemoveConnection: in the
\* server's own loop the connection is erased at once, otherwise a functor is queued.
HandleClose(c) ==
    LET l == conn[c].loop IN
    /\ loop[l].pc = "poll" /\ c \in fin
    /\ \E w \in poller[l].epoll : w.ptr = c /\ "IN" \in w.events
    /\ conn' = [conn EXCEPT ![c].state = "kDisconnected", ![c].events = {}, ![c].downs = @ + 1]
    /\ Update(c, {})
    /\ IF l = Main
       THEN /\ connections_' = connections_ \ {c}
            /\ loop' = Push(loop, Main, Functor("destroyed", c))
       ELSE /\ loop' = Push(loop, Main, Functor("remove", c))
            /\ UNCHANGED connections_
    /\ UNCHANGED <<phase, pool, started_, next_conn_id_, fin, lost>>

\* faulty AfterErase: the connection stays in the map
ErasesNothing(c) == connections_

\* connections_.erase(conn->GetName())
AfterErase(c) == connections_ \ {c}

\* the loops after functor f of loop l was taken from its vector
Took(l) == [loop EXCEPT ![l].todo = Tail(@)]

Runs(l, kind) == loop[l].pc = "run" /\ loop[l].todo # <<>> /\ Head(loop[l].todo).kind = kind
Argument(l)   == Head(loop[l].todo).conn

RunEstablished(l) ==
    /\ Runs(l, "established")
    /\ conn' = [conn EXCEPT ![Argument(l)] = Established(@)]
    /\ Update(Argument(l), {"IN"})
    /\ loop' = Took(l)
    /\ UNCHANGED <<phase, pool, started_, next_conn_id_, connections_, fin, lost>>

RunDestroyed(l) ==
    /\ Runs(l, "destroyed")
    /\ ConnectDestroyed(Argument(l))
    /\ loop' = Took(l)
    /\ UNCHANGED <<phase, pool, started_, next_conn_id_, connections_, fin, lost>>

RemoveConnectionInLoop ==
    /\ Runs(Main, "remove")
    /\ connections_' = AfterErase(Argument(Main))
    /\ loop' = Push(Took(Main), conn[Argument(Main)].loop, Functor("destroyed", Argument(Main)))
    /\ UNCHANGED <<phase, pool, started_, next_conn_id_, conn, fin, poller, lost>>

-----------------------------------------------------------------------------
(* The loops.  A round without functors and without events changes nothing  *)
(* unless quit_ is set.                                                     *)

SwapFunctors(l) ==
    /\ loop[l].pc = "poll" /\ (loop[l].pending # <<>> \/ loop[l].quit)
    /\ loop' = [loop EXCEPT ![l].pc = "run", ![l].todo = loop[l].pending, ![l].pending = <<>>]
    /\ UNCHANGED <<phase, pool, started_, next_conn_id_, connections_, conn, fin, poller, lost>>

\* faulty FunctorsDone: the loop goes on although quit_ is set
IgnoresQuit(l) ==
    /\ loop[l].pc = "run" /\ loop[l].todo = <<>>
    /\ loop' = [loop EXCEPT ![l].pc = "poll"]
    /\ UNCHANGED <<phase, pool, started_, next_conn_id_, connections_, conn, fin, poller, lost>>

FunctorsDone(l) ==
    /\ loop[l].pc = "run" /\ loop[l].todo = <<>> /\ ~loop[l].quit
    /\ loop' = [loop EXCEPT ![l].pc = "poll"]
    /\ UNCHANGED <<phase, pool, started_, next_conn_id_, connections_, conn, fin, poller, lost>>

\* The thread of a pool's loop ends; the EventLoop is destroyed with what it queued.
LoopEnds(l) ==
    /\ l # Main
    /\ loop[l].pc = "run" /\ loop[l].todo = <<>> /\ loop[l].quit
    /\ loop' = [loop EXCEPT ![l].pc = "exited", ![l].pending = <<>>]
    /\ lost' = lost \cup {f.conn : f \in {g \in Range(loop[l].pending) : g.kind = "destroyed"}}
    /\ UNCHANGED <<phase, pool, started_, next_conn_id_, connections_, conn, fin, poller>>

\* loop.Quit(), by a callback or another thread
QuitMain ==
    /\ phase = "looping" /\ ~loop[Main].quit
    /\ loop' = [loop EXCEPT ![Main].quit = TRUE]
    /\ UNCHANGED <<phase, pool, started_, next_conn_id_, connections_, conn, fin, poller, lost>>

MainLoopEnds ==
    /\ phase = "looping"
    /\ loop[Main].pc = "run" /\ loop[Main].todo = <<>> /\ loop[Main].quit
    /\ phase' = "destroying"
    /\ loop' = [loop EXCEPT ![Main].pc = "exited"]
    /\ UNCHANGED <<pool, started_, next_conn_id_, connections_, conn, fin, poller, lost>>

-----------------------------------------------------------------------------
(* ~TcpServer, in the thread of the server's loop.                         *)

\* One turn of the loop over connections_; ConnectDestroyed is called or queued.
DestroyConnection(c) ==
    /\ phase = "destroying" /\ c \in connections_
    /\ connections_' = connections_ \ {c}
    /\ IF conn[c].loop = Main
       THEN ConnectDestroyed(c) /\ UNCHANGED loop
       ELSE loop' = Push(loop, conn[c].loop, Functor("destroyed", c)) /\ UNCHANGED <<conn, poller>>
    /\ UNCHANGED <<phase, pool, started_, next_conn_id_, fin, lost>>

\* threads_ is destroyed in order: Quit and join of one thread, then the next.
QuitLoop(l) ==
    /\ phase = "destroying" /\ connections_ = {} /\ l \in 1..Len(loops_)
    /\ ~loop[l].quit /\ \A k \in 1..(l - 1) : loop[k].pc = "exited"
    /\ loop' = [loop EXCEPT ![l].quit = TRUE]
    /\ UNCHANGED <<phase, pool, started_, next_conn_id_, connections_, conn, fin, poller, lost>>

AllJoined == \A l \in 1..Len(loops_) : loop[l].pc = "exited"

\* ~Acceptor: DisableAll and Remove
DestroyAcceptor ==
    /\ phase = "destroying" /\ connections_ = {} /\ AllJoined
    /\ phase' = "destroyed"
    /\ poller' = [poller EXCEPT ![Main] =
                     RemoveChannel(UpdateChannel(@, Acceptor, ListenFd, {}), Acceptor, ListenFd)]
    /\ UNCHANGED <<pool, started_, next_conn_id_, connections_, conn, fin, loop, lost>>

-----------------------------------------------------------------------------
Init ==
    /\ phase = "constructed"
    /\ num_threads_ \in ThreadNums
    /\ started_ = 0 /\ loops_ = <<>> /\ next_ = 0
    /\ next_conn_id_ = 1 /\ connections_ = {}
    /\ conn = [c \in Conns |-> [state |-> "none", loop |-> Main, fd |-> ListenFd, events |-> {},
                                ups |-> 0, downs |-> 0]]
    /\ fin = {}
    /\ loop = [l \in AllLoops |-> [pc |-> "new", pending |-> <<>>, todo |-> <<>>, quit |-> FALSE]]
    /\ poller = [l \in AllLoops |-> NewPoller({Acceptor} \cup Conns)]
    /\ lost = {}

LoopStep(l) ==
    SwapFunctors(l) \/ RunEstablished(l) \/ RunDestroyed(l) \/ FunctorsDone(l) \/ LoopEnds(l)

Destructor ==
    (\E c \in Conns : DestroyConnection(c)) \/ (\E l \in AllLoops : QuitLoop(l)) \/ DestroyAcceptor

Terminated == phase = "destroyed" /\ UNCHANGED vars

Next ==
    \/ Start \/ EnterLoop \/ QuitMain \/ MainLoopEnds \/ RemoveConnectionInLoop \/ Destructor
    \/ \E fd \in Fds : NewConnection(fd)
    \/ \E c \in Conns : PeerCloses(c) \/ Shutdown(c) \/ HandleClose(c)
    \/ \E l \in AllLoops : LoopStep(l)
    \/ Terminated

Spec == Init /\ [][Next]_vars

\* Loops run what is queued (EventLoop), report a closed peer, and leave when told;
\* the destructor goes on.  Clients, users and Quit of the server's loop are free.
FairSpec ==
    /\ Spec
    /\ \A l \in AllLoops : WF_vars(LoopStep(l))
    /\ WF_vars(RemoveConnectionInLoop) /\ WF_vars(MainLoopEnds) /\ WF_vars(Destructor)
    /\ \A c \in Conns : SF_vars(HandleClose(c))

-----------------------------------------------------------------------------
(* What the server promises.                                               *)

\* The values the variables may take.
TypeOK ==
    /\ phase \in {"constructed", "looping", "destroying", "destroyed"}
    /\ loops_ \in Seq(1..Most) /\ next_ \in 0..Most /\ (next_ = 0 \/ next_ < Len(loops_))
    /\ connections_ \subseteq 1..(next_conn_id_ - 1)
    /\ \A c \in Conns : conn[c].loop \in AllLoops /\ conn[c].ups \in Nat /\ conn[c].downs \in Nat
    /\ \A l \in AllLoops : loop[l].pc \in {"new", "poll", "run", "exited"}

Dealt(l) == {c \in 1..(next_conn_id_ - 1) : conn[c].loop = l}

\* Connections are dealt out evenly: no two loops differ by more than one, and the
\* server's own loop gets none if there are others.
EvenlyDealt ==
    \A k, l \in Range(loops_) :
        Cardinality(Dealt(k)) <= Cardinality(Dealt(l)) + 1 /\ Dealt(Main) = {}

\* In every running loop the poller's map holds exactly living connections under their
\* own descriptors, and no epoll_ctl fails, although descriptors are used again by
\* connections of this and of other loops.
NoDanglingChannel ==
    \A l \in AllLoops : loop[l].pc # "exited" =>
        /\ ~poller[l].fatal
        /\ \A m \in poller[l].channels : m.ptr # Acceptor =>
              m.ptr \in Alive /\ conn[m.ptr].fd = m.fd /\ conn[m.ptr].loop = l

\* The callbacks of a connection come in order and once, whether it is closed by its
\* peer, by the destructor, or by both at the same time; and after the destructor a
\* connection that was up has been down, unless the user had half-closed it or its
\* loop left before ConnectDestroyed ran.  Nor does any callback come later: the close
\* callback holds the server by a raw this (tcp_server.cpp:119), but once the server is
\* gone no loop is left that could call it.
UpThenDownOnce ==
    \A c \in Conns :
        /\ conn[c].downs <= conn[c].ups /\ conn[c].ups <= 1
        /\ phase = "destroyed" =>
              /\ conn[c].state # "none" => loop[conn[c].loop].pc = "exited"
              /\ conn[c].ups = 1 /\ conn[c].downs = 0 =>
                    conn[c].state = "kDisconnecting" \/ c \in lost

\* A connection whose peer closes is closed, removed and freed, which gives its
\* descriptor back, unless the server's loop is told to quit.
ClosedIsFreed == \A c \in Conns : c \in fin ~> c \notin Alive \/ loop[Main].quit

\* The destructor returns.
DestructorReturns == phase = "destroying" ~> phase = "destroyed"
=============================================================================
