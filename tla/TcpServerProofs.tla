-------------------------- MODULE TcpServerProofs ---------------------------
(***************************************************************************)
(* Proofs about TcpServer for every number of loops, connections and        *)
(* descriptors.                                                             *)
(***************************************************************************)
EXTENDS TcpServer, FiniteSetTheorems, TLAPS

-----------------------------------------------------------------------------
(* Vocabulary.                                                             *)

Kinds    == {"established", "remove", "destroyed"}
Functors == [kind : Kinds, conn : Conns]
Chans    == {Acceptor} \cup Conns
Pcs      == {"new", "poll", "run", "exited"}
States   == {"none", "kConnecting", "kConnected", "kDisconnecting", "kDisconnected"}

LoopRecords == [pc : Pcs, pending : Seq(Functors), todo : Seq(Functors), quit : BOOLEAN]
ConnRecords == [state : States, loop : AllLoops, fd : Fds \cup {ListenFd},
                events : SUBSET Interests, ups : Nat, downs : Nat]

\* What a loop has yet to execute, in order.
Q(l) == loop[l].todo \o loop[l].pending

Has(s, f) == \E i \in DOMAIN s : s[i] = f

Queued(l, kind, c) == Has(Q(l), Functor(kind, c))

\* No functor twice, and ConnectEstablished before ConnectDestroyed.
Orderly(s) ==
    \A i, j \in DOMAIN s :
        /\ s[i] = s[j] => i = j
        /\ s[i].kind = "established" /\ s[j].kind = "destroyed" /\ s[i].conn = s[j].conn => i < j

\* The descriptor of each channel.
Fd == [x \in Chans |-> IF x = Acceptor THEN ListenFd ELSE conn[x].fd]

PollerRecords ==
    [index : [Chans -> Indices], channels : SUBSET [fd : Nat, ptr : Chans],
     epoll : SUBSET [fd : Nat, ptr : Chans, events : SUBSET Interests], fatal : BOOLEAN]

\* index_, map and kernel of poller p agree, and no epoll_ctl failed.
Consistent(p, fd) ==
    /\ p \in PollerRecords
    /\ ~p.fatal
    /\ \A m \in p.channels : p.index[m.ptr] # "kNew" /\ m.fd = fd[m.ptr]
    /\ \A w \in p.epoll : p.index[w.ptr] = "kAdded" /\ w.fd = fd[w.ptr]
    /\ \A x \in Chans : p.index[x] = "kAdded" => \E w \in p.epoll : w.ptr = x

-----------------------------------------------------------------------------
(* The invariant.                                                          *)

Types ==
    /\ phase \in {"constructed", "looping", "destroying", "destroyed"}
    /\ num_threads_ \in ThreadNums /\ started_ \in 0..2
    /\ loops_ \in Seq(AllLoops) /\ next_ \in Nat
    /\ next_conn_id_ \in 1..(MaxConns + 1)
    /\ connections_ \subseteq 1..(next_conn_id_ - 1)
    /\ conn \in [Conns -> ConnRecords]
    /\ loop \in [AllLoops -> LoopRecords]
    /\ poller \in [AllLoops -> PollerRecords]
    /\ lost \subseteq Conns

\* The pool's loops are numbered, and next_ is one of them.
PoolOK ==
    /\ Len(loops_) <= Most /\ \A i \in 1..Len(loops_) : loops_[i] = i
    /\ next_ = 0 \/ next_ < Len(loops_)
    /\ started_ = 0 => loops_ = <<>> /\ phase = "constructed" /\ \A l \in AllLoops : loop[l].pc = "new"

\* The server's loop runs between Start and the destructor; a loop of the pool leaves
\* only when the destructor has forgotten all connections.
PhasesOK ==
    /\ phase = "constructed" => next_conn_id_ = 1 /\ next_ = 0 /\ loop[Main].pc = "new"
    /\ phase \in {"destroying", "destroyed"} <=> loop[Main].pc = "exited"
    /\ phase = "destroyed" => AllJoined /\ connections_ = {}
    /\ \A l \in AllLoops \ {Main} :
          /\ loop[l].quit => phase \in {"destroying", "destroyed"} /\ connections_ = {}
          /\ loop[l].pc = "exited" => loop[l].quit /\ loop[l].pending = <<>>
    /\ \A l \in AllLoops : loop[l].pc # "run" => loop[l].todo = <<>>

\* Callbacks follow the state.
CallbacksOK ==
    \A c \in Conns :
        /\ conn[c].state \in {"none", "kConnecting"} => conn[c].ups = 0 /\ conn[c].downs = 0
        /\ conn[c].state \in {"kConnected", "kDisconnecting"} => conn[c].ups = 1 /\ conn[c].downs = 0
        /\ conn[c].state = "kDisconnected" => conn[c].ups = 1 /\ conn[c].downs = 1

\* Where connections live.
PlacesOK ==
    \A c \in Conns :
        IF c < next_conn_id_
        THEN conn[c].fd \in Fds /\ conn[c].loop \in {Main} \cup 1..Len(loops_)
        ELSE conn[c].state = "none"

\* A functor is queued where it belongs.
AddressedOK ==
    \A l \in AllLoops, c \in Conns :
        /\ Queued(l, "established", c) => c < next_conn_id_ /\ conn[c].loop = l /\ l # Main
        /\ Queued(l, "destroyed", c) => c < next_conn_id_ /\ conn[c].loop = l
        /\ Queued(l, "remove", c) => c < next_conn_id_ /\ conn[c].loop # Main /\ l = Main

QueuesOK == \A l \in AllLoops : Orderly(Q(l))

\* What a queued functor says about its connection.
FunctorsOK ==
    \A c \in Conns :
        LET l == conn[c].loop IN
        /\ Queued(l, "established", c) =>
              conn[c].state = "kConnecting" /\ (c \in connections_ \/ Queued(l, "destroyed", c))
        /\ Queued(l, "destroyed", c) => c \notin connections_
        /\ Queued(Main, "remove", c) =>
              conn[c].state = "kDisconnected" /\ (loop[Main].pc # "exited" => c \in connections_)
        /\ Queued(l, "destroyed", c) /\ (l = Main \/ loop[Main].pc # "exited") =>
              conn[c].state = "kDisconnected"

\* A connection that is up will be destroyed, or its functor was lost.
UpOK ==
    \A c \in Conns :
        conn[c].state = "kConnected" =>
            c \in connections_ \/ Queued(conn[c].loop, "destroyed", c) \/ c \in lost

\* Someone holds a TcpConnectionPtr of c; no two of these connections have the same
\* descriptor.
Held(c) == c \in connections_ \/ \E l \in AllLoops, kind \in Kinds : Queued(l, kind, c)

FdsDiffer == \A x, y \in Conns : Held(x) /\ Held(y) /\ conn[x].fd = conn[y].fd => x = y

\* The channels of a loop that has not ended.
PollersOK ==
    \A l \in AllLoops : loop[l].pc # "exited" =>
        /\ Consistent(poller[l], Fd)
        /\ \A c \in Conns :
              /\ poller[l].index[c] # "kNew" =>
                    c < next_conn_id_ /\ conn[c].loop = l /\ (c \in connections_ \/ Queued(l, "destroyed", c))
              /\ poller[l].index[c] = "kAdded" => conn[c].state \in {"kConnected", "kDisconnecting"}
              /\ poller[l].index[c] = "kDeleted" => conn[c].state = "kDisconnected"
              /\ conn[c].loop = l /\ conn[c].state = "kConnected" => poller[l].index[c] = "kAdded"

Inv ==
    /\ Types /\ PoolOK /\ PhasesOK /\ CallbacksOK /\ PlacesOK /\ AddressedOK /\ QueuesOK
    /\ FunctorsOK /\ UpOK /\ FdsDiffer /\ PollersOK

-----------------------------------------------------------------------------
(* Queues of functors.                                                     *)

\* QueueInLoop adds the functor to what is queued.
LEMMA PushHas ==
    ASSUME NEW s \in Seq(Functors), NEW f \in Functors
    PROVE  /\ Append(s, f) \in Seq(Functors)
           /\ \A g : Has(Append(s, f), g) <=> Has(s, g) \/ g = f
<1>1. /\ DOMAIN s = 1..Len(s) /\ Len(s) \in Nat
      /\ DOMAIN Append(s, f) = 1..(Len(s) + 1)
      /\ \A i \in 1..Len(s) : Append(s, f)[i] = s[i]
      /\ Append(s, f)[Len(s) + 1] = f
  OBVIOUS
<1>2. Len(s) + 1 \in DOMAIN Append(s, f)
  BY <1>1
<1>3. ASSUME NEW g PROVE Has(Append(s, f), g) => Has(s, g) \/ g = f
  BY <1>1 DEF Has
<1>4. ASSUME NEW g, Has(s, g) PROVE Has(Append(s, f), g)
  BY <1>1, <1>4 DEF Has
<1>5. Has(Append(s, f), f)
  BY <1>1, <1>2 DEF Has
<1>. QED
  BY <1>3, <1>4, <1>5

\* It keeps the queue orderly if the functor is not there yet, and nothing destroys
\* the connection before the functor that establishes it.
LEMMA PushOrderly ==
    ASSUME NEW s \in Seq(Functors), NEW f \in Functors, Orderly(s), ~Has(s, f),
           f.kind = "established" => ~Has(s, Functor("destroyed", f.conn))
    PROVE  Orderly(Append(s, f))
<1>. DEFINE t == Append(s, f)
            n == Len(s) + 1
<1>1. /\ DOMAIN s = 1..Len(s) /\ Len(s) \in Nat /\ DOMAIN t = 1..n
      /\ \A i \in 1..Len(s) : t[i] = s[i] /\ s[i] \in Functors
      /\ t[n] = f
  OBVIOUS
<1>2. \A g \in Functors : g = Functor(g.kind, g.conn)
  BY DEF Functors, Functor
<1>. SUFFICES ASSUME NEW i \in DOMAIN t, NEW j \in DOMAIN t
              PROVE  /\ t[i] = t[j] => i = j
                     /\ t[i].kind = "established" /\ t[j].kind = "destroyed" /\ t[i].conn = t[j].conn
                           => i < j
  BY DEF Orderly
<1>. HIDE DEF t, n
<1>3. CASE i # n /\ j # n
  BY <1>1, <1>3 DEF Orderly, n
<1>4. CASE i = n /\ j = n
  BY <1>1, <1>4
<1>5. CASE i = n /\ j # n
  <2>1. j \in DOMAIN s /\ t[j] = s[j] /\ s[j] \in Functors /\ t[i] = f
    BY <1>1, <1>5 DEF n
  <2>2. t[i] # t[j]
    BY <2>1 DEF Has
  <2>3. ~(f.kind = "established" /\ s[j].kind = "destroyed" /\ f.conn = s[j].conn)
    BY <1>2, <2>1 DEF Has
  <2>. QED
    BY <2>1, <2>2, <2>3
<1>6. CASE i # n /\ j = n
  <2>1. i \in DOMAIN s /\ t[i] = s[i] /\ t[j] = f /\ i < j
    BY <1>1, <1>6 DEF n
  <2>2. t[i] # t[j]
    BY <2>1 DEF Has
  <2>. QED
    BY <2>1, <2>2
<1>. QED
  BY <1>3, <1>4, <1>5, <1>6

\* Executing the first functor of an orderly queue takes it out of the queue, and
\* nobody is destroyed whom a later functor establishes.
LEMMA PopHas ==
    ASSUME NEW s \in Seq(Functors), s # <<>>, Orderly(s)
    PROVE  /\ Tail(s) \in Seq(Functors) /\ Orderly(Tail(s))
           /\ \A g : Has(Tail(s), g) <=> Has(s, g) /\ g # Head(s)
           /\ Head(s) \in Functors /\ Has(s, Head(s))
           /\ Head(s) = Functor(Head(s).kind, Head(s).conn)
           /\ Head(s).kind = "destroyed" => ~Has(s, Functor("established", Head(s).conn))
<1>. DEFINE t == Tail(s)
<1>1. /\ DOMAIN s = 1..Len(s) /\ Len(s) \in Nat /\ Len(s) # 0
      /\ t \in Seq(Functors) /\ DOMAIN t = 1..(Len(s) - 1)
      /\ \A i \in 1..(Len(s) - 1) : t[i] = s[i + 1]
      /\ Head(s) = s[1] /\ Head(s) \in Functors
  OBVIOUS
<1>. HIDE DEF t
<1>2. 1 \in DOMAIN s /\ \A i \in DOMAIN t : i + 1 \in DOMAIN s /\ i + 1 # 1 /\ i \in Int
  BY <1>1
<1>3. Has(s, Head(s))
  BY <1>1, <1>2 DEF Has
<1>4. Head(s) = Functor(Head(s).kind, Head(s).conn)
  BY <1>1 DEF Functors, Functor
<1>5. ASSUME NEW g, Has(t, g) PROVE Has(s, g) /\ g # Head(s)
  <2>1. PICK i \in DOMAIN t : t[i] = g
    BY <1>5 DEF Has
  <2>2. i + 1 \in DOMAIN s /\ s[i + 1] = g /\ i + 1 # 1
    BY <1>1, <1>2, <2>1
  <2>. QED
    BY <1>1, <1>2, <2>2 DEF Has, Orderly
<1>6. ASSUME NEW g, Has(s, g), g # Head(s) PROVE Has(t, g)
  <2>1. PICK i \in DOMAIN s : s[i] = g
    BY <1>6 DEF Has
  <2>2. i - 1 \in DOMAIN t /\ t[i - 1] = g
    BY <1>1, <1>6, <2>1
  <2>. QED
    BY <2>2 DEF Has
<1>7. Orderly(t)
  <2>. SUFFICES ASSUME NEW i \in DOMAIN t, NEW j \in DOMAIN t
                PROVE  /\ t[i] = t[j] => i = j
                       /\ t[i].kind = "established" /\ t[j].kind = "destroyed" /\ t[i].conn = t[j].conn
                             => i < j
    BY DEF Orderly
  <2>1. i + 1 \in DOMAIN s /\ j + 1 \in DOMAIN s /\ t[i] = s[i + 1] /\ t[j] = s[j + 1]
    BY <1>1, <1>2
  <2>2. /\ s[i + 1] = s[j + 1] => i + 1 = j + 1
        /\ s[i + 1].kind = "established" /\ s[j + 1].kind = "destroyed" /\ s[i + 1].conn = s[j + 1].conn
              => i + 1 < j + 1
    BY <2>1 DEF Orderly
  <2>. QED
    BY <1>2, <2>1, <2>2
<1>8. ASSUME Head(s).kind = "destroyed", Has(s, Functor("established", Head(s).conn)) PROVE FALSE
  <2>1. PICK i \in DOMAIN s : s[i] = Functor("established", Head(s).conn)
    BY <1>8 DEF Has
  <2>2. s[i].kind = "established" /\ s[i].conn = s[1].conn
    BY <1>1, <2>1 DEF Functor
  <2>3. i < 1
    BY <1>1, <1>2, <1>8, <2>2 DEF Orderly
  <2>. QED
    BY <1>1, <2>3
<1>. QED
  BY <1>1, <1>3, <1>4, <1>5, <1>6, <1>7, <1>8 DEF t

-----------------------------------------------------------------------------
(* The poller.                                                             *)

\* A poller that differs from a consistent one in what it knows of channel x only.
LEMMA OnlyOneChanges ==
    ASSUME NEW p, NEW q \in PollerRecords, NEW fd, NEW x \in Chans, NEW ix \in Indices,
           Consistent(p, fd), ~q.fatal, q.index = [p.index EXCEPT ![x] = ix],
           \A m \in q.channels : \/ m.ptr # x /\ m \in p.channels
                                 \/ m.ptr = x /\ m.fd = fd[x] /\ ix # "kNew",
           \A w \in q.epoll : \/ w.ptr # x /\ w \in p.epoll
                              \/ w.ptr = x /\ w.fd = fd[x] /\ ix = "kAdded",
           \A w \in p.epoll : w.ptr # x => w \in q.epoll,
           ix = "kAdded" => \E w \in q.epoll : w.ptr = x
    PROVE  Consistent(q, fd)
<1>1. p.index \in [Chans -> Indices] /\ q.index[x] = ix /\ \A y \in Chans : y # x => q.index[y] = p.index[y]
  BY DEF Consistent, PollerRecords
<1>2. \A m \in q.channels : m.ptr \in Chans
  BY DEF PollerRecords
<1>3. \A w \in q.epoll : w.ptr \in Chans
  BY DEF PollerRecords
<1>4. \A m \in q.channels : q.index[m.ptr] # "kNew" /\ m.fd = fd[m.ptr]
  BY <1>1, <1>2 DEF Consistent
<1>5. \A w \in q.epoll : q.index[w.ptr] = "kAdded" /\ w.fd = fd[w.ptr]
  BY <1>1, <1>3 DEF Consistent
<1>6. \A y \in Chans : q.index[y] = "kAdded" => \E w \in q.epoll : w.ptr = y
  BY <1>1 DEF Consistent
<1>. QED
  BY <1>4, <1>5, <1>6 DEF Consistent

\* Updating a channel whose descriptor no other registered channel has: the poller
\* stays consistent, so that epoll_ctl does not fail, and only index_ of the channel
\* changes.
LEMMA UpdateConsistent ==
    ASSUME NEW p, NEW fd \in [Chans -> Nat], NEW x \in Chans, NEW events \in SUBSET Interests,
           Consistent(p, fd),
           \A y \in Chans : p.index[y] # "kNew" /\ fd[y] = fd[x] => y = x
    PROVE  LET q == UpdateChannel(p, x, fd[x], events) IN
           /\ Consistent(q, fd)
           /\ q.index = [p.index EXCEPT ![x] = IF p.index[x] = "kAdded" /\ events = {} THEN "kDeleted"
                                                                                     ELSE "kAdded"]
<1>. DEFINE q == UpdateChannel(p, x, fd[x], events)
            rest == {w \in p.epoll : w.fd # fd[x]}
            new  == [fd |-> fd[x], ptr |-> x, events |-> events]
            ix   == IF p.index[x] = "kAdded" /\ events = {} THEN "kDeleted" ELSE "kAdded"
<1>0. p \in PollerRecords /\ p.index[x] \in Indices /\ p.fatal = FALSE
  BY DEF Consistent, PollerRecords
<1>1. /\ \A w \in p.epoll : w.fd = fd[x] <=> w.ptr = x
      /\ \A m \in p.channels : m.fd = fd[x] <=> m.ptr = x
  BY <1>0 DEF Consistent, PollerRecords
<1>2. Watches(p, fd[x]) <=> p.index[x] = "kAdded"
  BY <1>1 DEF Consistent, Watches
<1>3. /\ q.index = [p.index EXCEPT ![x] = ix]
      /\ q.channels = IF p.index[x] = "kNew"
                      THEN {m \in p.channels : m.fd # fd[x]} \cup {[fd |-> fd[x], ptr |-> x]}
                      ELSE p.channels
      /\ q.epoll = IF ix = "kAdded" THEN rest \cup {new} ELSE rest
      /\ q.fatal = FALSE
      /\ q = [index |-> q.index, channels |-> q.channels, epoll |-> q.epoll, fatal |-> q.fatal]
  <2>1. CASE p.index[x] = "kNew"
    BY <1>0, <1>2, <2>1 DEF UpdateChannel, EpollCtl, Watches, PollerRecords
  <2>2. CASE p.index[x] = "kDeleted"
    BY <1>0, <1>2, <2>2 DEF UpdateChannel, EpollCtl, Watches, PollerRecords
  <2>3. CASE p.index[x] = "kAdded" /\ events = {}
    BY <1>0, <1>2, <2>3 DEF UpdateChannel, EpollCtl, Watches, PollerRecords
  <2>4. CASE p.index[x] = "kAdded" /\ events # {}
    BY <1>0, <1>2, <2>4 DEF UpdateChannel, EpollCtl, Watches, PollerRecords
  <2>. QED
    BY <1>0, <2>1, <2>2, <2>3, <2>4 DEF Indices
<1>. HIDE DEF q
<1>4. ix \in Indices /\ new \in [fd : Nat, ptr : Chans, events : SUBSET Interests]
      /\ [fd |-> fd[x], ptr |-> x] \in [fd : Nat, ptr : Chans]
  BY DEF Indices
<1>5. q \in PollerRecords
  <2>1. q.index \in [Chans -> Indices]
    BY <1>0, <1>3, <1>4 DEF PollerRecords
  <2>2. q.channels \in SUBSET [fd : Nat, ptr : Chans]
    BY <1>0, <1>3, <1>4 DEF PollerRecords
  <2>3. q.epoll \in SUBSET [fd : Nat, ptr : Chans, events : SUBSET Interests]
    BY <1>0, <1>3, <1>4 DEF PollerRecords
  <2>4. q.fatal \in BOOLEAN
    BY <1>3
  <2>. QED
    BY <1>3, <2>1, <2>2, <2>3, <2>4 DEF PollerRecords
<1>6. \A m \in q.channels : \/ m.ptr # x /\ m \in p.channels
                            \/ m.ptr = x /\ m.fd = fd[x] /\ ix # "kNew"
  BY <1>1, <1>3
<1>7. /\ \A w \in q.epoll : \/ w.ptr # x /\ w \in p.epoll
                            \/ w.ptr = x /\ w.fd = fd[x] /\ ix = "kAdded"
      /\ \A w \in p.epoll : w.ptr # x => w \in q.epoll
  BY <1>1, <1>3
<1>8. ix = "kAdded" => \E w \in q.epoll : w.ptr = x
  <2>1. new.ptr = x
    OBVIOUS
  <2>. HIDE DEF new
  <2>. QED
    BY <1>3, <2>1
<1>9. Consistent(q, fd)
  <2>. HIDE DEF ix
  <2>. QED
    BY <1>3, <1>4, <1>5, <1>6, <1>7, <1>8, OnlyOneChanges
<1>. QED
  BY <1>3, <1>9 DEF q

\* Removing it leaves no trace of it.
LEMMA RemoveConsistent ==
    ASSUME NEW p, NEW fd \in [Chans -> Nat], NEW x \in Chans, Consistent(p, fd),
           \A y \in Chans : p.index[y] # "kNew" /\ fd[y] = fd[x] => y = x
    PROVE  LET q == RemoveChannel(p, x, fd[x]) IN
           /\ Consistent(q, fd)
           /\ q.index = [p.index EXCEPT ![x] = "kNew"]
<1>. DEFINE q == RemoveChannel(p, x, fd[x])
            rest == {w \in p.epoll : w.fd # fd[x]}
<1>0. p \in PollerRecords /\ p.index[x] \in Indices /\ p.fatal = FALSE
  BY DEF Consistent, PollerRecords
<1>1. /\ \A w \in p.epoll : w.fd = fd[x] <=> w.ptr = x
      /\ \A m \in p.channels : m.fd = fd[x] <=> m.ptr = x
  BY <1>0 DEF Consistent, PollerRecords
<1>2. /\ q.index = [p.index EXCEPT ![x] = "kNew"]
      /\ q.channels = {m \in p.channels : m.fd # fd[x]}
      /\ q.epoll = IF p.index[x] = "kAdded" THEN rest ELSE p.epoll
      /\ q.fatal = FALSE
      /\ q = [index |-> q.index, channels |-> q.channels, epoll |-> q.epoll, fatal |-> q.fatal]
  BY <1>0 DEF RemoveChannel, EpollCtl, Watches, PollerRecords
<1>. HIDE DEF q
<1>3. q \in PollerRecords
  <2>1. q.index \in [Chans -> Indices]
    BY <1>0, <1>2 DEF PollerRecords, Indices
  <2>2. /\ q.channels \in SUBSET [fd : Nat, ptr : Chans]
        /\ q.epoll \in SUBSET [fd : Nat, ptr : Chans, events : SUBSET Interests]
    BY <1>0, <1>2 DEF PollerRecords
  <2>. QED
    BY <1>2, <2>1, <2>2 DEF PollerRecords
<1>4. /\ \A m \in q.channels : m.ptr # x /\ m \in p.channels
      /\ \A w \in q.epoll : w.ptr # x /\ w \in p.epoll
      /\ \A w \in p.epoll : w.ptr # x => w \in q.epoll
  BY <1>0, <1>1, <1>2 DEF Consistent
<1>5. Consistent(q, fd)
  <2>1. "kNew" \in Indices
    BY DEF Indices
  <2>. QED
    BY <1>2, <1>3, <1>4, <2>1, OnlyOneChanges
<1>. QED
  BY <1>2, <1>5 DEF q

-----------------------------------------------------------------------------
(* Types.                                                                  *)

\* There is a largest number of threads, and the server's loop is a loop.
LEMMA LoopsAre ==
    /\ Most \in ThreadNums /\ Most \in Nat /\ \A n \in ThreadNums : n \in Nat /\ n <= Most
    /\ Main \in AllLoops /\ \A n \in ThreadNums : 1..n \subseteq AllLoops
<1>1. Most \in ThreadNums /\ \A n \in ThreadNums : n <= Most
  BY ServerAssumption DEF Most
<1>2. Most \in Nat /\ \A n \in ThreadNums : n \in Nat
  BY <1>1, ServerAssumption
<1>. QED
  BY <1>1, <1>2 DEF AllLoops, Main

\* A connection is not the acceptor, and descriptors are numbers other than 0.
LEMMA ConnsAre ==
    /\ Conns \subseteq Nat /\ Acceptor \notin Conns /\ Acceptor \in Chans /\ Conns \subseteq Chans
    /\ ListenFd \notin Fds /\ Fds \subseteq Nat /\ ListenFd \in Nat
BY ServerAssumption DEF Conns, Acceptor, Chans, ListenFd

\* Functor makes functors.
LEMMA FunctorType ==
    ASSUME NEW kind \in Kinds, NEW c \in Conns
    PROVE  /\ Functor(kind, c) \in Functors
           /\ Functor(kind, c).kind = kind /\ Functor(kind, c).conn = c
BY DEF Functor, Functors

\* The poller's operations return pollers.
LEMMA PollerTypes ==
    ASSUME NEW p \in PollerRecords, NEW x \in Chans, NEW fd \in Nat, NEW events \in SUBSET Interests
    PROVE  /\ UpdateChannel(p, x, fd, events) \in PollerRecords
           /\ RemoveChannel(p, x, fd) \in PollerRecords
           /\ CloseFd(p, fd) \in PollerRecords
<1>1. ASSUME NEW r \in PollerRecords, NEW op, NEW ev \in SUBSET Interests
      PROVE  EpollCtl(r, op, x, fd, ev) \in PollerRecords
  <2>. DEFINE rest == {w \in r.epoll : w.fd # fd}
              new  == [fd |-> fd, ptr |-> x, events |-> ev]
              q    == EpollCtl(r, op, x, fd, ev)
  <2>1. rest \in SUBSET [fd : Nat, ptr : Chans, events : SUBSET Interests]
    BY DEF PollerRecords
  <2>2. rest \cup {new} \in SUBSET [fd : Nat, ptr : Chans, events : SUBSET Interests]
    BY <2>1
  <2>. DEFINE fails == (r.fatal \/ (op = "ADD" /\ Watches(r, fd))) \/ (op = "MOD" /\ ~Watches(r, fd))
              after == IF op = "DEL" THEN rest ELSE rest \cup {new}
  <2>3. q = [r EXCEPT !.epoll = after, !.fatal = fails]
    BY Zenon DEF EpollCtl
  <2>4. fails \in BOOLEAN /\ after \in SUBSET [fd : Nat, ptr : Chans, events : SUBSET Interests]
    BY <2>1, <2>2
  <2>. HIDE DEF rest, new, q, fails, after
  <2>5. q \in PollerRecords
    BY <2>3, <2>4 DEF PollerRecords
  <2>. QED
    BY <2>5 DEF q
<1>2. ASSUME NEW ix \in Indices
      PROVE  [p EXCEPT !.index[x] = ix] \in PollerRecords
  BY <1>2 DEF PollerRecords
<1>3. [p EXCEPT !.channels = {m \in @ : m.fd # fd} \cup {[fd |-> fd, ptr |-> x]},
                !.index[x] = "kAdded"] \in PollerRecords
  <2>1. {m \in p.channels : m.fd # fd} \cup {[fd |-> fd, ptr |-> x]} \in SUBSET [fd : Nat, ptr : Chans]
    BY DEF PollerRecords
  <2>2. [p.index EXCEPT ![x] = "kAdded"] \in [Chans -> Indices]
    BY DEF PollerRecords, Indices
  <2>. QED
    BY <2>1, <2>2 DEF PollerRecords
<1>4. [p EXCEPT !.channels = {m \in @ : m.fd # fd}, !.index[x] = "kNew"] \in PollerRecords
  BY DEF PollerRecords, Indices
<1>5. UpdateChannel(p, x, fd, events) \in PollerRecords
  <2>1. p.index[x] \in Indices
    BY DEF PollerRecords
  <2>. QED
    BY <1>1, <1>2, <1>3, <2>1 DEF UpdateChannel, Indices
<1>6. RemoveChannel(p, x, fd) \in PollerRecords
  BY <1>1, <1>4 DEF RemoveChannel
<1>7. CloseFd(p, fd) \in PollerRecords
  BY DEF CloseFd, PollerRecords
<1>. QED
  BY <1>5, <1>6, <1>7

\* QueueInLoop changes the queue of one loop, by one functor at the end.
LEMMA QueuePushed ==
    ASSUME NEW lps \in [AllLoops -> LoopRecords], NEW k \in AllLoops, NEW f \in Functors
    PROVE  LET new == Push(lps, k, f) IN
           /\ new \in [AllLoops -> LoopRecords]
           /\ \A l \in AllLoops :
                 /\ new[l].pc = lps[l].pc /\ new[l].quit = lps[l].quit /\ new[l].todo = lps[l].todo
                 /\ l # k => new[l].pending = lps[l].pending
           /\ new[k].todo \o new[k].pending = Append(lps[k].todo \o lps[k].pending, f)
<1>. DEFINE new == Push(lps, k, f)
<1>1. lps[k] \in LoopRecords /\ lps[k].pending \in Seq(Functors) /\ lps[k].todo \in Seq(Functors)
  BY DEF LoopRecords
<1>2. Append(lps[k].pending, f) \in Seq(Functors)
  BY <1>1
<1>3. new = [lps EXCEPT ![k] = [lps[k] EXCEPT !.pending = Append(lps[k].pending, f)]]
  BY DEF Push
<1>4. [lps[k] EXCEPT !.pending = Append(lps[k].pending, f)] \in LoopRecords
  BY <1>1, <1>2 DEF LoopRecords
<1>5. new[k].todo = lps[k].todo /\ new[k].pending = Append(lps[k].pending, f)
  BY <1>1, <1>3, <1>4 DEF LoopRecords
<1>6. \A l \in AllLoops :
         /\ new[l].pc = lps[l].pc /\ new[l].quit = lps[l].quit /\ new[l].todo = lps[l].todo
         /\ l # k => new[l].pending = lps[l].pending
  BY <1>1, <1>3 DEF LoopRecords
<1>7. new \in [AllLoops -> LoopRecords]
  BY <1>3, <1>4
<1>8. ASSUME NEW s \in Seq(Functors), NEW t \in Seq(Functors)
      PROVE  s \o Append(t, f) = Append(s \o t, f)
  OBVIOUS
<1>9. lps[k].todo \o Append(lps[k].pending, f) = Append(lps[k].todo \o lps[k].pending, f)
  BY <1>1, <1>8
<1>. QED
  BY <1>5, <1>6, <1>7, <1>9

\* Executing a functor takes the first one from what the loop has yet to execute.
LEMMA QueueTook ==
    ASSUME loop \in [AllLoops -> LoopRecords], NEW k \in AllLoops, loop[k].todo # <<>>
    PROVE  /\ Took(k) \in [AllLoops -> LoopRecords]
           /\ \A l \in AllLoops :
                 /\ Took(k)[l].pc = loop[l].pc /\ Took(k)[l].quit = loop[l].quit
                 /\ Took(k)[l].pending = loop[l].pending
                 /\ l # k => Took(k)[l].todo = loop[l].todo
           /\ Took(k)[k].todo \o Took(k)[k].pending = Tail(Q(k))
           /\ Q(k) # <<>> /\ Head(Q(k)) = Head(loop[k].todo) /\ Q(k) \in Seq(Functors)
<1>. DEFINE new == Took(k)
<1>1. loop[k] \in LoopRecords /\ loop[k].pending \in Seq(Functors) /\ loop[k].todo \in Seq(Functors)
  BY DEF LoopRecords
<1>2. Tail(loop[k].todo) \in Seq(Functors)
  BY <1>1
<1>3. new = [loop EXCEPT ![k] = [loop[k] EXCEPT !.todo = Tail(loop[k].todo)]]
  BY DEF Took
<1>4. [loop[k] EXCEPT !.todo = Tail(loop[k].todo)] \in LoopRecords
  BY <1>1, <1>2 DEF LoopRecords
<1>5. new[k].pending = loop[k].pending /\ new[k].todo = Tail(loop[k].todo)
  BY <1>1, <1>3, <1>4 DEF LoopRecords
<1>6. \A l \in AllLoops :
         /\ new[l].pc = loop[l].pc /\ new[l].quit = loop[l].quit /\ new[l].pending = loop[l].pending
         /\ l # k => new[l].todo = loop[l].todo
  BY <1>1, <1>3 DEF LoopRecords
<1>7. new \in [AllLoops -> LoopRecords]
  BY <1>3, <1>4
<1>8. ASSUME NEW s \in Seq(Functors), NEW t \in Seq(Functors), s # <<>>
      PROVE  s \o t # <<>> /\ Head(s \o t) = Head(s) /\ Tail(s) \o t = Tail(s \o t) /\ s \o t \in Seq(Functors)
  <2>1. Tail(s) \o t = Tail(s \o t)
    BY <1>8
  <2>2. s \o t # <<>> /\ Head(s \o t) = Head(s) /\ s \o t \in Seq(Functors)
    BY <1>8
  <2>. QED
    BY <2>1, <2>2
<1>9. loop[k].todo \o loop[k].pending # <<>>
      /\ Head(loop[k].todo \o loop[k].pending) = Head(loop[k].todo)
      /\ Tail(loop[k].todo) \o loop[k].pending = Tail(loop[k].todo \o loop[k].pending)
      /\ loop[k].todo \o loop[k].pending \in Seq(Functors)
  BY <1>1, <1>8
<1>. QED
  BY <1>5, <1>6, <1>7, <1>9 DEF Q

-----------------------------------------------------------------------------
(* What the operations do to Queued.                                       *)

\* QueueInLoop of a functor.
LEMMA Pushed ==
    ASSUME Types, NEW k \in AllLoops, NEW kind \in Kinds, NEW c \in Conns,
           loop' = Push(loop, k, Functor(kind, c))
    PROVE  /\ loop' \in [AllLoops -> LoopRecords]
           /\ \A l \in AllLoops :
                 /\ loop'[l].pc = loop[l].pc /\ loop'[l].quit = loop[l].quit
                 /\ loop'[l].todo = loop[l].todo
                 /\ l # k => loop'[l].pending = loop[l].pending
           /\ \A l \in AllLoops : \A kd, x :
                 Queued(l, kd, x)' <=> Queued(l, kd, x) \/ (l = k /\ kd = kind /\ x = c)
           /\ QueuesOK /\ ~Queued(k, kind, c) /\ (kind = "established" => ~Queued(k, "destroyed", c))
                 => QueuesOK'
<1>. DEFINE f == Functor(kind, c)
<1>0. /\ loop \in [AllLoops -> LoopRecords] /\ f \in Functors /\ f.kind = kind /\ f.conn = c
      /\ loop' = Push(loop, k, f)
  BY FunctorType DEF Types
<1>1. \A kd, x : Functor(kd, x) = f <=> kd = kind /\ x = c
  BY DEF Functor
<1>. HIDE DEF f
<1>2. /\ loop' \in [AllLoops -> LoopRecords]
      /\ \A l \in AllLoops :
            /\ loop'[l].pc = loop[l].pc /\ loop'[l].quit = loop[l].quit
            /\ loop'[l].todo = loop[l].todo
            /\ l # k => loop'[l].pending = loop[l].pending
      /\ loop'[k].todo \o loop'[k].pending = Append(loop[k].todo \o loop[k].pending, f)
  <2>. DEFINE new == Push(loop, k, f)
  <2>1. /\ new \in [AllLoops -> LoopRecords]
        /\ \A l \in AllLoops :
              /\ new[l].pc = loop[l].pc /\ new[l].quit = loop[l].quit /\ new[l].todo = loop[l].todo
              /\ l # k => new[l].pending = loop[l].pending
        /\ new[k].todo \o new[k].pending = Append(loop[k].todo \o loop[k].pending, f)
    BY <1>0, QueuePushed
  <2>2. loop' = new
    BY <1>0
  <2>. HIDE DEF new
  <2>. QED
    BY <2>1, <2>2
<1>3. Q(k)' = Append(Q(k), f) /\ \A l \in AllLoops : l # k => Q(l)' = Q(l)
  BY <1>2 DEF Q
<1>4. Q(k) \in Seq(Functors)
  <2>1. loop[k].todo \in Seq(Functors) /\ loop[k].pending \in Seq(Functors)
    BY <1>0 DEF LoopRecords
  <2>. QED
    BY <2>1 DEF Q
<1>5. \A g : Has(Append(Q(k), f), g) <=> Has(Q(k), g) \/ g = f
  BY <1>0, <1>4, PushHas
<1>6. ASSUME NEW l \in AllLoops, NEW kd, NEW x
      PROVE  Queued(l, kd, x)' <=> Queued(l, kd, x) \/ (l = k /\ kd = kind /\ x = c)
  <2>1. Queued(l, kd, x)' <=> Has(Q(l)', Functor(kd, x))
    BY Zenon DEF Queued
  <2>2. Queued(l, kd, x) <=> Has(Q(l), Functor(kd, x))
    BY Zenon DEF Queued
  <2>3. CASE l # k
    BY <1>3, <2>1, <2>2, <2>3
  <2>4. CASE l = k
    <3>1. Q(l)' = Append(Q(k), f) /\ Q(l) = Q(k)
      BY <1>3, <2>4
    <3>2. Has(Append(Q(k), f), Functor(kd, x)) <=> Has(Q(k), Functor(kd, x)) \/ Functor(kd, x) = f
      BY <1>5
    <3>3. Functor(kd, x) = f <=> kd = kind /\ x = c
      BY <1>1
    <3>. QED
      BY <2>1, <2>2, <2>4, <3>1, <3>2, <3>3
  <2>. QED
    BY <2>3, <2>4
<1>7. ASSUME QueuesOK, ~Queued(k, kind, c), kind = "established" => ~Queued(k, "destroyed", c)
      PROVE  QueuesOK'
  <2>1. Orderly(Q(k)) /\ ~Has(Q(k), f) /\ (f.kind = "established" => ~Has(Q(k), Functor("destroyed", f.conn)))
    BY <1>0, <1>7 DEF QueuesOK, Queued, f
  <2>2. Orderly(Append(Q(k), f))
    BY <1>0, <1>4, <2>1, PushOrderly
  <2>. QED
    BY <1>3, <1>7, <2>2 DEF QueuesOK
<1>. QED
  BY <1>2, <1>6, <1>7

\* Executing a functor.
LEMMA Taken ==
    ASSUME Types, QueuesOK, NEW k \in AllLoops, NEW kind \in Kinds, Runs(k, kind),
           loop' = Took(k)
    PROVE  /\ loop' \in [AllLoops -> LoopRecords]
           /\ \A l \in AllLoops :
                 /\ loop'[l].pc = loop[l].pc /\ loop'[l].quit = loop[l].quit
                 /\ loop'[l].pending = loop[l].pending
                 /\ l # k => loop'[l].todo = loop[l].todo
           /\ loop[k].pc = "run"
           /\ Argument(k) \in Conns /\ Queued(k, kind, Argument(k))
           /\ \A l \in AllLoops : \A kd, x :
                 Queued(l, kd, x)' <=> Queued(l, kd, x) /\ ~(l = k /\ kd = kind /\ x = Argument(k))
           /\ kind = "destroyed" => ~Queued(k, "established", Argument(k))
           /\ QueuesOK'
<1>. DEFINE f == Head(loop[k].todo)
<1>0. /\ loop \in [AllLoops -> LoopRecords] /\ loop[k].pc = "run" /\ loop[k].todo # <<>>
      /\ f.kind = kind /\ f.conn = Argument(k)
  BY DEF Types, Runs, Argument
<1>1. /\ loop' \in [AllLoops -> LoopRecords]
      /\ \A l \in AllLoops :
            /\ loop'[l].pc = loop[l].pc /\ loop'[l].quit = loop[l].quit
            /\ loop'[l].pending = loop[l].pending
            /\ l # k => loop'[l].todo = loop[l].todo
      /\ loop'[k].todo \o loop'[k].pending = Tail(Q(k))
      /\ Q(k) # <<>> /\ Head(Q(k)) = f /\ Q(k) \in Seq(Functors)
  BY <1>0, QueueTook
<1>2. Q(k)' = Tail(Q(k)) /\ \A l \in AllLoops : l # k => Q(l)' = Q(l)
  BY <1>1 DEF Q
<1>. HIDE DEF f
<1>3. Orderly(Q(k))
  BY DEF QueuesOK
<1>4. /\ Orderly(Tail(Q(k)))
      /\ \A g : Has(Tail(Q(k)), g) <=> Has(Q(k), g) /\ g # f
      /\ f \in Functors /\ Has(Q(k), f) /\ f = Functor(f.kind, f.conn)
      /\ f.kind = "destroyed" => ~Has(Q(k), Functor("established", f.conn))
  BY <1>1, <1>3, PopHas
<1>5. f = Functor(kind, Argument(k)) /\ Argument(k) \in Conns
  BY <1>0, <1>4 DEF Functors
<1>6. \A kd, x : Functor(kd, x) = f <=> kd = kind /\ x = Argument(k)
  BY <1>5 DEF Functor
<1>7. ASSUME NEW l \in AllLoops, NEW kd, NEW x
      PROVE  Queued(l, kd, x)' <=> Queued(l, kd, x) /\ ~(l = k /\ kd = kind /\ x = Argument(k))
  <2>1. Queued(l, kd, x)' <=> Has(Q(l)', Functor(kd, x))
    BY Zenon DEF Queued
  <2>2. Queued(l, kd, x) <=> Has(Q(l), Functor(kd, x))
    BY Zenon DEF Queued
  <2>3. CASE l # k
    BY <1>2, <2>1, <2>2, <2>3
  <2>4. CASE l = k
    <3>1. Q(l)' = Tail(Q(k)) /\ Q(l) = Q(k)
      BY <1>2, <2>4
    <3>2. Has(Tail(Q(k)), Functor(kd, x)) <=> Has(Q(k), Functor(kd, x)) /\ Functor(kd, x) # f
      BY <1>4
    <3>3. Functor(kd, x) = f <=> kd = kind /\ x = Argument(k)
      BY <1>6
    <3>. QED
      BY <2>1, <2>2, <2>4, <3>1, <3>2, <3>3
  <2>. QED
    BY <2>3, <2>4
<1>8. QueuesOK'
  BY <1>2, <1>4 DEF QueuesOK
<1>9. Queued(k, kind, Argument(k)) /\ (kind = "destroyed" => ~Queued(k, "established", Argument(k)))
  BY <1>0, <1>4, <1>5 DEF Queued
<1>. QED
  BY <1>0, <1>1, <1>5, <1>7, <1>8, <1>9

\* What is queued says who is queued: a held connection is one that was accepted, and
\* it is alive, so that its descriptor is not free.
LEMMA HeldAre ==
    ASSUME Inv, NEW c \in Conns, Held(c)
    PROVE  /\ c < next_conn_id_ /\ c \in Alive /\ conn[c].fd \in Fds
           /\ conn[c].fd \notin FreeFds
<1>1. c < next_conn_id_
  BY ConnsAre DEF Inv, Types, AddressedOK, Held, Kinds
<1>2. c \in Alive
  <2>1. CASE c \in connections_
    BY <2>1 DEF Alive
  <2>2. CASE \E l \in AllLoops, kind \in Kinds : Queued(l, kind, c)
    <3>1. PICK l \in AllLoops, kind \in Kinds : Queued(l, kind, c)
      BY <2>2
    <3>2. PICK i \in DOMAIN Q(l) : Q(l)[i] = Functor(kind, c)
      BY <3>1 DEF Queued, Has
    <3>3. loop[l].todo \in Seq(Functors) /\ loop[l].pending \in Seq(Functors)
      BY DEF Inv, Types, LoopRecords
    <3>4. ASSUME NEW s \in Seq(Functors), NEW t \in Seq(Functors), NEW j \in DOMAIN (s \o t)
          PROVE  (s \o t)[j] \in Range(s) \cup Range(t)
      <4>1. CASE j \in 1..Len(s)
        <5>1. (s \o t)[j] = s[j] /\ j \in DOMAIN s
          BY <4>1
        <5>. QED
          BY <5>1 DEF Range
      <4>2. CASE j \notin 1..Len(s)
        <5>1. (s \o t)[j] = t[j - Len(s)] /\ j - Len(s) \in DOMAIN t
          BY <4>2
        <5>. QED
          BY <5>1 DEF Range
      <4>. QED
        BY <4>1, <4>2
    <3>5. Functor(kind, c) \in Range(loop[l].todo) \cup Range(loop[l].pending)
      BY <3>2, <3>3, <3>4 DEF Q
    <3>6. c \in HeldBy(loop[l].pending) \cup HeldBy(loop[l].todo)
      BY <3>5, FunctorType DEF HeldBy
    <3>. QED
      BY <3>6 DEF Alive
  <2>. QED
    BY <2>1, <2>2 DEF Held
<1>3. conn[c].fd \in Fds
  BY <1>1 DEF Inv, PlacesOK
<1>4. conn[c].fd \notin FreeFds
  BY <1>2 DEF FreeFds
<1>. QED
  BY <1>1, <1>2, <1>3, <1>4

\* Registered channels of a running loop have different descriptors, and a channel
\* about to be updated differs from all others.
LEMMA Distinct ==
    ASSUME Inv, NEW l \in AllLoops, loop[l].pc # "exited", NEW x \in Chans, x # Acceptor => Held(x)
    PROVE  /\ Fd \in [Chans -> Nat]
           /\ \A y \in Chans : poller[l].index[y] # "kNew" /\ Fd[y] = Fd[x] => y = x
<1>1. Fd \in [Chans -> Nat]
  BY ConnsAre DEF Inv, Types, ConnRecords, Fd, Chans
<1>2. \A y \in Conns : poller[l].index[y] # "kNew" => Held(y)
  BY DEF Inv, PollersOK, Held, Kinds
<1>3. \A y \in Conns : Held(y) => Fd[y] = conn[y].fd /\ Fd[y] \in Fds
  BY HeldAre, ConnsAre DEF Fd
<1>4. Fd[Acceptor] = ListenFd /\ ListenFd \notin Fds
  BY ConnsAre DEF Fd
<1>. QED
  BY <1>1, <1>2, <1>3, <1>4 DEF Inv, FdsDiffer, Chans

\* The channel of a held connection is updated.
LEMMA ChannelUpdated ==
    ASSUME Inv, NEW l \in AllLoops, loop[l].pc # "exited", NEW c \in Conns, Held(c),
           NEW events \in SUBSET Interests
    PROVE  LET q == UpdateChannel(poller[l], c, conn[c].fd, events) IN
           /\ Consistent(q, Fd)
           /\ q.index = [poller[l].index EXCEPT ![c] =
                            IF poller[l].index[c] = "kAdded" /\ events = {} THEN "kDeleted" ELSE "kAdded"]
<1>1. c \in Chans /\ Fd[c] = conn[c].fd /\ c # Acceptor
  BY ConnsAre DEF Fd
<1>2. Fd \in [Chans -> Nat] /\ \A y \in Chans : poller[l].index[y] # "kNew" /\ Fd[y] = Fd[c] => y = c
  BY <1>1, Distinct
<1>3. Consistent(poller[l], Fd)
  BY DEF Inv, PollersOK
<1>. QED
  BY <1>1, <1>2, <1>3, UpdateConsistent

\* ConnectDestroyed removes it.
LEMMA ChannelRemoved ==
    ASSUME Inv, NEW l \in AllLoops, loop[l].pc # "exited", NEW c \in Conns, Held(c)
    PROVE  LET q == PollerAfterDestroyed(poller[l], c) IN
           /\ Consistent(q, Fd)
           /\ q.index = [poller[l].index EXCEPT ![c] = "kNew"]
<1>. DEFINE p == poller[l]
            m == UpdateChannel(p, c, conn[c].fd, {})
            r == IF WasConnected(c) THEN m ELSE p
<1>1. c \in Chans /\ Fd[c] = conn[c].fd /\ c # Acceptor
  BY ConnsAre DEF Fd
<1>2. Fd \in [Chans -> Nat] /\ \A y \in Chans : p.index[y] # "kNew" /\ Fd[y] = Fd[c] => y = c
  BY <1>1, Distinct
<1>3. Consistent(p, Fd) /\ p.index \in [Chans -> Indices]
  BY DEF Inv, PollersOK, Consistent, PollerRecords
<1>4. /\ Consistent(m, Fd)
      /\ \E ix : m.index = [p.index EXCEPT ![c] = ix]
  <2>1. {} \in SUBSET Interests
    OBVIOUS
  <2>. QED
    BY <2>1, ChannelUpdated
<1>. HIDE DEF p, m
<1>5. Consistent(r, Fd) /\ \A y \in Chans : y # c => r.index[y] = p.index[y]
  BY <1>1, <1>3, <1>4
<1>6. r.index \in [Chans -> Indices]
  BY <1>5 DEF Consistent, PollerRecords
<1>7. [r.index EXCEPT ![c] = "kNew"] = [p.index EXCEPT ![c] = "kNew"]
  BY <1>1, <1>3, <1>5, <1>6
<1>. HIDE DEF r
<1>8. /\ Consistent(RemoveChannel(r, c, Fd[c]), Fd)
      /\ RemoveChannel(r, c, Fd[c]).index = [r.index EXCEPT ![c] = "kNew"]
  BY <1>1, <1>2, <1>5, RemoveConsistent
<1>. QED
  BY <1>1, <1>7, <1>8 DEF PollerAfterDestroyed, r, m, p

\* Pollers and their index_ are functions.
LEMMA PollersAre ==
    ASSUME Inv, NEW k \in AllLoops
    PROVE  poller \in [AllLoops -> PollerRecords] /\ poller[k].index \in [Chans -> Indices]
BY DEF Inv, Types, PollerRecords

\* A step that changes the channel of one connection in its own loop.
LEMMA PollersStep ==
    ASSUME Inv, NEW k \in AllLoops, loop[k].pc # "exited", NEW c \in Conns,
           Consistent(poller'[k], Fd),
           \A x \in Conns : x # c => poller'[k].index[x] = poller[k].index[x],
           \A l \in AllLoops : l # k => poller'[l] = poller[l],
           c < next_conn_id_, conn[c].loop = k,
           conn'[c].loop = k, conn'[c].fd = conn[c].fd, \A x \in Conns : x # c => conn'[x] = conn[x],
           next_conn_id_' = next_conn_id_,
           \A l \in AllLoops : loop'[l].pc = loop[l].pc,
           \A x \in Conns : x # c =>
               /\ x \in connections_ => x \in connections_'
               /\ \A l \in AllLoops : Queued(l, "destroyed", x) => Queued(l, "destroyed", x)',
           poller'[k].index[c] # "kNew" => c \in connections_' \/ Queued(k, "destroyed", c)',
           poller'[k].index[c] = "kAdded" => conn'[c].state \in {"kConnected", "kDisconnecting"},
           poller'[k].index[c] = "kDeleted" => conn'[c].state = "kDisconnected",
           conn'[c].state = "kConnected" => poller'[k].index[c] = "kAdded"
    PROVE  PollersOK'
<1>1. Fd' = Fd
  <2>1. \A x \in Conns : conn'[x].fd = conn[x].fd
    OBVIOUS
  <2>2. \A x \in Chans : x # Acceptor => x \in Conns
    BY DEF Chans
  <2>. QED
    BY <2>1, <2>2 DEF Fd
<1>. SUFFICES ASSUME NEW l \in AllLoops, loop'[l].pc # "exited"
              PROVE  /\ Consistent(poller'[l], Fd')
                     /\ \A x \in Conns :
                           /\ poller'[l].index[x] # "kNew" =>
                                 x < next_conn_id_' /\ conn'[x].loop = l
                                 /\ (x \in connections_' \/ Queued(l, "destroyed", x)')
                           /\ poller'[l].index[x] = "kAdded" =>
                                 conn'[x].state \in {"kConnected", "kDisconnecting"}
                           /\ poller'[l].index[x] = "kDeleted" => conn'[x].state = "kDisconnected"
                           /\ conn'[x].loop = l /\ conn'[x].state = "kConnected" =>
                                 poller'[l].index[x] = "kAdded"
  BY DEF PollersOK
<1>4. loop[l].pc # "exited"
  OBVIOUS
<1>5. Consistent(poller'[l], Fd')
  BY <1>1, <1>4 DEF Inv, PollersOK
<1>. SUFFICES ASSUME NEW x \in Conns
              PROVE  /\ poller'[l].index[x] # "kNew" =>
                           x < next_conn_id_' /\ conn'[x].loop = l
                           /\ (x \in connections_' \/ Queued(l, "destroyed", x)')
                     /\ poller'[l].index[x] = "kAdded" =>
                           conn'[x].state \in {"kConnected", "kDisconnecting"}
                     /\ poller'[l].index[x] = "kDeleted" => conn'[x].state = "kDisconnected"
                     /\ conn'[x].loop = l /\ conn'[x].state = "kConnected" =>
                           poller'[l].index[x] = "kAdded"
  BY <1>5
<1>7. /\ poller[l].index[x] # "kNew" =>
            x < next_conn_id_ /\ conn[x].loop = l /\ (x \in connections_ \/ Queued(l, "destroyed", x))
      /\ poller[l].index[x] = "kAdded" => conn[x].state \in {"kConnected", "kDisconnecting"}
      /\ poller[l].index[x] = "kDeleted" => conn[x].state = "kDisconnected"
      /\ conn[x].loop = l /\ conn[x].state = "kConnected" => poller[l].index[x] = "kAdded"
  BY <1>4 DEF Inv, PollersOK
<1>8. CASE x # c
  <2>1. poller'[l].index[x] = poller[l].index[x]
    BY <1>8
  <2>. QED
    BY <1>7, <1>8, <2>1
<1>9. CASE x = c /\ l = k
  BY <1>9
<1>10. CASE x = c /\ l # k
  <2>1. poller'[l].index[x] = "kNew"
    BY <1>7, <1>10
  <2>. QED
    BY <1>10, <2>1
<1>. QED
  BY <1>8, <1>9, <1>10

\* A step that leaves the connections and what is queued alone.
LEMMA FrameStep ==
    ASSUME Inv, Types', PoolOK', PhasesOK',
           conn' = conn, connections_' = connections_, next_conn_id_' = next_conn_id_,
           loops_' = loops_, lost' = lost,
           \A l \in AllLoops : Q(l)' = Q(l),
           \A l \in AllLoops : loop'[l].pc # "exited" => loop[l].pc # "exited" /\ poller'[l] = poller[l]
    PROVE  Inv'
<1>1. \A l \in AllLoops : \A kind, x : Queued(l, kind, x)' <=> Queued(l, kind, x)
  BY DEF Queued
<1>2. Fd' = Fd /\ \A c \in Conns : Held(c)' <=> Held(c)
  BY <1>1 DEF Fd, Held
<1>3. CallbacksOK' /\ PlacesOK' /\ QueuesOK'
  BY DEF Inv, CallbacksOK, PlacesOK, QueuesOK
<1>4. AddressedOK'
  BY <1>1 DEF Inv, AddressedOK
<1>5. FunctorsOK'
  BY <1>1, LoopsAre DEF Inv, FunctorsOK, Types, ConnRecords
<1>6. UpOK'
  BY <1>1 DEF Inv, UpOK, Types, ConnRecords
<1>7. FdsDiffer'
  BY <1>2 DEF Inv, FdsDiffer
<1>8. PollersOK'
  BY <1>1, <1>2 DEF Inv, PollersOK
<1>. QED
  BY <1>3, <1>4, <1>5, <1>6, <1>7, <1>8 DEF Inv

-----------------------------------------------------------------------------
(* Init, and the steps that leave connections and queues alone.            *)

\* The constructed server.
LEMMA InvInit == Init => Inv
<1>. SUFFICES ASSUME Init PROVE Inv
  OBVIOUS
<1>1. \A l \in AllLoops : loop[l] = [pc |-> "new", pending |-> <<>>, todo |-> <<>>, quit |-> FALSE]
  BY DEF Init
<1>2. \A c \in Conns : conn[c] = [state |-> "none", loop |-> Main, fd |-> ListenFd, events |-> {},
                                  ups |-> 0, downs |-> 0]
  BY DEF Init
<1>3. \A l \in AllLoops : /\ poller[l].index = [x \in Chans |-> "kNew"] /\ poller[l].channels = {}
                          /\ poller[l].epoll = {} /\ poller[l].fatal = FALSE
                          /\ poller[l] \in PollerRecords
  BY DEF Init, NewPoller, Chans, PollerRecords, Indices
<1>4. \A l \in AllLoops : Q(l) = <<>>
  <2>1. <<>> \o <<>> = <<>>
    OBVIOUS
  <2>. QED
    BY <1>1, <2>1 DEF Q
<1>5. \A l \in AllLoops : \A kind, x : ~Queued(l, kind, x)
  BY <1>4 DEF Queued, Has
<1>6. Types
  <2>1. [pc |-> "new", pending |-> <<>>, todo |-> <<>>, quit |-> FALSE] \in LoopRecords
    BY DEF LoopRecords, Pcs
  <2>2. [state |-> "none", loop |-> Main, fd |-> ListenFd, events |-> {}, ups |-> 0, downs |-> 0]
           \in ConnRecords
    BY LoopsAre DEF ConnRecords, States
  <2>3. conn \in [Conns -> ConnRecords]
    BY <2>2 DEF Init
  <2>4. loop \in [AllLoops -> LoopRecords]
    BY <2>1 DEF Init
  <2>5. poller \in [AllLoops -> PollerRecords]
    BY <1>3 DEF Init
  <2>6. next_conn_id_ \in 1..(MaxConns + 1) /\ connections_ = {} /\ lost = {}
    BY ServerAssumption DEF Init
  <2>7. loops_ \in Seq(AllLoops) /\ next_ \in Nat /\ started_ \in 0..2 /\ num_threads_ \in ThreadNums
    BY DEF Init
  <2>8. phase \in {"constructed", "looping", "destroying", "destroyed"}
    BY DEF Init
  <2>. QED
    BY <2>3, <2>4, <2>5, <2>6, <2>7, <2>8 DEF Types
<1>7. PoolOK
  BY <1>1, LoopsAre DEF Init, PoolOK
<1>8. PhasesOK
  BY <1>1, LoopsAre DEF Init, PhasesOK
<1>9. CallbacksOK /\ PlacesOK
  BY <1>2, ConnsAre DEF Init, CallbacksOK, PlacesOK, Conns
<1>10. AddressedOK /\ FunctorsOK
  BY <1>2, <1>5, LoopsAre DEF AddressedOK, FunctorsOK
<1>11. QueuesOK
  BY <1>4 DEF QueuesOK, Orderly
<1>12. UpOK
  BY <1>2 DEF UpOK
<1>13. FdsDiffer
  BY <1>5 DEF Init, FdsDiffer, Held
<1>14. PollersOK
  <2>1. \A c \in Conns : c \in Chans
    BY ConnsAre
  <2>2. \A l \in AllLoops : Consistent(poller[l], Fd)
    BY <1>3 DEF Consistent
  <2>. QED
    BY <1>2, <1>3, <2>1, <2>2 DEF PollersOK
<1>. QED
  BY <1>6, <1>7, <1>8, <1>9, <1>10, <1>11, <1>12, <1>13, <1>14 DEF Inv

\* The server's loop is entered.
LEMMA InvEnterLoop == Inv /\ EnterLoop => Inv'
<1>. SUFFICES ASSUME Inv, EnterLoop PROVE Inv'
  OBVIOUS
<1>. USE DEF Inv
<1>1. Main \in AllLoops /\ loop \in [AllLoops -> LoopRecords]
  BY LoopsAre DEF Types
<1>2. /\ loop' \in [AllLoops -> LoopRecords]
      /\ \A l \in AllLoops : /\ loop'[l].pending = loop[l].pending /\ loop'[l].todo = loop[l].todo
                             /\ loop'[l].quit = loop[l].quit /\ (l # Main => loop'[l].pc = loop[l].pc)
      /\ loop'[Main].pc = "poll"
  BY <1>1 DEF EnterLoop, LoopRecords, Pcs
<1>3. Types'
  BY <1>2 DEF Types, EnterLoop, pool
<1>4. PoolOK'
  BY <1>2 DEF PoolOK, EnterLoop, pool
<1>5. PhasesOK'
  BY <1>1, <1>2 DEF PhasesOK, EnterLoop, pool
<1>6. \A l \in AllLoops : Q(l)' = Q(l)
  BY <1>2 DEF Q
<1>7. \A l \in AllLoops : loop'[l].pc # "exited" => loop[l].pc # "exited" /\ poller'[l] = poller[l]
  BY <1>2 DEF EnterLoop, PhasesOK
<1>. QED
  BY <1>3, <1>4, <1>5, <1>6, <1>7, FrameStep DEF EnterLoop, pool

\* Quit of the server's loop, and its end.
LEMMA InvQuitMain == Inv /\ QuitMain => Inv'
<1>. SUFFICES ASSUME Inv, QuitMain PROVE Inv'
  OBVIOUS
<1>. USE DEF Inv
<1>1. Main \in AllLoops /\ loop \in [AllLoops -> LoopRecords]
  BY LoopsAre DEF Types
<1>2. /\ loop' \in [AllLoops -> LoopRecords]
      /\ \A l \in AllLoops : /\ loop'[l].pending = loop[l].pending /\ loop'[l].todo = loop[l].todo
                             /\ loop'[l].pc = loop[l].pc /\ (l # Main => loop'[l].quit = loop[l].quit)
  BY <1>1 DEF QuitMain, LoopRecords
<1>3. Types'
  BY <1>2 DEF Types, QuitMain, pool
<1>4. PoolOK'
  BY <1>2 DEF PoolOK, QuitMain, pool
<1>5. PhasesOK'
  BY <1>1, <1>2 DEF PhasesOK, QuitMain, pool
<1>6. \A l \in AllLoops : Q(l)' = Q(l)
  BY <1>2 DEF Q
<1>7. \A l \in AllLoops : loop'[l].pc # "exited" => loop[l].pc # "exited" /\ poller'[l] = poller[l]
  BY <1>2 DEF QuitMain
<1>. QED
  BY <1>3, <1>4, <1>5, <1>6, <1>7, FrameStep DEF QuitMain, pool

\* The server's loop has executed its functors and ends; the destructor begins.
LEMMA InvMainLoopEnds == Inv /\ MainLoopEnds => Inv'
<1>. SUFFICES ASSUME Inv, MainLoopEnds PROVE Inv'
  OBVIOUS
<1>. USE DEF Inv
<1>1. Main \in AllLoops /\ loop \in [AllLoops -> LoopRecords]
  BY LoopsAre DEF Types
<1>2. /\ loop' \in [AllLoops -> LoopRecords]
      /\ \A l \in AllLoops : /\ loop'[l].pending = loop[l].pending /\ loop'[l].todo = loop[l].todo
                             /\ loop'[l].quit = loop[l].quit /\ (l # Main => loop'[l].pc = loop[l].pc)
      /\ loop'[Main].pc = "exited"
  BY <1>1 DEF MainLoopEnds, LoopRecords, Pcs
<1>3. Types'
  BY <1>2 DEF Types, MainLoopEnds, pool
<1>4. PoolOK'
  BY <1>2 DEF PoolOK, MainLoopEnds, pool
<1>5. PhasesOK'
  BY <1>1, <1>2 DEF PhasesOK, MainLoopEnds, pool
<1>6. \A l \in AllLoops : Q(l)' = Q(l)
  BY <1>2 DEF Q
<1>7. \A l \in AllLoops : loop'[l].pc # "exited" => loop[l].pc # "exited" /\ poller'[l] = poller[l]
  BY <1>2 DEF MainLoopEnds
<1>. QED
  BY <1>3, <1>4, <1>5, <1>6, <1>7, FrameStep DEF MainLoopEnds, pool

\* The destructor tells a loop of the pool to quit.
LEMMA InvQuitLoop ==
    ASSUME NEW k \in AllLoops
    PROVE  Inv /\ QuitLoop(k) => Inv'
<1>. SUFFICES ASSUME Inv, QuitLoop(k) PROVE Inv'
  OBVIOUS
<1>. USE DEF Inv
<1>1. loop \in [AllLoops -> LoopRecords] /\ k # Main
  BY DEF Types, QuitLoop, Main
<1>2. /\ loop' \in [AllLoops -> LoopRecords]
      /\ \A l \in AllLoops : /\ loop'[l].pending = loop[l].pending /\ loop'[l].todo = loop[l].todo
                             /\ loop'[l].pc = loop[l].pc /\ (l # k => loop'[l].quit = loop[l].quit)
  BY <1>1 DEF QuitLoop, LoopRecords
<1>3. Types'
  BY <1>2 DEF Types, QuitLoop, pool
<1>4. PoolOK'
  BY <1>2 DEF PoolOK, QuitLoop, pool
<1>5. PhasesOK'
  <2>1. \A l \in AllLoops \ {Main} :
           /\ loop'[l].quit => phase' \in {"destroying", "destroyed"} /\ connections_' = {}
           /\ loop'[l].pc = "exited" => loop'[l].quit /\ loop'[l].pending = <<>>
    <3>1. loop'[k].quit
      BY <1>1 DEF QuitLoop, LoopRecords
    <3>. QED
      BY <1>1, <1>2, <3>1 DEF PhasesOK, QuitLoop, pool
  <2>. QED
    BY <1>1, <1>2, <2>1, LoopsAre DEF PhasesOK, QuitLoop, pool
<1>6. \A l \in AllLoops : Q(l)' = Q(l)
  BY <1>2 DEF Q
<1>7. \A l \in AllLoops : loop'[l].pc # "exited" => loop[l].pc # "exited" /\ poller'[l] = poller[l]
  BY <1>2 DEF QuitLoop
<1>. QED
  BY <1>3, <1>4, <1>5, <1>6, <1>7, FrameStep DEF QuitLoop, pool

\* A loop takes its functors from the queue: they stay in order, before what is queued
\* from now on.
LEMMA InvSwapFunctors ==
    ASSUME NEW k \in AllLoops
    PROVE  Inv /\ SwapFunctors(k) => Inv'
<1>. SUFFICES ASSUME Inv, SwapFunctors(k) PROVE Inv'
  OBVIOUS
<1>. USE DEF Inv
<1>1. loop \in [AllLoops -> LoopRecords] /\ loop[k].pc = "poll" /\ loop[k].todo = <<>>
  BY DEF Types, SwapFunctors, PhasesOK
<1>2. /\ loop' \in [AllLoops -> LoopRecords]
      /\ \A l \in AllLoops :
            /\ l # k => loop'[l] = loop[l]
            /\ loop'[l].quit = loop[l].quit
      /\ loop'[k].pc = "run" /\ loop'[k].todo = loop[k].pending /\ loop'[k].pending = <<>>
  <2>1. [loop[k] EXCEPT !.pc = "run", !.todo = loop[k].pending, !.pending = <<>>] \in LoopRecords
    BY <1>1 DEF LoopRecords, Pcs
  <2>2. loop' = [loop EXCEPT ![k] = [loop[k] EXCEPT !.pc = "run", !.todo = loop[k].pending, !.pending = <<>>]]
    BY DEF SwapFunctors
  <2>. QED
    BY <1>1, <2>1, <2>2 DEF LoopRecords
<1>3. Types'
  BY <1>2 DEF Types, SwapFunctors, pool
<1>4. PoolOK'
  BY <1>1, <1>2 DEF PoolOK, SwapFunctors, pool
<1>5. PhasesOK'
  <2>1. AllJoined => AllJoined'
    BY <1>1, <1>2, LoopsAre DEF AllJoined, SwapFunctors, pool, PoolOK, AllLoops, Types
  <2>2. \A l \in AllLoops \ {Main} :
           loop'[l].pc = "exited" => loop'[l].quit /\ loop'[l].pending = <<>>
    BY <1>1, <1>2 DEF PhasesOK
  <2>3. \A l \in AllLoops : loop'[l].pc # "run" => loop'[l].todo = <<>>
    BY <1>1, <1>2 DEF PhasesOK
  <2>4. Main \in AllLoops /\ (loop'[Main].pc = "exited" <=> loop[Main].pc = "exited")
        /\ (loop[Main].pc = "new" => loop'[Main].pc = "new")
    BY <1>1, <1>2, LoopsAre
  <2>. QED
    BY <1>2, <2>1, <2>2, <2>3, <2>4 DEF PhasesOK, SwapFunctors, pool
<1>6. \A l \in AllLoops : Q(l)' = Q(l)
  <2>1. loop[k].pending \in Seq(Functors)
    BY <1>1 DEF LoopRecords
  <2>2. \A s \in Seq(Functors) : <<>> \o s = s /\ s \o <<>> = s
    OBVIOUS
  <2>3. Q(k)' = Q(k)
    BY <1>1, <1>2, <2>1, <2>2 DEF Q
  <2>. QED
    BY <1>2, <2>3 DEF Q
<1>7. \A l \in AllLoops : loop'[l].pc # "exited" => loop[l].pc # "exited" /\ poller'[l] = poller[l]
  BY <1>1, <1>2 DEF SwapFunctors
<1>. QED
  BY <1>3, <1>4, <1>5, <1>6, <1>7, FrameStep DEF SwapFunctors, pool

\* It has executed them all.
LEMMA InvFunctorsDone ==
    ASSUME NEW k \in AllLoops
    PROVE  Inv /\ FunctorsDone(k) => Inv'
<1>. SUFFICES ASSUME Inv, FunctorsDone(k) PROVE Inv'
  OBVIOUS
<1>. USE DEF Inv
<1>1. loop \in [AllLoops -> LoopRecords] /\ loop[k].pc = "run" /\ loop[k].todo = <<>>
  BY DEF Types, FunctorsDone
<1>2. /\ loop' \in [AllLoops -> LoopRecords]
      /\ \A l \in AllLoops : /\ loop'[l].pending = loop[l].pending /\ loop'[l].todo = loop[l].todo
                             /\ loop'[l].quit = loop[l].quit /\ (l # k => loop'[l].pc = loop[l].pc)
      /\ loop'[k].pc = "poll"
  BY <1>1 DEF FunctorsDone, LoopRecords, Pcs
<1>3. Types'
  BY <1>2 DEF Types, FunctorsDone, pool
<1>4. PoolOK'
  BY <1>1, <1>2 DEF PoolOK, FunctorsDone, pool
<1>5. PhasesOK'
  BY <1>1, <1>2 DEF PhasesOK, FunctorsDone, pool, AllJoined
<1>6. \A l \in AllLoops : Q(l)' = Q(l)
  BY <1>2 DEF Q
<1>7. \A l \in AllLoops : loop'[l].pc # "exited" => loop[l].pc # "exited" /\ poller'[l] = poller[l]
  BY <1>1, <1>2 DEF FunctorsDone
<1>. QED
  BY <1>3, <1>4, <1>5, <1>6, <1>7, FrameStep DEF FunctorsDone, pool

\* A peer closes, and steps that change nothing.
LEMMA InvPeerCloses ==
    ASSUME Inv,
           UNCHANGED <<phase, pool, started_, next_conn_id_, connections_, conn, loop, poller, lost>>
    PROVE  Inv'
<1>. USE DEF Inv, pool
<1>1. Types' /\ PoolOK' /\ PhasesOK'
  BY DEF Types, PoolOK, PhasesOK, AllJoined
<1>2. \A l \in AllLoops : Q(l)' = Q(l)
  BY DEF Q
<1>. QED
  BY <1>1, <1>2, FrameStep

\* ~Acceptor: no loop is running any more.
LEMMA InvDestroyAcceptor == Inv /\ DestroyAcceptor => Inv'
<1>. SUFFICES ASSUME Inv, DestroyAcceptor PROVE Inv'
  OBVIOUS
<1>. USE DEF Inv
<1>1. Main \in AllLoops /\ loop[Main].pc = "exited"
  BY LoopsAre DEF DestroyAcceptor, PhasesOK
<1>2. poller' \in [AllLoops -> PollerRecords]
  <2>1. poller[Main] \in PollerRecords /\ {} \in SUBSET Interests
    BY <1>1 DEF Types
  <2>2. UpdateChannel(poller[Main], Acceptor, ListenFd, {}) \in PollerRecords
    BY <2>1, ConnsAre, PollerTypes
  <2>3. RemoveChannel(UpdateChannel(poller[Main], Acceptor, ListenFd, {}), Acceptor, ListenFd) \in PollerRecords
    BY <2>1, <2>2, ConnsAre, PollerTypes
  <2>. QED
    BY <2>3 DEF DestroyAcceptor, Types
<1>3. \A l \in AllLoops : l # Main => poller'[l] = poller[l]
  BY DEF DestroyAcceptor, Types
<1>4. Types'
  BY <1>2 DEF Types, DestroyAcceptor, pool
<1>5. PoolOK' /\ PhasesOK'
  BY DEF PoolOK, PhasesOK, AllJoined, DestroyAcceptor, pool
<1>6. \A l \in AllLoops : Q(l)' = Q(l)
  BY DEF Q, DestroyAcceptor
<1>7. \A l \in AllLoops : loop'[l].pc # "exited" => loop[l].pc # "exited" /\ poller'[l] = poller[l]
  BY <1>1, <1>3 DEF DestroyAcceptor
<1>. QED
  BY <1>4, <1>5, <1>6, <1>7, FrameStep DEF DestroyAcceptor, pool

\* Start: the pool's loops run, and the acceptor's channel is registered.
LEMMA InvStart == Inv /\ Start => Inv'
<1>. SUFFICES ASSUME Inv, Start PROVE Inv'
  OBVIOUS
<1>. USE DEF Inv
<1>1. CASE started_ # 0
  <2>1. Types'
    BY <1>1 DEF Types, Start, pool
  <2>2. PoolOK' /\ PhasesOK'
    BY <1>1 DEF PoolOK, PhasesOK, Start, pool, Types, AllJoined
  <2>3. \A l \in AllLoops : Q(l)' = Q(l)
    BY <1>1 DEF Q, Start
  <2>. QED
    BY <1>1, <2>1, <2>2, <2>3, FrameStep DEF Start, pool
<1>2. CASE started_ = 0
  <2>1. /\ phase = "constructed" /\ phase' = phase /\ started_' = 1 /\ loops_ = <<>>
        /\ next_conn_id_ = 1 /\ next_ = 0 /\ next_' = next_ /\ next_conn_id_' = 1
        /\ connections_' = connections_ /\ conn' = conn /\ lost' = lost /\ num_threads_' = num_threads_
        /\ \A l \in AllLoops : loop[l].pc = "new"
    BY <1>2 DEF Start, PoolOK, PhasesOK
  <2>2. num_threads_ \in ThreadNums /\ num_threads_ \in Nat /\ num_threads_ <= Most
        /\ 1..num_threads_ \subseteq AllLoops /\ Main \in AllLoops /\ Main \notin 1..num_threads_
    BY LoopsAre DEF Types, Main
  <2>3. /\ loops_' \in Seq(AllLoops) /\ Len(loops_') = num_threads_
        /\ \A i \in 1..num_threads_ : loops_'[i] = i
    <3>. DEFINE new == [i \in 1..num_threads_ |-> i]
    <3>1. new \in Seq(AllLoops) /\ Len(new) = num_threads_
      BY <2>2
    <3>2. \A s \in Seq(AllLoops) : <<>> \o s = s
      OBVIOUS
    <3>3. loops_' = new
      BY <1>2, <2>1, <3>1, <3>2 DEF Start
    <3>. QED
      BY <3>1, <3>3
  <2>4. loop' = [l \in AllLoops |-> IF l \in 1..num_threads_ THEN [loop[l] EXCEPT !.pc = "poll"] ELSE loop[l]]
    BY <1>2 DEF Start
  <2>5. /\ loop' \in [AllLoops -> LoopRecords]
        /\ \A l \in AllLoops :
              /\ loop'[l].pending = loop[l].pending /\ loop'[l].todo = loop[l].todo
              /\ loop'[l].quit = loop[l].quit /\ loop'[l].pc \in {"new", "poll"}
        /\ loop'[Main].pc = "new"
    <3>1. \A l \in AllLoops : loop[l] \in LoopRecords
      BY DEF Types
    <3>2. \A l \in AllLoops : [loop[l] EXCEPT !.pc = "poll"] \in LoopRecords
      BY <3>1 DEF LoopRecords, Pcs
    <3>3. loop' \in [AllLoops -> LoopRecords]
      BY <2>4, <3>1, <3>2
    <3>. QED
      BY <2>1, <2>2, <2>4, <3>1, <3>3 DEF LoopRecords
  <2>. DEFINE q == UpdateChannel(poller[Main], Acceptor, ListenFd, {"IN"})
  <2>6. poller' = [poller EXCEPT ![Main] = q]
    BY <1>2 DEF Start
  <2>7. Consistent(q, Fd) /\ \A c \in Conns : q.index[c] = poller[Main].index[c]
    <3>1. Acceptor \in Chans /\ Fd[Acceptor] = ListenFd /\ {"IN"} \in SUBSET Interests
      BY ConnsAre DEF Fd, Interests
    <3>2. Fd \in [Chans -> Nat] /\ \A y \in Chans : poller[Main].index[y] # "kNew" /\ Fd[y] = Fd[Acceptor] => y = Acceptor
      BY <2>1, <2>2, <3>1, Distinct
    <3>3. Consistent(poller[Main], Fd)
      BY <2>1, <2>2 DEF PollersOK
    <3>4. Consistent(q, Fd) /\ q.index = [poller[Main].index EXCEPT ![Acceptor] =
              IF poller[Main].index[Acceptor] = "kAdded" /\ {"IN"} = {} THEN "kDeleted" ELSE "kAdded"]
      <4>. DEFINE p  == poller[Main]
                  ev == {"IN"}
                  r  == UpdateChannel(p, Acceptor, Fd[Acceptor], ev)
      <4>1. /\ Consistent(p, Fd) /\ ev \in SUBSET Interests
            /\ \A y \in Chans : p.index[y] # "kNew" /\ Fd[y] = Fd[Acceptor] => y = Acceptor
        BY <3>1, <3>2, <3>3
      <4>. HIDE DEF p, ev
      <4>2. Consistent(r, Fd) /\ r.index = [p.index EXCEPT ![Acceptor] =
              IF p.index[Acceptor] = "kAdded" /\ ev = {} THEN "kDeleted" ELSE "kAdded"]
        BY <3>1, <3>2, <4>1, UpdateConsistent
      <4>3. q = r
        BY <3>1 DEF p, ev
      <4>. QED
        BY <4>2, <4>3 DEF p, ev
    <3>5. poller[Main].index \in [Chans -> Indices]
      BY <3>3 DEF Consistent, PollerRecords
    <3>. HIDE DEF q
    <3>. QED
      BY <3>4, <3>5, ConnsAre
  <2>. HIDE DEF q
  <2>8. poller' \in [AllLoops -> PollerRecords] /\ poller'[Main] = q
        /\ \A l \in AllLoops : l # Main => poller'[l] = poller[l]
    BY <2>2, <2>6, <2>7 DEF Types, Consistent
  <2>9. Types'
    BY <2>1, <2>3, <2>5, <2>8 DEF Types
  <2>10. PoolOK'
    BY <2>1, <2>2, <2>3 DEF PoolOK
  <2>11. PhasesOK'
    BY <2>1, <2>5 DEF PhasesOK
  <2>12. \A l \in AllLoops : Q(l)' = Q(l)
    BY <2>5 DEF Q
  <2>13. \A l \in AllLoops : \A kind, x : Queued(l, kind, x)' <=> Queued(l, kind, x)
    BY <2>12 DEF Queued
  <2>14. Fd' = Fd /\ \A c \in Conns : Held(c)' <=> Held(c)
    BY <2>1, <2>13 DEF Fd, Held
  <2>15. \A c \in Conns : ~(c < next_conn_id_) /\ conn[c].state = "none"
    BY <2>1 DEF PlacesOK, Conns
  <2>16. CallbacksOK' /\ PlacesOK' /\ QueuesOK' /\ UpOK'
    BY <2>1, <2>12, <2>15 DEF CallbacksOK, PlacesOK, QueuesOK, UpOK
  <2>17. AddressedOK'
    BY <2>1, <2>13 DEF AddressedOK
  <2>18. FunctorsOK'
    BY <2>1, <2>2, <2>13, <2>5 DEF FunctorsOK, Types, ConnRecords
  <2>19. FdsDiffer'
    BY <2>1, <2>14 DEF FdsDiffer
  <2>20. PollersOK'
    <3>1. ASSUME NEW l \in AllLoops
          PROVE  Consistent(poller'[l], Fd') /\ \A c \in Conns : poller'[l].index[c] = poller[l].index[c]
      BY <2>1, <2>7, <2>8, <2>14 DEF PollersOK
    <3>. QED
      BY <2>1, <2>13, <3>1 DEF PollersOK
  <2>. QED
    BY <2>9, <2>10, <2>11, <2>16, <2>17, <2>18, <2>19, <2>20
<1>. QED
  BY <1>1, <1>2

-----------------------------------------------------------------------------
(* The steps of a connection.                                              *)

\* Phases and the pool depend on the loops' pc and quit_ and on what the loops of the
\* pool have yet to execute.
LEMMA PhasesStep ==
    ASSUME Inv, next_' = next_, loops_' = loops_, started_' = started_, phase' = phase,
           next_conn_id_' = next_conn_id_, connections_' \subseteq connections_,
           \A l \in AllLoops : /\ loop'[l].pc = loop[l].pc /\ loop'[l].quit = loop[l].quit
                               /\ loop[l].pc # "run" => loop'[l].todo = loop[l].todo
                               /\ l # Main /\ loop[l].pc = "exited" => loop'[l].pending = loop[l].pending
    PROVE  PoolOK' /\ PhasesOK'
<1>. USE DEF Inv
<1>1. PoolOK'
  BY DEF PoolOK
<1>2. AllJoined' <=> AllJoined
  <2>1. 1..Len(loops_) \subseteq AllLoops
    BY LoopsAre DEF PoolOK, AllLoops, Types
  <2>. QED
    BY <2>1 DEF AllJoined
<1>3. connections_ = {} => connections_' = {}
  OBVIOUS
<1>. QED
  BY <1>1, <1>2, <1>3, LoopsAre DEF PhasesOK

\* Shutdown
LEMMA InvShutdown ==
    ASSUME NEW c \in Conns
    PROVE  Inv /\ Shutdown(c) => Inv'
<1>. SUFFICES ASSUME Inv, Shutdown(c) PROVE Inv'
  OBVIOUS
<1>. USE DEF Inv
<1>1. /\ conn \in [Conns -> ConnRecords] /\ conn[c].state = "kConnected"
      /\ conn' = [conn EXCEPT ![c] = [conn[c] EXCEPT !.state = "kDisconnecting"]]
  BY DEF Types, Shutdown
<1>2. /\ conn' \in [Conns -> ConnRecords] /\ conn'[c].state = "kDisconnecting"
      /\ conn'[c].loop = conn[c].loop /\ conn'[c].fd = conn[c].fd
      /\ conn'[c].ups = conn[c].ups /\ conn'[c].downs = conn[c].downs
      /\ \A x \in Conns : x # c => conn'[x] = conn[x]
  BY <1>1 DEF ConnRecords, States
<1>3. /\ connections_' = connections_ /\ next_conn_id_' = next_conn_id_ /\ loop' = loop
      /\ poller' = poller /\ lost' = lost /\ loops_' = loops_
  BY DEF Shutdown, pool
<1>4. \A l \in AllLoops : Q(l)' = Q(l)
  BY <1>3 DEF Q
<1>5. \A l \in AllLoops : \A kind, x : Queued(l, kind, x)' <=> Queued(l, kind, x)
  BY <1>4 DEF Queued
<1>6. Types'
  BY <1>2 DEF Types, Shutdown, pool
<1>7. PoolOK' /\ PhasesOK'
  BY PhasesStep DEF Shutdown, pool
<1>8. CallbacksOK' /\ PlacesOK' /\ QueuesOK'
  BY <1>1, <1>2, <1>3, <1>4 DEF CallbacksOK, PlacesOK, QueuesOK
<1>9. AddressedOK'
  BY <1>2, <1>3, <1>5 DEF AddressedOK
<1>10. FunctorsOK'
  BY <1>1, <1>2, <1>3, <1>5, LoopsAre DEF FunctorsOK, ConnRecords
<1>11. UpOK'
  BY <1>1, <1>2, <1>3, <1>5 DEF UpOK, ConnRecords
<1>12. FdsDiffer'
  <2>1. \A x \in Conns : (Held(x)' <=> Held(x)) /\ conn'[x].fd = conn[x].fd
    BY <1>2, <1>3, <1>5 DEF Held
  <2>. QED
    BY <2>1 DEF FdsDiffer
<1>13. PollersOK'
  <2>1. Fd' = Fd
    <3>1. \A x \in Chans : x # Acceptor => x \in Conns /\ conn'[x].fd = conn[x].fd
      BY <1>2 DEF Chans
    <3>. QED
      BY <3>1 DEF Fd
  <2>2. ASSUME NEW l \in AllLoops, loop[l].pc # "exited", NEW x \in Conns
        PROVE  /\ poller[l].index[x] # "kNew" =>
                     x < next_conn_id_ /\ conn'[x].loop = l /\ (x \in connections_ \/ Queued(l, "destroyed", x))
               /\ poller[l].index[x] = "kAdded" => conn'[x].state \in {"kConnected", "kDisconnecting"}
               /\ poller[l].index[x] = "kDeleted" => conn'[x].state = "kDisconnected"
               /\ conn'[x].loop = l /\ conn'[x].state = "kConnected" => poller[l].index[x] = "kAdded"
    BY <1>1, <1>2, <2>2 DEF PollersOK
  <2>. QED
    BY <1>3, <1>5, <2>1, <2>2 DEF PollersOK
<1>. QED
  BY <1>6, <1>7, <1>8, <1>9, <1>10, <1>11, <1>12, <1>13

\* ConnectEstablished, on the record of the connection.
LEMMA EstablishedIs ==
    ASSUME NEW r \in ConnRecords
    PROVE  /\ Established(r) \in ConnRecords /\ Established(r).state = "kConnected"
           /\ Established(r).loop = r.loop /\ Established(r).fd = r.fd
           /\ Established(r).ups = r.ups + 1 /\ Established(r).downs = r.downs
<1>. DEFINE ev == r.events \cup {"IN"}
            n  == r.ups + 1
<1>1. ev \in SUBSET Interests /\ n \in Nat /\ "kConnected" \in States
  BY DEF ConnRecords, Interests, States
<1>2. Established(r) = [r EXCEPT !.state = "kConnected", !.events = ev, !.ups = n]
  BY DEF Established
<1>. HIDE DEF ev, n
<1>3. /\ Established(r) \in ConnRecords /\ Established(r).state = "kConnected"
      /\ Established(r).loop = r.loop /\ Established(r).fd = r.fd
      /\ Established(r).ups = n /\ Established(r).downs = r.downs
  BY <1>1, <1>2 DEF ConnRecords
<1>. QED
  BY <1>3 DEF n

\* ConnectEstablished, executed by the loop of the connection: nothing has happened to
\* the connection before.
LEMMA InvRunEstablished ==
    ASSUME NEW k \in AllLoops
    PROVE  Inv /\ RunEstablished(k) => Inv'
<1>. SUFFICES ASSUME Inv, RunEstablished(k) PROVE Inv'
  OBVIOUS
<1>. USE DEF Inv
<1>0. PICK c : c = Argument(k)
  OBVIOUS
<1>1. /\ loop' \in [AllLoops -> LoopRecords]
      /\ \A l \in AllLoops :
            /\ loop'[l].pc = loop[l].pc /\ loop'[l].quit = loop[l].quit
            /\ loop'[l].pending = loop[l].pending
            /\ l # k => loop'[l].todo = loop[l].todo
      /\ loop[k].pc = "run" /\ c \in Conns /\ Queued(k, "established", c)
      /\ \A l \in AllLoops : \A kd, x :
            Queued(l, kd, x)' <=> Queued(l, kd, x) /\ ~(l = k /\ kd = "established" /\ x = c)
      /\ QueuesOK'
  <2>1. "established" \in Kinds /\ Runs(k, "established") /\ loop' = Took(k)
    BY DEF Kinds, RunEstablished
  <2>. QED
    BY <1>0, <2>1, Taken
<1>2. /\ conn' = [conn EXCEPT ![c] = Established(conn[c])]
      /\ poller' = [poller EXCEPT ![conn[c].loop] = UpdateChannel(@, c, conn[c].fd, {"IN"})]
      /\ connections_' = connections_ /\ next_conn_id_' = next_conn_id_ /\ lost' = lost /\ loops_' = loops_
      /\ next_' = next_ /\ started_' = started_ /\ phase' = phase /\ num_threads_' = num_threads_
  BY <1>0 DEF RunEstablished, Update, pool
<1>3. /\ c < next_conn_id_ /\ conn[c].loop = k /\ k # Main /\ conn[c].state = "kConnecting"
      /\ c \in connections_ \/ Queued(k, "destroyed", c)
      /\ conn[c].ups = 0 /\ conn[c].downs = 0 /\ Held(c)
  BY <1>1 DEF AddressedOK, FunctorsOK, CallbacksOK, Held, Kinds
<1>4. conn \in [Conns -> ConnRecords]
  BY DEF Types
<1>5. /\ conn' \in [Conns -> ConnRecords] /\ conn'[c].state = "kConnected"
      /\ conn'[c].loop = conn[c].loop /\ conn'[c].fd = conn[c].fd
      /\ conn'[c].ups = 1 /\ conn'[c].downs = 0
      /\ \A x \in Conns : x # c => conn'[x] = conn[x]
  <2>. DEFINE r == Established(conn[c])
  <2>1. /\ r \in ConnRecords /\ r.state = "kConnected" /\ r.loop = conn[c].loop /\ r.fd = conn[c].fd
        /\ r.ups = conn[c].ups + 1 /\ r.downs = conn[c].downs
    BY <1>1, <1>4, EstablishedIs
  <2>. HIDE DEF r
  <2>2. conn' = [conn EXCEPT ![c] = r]
    BY <1>2 DEF r
  <2>. QED
    BY <1>1, <1>2, <1>3, <1>4, <2>1, <2>2
<1>. DEFINE q == UpdateChannel(poller[k], c, conn[c].fd, {"IN"})
<1>6. poller' = [poller EXCEPT ![k] = q]
  BY <1>2, <1>3
<1>7. Consistent(q, Fd) /\ q.index = [poller[k].index EXCEPT ![c] = "kAdded"]
  <2>. DEFINE ev == {"IN"}
              r  == UpdateChannel(poller[k], c, conn[c].fd, ev)
  <2>1. ev \in SUBSET Interests /\ ev # {} /\ q = r
    BY DEF Interests
  <2>. HIDE DEF ev, q
  <2>2. /\ Consistent(r, Fd)
        /\ r.index = [poller[k].index EXCEPT ![c] =
                         IF poller[k].index[c] = "kAdded" /\ ev = {} THEN "kDeleted" ELSE "kAdded"]
    BY <1>1, <1>3, <2>1, ChannelUpdated
  <2>. QED
    BY <2>1, <2>2
<1>. HIDE DEF q
<1>8. Types'
  <2>1. poller' \in [AllLoops -> PollerRecords]
    BY <1>6, <1>7 DEF Types, Consistent
  <2>. QED
    BY <1>1, <1>2, <1>5, <2>1 DEF Types
<1>9. PoolOK' /\ PhasesOK'
  BY <1>1, <1>2, PhasesStep
<1>10. CallbacksOK' /\ PlacesOK'
  BY <1>1, <1>2, <1>3, <1>5 DEF CallbacksOK, PlacesOK
<1>11. AddressedOK'
  BY <1>1, <1>2, <1>5 DEF AddressedOK
<1>12. FunctorsOK'
  <2>1. ~Queued(Main, "remove", c) /\ ~(Queued(k, "destroyed", c) /\ loop[Main].pc # "exited")
    BY <1>1, <1>3 DEF FunctorsOK
  <2>2. \A x \in Conns : conn[x].loop \in AllLoops /\ conn'[x].loop = conn[x].loop
    BY <1>4, <1>5 DEF ConnRecords
  <2>. QED
    BY <1>1, <1>2, <1>3, <1>5, <2>1, <2>2, LoopsAre DEF FunctorsOK
<1>13. UpOK'
  <2>1. \A x \in Conns : conn[x].loop \in AllLoops /\ conn'[x].loop = conn[x].loop
    BY <1>4, <1>5 DEF ConnRecords
  <2>. QED
    BY <1>1, <1>2, <1>3, <1>5, <2>1 DEF UpOK
<1>14. FdsDiffer'
  <2>1. \A x \in Conns : (Held(x)' => Held(x)) /\ conn'[x].fd = conn[x].fd
    BY <1>1, <1>2, <1>5 DEF Held
  <2>. QED
    BY <2>1 DEF FdsDiffer
<1>15. PollersOK'
  <2>1. loop[k].pc # "exited"
    BY <1>1
  <2>2. c \in connections_' \/ Queued(k, "destroyed", c)'
    BY <1>1, <1>2, <1>3
  <2>3. \A x \in Conns : x # c =>
           /\ x \in connections_ => x \in connections_'
           /\ \A l \in AllLoops : Queued(l, "destroyed", x) => Queued(l, "destroyed", x)'
    BY <1>1, <1>2
  <2>4. /\ \A l \in AllLoops : loop'[l].pc = loop[l].pc
        /\ conn[c].loop = k /\ conn'[c].loop = k /\ conn'[c].fd = conn[c].fd
        /\ \A x \in Conns : x # c => conn'[x] = conn[x]
        /\ c \in Conns /\ c < next_conn_id_ /\ next_conn_id_' = next_conn_id_
        /\ conn'[c].state = "kConnected"
    BY <1>1, <1>2, <1>3, <1>5
  <2>5. /\ poller'[k] = q /\ poller'[k].index[c] = "kAdded"
        /\ \A x \in Conns : x # c => poller'[k].index[x] = poller[k].index[x]
        /\ \A l \in AllLoops : l # k => poller'[l] = poller[l]
    BY <1>1, <1>6, <1>7, PollersAre, ConnsAre
  <2>. QED
    BY <1>7, <2>1, <2>2, <2>3, <2>4, <2>5, PollersStep
<1>. QED
  BY <1>1, <1>8, <1>9, <1>10, <1>11, <1>12, <1>13, <1>14, <1>15

\* ConnectDestroyed, on the record of the connection: the callback if it was up.
LEMMA DestroyedIs ==
    ASSUME Inv, NEW c \in Conns
    PROVE  LET cn == AfterDestroyed(conn, c) IN
           /\ cn \in [Conns -> ConnRecords]
           /\ \A x \in Conns : x # c => cn[x] = conn[x]
           /\ cn[c].loop = conn[c].loop /\ cn[c].fd = conn[c].fd /\ cn[c].ups = conn[c].ups
           /\ conn[c].state # "kConnected" => cn[c] = conn[c]
           /\ conn[c].state = "kConnected" => cn[c].state = "kDisconnected" /\ cn[c].downs = 1
<1>. DEFINE n  == conn[c].downs + 1
            r  == [conn[c] EXCEPT !.state = "kDisconnected", !.events = {}, !.downs = n]
            cn == AfterDestroyed(conn, c)
<1>1. conn \in [Conns -> ConnRecords] /\ conn[c] \in ConnRecords
  BY DEF Inv, Types
<1>2. n \in Nat /\ (conn[c].state = "kConnected" => n = 1)
  BY <1>1 DEF ConnRecords, Inv, CallbacksOK
<1>3. cn = IF conn[c].state = "kConnected" THEN [conn EXCEPT ![c] = r] ELSE conn
  BY DEF AfterDestroyed, WasConnected
<1>. HIDE DEF n, cn
<1>4. /\ r \in ConnRecords /\ r.loop = conn[c].loop /\ r.fd = conn[c].fd /\ r.ups = conn[c].ups
      /\ r.state = "kDisconnected" /\ r.downs = n
  BY <1>1, <1>2 DEF ConnRecords, States
<1>. HIDE DEF r
<1>5. CASE conn[c].state = "kConnected"
  BY <1>1, <1>2, <1>3, <1>4, <1>5 DEF cn
<1>6. CASE conn[c].state # "kConnected"
  BY <1>1, <1>3, <1>6 DEF cn
<1>. QED
  BY <1>5, <1>6

\* ConnectDestroyed, executed by the loop of the connection.
LEMMA InvRunDestroyed ==
    ASSUME NEW k \in AllLoops
    PROVE  Inv /\ RunDestroyed(k) => Inv'
<1>. SUFFICES ASSUME Inv, RunDestroyed(k) PROVE Inv'
  OBVIOUS
<1>. USE DEF Inv
<1>0. PICK c : c = Argument(k)
  OBVIOUS
<1>1. /\ loop' \in [AllLoops -> LoopRecords]
      /\ \A l \in AllLoops :
            /\ loop'[l].pc = loop[l].pc /\ loop'[l].quit = loop[l].quit
            /\ loop'[l].pending = loop[l].pending
            /\ l # k => loop'[l].todo = loop[l].todo
      /\ loop[k].pc = "run" /\ c \in Conns /\ Queued(k, "destroyed", c)
      /\ \A l \in AllLoops : \A kd, x :
            Queued(l, kd, x)' <=> Queued(l, kd, x) /\ ~(l = k /\ kd = "destroyed" /\ x = c)
      /\ ~Queued(k, "established", c)
      /\ QueuesOK'
  <2>1. "destroyed" \in Kinds /\ Runs(k, "destroyed") /\ loop' = Took(k)
    BY DEF Kinds, RunDestroyed
  <2>. QED
    BY <1>0, <2>1, Taken
<1>2. /\ conn' = AfterDestroyed(conn, c)
      /\ poller' = [poller EXCEPT ![conn[c].loop] = PollerAfterDestroyed(@, c)]
      /\ connections_' = connections_ /\ next_conn_id_' = next_conn_id_ /\ lost' = lost /\ loops_' = loops_
      /\ next_' = next_ /\ started_' = started_ /\ phase' = phase /\ num_threads_' = num_threads_
  BY <1>0 DEF RunDestroyed, ConnectDestroyed, pool
<1>3. c < next_conn_id_ /\ conn[c].loop = k /\ c \notin connections_ /\ Held(c)
  BY <1>1 DEF AddressedOK, FunctorsOK, Held, Kinds
<1>4. /\ conn' \in [Conns -> ConnRecords]
      /\ \A x \in Conns : x # c => conn'[x] = conn[x]
      /\ conn'[c].loop = conn[c].loop /\ conn'[c].fd = conn[c].fd /\ conn'[c].ups = conn[c].ups
      /\ conn[c].state # "kConnected" => conn'[c] = conn[c]
      /\ conn[c].state = "kConnected" => conn'[c].state = "kDisconnected" /\ conn'[c].downs = 1
  BY <1>1, <1>2, DestroyedIs
<1>. DEFINE q == PollerAfterDestroyed(poller[k], c)
<1>5. poller' = [poller EXCEPT ![k] = q]
  BY <1>2, <1>3
<1>6. Consistent(q, Fd) /\ q.index = [poller[k].index EXCEPT ![c] = "kNew"]
  BY <1>1, <1>3, ChannelRemoved
<1>. HIDE DEF q
<1>7. \A x \in Conns : conn[x].loop \in AllLoops /\ conn'[x].loop = conn[x].loop
  BY <1>1, <1>4 DEF Types, ConnRecords
<1>8. Types'
  <2>1. poller' \in [AllLoops -> PollerRecords]
    BY <1>5, <1>6 DEF Types, Consistent
  <2>. QED
    BY <1>1, <1>2, <1>4, <2>1 DEF Types
<1>9. PoolOK' /\ PhasesOK'
  BY <1>1, <1>2, PhasesStep
<1>10. CallbacksOK' /\ PlacesOK'
  BY <1>1, <1>2, <1>3, <1>4 DEF CallbacksOK, PlacesOK
<1>11. AddressedOK'
  BY <1>1, <1>2, <1>4 DEF AddressedOK
<1>12. FunctorsOK'
  BY <1>1, <1>2, <1>3, <1>4, <1>7, LoopsAre DEF FunctorsOK
<1>13. UpOK'
  BY <1>1, <1>2, <1>3, <1>4, <1>7 DEF UpOK
<1>14. FdsDiffer'
  <2>1. \A x \in Conns : (Held(x)' => Held(x)) /\ conn'[x].fd = conn[x].fd
    BY <1>1, <1>2, <1>4 DEF Held
  <2>. QED
    BY <2>1 DEF FdsDiffer
<1>15. PollersOK'
  <2>1. loop[k].pc # "exited" /\ conn'[c].state # "kConnected"
    BY <1>1, <1>4
  <2>3. \A x \in Conns : x # c =>
           /\ x \in connections_ => x \in connections_'
           /\ \A l \in AllLoops : Queued(l, "destroyed", x) => Queued(l, "destroyed", x)'
    BY <1>1, <1>2
  <2>4. /\ \A l \in AllLoops : loop'[l].pc = loop[l].pc
        /\ conn[c].loop = k /\ conn'[c].loop = k /\ conn'[c].fd = conn[c].fd
        /\ \A x \in Conns : x # c => conn'[x] = conn[x]
        /\ c \in Conns /\ c < next_conn_id_ /\ next_conn_id_' = next_conn_id_
    BY <1>1, <1>2, <1>3, <1>4
  <2>5. /\ poller'[k] = q /\ poller'[k].index[c] = "kNew"
        /\ \A x \in Conns : x # c => poller'[k].index[x] = poller[k].index[x]
        /\ \A l \in AllLoops : l # k => poller'[l] = poller[l]
    BY <1>1, <1>5, <1>6, PollersAre, ConnsAre
  <2>. QED
    BY <1>6, <2>1, <2>3, <2>4, <2>5, PollersStep
<1>. QED
  BY <1>1, <1>8, <1>9, <1>10, <1>11, <1>12, <1>13, <1>14, <1>15

\* HandleClose: the connection was up, nobody had closed it before, and the server
\* has not yet erased it unless its loop has ended.
LEMMA InvHandleClose ==
    ASSUME NEW c \in Conns
    PROVE  Inv /\ HandleClose(c) => Inv'
<1>. SUFFICES ASSUME Inv, HandleClose(c) PROVE Inv'
  OBVIOUS
<1>. USE DEF Inv
<1>0. PICK k : k = conn[c].loop
  OBVIOUS
<1>1. PICK kind : kind = IF k = Main THEN "destroyed" ELSE "remove"
  OBVIOUS
<1>. DEFINE n == conn[c].downs + 1
            r == [conn[c] EXCEPT !.state = "kDisconnected", !.events = {}, !.downs = n]
            q == UpdateChannel(poller[k], c, conn[c].fd, {})
<1>2. /\ loop[k].pc = "poll" /\ \E w \in poller[k].epoll : w.ptr = c
      /\ conn' = [conn EXCEPT ![c] = r] /\ poller' = [poller EXCEPT ![k] = q]
      /\ connections_' = IF k = Main THEN connections_ \ {c} ELSE connections_
      /\ loop' = Push(loop, Main, Functor(kind, c))
      /\ next_conn_id_' = next_conn_id_ /\ lost' = lost /\ loops_' = loops_
      /\ next_' = next_ /\ started_' = started_ /\ phase' = phase /\ num_threads_' = num_threads_
  BY <1>0, <1>1 DEF HandleClose, Update, pool
<1>3. conn \in [Conns -> ConnRecords] /\ conn[c] \in ConnRecords /\ k \in AllLoops /\ kind \in Kinds
      /\ Main \in AllLoops
  BY <1>0, <1>1, LoopsAre DEF Types, ConnRecords, Kinds
<1>4. poller[k].index[c] = "kAdded"
  BY <1>2, <1>3 DEF PollersOK, Consistent
<1>5. /\ conn[c].state \in {"kConnected", "kDisconnecting"} /\ c < next_conn_id_
      /\ c \in connections_ \/ Queued(k, "destroyed", c)
      /\ conn[c].ups = 1 /\ conn[c].downs = 0
  BY <1>2, <1>3, <1>4 DEF PollersOK, CallbacksOK
<1>6. /\ loop[Main].pc # "exited" => c \in connections_
      /\ k = Main => c \in connections_
      /\ ~Queued(k, "established", c) /\ ~Queued(Main, "remove", c) /\ Held(c)
      /\ k = Main => ~Queued(Main, "destroyed", c)
  BY <1>0, <1>2, <1>3, <1>5 DEF FunctorsOK, Held, Kinds
<1>7. /\ loop' \in [AllLoops -> LoopRecords]
      /\ \A l \in AllLoops :
            /\ loop'[l].pc = loop[l].pc /\ loop'[l].quit = loop[l].quit
            /\ loop'[l].todo = loop[l].todo
            /\ l # Main => loop'[l].pending = loop[l].pending
      /\ \A l \in AllLoops : \A kd, x :
            Queued(l, kd, x)' <=> Queued(l, kd, x) \/ (l = Main /\ kd = kind /\ x = c)
      /\ QueuesOK'
  <2>1. kind # "established" /\ ~Queued(Main, kind, c)
    BY <1>1, <1>6
  <2>. QED
    BY <1>2, <1>3, <2>1, Pushed
<1>8. Consistent(q, Fd) /\ q.index = [poller[k].index EXCEPT ![c] = "kDeleted"]
  <2>. DEFINE ev == {}
              p  == UpdateChannel(poller[k], c, conn[c].fd, ev)
  <2>1. ev \in SUBSET Interests /\ ev = {} /\ q = p
    OBVIOUS
  <2>. HIDE DEF ev, q
  <2>2. /\ Consistent(p, Fd)
        /\ p.index = [poller[k].index EXCEPT ![c] =
                         IF poller[k].index[c] = "kAdded" /\ ev = {} THEN "kDeleted" ELSE "kAdded"]
    BY <1>2, <1>3, <1>6, <2>1, ChannelUpdated
  <2>. QED
    BY <1>4, <2>1, <2>2
<1>9. n = 1
  BY <1>5
<1>. HIDE DEF n, q
<1>10. /\ r \in ConnRecords /\ r.loop = k /\ r.fd = conn[c].fd /\ r.ups = 1
       /\ r.state = "kDisconnected" /\ r.downs = 1
  BY <1>0, <1>3, <1>5, <1>9 DEF ConnRecords, States
<1>. HIDE DEF r
<1>11. /\ conn' \in [Conns -> ConnRecords]
       /\ \A x \in Conns : x # c => conn'[x] = conn[x]
       /\ conn'[c].loop = k /\ conn[c].loop = k /\ conn'[c].fd = conn[c].fd /\ conn'[c].ups = 1
       /\ conn'[c].state = "kDisconnected" /\ conn'[c].downs = 1
  BY <1>0, <1>2, <1>3, <1>10
<1>12. \A x \in Conns : conn[x].loop \in AllLoops /\ conn'[x].loop = conn[x].loop
  BY <1>3, <1>11 DEF ConnRecords
<1>13. Types'
  <2>1. poller' \in [AllLoops -> PollerRecords]
    BY <1>2, <1>8 DEF Types, Consistent
  <2>. QED
    BY <1>2, <1>7, <1>11, <2>1 DEF Types
<1>14. PoolOK' /\ PhasesOK'
  <2>1. connections_' \subseteq connections_
    BY <1>2
  <2>. QED
    BY <1>2, <1>7, <2>1, PhasesStep
<1>15. CallbacksOK' /\ PlacesOK'
  BY <1>2, <1>5, <1>11 DEF CallbacksOK, PlacesOK
<1>16. AddressedOK'
  <2>1. ASSUME NEW l \in AllLoops, NEW x \in Conns
        PROVE  /\ Queued(l, "established", x)' => x < next_conn_id_ /\ conn[x].loop = l /\ l # Main
               /\ Queued(l, "destroyed", x)' => x < next_conn_id_ /\ conn[x].loop = l
               /\ Queued(l, "remove", x)' => x < next_conn_id_ /\ conn[x].loop # Main /\ l = Main
    <3>1. CASE l = Main /\ x = c
      BY <1>0, <1>1, <1>5, <1>7, <3>1 DEF AddressedOK
    <3>2. CASE ~(l = Main /\ x = c)
      BY <1>7, <3>2 DEF AddressedOK
    <3>. QED
      BY <3>1, <3>2
  <2>. QED
    BY <1>2, <1>12, <2>1 DEF AddressedOK
<1>17. FunctorsOK'
  <2>1. \A x \in Conns : x # c => (x \in connections_' <=> x \in connections_)
    BY <1>2
  <2>2. \A x \in Conns, l \in AllLoops : \A kd : x # c => (Queued(l, kd, x)' <=> Queued(l, kd, x))
    BY <1>7
  <2>3. /\ ~Queued(k, "established", c)'
        /\ Queued(k, "destroyed", c)' => c \notin connections_'
        /\ Queued(Main, "remove", c)' => (loop[Main].pc # "exited" => c \in connections_')
    <3>1. CASE k = Main
      BY <1>0, <1>1, <1>2, <1>3, <1>6, <1>7, <3>1
    <3>2. CASE k # Main
      BY <1>0, <1>1, <1>2, <1>3, <1>6, <1>7, <3>2 DEF FunctorsOK
    <3>. QED
      BY <3>1, <3>2
  <2>4. \A x \in Conns : x # c =>
            /\ Queued(conn[x].loop, "established", x) =>
                  conn[x].state = "kConnecting" /\ (x \in connections_ \/ Queued(conn[x].loop, "destroyed", x))
            /\ Queued(conn[x].loop, "destroyed", x) => x \notin connections_
            /\ Queued(Main, "remove", x) =>
                  conn[x].state = "kDisconnected" /\ (loop[Main].pc # "exited" => x \in connections_)
            /\ Queued(conn[x].loop, "destroyed", x) /\ (conn[x].loop = Main \/ loop[Main].pc # "exited") =>
                  conn[x].state = "kDisconnected"
    BY DEF FunctorsOK
  <2>. QED
    BY <1>3, <1>7, <1>11, <1>12, <2>1, <2>2, <2>3, <2>4 DEF FunctorsOK
<1>18. UpOK'
  BY <1>2, <1>7, <1>11, <1>12 DEF UpOK
<1>19. FdsDiffer'
  <2>1. \A x \in Conns : (Held(x)' => Held(x)) /\ conn'[x].fd = conn[x].fd
    BY <1>2, <1>6, <1>7, <1>11 DEF Held
  <2>. QED
    BY <2>1 DEF FdsDiffer
<1>20. PollersOK'
  <2>1. loop[k].pc # "exited"
    BY <1>2
  <2>2. c \in connections_' \/ Queued(k, "destroyed", c)'
    BY <1>1, <1>2, <1>3, <1>5, <1>7
  <2>3. \A x \in Conns : x # c =>
           /\ x \in connections_ => x \in connections_'
           /\ \A l \in AllLoops : Queued(l, "destroyed", x) => Queued(l, "destroyed", x)'
    BY <1>2, <1>7
  <2>4. /\ \A l \in AllLoops : loop'[l].pc = loop[l].pc
        /\ conn[c].loop = k /\ conn'[c].loop = k /\ conn'[c].fd = conn[c].fd
        /\ \A x \in Conns : x # c => conn'[x] = conn[x]
        /\ c < next_conn_id_ /\ next_conn_id_' = next_conn_id_
        /\ conn'[c].state = "kDisconnected"
    BY <1>2, <1>5, <1>7, <1>11
  <2>5. /\ poller'[k] = q /\ poller'[k].index[c] = "kDeleted"
        /\ \A x \in Conns : x # c => poller'[k].index[x] = poller[k].index[x]
        /\ \A l \in AllLoops : l # k => poller'[l] = poller[l]
    BY <1>2, <1>3, <1>8, PollersAre, ConnsAre
  <2>. QED
    BY <1>3, <1>8, <2>1, <2>2, <2>3, <2>4, <2>5, PollersStep
<1>. QED
  BY <1>7, <1>13, <1>14, <1>15, <1>16, <1>17, <1>18, <1>19, <1>20

-----------------------------------------------------------------------------
(* The steps of the server and of its destructor.                          *)

\* RemoveConnectionInLoop takes one functor from the server's queue and puts another
\* one into the queue of the connection's loop.
LEMMA Moved ==
    ASSUME Types, QueuesOK, NEW k \in AllLoops, k # Main, NEW c, c = Argument(Main), Runs(Main, "remove"),
           ~Queued(k, "destroyed", c),
           loop' = Push(Took(Main), k, Functor("destroyed", c))
    PROVE  /\ loop' \in [AllLoops -> LoopRecords]
           /\ \A l \in AllLoops :
                 /\ loop'[l].pc = loop[l].pc /\ loop'[l].quit = loop[l].quit
                 /\ l # Main => loop'[l].todo = loop[l].todo
                 /\ l # k => loop'[l].pending = loop[l].pending
           /\ loop[Main].pc = "run" /\ c \in Conns /\ Queued(Main, "remove", c)
           /\ \A l \in AllLoops : \A kd, x :
                 Queued(l, kd, x)' <=> \/ Queued(l, kd, x) /\ ~(l = Main /\ kd = "remove" /\ x = c)
                                       \/ l = k /\ kd = "destroyed" /\ x = c
           /\ QueuesOK'
<1>. DEFINE f   == Head(loop[Main].todo)
            g   == Functor("destroyed", c)
            mid == Took(Main)
            new == Push(mid, k, g)
<1>0. /\ Main \in AllLoops /\ loop \in [AllLoops -> LoopRecords] /\ loop[Main].pc = "run"
      /\ loop[Main].todo # <<>> /\ f.kind = "remove" /\ f.conn = c
  BY LoopsAre DEF Types, Runs, Argument
<1>1. /\ mid \in [AllLoops -> LoopRecords]
      /\ \A l \in AllLoops :
            /\ mid[l].pc = loop[l].pc /\ mid[l].quit = loop[l].quit
            /\ mid[l].pending = loop[l].pending
            /\ l # Main => mid[l].todo = loop[l].todo
      /\ mid[Main].todo \o mid[Main].pending = Tail(Q(Main))
      /\ Q(Main) # <<>> /\ Head(Q(Main)) = f /\ Q(Main) \in Seq(Functors)
  BY <1>0, QueueTook
<1>. HIDE DEF f, mid
<1>2. Orderly(Q(Main))
  BY <1>0 DEF QueuesOK
<1>3. /\ Orderly(Tail(Q(Main)))
      /\ \A h : Has(Tail(Q(Main)), h) <=> Has(Q(Main), h) /\ h # f
      /\ f \in Functors /\ Has(Q(Main), f) /\ f = Functor(f.kind, f.conn)
  BY <1>1, <1>2, PopHas
<1>4. f = Functor("remove", c) /\ c \in Conns
  BY <1>0, <1>3 DEF Functors
<1>5. g \in Functors /\ g.kind = "destroyed" /\ g.conn = c
  BY <1>4, FunctorType DEF Kinds
<1>6. /\ \A kd, x : Functor(kd, x) = f <=> kd = "remove" /\ x = c
      /\ \A kd, x : Functor(kd, x) = g <=> kd = "destroyed" /\ x = c
  BY <1>4 DEF Functor
<1>. HIDE DEF g
<1>7. /\ new \in [AllLoops -> LoopRecords]
      /\ \A l \in AllLoops :
            /\ new[l].pc = mid[l].pc /\ new[l].quit = mid[l].quit /\ new[l].todo = mid[l].todo
            /\ l # k => new[l].pending = mid[l].pending
      /\ new[k].todo \o new[k].pending = Append(mid[k].todo \o mid[k].pending, g)
  BY <1>1, <1>5, QueuePushed
<1>8. loop' = new
  BY DEF g, mid
<1>. HIDE DEF new
<1>9. /\ Q(Main)' = Tail(Q(Main)) /\ Q(k)' = Append(Q(k), g)
      /\ \A l \in AllLoops : l # Main /\ l # k => Q(l)' = Q(l)
  BY <1>0, <1>1, <1>7, <1>8 DEF Q
<1>10. Q(k) \in Seq(Functors)
  <2>1. loop[k].todo \in Seq(Functors) /\ loop[k].pending \in Seq(Functors)
    BY <1>0 DEF LoopRecords
  <2>. QED
    BY <2>1 DEF Q
<1>11. \A h : Has(Append(Q(k), g), h) <=> Has(Q(k), h) \/ h = g
  BY <1>5, <1>10, PushHas
<1>12. ASSUME NEW l \in AllLoops, NEW kd, NEW x
       PROVE  Queued(l, kd, x)' <=> \/ Queued(l, kd, x) /\ ~(l = Main /\ kd = "remove" /\ x = c)
                                    \/ l = k /\ kd = "destroyed" /\ x = c
  <2>1. Queued(l, kd, x)' <=> Has(Q(l)', Functor(kd, x))
    BY Zenon DEF Queued
  <2>2. Queued(l, kd, x) <=> Has(Q(l), Functor(kd, x))
    BY Zenon DEF Queued
  <2>3. CASE l # Main /\ l # k
    BY <1>9, <2>1, <2>2, <2>3
  <2>4. CASE l = Main
    <3>1. Q(l)' = Tail(Q(Main)) /\ Q(l) = Q(Main)
      BY <1>9, <2>4
    <3>2. Has(Tail(Q(Main)), Functor(kd, x)) <=> Has(Q(Main), Functor(kd, x)) /\ Functor(kd, x) # f
      BY <1>3
    <3>. QED
      BY <1>6, <2>1, <2>2, <2>4, <3>1, <3>2
  <2>5. CASE l = k
    <3>1. Q(l)' = Append(Q(k), g) /\ Q(l) = Q(k)
      BY <1>9, <2>5
    <3>2. Has(Append(Q(k), g), Functor(kd, x)) <=> Has(Q(k), Functor(kd, x)) \/ Functor(kd, x) = g
      BY <1>11
    <3>. QED
      BY <1>6, <2>1, <2>2, <2>5, <3>1, <3>2
  <2>. QED
    BY <2>3, <2>4, <2>5
<1>13. QueuesOK'
  <2>1. Orderly(Q(k)) /\ ~Has(Q(k), g)
    BY DEF QueuesOK, Queued, g
  <2>2. Orderly(Append(Q(k), g))
    BY <1>5, <1>10, <2>1, PushOrderly
  <2>. QED
    BY <1>3, <1>9, <2>2 DEF QueuesOK
<1>14. Queued(Main, "remove", c)
  BY <1>3, <1>4 DEF Queued
<1>. QED
  BY <1>0, <1>1, <1>4, <1>7, <1>8, <1>12, <1>13, <1>14

\* A step that only moves connections from the map to the queues of their loops, or
\* between queues: what every connection needs to be still held and destroyed.
LEMMA QueueStep ==
    ASSUME Inv, conn' = conn, poller' = poller, next_conn_id_' = next_conn_id_, lost' = lost,
           loops_' = loops_, NEW c \in Conns, NEW k \in AllLoops,
           k = conn[c].loop, c \in connections_, connections_' = connections_ \ {c},
           \A l \in AllLoops : loop'[l].pc = loop[l].pc,
           \A l \in AllLoops : \A kd, x : x # c => (Queued(l, kd, x)' <=> Queued(l, kd, x)),
           \A l \in AllLoops : Queued(l, "established", c)' <=> Queued(l, "established", c),
           \A l \in AllLoops : Queued(l, "destroyed", c)' <=> Queued(l, "destroyed", c) \/ l = k,
           \A l \in AllLoops : Queued(l, "remove", c)' =>
               Queued(l, "remove", c) /\ loop[Main].pc = "exited",
           k = Main \/ loop[Main].pc # "exited" => conn[c].state = "kDisconnected",
           Types', PoolOK', PhasesOK', QueuesOK'
    PROVE  Inv'
<1>. USE DEF Inv
<1>1. c < next_conn_id_ /\ Held(c)
  BY HeldAre DEF Held
<1>2. CallbacksOK' /\ PlacesOK'
  BY DEF CallbacksOK, PlacesOK
<1>3. AddressedOK'
  <2>1. ASSUME NEW l \in AllLoops, NEW x \in Conns
        PROVE  /\ Queued(l, "established", x)' => x < next_conn_id_ /\ conn[x].loop = l /\ l # Main
               /\ Queued(l, "destroyed", x)' => x < next_conn_id_ /\ conn[x].loop = l
               /\ Queued(l, "remove", x)' => x < next_conn_id_ /\ conn[x].loop # Main /\ l = Main
    <3>1. CASE x = c
      BY <1>1, <3>1 DEF AddressedOK
    <3>2. CASE x # c
      BY <3>2 DEF AddressedOK
    <3>. QED
      BY <3>1, <3>2
  <2>. QED
    BY <2>1 DEF AddressedOK
<1>4. \A x \in Conns : conn[x].loop \in AllLoops
  BY DEF Types, ConnRecords
<1>5. \A x \in Conns : x # c => (x \in connections_' <=> x \in connections_)
  OBVIOUS
<1>6. FunctorsOK'
  <2>1. ASSUME NEW x \in Conns, NEW l \in AllLoops, l = conn[x].loop
        PROVE  /\ Queued(l, "established", x)' =>
                     conn[x].state = "kConnecting" /\ (x \in connections_' \/ Queued(l, "destroyed", x)')
               /\ Queued(l, "destroyed", x)' => x \notin connections_'
               /\ Queued(Main, "remove", x)' =>
                     conn[x].state = "kDisconnected" /\ (loop'[Main].pc # "exited" => x \in connections_')
               /\ Queued(l, "destroyed", x)' /\ (l = Main \/ loop'[Main].pc # "exited") =>
                     conn[x].state = "kDisconnected"
    <3>1. /\ Queued(l, "established", x) =>
                conn[x].state = "kConnecting" /\ (x \in connections_ \/ Queued(l, "destroyed", x))
          /\ Queued(l, "destroyed", x) => x \notin connections_
          /\ Queued(Main, "remove", x) =>
                conn[x].state = "kDisconnected" /\ (loop[Main].pc # "exited" => x \in connections_)
          /\ Queued(l, "destroyed", x) /\ (l = Main \/ loop[Main].pc # "exited") =>
                conn[x].state = "kDisconnected"
      BY <2>1 DEF FunctorsOK
    <3>2. CASE x = c
      BY <2>1, <3>1, <3>2, LoopsAre
    <3>3. CASE x # c
      BY <1>5, <2>1, <3>1, <3>3, LoopsAre
    <3>. QED
      BY <3>2, <3>3
  <2>. QED
    BY <1>4, <2>1 DEF FunctorsOK
<1>7. UpOK'
  <2>1. ASSUME NEW x \in Conns, conn[x].state = "kConnected", NEW l \in AllLoops, l = conn[x].loop
        PROVE  x \in connections_' \/ Queued(l, "destroyed", x)' \/ x \in lost'
    <3>1. x \in connections_ \/ Queued(l, "destroyed", x) \/ x \in lost
      BY <2>1 DEF UpOK
    <3>. QED
      BY <1>5, <2>1, <3>1
  <2>. QED
    BY <1>4, <2>1 DEF UpOK
<1>8. FdsDiffer'
  <2>1. \A x \in Conns : (Held(x)' => Held(x))
    BY <1>1, <1>5 DEF Held
  <2>. QED
    BY <2>1 DEF FdsDiffer
<1>9. PollersOK'
  <2>1. Fd' = Fd
    BY DEF Fd
  <2>2. ASSUME NEW l \in AllLoops, loop[l].pc # "exited", NEW x \in Conns, poller[l].index[x] # "kNew"
        PROVE  x < next_conn_id_ /\ conn[x].loop = l /\ (x \in connections_' \/ Queued(l, "destroyed", x)')
    <3>1. x < next_conn_id_ /\ conn[x].loop = l /\ (x \in connections_ \/ Queued(l, "destroyed", x))
      BY <2>2 DEF PollersOK
    <3>. QED
      BY <1>5, <3>1
  <2>. QED
    BY <2>1, <2>2 DEF PollersOK
<1>. QED
  BY <1>2, <1>3, <1>6, <1>7, <1>8, <1>9

\* RemoveConnectionInLoop
LEMMA InvRemoveConnectionInLoop == Inv /\ RemoveConnectionInLoop => Inv'
<1>. SUFFICES ASSUME Inv, RemoveConnectionInLoop PROVE Inv'
  OBVIOUS
<1>. USE DEF Inv
<1>0. PICK c : c = Argument(Main)
  OBVIOUS
<1>1. PICK k : k = conn[c].loop
  OBVIOUS
<1>2. /\ Runs(Main, "remove") /\ connections_' = connections_ \ {c}
      /\ loop' = Push(Took(Main), k, Functor("destroyed", c))
      /\ conn' = conn /\ poller' = poller /\ next_conn_id_' = next_conn_id_ /\ lost' = lost /\ loops_' = loops_
      /\ next_' = next_ /\ started_' = started_ /\ phase' = phase /\ num_threads_' = num_threads_
  BY <1>0, <1>1 DEF RemoveConnectionInLoop, AfterErase, pool
<1>3. c \in Conns /\ Queued(Main, "remove", c) /\ loop[Main].pc = "run" /\ Main \in AllLoops
  <2>1. Main \in AllLoops /\ "remove" \in Kinds /\ loop[Main].todo # <<>> /\ loop[Main].pc = "run"
        /\ Head(loop[Main].todo).kind = "remove" /\ loop \in [AllLoops -> LoopRecords]
    BY <1>2, LoopsAre DEF Kinds, Runs, Types
  <2>2. Q(Main) # <<>> /\ Head(Q(Main)) = Head(loop[Main].todo) /\ Q(Main) \in Seq(Functors)
    BY <2>1, QueueTook
  <2>3. Orderly(Q(Main))
    BY <2>1 DEF QueuesOK
  <2>4. /\ Head(Q(Main)) \in Functors /\ Has(Q(Main), Head(Q(Main)))
        /\ Head(Q(Main)) = Functor(Head(Q(Main)).kind, Head(Q(Main)).conn)
    BY <2>2, <2>3, PopHas
  <2>. QED
    BY <1>0, <2>1, <2>2, <2>4 DEF Queued, Argument, Functors
<1>4. /\ k \in AllLoops /\ k # Main /\ conn[c].state = "kDisconnected" /\ c \in connections_
      /\ ~Queued(k, "destroyed", c)
  BY <1>1, <1>3 DEF AddressedOK, FunctorsOK, Types, ConnRecords
<1>5. /\ loop' \in [AllLoops -> LoopRecords]
      /\ \A l \in AllLoops :
            /\ loop'[l].pc = loop[l].pc /\ loop'[l].quit = loop[l].quit
            /\ l # Main => loop'[l].todo = loop[l].todo
            /\ l # k => loop'[l].pending = loop[l].pending
      /\ \A l \in AllLoops : \A kd, x :
            Queued(l, kd, x)' <=> \/ Queued(l, kd, x) /\ ~(l = Main /\ kd = "remove" /\ x = c)
                                  \/ l = k /\ kd = "destroyed" /\ x = c
      /\ QueuesOK'
  BY <1>0, <1>2, <1>4, Moved
<1>6. Types'
  BY <1>2, <1>5 DEF Types
<1>7. PoolOK' /\ PhasesOK'
  <2>1. loop[k].pc # "exited"
    BY <1>4 DEF PhasesOK
  <2>2. \A l \in AllLoops : /\ loop[l].pc # "run" => loop'[l].todo = loop[l].todo
                            /\ l # Main /\ loop[l].pc = "exited" => loop'[l].pending = loop[l].pending
    BY <1>3, <1>5, <2>1
  <2>3. connections_' \subseteq connections_
    BY <1>2
  <2>. QED
    BY <1>2, <1>5, <2>2, <2>3, PhasesStep
<1>8. /\ \A l \in AllLoops : \A kd, x : x # c => (Queued(l, kd, x)' <=> Queued(l, kd, x))
      /\ \A l \in AllLoops : Queued(l, "established", c)' <=> Queued(l, "established", c)
      /\ \A l \in AllLoops : Queued(l, "destroyed", c)' <=> Queued(l, "destroyed", c) \/ l = k
      /\ \A l \in AllLoops : ~Queued(l, "remove", c)'
  BY <1>3, <1>5 DEF AddressedOK
<1>9. \A l \in AllLoops : loop'[l].pc = loop[l].pc
  BY <1>5
<1>. QED
  BY <1>1, <1>2, <1>3, <1>4, <1>5, <1>6, <1>7, <1>8, <1>9, QueueStep

\* One turn of the destructor's loop.
LEMMA InvDestroyConnection ==
    ASSUME NEW c \in Conns
    PROVE  Inv /\ DestroyConnection(c) => Inv'
<1>. SUFFICES ASSUME Inv, DestroyConnection(c) PROVE Inv'
  OBVIOUS
<1>. USE DEF Inv
<1>0. PICK k : k = conn[c].loop
  OBVIOUS
<1>1. /\ c \in connections_ /\ connections_' = connections_ \ {c}
      /\ next_conn_id_' = next_conn_id_ /\ lost' = lost /\ loops_' = loops_ /\ next_' = next_
      /\ started_' = started_ /\ phase' = phase /\ num_threads_' = num_threads_
  BY DEF DestroyConnection, pool
<1>2. Main \in AllLoops /\ loop[Main].pc = "exited" /\ k \in AllLoops
  BY <1>0, LoopsAre DEF DestroyConnection, PhasesOK, Types, ConnRecords
<1>3. ~Queued(k, "destroyed", c)
  BY <1>0, <1>1 DEF FunctorsOK
<1>4. CASE k # Main
  <2>1. loop' = Push(loop, k, Functor("destroyed", c)) /\ conn' = conn /\ poller' = poller
    BY <1>0, <1>4 DEF DestroyConnection
  <2>2. /\ loop' \in [AllLoops -> LoopRecords]
        /\ \A l \in AllLoops :
              /\ loop'[l].pc = loop[l].pc /\ loop'[l].quit = loop[l].quit
              /\ loop'[l].todo = loop[l].todo
              /\ l # k => loop'[l].pending = loop[l].pending
        /\ \A l \in AllLoops : \A kd, x :
              Queued(l, kd, x)' <=> Queued(l, kd, x) \/ (l = k /\ kd = "destroyed" /\ x = c)
        /\ QueuesOK'
    <3>1. "destroyed" \in Kinds
      BY DEF Kinds
    <3>. QED
      BY <1>2, <1>3, <2>1, <3>1, Pushed
  <2>3. Types'
    BY <1>1, <2>1, <2>2 DEF Types
  <2>4. PoolOK' /\ PhasesOK'
    <3>1. loop[k].pc # "exited"
      BY <1>1, <1>2, <1>4 DEF PhasesOK
    <3>2. connections_' \subseteq connections_
      BY <1>1
    <3>. QED
      BY <1>1, <2>2, <3>1, <3>2, PhasesStep
  <2>5. /\ \A l \in AllLoops : \A kd, x : x # c => (Queued(l, kd, x)' <=> Queued(l, kd, x))
        /\ \A l \in AllLoops : Queued(l, "established", c)' <=> Queued(l, "established", c)
        /\ \A l \in AllLoops : Queued(l, "destroyed", c)' <=> Queued(l, "destroyed", c) \/ l = k
        /\ \A l \in AllLoops : Queued(l, "remove", c)' <=> Queued(l, "remove", c)
    BY <2>2
  <2>6. \A l \in AllLoops : loop'[l].pc = loop[l].pc
    BY <2>2
  <2>. QED
    BY <1>0, <1>1, <1>2, <1>4, <2>1, <2>2, <2>3, <2>4, <2>5, <2>6, QueueStep
<1>5. CASE k = Main
  <2>1. loop' = loop /\ conn' = AfterDestroyed(conn, c)
        /\ poller' = [poller EXCEPT ![Main] = PollerAfterDestroyed(@, c)]
    BY <1>0, <1>5 DEF DestroyConnection, ConnectDestroyed
  <2>2. /\ conn' \in [Conns -> ConnRecords]
        /\ \A x \in Conns : x # c => conn'[x] = conn[x]
        /\ conn'[c].loop = conn[c].loop /\ conn'[c].fd = conn[c].fd /\ conn'[c].ups = conn[c].ups
        /\ conn[c].state # "kConnected" => conn'[c] = conn[c]
        /\ conn[c].state = "kConnected" => conn'[c].state = "kDisconnected" /\ conn'[c].downs = 1
    BY <2>1, DestroyedIs
  <2>3. poller' \in [AllLoops -> PollerRecords] /\ \A l \in AllLoops : l # Main => poller'[l] = poller[l]
    <3>1. poller \in [AllLoops -> PollerRecords] /\ poller[Main] \in PollerRecords
          /\ c \in Chans /\ conn[c].fd \in Nat /\ {} \in SUBSET Interests
      BY <1>2, ConnsAre DEF Types, ConnRecords
    <3>2. UpdateChannel(poller[Main], c, conn[c].fd, {}) \in PollerRecords
      BY <3>1, PollerTypes
    <3>3. PollerAfterDestroyed(poller[Main], c) \in PollerRecords
      BY <3>1, <3>2, PollerTypes DEF PollerAfterDestroyed
    <3>. QED
      BY <2>1, <3>1, <3>3
  <2>4. \A l \in AllLoops : Q(l)' = Q(l)
    BY <2>1 DEF Q
  <2>5. \A l \in AllLoops : \A kd, x : Queued(l, kd, x)' <=> Queued(l, kd, x)
    BY <2>4 DEF Queued
  <2>6. \A l \in AllLoops : /\ ~Queued(l, "established", c) /\ ~Queued(l, "destroyed", c)
                            /\ ~Queued(l, "remove", c)
    BY <1>0, <1>2, <1>3, <1>5 DEF AddressedOK
  <2>7. \A x \in Conns : conn[x].loop \in AllLoops /\ conn'[x].loop = conn[x].loop
    BY <2>2 DEF Types, ConnRecords
  <2>8. \A x \in Conns : x # c => (x \in connections_' <=> x \in connections_)
    BY <1>1
  <2>9. Types'
    BY <1>1, <2>1, <2>2, <2>3 DEF Types
  <2>10. PoolOK' /\ PhasesOK'
    <3>1. connections_' \subseteq connections_
      BY <1>1
    <3>. QED
      BY <1>1, <2>1, <3>1, PhasesStep
  <2>11. CallbacksOK' /\ PlacesOK' /\ QueuesOK'
    BY <1>1, <2>2, <2>4 DEF CallbacksOK, PlacesOK, QueuesOK
  <2>12. AddressedOK'
    BY <1>1, <2>5, <2>7 DEF AddressedOK
  <2>13. FunctorsOK'
    BY <1>2, <2>1, <2>2, <2>5, <2>6, <2>7, <2>8 DEF FunctorsOK
  <2>14. UpOK'
    BY <1>1, <2>2, <2>5, <2>7, <2>8 DEF UpOK
  <2>15. FdsDiffer'
    <3>1. \A x \in Conns : (Held(x)' => Held(x)) /\ conn'[x].fd = conn[x].fd
      BY <1>1, <2>2, <2>5 DEF Held
    <3>. QED
      BY <3>1 DEF FdsDiffer
  <2>16. PollersOK'
    <3>1. Fd' = Fd
      <4>1. \A x \in Chans : x # Acceptor => x \in Conns /\ conn'[x].fd = conn[x].fd
        BY <2>2 DEF Chans
      <4>. QED
        BY <4>1 DEF Fd
    <3>2. ASSUME NEW l \in AllLoops, loop'[l].pc # "exited"
          PROVE  /\ poller'[l] = poller[l] /\ loop[l].pc # "exited"
                 /\ poller[l].index[c] = "kNew" /\ conn'[c].loop # l
      <4>1. l # Main /\ loop[l].pc # "exited" /\ conn[c].loop # l /\ conn'[c].loop # l
        BY <1>0, <1>2, <1>5, <2>1, <2>2, <3>2
      <4>2. poller[l].index[c] = "kNew"
        BY <4>1 DEF PollersOK
      <4>. QED
        BY <2>3, <4>1, <4>2
    <3>. QED
      BY <1>1, <2>2, <2>5, <2>8, <3>1, <3>2 DEF PollersOK
  <2>. QED
    BY <2>9, <2>10, <2>11, <2>12, <2>13, <2>14, <2>15, <2>16
<1>. QED
  BY <1>4, <1>5

\* A loop of the pool ends: what it had queued is gone, and the connections among it
\* whose ConnectDestroyed is gone are recorded as lost.
LEMMA InvLoopEnds ==
    ASSUME NEW k \in AllLoops
    PROVE  Inv /\ LoopEnds(k) => Inv'
<1>. SUFFICES ASSUME Inv, LoopEnds(k) PROVE Inv'
  OBVIOUS
<1>. USE DEF Inv
<1>1. /\ loop \in [AllLoops -> LoopRecords] /\ k # Main /\ loop[k].pc = "run" /\ loop[k].todo = <<>>
      /\ loop[k].quit /\ loop[k].pending \in Seq(Functors)
  BY DEF Types, LoopEnds, LoopRecords
<1>2. /\ loop' \in [AllLoops -> LoopRecords]
      /\ \A l \in AllLoops : l # k => loop'[l] = loop[l]
      /\ loop'[k].pc = "exited" /\ loop'[k].todo = <<>> /\ loop'[k].pending = <<>>
      /\ loop'[k].quit = loop[k].quit
  <2>1. [loop[k] EXCEPT !.pc = "exited", !.pending = <<>>] \in LoopRecords
    BY <1>1 DEF LoopRecords, Pcs
  <2>2. loop' = [loop EXCEPT ![k] = [loop[k] EXCEPT !.pc = "exited", !.pending = <<>>]]
    BY DEF LoopEnds
  <2>. QED
    BY <1>1, <2>1, <2>2 DEF LoopRecords
<1>3. /\ connections_' = connections_ /\ next_conn_id_' = next_conn_id_ /\ conn' = conn
      /\ poller' = poller /\ loops_' = loops_ /\ next_' = next_ /\ started_' = started_
      /\ phase' = phase /\ num_threads_' = num_threads_
      /\ lost' = lost \cup {f.conn : f \in {g \in Range(loop[k].pending) : g.kind = "destroyed"}}
  BY DEF LoopEnds, pool
<1>4. Q(k)' = <<>> /\ Q(k) = loop[k].pending /\ \A l \in AllLoops : l # k => Q(l)' = Q(l)
  <2>1. <<>> \o <<>> = <<>> /\ \A s \in Seq(Functors) : <<>> \o s = s
    OBVIOUS
  <2>. QED
    BY <1>1, <1>2, <2>1 DEF Q
<1>5. \A l \in AllLoops : \A kd, x : Queued(l, kd, x)' <=> Queued(l, kd, x) /\ l # k
  BY <1>4 DEF Queued, Has
<1>6. \A x \in Conns : Queued(k, "destroyed", x) => x \in lost'
  <2>. SUFFICES ASSUME NEW x \in Conns, Queued(k, "destroyed", x) PROVE x \in lost'
    OBVIOUS
  <2>1. PICK i \in DOMAIN loop[k].pending : loop[k].pending[i] = Functor("destroyed", x)
    BY <1>4 DEF Queued, Has
  <2>2. Functor("destroyed", x) \in Range(loop[k].pending)
    BY <2>1 DEF Range
  <2>3. Functor("destroyed", x).kind = "destroyed" /\ Functor("destroyed", x).conn = x
    BY DEF Functor
  <2>. QED
    BY <1>3, <2>2, <2>3
<1>7. Types'
  <2>1. lost' \subseteq Conns
    <3>1. Range(loop[k].pending) \subseteq Functors
      BY <1>1 DEF Range
    <3>2. \A f \in Functors : f.conn \in Conns
      BY DEF Functors
    <3>. QED
      BY <1>3, <3>1, <3>2 DEF Types
  <2>. QED
    BY <1>2, <1>3, <2>1 DEF Types
<1>8. PoolOK'
  BY <1>1, <1>2, <1>3 DEF PoolOK
<1>9. PhasesOK'
  <2>1. AllJoined => AllJoined'
    <3>1. 1..Len(loops_) \subseteq AllLoops
      BY LoopsAre DEF PoolOK, AllLoops, Types
    <3>. QED
      BY <1>2, <1>3, <3>1 DEF AllJoined
  <2>. QED
    BY <1>1, <1>2, <1>3, <2>1, LoopsAre DEF PhasesOK
<1>10. CallbacksOK' /\ PlacesOK'
  BY <1>3 DEF CallbacksOK, PlacesOK
<1>11. AddressedOK'
  BY <1>3, <1>5 DEF AddressedOK
<1>12. QueuesOK'
  BY <1>4 DEF QueuesOK, Orderly
<1>13. \A x \in Conns : conn[x].loop \in AllLoops
  BY DEF Types, ConnRecords
<1>14. loop'[Main].pc = loop[Main].pc /\ Main \in AllLoops
  BY <1>1, <1>2, LoopsAre
<1>15. FunctorsOK'
  BY <1>3, <1>5, <1>13, <1>14 DEF FunctorsOK
<1>16. UpOK'
  <2>1. lost \subseteq lost'
    BY <1>3
  <2>. QED
    BY <1>3, <1>5, <1>6, <1>13, <2>1 DEF UpOK
<1>17. FdsDiffer'
  <2>1. \A x \in Conns : Held(x)' => Held(x)
    BY <1>3, <1>5 DEF Held
  <2>. QED
    BY <1>3, <2>1 DEF FdsDiffer
<1>18. PollersOK'
  <2>1. Fd' = Fd
    BY <1>3 DEF Fd
  <2>2. \A l \in AllLoops : loop'[l].pc # "exited" => l # k /\ loop[l].pc # "exited"
    BY <1>2
  <2>. QED
    BY <1>3, <1>5, <2>1, <2>2 DEF PollersOK
<1>. QED
  BY <1>7, <1>8, <1>9, <1>10, <1>11, <1>12, <1>15, <1>16, <1>17, <1>18

\* A connection is accepted.  The descriptor is free, so that no running loop has a
\* channel on it.
LEMMA InvNewConnection ==
    ASSUME NEW fd \in Fds
    PROVE  Inv /\ NewConnection(fd) => Inv'
<1>. SUFFICES ASSUME Inv, NewConnection(fd) PROVE Inv'
  OBVIOUS
<1>. USE DEF Inv
<1>0. PICK c, k : c = next_conn_id_ /\ k = NextLoop
  OBVIOUS
<1>. DEFINE new == [state |-> "kConnecting", loop |-> k, fd |-> fd, events |-> {}, ups |-> 0, downs |-> 0]
            known == [l \in AllLoops |-> CloseFd(poller[l], fd)]
<1>1. /\ loop[Main].pc = "poll" /\ c <= MaxConns /\ fd \in FreeFds
      /\ next_' = AfterNext /\ next_conn_id_' = c + 1 /\ connections_' = connections_ \cup {c}
      /\ phase' = phase /\ num_threads_' = num_threads_ /\ loops_' = loops_ /\ started_' = started_
      /\ lost' = lost
      /\ conn' = [conn EXCEPT ![c] = IF k = Main THEN Established(new) ELSE new]
      /\ k = Main => /\ poller' = [known EXCEPT ![k] = UpdateChannel(@, c, fd, {"IN"})]
                     /\ loop' = loop
      /\ k # Main => poller' = known /\ loop' = Push(loop, k, Functor("established", c))
  BY <1>0 DEF NewConnection
<1>2. c \in Conns /\ c \in Nat /\ next_conn_id_ \in Nat
  BY <1>0, <1>1 DEF Types, Conns
<1>3. k \in AllLoops /\ k \in {Main} \cup 1..Len(loops_)
  <2>1. CASE loops_ = <<>>
    BY <1>0, <2>1, LoopsAre DEF NextLoop
  <2>2. CASE loops_ # <<>>
    <3>1. Len(loops_) \in Nat /\ Len(loops_) # 0
      BY <2>2 DEF Types
    <3>2. next_ + 1 \in 1..Len(loops_)
      BY <3>1 DEF PoolOK, Types
    <3>3. k = next_ + 1
      BY <1>0, <2>2, <3>2 DEF NextLoop, PoolOK
    <3>. QED
      BY <3>1, <3>2, <3>3, LoopsAre DEF PoolOK, AllLoops
  <2>. QED
    BY <2>1, <2>2
<1>4. /\ next_' \in Nat
      /\ next_' = 0 \/ next_' < Len(loops_)
  BY <1>1 DEF AfterNext, Types, PoolOK
<1>5. \A l \in AllLoops : /\ ~Queued(l, "established", c) /\ ~Queued(l, "destroyed", c)
                          /\ ~Queued(l, "remove", c)
  BY <1>0, <1>2 DEF AddressedOK
<1>6. c \notin connections_
  BY <1>0, <1>2 DEF Types
<1>7. \A x \in Conns : Held(x) => conn[x].fd # fd
  BY <1>1, HeldAre
<1>8. new \in ConnRecords
  BY <1>3 DEF ConnRecords, States
<1>9. /\ conn' \in [Conns -> ConnRecords]
      /\ \A x \in Conns : x # c => conn'[x] = conn[x]
      /\ conn'[c].loop = k /\ conn'[c].fd = fd /\ conn'[c].downs = 0
      /\ k = Main => conn'[c].state = "kConnected" /\ conn'[c].ups = 1
      /\ k # Main => conn'[c].state = "kConnecting" /\ conn'[c].ups = 0
  <2>. DEFINE e == Established(new)
  <2>1. /\ e \in ConnRecords /\ e.state = "kConnected" /\ e.loop = new.loop /\ e.fd = new.fd
        /\ e.ups = new.ups + 1 /\ e.downs = new.downs
    BY <1>8, EstablishedIs
  <2>2. new.state = "kConnecting" /\ new.loop = k /\ new.fd = fd /\ new.ups = 0 /\ new.downs = 0
    OBVIOUS
  <2>3. conn \in [Conns -> ConnRecords]
    BY DEF Types
  <2>4. conn' = [conn EXCEPT ![c] = IF k = Main THEN e ELSE new]
    BY <1>1
  <2>. HIDE DEF e, new
  <2>. QED
    BY <1>2, <1>8, <2>1, <2>2, <2>3, <2>4
<1>. HIDE DEF new
<1>10. /\ loop' \in [AllLoops -> LoopRecords]
       /\ \A l \in AllLoops :
            /\ loop'[l].pc = loop[l].pc /\ loop'[l].quit = loop[l].quit
            /\ loop'[l].todo = loop[l].todo
            /\ l # k => loop'[l].pending = loop[l].pending
       /\ \A l \in AllLoops : \A kd, x :
            Queued(l, kd, x)' <=> \/ Queued(l, kd, x)
                                  \/ k # Main /\ l = k /\ kd = "established" /\ x = c
       /\ QueuesOK'
  <2>1. CASE k = Main
    <3>1. loop' = loop
      BY <1>1, <2>1
    <3>2. \A l \in AllLoops : Q(l)' = Q(l)
      BY <3>1 DEF Q
    <3>. QED
      BY <2>1, <3>1, <3>2 DEF Queued, QueuesOK, Types
  <2>2. CASE k # Main
    <3>1. "established" \in Kinds
      BY DEF Kinds
    <3>. QED
      BY <1>1, <1>2, <1>3, <1>5, <2>2, <3>1, Pushed
  <2>. QED
    BY <2>1, <2>2
<1>11. known \in [AllLoops -> PollerRecords]
       /\ \A l \in AllLoops : loop[l].pc # "exited" => known[l] = poller[l]
  <2>1. \A l \in AllLoops : CloseFd(poller[l], fd) \in PollerRecords
    <3>1. fd \in Nat /\ Acceptor \in Chans /\ {} \in SUBSET Interests
      BY ConnsAre
    <3>. QED
      BY <3>1, PollerTypes DEF Types
  <2>2. ASSUME NEW l \in AllLoops, loop[l].pc # "exited"
        PROVE  CloseFd(poller[l], fd) = poller[l]
    <3>1. poller[l] \in PollerRecords /\ Consistent(poller[l], Fd)
      BY <2>2 DEF PollersOK, Types
    <3>2. \A w \in poller[l].epoll : w.fd # fd
      <4>. SUFFICES ASSUME NEW w \in poller[l].epoll PROVE w.fd # fd
        OBVIOUS
      <4>1. w.ptr \in Chans /\ poller[l].index[w.ptr] = "kAdded" /\ w.fd = Fd[w.ptr]
        BY <3>1 DEF Consistent, PollerRecords
      <4>2. CASE w.ptr = Acceptor
        BY <4>1, <4>2, ConnsAre DEF Fd
      <4>3. CASE w.ptr # Acceptor
        <5>1. w.ptr \in Conns /\ Fd[w.ptr] = conn[w.ptr].fd
          BY <4>1, <4>3 DEF Chans, Fd
        <5>2. Held(w.ptr)
          BY <2>2, <4>1, <5>1 DEF PollersOK, Held, Kinds
        <5>. QED
          BY <1>7, <4>1, <5>1, <5>2
      <4>. QED
        BY <4>2, <4>3
    <3>3. {w \in poller[l].epoll : w.fd # fd} = poller[l].epoll
      BY <3>2
    <3>. QED
      BY <3>1, <3>3 DEF CloseFd, PollerRecords
  <2>. QED
    BY <2>1, <2>2
<1>. HIDE DEF known
<1>12. Main \in AllLoops /\ phase = "looping" /\ started_ # 0
  BY <1>1, LoopsAre DEF PhasesOK, PoolOK, Types
<1>. DEFINE q == UpdateChannel(known[k], c, fd, {"IN"})
<1>13. Fd' = [Fd EXCEPT ![c] = fd] /\ Fd'[c] = fd /\ Fd' \in [Chans -> Nat] /\ c \in Chans
  <2>1. c \in Chans /\ c # Acceptor /\ \A x \in Chans : x # Acceptor => x \in Conns
    BY <1>2, ConnsAre DEF Chans
  <2>2. \A x \in Chans : Fd'[x] = IF x = c THEN fd ELSE Fd[x]
    BY <1>9, <2>1 DEF Fd
  <2>3. \A x \in Chans : Fd[x] \in Nat
    BY ConnsAre DEF Fd, Chans, Types, ConnRecords
  <2>4. Fd = [x \in Chans |-> Fd[x]] /\ Fd' = [x \in Chans |-> Fd'[x]]
    BY DEF Fd
  <2>5. fd \in Nat
    BY ConnsAre
  <2>. QED
    BY <2>1, <2>2, <2>3, <2>4, <2>5
<1>14. \A l \in AllLoops : loop[l].pc # "exited" =>
          /\ Consistent(poller[l], Fd') /\ poller[l].index[c] = "kNew"
          /\ \A y \in Chans : poller[l].index[y] # "kNew" => Fd'[y] # fd
  <2>. SUFFICES ASSUME NEW l \in AllLoops, loop[l].pc # "exited"
                PROVE  /\ Consistent(poller[l], Fd') /\ poller[l].index[c] = "kNew"
                       /\ \A y \in Chans : poller[l].index[y] # "kNew" => Fd'[y] # fd
    OBVIOUS
  <2>1. Consistent(poller[l], Fd) /\ poller[l] \in PollerRecords
    BY DEF PollersOK, Types
  <2>2. poller[l].index[c] = "kNew"
    BY <1>0, <1>2 DEF PollersOK
  <2>3. \A y \in Chans : poller[l].index[y] # "kNew" => Fd'[y] = Fd[y]
    BY <1>13, <2>2 DEF Fd
  <2>4. Consistent(poller[l], Fd')
    <3>1. \A m \in poller[l].channels : m.ptr \in Chans
      BY <2>1 DEF PollerRecords
    <3>2. \A w \in poller[l].epoll : w.ptr \in Chans
      BY <2>1 DEF PollerRecords
    <3>. QED
      BY <2>1, <2>3, <3>1, <3>2 DEF Consistent
  <2>5. ASSUME NEW y \in Chans, poller[l].index[y] # "kNew" PROVE Fd'[y] # fd
    <3>1. CASE y = Acceptor
      BY <2>3, <2>5, <3>1, ConnsAre DEF Fd
    <3>2. CASE y # Acceptor
      <4>1. y \in Conns /\ Fd'[y] = conn[y].fd
        BY <2>3, <2>5, <3>2 DEF Chans, Fd
      <4>2. Held(y)
        BY <2>5, <4>1 DEF PollersOK, Held, Kinds
      <4>. QED
        BY <1>7, <4>1, <4>2
    <3>. QED
      BY <3>1, <3>2
  <2>. QED
    BY <2>2, <2>4, <2>5
<1>15. k = Main => Consistent(q, Fd') /\ q.index = [poller[k].index EXCEPT ![c] = "kAdded"]
  <2>. SUFFICES ASSUME k = Main
                PROVE  Consistent(q, Fd') /\ q.index = [poller[k].index EXCEPT ![c] = "kAdded"]
    OBVIOUS
  <2>1. PICK F : F = Fd'
    OBVIOUS
  <2>. DEFINE p  == poller[k]
              ev == {"IN"}
              r  == UpdateChannel(p, c, F[c], ev)
  <2>2. /\ Consistent(p, F) /\ ev \in SUBSET Interests /\ ev # {} /\ F \in [Chans -> Nat] /\ c \in Chans
        /\ F[c] = fd
        /\ \A y \in Chans : p.index[y] # "kNew" /\ F[y] = F[c] => y = c
    BY <1>1, <1>3, <1>13, <1>14, <2>1 DEF Interests
  <2>3. q = r
    BY <1>1, <1>3, <1>11, <2>2
  <2>. HIDE DEF p, ev, q
  <2>4. Consistent(r, F) /\ r.index = [p.index EXCEPT ![c] =
          IF p.index[c] = "kAdded" /\ ev = {} THEN "kDeleted" ELSE "kAdded"]
    BY <2>2, UpdateConsistent
  <2>. QED
    BY <2>1, <2>2, <2>3, <2>4 DEF p
<1>. HIDE DEF q
<1>16. /\ poller' \in [AllLoops -> PollerRecords]
       /\ \A l \in AllLoops : loop[l].pc # "exited" /\ ~(k = Main /\ l = k) => poller'[l] = poller[l]
       /\ k = Main => poller'[k] = q
  <2>1. CASE k = Main
    <3>1. poller' = [known EXCEPT ![k] = q] /\ q \in PollerRecords
      BY <1>1, <1>15, <2>1 DEF q, Consistent
    <3>. QED
      BY <1>3, <1>11, <2>1, <3>1
  <2>2. CASE k # Main
    BY <1>1, <1>11, <2>2
  <2>. QED
    BY <2>1, <2>2
<1>17. Types'
  <2>1. next_conn_id_' \in 1..(MaxConns + 1) /\ connections_' \subseteq 1..(next_conn_id_' - 1)
    <3>1. c \in 1..MaxConns /\ connections_ \subseteq 1..(c - 1)
      BY <1>0, <1>2 DEF Types, Conns
    <3>. QED
      BY <1>1, <1>2, <3>1, ServerAssumption
  <2>. QED
    BY <1>1, <1>4, <1>9, <1>10, <1>16, <2>1 DEF Types
<1>18. PoolOK'
  BY <1>1, <1>4, <1>12 DEF PoolOK
<1>19. PhasesOK'
  BY <1>1, <1>10, <1>12 DEF PhasesOK
<1>20. CallbacksOK' /\ PlacesOK'
  <2>1. CallbacksOK'
    BY <1>9 DEF CallbacksOK
  <2>2. \A x \in Conns : x < c + 1 <=> x < c \/ x = c
    BY <1>2 DEF Conns
  <2>3. PlacesOK'
    BY <1>0, <1>1, <1>3, <1>9, <2>2 DEF PlacesOK
  <2>. QED
    BY <2>1, <2>3
<1>21. \A x \in Conns : x < c + 1 <=> x < c \/ x = c
  BY <1>2 DEF Conns
<1>22. AddressedOK'
  <2>1. ASSUME NEW l \in AllLoops, NEW x \in Conns
        PROVE  /\ Queued(l, "established", x)' => x < c + 1 /\ conn'[x].loop = l /\ l # Main
               /\ Queued(l, "destroyed", x)' => x < c + 1 /\ conn'[x].loop = l
               /\ Queued(l, "remove", x)' => x < c + 1 /\ conn'[x].loop # Main /\ l = Main
    <3>1. CASE x = c
      BY <1>5, <1>9, <1>10, <1>21, <3>1
    <3>2. CASE x # c
      BY <1>0, <1>9, <1>10, <1>21, <3>2 DEF AddressedOK
    <3>. QED
      BY <3>1, <3>2
  <2>. QED
    BY <1>1, <2>1 DEF AddressedOK
<1>23. \A x \in Conns : conn[x].loop \in AllLoops /\ (x # c => conn'[x].loop = conn[x].loop)
  BY <1>9 DEF Types, ConnRecords
<1>24. FunctorsOK'
  <2>1. ASSUME NEW x \in Conns, NEW l \in AllLoops, l = conn'[x].loop
        PROVE  /\ Queued(l, "established", x)' =>
                     conn'[x].state = "kConnecting" /\ (x \in connections_' \/ Queued(l, "destroyed", x)')
               /\ Queued(l, "destroyed", x)' => x \notin connections_'
               /\ Queued(Main, "remove", x)' =>
                     conn'[x].state = "kDisconnected" /\ (loop'[Main].pc # "exited" => x \in connections_')
               /\ Queued(l, "destroyed", x)' /\ (l = Main \/ loop'[Main].pc # "exited") =>
                     conn'[x].state = "kDisconnected"
    <3>1. CASE x = c
      BY <1>1, <1>5, <1>9, <1>10, <1>12, <2>1, <3>1
    <3>2. CASE x # c
      <4>1. conn'[x] = conn[x] /\ (x \in connections_' <=> x \in connections_)
            /\ \A j \in AllLoops : \A kd : Queued(j, kd, x)' <=> Queued(j, kd, x)
        BY <1>1, <1>9, <1>10, <3>2
      <4>. QED
        BY <1>10, <1>12, <2>1, <4>1 DEF FunctorsOK
    <3>. QED
      BY <3>1, <3>2
  <2>2. \A x \in Conns : conn'[x].loop \in AllLoops
    BY <1>3, <1>9, <1>23
  <2>. QED
    BY <2>1, <2>2 DEF FunctorsOK
<1>25. UpOK'
  <2>1. ASSUME NEW x \in Conns, NEW l \in AllLoops, l = conn'[x].loop, conn'[x].state = "kConnected"
        PROVE  x \in connections_' \/ Queued(l, "destroyed", x)' \/ x \in lost'
    <3>1. CASE x = c
      BY <1>1, <3>1
    <3>2. CASE x # c
      BY <1>1, <1>9, <1>10, <2>1, <3>2 DEF UpOK
    <3>. QED
      BY <3>1, <3>2
  <2>2. \A x \in Conns : conn'[x].loop \in AllLoops
    BY <1>3, <1>9, <1>23
  <2>. QED
    BY <2>1, <2>2 DEF UpOK
<1>26. FdsDiffer'
  <2>1. \A x \in Conns : Held(x)' => Held(x) \/ x = c
    BY <1>1, <1>10 DEF Held
  <2>2. ASSUME NEW x \in Conns, NEW y \in Conns, Held(x)', Held(y)', conn'[x].fd = conn'[y].fd
        PROVE  x = y
    BY <1>7, <1>9, <2>1, <2>2 DEF FdsDiffer
  <2>. QED
    BY <2>2 DEF FdsDiffer
<1>27. PollersOK'
  <2>. SUFFICES ASSUME NEW l \in AllLoops, loop'[l].pc # "exited"
                PROVE  /\ Consistent(poller'[l], Fd')
                       /\ \A x \in Conns :
                             /\ poller'[l].index[x] # "kNew" =>
                                   x < next_conn_id_' /\ conn'[x].loop = l
                                   /\ (x \in connections_' \/ Queued(l, "destroyed", x)')
                             /\ poller'[l].index[x] = "kAdded" =>
                                   conn'[x].state \in {"kConnected", "kDisconnecting"}
                             /\ poller'[l].index[x] = "kDeleted" => conn'[x].state = "kDisconnected"
                             /\ conn'[x].loop = l /\ conn'[x].state = "kConnected" =>
                                   poller'[l].index[x] = "kAdded"
    BY DEF PollersOK
  <2>1. loop[l].pc # "exited"
    BY <1>10
  <2>2. Consistent(poller'[l], Fd')
    BY <1>14, <1>15, <1>16, <2>1
  <2>3. ASSUME NEW x \in Conns, x # c
        PROVE  poller'[l].index[x] = poller[l].index[x]
    <3>1. CASE k = Main /\ l = k
      BY <1>3, <1>13, <1>15, <1>16, <2>3, <3>1, PollersAre, ConnsAre
    <3>2. CASE ~(k = Main /\ l = k)
      BY <1>16, <2>1, <3>2
    <3>. QED
      BY <3>1, <3>2
  <2>4. poller'[l].index[c] = IF k = Main /\ l = k THEN "kAdded" ELSE "kNew"
    <3>1. CASE k = Main /\ l = k
      BY <1>3, <1>13, <1>15, <1>16, <3>1, PollersAre, ConnsAre
    <3>2. CASE ~(k = Main /\ l = k)
      BY <1>14, <1>16, <2>1, <3>2
    <3>. QED
      BY <3>1, <3>2
  <2>5. ASSUME NEW x \in Conns
        PROVE  /\ poller'[l].index[x] # "kNew" =>
                     x < next_conn_id_' /\ conn'[x].loop = l
                     /\ (x \in connections_' \/ Queued(l, "destroyed", x)')
               /\ poller'[l].index[x] = "kAdded" =>
                     conn'[x].state \in {"kConnected", "kDisconnecting"}
               /\ poller'[l].index[x] = "kDeleted" => conn'[x].state = "kDisconnected"
               /\ conn'[x].loop = l /\ conn'[x].state = "kConnected" =>
                     poller'[l].index[x] = "kAdded"
    <3>1. CASE x = c
      BY <1>1, <1>9, <1>21, <2>4, <3>1
    <3>2. CASE x # c
      <4>1. conn'[x] = conn[x] /\ (x \in connections_' <=> x \in connections_)
            /\ (Queued(l, "destroyed", x)' <=> Queued(l, "destroyed", x))
            /\ (x < next_conn_id_ => x < next_conn_id_')
        BY <1>0, <1>1, <1>9, <1>10, <1>21, <3>2
      <4>. QED
        BY <2>1, <2>3, <3>2, <4>1 DEF PollersOK
    <3>. QED
      BY <3>1, <3>2
  <2>. QED
    BY <2>2, <2>5
<1>. QED
  BY <1>10, <1>17, <1>18, <1>19, <1>20, <1>22, <1>24, <1>25, <1>26, <1>27

-----------------------------------------------------------------------------
(* The theorems.                                                           *)

\* Every step preserves the invariant.
LEMMA InvNext == Inv /\ [Next]_vars => Inv'
<1>. SUFFICES ASSUME Inv, [Next]_vars PROVE Inv'
  OBVIOUS
<1>1. CASE UNCHANGED vars
  BY <1>1, InvPeerCloses DEF vars, pool
<1>2. CASE Start \/ EnterLoop \/ QuitMain \/ MainLoopEnds \/ RemoveConnectionInLoop
  BY <1>2, InvStart, InvEnterLoop, InvQuitMain, InvMainLoopEnds, InvRemoveConnectionInLoop
<1>3. CASE Destructor
  BY <1>3, InvDestroyConnection, InvQuitLoop, InvDestroyAcceptor DEF Destructor
<1>4. CASE \E fd \in Fds : NewConnection(fd)
  BY <1>4, InvNewConnection
<1>5. ASSUME NEW c \in Conns, PeerCloses(c) \/ Shutdown(c) \/ HandleClose(c)
      PROVE  Inv'
  <2>1. CASE PeerCloses(c)
    BY <2>1, InvPeerCloses DEF PeerCloses
  <2>. QED
    BY <1>5, <2>1, InvShutdown, InvHandleClose
<1>6. ASSUME NEW l \in AllLoops, LoopStep(l)
      PROVE  Inv'
  BY <1>6, InvSwapFunctors, InvRunEstablished, InvRunDestroyed, InvFunctorsDone, InvLoopEnds DEF LoopStep
<1>7. CASE Terminated
  BY <1>1, <1>7 DEF Terminated
<1>. QED
  BY <1>1, <1>2, <1>3, <1>4, <1>5, <1>6, <1>7 DEF Next

\* The invariant holds in every reachable state.
THEOREM ServerInvariant == Spec => []Inv
BY InvInit, InvNext, PTL DEF Spec

\* The types of the server's variables.
THEOREM TypeCorrect == Spec => []TypeOK
<1>1. ASSUME Inv PROVE TypeOK
  <2>. USE <1>1 DEF Inv
  <2>1. loops_ \in Seq(1..Most)
    <3>1. \A i \in 1..Len(loops_) : loops_[i] \in 1..Most
      BY LoopsAre DEF PoolOK, Types
    <3>2. ASSUME NEW S, NEW T, NEW s \in Seq(T), \A i \in 1..Len(s) : s[i] \in S
          PROVE  s \in Seq(S)
      BY <3>2
    <3>. QED
      BY <3>1, <3>2 DEF Types
  <2>2. next_ \in 0..Most /\ (next_ = 0 \/ next_ < Len(loops_))
    BY LoopsAre DEF PoolOK, Types
  <2>3. \A c \in Conns : conn[c].loop \in AllLoops /\ conn[c].ups \in Nat /\ conn[c].downs \in Nat
    BY DEF Types, ConnRecords
  <2>4. \A l \in AllLoops : loop[l].pc \in {"new", "poll", "run", "exited"}
    BY DEF Types, LoopRecords, Pcs
  <2>. QED
    BY <2>1, <2>2, <2>3, <2>4 DEF TypeOK, Types
<1>. QED
  BY <1>1, ServerInvariant, PTL

\* No poller of a running loop knows a channel whose connection is gone, and no epoll_ctl
\* fails: EpollPoller's map and the kernel's agree although descriptors are used again.
THEOREM NoDanglingChannelAlways == Spec => []NoDanglingChannel
<1>1. ASSUME Inv PROVE NoDanglingChannel
  <2>. USE <1>1 DEF Inv
  <2>. SUFFICES ASSUME NEW l \in AllLoops, loop[l].pc # "exited"
                PROVE  /\ ~poller[l].fatal
                       /\ \A m \in poller[l].channels : m.ptr # Acceptor =>
                             m.ptr \in Alive /\ conn[m.ptr].fd = m.fd /\ conn[m.ptr].loop = l
    BY DEF NoDanglingChannel
  <2>1. Consistent(poller[l], Fd)
    BY DEF PollersOK
  <2>. SUFFICES ASSUME NEW m \in poller[l].channels, m.ptr # Acceptor
                PROVE  m.ptr \in Alive /\ conn[m.ptr].fd = m.fd /\ conn[m.ptr].loop = l
    BY <2>1 DEF Consistent
  <2>2. m.ptr \in Chans /\ poller[l].index[m.ptr] # "kNew" /\ m.fd = Fd[m.ptr]
    BY <2>1 DEF Consistent, PollerRecords
  <2>3. m.ptr \in Conns /\ Fd[m.ptr] = conn[m.ptr].fd
    BY <2>2 DEF Chans, Fd
  <2>4. Held(m.ptr) /\ conn[m.ptr].loop = l
    BY <2>2, <2>3 DEF PollersOK, Held, Kinds
  <2>5. m.ptr \in Alive
    BY <2>3, <2>4, HeldAre
  <2>. QED
    BY <2>2, <2>3, <2>4, <2>5
<1>. QED
  BY <1>1, ServerInvariant, PTL

\* The connection callback comes up to once, then down up to once; after ~TcpServer a
\* connection that was up has been told so, unless the user was shutting it down or
\* its loop left before ConnectDestroyed ran, and its loop has ended.
THEOREM UpThenDownOnceAlways == Spec => []UpThenDownOnce
<1>1. ASSUME Inv PROVE UpThenDownOnce
  <2>. USE <1>1 DEF Inv
  <2>. SUFFICES ASSUME NEW c \in Conns
                PROVE  /\ conn[c].downs <= conn[c].ups /\ conn[c].ups <= 1
                       /\ phase = "destroyed" /\ conn[c].state # "none" => loop[conn[c].loop].pc = "exited"
                       /\ phase = "destroyed" /\ conn[c].ups = 1 /\ conn[c].downs = 0 =>
                              conn[c].state = "kDisconnecting" \/ c \in lost
    BY DEF UpThenDownOnce
  <2>1. conn[c].state \in States /\ conn[c].loop \in AllLoops
    BY DEF Types, ConnRecords
  <2>2. conn[c].downs <= conn[c].ups /\ conn[c].ups <= 1
    BY <2>1 DEF CallbacksOK, States
  <2>3. ASSUME phase = "destroyed", conn[c].state # "none"
        PROVE  loop[conn[c].loop].pc = "exited"
    <3>1. c < next_conn_id_
      BY <2>3 DEF PlacesOK
    <3>2. loop[Main].pc = "exited" /\ AllJoined
      BY <2>3 DEF PhasesOK
    <3>. QED
      BY <3>1, <3>2 DEF PlacesOK, AllJoined
  <2>4. ASSUME phase = "destroyed", conn[c].ups = 1, conn[c].downs = 0, conn[c].state # "kDisconnecting"
        PROVE  c \in lost
    <3>1. conn[c].state = "kConnected"
      BY <2>1, <2>4 DEF CallbacksOK, States
    <3>2. connections_ = {} /\ AllJoined
      BY <2>4 DEF PhasesOK
    <3>3. ~Queued(conn[c].loop, "destroyed", c)
      <4>1. CASE conn[c].loop = Main
        BY <3>1, <4>1 DEF FunctorsOK
      <4>2. CASE conn[c].loop # Main
        <5>1. loop[conn[c].loop].pc = "exited"
          BY <2>3, <2>4, <3>1
        <5>2. loop[conn[c].loop].pending = <<>> /\ loop[conn[c].loop].todo = <<>>
          BY <2>1, <4>2, <5>1 DEF PhasesOK
        <5>3. Q(conn[c].loop) = <<>>
          <6>1. <<>> \o <<>> = <<>>
            OBVIOUS
          <6>. QED
            BY <5>2, <6>1 DEF Q
        <5>. QED
          BY <5>3 DEF Queued, Has
      <4>. QED
        BY <4>1, <4>2
    <3>. QED
      BY <3>1, <3>2, <3>3 DEF UpOK
  <2>. QED
    BY <2>2, <2>3, <2>4
<1>. QED
  BY <1>1, ServerInvariant, PTL

-----------------------------------------------------------------------------
(* GetNextLoop deals the connections out evenly.                           *)

\* The loops up to next_ have one connection more than the others.
Dealing ==
    loops_ # <<>> =>
        /\ Dealt(Main) = {}
        /\ \A l \in 1..Len(loops_) : IsFiniteSet(Dealt(l))
        /\ \E n \in Nat : \A l \in 1..Len(loops_) :
              Cardinality(Dealt(l)) = IF l <= next_ THEN n + 1 ELSE n

\* A step that neither accepts nor starts leaves the connections where they are.
LEMMA DealtStays ==
    ASSUME Inv, [Next]_vars, ~Start, ~\E fd \in Fds : NewConnection(fd)
    PROVE  /\ loops_' = loops_ /\ next_' = next_ /\ next_conn_id_' = next_conn_id_
           /\ \A x \in Conns : conn'[x].loop = conn[x].loop
<1>. USE DEF pool
<1>0. conn \in [Conns -> ConnRecords] /\ \A x \in Conns : conn[x] \in ConnRecords
  BY DEF Inv, Types
<1>1. CASE UNCHANGED vars
  BY <1>1 DEF vars
<1>2. CASE EnterLoop \/ QuitMain \/ MainLoopEnds \/ RemoveConnectionInLoop
  BY <1>2 DEF EnterLoop, QuitMain, MainLoopEnds, RemoveConnectionInLoop
<1>3. CASE Destructor
  <2>1. CASE DestroyAcceptor \/ \E l \in AllLoops : QuitLoop(l)
    BY <2>1 DEF DestroyAcceptor, QuitLoop
  <2>2. ASSUME NEW c \in Conns, DestroyConnection(c)
        PROVE  /\ loops_' = loops_ /\ next_' = next_ /\ next_conn_id_' = next_conn_id_
               /\ \A x \in Conns : conn'[x].loop = conn[x].loop
    <3>1. conn' = conn \/ conn' = AfterDestroyed(conn, c)
      BY <2>2 DEF DestroyConnection, ConnectDestroyed
    <3>2. \A x \in Conns : conn'[x].loop = conn[x].loop
      BY <3>1, DestroyedIs
    <3>. QED
      BY <2>2, <3>2 DEF DestroyConnection
  <2>. QED
    BY <1>3, <2>1, <2>2 DEF Destructor
<1>4. ASSUME NEW c \in Conns, PeerCloses(c) \/ Shutdown(c) \/ HandleClose(c)
      PROVE  /\ loops_' = loops_ /\ next_' = next_ /\ next_conn_id_' = next_conn_id_
             /\ \A x \in Conns : conn'[x].loop = conn[x].loop
  <2>1. CASE PeerCloses(c)
    BY <2>1 DEF PeerCloses
  <2>2. CASE Shutdown(c)
    BY <1>0, <2>2 DEF Shutdown, ConnRecords
  <2>3. CASE HandleClose(c)
    BY <1>0, <2>3 DEF HandleClose, ConnRecords
  <2>. QED
    BY <1>4, <2>1, <2>2, <2>3
<1>5. ASSUME NEW l \in AllLoops, LoopStep(l)
      PROVE  /\ loops_' = loops_ /\ next_' = next_ /\ next_conn_id_' = next_conn_id_
             /\ \A x \in Conns : conn'[x].loop = conn[x].loop
  <2>1. CASE SwapFunctors(l) \/ FunctorsDone(l) \/ LoopEnds(l)
    BY <2>1 DEF SwapFunctors, FunctorsDone, LoopEnds
  <2>2. CASE RunEstablished(l)
    BY <1>0, <2>2, EstablishedIs DEF RunEstablished
  <2>3. CASE RunDestroyed(l)
    <3>1. Argument(l) \in Conns
      <4>1. "destroyed" \in Kinds
        BY DEF Kinds
      <4>. QED
        BY <2>3, <4>1, Taken DEF RunDestroyed, Inv
    <3>2. conn' = AfterDestroyed(conn, Argument(l))
      BY <2>3 DEF RunDestroyed, ConnectDestroyed
    <3>3. \A x \in Conns : conn'[x].loop = conn[x].loop
      BY <3>1, <3>2, DestroyedIs
    <3>. QED
      BY <2>3, <3>3 DEF RunDestroyed
  <2>. QED
    BY <1>5, <2>1, <2>2, <2>3 DEF LoopStep
<1>6. CASE Terminated
  BY <1>1, <1>6 DEF Terminated
<1>. QED
  BY <1>1, <1>2, <1>3, <1>4, <1>5, <1>6 DEF Next

\* GetNextLoop turns.
LEMMA DealingNext == Inv /\ Dealing /\ [Next]_vars => Dealing'
<1>. SUFFICES ASSUME Inv, Dealing, [Next]_vars PROVE Dealing'
  OBVIOUS
<1>0. /\ next_conn_id_ \in 1..(MaxConns + 1) /\ MaxConns \in Nat /\ loops_ \in Seq(AllLoops)
      /\ Len(loops_) \in Nat /\ next_ \in Nat
  BY ServerAssumption DEF Inv, Types
<1>1. CASE Start
  <2>1. next_conn_id_' = 1 /\ next_' = 0
    BY <1>1 DEF Start, Inv, PhasesOK
  <2>2. \A l : Dealt(l)' = {}
    <3>1. 1..(1 - 1) = {}
      OBVIOUS
    <3>. QED
      BY <2>1, <3>1 DEF Dealt
  <2>3. IsFiniteSet({}) /\ Cardinality({}) = 0
    BY FS_EmptySet
  <2>4. \A l \in 1..Len(loops_') : IsFiniteSet(Dealt(l)') /\ Cardinality(Dealt(l)') = IF l <= next_' THEN 1 ELSE 0
    <3>. TAKE l \in 1..Len(loops_')
    <3>1. Len(loops_') \in Nat
      BY InvNext DEF Inv, Types
    <3>2. ~(l <= next_')
      BY <2>1, <3>1
    <3>3. Dealt(l)' = {}
      BY <2>2
    <3>. QED
      BY <2>3, <3>2, <3>3
  <2>5. Dealt(Main)' = {}
    BY <2>2
  <2>6. \E n \in Nat : \A l \in 1..Len(loops_') : Cardinality(Dealt(l)') = IF l <= next_' THEN n + 1 ELSE n
    <3>. WITNESS 0 \in Nat
    <3>. QED
      BY <2>4
  <2>. QED
    BY <2>4, <2>5, <2>6 DEF Dealing
<1>2. ASSUME NEW fd \in Fds, NewConnection(fd)
      PROVE  Dealing'
  <2>. SUFFICES ASSUME loops_' # <<>>
                PROVE  /\ Dealt(Main)' = {}
                       /\ \A l \in 1..Len(loops_') : IsFiniteSet(Dealt(l)')
                       /\ \E n \in Nat : \A l \in 1..Len(loops_') :
                             Cardinality(Dealt(l)') = IF l <= next_' THEN n + 1 ELSE n
    BY DEF Dealing
  <2>1. PICK c, k : c = next_conn_id_ /\ k = NextLoop
    OBVIOUS
  <2>2. loops_' = loops_ /\ loops_ # <<>> /\ next_' = AfterNext /\ next_conn_id_' = c + 1 /\ c \in Conns
    BY <1>0, <1>2, <2>1 DEF NewConnection, Conns
  <2>3. k = next_ + 1 /\ k \in 1..Len(loops_) /\ k # Main
    <3>1. Len(loops_) # 0
      BY <1>0, <2>2
    <3>2. next_ + 1 \in 1..Len(loops_)
      BY <1>0, <3>1 DEF Inv, PoolOK
    <3>. QED
      BY <2>1, <2>2, <3>2 DEF NextLoop, Inv, PoolOK, Main
  <2>4. conn \in [Conns -> ConnRecords] /\ \A x \in Conns : x # c => conn'[x] = conn[x]
    BY <1>2, <2>1 DEF NewConnection, Inv, Types
  <2>5. conn'[c].loop = k
    BY <1>2, <2>1, <2>2, <2>3, <2>4 DEF NewConnection
  <2>6. \A l : Dealt(l)' = IF l = k THEN Dealt(l) \cup {c} ELSE Dealt(l)
    <3>1. 1..((c + 1) - 1) = (1..(c - 1)) \cup {c} /\ c \notin 1..(c - 1) /\ 1..(c - 1) \subseteq Conns
      BY <1>0, <2>1, <2>2 DEF Conns
    <3>. QED
      BY <2>1, <2>2, <2>4, <2>5, <3>1 DEF Dealt
  <2>7. c \notin Dealt(k)
    BY <1>0, <2>1 DEF Dealt
  <2>8. /\ Dealt(Main) = {} /\ \A l \in 1..Len(loops_) : IsFiniteSet(Dealt(l))
    BY <2>2 DEF Dealing
  <2>9. PICK n \in Nat : \A l \in 1..Len(loops_) : Cardinality(Dealt(l)) = IF l <= next_ THEN n + 1 ELSE n
    BY <2>2 DEF Dealing
  <2>10. IsFiniteSet(Dealt(k) \cup {c}) /\ Cardinality(Dealt(k) \cup {c}) = Cardinality(Dealt(k)) + 1
    BY <2>3, <2>7, <2>8, FS_AddElement
  <2>11. Cardinality(Dealt(k)) = n
    BY <1>0, <2>3, <2>9
  <2>12. \A l \in 1..Len(loops_) : Cardinality(Dealt(l)') = IF l <= k THEN n + 1 ELSE n
    <3>. TAKE l \in 1..Len(loops_)
    <3>1. CASE l = k
      <4>1. Dealt(l)' = Dealt(k) \cup {c} /\ l <= k
        BY <2>3, <2>6, <3>1
      <4>. QED
        BY <2>10, <2>11, <4>1
    <3>2. CASE l # k
      <4>1. Dealt(l)' = Dealt(l)
        BY <2>6, <3>2
      <4>2. l <= k <=> l <= next_
        BY <1>0, <2>3, <3>2
      <4>. QED
        BY <2>9, <4>1, <4>2
    <3>. QED
      BY <3>1, <3>2
  <2>13. next_' = IF k >= Len(loops_) THEN 0 ELSE k
    BY <2>2, <2>3 DEF AfterNext
  <2>14. \E m \in Nat : \A l \in 1..Len(loops_) : Cardinality(Dealt(l)') = IF l <= next_' THEN m + 1 ELSE m
    <3>1. CASE k >= Len(loops_)
      <4>1. \A l \in 1..Len(loops_) : l <= k /\ ~(l <= next_')
        BY <1>0, <2>3, <2>13, <3>1
      <4>2. n + 1 \in Nat
        OBVIOUS
      <4>. QED
        BY <2>12, <4>1, <4>2
    <3>2. CASE ~(k >= Len(loops_))
      BY <2>12, <2>13, <3>2
    <3>. QED
      BY <3>1, <3>2
  <2>. QED
    BY <2>2, <2>3, <2>6, <2>8, <2>10, <2>14
<1>3. CASE ~Start /\ ~\E fd \in Fds : NewConnection(fd)
  <2>1. /\ loops_' = loops_ /\ next_' = next_ /\ next_conn_id_' = next_conn_id_
        /\ \A x \in Conns : conn'[x].loop = conn[x].loop
    BY <1>3, DealtStays
  <2>2. 1..(next_conn_id_ - 1) \subseteq Conns
    BY <1>0 DEF Conns
  <2>3. \A l : Dealt(l)' = Dealt(l)
    BY <2>1, <2>2 DEF Dealt
  <2>. QED
    BY <2>1, <2>3 DEF Dealing
<1>. QED
  BY <1>1, <1>2, <1>3

\* EventLoopThreadPool::GetNextLoop is fair: no two loops of the pool differ by more
\* than one connection, and the server's own loop gets none if there is a pool.
THEOREM EvenlyDealtAlways == Spec => []EvenlyDealt
<1>1. Init => Dealing
  BY DEF Init, Dealing
<1>2. ASSUME Inv, Dealing PROVE EvenlyDealt
  <2>. SUFFICES ASSUME NEW k \in Range(loops_), NEW l \in Range(loops_)
                PROVE  Cardinality(Dealt(k)) <= Cardinality(Dealt(l)) + 1 /\ Dealt(Main) = {}
    BY DEF EvenlyDealt
  <2>1. k \in 1..Len(loops_) /\ l \in 1..Len(loops_) /\ loops_ # <<>>
    BY <1>2 DEF Inv, Types, PoolOK, Range
  <2>2. PICK n \in Nat : \A j \in 1..Len(loops_) : Cardinality(Dealt(j)) = IF j <= next_ THEN n + 1 ELSE n
    BY <1>2, <2>1 DEF Dealing
  <2>. QED
    BY <1>2, <2>1, <2>2 DEF Dealing
<1>. QED
  BY <1>1, <1>2, DealingNext, ServerInvariant, PTL DEF Spec
=============================================================================
