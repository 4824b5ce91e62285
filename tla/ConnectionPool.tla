--------------------------- MODULE ConnectionPool ---------------------------
(***************************************************************************)
(* The MySQL connection pool of connection_pool/connection_pool.{h,cpp}.    *)
(* Application threads call GetConnection and give the connection back when *)
(* the shared_ptr they got is destroyed; a producer thread creates          *)
(* connections while the queue is empty; a scanner thread deletes           *)
(* connections that have been idle for too long.  All of them hold          *)
(* queue_mutex_ for what is one action here, and they share one condition   *)
(* variable, cond_.                                                         *)
(*                                                                         *)
(* MySQL is external: Connect succeeds or fails.  clock() is a counter that *)
(* Tick advances; max_idle_time_ * 1000 is the threshold MaxIdle.           *)
(***************************************************************************)
EXTENDS Integers, Sequences, FiniteSets

CONSTANTS
    Clients,          \* the application threads
    Connections,      \* the Connection objects that can exist at one time
    NoConn,           \* what a client without connection holds
    init_size_, max_size_,
    MaxIdle,          \* max_idle_time_ * 1000, in ticks of clock()
    MaxClock,         \* bound on clock()
    MaxSpurious,      \* bound on the spurious wakeups of a behaviour
    ConnectMayFail    \* may MySQL refuse a connection?

ASSUME PoolAssumption ==
    /\ IsFiniteSet(Clients) /\ NoConn \notin Connections
    /\ init_size_ \in Nat /\ max_size_ \in Nat
    /\ MaxIdle \in Nat /\ MaxClock \in Nat /\ MaxSpurious \in Nat
    /\ ConnectMayFail \in BOOLEAN

VARIABLES
    loaded,                    \* LoadConfig succeeded: the two threads run
    connection_queue_,
    current_connection_size_,
    alive_time_,               \* of each Connection
    dead,                      \* the Connections whose Connect failed
    client,                    \* where each application thread is
    conn,                      \* the Connection its shared_ptr owns
    producer,                  \* where ProduceConnectionTask is
    scanner,                   \* whether CheckIdleConnectionTask still runs
    clock,
    spurious                   \* how many spurious wakeups there were

vars == <<loaded, connection_queue_, current_connection_size_, alive_time_, dead,
          client, conn, producer, scanner, clock, spurious>>

\* calling: about to lock queue_mutex_.  waiting: in cond_.wait_for.  woken,
\* expired: out of it, with no_timeout or timeout.  refused: got nullptr.
ClientStates   == {"out", "calling", "waiting", "woken", "expired", "holding", "refused"}
ProducerStates == {"ready", "waiting"}

Queued == {connection_queue_[i] : i \in DOMAIN connection_queue_}
Held   == {conn[c] : c \in Clients} \ {NoConn}

\* cond_.notify_all : everybody evaluates its predicate again.
WokenClients  == [c \in Clients |-> IF client[c] = "waiting" THEN "woken" ELSE client[c]]

\* RefreshAliveTime
Refreshed(x) == [alive_time_ EXCEPT ![x] = clock]

-----------------------------------------------------------------------------
(* The producer thread.                                                    *)

\* The producer may create another connection.
BelowMax == current_connection_size_ < max_size_

\* Connect, whose result nobody looks at.
Connect(x) ==
    \/ dead' = dead \ {x}
    \/ ConnectMayFail /\ dead' = dead \cup {x}

\* faulty OneMore: the new connection is not counted
NotCounted == current_connection_size_

\* ++current_connection_size_
OneMore == current_connection_size_ + 1

\* new Connection, Connect, RefreshAliveTime, emplace; at most one at a time.
Produce ==
    /\ loaded /\ producer = "ready" /\ connection_queue_ = <<>>
    /\ BelowMax
    /\ \E x \in Connections \ Held :
          /\ connection_queue_' = <<x>>
          /\ Connect(x)
          /\ alive_time_' = Refreshed(x)
    /\ current_connection_size_' = OneMore
    /\ client' = WokenClients
    /\ UNCHANGED <<loaded, conn, producer, scanner, clock, spurious>>

\* At the limit the loop body only notifies, and starts again at once.
ProduceNothing ==
    /\ loaded /\ producer = "ready" /\ connection_queue_ = <<>>
    /\ ~BelowMax
    /\ client' = WokenClients
    /\ UNCHANGED <<loaded, connection_queue_, current_connection_size_, alive_time_, dead,
                   conn, producer, scanner, clock, spurious>>

\* The predicate of cond_.wait is false.
ProducerWaits ==
    /\ loaded /\ producer = "ready" /\ connection_queue_ # <<>>
    /\ producer' = "waiting"
    /\ UNCHANGED <<loaded, connection_queue_, current_connection_size_, alive_time_, dead,
                   client, conn, scanner, clock, spurious>>

\* cond_.wait may wake up without a notification.
ProducerSpurious ==
    /\ producer = "waiting"
    /\ spurious < MaxSpurious /\ spurious' = spurious + 1
    /\ producer' = "ready"
    /\ UNCHANGED <<loaded, connection_queue_, current_connection_size_, alive_time_, dead,
                   client, conn, scanner, clock>>

-----------------------------------------------------------------------------
(* GetConnection and the deleter of the shared_ptr it returns.             *)

GetConnection(c) ==
    /\ client[c] \in {"out", "refused"}
    /\ client' = [client EXCEPT ![c] = "calling"]
    /\ UNCHANGED <<loaded, connection_queue_, current_connection_size_, alive_time_, dead,
                   conn, producer, scanner, clock, spurious>>

\* faulty AfterPop: front() without pop()
AfterFront == connection_queue_

AfterPop == Tail(connection_queue_)

TakeConnection(c) ==
    /\ client[c] \in {"calling", "woken", "expired"}
    /\ connection_queue_ # <<>>
    /\ conn' = [conn EXCEPT ![c] = Head(connection_queue_)]
    /\ connection_queue_' = AfterPop
    /\ client' = [WokenClients EXCEPT ![c] = "holding"]
    /\ producer' = "ready"
    /\ UNCHANGED <<loaded, current_connection_size_, alive_time_, dead, scanner, clock, spurious>>

\* The queue is empty: wait for connection_timeout_, anew after every wakeup.
WaitConnection(c) ==
    /\ client[c] \in {"calling", "woken"}
    /\ connection_queue_ = <<>>
    /\ client' = [client EXCEPT ![c] = "waiting"]
    /\ UNCHANGED <<loaded, connection_queue_, current_connection_size_, alive_time_, dead,
                   conn, producer, scanner, clock, spurious>>

\* faulty WaitTimeout: wait instead of wait_for
WaitForever(c) == FALSE

WaitTimeout(c) ==
    /\ client[c] = "waiting"
    /\ client' = [client EXCEPT ![c] = "expired"]
    /\ UNCHANGED <<loaded, connection_queue_, current_connection_size_, alive_time_, dead,
                   conn, producer, scanner, clock, spurious>>

\* cond_.wait_for may wake up without a notification, before its deadline.
WaitSpurious(c) ==
    /\ client[c] = "waiting"
    /\ spurious < MaxSpurious /\ spurious' = spurious + 1
    /\ client' = [client EXCEPT ![c] = "woken"]
    /\ UNCHANGED <<loaded, connection_queue_, current_connection_size_, alive_time_, dead,
                   conn, producer, scanner, clock>>

\* Timed out and still empty: return nullptr.
Refuse(c) ==
    /\ client[c] = "expired"
    /\ connection_queue_ = <<>>
    /\ client' = [client EXCEPT ![c] = "refused"]
    /\ UNCHANGED <<loaded, connection_queue_, current_connection_size_, alive_time_, dead,
                   conn, producer, scanner, clock, spurious>>

\* The client has a shared_ptr with the deleter of GetConnection.
Owns(c) == client[c] = "holding"

\* faulty ReleaseTime: the idle time is not restarted
KeepTime(c) == alive_time_

\* conn->RefreshAliveTime() in the deleter
ReleaseTime(c) == Refreshed(conn[c])

\* The deleter: back into the queue; cond_ is not notified.
ReleaseConnection(c) ==
    /\ Owns(c)
    /\ alive_time_' = ReleaseTime(c)
    /\ connection_queue_' = Append(connection_queue_, conn[c])
    /\ conn' = [conn EXCEPT ![c] = NoConn]
    /\ client' = [client EXCEPT ![c] = "out"]
    /\ UNCHANGED <<loaded, current_connection_size_, dead, producer, scanner, clock, spurious>>

-----------------------------------------------------------------------------
(* The scanner thread.                                                     *)

\* GetAliveTime() > max_idle_time_ * 1000
Expired(x) == clock - alive_time_[x] > MaxIdle

\* while (current_connection_size_ > init_size_), k iterations
KeepsInit(k) == current_connection_size_ - k >= init_size_

\* The first k connections of the queue can be deleted by one pass of the loop.
Deletable(k) ==
    /\ KeepsInit(k)
    /\ \A i \in 1 .. k : Expired(connection_queue_[i])

\* One pass: delete from the front until init_size_ is reached or the first
\* connection is not expired.  cond_ is not notified.
Scan ==
    /\ loaded /\ scanner = "running"
    /\ \E k \in 0 .. Len(connection_queue_) :
          /\ Deletable(k)
          /\ \/ current_connection_size_ - k = init_size_
             \/ k < Len(connection_queue_) /\ ~Expired(connection_queue_[k + 1])
          /\ connection_queue_' = SubSeq(connection_queue_, k + 1, Len(connection_queue_))
          /\ current_connection_size_' = current_connection_size_ - k
    /\ UNCHANGED <<loaded, alive_time_, dead, client, conn, producer, scanner, clock, spurious>>

\* A pass that empties the queue with more than init_size_ connections left, all
\* of them with clients: front() of an empty queue, undefined behaviour.
ScanEmptyQueue ==
    /\ loaded /\ scanner = "running"
    /\ Deletable(Len(connection_queue_))
    /\ current_connection_size_ - Len(connection_queue_) > init_size_
    /\ scanner' = "undefined"
    /\ UNCHANGED <<loaded, connection_queue_, current_connection_size_, alive_time_, dead,
                   client, conn, producer, clock, spurious>>

Tick ==
    /\ clock < MaxClock
    /\ clock' = clock + 1
    /\ UNCHANGED <<loaded, connection_queue_, current_connection_size_, alive_time_, dead,
                   client, conn, producer, scanner, spurious>>

-----------------------------------------------------------------------------
\* mysql.ini can be read or not; the values it sets are the constants.
LoadConfig == BOOLEAN

\* The constructor: without mysql.ini there are no connections and no threads.
Init ==
    /\ loaded \in LoadConfig
    /\ connection_queue_ \in [1 .. (IF loaded THEN init_size_ ELSE 0) -> Connections]
    /\ \A i, j \in DOMAIN connection_queue_ : connection_queue_[i] = connection_queue_[j] => i = j
    /\ current_connection_size_ = Len(connection_queue_)
    /\ alive_time_ = [x \in Connections |-> 0]
    /\ IF ConnectMayFail THEN dead \in SUBSET Queued ELSE dead = {}
    /\ client = [c \in Clients |-> "out"]
    /\ conn = [c \in Clients |-> NoConn]
    /\ producer = "ready"
    /\ scanner = "running"
    /\ clock = 0
    /\ spurious = 0

ProducerStep == Produce \/ ProduceNothing \/ ProducerWaits

\* The part of GetConnection that runs once it has been called.
ClientStep(c) == TakeConnection(c) \/ WaitConnection(c) \/ WaitTimeout(c) \/ Refuse(c)

PoolStep ==
    \/ ProducerStep \/ ProducerSpurious \/ Scan \/ ScanEmptyQueue \/ Tick
    \/ \E c \in Clients :
          GetConnection(c) \/ ClientStep(c) \/ WaitSpurious(c) \/ ReleaseConnection(c)

\* After the undefined behaviour nothing is known.
Undefined == scanner = "undefined" /\ UNCHANGED vars

Next == (scanner = "running" /\ PoolStep) \/ Undefined

Spec == Init /\ [][Next]_vars

\* The producer and a thread inside GetConnection are scheduled, and a wait_for
\* that is not disturbed times out.  Clients may keep a connection for ever.
FairSpec ==
    /\ Spec
    /\ WF_vars(ProducerStep)
    /\ \A c \in Clients : WF_vars(ClientStep(c))

-----------------------------------------------------------------------------
(* What the pool promises.                                                 *)

\* The values the variables may take.
TypeOK ==
    /\ loaded \in BOOLEAN
    /\ connection_queue_ \in Seq(Connections)
    /\ current_connection_size_ \in Nat
    /\ alive_time_ \in [Connections -> 0 .. MaxClock]
    /\ dead \in SUBSET Connections
    /\ client \in [Clients -> ClientStates]
    /\ conn \in [Clients -> Connections \cup {NoConn}]
    /\ producer \in ProducerStates
    /\ scanner \in {"running", "undefined"}
    /\ clock \in 0 .. MaxClock
    /\ spurious \in 0 .. MaxSpurious

\* current_connection_size_, which only the producer and the scanner change, is
\* the number of connections in the queue and with clients.  It stays between init_size_
\* and max_size_; when mysql.ini gives a larger init_size_, which LoadConfig accepts,
\* it stays at that.
SizeAccounting ==
    /\ current_connection_size_ = Len(connection_queue_) + Cardinality({c \in Clients : conn[c] # NoConn})
    /\ loaded =>
         \/ init_size_ <= current_connection_size_ /\ current_connection_size_ <= max_size_
         \/ init_size_ > max_size_ /\ current_connection_size_ = init_size_

\* No connection is in two places: twice in the queue, with two clients, or with
\* a client and in the queue.
ExclusiveUse ==
    /\ \A i, j \in DOMAIN connection_queue_ : connection_queue_[i] = connection_queue_[j] => i = j
    /\ \A c, d \in Clients : conn[c] = conn[d] /\ conn[c] # NoConn => c = d
    /\ Queued \cap Held = {}

\* The connections are queued in the order in which they became idle, so the scan
\* may stop at the first one that has not expired.
IdleOrder ==
    \A i, j \in DOMAIN connection_queue_ :
        i <= j => alive_time_[connection_queue_[i]] <= alive_time_[connection_queue_[j]]

\* A client in GetConnection is served or refused, unless all max_size_
\* connections exist at some time while it waits or another client competes.
ServedBelowMax ==
    \A c \in Clients :
        loaded /\ client[c] \in {"calling", "waiting"} ~>
            \/ client[c] \in {"holding", "refused"}
            \/ current_connection_size_ >= max_size_
            \/ \E d \in Clients \ {c} : client[d] = "calling"
            \/ scanner = "undefined"
=============================================================================
