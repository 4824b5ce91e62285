------------------------ MODULE ConnectionPoolProofs ------------------------
(***************************************************************************)
(* Proofs about ConnectionPool for every number of clients and connections, *)
(* every init_size_ and max_size_.  IdleOrder is not inductive: giving a    *)
(* connection back stamps it with the current clock, which keeps the order  *)
(* only if no stamp lies in the future and the connection is not in the     *)
(* queue already; the latter is ExclusiveUse.                               *)
(***************************************************************************)
EXTENDS ConnectionPool, FiniteSetTheorems, TLAPS

\* No idle time starts in the future.
NoFuture == \A x \in Connections : alive_time_[x] <= clock

\* A client owns a connection exactly while it holds one.
HoldersHold == \A c \in Clients : client[c] = "holding" <=> conn[c] # NoConn

Inv == TypeOK /\ NoFuture /\ HoldersHold /\ ExclusiveUse /\ IdleOrder

\* The constructor's connections are distinct and equally old.
LEMMA InitInv == Init => Inv
<1>. SUFFICES ASSUME Init PROVE Inv
  OBVIOUS
<1>. DEFINE n == IF loaded THEN init_size_ ELSE 0
<1>1. n \in Nat /\ connection_queue_ \in [1 .. n -> Connections]
  BY PoolAssumption DEF Init, LoadConfig
<1>2. connection_queue_ \in Seq(Connections) /\ DOMAIN connection_queue_ = 1 .. n
  BY <1>1
<1>3. Len(connection_queue_) \in Nat
  BY <1>2
<1>4. dead \in SUBSET Connections
  BY <1>2 DEF Init, Queued
<1>5. TypeOK
  <2>1. client \in [Clients -> ClientStates] /\ conn \in [Clients -> Connections \cup {NoConn}]
    BY DEF Init, ClientStates
  <2>2. /\ alive_time_ \in [Connections -> 0 .. MaxClock] /\ clock \in 0 .. MaxClock
        /\ spurious \in 0 .. MaxSpurious
    BY PoolAssumption DEF Init
  <2>. QED
    BY <1>2, <1>3, <1>4, <2>1, <2>2 DEF Init, TypeOK, ProducerStates, LoadConfig
<1>6. NoFuture /\ HoldersHold
  BY DEF Init, NoFuture, HoldersHold
<1>7. ExclusiveUse
  <2>1. Held = {}
    BY DEF Init, Held
  <2>. QED
    BY <2>1 DEF Init, ExclusiveUse
<1>8. IdleOrder
  BY <1>2 DEF Init, IdleOrder
<1>. QED
  BY <1>5, <1>6, <1>7, <1>8 DEF Inv

\* A step that moves no connection and changes no stamp keeps the invariant.
LEMMA NothingMoves ==
    ASSUME Inv, TypeOK', HoldersHold', clock' >= clock,
           UNCHANGED <<connection_queue_, conn, alive_time_>>
    PROVE  Inv'
<1>1. NoFuture'
  BY DEF Inv, TypeOK, NoFuture
<1>2. ExclusiveUse' /\ IdleOrder'
  BY DEF Inv, ExclusiveUse, IdleOrder, Queued, Held
<1>. QED
  BY <1>1, <1>2 DEF Inv

\* The producer.
LEMMA ProducerInv == Inv /\ (ProducerStep \/ ProducerSpurious) => Inv'
<1>. SUFFICES ASSUME Inv, ProducerStep \/ ProducerSpurious PROVE Inv'
  OBVIOUS
<1>0. WokenClients \in [Clients -> ClientStates]
      /\ \A c \in Clients : WokenClients[c] = "holding" <=> client[c] = "holding"
  BY DEF Inv, TypeOK, WokenClients, ClientStates
<1>1. CASE Produce
  <2>1. PICK x \in Connections \ Held :
          /\ connection_queue_' = <<x>>
          /\ alive_time_' = [alive_time_ EXCEPT ![x] = clock]
          /\ dead' = dead \ {x} \/ dead' = dead \cup {x}
    BY <1>1 DEF Produce, Connect, Refreshed
  <2>2. TypeOK'
    <3>1. alive_time_' \in [Connections -> 0 .. MaxClock]
      BY <2>1 DEF Inv, TypeOK
    <3>2. connection_queue_' \in Seq(Connections) /\ dead' \in SUBSET Connections
      BY <2>1 DEF Inv, TypeOK
    <3>3. current_connection_size_' \in Nat
      BY <1>1 DEF Inv, TypeOK, Produce, OneMore
    <3>. QED
      BY <1>0, <1>1, <3>1, <3>2, <3>3 DEF Inv, TypeOK, Produce
  <2>3. NoFuture' /\ HoldersHold'
    BY <1>0, <1>1, <2>1 DEF Inv, TypeOK, NoFuture, HoldersHold, Produce
  <2>4. ExclusiveUse'
    <3>1. Queued' = {x} /\ Held' = Held
      BY <1>1, <2>1 DEF Produce, Queued, Held
    <3>. QED
      BY <1>1, <2>1, <3>1 DEF Inv, ExclusiveUse, Produce
  <2>5. IdleOrder'
    BY <2>1, <2>2 DEF IdleOrder, TypeOK
  <2>. QED
    BY <2>2, <2>3, <2>4, <2>5 DEF Inv
<1>2. CASE ProduceNothing
  <2>1. TypeOK' /\ HoldersHold' /\ clock' >= clock
    BY <1>0, <1>2 DEF Inv, TypeOK, HoldersHold, ProduceNothing
  <2>. QED
    BY <1>2, <2>1, NothingMoves DEF ProduceNothing
<1>3. CASE ProducerWaits
  <2>1. TypeOK' /\ HoldersHold' /\ clock' >= clock
    BY <1>3 DEF Inv, TypeOK, HoldersHold, ProducerWaits, ProducerStates
  <2>. QED
    BY <1>3, <2>1, NothingMoves DEF ProducerWaits
<1>4. CASE ProducerSpurious
  <2>1. TypeOK' /\ HoldersHold' /\ clock' >= clock
    BY <1>4, PoolAssumption DEF Inv, TypeOK, HoldersHold, ProducerSpurious, ProducerStates
  <2>. QED
    BY <1>4, <2>1, NothingMoves DEF ProducerSpurious
<1>. QED
  BY <1>1, <1>2, <1>3, <1>4 DEF ProducerStep

\* The scanner deletes a prefix of the queue, and time passes.
LEMMA ScannerInv == Inv /\ (Scan \/ ScanEmptyQueue \/ Tick) => Inv'
<1>. SUFFICES ASSUME Inv, Scan \/ ScanEmptyQueue \/ Tick PROVE Inv'
  OBVIOUS
<1>1. CASE Scan
  <2>1. PICK k \in 0 .. Len(connection_queue_) :
          /\ KeepsInit(k)
          /\ connection_queue_' = SubSeq(connection_queue_, k + 1, Len(connection_queue_))
          /\ current_connection_size_' = current_connection_size_ - k
    BY <1>1 DEF Scan, Deletable
  <2>2. /\ connection_queue_' \in Seq(Connections)
        /\ Len(connection_queue_') = Len(connection_queue_) - k
        /\ \A i \in DOMAIN connection_queue_' :
              /\ i + k \in DOMAIN connection_queue_
              /\ connection_queue_'[i] = connection_queue_[i + k]
    BY <2>1 DEF Inv, TypeOK
  <2>3. current_connection_size_' \in Nat
    BY <2>1, PoolAssumption DEF Inv, TypeOK, KeepsInit
  <2>4. TypeOK' /\ NoFuture' /\ HoldersHold'
    BY <1>1, <2>2, <2>3 DEF Inv, TypeOK, NoFuture, HoldersHold, Scan
  <2>5. ExclusiveUse'
    <3>1. Queued' \subseteq Queued /\ Held' = Held
      BY <1>1, <2>2 DEF Scan, Queued, Held
    <3>2. \A i, j \in DOMAIN connection_queue_' :
             connection_queue_'[i] = connection_queue_'[j] => i = j
      BY <2>2 DEF Inv, TypeOK, ExclusiveUse
    <3>. QED
      BY <1>1, <3>1, <3>2 DEF Inv, ExclusiveUse, Scan
  <2>6. IdleOrder'
    <3>1. ASSUME NEW i \in DOMAIN connection_queue_', NEW j \in DOMAIN connection_queue_', i <= j
          PROVE  alive_time_[connection_queue_'[i]] <= alive_time_[connection_queue_'[j]]
      <4>1. i \in Nat /\ j \in Nat /\ i + k <= j + k
        BY <2>2, <3>1
      <4>2. /\ i + k \in DOMAIN connection_queue_ /\ connection_queue_'[i] = connection_queue_[i + k]
            /\ j + k \in DOMAIN connection_queue_ /\ connection_queue_'[j] = connection_queue_[j + k]
        BY <2>2
      <4>. QED
        BY <4>1, <4>2 DEF Inv, IdleOrder
    <3>. QED
      BY <1>1, <3>1 DEF IdleOrder, Scan
  <2>. QED
    BY <2>4, <2>5, <2>6 DEF Inv
<1>2. CASE ScanEmptyQueue
  <2>1. TypeOK' /\ HoldersHold' /\ clock' >= clock
    BY <1>2 DEF Inv, TypeOK, HoldersHold, ScanEmptyQueue
  <2>. QED
    BY <1>2, <2>1, NothingMoves DEF ScanEmptyQueue
<1>3. CASE Tick
  <2>1. TypeOK' /\ HoldersHold' /\ clock' >= clock
    BY <1>3, PoolAssumption DEF Inv, TypeOK, HoldersHold, Tick
  <2>. QED
    BY <1>3, <2>1, NothingMoves DEF Tick
<1>. QED
  BY <1>1, <1>2, <1>3

\* GetConnection and the deleter.
LEMMA ClientInv ==
    ASSUME NEW c \in Clients, Inv,
           GetConnection(c) \/ ClientStep(c) \/ ReleaseConnection(c) \/ WaitSpurious(c)
    PROVE  Inv'
<1>1. CASE GetConnection(c) \/ WaitConnection(c) \/ WaitTimeout(c) \/ Refuse(c) \/ WaitSpurious(c)
  <2>1. /\ client[c] \in ClientStates \ {"holding"}
        /\ \E s \in ClientStates \ {"holding"} : client' = [client EXCEPT ![c] = s]
        /\ UNCHANGED <<loaded, connection_queue_, current_connection_size_, alive_time_, dead,
                       conn, producer, scanner, clock>>
    BY <1>1 DEF GetConnection, WaitConnection, WaitTimeout, Refuse, WaitSpurious, ClientStates
  <2>0. spurious' \in 0 .. MaxSpurious
    BY <1>1, PoolAssumption DEF Inv, TypeOK, GetConnection, WaitConnection, WaitTimeout,
                                Refuse, WaitSpurious
  <2>2. TypeOK' /\ HoldersHold' /\ clock' >= clock
    BY <2>0, <2>1 DEF Inv, TypeOK, HoldersHold
  <2>. QED
    BY <2>1, <2>2, NothingMoves
<1>2. CASE TakeConnection(c)
  <2>. DEFINE x == Head(connection_queue_)
  <2>1. /\ x \in Connections /\ connection_queue_' = Tail(connection_queue_)
        /\ connection_queue_' \in Seq(Connections)
        /\ x = connection_queue_[1] /\ 1 \in DOMAIN connection_queue_
        /\ \A i \in DOMAIN connection_queue_' :
              /\ i + 1 \in DOMAIN connection_queue_
              /\ connection_queue_'[i] = connection_queue_[i + 1]
              /\ i \in Nat /\ i > 0
    BY <1>2 DEF Inv, TypeOK, TakeConnection, AfterPop
  <2>2. conn' = [conn EXCEPT ![c] = x] /\ conn' \in [Clients -> Connections \cup {NoConn}]
    BY <1>2, <2>1 DEF Inv, TypeOK, TakeConnection
  <2>3. /\ client' \in [Clients -> ClientStates] /\ client'[c] = "holding"
        /\ \A d \in Clients \ {c} : client'[d] = "holding" <=> client[d] = "holding"
    BY <1>2 DEF Inv, TypeOK, TakeConnection, WokenClients, ClientStates
  <2>4. TypeOK' /\ NoFuture'
    BY <1>2, <2>1, <2>2, <2>3 DEF Inv, TypeOK, NoFuture, TakeConnection, ProducerStates
  <2>5. HoldersHold'
    BY <2>1, <2>2, <2>3, PoolAssumption DEF Inv, TypeOK, HoldersHold
  <2>6. ExclusiveUse'
    <3>1. x \in Queued /\ x \notin Held
      BY <2>1 DEF Inv, ExclusiveUse, Queued
    <3>2. Queued' \subseteq Queued \ {x}
      BY <2>1 DEF Inv, ExclusiveUse, Queued
    <3>3. Held' \subseteq Held \cup {x}
      BY <2>2 DEF Inv, TypeOK, Held
    <3>4. \A i, j \in DOMAIN connection_queue_' :
             connection_queue_'[i] = connection_queue_'[j] => i = j
      BY <2>1 DEF Inv, ExclusiveUse
    <3>5. \A d, e \in Clients : conn'[d] = conn'[e] /\ conn'[d] # NoConn => d = e
      BY <2>2, <3>1 DEF Inv, TypeOK, ExclusiveUse, Held
    <3>6. Queued' \cap Held' = {}
      BY <3>2, <3>3 DEF Inv, ExclusiveUse
    <3>. QED
      BY <3>4, <3>5, <3>6 DEF ExclusiveUse
  <2>7. IdleOrder'
    <3>1. ASSUME NEW i \in DOMAIN connection_queue_', NEW j \in DOMAIN connection_queue_', i <= j
          PROVE  alive_time_[connection_queue_'[i]] <= alive_time_[connection_queue_'[j]]
      <4>1. i + 1 <= j + 1
        BY <2>1, <3>1
      <4>. QED
        BY <2>1, <4>1 DEF Inv, IdleOrder
    <3>. QED
      BY <1>2, <3>1 DEF IdleOrder, TakeConnection
  <2>. QED
    BY <2>4, <2>5, <2>6, <2>7 DEF Inv
<1>3. CASE ReleaseConnection(c)
  <2>. DEFINE x == conn[c]
              q == connection_queue_
  <2>1. x \in Connections /\ x \in Held /\ x \notin Queued
    BY <1>3 DEF Inv, TypeOK, HoldersHold, ExclusiveUse, ReleaseConnection, Owns, Held
  <2>2. /\ q' = Append(q, x) /\ q' \in Seq(Connections) /\ Len(q) \in Nat
        /\ DOMAIN q = 1 .. Len(q) /\ DOMAIN q' = 1 .. Len(q) + 1
        /\ q'[Len(q) + 1] = x /\ \A i \in DOMAIN q : q'[i] = q[i]
    BY <1>3, <2>1 DEF Inv, TypeOK, ReleaseConnection
  <2>3. /\ alive_time_' = [alive_time_ EXCEPT ![x] = clock]
        /\ alive_time_' \in [Connections -> 0 .. MaxClock]
    BY <1>3 DEF Inv, TypeOK, ReleaseConnection, ReleaseTime, Refreshed
  <2>4. /\ conn' = [conn EXCEPT ![c] = NoConn] /\ conn' \in [Clients -> Connections \cup {NoConn}]
        /\ client' = [client EXCEPT ![c] = "out"] /\ client' \in [Clients -> ClientStates]
    BY <1>3 DEF Inv, TypeOK, ReleaseConnection, ClientStates
  <2>5. TypeOK' /\ NoFuture' /\ HoldersHold'
    BY <1>3, <2>1, <2>2, <2>3, <2>4 DEF Inv, TypeOK, NoFuture, HoldersHold, ReleaseConnection
  <2>6. ExclusiveUse'
    <3>1. Queued' \subseteq Queued \cup {x} /\ Held' \subseteq Held \ {x}
      <4>1. Queued' \subseteq Queued \cup {x}
        BY <2>2 DEF Queued
      <4>2. \A d \in Clients : conn'[d] # NoConn => conn'[d] = conn[d] /\ conn[d] # x
        BY <2>1, <2>4, PoolAssumption DEF Inv, TypeOK, ExclusiveUse
      <4>3. Held' \subseteq Held \ {x}
        BY <4>2 DEF Held
      <4>. QED
        BY <4>1, <4>3
    <3>2. \A i \in DOMAIN q : q[i] # x
      BY <2>1 DEF Queued
    <3>3. \A i, j \in DOMAIN q' : q'[i] = q'[j] => i = j
      BY <2>2, <3>2 DEF Inv, ExclusiveUse
    <3>4. \A d, e \in Clients : conn'[d] = conn'[e] /\ conn'[d] # NoConn => d = e
      BY <2>4 DEF Inv, TypeOK, ExclusiveUse
    <3>5. Queued' \cap Held' = {}
      BY <3>1 DEF Inv, ExclusiveUse
    <3>. QED
      BY <3>3, <3>4, <3>5 DEF ExclusiveUse
  <2>7. IdleOrder'
    <3>1. ASSUME NEW i \in DOMAIN q', NEW j \in DOMAIN q', i <= j
          PROVE  alive_time_'[q'[i]] <= alive_time_'[q'[j]]
      <4>1. CASE j = Len(q) + 1
        <5>1. alive_time_'[q'[j]] = clock
          BY <2>1, <2>2, <2>3, <4>1 DEF Inv, TypeOK
        <5>2. q'[i] \in Connections
          BY <2>2
        <5>3. alive_time_'[q'[i]] <= clock
          BY <1>3, <2>5, <5>2 DEF NoFuture, ReleaseConnection
        <5>. QED
          BY <5>1, <5>3
      <4>2. CASE j # Len(q) + 1
        <5>1. i \in DOMAIN q /\ j \in DOMAIN q
          BY <2>2, <3>1, <4>2
        <5>2. q'[i] = q[i] /\ q'[j] = q[j] /\ q[i] # x /\ q[j] # x
          BY <2>1, <2>2, <5>1 DEF Queued
        <5>3. q[i] \in Connections /\ q[j] \in Connections
          BY <2>2, <5>1 DEF Inv, TypeOK
        <5>4. alive_time_'[q[i]] = alive_time_[q[i]] /\ alive_time_'[q[j]] = alive_time_[q[j]]
          BY <2>3, <5>2, <5>3 DEF Inv, TypeOK
        <5>. QED
          BY <3>1, <5>1, <5>2, <5>4 DEF Inv, IdleOrder
      <4>. QED
        BY <4>1, <4>2
    <3>. QED
      BY <3>1 DEF IdleOrder
  <2>. QED
    BY <2>5, <2>6, <2>7 DEF Inv
<1>. QED
  BY <1>1, <1>2, <1>3 DEF ClientStep

\* Every step of the pool keeps the invariant.
LEMMA StepInv == Inv /\ [Next]_vars => Inv'
<1>. SUFFICES ASSUME Inv, [Next]_vars PROVE Inv'
  OBVIOUS
<1>1. CASE UNCHANGED vars
  <2>1. TypeOK' /\ HoldersHold' /\ clock' >= clock
    BY <1>1 DEF vars, Inv, TypeOK, HoldersHold
  <2>. QED
    BY <1>1, <2>1, NothingMoves DEF vars
<1>. QED
  BY <1>1, ProducerInv, ScannerInv, ClientInv
  DEF Next, PoolStep, Undefined

\* The invariant holds in every reachable state.
LEMMA Invariance == Spec => []Inv
<1>1. Init => Inv
  BY InitInv
<1>2. Inv /\ [Next]_vars => Inv'
  BY StepInv
<1>. QED
  BY <1>1, <1>2, PTL DEF Spec

\* The variables of the pool keep their types for every configuration.
THEOREM TypeCorrect == Spec => []TypeOK
<1>1. Inv => TypeOK
  BY DEF Inv
<1>. QED
  BY <1>1, Invariance, PTL

\* No connection is ever in two places, whatever clients, producer and scanner do.
THEOREM ExclusiveUseAlways == Spec => []ExclusiveUse
<1>1. Inv => ExclusiveUse
  BY DEF Inv
<1>. QED
  BY <1>1, Invariance, PTL

\* The queue is always ordered by idle time, which is what lets
\* CheckIdleConnectionTask stop at the first connection that has not expired.
THEOREM IdleOrderAlways == Spec => []IdleOrder
<1>1. Inv => IdleOrder
  BY DEF Inv
<1>. QED
  BY <1>1, Invariance, PTL

-----------------------------------------------------------------------------
(* The counter.                                                            *)

\* The clients that hold a connection; SizeAccounting counts them.
Holders == {c \in Clients : conn[c] # NoConn}

\* There are finitely many of them, and one more or less changes their number by one.
LEMMA HoldersCounted ==
    /\ IsFiniteSet(Holders) /\ Cardinality(Holders) \in Nat
    /\ \A c \in Clients : /\ c \notin Holders => Cardinality(Holders \cup {c}) = Cardinality(Holders) + 1
                          /\ c \in Holders => Cardinality(Holders \ {c}) = Cardinality(Holders) - 1
<1>1. IsFiniteSet(Holders)
  <2>1. Holders \in SUBSET Clients
    BY DEF Holders
  <2>. QED
    BY <2>1, PoolAssumption, FS_Subset
<1>2. Cardinality(Holders) \in Nat
  BY <1>1, FS_CardinalityType
<1>. QED
  BY <1>1, <1>2, FS_AddElement, FS_RemoveElement

\* The counter says what is in the queue and with clients, and is within its limits.
Counted ==
    /\ current_connection_size_ = Len(connection_queue_) + Cardinality(Holders)
    /\ loaded =>
         \/ init_size_ <= current_connection_size_ /\ current_connection_size_ <= max_size_
         \/ init_size_ > max_size_ /\ current_connection_size_ = init_size_

\* The constructor counts what it creates, and nobody holds a connection yet.
LEMMA InitCounted == Init => Counted
<1>. SUFFICES ASSUME Init PROVE Counted
  OBVIOUS
<1>1. Holders = {}
  BY DEF Init, Holders
<1>2. Cardinality(Holders) = 0
  BY <1>1, FS_EmptySet
<1>3. connection_queue_ \in [1 .. (IF loaded THEN init_size_ ELSE 0) -> Connections]
  BY DEF Init
<1>4. Len(connection_queue_) = IF loaded THEN init_size_ ELSE 0
  BY <1>3, PoolAssumption
<1>. QED
  BY <1>2, <1>4, PoolAssumption DEF Init, Counted

\* Every step keeps the count: what enters or leaves the queue is counted, or goes
\* from or to a client.
LEMMA StepCounted == Inv /\ Counted /\ [Next]_vars => Counted'
<1>. SUFFICES ASSUME Inv, Counted, [Next]_vars PROVE Counted'
  OBVIOUS
<1>. USE HoldersCounted
<1>0. /\ connection_queue_ \in Seq(Connections) /\ Len(connection_queue_) \in Nat
      /\ current_connection_size_ \in Nat /\ client \in [Clients -> ClientStates]
      /\ conn \in [Clients -> Connections \cup {NoConn}]
  BY DEF Inv, TypeOK
<1>1. ASSUME UNCHANGED <<connection_queue_, conn, current_connection_size_, loaded>> PROVE Counted'
  BY <1>1 DEF Counted, Holders
<1>2. CASE Produce
  <2>1. Holders' = Holders /\ loaded' = loaded
    BY <1>2 DEF Produce, Holders
  <2>2. Len(connection_queue_) = 0 /\ Len(connection_queue_') = 1
    BY <1>2 DEF Produce
  <2>3. current_connection_size_' = current_connection_size_ + 1
    BY <1>2 DEF Produce, OneMore
  <2>4. current_connection_size_ < max_size_
    BY <1>2 DEF Produce, BelowMax
  <2>. QED
    BY <1>0, <2>1, <2>2, <2>3, <2>4, PoolAssumption DEF Counted
<1>3. CASE Scan
  <2>1. PICK k \in 0 .. Len(connection_queue_) :
           /\ KeepsInit(k)
           /\ connection_queue_' = SubSeq(connection_queue_, k + 1, Len(connection_queue_))
           /\ current_connection_size_' = current_connection_size_ - k
    BY <1>3 DEF Scan, Deletable
  <2>2. Holders' = Holders /\ loaded' = loaded
    BY <1>3 DEF Scan, Holders
  <2>3. Len(connection_queue_') = Len(connection_queue_) - k
    BY <1>0, <2>1
  <2>. QED
    BY <1>0, <2>1, <2>2, <2>3, PoolAssumption DEF Counted, KeepsInit
<1>4. ASSUME NEW c \in Clients, TakeConnection(c) PROVE Counted'
  <2>1. c \notin Holders
    BY <1>4 DEF TakeConnection, Inv, HoldersHold, Holders
  <2>2. Holders' = Holders \cup {c}
    <3>1. Head(connection_queue_) \in Connections
      BY <1>0, <1>4 DEF TakeConnection
    <3>. QED
      BY <1>0, <1>4, <3>1, PoolAssumption DEF TakeConnection, Holders
  <2>3. Len(connection_queue_') = Len(connection_queue_) - 1
    BY <1>0, <1>4 DEF TakeConnection, AfterPop
  <2>4. UNCHANGED <<current_connection_size_, loaded>>
    BY <1>4 DEF TakeConnection
  <2>. QED
    BY <1>0, <2>1, <2>2, <2>3, <2>4 DEF Counted
<1>5. ASSUME NEW c \in Clients, ReleaseConnection(c) PROVE Counted'
  <2>1. c \in Holders
    BY <1>5 DEF ReleaseConnection, Owns, Inv, HoldersHold, Holders
  <2>2. Holders' = Holders \ {c}
    BY <1>0, <1>5 DEF ReleaseConnection, Holders
  <2>3. Len(connection_queue_') = Len(connection_queue_) + 1
    BY <1>0, <1>5, <2>1 DEF ReleaseConnection, Holders
  <2>4. UNCHANGED <<current_connection_size_, loaded>>
    BY <1>5 DEF ReleaseConnection
  <2>. QED
    BY <1>0, <2>1, <2>2, <2>3, <2>4 DEF Counted
<1>6. CASE \/ ProduceNothing \/ ProducerWaits \/ ProducerSpurious \/ ScanEmptyQueue \/ Tick
           \/ Undefined \/ UNCHANGED vars
  BY <1>1, <1>6 DEF ProduceNothing, ProducerWaits, ProducerSpurious, ScanEmptyQueue, Tick,
                    Undefined, vars
<1>7. ASSUME NEW c \in Clients,
             GetConnection(c) \/ WaitConnection(c) \/ WaitTimeout(c) \/ Refuse(c) \/ WaitSpurious(c)
      PROVE  Counted'
  BY <1>1, <1>7 DEF GetConnection, WaitConnection, WaitTimeout, Refuse, WaitSpurious
<1>. QED
  BY <1>2, <1>3, <1>4, <1>5, <1>6, <1>7 DEF Next, PoolStep, ProducerStep, ClientStep

\* current_connection_size_ is exact and within its limits for every number of
\* clients and every interleaving of producer, scanner, GetConnection and deleter.
THEOREM SizeAccountingAlways == Spec => []SizeAccounting
<1>1. Init => Counted
  BY InitCounted
<1>2. Inv /\ Counted /\ [Next]_vars => Counted'
  BY StepCounted
<1>3. Counted => SizeAccounting
  BY DEF Counted, SizeAccounting, Holders
<1>. QED
  BY <1>1, <1>2, <1>3, Invariance, PTL DEF Spec
=============================================================================
