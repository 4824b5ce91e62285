------------------------ MODULE TcpConnectionProofs -------------------------
(***************************************************************************)
(* Proofs about TcpConnection for all users, messages, buffer sizes and     *)
(* water marks.                                                             *)
(***************************************************************************)
EXTENDS TcpConnection, SequenceTheorems, TLAPS

-----------------------------------------------------------------------------
(* Vocabulary.                                                             *)

Functors == [kind : {"established", "shutdown", "write_complete", "high_water_mark", "destroyed"}]
            \cup [kind : {"send"}, msg : Msgs]

UserRecords == [pc : {"idle", "shutdown", "set", "left"}] \cup [pc : {"send"}, msg : Msgs]

Sockets == [rcv : Nat, sent : Nat, fin : BOOLEAN, rst : BOOLEAN, err : BOOLEAN, shut : BOOLEAN, room : Nat]

Servers == [listed : BOOLEAN, asked : Nat, ended : BOOLEAN]

\* A byte is known by the message it is part of.
Bytes == Nat

HandlerNames == {"close", "error", "read", "write"}

Index == poller.index[Conn]

PollerRecords ==
    [index : [{Conn} -> Indices], channels : SUBSET [fd : Nat, ptr : {Conn}],
     epoll : SUBSET [fd : Nat, ptr : {Conn}, events : SUBSET Interests], fatal : BOOLEAN]

\* index_, map and kernel of poller p agree on its only channel, with interests ev.
Agrees(p, ev) ==
    /\ p \in PollerRecords /\ p.fatal = FALSE
    /\ p.channels = IF p.index[Conn] = "kNew" THEN {} ELSE {[fd |-> Fd, ptr |-> Conn]}
    /\ p.epoll = IF p.index[Conn] = "kAdded" THEN {[fd |-> Fd, ptr |-> Conn, events |-> ev]} ELSE {}

\* Handler h is among those of t; and read is there at most once.
Calls(t, h)  == \E i \in DOMAIN t : t[i] = h
ReadsOnce(t) == \A i, j \in DOMAIN t : t[i] = "read" /\ t[j] = "read" => i = j

\* A functor of the kind is in s; and behind every ShutdownInLoop there is a ConnectDestroyed.
Has(s, kind) == \E i \in DOMAIN s : s[i].kind = kind
Covered(s) ==
    \A i \in DOMAIN s : s[i].kind = "shutdown" =>
        \E j \in DOMAIN s : i < j /\ s[j].kind = "destroyed"

-----------------------------------------------------------------------------
(* The invariant.                                                          *)

Types ==
    /\ state_ \in States /\ events_ \in SUBSET Interests
    /\ input_buffer_ \in Nat
    /\ output_buffer_ \in Seq(Bytes) /\ accepted \in Seq(Bytes) /\ written \in Seq(Bytes)
    /\ todo \in Seq(HandlerNames)
    /\ callback \in {"none", "up", "message", "notification", "close", "destroy"}
    /\ queue \in Seq(Functors)
    /\ server \in Servers
    /\ user \in [Users -> UserRecords]
    /\ socket \in Sockets
    /\ unsent \subseteq Msgs
    /\ downs \in Nat /\ late \in BOOLEAN

\* The poller has the channel's interests.
Registered == Agrees(poller, events_)

\* Before ConnectEstablished ran, nobody can have done anything.
Fresh ==
    /\ state_ = "kConnecting" /\ Index = "kNew" /\ events_ = {}
    /\ todo = <<>> /\ callback = "none" /\ downs = 0 /\ ~late
    /\ queue # <<>> /\ queue[1].kind = "established"
    /\ \A i \in DOMAIN queue : i # 1 => queue[i].kind = "destroyed"
    /\ \A u \in Users : user[u].pc \in {"idle", "left"}
    /\ server.listed \/ server.ended
    /\ server.asked = 0

\* After it, as long as the connection is open, it is read from.
Begun ==
    /\ state_ # "kConnecting" /\ ~Has(queue, "established")
    /\ ~late /\ downs = 0 => "IN" \in events_

\* Closing a connection that no Shutdown outlived: once, by a read that found the end,
\* and nothing touches its channel again but Remove().
ClosingOK ==
    ~late =>
        /\ ~Calls(todo, "close") /\ ReadsOnce(todo)
        /\ downs = 0 /\ todo # <<>> => Index = "kAdded"
        /\ downs > 0 => /\ downs = 1 /\ state_ = "kDisconnected" /\ events_ = {}
                        /\ Index # "kAdded" /\ ~Calls(todo, "read")
        /\ state_ = "kConnected" => Index = "kAdded"
        /\ callback = "close" => socket.rcv = 0 /\ EndOfInput
        /\ callback \in {"close", "destroy"} => downs > 0

\* Who will remove the channel, while the server exists.
OwnedOK ==
    Undisturbed =>
        /\ server.asked > 0 => downs > 0
        /\ callback # "destroy"
        /\ Has(queue, "destroyed") => downs > 0
        /\ downs = 0 => server.listed
        /\ server.listed \/ server.asked > 0 \/ Has(queue, "destroyed") \/ callback = "close" \/ Index = "kNew"
        /\ server.listed \/ server.asked > 0 \/ callback = "close" \/ Covered(queue)

Inv == Types /\ Registered /\ (Fresh \/ Begun) /\ ClosingOK /\ OwnedOK

-----------------------------------------------------------------------------
(* The poller and the handlers.                                            *)

\* UpdateChannel: the kernel gets the new interests; only a channel that is added and
\* has none left is deleted.
LEMMA PollerUpdated ==
    ASSUME NEW p, NEW old, Agrees(p, old), NEW ev \in SUBSET Interests
    PROVE  LET q == UpdateChannel(p, Conn, Fd, ev) IN
           /\ Agrees(q, ev)
           /\ q.index[Conn] = IF p.index[Conn] = "kAdded" /\ ev = {} THEN "kDeleted" ELSE "kAdded"
<1> DEFINE q == UpdateChannel(p, Conn, Fd, ev)
           new == [fd |-> Fd, ptr |-> Conn, events |-> ev]
           ix == IF p.index[Conn] = "kAdded" /\ ev = {} THEN "kDeleted" ELSE "kAdded"
<1>1. p \in PollerRecords /\ p.index[Conn] \in Indices /\ p.fatal = FALSE
  BY DEF Agrees, PollerRecords
<1>2. /\ \A w \in p.epoll : w.fd = Fd
      /\ \A m \in p.channels : m.fd = Fd
      /\ Watches(p, Fd) <=> p.index[Conn] = "kAdded"
  <2> DEFINE w0 == [fd |-> Fd, ptr |-> Conn, events |-> old]
             m0 == [fd |-> Fd, ptr |-> Conn]
  <2>1. w0.fd = Fd /\ m0.fd = Fd
    OBVIOUS
  <2>2. /\ p.epoll = IF p.index[Conn] = "kAdded" THEN {w0} ELSE {}
        /\ p.channels = IF p.index[Conn] = "kNew" THEN {} ELSE {m0}
    BY DEF Agrees
  <2> HIDE DEF w0, m0
  <2> QED
    BY <2>1, <2>2 DEF Watches
<1>3. /\ q.index = [p.index EXCEPT ![Conn] = ix]
      /\ q.channels = IF p.index[Conn] = "kNew"
                      THEN {m \in p.channels : m.fd # Fd} \cup {[fd |-> Fd, ptr |-> Conn]}
                      ELSE p.channels
      /\ q.epoll = IF ix = "kAdded" THEN {w \in p.epoll : w.fd # Fd} \cup {new}
                                    ELSE {w \in p.epoll : w.fd # Fd}
      /\ q.fatal = FALSE
      /\ q = [index |-> q.index, channels |-> q.channels, epoll |-> q.epoll, fatal |-> q.fatal]
  <2>1. CASE p.index[Conn] = "kNew"
    BY <1>1, <1>2, <2>1 DEF UpdateChannel, EpollCtl, Watches, PollerRecords
  <2>2. CASE p.index[Conn] = "kDeleted"
    BY <1>1, <1>2, <2>2 DEF UpdateChannel, EpollCtl, Watches, PollerRecords
  <2>3. CASE p.index[Conn] = "kAdded" /\ ev = {}
    BY <1>1, <1>2, <2>3 DEF UpdateChannel, EpollCtl, Watches, PollerRecords
  <2>4. CASE p.index[Conn] = "kAdded" /\ ev # {}
    BY <1>1, <1>2, <2>4 DEF UpdateChannel, EpollCtl, Watches, PollerRecords
  <2> QED
    BY <1>1, <2>1, <2>2, <2>3, <2>4 DEF Indices
<1>4. /\ ix \in Indices /\ ix # "kNew" /\ new \in [fd : Nat, ptr : {Conn}, events : SUBSET Interests]
      /\ [fd |-> Fd, ptr |-> Conn] \in [fd : Nat, ptr : {Conn}]
  BY DEF Indices, Fd
<1> HIDE DEF q, new
<1>5. q.channels = {[fd |-> Fd, ptr |-> Conn]}
  BY <1>2, <1>3 DEF Agrees
<1>6. q.epoll = IF ix = "kAdded" THEN {new} ELSE {}
  BY <1>2, <1>3
<1> HIDE DEF ix
<1>7. q.index \in [{Conn} -> Indices] /\ q.index[Conn] = ix
  BY <1>1, <1>3, <1>4 DEF PollerRecords
<1>8. q \in PollerRecords
  <2>1. q.channels \in SUBSET [fd : Nat, ptr : {Conn}]
    BY <1>4, <1>5
  <2>2. q.epoll \in SUBSET [fd : Nat, ptr : {Conn}, events : SUBSET Interests]
    BY <1>4, <1>6
  <2>3. q.fatal \in BOOLEAN
    BY <1>3
  <2> QED
    BY <1>3, <1>7, <2>1, <2>2, <2>3 DEF PollerRecords
<1> QED
  BY <1>3, <1>4, <1>5, <1>6, <1>7, <1>8 DEF Agrees, q, new, ix

\* RemoveChannel: the channel is new again.
LEMMA PollerRemoved ==
    ASSUME NEW p, NEW ev, Agrees(p, ev)
    PROVE  LET q == RemoveChannel(p, Conn, Fd) IN Agrees(q, ev) /\ q.index[Conn] = "kNew"
<1> DEFINE q == RemoveChannel(p, Conn, Fd)
<1>1. p \in PollerRecords /\ p.index[Conn] \in Indices /\ p.fatal = FALSE
  BY DEF Agrees, PollerRecords
<1>2. /\ \A w \in p.epoll : w.fd = Fd
      /\ \A m \in p.channels : m.fd = Fd
      /\ p.index[Conn] # "kAdded" => p.epoll = {}
  <2> DEFINE w0 == [fd |-> Fd, ptr |-> Conn, events |-> ev]
             m0 == [fd |-> Fd, ptr |-> Conn]
  <2>1. w0.fd = Fd /\ m0.fd = Fd
    OBVIOUS
  <2>2. /\ p.epoll = IF p.index[Conn] = "kAdded" THEN {w0} ELSE {}
        /\ p.channels = IF p.index[Conn] = "kNew" THEN {} ELSE {m0}
    BY DEF Agrees
  <2> HIDE DEF w0, m0
  <2> QED
    BY <2>1, <2>2 DEF Watches
<1>3. /\ q.index = [p.index EXCEPT ![Conn] = "kNew"]
      /\ q.channels = {m \in p.channels : m.fd # Fd}
      /\ q.epoll = IF p.index[Conn] = "kAdded" THEN {w \in p.epoll : w.fd # Fd} ELSE p.epoll
      /\ q.fatal = FALSE
      /\ q = [index |-> q.index, channels |-> q.channels, epoll |-> q.epoll, fatal |-> q.fatal]
  BY <1>1 DEF RemoveChannel, EpollCtl, Watches, PollerRecords
<1> HIDE DEF q
<1>4. q.channels = {} /\ q.epoll = {}
  BY <1>2, <1>3
<1>5. q.index \in [{Conn} -> Indices] /\ q.index[Conn] = "kNew"
  BY <1>1, <1>3 DEF PollerRecords, Indices
<1>6. q \in PollerRecords
  BY <1>3, <1>4, <1>5 DEF PollerRecords
<1> QED
  BY <1>3, <1>4, <1>5, <1>6 DEF Agrees, q

\* HandleEventWithGuard calls read at most once, and close only if nothing can be read.
LEMMA HandlersAre ==
    ASSUME NEW revents
    PROVE  /\ Handlers(revents) \in Seq(HandlerNames)
           /\ \A i, j \in DOMAIN Handlers(revents) :
                 Handlers(revents)[i] = "read" /\ Handlers(revents)[j] = "read" => i = j
           /\ "IN" \in revents => \A i \in DOMAIN Handlers(revents) : Handlers(revents)[i] # "close"
<1> DEFINE Call(h) == IF Called(h, revents) THEN <<h>> ELSE <<>>
           front == Call("close") \o Call("error")
           s == (front \o Call("read")) \o Call("write")
<1>1. Handlers(revents) = s
  BY DEF Handlers
<1>2. \A h \in HandlerNames : Call(h) \in Seq(HandlerNames) /\ (Call(h) = <<h>> \/ Call(h) = <<>>)
  <2>1. \A h : Call(h) = <<h>> \/ Call(h) = <<>>
    OBVIOUS
  <2>2. <<>> \in Seq(HandlerNames) /\ \A h \in HandlerNames : <<h>> \in Seq(HandlerNames)
    OBVIOUS
  <2> HIDE DEF Call
  <2> QED
    BY <2>1, <2>2
<1>3. "IN" \in revents => Call("close") = <<>>
  <2>1. "IN" \in revents => ~Called("close", revents)
    BY DEF Called
  <2> QED
    BY <2>1
<1> HIDE DEF Call
<1>4. /\ front \in Seq(HandlerNames)
      /\ \A i \in DOMAIN front : front[i] # "read"
      /\ "IN" \in revents => \A i \in DOMAIN front : front[i] # "close"
  BY <1>2, <1>3 DEF HandlerNames
<1> HIDE DEF front
<1>5. /\ s \in Seq(HandlerNames)
      /\ \A i \in DOMAIN s : s[i] = "read" => i = Len(front) + 1
      /\ "IN" \in revents => \A i \in DOMAIN s : s[i] # "close"
  <2>1. "read" \in HandlerNames /\ "write" \in HandlerNames
    BY DEF HandlerNames
  <2>2. CASE Call("read") = <<"read">> /\ Call("write") = <<"write">>
    BY <1>2, <1>4, <2>1, <2>2
  <2>3. CASE Call("read") = <<"read">> /\ Call("write") = <<>>
    BY <1>2, <1>4, <2>1, <2>3
  <2>4. CASE Call("read") = <<>> /\ Call("write") = <<"write">>
    BY <1>2, <1>4, <2>1, <2>4
  <2>5. CASE Call("read") = <<>> /\ Call("write") = <<>>
    BY <1>2, <1>4, <2>1, <2>5
  <2> QED
    BY <1>2, <2>1, <2>2, <2>3, <2>4, <2>5
<1> HIDE DEF s
<1> QED
  BY <1>1, <1>5

\* Without a hang-up, close is not called.
LEMMA QuietHandlers ==
    ASSUME NEW revents, "HUP" \notin revents
    PROVE  ~Calls(Handlers(revents), "close")
<1> DEFINE Call(h) == IF Called(h, revents) THEN <<h>> ELSE <<>>
           a == Call("error")
           b == Call("read")
           c == Call("write")
<1>1. ~Called("close", revents)
  BY DEF Called
<1>2. Handlers(revents) = ((<<>> \o a) \o b) \o c
  BY <1>1 DEF Handlers
<1>3. /\ a = <<"error">> \/ a = <<>>
      /\ b = <<"read">> \/ b = <<>>
      /\ c = <<"write">> \/ c = <<>>
  OBVIOUS
<1> HIDE DEF a, b, c
<1>4. \A i \in DOMAIN (((<<>> \o a) \o b) \o c) : (((<<>> \o a) \o b) \o c)[i] # "close"
  BY <1>3
<1> QED
  BY <1>2, <1>4 DEF Calls

-----------------------------------------------------------------------------
(* Bytes and functors.                                                     *)

\* A sequence is its first n elements and the others.
LEMMA Split ==
    ASSUME NEW S, NEW t \in Seq(S), NEW n \in 0..Len(t)
    PROVE  /\ SubSeq(t, 1, n) \in Seq(S) /\ SubSeq(t, n + 1, Len(t)) \in Seq(S)
           /\ SubSeq(t, 1, n) \o SubSeq(t, n + 1, Len(t)) = t
<1>1. n \in Nat /\ Len(t) \in Nat /\ n <= Len(t)
  OBVIOUS
<1>2. SubSeq(t, 1, n) \in Seq(S) /\ SubSeq(t, n + 1, Len(t)) \in Seq(S)
  BY <1>1
<1>3. 1 \in 1..(Len(t) + 1) /\ n \in (1 - 1)..Len(t) /\ Len(t) \in n..Len(t)
  BY <1>1
<1>4. SubSeq(t, 1, n) \o SubSeq(t, n + 1, Len(t)) = SubSeq(t, 1, Len(t))
  BY <1>3, ConcatAdjacentSubSeq
<1> QED
  BY <1>2, <1>4, SubSeqFull

\* The bytes of a message.
LEMMA MsgIs ==
    ASSUME NEW m \in Nat
    PROVE  Msg(m) \in Seq(Bytes) /\ Len(Msg(m)) = m
  BY DEF Msg, Bytes

\* write() takes no more than it is given, and no more than there is room for.
LEMMA TakesIs ==
    ASSUME socket \in Sockets, NEW n \in Nat
    PROVE  /\ Takes(n) \in 0..n
           /\ AfterWrite(n) \in Sockets
           /\ AfterWrite(n).rcv = socket.rcv /\ AfterWrite(n).sent = socket.sent
           /\ AfterWrite(n).fin = socket.fin /\ AfterWrite(n).rst = socket.rst
<1>1. Takes(n) \in Nat /\ Takes(n) <= n /\ Takes(n) <= socket.room /\ socket.room - Takes(n) \in Nat
  BY DEF Takes, Smaller, Sockets
<1> DEFINE e == socket.err /\ ~(socket.shut \/ socket.rst)
           r == socket.room - Takes(n)
<1>2. AfterWrite(n) = [socket EXCEPT !.room = r, !.err = e]
  BY DEF AfterWrite
<1>3. e \in BOOLEAN /\ r \in Nat
  BY <1>1
<1> HIDE DEF e, r
<1>4. AfterWrite(n) = [rcv |-> socket.rcv, sent |-> socket.sent, fin |-> socket.fin,
                       rst |-> socket.rst, err |-> e, shut |-> socket.shut, room |-> r]
  BY <1>2 DEF Sockets
<1> HIDE DEF AfterWrite
<1> QED
  BY <1>1, <1>3, <1>4 DEF Sockets

\* What SendInLoop(m, q) does: order is kept, the input side is left alone, at most a
\* notification is queued, and a closed connection's channel is not touched.
LEMMA SendEffect ==
    ASSUME Types, NEW m \in Msgs, NEW q \in Seq(Functors), SendInLoop(m, q)
    PROVE  /\ output_buffer_' \in Seq(Bytes) /\ accepted' \in Seq(Bytes) /\ written' \in Seq(Bytes)
           /\ BytesInOrder => BytesInOrder'
           /\ socket' \in Sockets /\ socket'.rcv = socket.rcv
           /\ socket'.fin = socket.fin /\ socket'.rst = socket.rst
           /\ \/ queue' = q
              \/ \E k \in {"write_complete", "high_water_mark"} : queue' = Append(q, Functor(k))
           /\ UNCHANGED channel \/ (state_ # "kDisconnected" /\ Update(events_ \cup {"OUT"}))
<1>1. CASE GivesUp
  BY <1>1 DEF SendInLoop, GivesUp, Types, channel, bytes, BytesInOrder
<1>2. CASE ~GivesUp
  <2> DEFINE nwrote == IF WritesDirectly THEN Takes(m) ELSE 0
             a == SubSeq(Msg(m), 1, nwrote)
             b == SubSeq(Msg(m), nwrote + 1, m)
  <2>1. /\ socket' = IF WritesDirectly THEN AfterWrite(m) ELSE socket
        /\ written' = written \o a
        /\ output_buffer_' = output_buffer_ \o b
        /\ accepted' = accepted \o Msg(m)
    BY <1>2 DEF SendInLoop
  <2>2. /\ \/ queue' = q
           \/ \E k \in {"write_complete", "high_water_mark"} : queue' = Append(q, Functor(k))
        /\ UNCHANGED channel \/ (state_ # "kDisconnected" /\ Update(events_ \cup {"OUT"}))
    <3> DEFINE remaing == m - nwrote
               old_len == Len(output_buffer_)
    <3>1. queue' = CASE remaing = 0 -> Append(q, Functor("write_complete"))
                     [] remaing > 0 /\ old_len < high_water_mark_
                          /\ old_len + remaing >= high_water_mark_ ->
                            Append(q, Functor("high_water_mark"))
                     [] OTHER -> q
      BY <1>2 DEF SendInLoop
    <3>2. UNCHANGED channel \/ Update(events_ \cup {"OUT"})
      BY <1>2 DEF SendInLoop
    <3> HIDE DEF remaing, old_len
    <3> QED
      BY <1>2, <3>1, <3>2 DEF GivesUp
  <2>3. m \in Nat
    BY ConnectionAssumption
  <2>4. /\ nwrote \in 0..m
        /\ AfterWrite(m) \in Sockets /\ AfterWrite(m).rcv = socket.rcv
        /\ AfterWrite(m).fin = socket.fin /\ AfterWrite(m).rst = socket.rst
    BY <2>3, TakesIs DEF Types
  <2>5. socket' \in Sockets /\ socket'.rcv = socket.rcv
        /\ socket'.fin = socket.fin /\ socket'.rst = socket.rst
    BY <2>1, <2>4 DEF Types
  <2>6. a \in Seq(Bytes) /\ b \in Seq(Bytes) /\ a \o b = Msg(m) /\ Msg(m) \in Seq(Bytes)
    <3>1. Msg(m) \in Seq(Bytes) /\ nwrote \in 0..Len(Msg(m)) /\ Len(Msg(m)) = m
      BY <2>3, <2>4, MsgIs
    <3> HIDE DEF nwrote
    <3> QED
      BY <3>1, Split
  <2>7. a = <<>> \/ output_buffer_ = <<>>
    <3>1. CASE WritesDirectly
      BY <3>1 DEF WritesDirectly
    <3>2. CASE ~WritesDirectly
      BY <3>2, <2>6
    <3> QED
      BY <3>1, <3>2
  <2> HIDE DEF nwrote, a, b
  <2>8. output_buffer_' \in Seq(Bytes) /\ accepted' \in Seq(Bytes) /\ written' \in Seq(Bytes)
    BY <2>1, <2>6, ConcatProperties DEF Types
  <2>9. BytesInOrder => BytesInOrder'
    <3>1. (written \o a) \o (output_buffer_ \o b) = (written \o output_buffer_) \o (a \o b)
      <4>1. written \in Seq(Bytes) /\ output_buffer_ \in Seq(Bytes)
        BY DEF Types
      <4>2. a \in Seq(Bytes) /\ b \in Seq(Bytes)
        BY <2>6
      <4>3. PICK w, o, x, y : w = written /\ o = output_buffer_ /\ x = a /\ y = b
        OBVIOUS
      <4>4. w \in Seq(Bytes) /\ o \in Seq(Bytes) /\ x \in Seq(Bytes) /\ y \in Seq(Bytes)
        BY <4>1, <4>2, <4>3
      <4>5. (w \o o) \o y = w \o (o \o y) /\ (w \o x) \o y = w \o (x \o y)
        <5>1. \A p, r, t \in Seq(Bytes) : (p \o r) \o t = p \o (r \o t)
          BY ConcatAssociative
        <5> QED
          BY <4>4, <5>1
      <4>6. (w \o x) \o (o \o y) = (w \o o) \o (x \o y)
        <5>1. CASE x = <<>>
          <6>1. w \o x = w /\ x \o y = y
            BY <4>4, <5>1, ConcatEmptySeq
          <6> QED
            BY <4>5, <6>1, Zenon
        <5>2. CASE o = <<>>
          <6>1. w \o o = w /\ o \o y = y
            BY <4>4, <5>2, ConcatEmptySeq
          <6> QED
            BY <4>5, <6>1, Zenon
        <5> QED
          BY <2>7, <4>3, <5>1, <5>2
      <4> QED
        BY <4>3, <4>6, Zenon
    <3> QED
      BY <2>1, <2>6, <3>1 DEF BytesInOrder
  <2> QED
    BY <2>2, <2>5, <2>8, <2>9
<1> QED
  BY <1>1, <1>2

\* The functors, their kinds and their messages.
LEMMA FunctorTypes ==
    /\ \A k \in {"established", "shutdown", "write_complete", "high_water_mark", "destroyed"} :
          Functor(k) \in Functors /\ Functor(k).kind = k
    /\ \A m \in Msgs : SendFunctor(m) \in Functors /\ SendFunctor(m).kind = "send"
    /\ \A f \in Functors : f.kind = "send" => f.msg \in Msgs
  BY DEF Functor, SendFunctor, Functors

\* Where a user's call can be.
LEMMA UserTypes ==
    /\ \A k \in {"idle", "shutdown", "set", "left"} : [pc |-> k] \in UserRecords
    /\ \A m \in Msgs : [pc |-> "send", msg |-> m] \in UserRecords
    /\ \A r \in UserRecords : r.pc = "send" => r.msg \in Msgs
  BY DEF UserRecords

\* What the operating system and the peer do to the socket.
LEMMA SocketTypes ==
    ASSUME NEW s \in Sockets
    PROVE  /\ \A n \in Nat : [s EXCEPT !.rcv = n] \in Sockets
           /\ \A n \in Nat : [s EXCEPT !.room = n] \in Sockets
           /\ \A n, m \in Nat : [s EXCEPT !.rcv = n, !.sent = m] \in Sockets
           /\ [s EXCEPT !.fin = TRUE] \in Sockets
           /\ [s EXCEPT !.rst = TRUE, !.err = TRUE] \in Sockets
           /\ [s EXCEPT !.err = FALSE] \in Sockets
           /\ \A e : AfterShutdownInLoop(s, e) \in Sockets
           /\ \A e : /\ AfterShutdownInLoop(s, e).rcv = s.rcv
                     /\ AfterShutdownInLoop(s, e).fin = s.fin
                     /\ AfterShutdownInLoop(s, e).rst = s.rst
<1>1. ASSUME NEW e
      PROVE  /\ AfterShutdownInLoop(s, e) \in Sockets
             /\ AfterShutdownInLoop(s, e).rcv = s.rcv
             /\ AfterShutdownInLoop(s, e).fin = s.fin
             /\ AfterShutdownInLoop(s, e).rst = s.rst
  <2> DEFINE b == s.shut \/ ~IsWriteEvent(e)
  <2>1. AfterShutdownInLoop(s, e) = [s EXCEPT !.shut = b]
    BY DEF AfterShutdownInLoop
  <2>2. b \in BOOLEAN
    OBVIOUS
  <2> HIDE DEF b
  <2> QED
    BY <2>1, <2>2 DEF Sockets
<1> QED
  BY <1>1 DEF Sockets

\* The variables are typed in the initial state.
LEMMA TypesInit == Init => Types
<1> SUFFICES ASSUME Init PROVE Types
  OBVIOUS
<1>1. queue \in Seq(Functors)
  BY FunctorTypes DEF Init
<1>2. user \in [Users -> UserRecords]
  BY UserTypes DEF Init
<1>3. socket \in Sockets
  BY ConnectionAssumption DEF Init, Sockets
<1>4. /\ output_buffer_ \in Seq(Bytes) /\ accepted \in Seq(Bytes) /\ written \in Seq(Bytes)
      /\ todo \in Seq(HandlerNames)
  BY DEF Init
<1>5. server \in Servers
  BY DEF Init, Servers
<1> QED
  BY <1>1, <1>2, <1>3, <1>4, <1>5 DEF Init, Types, States

\* The steps of the socket keep the types.
LEMMA TypesPeer == Types /\ PeerStep => Types'
<1> SUFFICES ASSUME Types, PeerStep PROVE Types'
  OBVIOUS
<1>1. socket' \in Sockets
  <2>1. socket \in Sockets /\ socket.rcv + 1 \in Nat /\ socket.sent + 1 \in Nat /\ socket.room + 1 \in Nat
    BY DEF Types, Sockets
  <2>2. CASE PeerSends
    BY <2>1, <2>2, SocketTypes DEF PeerSends
  <2>3. CASE PeerCloses
    BY <2>1, <2>3, SocketTypes DEF PeerCloses
  <2>4. CASE PeerResets
    BY <2>1, <2>4, SocketTypes DEF PeerResets
  <2>5. CASE PeerReads
    BY <2>1, <2>5, SocketTypes DEF PeerReads
  <2> QED
    BY <2>2, <2>3, <2>4, <2>5 DEF PeerStep
<1> QED
  BY <1>1 DEF Types, PeerStep, PeerSends, PeerCloses, PeerResets, PeerReads,
              channel, bytes, loop, history

\* A functor that runs is the oldest one.
LEMMA RunsHead ==
    ASSUME Types, NEW k, Runs(k)
    PROVE  /\ queue # <<>> /\ Len(queue) \in Nat \ {0} /\ Head(queue) = queue[1] /\ queue[1].kind = k
           /\ queue[1] \in Functors
           /\ Tail(queue) \in Seq(Functors) /\ Len(Tail(queue)) = Len(queue) - 1
           /\ \A i \in 1..(Len(queue) - 1) : Tail(queue)[i] = queue[i + 1]
           /\ todo = <<>> /\ callback = "none"
  BY DEF Types, Runs, Idle

\* A handler that is called is the first of those to be called.
LEMMA HandlesHead ==
    ASSUME Types, NEW h, Handles(h)
    PROVE  /\ todo # <<>> /\ Len(todo) \in Nat \ {0} /\ todo[1] = h
           /\ Tail(todo) \in Seq(HandlerNames) /\ Len(Tail(todo)) = Len(todo) - 1
           /\ \A i \in 1..(Len(todo) - 1) : Tail(todo)[i] = todo[i + 1]
           /\ callback = "none"
  BY DEF Types, Handles

\* SendInLoop keeps the types of what it changes.
LEMMA SendTypes ==
    ASSUME Types, NEW m \in Msgs, NEW q \in Seq(Functors), SendInLoop(m, q)
    PROVE  /\ output_buffer_' \in Seq(Bytes) /\ accepted' \in Seq(Bytes) /\ written' \in Seq(Bytes)
           /\ socket' \in Sockets /\ queue' \in Seq(Functors) /\ events_' \in SUBSET Interests
<1>1. /\ output_buffer_' \in Seq(Bytes) /\ accepted' \in Seq(Bytes) /\ written' \in Seq(Bytes)
      /\ socket' \in Sockets
  BY SendEffect
<1>2. \/ queue' = q
      \/ \E k \in {"write_complete", "high_water_mark"} : queue' = Append(q, Functor(k))
  BY SendEffect
<1>3. \/ queue' = q \/ queue' = Append(q, Functor("write_complete"))
      \/ queue' = Append(q, Functor("high_water_mark"))
  BY <1>2
<1>4. Functor("write_complete") \in Functors /\ Functor("high_water_mark") \in Functors
  BY FunctorTypes
<1>5. queue' \in Seq(Functors)
  BY <1>3, <1>4
<1>6. UNCHANGED channel \/ Update(events_ \cup {"OUT"})
  BY SendEffect
<1>7. events_' \in SUBSET Interests
  BY <1>6 DEF channel, Update, Types, Interests
<1> QED
  BY <1>1, <1>5, <1>7

\* The functors keep the types.
LEMMA TypesFunctor == Types /\ RunFunctor => Types'
<1> SUFFICES ASSUME Types, RunFunctor PROVE Types'
  OBVIOUS
<1>1. CASE ConnectEstablished
  <2>1. Tail(queue) \in Seq(Functors) /\ events_ \cup {"IN"} \in SUBSET Interests
    BY <1>1, RunsHead DEF ConnectEstablished, Types, Interests
  <2> QED
    BY <1>1, <2>1 DEF ConnectEstablished, Update, Types, States, bytes, history
<1>2. CASE RunSend
  <2>1. Tail(queue) \in Seq(Functors) /\ Head(queue).msg \in Msgs
    BY <1>2, RunsHead, FunctorTypes DEF RunSend
  <2>2. PICK m, q : m = Head(queue).msg /\ q = Tail(queue)
    OBVIOUS
  <2>3. m \in Msgs /\ q \in Seq(Functors) /\ SendInLoop(m, q)
    BY <1>2, <2>1, <2>2 DEF RunSend
  <2> QED
    BY <1>2, <2>3, SendTypes DEF RunSend, Types, history
<1>3. CASE RunShutdown
  BY <1>3, RunsHead, SocketTypes DEF RunShutdown, Types, channel, bytes, history
<1>4. CASE RunNotification
  BY <1>4, RunsHead DEF RunNotification, Types, channel, bytes, history
<1>5. CASE ConnectDestroyed
  BY <1>5, RunsHead DEF ConnectDestroyed, Update, Types, States, bytes
<1>6. CASE ConnectDestroyedRemove
  BY <1>6, RunsHead DEF ConnectDestroyedRemove, Types, bytes, history
<1> QED
  BY <1>1, <1>2, <1>3, <1>4, <1>5, <1>6 DEF RunFunctor

\* What HandleWrite does to the bytes and to the socket.
LEMMA WriteEffect ==
    ASSUME Types, HandleWrite
    PROVE  /\ output_buffer_' \in Seq(Bytes) /\ written' \in Seq(Bytes)
           /\ BytesInOrder => BytesInOrder'
           /\ socket' \in Sockets /\ socket'.rcv = socket.rcv
           /\ socket'.fin = socket.fin /\ socket'.rst = socket.rst
           /\ queue' = queue \/ queue' = Append(queue, Functor("write_complete"))
           /\ UNCHANGED channel \/ Update(events_ \ {"OUT"})
<1> DEFINE out == output_buffer_
           n == Takes(Len(out))
           after == AfterWrite(Len(out))
<1>1. /\ written' = written \o SubSeq(out, 1, n)
      /\ output_buffer_' = SubSeq(out, n + 1, Len(out))
      /\ queue' = queue \/ queue' = Append(queue, Functor("write_complete"))
      /\ UNCHANGED channel \/ Update(events_ \ {"OUT"})
      /\ socket' = after \/ socket' = AfterShutdownInLoop(after, events_ \ {"OUT"})
      /\ accepted' = accepted
  BY DEF HandleWrite
<1>2. out \in Seq(Bytes) /\ Len(out) \in Nat /\ written \in Seq(Bytes)
  BY DEF Types
<1>3. /\ n \in 0..Len(out)
      /\ after \in Sockets /\ after.rcv = socket.rcv
      /\ after.fin = socket.fin /\ after.rst = socket.rst
  BY <1>2, TakesIs DEF Types
<1> HIDE DEF n, after
<1>4. socket' \in Sockets /\ socket'.rcv = socket.rcv
      /\ socket'.fin = socket.fin /\ socket'.rst = socket.rst
  <2> DEFINE ev == events_ \ {"OUT"}
             last == AfterShutdownInLoop(after, ev)
  <2>1. last \in Sockets /\ last.rcv = after.rcv /\ last.fin = after.fin /\ last.rst = after.rst
    <3> HIDE DEF ev
    <3> QED
      BY <1>3, SocketTypes
  <2>2. socket' = after \/ socket' = last
    BY <1>1
  <2> HIDE DEF last
  <2> QED
    BY <1>3, <2>1, <2>2
<1>5. PICK o, a, b, w : o = out /\ a = SubSeq(out, 1, n) /\ b = SubSeq(out, n + 1, Len(out)) /\ w = written
  OBVIOUS
<1>6. a \in Seq(Bytes) /\ b \in Seq(Bytes) /\ a \o b = o /\ w \in Seq(Bytes)
  BY <1>2, <1>3, <1>5, Split
<1>7. written' \in Seq(Bytes) /\ output_buffer_' \in Seq(Bytes)
  BY <1>1, <1>5, <1>6, ConcatProperties
<1>8. (w \o a) \o b = w \o o
  <2>1. \A p, r, t \in Seq(Bytes) : (p \o r) \o t = p \o (r \o t)
    BY ConcatAssociative
  <2>2. (w \o a) \o b = w \o (a \o b)
    BY <1>6, <2>1
  <2> QED
    BY <1>6, <2>2
<1>9. BytesInOrder => BytesInOrder'
  <2>1. written' = w \o a /\ output_buffer_' = b /\ written \o output_buffer_ = w \o o
    BY <1>1, <1>5
  <2> QED
    BY <1>1, <1>8, <2>1, Zenon DEF BytesInOrder
<1> QED
  BY <1>1, <1>4, <1>7, <1>9

\* The poll and the handlers keep the types.
LEMMA TypesHandler == Types /\ (Poll \/ Handler) => Types'
<1> SUFFICES ASSUME Types, Poll \/ Handler PROVE Types'
  OBVIOUS
<1>1. CASE Poll
  <2>1. todo' \in Seq(HandlerNames)
    BY <1>1, HandlersAre DEF Poll
  <2> QED
    BY <1>1, <2>1 DEF Poll, Types, channel, bytes, history
<1>2. CASE HandleClose
  BY <1>2, HandlesHead DEF HandleClose, Closes, AfterClose, Update, Types, States, bytes
<1>3. CASE HandleError
  BY <1>3, HandlesHead, SocketTypes DEF HandleError, Types, channel, bytes, history
<1>4. ASSUME NEW n \in 1..PeerBytes, HandleRead(n) PROVE Types'
  <2>1. n \in Nat /\ socket.rcv - n \in Nat /\ input_buffer_ + n \in Nat
    BY <1>4, ConnectionAssumption DEF HandleRead, Types, Sockets
  <2>2. socket' \in Sockets
    BY <1>4, <2>1, SocketTypes DEF HandleRead, Types
  <2> QED
    BY <1>4, <2>1, <2>2, HandlesHead DEF HandleRead, Types, channel, bytes, history
<1>5. CASE HandleReadEnd
  BY <1>5, HandlesHead DEF HandleReadEnd, Closes, AfterClose, Update, Types, States, bytes
<1>6. CASE HandleReadFails
  BY <1>6, HandlesHead, SocketTypes DEF HandleReadFails, Types, channel, bytes, history
<1>7. CASE HandleWrite
  <2>1. Tail(todo) \in Seq(HandlerNames)
    BY <1>7, HandlesHead DEF HandleWrite
  <2>2. /\ todo' = Tail(todo)
        /\ UNCHANGED <<state_, accepted, input_buffer_, callback, server, user, unsent, history>>
    BY <1>7 DEF HandleWrite
  <2>3. queue' \in Seq(Functors)
    <3>1. queue' = queue \/ queue' = Append(queue, Functor("write_complete"))
      BY <1>7, WriteEffect
    <3>2. Functor("write_complete") \in Functors /\ queue \in Seq(Functors)
      BY FunctorTypes DEF Types
    <3> QED
      BY <3>1, <3>2
  <2>4. events_' \in SUBSET Interests
    BY <1>7, WriteEffect DEF Update, channel, Types, Interests
  <2> QED
    BY <1>7, <2>1, <2>2, <2>3, <2>4, WriteEffect DEF Types, history
<1>8. CASE HandleWriteDown
  BY <1>8, HandlesHead DEF HandleWriteDown, Types, channel, bytes, history
<1> QED
  BY <1>1, <1>2, <1>3, <1>4, <1>5, <1>6, <1>7, <1>8 DEF Handler

\* The callbacks and their returns keep the types.
LEMMA TypesCallback == Types /\ (Return \/ CallbackStep) => Types'
<1> SUFFICES ASSUME Types, Return \/ CallbackStep PROVE Types'
  OBVIOUS
<1>1. CASE CallbackReturns
  BY <1>1 DEF CallbackReturns, Types, channel, bytes, history
<1>2. CASE CloseReturns
  <2>1. server' \in Servers
    BY <1>2 DEF CloseReturns, Types, Servers
  <2> QED
    BY <1>2, <2>1 DEF CloseReturns, Types, channel, bytes, history
<1>3. CASE DestroyReturns
  BY <1>3 DEF DestroyReturns, Types, channel, bytes, history
<1>4. ASSUME NEW m \in Msgs, SendInCallback(m) PROVE Types'
  <2>1. queue \in Seq(Functors) /\ SendInLoop(m, queue)
    BY <1>4 DEF SendInCallback, Types
  <2>2. PICK q : q = queue
    OBVIOUS
  <2>3. q \in Seq(Functors) /\ SendInLoop(m, q)
    BY <2>1, <2>2
  <2> QED
    BY <1>4, <2>3, SendTypes DEF SendInCallback, Types, history
<1>5. CASE ShutdownInCallback
  BY <1>5, SocketTypes DEF ShutdownInCallback, Types, States, channel, bytes, loop, history
<1> QED
  BY <1>1, <1>2, <1>3, <1>4, <1>5 DEF Return, CallbackStep

\* The server and the other threads keep the types.
LEMMA TypesOthers ==
    Types /\ (RemoveConnectionInLoop \/ ServerEnds \/ \E u \in Users : UserCall(u) \/ UserStep(u)) => Types'
<1> SUFFICES ASSUME Types,
                    RemoveConnectionInLoop \/ ServerEnds \/ \E u \in Users : UserCall(u) \/ UserStep(u)
             PROVE  Types'
  OBVIOUS
<1>1. Functor("destroyed") \in Functors /\ Functor("shutdown") \in Functors
  BY FunctorTypes
<1>2. CASE RemoveConnectionInLoop
  <2>1. server' \in Servers
    <3>1. server \in Servers /\ server.asked - 1 \in Nat
      BY <1>2 DEF RemoveConnectionInLoop, Types, Servers
    <3> QED
      BY <1>2, <3>1 DEF RemoveConnectionInLoop, Servers
  <2> QED
    BY <1>1, <1>2, <2>1 DEF RemoveConnectionInLoop, Types, channel, bytes, history
<1>3. CASE ServerEnds
  <2>1. server' \in Servers
    BY <1>3 DEF ServerEnds, Types, Servers
  <2> QED
    BY <1>1, <1>3, <2>1 DEF ServerEnds, Types, channel, bytes, history
<1>4. ASSUME NEW u \in Users, NEW m \in Msgs, Send(u, m) PROVE Types'
  BY <1>4, UserTypes DEF Send, Types, channel, bytes, loop, history
<1>5. ASSUME NEW u \in Users, SendQueue(u) PROVE Types'
  <2>1. SendFunctor(user[u].msg) \in Functors
    BY <1>5, UserTypes, FunctorTypes DEF SendQueue, Types
  <2> QED
    BY <1>5, <2>1, UserTypes DEF SendQueue, Types, channel, bytes, history
<1>6. ASSUME NEW u \in Users, Shutdown(u) PROVE Types'
  BY <1>6, UserTypes DEF Shutdown, Types, channel, bytes, loop, history
<1>7. ASSUME NEW u \in Users, ShutdownSetState(u) PROVE Types'
  BY <1>7, UserTypes DEF ShutdownSetState, Types, States, channel, bytes, loop
<1>8. ASSUME NEW u \in Users, ShutdownQueue(u) PROVE Types'
  BY <1>1, <1>8, UserTypes DEF ShutdownQueue, Types, channel, bytes
<1>9. ASSUME NEW u \in Users, Leave(u) PROVE Types'
  BY <1>9, UserTypes DEF Leave, Types, channel, bytes, loop, history
<1> QED
  BY <1>2, <1>3, <1>4, <1>5, <1>6, <1>7, <1>8, <1>9 DEF UserCall, UserStep

\* Every step keeps the types.
LEMMA TypesStep == Types /\ [Next]_vars => Types'
<1> SUFFICES ASSUME Types, [Next]_vars PROVE Types'
  OBVIOUS
<1>1. CASE Next
  BY <1>1, TypesPeer, TypesFunctor, TypesHandler, TypesCallback, TypesOthers DEF Next
<1>2. CASE UNCHANGED vars
  BY <1>2 DEF vars, channel, bytes, loop, history, Types
<1> QED
  BY <1>1, <1>2

-----------------------------------------------------------------------------
(* Interests and bytes.                                                    *)

\* New interests reach the kernel.
LEMMA UpdateEffect ==
    ASSUME Registered, NEW ev \in SUBSET Interests, Update(ev)
    PROVE  /\ Registered' /\ events_' = ev
           /\ Index' = IF Index = "kAdded" /\ ev = {} THEN "kDeleted" ELSE "kAdded"
  BY PollerUpdated DEF Registered, Update, Index

\* Removing the channel leaves its interests as they are.
LEMMA RemoveEffect ==
    ASSUME Registered, poller' = RemoveChannel(poller, Conn, Fd), events_' = events_
    PROVE  Registered' /\ Index' = "kNew"
  BY PollerRemoved DEF Registered, Index

\* Index_ and interests of the channel that SendInLoop leaves.
LEMMA SendChannel ==
    ASSUME Types, Registered, NEW m \in Msgs, NEW q \in Seq(Functors), SendInLoop(m, q)
    PROVE  /\ Registered'
           /\ \/ Index' = Index /\ events_' = events_
              \/ state_ # "kDisconnected" /\ Index' = "kAdded" /\ events_' = events_ \cup {"OUT"}
<1>1. CASE UNCHANGED channel
  BY <1>1 DEF channel, Registered, Index
<1>2. CASE state_ # "kDisconnected" /\ Update(events_ \cup {"OUT"})
  <2>1. PICK ev : ev = events_ \cup {"OUT"}
    OBVIOUS
  <2>2. ev \in SUBSET Interests /\ ev # {} /\ Update(ev)
    BY <1>2, <2>1 DEF Types, Interests
  <2> QED
    BY <1>2, <2>1, <2>2, UpdateEffect
<1> QED
  BY <1>1, <1>2, SendEffect

\* The channel of the handler that only some Shutdown call makes possible.
LEMMA WriteChannel ==
    ASSUME Types, Registered, HandleWrite
    PROVE  Registered'
<1>1. CASE UNCHANGED channel
  BY <1>1 DEF channel, Registered
<1>2. CASE Update(events_ \ {"OUT"})
  <2>1. PICK ev : ev = events_ \ {"OUT"}
    OBVIOUS
  <2>2. ev \in SUBSET Interests /\ Update(ev)
    BY <1>2, <2>1 DEF Types
  <2> QED
    BY <2>2, UpdateEffect
<1> QED
  BY <1>1, <1>2, WriteEffect

\* The new channel has no interests, and the poller does not know it.
LEMMA RegisteredInit == Init => Registered
  BY DEF Init, Registered, Agrees, PollerRecords, NewPoller, Indices

\* Every step leaves the poller with the channel's interests.
LEMMA RegisteredStep == Types /\ Registered /\ [Next]_vars => Registered'
<1> SUFFICES ASSUME Types, Registered, [Next]_vars PROVE Registered'
  OBVIOUS
<1>1. CASE UNCHANGED channel
  BY <1>1 DEF channel, Registered
<1>2. CASE ConnectEstablished
  <2>1. PICK ev : ev = events_ \cup {"IN"}
    OBVIOUS
  <2>2. ev \in SUBSET Interests /\ Update(ev)
    BY <1>2, <2>1 DEF ConnectEstablished, Types, Interests
  <2> QED
    BY <2>2, UpdateEffect
<1>3. CASE RunSend
  <2>1. PICK m, q : m = Head(queue).msg /\ q = Tail(queue)
    OBVIOUS
  <2>2. Tail(queue) \in Seq(Functors) /\ Head(queue).msg \in Msgs
    BY <1>3, RunsHead, FunctorTypes DEF RunSend
  <2>3. m \in Msgs /\ q \in Seq(Functors) /\ SendInLoop(m, q)
    BY <1>3, <2>1, <2>2 DEF RunSend
  <2> QED
    BY <2>3, SendChannel
<1>4. ASSUME NEW m \in Msgs, SendInCallback(m) PROVE Registered'
  <2>1. PICK q : q = queue
    OBVIOUS
  <2>2. q \in Seq(Functors) /\ SendInLoop(m, q)
    BY <1>4, <2>1 DEF SendInCallback, Types
  <2> QED
    BY <2>2, SendChannel
<1>5. CASE ConnectDestroyed \/ HandleClose \/ HandleReadEnd
  <2>1. PICK ev : ev = {}
    OBVIOUS
  <2>2. ev \in SUBSET Interests /\ Update(ev)
    BY <1>5, <2>1 DEF ConnectDestroyed, HandleClose, HandleReadEnd, Closes
  <2> QED
    BY <2>2, UpdateEffect
<1>6. CASE ConnectDestroyedRemove \/ DestroyReturns
  BY <1>6, RemoveEffect DEF ConnectDestroyedRemove, DestroyReturns
<1>7. CASE HandleWrite
  BY <1>7, WriteChannel
<1> QED
  BY <1>1, <1>2, <1>3, <1>4, <1>5, <1>6, <1>7
     DEF Next, vars, RunFunctor, RunShutdown, RunNotification, Poll, Handler, HandleError, HandleRead,
         HandleReadFails, HandleWriteDown, Return, CallbackReturns, CloseReturns, CallbackStep,
         ShutdownInCallback, RemoveConnectionInLoop, ServerEnds, PeerStep, PeerSends, PeerCloses,
         PeerResets, PeerReads, UserCall, SendQueue, ShutdownSetState, ShutdownQueue, UserStep, Send,
         Shutdown, Leave

\* Every step keeps the bytes in order.
LEMMA BytesStep == Types /\ BytesInOrder /\ [Next]_vars => BytesInOrder'
<1> SUFFICES ASSUME Types, BytesInOrder, [Next]_vars PROVE BytesInOrder'
  OBVIOUS
<1>1. CASE UNCHANGED bytes
  BY <1>1 DEF bytes, BytesInOrder
<1>2. CASE RunSend
  <2>1. PICK m, q : m = Head(queue).msg /\ q = Tail(queue)
    OBVIOUS
  <2>2. Tail(queue) \in Seq(Functors) /\ Head(queue).msg \in Msgs
    BY <1>2, RunsHead, FunctorTypes DEF RunSend
  <2>3. m \in Msgs /\ q \in Seq(Functors) /\ SendInLoop(m, q)
    BY <1>2, <2>1, <2>2 DEF RunSend
  <2> QED
    BY <2>3, SendEffect
<1>3. ASSUME NEW m \in Msgs, SendInCallback(m) PROVE BytesInOrder'
  <2>1. PICK q : q = queue
    OBVIOUS
  <2>2. q \in Seq(Functors) /\ SendInLoop(m, q)
    BY <1>3, <2>1 DEF SendInCallback, Types
  <2> QED
    BY <2>2, SendEffect
<1>4. CASE HandleWrite
  BY <1>4, WriteEffect
<1> QED
  BY <1>1, <1>2, <1>3, <1>4
     DEF Next, vars, RunFunctor, ConnectEstablished, RunShutdown, RunNotification, ConnectDestroyed,
         ConnectDestroyedRemove, Poll, Handler, HandleClose, HandleError, HandleRead, HandleReadEnd,
         HandleReadFails, HandleWriteDown, Return, CallbackReturns, CloseReturns, DestroyReturns,
         CallbackStep, ShutdownInCallback, RemoveConnectionInLoop, ServerEnds, PeerStep, PeerSends,
         PeerCloses, PeerResets, PeerReads, UserCall, SendQueue, ShutdownSetState, ShutdownQueue,
         UserStep, Send, Shutdown, Leave

-----------------------------------------------------------------------------
(* What the invariant says of queue and todo.                              *)

\* Taking the oldest functor.
LEMMA TailHas ==
    ASSUME NEW s \in Seq(Functors), s # <<>>
    PROVE  /\ \A k : Has(s, k) <=> s[1].kind = k \/ Has(Tail(s), k)
           /\ Covered(s) => Covered(Tail(s))
<1> DEFINE t == Tail(s)
<1>1. /\ Len(s) \in Nat \ {0} /\ Len(t) = Len(s) - 1 /\ DOMAIN s = 1..Len(s) /\ DOMAIN t = 1..(Len(s) - 1)
      /\ \A i \in 1..(Len(s) - 1) : t[i] = s[i + 1]
  OBVIOUS
<1> HIDE DEF t
<1>2. \A i \in DOMAIN t : i + 1 \in DOMAIN s /\ t[i] = s[i + 1]
  BY <1>1
<1>3. \A i \in DOMAIN s : i = 1 \/ (i - 1 \in DOMAIN t /\ t[i - 1] = s[i])
  BY <1>1
<1>4. 1 \in DOMAIN s
  BY <1>1
<1>5. \A k : Has(s, k) <=> s[1].kind = k \/ Has(t, k)
  BY <1>2, <1>3, <1>4 DEF Has
<1>6. ASSUME Covered(s), NEW i \in DOMAIN t, t[i].kind = "shutdown"
      PROVE  \E j \in DOMAIN t : i < j /\ t[j].kind = "destroyed"
  <2>1. PICK j \in DOMAIN s : i + 1 < j /\ s[j].kind = "destroyed"
    BY <1>2, <1>6 DEF Covered
  <2>2. i \in Nat /\ j \in Nat /\ j # 1
    BY <1>1, <2>1
  <2>3. j - 1 \in DOMAIN t /\ t[j - 1].kind = "destroyed" /\ i < j - 1
    BY <1>3, <2>1, <2>2
  <2> QED
    BY <2>3
<1>7. Covered(s) => Covered(t)
  BY <1>6 DEF Covered
<1> QED
  BY <1>5, <1>7 DEF t

\* Queueing a functor.
LEMMA AppendHas ==
    ASSUME NEW s \in Seq(Functors), NEW f \in Functors
    PROVE  /\ \A k : Has(Append(s, f), k) <=> f.kind = k \/ Has(s, k)
           /\ f.kind # "shutdown" /\ Covered(s) => Covered(Append(s, f))
           /\ f.kind = "destroyed" => Covered(Append(s, f))
<1> DEFINE t == Append(s, f)
           n == Len(s) + 1
<1>1. /\ Len(s) \in Nat /\ n \in Nat /\ DOMAIN s = 1..Len(s) /\ DOMAIN t = 1..n
      /\ \A i \in 1..Len(s) : t[i] = s[i]
      /\ t[n] = f
  OBVIOUS
<1> HIDE DEF t
<1>2. /\ \A i \in DOMAIN s : i \in DOMAIN t /\ t[i] = s[i] /\ i < n
      /\ \A i \in DOMAIN t : i = n \/ i \in DOMAIN s
      /\ n \in DOMAIN t
  BY <1>1
<1> HIDE DEF n
<1>3. \A k : Has(t, k) <=> f.kind = k \/ Has(s, k)
  BY <1>1, <1>2 DEF Has
<1>4. f.kind # "shutdown" /\ Covered(s) => Covered(t)
  BY <1>1, <1>2 DEF Covered
<1>5. f.kind = "destroyed" => Covered(t)
  BY <1>1, <1>2 DEF Covered
<1> QED
  BY <1>3, <1>4, <1>5 DEF t

\* Calling the first handler.
LEMMA TailCalls ==
    ASSUME NEW t \in Seq(HandlerNames), t # <<>>
    PROVE  /\ \A h : Calls(Tail(t), h) => Calls(t, h)
           /\ ReadsOnce(t) => ReadsOnce(Tail(t))
           /\ ReadsOnce(t) /\ t[1] = "read" => ~Calls(Tail(t), "read")
           /\ Calls(t, t[1])
<1> DEFINE r == Tail(t)
<1>1. /\ Len(t) \in Nat \ {0} /\ DOMAIN t = 1..Len(t) /\ DOMAIN r = 1..(Len(t) - 1)
      /\ \A i \in 1..(Len(t) - 1) : r[i] = t[i + 1]
  OBVIOUS
<1> HIDE DEF r
<1>2. /\ \A i \in DOMAIN r : i \in Nat /\ i + 1 \in DOMAIN t /\ r[i] = t[i + 1] /\ i + 1 # 1
      /\ 1 \in DOMAIN t
  BY <1>1
<1>3. \A i, j \in DOMAIN r : i + 1 = j + 1 => i = j
  BY <1>2
<1>4. (\A h : Calls(r, h) => Calls(t, h)) /\ Calls(t, t[1])
  BY <1>2 DEF Calls
<1>5. ReadsOnce(t) => ReadsOnce(r)
  BY <1>2, <1>3 DEF ReadsOnce
<1>6. ReadsOnce(t) /\ t[1] = "read" => ~Calls(r, "read")
  BY <1>2 DEF ReadsOnce, Calls
<1> QED
  BY <1>4, <1>5, <1>6 DEF r

\* Most steps only take and queue functors, call handlers, and end or begin callbacks;
\* they may make the open connection interested in writing or start to shut it down.
LEMMA Frame ==
    ASSUME Inv, Begun,
           state_' = state_ \/ (state_ = "kConnected" /\ state_' = "kDisconnecting"),
           \/ Index' = Index /\ events_' = events_
           \/ state_ # "kDisconnected" /\ Index' = "kAdded" /\ events_' = events_ \cup {"OUT"},
           todo' = todo \/ (todo # <<>> /\ todo' = Tail(todo)),
           \/ callback' = callback
           \/ callback \notin {"close", "destroy"} /\ callback' \notin {"close", "destroy"},
           Has(queue', "established") => Has(queue, "established"),
           Has(queue', "destroyed") <=> Has(queue, "destroyed"),
           Covered(queue) => Covered(queue'),
           server' = server, downs' = downs, late' = late,
           ~late /\ callback' = "close" => socket'.rcv = 0 /\ EndOfInput'
    PROVE  Begun' /\ ClosingOK' /\ OwnedOK'
<1>1. Begun'
  BY DEF Begun, Inv, Types
<1>2. /\ \A h : Calls(todo', h) => Calls(todo, h)
      /\ ReadsOnce(todo) => ReadsOnce(todo')
      /\ todo' # <<>> => todo # <<>>
  BY TailCalls DEF Inv, Types
<1>3. ClosingOK'
  BY <1>2 DEF ClosingOK, Inv, Types
<1>4. OwnedOK'
  BY DEF OwnedOK, Undisturbed, ClosingOK, Inv, Types
<1> QED
  BY <1>1, <1>3, <1>4

-----------------------------------------------------------------------------
(* The invariant is inductive.                                             *)

\* The initial state is fresh.
LEMMA InvInit == Init => Inv
<1> SUFFICES ASSUME Init PROVE Inv
  OBVIOUS
<1>1. Types /\ Registered
  BY TypesInit, RegisteredInit
<1>2. Fresh
  BY DEF Init, Fresh, Functor, Index, NewPoller
<1>3. ClosingOK
  BY DEF Init, ClosingOK, Calls, ReadsOnce, EndOfInput
<1>4. OwnedOK
  BY DEF Init, OwnedOK, Undisturbed, Has, Functor
<1> QED
  BY <1>1, <1>2, <1>3, <1>4 DEF Inv

\* Before ConnectEstablished, only few steps are possible.
LEMMA FreshSteps ==
    ASSUME Inv, Fresh, Next
    PROVE  ConnectEstablished \/ ServerEnds \/ PeerStep \/ \E u \in Users : Leave(u)
<1>1. ~RunSend /\ ~RunShutdown /\ ~RunNotification /\ ~ConnectDestroyed /\ ~ConnectDestroyedRemove
  <2>1. Head(queue).kind = "established"
    BY DEF Fresh, Inv, Types
  <2> QED
    BY <2>1 DEF RunSend, RunShutdown, RunNotification, ConnectDestroyed, ConnectDestroyedRemove, Runs
<1>2. ~Poll
  BY DEF Poll, Fresh, Inv, Registered, Agrees, Index
<1>3. ~Handler
  BY DEF Fresh, Handler, HandleClose, HandleError, HandleReadEnd, HandleReadFails, HandleRead, HandleWrite,
         HandleWriteDown, Handles
<1>4. ~Return /\ ~CallbackStep
  BY DEF Fresh, Return, CallbackReturns, CloseReturns, DestroyReturns, CallbackStep, SendInCallback,
         ShutdownInCallback
<1>5. ~RemoveConnectionInLoop
  BY DEF Fresh, RemoveConnectionInLoop
<1>6. ASSUME NEW u \in Users, UserCall(u) \/ UserStep(u)
      PROVE  Leave(u)
  BY <1>6 DEF Fresh, UserCall, SendQueue, ShutdownSetState, ShutdownQueue, UserStep, Send, Shutdown
<1> QED
  BY <1>1, <1>2, <1>3, <1>4, <1>5, <1>6 DEF Next, RunFunctor

\* ConnectEstablished begins; every other step of a fresh connection leaves it fresh.
LEMMA InvFresh ==
    ASSUME Inv, Fresh, Next
    PROVE  (Fresh \/ Begun)' /\ ClosingOK' /\ OwnedOK'
<1>1. CASE ConnectEstablished
  <2>1. /\ queue \in Seq(Functors) /\ queue # <<>> /\ queue' = Tail(queue)
        /\ state_' = "kConnected" /\ callback' = "up" /\ todo' = <<>>
        /\ server' = server /\ downs' = 0 /\ ~late'
    BY <1>1 DEF ConnectEstablished, Inv, Types, Fresh, history
  <2>2. /\ \A i \in DOMAIN queue' : queue'[i] = queue[i + 1] /\ i + 1 \in DOMAIN queue /\ i + 1 # 1
    BY <2>1
  <2>3. \A i \in DOMAIN queue' : queue'[i].kind = "destroyed"
    BY <2>2 DEF Fresh
  <2>4. Index' = "kAdded" /\ "IN" \in events_'
    <3>1. PICK ev : ev = events_ \cup {"IN"}
      OBVIOUS
    <3>2. ev \in SUBSET Interests /\ Update(ev) /\ ev # {}
      BY <1>1, <3>1 DEF ConnectEstablished, Inv, Types, Interests
    <3> QED
      BY <3>1, <3>2, UpdateEffect DEF Inv
  <2>5. Begun'
    BY <2>1, <2>3, <2>4 DEF Begun, Has
  <2>6. ClosingOK'
    BY <2>1, <2>4 DEF ClosingOK, Calls, ReadsOnce
  <2>7. OwnedOK'
    <3>1. ASSUME Undisturbed' PROVE server'.listed /\ server'.asked = 0 /\ ~Has(queue', "destroyed")
      <4>1. Undisturbed /\ server.listed /\ server.asked = 0 /\ ~Has(queue, "destroyed")
        BY <2>1, <3>1 DEF Undisturbed, Fresh, OwnedOK, Inv
      <4>2. ~Has(Tail(queue), "destroyed")
        BY <2>1, <4>1, TailHas
      <4> QED
        BY <2>1, <4>1, <4>2
    <3> QED
      BY <2>1, <3>1 DEF OwnedOK
  <2> QED
    BY <2>5, <2>6, <2>7
<1>2. CASE ServerEnds
  <2>1. /\ queue \in Seq(Functors) /\ queue' = Append(queue, Functor("destroyed"))
        /\ server'.ended /\ server'.asked = server.asked
        /\ UNCHANGED <<state_, events_, poller, todo, callback, user, socket, downs, late>>
    BY <1>2 DEF ServerEnds, Inv, Types, Servers, channel, history
  <2>2. Functor("destroyed").kind = "destroyed"
    BY DEF Functor
  <2>3. /\ queue' # <<>> /\ queue'[1].kind = "established"
        /\ \A i \in DOMAIN queue' : i # 1 => queue'[i].kind = "destroyed"
    BY <2>1, <2>2 DEF Fresh
  <2>4. Fresh'
    BY <2>1, <2>3 DEF Fresh, Index
  <2>5. ClosingOK'
    BY <2>1 DEF Inv, ClosingOK, Index, EndOfInput
  <2>6. OwnedOK'
    BY <2>1 DEF OwnedOK, Undisturbed
  <2> QED
    BY <2>4, <2>5, <2>6
<1>3. CASE PeerStep
  <2>1. UNCHANGED <<state_, events_, poller, todo, callback, queue, server, user, downs, late>>
    BY <1>3 DEF PeerStep, PeerSends, PeerCloses, PeerResets, PeerReads, channel, loop, history
  <2>2. callback' = "none"
    BY <2>1 DEF Fresh
  <2> QED
    BY <2>1, <2>2 DEF Inv, Fresh, ClosingOK, OwnedOK, Undisturbed, Index
<1>4. ASSUME NEW u \in Users, Leave(u) PROVE (Fresh \/ Begun)' /\ ClosingOK' /\ OwnedOK'
  <2>1. /\ UNCHANGED <<state_, events_, poller, todo, callback, queue, server, socket, downs, late>>
        /\ \A v \in Users : user'[v].pc = user[v].pc \/ user'[v].pc = "left"
    BY <1>4 DEF Leave, channel, loop, history, Inv, Types
  <2> QED
    BY <2>1 DEF Inv, Fresh, ClosingOK, OwnedOK, Undisturbed, Index, EndOfInput
<1> QED
  BY <1>1, <1>2, <1>3, <1>4, FreshSteps

\* SendInLoop keeps the invariant, whether called with the functors that were there or
\* those behind the one that runs.
LEMMA InvSend ==
    ASSUME Inv, Begun, NEW m \in Msgs, NEW q \in Seq(Functors), SendInLoop(m, q),
           Has(q, "established") => Has(queue, "established"),
           Has(q, "destroyed") <=> Has(queue, "destroyed"),
           Covered(queue) => Covered(q),
           UNCHANGED <<state_, todo, callback, server, downs, late>>
    PROVE  Begun' /\ ClosingOK' /\ OwnedOK'
<1>1. Types /\ Registered
  BY DEF Inv
<1>2. \/ Index' = Index /\ events_' = events_
      \/ state_ # "kDisconnected" /\ Index' = "kAdded" /\ events_' = events_ \cup {"OUT"}
  BY <1>1, SendChannel
<1>3. \/ queue' = q
      \/ \E k \in {"write_complete", "high_water_mark"} : queue' = Append(q, Functor(k))
  BY <1>1, SendEffect
<1>4. /\ Has(queue', "established") => Has(q, "established")
      /\ Has(queue', "destroyed") <=> Has(q, "destroyed")
      /\ Covered(q) => Covered(queue')
  <2>1. CASE queue' = q
    BY <2>1
  <2>2. ASSUME NEW k \in {"write_complete", "high_water_mark"}, queue' = Append(q, Functor(k))
        PROVE  /\ Has(queue', "established") => Has(q, "established")
               /\ Has(queue', "destroyed") <=> Has(q, "destroyed")
               /\ Covered(q) => Covered(queue')
    <3>1. PICK f \in Functors : f = Functor(k) /\ f.kind = k
      BY <2>2, FunctorTypes
    <3>2. queue' = Append(q, f) /\ f.kind \notin {"established", "destroyed", "shutdown"}
      BY <2>2, <3>1
    <3> QED
      BY <3>2, AppendHas
  <2> QED
    BY <1>3, <2>1, <2>2
<1>5. ~late /\ callback' = "close" => socket'.rcv = 0 /\ EndOfInput'
  <2>1. socket'.rcv = socket.rcv /\ socket'.fin = socket.fin /\ socket'.rst = socket.rst
    BY <1>1, SendEffect
  <2> QED
    BY <2>1 DEF Inv, ClosingOK, EndOfInput
<1> QED
  BY <1>2, <1>4, <1>5, Frame

\* The functors.
LEMMA InvFunctor ==
    ASSUME Inv, Begun, RunFunctor
    PROVE  Begun' /\ ClosingOK' /\ OwnedOK'
<1>1. Types /\ Registered /\ queue \in Seq(Functors)
  BY DEF Inv, Types
<1>2. ~ConnectEstablished
  <2>1. ASSUME ConnectEstablished PROVE FALSE
    <3>1. queue # <<>> /\ queue[1].kind = "established"
      BY <1>1, <2>1, RunsHead DEF ConnectEstablished
    <3> QED
      BY <1>1, <3>1, TailHas DEF Begun
  <2> QED
    BY <2>1
<1>3. ASSUME NEW k, Runs(k)
      PROVE  /\ queue # <<>> /\ Tail(queue) \in Seq(Functors) /\ todo = <<>> /\ callback = "none"
             /\ \A x : Has(queue, x) <=> x = k \/ Has(Tail(queue), x)
             /\ Covered(queue) => Covered(Tail(queue))
  <2>1. queue # <<>> /\ queue[1].kind = k /\ Tail(queue) \in Seq(Functors) /\ todo = <<>> /\ callback = "none"
    BY <1>1, <1>3, RunsHead
  <2> QED
    BY <1>1, <2>1, TailHas
<1>4. CASE RunSend
  <2>1. PICK m, q : m = Head(queue).msg /\ q = Tail(queue)
    OBVIOUS
  <2>2. m \in Msgs /\ SendInLoop(m, q)
    <3>1. Head(queue) \in Functors /\ Head(queue).kind = "send"
      BY <1>1, <1>4, RunsHead DEF RunSend
    <3>2. Head(queue).msg \in Msgs
      BY <3>1, FunctorTypes
    <3> QED
      BY <1>4, <2>1, <3>2 DEF RunSend
  <2>3. /\ q \in Seq(Functors)
        /\ Has(q, "established") => Has(queue, "established")
        /\ Has(q, "destroyed") <=> Has(queue, "destroyed")
        /\ Covered(queue) => Covered(q)
    BY <1>3, <1>4, <2>1 DEF RunSend
  <2>4. UNCHANGED <<state_, todo, callback, server, downs, late>>
    BY <1>4 DEF RunSend, history
  <2> QED
    BY <2>2, <2>3, <2>4, InvSend
<1>5. CASE RunShutdown \/ RunNotification
  <2>1. /\ Has(queue', "established") => Has(queue, "established")
        /\ Has(queue', "destroyed") <=> Has(queue, "destroyed")
        /\ Covered(queue) => Covered(queue')
        /\ callback = "none" /\ callback' \in {"none", "notification"}
    <3>1. PICK k \in {"shutdown", "write_complete", "high_water_mark"} : Runs(k)
      BY <1>5 DEF RunShutdown, RunNotification
    <3>2. queue' = Tail(queue) /\ (callback' = callback \/ callback' = "notification")
      BY <1>5 DEF RunShutdown, RunNotification
    <3> QED
      BY <1>3, <3>1, <3>2
  <2>2. UNCHANGED <<state_, events_, poller, todo, server, downs, late>>
    BY <1>5 DEF RunShutdown, RunNotification, channel, history
  <2>3. Index' = Index
    BY <2>2 DEF Index
  <2> QED
    BY <2>1, <2>2, <2>3, Frame
<1>6. CASE ConnectDestroyed
  <2>1. /\ state_ = "kConnected" /\ state_' = "kDisconnected" /\ downs' = downs + 1 /\ callback' = "destroy"
        /\ queue' = Tail(queue) /\ UNCHANGED <<todo, server, late>>
    BY <1>6 DEF ConnectDestroyed
  <2>2. /\ todo = <<>> /\ Has(queue, "destroyed")
        /\ Has(queue', "established") => Has(queue, "established")
    BY <1>3, <1>6, <2>1 DEF ConnectDestroyed
  <2>3. ~late => downs = 0 /\ Index = "kAdded"
    BY <1>1, <2>1 DEF Inv, ClosingOK, Types
  <2>4. events_' = {} /\ (~late => Index' = "kDeleted")
    <3>1. PICK ev : ev = {}
      OBVIOUS
    <3>2. ev \in SUBSET Interests /\ Update(ev)
      BY <1>6, <3>1 DEF ConnectDestroyed
    <3> QED
      BY <1>1, <2>3, <3>1, <3>2, UpdateEffect
  <2>5. Begun'
    BY <2>1, <2>2, <2>3 DEF Begun
  <2>6. ClosingOK'
    BY <2>1, <2>2, <2>3, <2>4 DEF ClosingOK, Calls, ReadsOnce
  <2>7. OwnedOK'
    BY <2>1, <2>2, <2>3 DEF OwnedOK, Undisturbed, Inv
  <2> QED
    BY <2>5, <2>6, <2>7
<1>7. CASE ConnectDestroyedRemove
  <2>1. /\ state_ # "kConnected" /\ queue' = Tail(queue)
        /\ UNCHANGED <<state_, events_, todo, callback, server, socket, downs, late>>
        /\ poller' = RemoveChannel(poller, Conn, Fd)
    BY <1>7 DEF ConnectDestroyedRemove, history
  <2>2. /\ todo = <<>> /\ callback = "none" /\ Has(queue, "destroyed")
        /\ \A x : Has(queue', x) => Has(queue, x)
        /\ Covered(queue) => Covered(queue')
    BY <1>3, <1>7, <2>1 DEF ConnectDestroyedRemove
  <2>3. Index' = "kNew"
    BY <1>1, <2>1, RemoveEffect
  <2>4. Begun'
    BY <2>1, <2>2 DEF Begun
  <2>5. ClosingOK'
    BY <2>1, <2>2, <2>3 DEF ClosingOK, Inv
  <2>6. OwnedOK'
    BY <2>1, <2>2, <2>3 DEF OwnedOK, Undisturbed, Inv
  <2> QED
    BY <2>4, <2>5, <2>6
<1> QED
  BY <1>2, <1>4, <1>5, <1>6, <1>7 DEF RunFunctor

\* The poll: nothing but an error can keep the loop from reading first.
LEMMA InvPoll ==
    ASSUME Inv, Begun, Poll
    PROVE  Begun' /\ ClosingOK' /\ OwnedOK'
<1>1. /\ UNCHANGED <<state_, events_, poller, callback, queue, server, socket, downs, late>>
      /\ callback = "none"
  BY DEF Poll, Idle, channel, history
<1>2. PICK w \in poller.epoll : todo' = Handlers(Revents(w, Ready))
  BY DEF Poll
<1>3. Index = "kAdded" /\ w.events = events_
  <2>1. poller.epoll = IF Index = "kAdded" THEN {[fd |-> Fd, ptr |-> Conn, events |-> events_]} ELSE {}
    BY DEF Inv, Registered, Agrees, Index
  <2> QED
    BY <2>1
<1>4. ~late => downs = 0 /\ "IN" \in events_
  BY <1>3 DEF Inv, ClosingOK, Begun, Types
<1>5. ReadsOnce(todo')
  BY <1>2, HandlersAre DEF ReadsOnce
<1>6. ~late => ~Calls(todo', "close")
  <2> SUFFICES ASSUME ~late PROVE ~Calls(todo', "close")
    OBVIOUS
  <2> DEFINE r == Revents(w, Ready)
  <2>1. "HUP" \in r => "IN" \in r
    <3>1. "HUP" \in Ready => "IN" \in Ready
      BY DEF Ready
    <3> QED
      BY <1>3, <1>4, <3>1 DEF Revents
  <2> HIDE DEF r
  <2>2. "IN" \in r => ~Calls(Handlers(r), "close")
    BY HandlersAre DEF Calls
  <2>3. "HUP" \notin r => ~Calls(Handlers(r), "close")
    BY QuietHandlers
  <2> QED
    BY <1>2, <2>1, <2>2, <2>3 DEF r
<1>7. Index' = Index
  BY <1>1 DEF Index
<1>8. Begun'
  BY <1>1 DEF Begun
<1>9. ClosingOK'
  BY <1>1, <1>3, <1>4, <1>5, <1>6, <1>7 DEF ClosingOK, Inv, Types
<1>10. OwnedOK'
  BY <1>1, <1>7 DEF OwnedOK, Undisturbed, Inv
<1> QED
  BY <1>8, <1>9, <1>10

\* HandleClose and HandleReadEnd: as long as no Shutdown is late, only the latter runs,
\* once, and it finds the channel added.
LEMMA InvCloses ==
    ASSUME Inv, Begun, HandleClose \/ HandleReadEnd
    PROVE  Begun' /\ ClosingOK' /\ OwnedOK'
<1>1. Types /\ Registered /\ todo \in Seq(HandlerNames)
  BY DEF Inv, Types
<1>2. /\ state_' = "kDisconnected" /\ callback' = "close" /\ downs' = downs + 1 /\ todo' = Tail(todo)
      /\ UNCHANGED <<queue, server, socket, late>> /\ Update({})
  BY DEF HandleClose, HandleReadEnd, Closes, AfterClose
<1>3. /\ todo # <<>> /\ callback = "none"
      /\ HandleClose => todo[1] = "close"
      /\ HandleReadEnd => todo[1] = "read"
  BY <1>1, HandlesHead DEF HandleClose, HandleReadEnd
<1>4. /\ \A h : Calls(Tail(todo), h) => Calls(todo, h)
      /\ ReadsOnce(todo) => ReadsOnce(Tail(todo))
      /\ ReadsOnce(todo) /\ todo[1] = "read" => ~Calls(Tail(todo), "read")
      /\ Calls(todo, todo[1])
  BY <1>1, <1>3, TailCalls
<1>5. ~late => HandleReadEnd
  BY <1>3, <1>4 DEF Inv, ClosingOK
<1>6. ~late => downs = 0 /\ Index = "kAdded"
  BY <1>1, <1>3, <1>4, <1>5 DEF Inv, ClosingOK, Types
<1>7. events_' = {} /\ (~late => Index' = "kDeleted")
  <2>1. PICK ev : ev = {}
    OBVIOUS
  <2>2. ev \in SUBSET Interests /\ Update(ev)
    BY <1>2, <2>1
  <2> QED
    BY <1>1, <1>6, <2>1, <2>2, UpdateEffect
<1>8. ~late => socket'.rcv = 0 /\ EndOfInput'
  BY <1>2, <1>5 DEF HandleReadEnd, EndOfInput
<1>9. Begun'
  BY <1>2, <1>6 DEF Begun
<1>10. ClosingOK'
  BY <1>2, <1>3, <1>4, <1>5, <1>6, <1>7, <1>8 DEF ClosingOK, Inv
<1>11. OwnedOK'
  BY <1>2, <1>6 DEF OwnedOK, Undisturbed, Inv
<1> QED
  BY <1>9, <1>10, <1>11

\* The other handlers.  HandleWrite does something only for interests {OUT}, which the
\* connection has only after a late Shutdown.
LEMMA InvHandler ==
    ASSUME Inv, Begun, Handler
    PROVE  Begun' /\ ClosingOK' /\ OwnedOK'
<1>1. CASE HandleError \/ HandleReadFails \/ HandleWriteDown \/ \E n \in 1..PeerBytes : HandleRead(n)
  <2>1. /\ UNCHANGED <<state_, events_, poller, queue, server, downs, late>>
        /\ todo' = Tail(todo) /\ todo # <<>> /\ callback = "none" /\ callback' \in {"none", "message"}
    BY <1>1 DEF HandleError, HandleReadFails, HandleWriteDown, HandleRead, Handles, channel, history
  <2>2. Index' = Index
    BY <2>1 DEF Index
  <2> QED
    BY <2>1, <2>2, Frame
<1>2. CASE HandleWrite
  <2>1. /\ UNCHANGED <<state_, callback, server, downs, late>>
        /\ events_ = {"OUT"}
    BY <1>2 DEF HandleWrite, IsWriteEvent, history
  <2>2. late /\ late'
    BY <2>1 DEF Begun, Inv, ClosingOK, Types
  <2>3. ~Has(queue', "established")
    <3>1. queue' = queue \/ queue' = Append(queue, Functor("write_complete"))
      BY <1>2, WriteEffect DEF Inv
    <3>2. Functor("write_complete") \in Functors /\ Functor("write_complete").kind = "write_complete"
      BY FunctorTypes
    <3>3. PICK f \in Functors : f = Functor("write_complete") /\ f.kind = "write_complete"
      BY <3>2
    <3>4. queue' = queue \/ queue' = Append(queue, f)
      BY <3>1, <3>3
    <3> QED
      BY <3>3, <3>4, AppendHas DEF Begun, Inv, Types
  <2> QED
    BY <2>1, <2>2, <2>3 DEF Begun, ClosingOK, OwnedOK, Undisturbed
<1> QED
  BY <1>1, <1>2, InvCloses DEF Handler

\* The callbacks: what the user calls in them, and their returns.
LEMMA InvCallback ==
    ASSUME Inv, Begun, Return \/ CallbackStep
    PROVE  Begun' /\ ClosingOK' /\ OwnedOK'
<1>1. CASE CallbackReturns
  <2>1. /\ UNCHANGED <<state_, events_, poller, todo, queue, server, downs, late>>
        /\ callback' = "none" /\ callback \notin {"close", "destroy"}
    BY <1>1 DEF CallbackReturns, channel, history
  <2>2. Index' = Index
    BY <2>1 DEF Index
  <2> QED
    BY <2>1, <2>2, Frame
<1>2. CASE CloseReturns
  <2>1. /\ UNCHANGED <<state_, events_, poller, todo, queue, socket, downs, late>>
        /\ callback = "close" /\ callback' = "none"
        /\ server'.asked > 0 /\ server'.listed = server.listed /\ server'.ended = server.ended
    BY <1>2 DEF CloseReturns, channel, history, Inv, Types, Servers
  <2>2. Index' = Index
    BY <2>1 DEF Index
  <2>3. ~late => downs > 0
    BY <2>1 DEF Inv, ClosingOK
  <2>4. Begun'
    BY <2>1 DEF Begun
  <2>5. ClosingOK'
    BY <2>1, <2>2 DEF Inv, ClosingOK
  <2>6. OwnedOK'
    BY <2>1, <2>2, <2>3 DEF Inv, OwnedOK, Undisturbed
  <2> QED
    BY <2>4, <2>5, <2>6
<1>3. CASE DestroyReturns
  <2>1. /\ UNCHANGED <<state_, events_, todo, queue, server, socket, downs, late>>
        /\ callback = "destroy" /\ callback' = "none"
        /\ poller' = RemoveChannel(poller, Conn, Fd)
    BY <1>3 DEF DestroyReturns, history
  <2>2. Index' = "kNew"
    BY <2>1, RemoveEffect DEF Inv
  <2>3. Begun'
    BY <2>1 DEF Begun
  <2>4. ClosingOK'
    BY <2>1, <2>2 DEF Inv, ClosingOK, Types
  <2>5. OwnedOK'
    BY <2>1, <2>2 DEF Inv, OwnedOK, Undisturbed
  <2> QED
    BY <2>3, <2>4, <2>5
<1>4. ASSUME NEW m \in Msgs, SendInCallback(m) PROVE Begun' /\ ClosingOK' /\ OwnedOK'
  <2>1. PICK q : q = queue
    OBVIOUS
  <2>2. q \in Seq(Functors) /\ SendInLoop(m, q)
    BY <1>4, <2>1 DEF SendInCallback, Inv, Types
  <2>3. UNCHANGED <<state_, todo, callback, server, downs, late>>
    BY <1>4 DEF SendInCallback, history
  <2> QED
    BY <2>1, <2>2, <2>3, InvSend
<1>5. CASE ShutdownInCallback
  <2>1. /\ UNCHANGED <<events_, poller, todo, callback, queue, server, downs, late>>
        /\ state_ = "kConnected" /\ state_' = "kDisconnecting"
        /\ socket' = AfterShutdownInLoop(socket, events_)
    BY <1>5 DEF ShutdownInCallback, channel, loop, history
  <2>2. Index' = Index
    BY <2>1 DEF Index
  <2>3. socket'.rcv = socket.rcv /\ socket'.fin = socket.fin /\ socket'.rst = socket.rst
    BY <2>1, SocketTypes DEF Inv, Types
  <2>4. ~late /\ callback' = "close" => socket'.rcv = 0 /\ EndOfInput'
    BY <2>1, <2>3 DEF Inv, ClosingOK, EndOfInput
  <2> QED
    BY <2>1, <2>2, <2>4, Frame
<1> QED
  BY <1>1, <1>2, <1>3, <1>4, <1>5 DEF Return, CallbackStep

\* The server: ConnectDestroyed is queued behind every ShutdownInLoop.
LEMMA InvServer ==
    ASSUME Inv, Begun, RemoveConnectionInLoop \/ ServerEnds
    PROVE  Begun' /\ ClosingOK' /\ OwnedOK'
<1>1. /\ UNCHANGED <<state_, events_, poller, todo, callback, socket, downs, late>>
      /\ queue' = Append(queue, Functor("destroyed"))
      /\ RemoveConnectionInLoop => server.asked > 0 /\ server'.ended = server.ended
      /\ ServerEnds => server'.ended
  BY DEF RemoveConnectionInLoop, ServerEnds, channel, history, Inv, Types, Servers
<1>2. PICK f \in Functors : f = Functor("destroyed") /\ f.kind = "destroyed"
  BY FunctorTypes
<1>3. (Has(queue', "established") => Has(queue, "established")) /\ Has(queue', "destroyed") /\ Covered(queue')
  BY <1>1, <1>2, AppendHas DEF Inv, Types
<1>4. Index' = Index
  BY <1>1 DEF Index
<1>5. Begun'
  BY <1>1, <1>3 DEF Begun
<1>6. ClosingOK'
  BY <1>1, <1>4 DEF Inv, ClosingOK, EndOfInput
<1>7. OwnedOK'
  BY <1>1, <1>3, <1>4 DEF Inv, OwnedOK, Undisturbed
<1> QED
  BY <1>5, <1>6, <1>7

\* The peer: after the end of its stream it sends nothing more.
LEMMA InvPeer ==
    ASSUME Inv, Begun, PeerStep
    PROVE  Begun' /\ ClosingOK' /\ OwnedOK'
<1>1. UNCHANGED <<state_, events_, poller, todo, callback, queue, server, downs, late>>
  BY DEF PeerStep, PeerSends, PeerCloses, PeerResets, PeerReads, channel, loop, history
<1>2. Index' = Index
  BY <1>1 DEF Index
<1>3. EndOfInput => EndOfInput' /\ socket'.rcv = socket.rcv
  BY DEF EndOfInput, PeerStep, PeerSends, PeerCloses, PeerResets, PeerReads, Inv, Types, Sockets
<1>4. ~late /\ callback' = "close" => socket'.rcv = 0 /\ EndOfInput'
  BY <1>1, <1>3 DEF Inv, ClosingOK
<1> QED
  BY <1>1, <1>2, <1>4, Frame

\* The other threads: a Shutdown call that goes on after the close makes late true.
LEMMA InvUser ==
    ASSUME Inv, Begun, NEW u \in Users, UserCall(u) \/ UserStep(u)
    PROVE  Begun' /\ ClosingOK' /\ OwnedOK'
<1>1. CASE Shutdown(u) \/ Leave(u) \/ \E m \in Msgs : Send(u, m)
  <2>1. UNCHANGED <<state_, events_, poller, todo, callback, queue, server, socket, downs, late>>
    BY <1>1 DEF Shutdown, Leave, Send, channel, loop, history
  <2>2. Index' = Index
    BY <2>1 DEF Index
  <2>3. ~late /\ callback' = "close" => socket'.rcv = 0 /\ EndOfInput'
    BY <2>1 DEF Inv, ClosingOK, EndOfInput
  <2> QED
    BY <2>1, <2>2, <2>3, Frame
<1>2. CASE SendQueue(u)
  <2>1. /\ UNCHANGED <<state_, events_, poller, todo, callback, server, socket, downs, late>>
        /\ queue' = Append(queue, SendFunctor(user[u].msg)) /\ user[u].msg \in Msgs
    BY <1>2, UserTypes DEF SendQueue, channel, history, Inv, Types
  <2>2. Index' = Index
    BY <2>1 DEF Index
  <2>3. ~late /\ callback' = "close" => socket'.rcv = 0 /\ EndOfInput'
    BY <2>1 DEF Inv, ClosingOK, EndOfInput
  <2>4. PICK f \in Functors : f = SendFunctor(user[u].msg) /\ f.kind = "send"
    BY <2>1, FunctorTypes
  <2>5. queue' = Append(queue, f) /\ f.kind \notin {"established", "destroyed", "shutdown"}
    BY <2>1, <2>4
  <2>6. /\ Has(queue', "established") => Has(queue, "established")
        /\ Has(queue', "destroyed") <=> Has(queue, "destroyed")
        /\ Covered(queue) => Covered(queue')
    BY <2>5, AppendHas DEF Inv, Types
  <2> QED
    BY <2>1, <2>2, <2>3, <2>6, Frame
<1>3. CASE ShutdownSetState(u)
  <2>1. /\ UNCHANGED <<events_, poller, todo, callback, queue, server, socket, downs>>
        /\ state_' = "kDisconnecting" /\ (late' <=> late \/ downs > 0)
    BY <1>3 DEF ShutdownSetState, channel, loop, Inv, Types
  <2>2. Index' = Index
    BY <2>1 DEF Index
  <2>3. Begun'
    BY <2>1 DEF Begun
  <2>4. ClosingOK'
    BY <2>1, <2>2 DEF Inv, ClosingOK, EndOfInput
  <2>5. OwnedOK'
    BY <2>1, <2>2 DEF Inv, OwnedOK, Undisturbed
  <2> QED
    BY <2>3, <2>4, <2>5
<1>4. CASE ShutdownQueue(u)
  <2>1. /\ UNCHANGED <<state_, events_, poller, todo, callback, server, socket, downs>>
        /\ queue' = Append(queue, Functor("shutdown")) /\ (late' <=> late \/ downs > 0)
    BY <1>4 DEF ShutdownQueue, channel, Inv, Types
  <2>2. Index' = Index
    BY <2>1 DEF Index
  <2>3. PICK f \in Functors : f = Functor("shutdown") /\ f.kind = "shutdown"
    BY FunctorTypes
  <2>4. /\ Has(queue', "established") => Has(queue, "established")
        /\ Has(queue', "destroyed") <=> Has(queue, "destroyed")
    BY <2>1, <2>3, AppendHas DEF Inv, Types
  <2>5. Begun'
    BY <2>1, <2>4 DEF Begun
  <2>6. ClosingOK'
    BY <2>1, <2>2 DEF Inv, ClosingOK, EndOfInput
  <2>7. ~late' => downs = 0
    BY <2>1 DEF Inv, Types
  <2>8. OwnedOK'
    BY <2>1, <2>2, <2>4, <2>7 DEF Inv, OwnedOK, Undisturbed
  <2> QED
    BY <2>5, <2>6, <2>8
<1> QED
  BY <1>1, <1>2, <1>3, <1>4 DEF UserCall, UserStep

\* Every step keeps the invariant.
LEMMA InvStep == Inv /\ [Next]_vars => Inv'
<1> SUFFICES ASSUME Inv, [Next]_vars PROVE Inv'
  OBVIOUS
<1>1. Types' /\ Registered'
  BY TypesStep, RegisteredStep DEF Inv
<1>2. CASE UNCHANGED vars
  BY <1>1, <1>2 DEF Inv, vars, channel, bytes, loop, history, Fresh, Begun, ClosingOK, OwnedOK, Undisturbed,
                    Index, EndOfInput
<1>3. CASE Next /\ Fresh
  BY <1>1, <1>3, InvFresh DEF Inv
<1>4. CASE Next /\ Begun
  <2>1. Begun' /\ ClosingOK' /\ OwnedOK'
    BY <1>4, InvFunctor, InvPoll, InvHandler, InvCallback, InvServer, InvPeer, InvUser DEF Next
  <2> QED
    BY <1>1, <2>1 DEF Inv
<1> QED
  BY <1>2, <1>3, <1>4 DEF Inv

-----------------------------------------------------------------------------
(* What the connection promises.                                           *)

\* The invariant holds in every state of the connection.
THEOREM ConnectionInvariant == Spec => []Inv
  BY InvInit, InvStep, PTL DEF Spec

\* What the socket took and what the output buffer keeps are exactly the bytes that
\* SendInLoop took, in order, for all messages, senders and sizes of the send buffer.
THEOREM BytesInOrderAlways == Spec => []BytesInOrder
<1>1. Init => BytesInOrder
  <2>1. <<>> \o <<>> = <<>>
    OBVIOUS
  <2> QED
    BY <2>1 DEF Init, BytesInOrder
<1>2. Inv /\ BytesInOrder /\ [Next]_vars => BytesInOrder'
  BY BytesStep DEF Inv
<1> QED
  BY <1>1, <1>2, ConnectionInvariant, PTL DEF Spec

\* index_, the poller's map and the kernel agree, and the kernel has the channel's
\* interests: no epoll_ctl fails.
THEOREM PollerAgreesAlways == Spec => []PollerAgrees
<1>1. Inv => PollerAgrees
  BY DEF Inv, Registered, Agrees, PollerAgrees
<1> QED
  BY <1>1, ConnectionInvariant, PTL

\* Everything that the peer sent is read before the connection is closed for it.
THEOREM InputBeforeCloseAlways == Spec => []InputBeforeClose
<1>1. Inv => InputBeforeClose
  BY DEF Inv, ClosingOK, InputBeforeClose
<1> QED
  BY <1>1, ConnectionInvariant, PTL

\* The user is told at most once that the connection is closed.
THEOREM ClosedOnceAlways == Spec => []ClosedOnce
<1>1. Inv => ClosedOnce
  BY DEF Inv, Types, ClosingOK, ClosedOnce
<1> QED
  BY <1>1, ConnectionInvariant, PTL

\* ShutdownInLoop, which is bound to a bare pointer, finds the connection alive.
THEOREM ShutdownFindsConnectionAlways == Spec => []ShutdownFindsConnection
<1>1. ASSUME Inv, Undisturbed, Queued("shutdown") PROVE Alive
  <2>1. CASE server.listed \/ server.asked > 0 \/ callback = "close"
    BY <2>1 DEF Alive
  <2>2. CASE Covered(queue)
    BY <1>1, <2>2 DEF Covered, Queued, Alive
  <2> QED
    BY <1>1, <2>1, <2>2 DEF Inv, OwnedOK
<1>2. Inv => ShutdownFindsConnection
  BY <1>1 DEF ShutdownFindsConnection
<1> QED
  BY <1>2, ConnectionInvariant, PTL

\* As long as the poller knows the channel, someone is left who will remove it.
THEOREM RegisteredIsOwnedAlways == Spec => []RegisteredIsOwned
<1>1. ASSUME Inv, Undisturbed, poller.channels # {}
      PROVE  \/ server.listed \/ server.asked > 0
             \/ Queued("destroyed") \/ callback \in {"close", "destroy"}
  <2>1. Index # "kNew"
    BY <1>1 DEF Inv, Registered, Agrees, Index
  <2> QED
    BY <1>1, <2>1 DEF Inv, OwnedOK, Has, Queued
<1>2. Inv => RegisteredIsOwned
  BY <1>1 DEF RegisteredIsOwned
<1> QED
  BY <1>2, ConnectionInvariant, PTL
=============================================================================
