--------------------------- MODULE TcpConnection ----------------------------
(***************************************************************************)
(* mymuduo/tcp_connection.{h,cpp}: one connection with its channel.  The    *)
(* loop's thread runs the handlers and the functors of the connection and,   *)
(* from them, the user's callbacks; other threads that hold a               *)
(* TcpConnectionPtr call Send and Shutdown, which test state_ and then       *)
(* queue a functor; the server's thread removes the connection.             *)
(*                                                                         *)
(* The loop is replaced by what Executor promises (queue) and the buffers   *)
(* by what ByteQueue promises.  The socket and the peer are external.       *)
(***************************************************************************)
EXTENDS Integers, Sequences, EpollPoller

CONSTANTS
    Users,            \* the other threads that hold the connection
    Msgs,             \* the messages, named by their length; each is sent at most once
    SndBuf,           \* room in the kernel's send buffer
    PeerBytes,        \* bounds the bytes that the peer sends
    high_water_mark_

ASSUME ConnectionAssumption ==
    /\ Msgs \subseteq Nat \ {0} /\ SndBuf \in Nat \ {0}
    /\ PeerBytes \in Nat /\ high_water_mark_ \in Nat

VARIABLES
    state_,
    events_, poller,            \* the channel's interests, and what became of them
    input_buffer_,              \* how many bytes it holds
    output_buffer_,             \* its content
    todo,                       \* handlers still to be called for the reported events
    callback,                   \* the user callback that the loop's thread is in
    queue,                      \* functors of the loop, oldest first
    server,                     \* the server's part: see Init
    user,                       \* where each user's call is
    socket,                     \* see Init
    unsent,                     \* the messages that nobody has sent yet
    accepted, written,          \* history: bytes SendInLoop took, bytes write() took
    downs,                      \* history: connection callbacks for a closed connection
    late                        \* history: a Shutdown went on after the close

channel == <<events_, poller>>
bytes   == <<output_buffer_, accepted, written>>
loop    == <<todo, callback, queue>>
history == <<downs, late>>
vars    == <<state_, channel, bytes, input_buffer_, loop, server, user, socket, unsent, history>>

States == {"kDisconnected", "kConnecting", "kConnected", "kDisconnecting"}
Conn == "conn"
Fd   == 1

\* The functors.  All but "shutdown" hold a TcpConnectionPtr.
Functor(kind)  == [kind |-> kind]
SendFunctor(m) == [kind |-> "send", msg |-> m]
Queued(kind)   == \E i \in DOMAIN queue : queue[i].kind = kind

\* The connection exists as long as someone holds a TcpConnectionPtr.
Alive ==
    \/ server.listed \/ server.asked > 0
    \/ todo # <<>> \/ callback # "none"
    \/ \E i \in DOMAIN queue : queue[i].kind # "shutdown"
    \/ \E u \in Users : user[u].pc # "left"

\* Channel::Enable..., Disable...: new interests, and Update()
Update(events) ==
    /\ events_' = events
    /\ poller' = UpdateChannel(poller, Conn, Fd, events)

-----------------------------------------------------------------------------
(* The socket.                                                             *)

\* what epoll_wait would report
Ready ==
    {e \in {"IN", "OUT", "HUP", "ERR"} :
        CASE e = "IN"  -> socket.rcv > 0 \/ socket.fin \/ socket.rst
          [] e = "OUT" -> socket.room > 0 \/ socket.shut \/ socket.rst
          [] e = "HUP" -> (socket.fin /\ socket.shut) \/ socket.rst
          [] e = "ERR" -> socket.err}

Smaller(m, n) == IF m < n THEN m ELSE n

\* how many of n bytes write() takes; an error takes none
Takes(n) == IF socket.shut \/ socket.rst THEN 0 ELSE Smaller(n, socket.room)

\* the socket after write() of n bytes; a failing call clears the pending error
AfterWrite(n) ==
    [socket EXCEPT !.room = @ - Takes(n), !.err = @ /\ ~(socket.shut \/ socket.rst)]

PeerSends ==
    /\ ~socket.fin /\ ~socket.rst /\ socket.sent < PeerBytes
    /\ socket' = [socket EXCEPT !.rcv = @ + 1, !.sent = @ + 1]
    /\ UNCHANGED <<state_, channel, bytes, input_buffer_, loop, server, user, unsent, history>>

PeerCloses ==
    /\ ~socket.fin /\ ~socket.rst
    /\ socket' = [socket EXCEPT !.fin = TRUE]
    /\ UNCHANGED <<state_, channel, bytes, input_buffer_, loop, server, user, unsent, history>>

PeerResets ==
    /\ ~socket.rst
    /\ socket' = [socket EXCEPT !.rst = TRUE, !.err = TRUE]
    /\ UNCHANGED <<state_, channel, bytes, input_buffer_, loop, server, user, unsent, history>>

PeerReads ==
    /\ socket.room < SndBuf /\ ~socket.rst
    /\ socket' = [socket EXCEPT !.room = @ + 1]
    /\ UNCHANGED <<state_, channel, bytes, input_buffer_, loop, server, user, unsent, history>>

-----------------------------------------------------------------------------
(* SendInLoop and ShutdownInLoop, in the loop's thread.                    *)

\* the bytes of message m
Msg(m) == [i \in 1..m |-> m]

\* faulty WritesDirectly: what waits in the buffer is late
IgnoresBuffer == ~IsWriteEvent(events_)

\* nothing waits in the output buffer: write to the socket at once
WritesDirectly == ~IsWriteEvent(events_) /\ output_buffer_ = <<>>

\* faulty GivesUp: the state is not tested again in the loop
NeverGivesUp == FALSE

GivesUp == state_ = "kDisconnected"

\* SendInLoop(m), which leaves the functors q and what it queues.  No error is
\* treated as one (fault_error stays false): what write() did not take is buffered.
SendInLoop(m, q) ==
    IF GivesUp
    THEN queue' = q /\ UNCHANGED <<channel, bytes, socket>>
    ELSE LET nwrote == IF WritesDirectly THEN Takes(m) ELSE 0
             old_len == Len(output_buffer_)
             remaing == m - nwrote
         IN  /\ socket' = IF WritesDirectly THEN AfterWrite(m) ELSE socket
             /\ written' = written \o SubSeq(Msg(m), 1, nwrote)
             /\ output_buffer_' = output_buffer_ \o SubSeq(Msg(m), nwrote + 1, m)
             /\ accepted' = accepted \o Msg(m)
             /\ queue' = CASE remaing = 0 -> Append(q, Functor("write_complete"))
                           [] remaing > 0 /\ old_len < high_water_mark_
                                /\ old_len + remaing >= high_water_mark_ ->
                                  Append(q, Functor("high_water_mark"))
                           [] OTHER -> q
             /\ IF remaing > 0 /\ ~IsWriteEvent(events_) THEN Update(events_ \cup {"OUT"})
                                                         ELSE UNCHANGED channel

\* the socket after ShutdownInLoop with the given interests
AfterShutdownInLoop(s, events) == [s EXCEPT !.shut = @ \/ ~IsWriteEvent(events)]

-----------------------------------------------------------------------------
(* Functors and handlers, in the loop's thread.                            *)

Idle == todo = <<>> /\ callback = "none"

Runs(kind) == Idle /\ queue # <<>> /\ Head(queue).kind = kind

ConnectEstablished ==
    /\ Runs("established")
    /\ state_' = "kConnected"
    /\ Update(events_ \cup {"IN"})
    /\ queue' = Tail(queue)
    /\ callback' = "up"
    /\ UNCHANGED <<bytes, input_buffer_, todo, server, user, socket, unsent, history>>

RunSend ==
    /\ Runs("send")
    /\ SendInLoop(Head(queue).msg, Tail(queue))
    /\ UNCHANGED <<state_, input_buffer_, todo, callback, server, user, unsent, history>>

\* If the connection does not exist any more, this is a use after free.
RunShutdown ==
    /\ Runs("shutdown")
    /\ queue' = Tail(queue)
    /\ socket' = AfterShutdownInLoop(socket, events_)
    /\ UNCHANGED <<state_, channel, bytes, input_buffer_, todo, callback, server, user, unsent, history>>

\* the callbacks write_complete_callback_ and high_water_mark_callback_
RunNotification ==
    /\ Runs("write_complete") \/ Runs("high_water_mark")
    /\ queue' = Tail(queue)
    /\ callback' = "notification"
    /\ UNCHANGED <<state_, channel, bytes, input_buffer_, todo, server, user, socket, unsent, history>>

\* ConnectDestroyed of a connected connection: close it and tell the user ...
ConnectDestroyed ==
    /\ Runs("destroyed") /\ state_ = "kConnected"
    /\ state_' = "kDisconnected"
    /\ Update({})
    /\ queue' = Tail(queue)
    /\ callback' = "destroy"
    /\ downs' = downs + 1
    /\ UNCHANGED <<bytes, input_buffer_, todo, server, user, socket, unsent, late>>

\* ... before the channel is removed, which is all that is left otherwise.
ConnectDestroyedRemove ==
    /\ Runs("destroyed") /\ state_ # "kConnected"
    /\ poller' = RemoveChannel(poller, Conn, Fd)
    /\ queue' = Tail(queue)
    /\ UNCHANGED <<state_, events_, bytes, input_buffer_, todo, callback, server, user, socket, unsent, history>>

\* One epoll_wait that reports the channel.  HandleEvent locks the tie.
Poll ==
    /\ Idle /\ Alive
    /\ \E w \in poller.epoll :
          /\ Revents(w, Ready) # {}
          /\ todo' = Handlers(Revents(w, Ready))
    /\ UNCHANGED <<state_, channel, bytes, input_buffer_, callback, queue, server, user, socket, unsent, history>>

Handles(h) == callback = "none" /\ todo # <<>> /\ Head(todo) = h

\* faulty AfterClose: the state is left to the functor that destroys
StaysConnected == state_

\* SetState(kDisconnected)
AfterClose == "kDisconnected"

\* HandleClose up to the connection callback; close_callback_ follows its return.
Closes ==
    /\ state_' = AfterClose
    /\ Update({})
    /\ callback' = "close"
    /\ downs' = downs + 1

HandleClose ==
    /\ Handles("close")
    /\ Closes
    /\ todo' = Tail(todo)
    /\ UNCHANGED <<bytes, input_buffer_, queue, server, user, socket, unsent, late>>

\* getsockopt(SO_ERROR) clears the pending error.
HandleError ==
    /\ Handles("error")
    /\ socket' = [socket EXCEPT !.err = FALSE]
    /\ todo' = Tail(todo)
    /\ UNCHANGED <<state_, channel, bytes, input_buffer_, callback, queue, server, user, unsent, history>>

\* ReadFd returns n > 0
HandleRead(n) ==
    /\ Handles("read") /\ n <= socket.rcv
    /\ socket' = [socket EXCEPT !.rcv = @ - n]
    /\ input_buffer_' = input_buffer_ + n
    /\ callback' = "message"
    /\ todo' = Tail(todo)
    /\ UNCHANGED <<state_, channel, bytes, queue, server, user, unsent, history>>

EndOfInput == socket.fin \/ socket.rst

\* ReadFd returns 0
HandleReadEnd ==
    /\ Handles("read") /\ socket.rcv = 0 /\ EndOfInput /\ ~socket.err
    /\ Closes
    /\ todo' = Tail(todo)
    /\ UNCHANGED <<bytes, input_buffer_, queue, server, user, socket, unsent, late>>

\* ReadFd fails: HandleError
HandleReadFails ==
    /\ Handles("read") /\ socket.rcv = 0 /\ (socket.err \/ ~EndOfInput)
    /\ socket' = [socket EXCEPT !.err = FALSE]
    /\ todo' = Tail(todo)
    /\ UNCHANGED <<state_, channel, bytes, input_buffer_, callback, queue, server, user, unsent, history>>

\* HandleWrite for a channel that is interested in writing and nothing else ...
HandleWrite ==
    LET n     == Takes(Len(output_buffer_))
        ended == n > 0 /\ n = Len(output_buffer_)
        after == AfterWrite(Len(output_buffer_))
    IN  /\ Handles("write") /\ IsWriteEvent(events_)
        /\ written' = written \o SubSeq(output_buffer_, 1, n)
        /\ output_buffer_' = SubSeq(output_buffer_, n + 1, Len(output_buffer_))
        /\ IF ended THEN Update(events_ \ {"OUT"}) ELSE UNCHANGED channel
        /\ queue' = IF ended THEN Append(queue, Functor("write_complete")) ELSE queue
        /\ socket' = IF ended /\ state_ = "kDisconnecting"
                     THEN AfterShutdownInLoop(after, events_ \ {"OUT"}) ELSE after
        /\ todo' = Tail(todo)
        /\ UNCHANGED <<state_, accepted, input_buffer_, callback, server, user, unsent, history>>

\* ... and for any other channel: a line in the log.
HandleWriteDown ==
    /\ Handles("write") /\ ~IsWriteEvent(events_)
    /\ todo' = Tail(todo)
    /\ UNCHANGED <<state_, channel, bytes, input_buffer_, callback, queue, server, user, socket, unsent, history>>

-----------------------------------------------------------------------------
(* The user's callbacks, in the loop's thread.                             *)

SendInCallback(m) ==
    /\ callback # "none" /\ m \in unsent /\ state_ = "kConnected"
    /\ SendInLoop(m, queue)
    /\ unsent' = unsent \ {m}
    /\ UNCHANGED <<state_, input_buffer_, todo, callback, server, user, history>>

ShutdownInCallback ==
    /\ callback # "none" /\ state_ = "kConnected"
    /\ state_' = "kDisconnecting"
    /\ socket' = AfterShutdownInLoop(socket, events_)
    /\ UNCHANGED <<channel, bytes, input_buffer_, loop, server, user, unsent, history>>

\* The message callback takes all there is (RetrieveAsString() in the examples).
CallbackReturns ==
    /\ callback \in {"up", "message", "notification"}
    /\ callback' = "none"
    /\ input_buffer_' = IF callback = "message" THEN 0 ELSE input_buffer_
    /\ UNCHANGED <<state_, channel, bytes, todo, queue, server, user, socket, unsent, history>>

\* HandleClose goes on with close_callback_: TcpServer::RemoveConnection
CloseReturns ==
    /\ callback = "close"
    /\ callback' = "none"
    /\ server' = [server EXCEPT !.asked = @ + 1]
    /\ UNCHANGED <<state_, channel, bytes, input_buffer_, todo, queue, user, socket, unsent, history>>

\* ConnectDestroyed goes on with channel_->Remove()
DestroyReturns ==
    /\ callback = "destroy"
    /\ callback' = "none"
    /\ poller' = RemoveChannel(poller, Conn, Fd)
    /\ UNCHANGED <<state_, events_, bytes, input_buffer_, todo, queue, server, user, socket, unsent, history>>

-----------------------------------------------------------------------------
(* The server, in its own thread.                                          *)

\* faulty RemoveConnectionInLoop: the connection is destroyed at once, in this thread
DestroysAtOnce ==
    /\ server.asked > 0 /\ ~server.ended
    /\ server' = [server EXCEPT !.listed = FALSE, !.asked = @ - 1]
    /\ poller' = RemoveChannel(poller, Conn, Fd)
    /\ UNCHANGED <<state_, events_, bytes, input_buffer_, loop, user, socket, unsent, history>>

\* faulty RemoveConnectionInLoop: ConnectDestroyed is forgotten
OnlyErases ==
    /\ server.asked > 0 /\ ~server.ended
    /\ server' = [server EXCEPT !.listed = FALSE, !.asked = @ - 1]
    /\ UNCHANGED <<state_, channel, bytes, input_buffer_, loop, user, socket, unsent, history>>

\* TcpServer::RemoveConnectionInLoop
RemoveConnectionInLoop ==
    /\ server.asked > 0 /\ ~server.ended
    /\ server' = [server EXCEPT !.listed = FALSE, !.asked = @ - 1]
    /\ queue' = Append(queue, Functor("destroyed"))
    /\ UNCHANGED <<state_, channel, bytes, input_buffer_, todo, callback, user, socket, unsent, history>>

\* TcpServer::~TcpServer, after the end of the server's loop
ServerEnds ==
    /\ server.listed
    /\ server' = [server EXCEPT !.listed = FALSE, !.ended = TRUE]
    /\ queue' = Append(queue, Functor("destroyed"))
    /\ UNCHANGED <<state_, channel, bytes, input_buffer_, todo, callback, user, socket, unsent, history>>

-----------------------------------------------------------------------------
(* Send and Shutdown from other threads: the test of state_, ...            *)

Send(u, m) ==
    /\ user[u].pc = "idle" /\ m \in unsent /\ state_ = "kConnected"
    /\ user' = [user EXCEPT ![u] = [pc |-> "send", msg |-> m]]
    /\ unsent' = unsent \ {m}
    /\ UNCHANGED <<state_, channel, bytes, input_buffer_, loop, server, socket, history>>

\* ... the functor with the message (the caller keeps its string until it ran) ...
SendQueue(u) ==
    /\ user[u].pc = "send"
    /\ queue' = Append(queue, SendFunctor(user[u].msg))
    /\ user' = [user EXCEPT ![u] = [pc |-> "idle"]]
    /\ UNCHANGED <<state_, channel, bytes, input_buffer_, todo, callback, server, socket, unsent, history>>

Shutdown(u) ==
    /\ user[u].pc = "idle" /\ state_ = "kConnected"
    /\ user' = [user EXCEPT ![u] = [pc |-> "shutdown"]]
    /\ UNCHANGED <<state_, channel, bytes, input_buffer_, loop, server, socket, unsent, history>>

\* ... SetState(kDisconnecting), whatever the state has become ...
ShutdownSetState(u) ==
    /\ user[u].pc = "shutdown"
    /\ state_' = "kDisconnecting"
    /\ late' = (late \/ downs > 0)
    /\ user' = [user EXCEPT ![u] = [pc |-> "set"]]
    /\ UNCHANGED <<channel, bytes, input_buffer_, loop, server, socket, unsent, downs>>

\* ... and the functor, which is bound to this and not to a TcpConnectionPtr.
ShutdownQueue(u) ==
    /\ user[u].pc = "set"
    /\ queue' = Append(queue, Functor("shutdown"))
    /\ user' = [user EXCEPT ![u] = [pc |-> "idle"]]
    /\ late' = (late \/ downs > 0)
    /\ UNCHANGED <<state_, channel, bytes, input_buffer_, todo, callback, server, socket, unsent, downs>>

\* The user drops its TcpConnectionPtr.
Leave(u) ==
    /\ user[u].pc = "idle"
    /\ user' = [user EXCEPT ![u] = [pc |-> "left"]]
    /\ UNCHANGED <<state_, channel, bytes, input_buffer_, loop, server, socket, unsent, history>>

-----------------------------------------------------------------------------
\* NewConnection has listed the connection and queued ConnectEstablished.  server:
\* in connections_; RemoveConnectionInLoop calls pending; destructor entered.
\* socket: bytes to read; bytes the peer has sent; it closed; it reset; error not
\* yet reported; we shut down writing; room to write.
Init ==
    /\ state_ = "kConnecting"
    /\ events_ = {} /\ poller = NewPoller({Conn})
    /\ input_buffer_ = 0
    /\ output_buffer_ = <<>> /\ accepted = <<>> /\ written = <<>>
    /\ todo = <<>> /\ callback = "none"
    /\ queue = <<Functor("established")>>
    /\ server = [listed |-> TRUE, asked |-> 0, ended |-> FALSE]
    /\ user = [u \in Users |-> [pc |-> "idle"]]
    /\ socket = [rcv |-> 0, sent |-> 0, fin |-> FALSE, rst |-> FALSE, err |-> FALSE,
                 shut |-> FALSE, room |-> SndBuf]
    /\ unsent = Msgs
    /\ downs = 0 /\ late = FALSE

RunFunctor ==
    \/ ConnectEstablished \/ RunSend \/ RunShutdown \/ RunNotification
    \/ ConnectDestroyed \/ ConnectDestroyedRemove

Handler ==
    \/ HandleClose \/ HandleError \/ HandleReadEnd \/ HandleReadFails
    \/ \E n \in 1..PeerBytes : HandleRead(n)
    \/ HandleWrite \/ HandleWriteDown

Return == CallbackReturns \/ CloseReturns \/ DestroyReturns

CallbackStep == (\E m \in Msgs : SendInCallback(m)) \/ ShutdownInCallback

UserCall(u) == SendQueue(u) \/ ShutdownSetState(u) \/ ShutdownQueue(u)

UserStep(u) == (\E m \in Msgs : Send(u, m)) \/ Shutdown(u) \/ Leave(u)

PeerStep == PeerSends \/ PeerCloses \/ PeerResets \/ PeerReads

Next ==
    \/ RunFunctor \/ Poll \/ Handler \/ Return \/ CallbackStep
    \/ RemoveConnectionInLoop \/ ServerEnds \/ PeerStep
    \/ \E u \in Users : UserCall(u) \/ UserStep(u)

Spec == Init /\ [][Next]_vars

\* Callbacks return, the server's loop and threads inside Send and Shutdown are
\* scheduled.  Every round of Loop() polls and runs what is queued, so neither can
\* starve the other (strong fairness: each is enabled only between two rounds of
\* the other).  The peer reads what it is sent; nothing else is forced on anyone.
FairSpec ==
    /\ Spec
    /\ WF_vars(Handler) /\ WF_vars(Return)
    /\ SF_vars(RunFunctor) /\ SF_vars(Poll)
    /\ WF_vars(RemoveConnectionInLoop) /\ WF_vars(PeerReads)
    /\ \A u \in Users : WF_vars(UserCall(u))

-----------------------------------------------------------------------------
(* What the connection promises.                                           *)

\* The peer receives, and the output buffer keeps, exactly the bytes of the messages
\* that SendInLoop took, in their order, whichever threads sent them.
BytesInOrder == written \o output_buffer_ = accepted

\* index_, the map and the kernel agree, and the kernel has the current interests.
PollerAgrees ==
    /\ ~poller.fatal
    /\ poller.channels = IF poller.index[Conn] = "kNew" THEN {} ELSE {[fd |-> Fd, ptr |-> Conn]}
    /\ poller.epoll = IF poller.index[Conn] = "kAdded"
                      THEN {[fd |-> Fd, ptr |-> Conn, events |-> events_]} ELSE {}

\* Everything the peer sent has been handed to the message callback before the
\* connection is first closed from the peer's side.
InputBeforeClose == callback = "close" /\ ~late => socket.rcv = 0

\* The callback for a closed connection comes at most once.
ClosedOnce == downs <= 1 \/ late

\* What follows is promised while the server exists and no Shutdown call that saw
\* kConnected has gone on after the connection was closed.
Undisturbed == ~server.ended /\ ~late

\* ShutdownInLoop holds no reference; still it finds the connection alive.
ShutdownFindsConnection == Undisturbed /\ Queued("shutdown") => Alive

\* While the poller knows the channel, someone who will remove it holds the
\* connection, so that no dangling channel is left in the poller.
RegisteredIsOwned ==
    Undisturbed /\ poller.channels # {} =>
        \/ server.listed \/ server.asked > 0
        \/ Queued("destroyed") \/ callback \in {"close", "destroy"}

\* When the peer closes or resets, the connection is closed and its channel removed.
PeerCloseIsNoticed == EndOfInput /\ state_ = "kConnected" ~> poller.channels = {} \/ late

\* What the comment of SendInLoop says of the rest of a message: that HandleWrite
\* sends all of it.  It does not hold: EnableWriting makes the interests {IN, OUT},
\* for which IsWriteEvent() is false, and HandleWrite does nothing.
BufferedIsSent ==
    output_buffer_ # <<>> /\ state_ = "kConnected" ~> output_buffer_ = <<>> \/ state_ # "kConnected"
=============================================================================
