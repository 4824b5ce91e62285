---------------------------- MODULE EpollPoller -----------------------------
(***************************************************************************)
(* mymuduo/Epoll_poller.{h,cpp} and channel.{h,cpp}: how a channel's set of *)
(* interests gets to epoll, and how reported events become calls of its     *)
(* handlers.  A poller is a record                                         *)
(*    index     the index_ of each channel                                 *)
(*    channels  the map channels_, as a set of [fd, ptr]                   *)
(*    epoll     what the kernel watches, as a set of [fd, ptr, events]      *)
(*    fatal     epoll_ctl(ADD or MOD) failed: LOG_FATAL ends the process    *)
(***************************************************************************)
EXTENDS Naturals, Sequences

Indices == {"kNew", "kAdded", "kDeleted"}

\* kReadEvent (EPOLLIN | EPOLLPRI) is "IN", kWriteEvent is "OUT".
Interests == {"IN", "OUT"}

NewPoller(chans) ==
    [index |-> [c \in chans |-> "kNew"], channels |-> {}, epoll |-> {}, fatal |-> FALSE]

Watches(p, fd) == \E w \in p.epoll : w.fd = fd

\* epoll_ctl
EpollCtl(p, op, c, fd, events) ==
    LET others == {w \in p.epoll : w.fd # fd} IN
    [p EXCEPT !.epoll = IF op = "DEL" THEN others
                        ELSE others \cup {[fd |-> fd, ptr |-> c, events |-> events]},
              !.fatal = \/ @
                        \/ op = "ADD" /\ Watches(p, fd)
                        \/ op = "MOD" /\ ~Watches(p, fd)]

\* close(fd): the kernel forgets the descriptor, the map channels_ does not.
CloseFd(p, fd) == [p EXCEPT !.epoll = {w \in @ : w.fd # fd}]

\* A new or deleted channel is added whatever its interests are.
UpdateChannel(p, c, fd, events) ==
    CASE p.index[c] = "kNew" ->
            EpollCtl([p EXCEPT !.channels = {m \in @ : m.fd # fd} \cup {[fd |-> fd, ptr |-> c]},
                               !.index[c] = "kAdded"], "ADD", c, fd, events)
      [] p.index[c] = "kDeleted" ->
            EpollCtl([p EXCEPT !.index[c] = "kAdded"], "ADD", c, fd, events)
      [] p.index[c] = "kAdded" /\ events = {} ->
            EpollCtl([p EXCEPT !.index[c] = "kDeleted"], "DEL", c, fd, events)
      [] OTHER -> EpollCtl(p, "MOD", c, fd, events)

\* faulty RemoveChannel: index_ is not reset
KeepIndex(p, c, fd) ==
    LET q == [p EXCEPT !.channels = {m \in @ : m.fd # fd}] IN
    IF p.index[c] = "kAdded" THEN EpollCtl(q, "DEL", c, fd, {}) ELSE q

RemoveChannel(p, c, fd) ==
    LET q == [p EXCEPT !.channels = {m \in @ : m.fd # fd}, !.index[c] = "kNew"] IN
    IF p.index[c] = "kAdded" THEN EpollCtl(q, "DEL", c, fd, {}) ELSE q

\* IsWriteEvent() compares the whole set.
IsWriteEvent(events) == events = {"OUT"}

\* epoll_wait and FillActiveChannels: errors and hang-ups are always reported.
Revents(w, ready) == ready \cap (w.events \cup {"HUP", "ERR"})

\* faulty Called: a hang-up closes even if there is something to read
CloseOnHangup(h, revents) ==
    CASE h = "close" -> "HUP" \in revents
      [] h = "error" -> "ERR" \in revents
      [] h = "read"  -> "IN" \in revents
      [] h = "write" -> "OUT" \in revents

Called(h, revents) ==
    CASE h = "close" -> "HUP" \in revents /\ "IN" \notin revents
      [] h = "error" -> "ERR" \in revents
      [] h = "read"  -> "IN" \in revents
      [] h = "write" -> "OUT" \in revents

\* The handlers that HandleEventWithGuard calls, in its order.
Handlers(revents) ==
    LET Call(h) == IF Called(h, revents) THEN <<h>> ELSE <<>>
    IN  Call("close") \o Call("error") \o Call("read") \o Call("write")
=============================================================================
