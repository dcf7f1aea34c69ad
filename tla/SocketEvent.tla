---------------------------- MODULE SocketEvent ----------------------------
(***************************************************************************)
(* The socket events of src/src/lucy/core/master.c: how an event of the    *)
(* kernel's epoll instance (src/src/lucy/osi/eventpoll.c) becomes a        *)
(* message of the service that owns the socket, and how the sockets are    *)
(* registered, replaced and closed.                                        *)
(*                                                                         *)
(* One master, and one worker that runs every service.  The master goes    *)
(* round the phases of l_master_loop: wait, dispatch what epoll returned,  *)
(* handle its messages, route.  The queues between the two threads are     *)
(* those of Runtime, which also models the messages of services to each    *)
(* other; here a step is one critical section under svmtx, or one message. *)
(* A descriptor is its number, and the kernel gives the lowest free one to *)
(* a new socket, so that a number outlives its socket.                     *)
(***************************************************************************)
EXTENDS Integers, Sequences, FiniteSets

CONSTANTS
    Services,    \* service objects
    Listener,    \* the service that is started first
    NoService,   \* no service
    MaxFd,       \* the descriptors a process may have open
    Arrivals,    \* sets of conditions that may become true of a socket at once
    MaxEvents,   \* bound: conditions and connections that arrive
    MaxOpens,    \* bound: sockets that services open
    MaxMods      \* bound: events that one service sets

Fds == 1..MaxFd
NoFd == -1               \* l_filedesc_empty

\* What epoll reports: EPOLLIN, EPOLLOUT, EPOLLHUP and EPOLLERR.
Conditions == {"READ", "WRITE", "HUP", "ERR"}

ASSUME SocketAssumption ==
    /\ Listener \in Services
    /\ NoService \notin Services
    /\ MaxFd \in Nat \ {0}
    /\ Arrivals \subseteq SUBSET Conditions
    /\ MaxEvents \in Nat
    /\ MaxOpens \in Nat
    /\ MaxMods \in Nat

VARIABLES
    \* the kernel
    open,      \* the descriptors that are open
    listens,   \* those that are listening sockets
    level,     \* level[fd]: the conditions that are true of the socket
    ready,     \* ready[fd]: the edges epoll has not yet reported
    watch,     \* watch[fd]: the service and conditions registered, or Unwatched
    pending,   \* pending[fd]: connections waiting to be accepted
    \* the service, guarded by svmtx
    evfd,      \* evfd[s]: the socket whose events are the service's
    evmk,      \* evmk[s]: the conditions reported and not yet taken
    flags,     \* flags[s]: of "listen", "connect" and "stoprx"
    \* the service, used by its thread
    flagw,     \* flagw[s]: of "started", "closing" and "socket"
    stage,     \* stage[s]: where the service is in its life
    held,      \* held[s]: descriptors in the service's own data
    \* the master
    phase,     \* where the master is in its loop
    events,    \* what epoll_wait returned and is not yet dispatched
    current,   \* the event being dispatched, with the flags it read
    mrx,       \* the master's rxmq
    mbatch,    \* the messages the master is handling
    txmq,      \* its messages to services
    out,       \* those it has routed to the worker
    \* the worker
    rx,        \* the worker's rxmq
    batch,     \* the messages it is handling
    txms,      \* its messages to the master
    running,   \* the service whose entry it is in
    step,      \* where it is in l_worker_handleMessage
    saved,     \* the flags it read, before it sets L_SERVICE_STOPRX
    \* bounds and history
    arrived, opens, mods,
    given,     \* given[s]: conditions handed to the entry since they last came
    dropped,   \* descriptors whose message was dropped
    replaced,  \* a service has set an event while it had one
    exhausted  \* accept has found no descriptor left

kernel == <<open, listens, level, ready, watch, pending>>
guarded == <<evfd, evmk, flags>>
private == <<flagw, stage, held>>
master == <<phase, events, current, mrx, mbatch, txmq, out>>
worker == <<rx, batch, txms, running, step, saved>>
bounds == <<arrived, opens, mods>>
history == <<given, dropped, replaced, exhausted>>
vars == <<kernel, guarded, private, master, worker, bounds, history>>

Unwatched == [svc |-> NoService, masks |-> {}]
NoEvent == [fd |-> NoFd, svc |-> NoService, flags |-> {}, masks |-> {}]

-----------------------------------------------------------------------------
(* The kernel.                                                             *)

Reported(fd) == watch[fd].masks \union {"HUP", "ERR"}

\* Conditions become true of a socket.
Arrive(fd, cs) ==
    /\ fd \in open \ listens
    /\ arrived < MaxEvents
    /\ arrived' = arrived + 1
    /\ level' = [level EXCEPT ![fd] = @ \union cs]
    /\ ready' = IF watch[fd] = Unwatched THEN ready
                ELSE [ready EXCEPT ![fd] = @ \union (cs \intersect Reported(fd))]
    /\ given' = IF watch[fd] = Unwatched THEN given
                ELSE [given EXCEPT ![watch[fd].svc] = @ \ cs]
    /\ UNCHANGED <<open, listens, watch, pending, guarded, private, master,
                   worker, opens, mods, dropped, replaced, exhausted>>

\* A peer connects to a listening socket.
Connect(fd) ==
    /\ fd \in listens
    /\ arrived < MaxEvents
    /\ arrived' = arrived + 1
    /\ pending' = [pending EXCEPT ![fd] = @ + 1]
    /\ level' = [level EXCEPT ![fd] = {"READ"}]
    /\ ready' = IF watch[fd] = Unwatched THEN ready
                ELSE [ready EXCEPT ![fd] = {"READ"} \intersect Reported(fd)]
    /\ UNCHANGED <<open, listens, watch, guarded, private, master, worker,
                   opens, mods, history>>

Lowest(S) == CHOOSE n \in S : \A k \in S : n <= k

\* The kernel opens fd: a listening socket, or another that starts with the
\* conditions of a socket nobody is connected to.
OpenFd(fd, listening) ==
    /\ open' = open \union {fd}
    /\ listens' = IF listening THEN listens \union {fd} ELSE listens

\* close(2) also takes the descriptor out of the epoll instance.
CloseFds(S) ==
    /\ open' = open \ S
    /\ listens' = listens \ S
    /\ level' = [fd \in Fds |-> IF fd \in S THEN {} ELSE level[fd]]
    /\ ready' = [fd \in Fds |-> IF fd \in S THEN {} ELSE ready[fd]]
    /\ watch' = [fd \in Fds |-> IF fd \in S THEN Unwatched ELSE watch[fd]]
    /\ pending' = [fd \in Fds |-> IF fd \in S THEN 0 ELSE pending[fd]]

\* l_eventmgr_add: registering reports what is already true; for a descriptor
\* that is registered it modifies the registration, and for one that is not
\* open it fails.
Register(fd, s, masks) ==
    IF fd \in open
    THEN /\ watch' = [watch EXCEPT ![fd] = [svc |-> s, masks |-> masks]]
         /\ ready' = [ready EXCEPT ![fd] =
                        level[fd] \intersect (masks \union {"HUP", "ERR"})]
    ELSE UNCHANGED <<watch, ready>>

\* llgetionfmasks: tests L_SOCKET_ERR, a bit that epoll does not have.
FromEpoll(cs) == cs \ {"ERR"}

-----------------------------------------------------------------------------
(* Messages.                                                               *)

Msg(id, s, fd, masks) == [id |-> id, svc |-> s, fd |-> fd, masks |-> masks]

MsgIds == {"START_REQ", "ADD_EVENT", "DEL_EVENT", "CLOSE_REQ", "START_RSP",
           "CONN_IND", "CONN_RSP", "EVENT_IND", "CLOSE_RSP"}

Message == [id: MsgIds, svc: Services \union {NoService},
            fd: Fds \union {NoFd}, masks: SUBSET Conditions]

ToMaster(ms) == txms' = txms \o ms
ToService(m) == txmq' = Append(txmq, m)

Online(s) == s \in Services /\ stage[s] = "online"

-----------------------------------------------------------------------------
(* l_eventmgr_wait and l_master_dispatchEvent.                             *)

\* epoll_wait returns every edge since the last call, or only the wakeup.
MasterWait ==
    /\ phase = "wait"
    /\ \/ mrx # <<>>
       \/ \E fd \in Fds : ready[fd] # {}
    /\ events' = {[fd |-> fd, svc |-> watch[fd].svc, masks |-> FromEpoll(ready[fd])] :
                    fd \in {f \in Fds : ready[f] # {}}}
    /\ ready' = [fd \in Fds |-> {}]
    /\ phase' = "dispatch"
    /\ UNCHANGED <<open, listens, level, watch, pending, guarded, private,
                   current, mrx, mbatch, txmq, out, worker, bounds, history>>

\* Nothing is reported, the service is not found, or the socket is not the
\* service's any more.
Ignored(e) == e.masks = {} \/ ~Online(e.svc) \/ evfd[e.svc] # e.fd

DispatchIgnored(e) ==
    /\ phase = "dispatch" /\ e \in events
    /\ Ignored(e)
    /\ events' = events \ {e}
    /\ UNCHANGED <<kernel, guarded, private, phase, current, mrx, mbatch, txmq,
                   out, worker, bounds, history>>

\* A listening socket: all its connections are accepted, without the lock.
DispatchListen(e) ==
    /\ phase = "dispatch" /\ e \in events
    /\ ~Ignored(e)
    /\ "listen" \in flags[e.svc]
    /\ events' = events \ {e}
    /\ current' = [fd |-> e.fd, svc |-> e.svc, flags |-> {}, masks |-> {}]
    /\ phase' = "accept"
    /\ UNCHANGED <<kernel, guarded, private, mrx, mbatch, txmq, out, worker,
                   bounds, history>>

\* Seeded fault: the event is taken for handled before accept is called.
NoneAccepted(fd) == phase = "accept"

AllAccepted(fd) == pending[fd] = 0

\* l_socket_accept and l_master_acceptConnection.
Accept ==
    /\ phase = "accept"
    /\ ~AllAccepted(current.fd)
    /\ Fds \ open # {}
    /\ LET fd == Lowest(Fds \ open) IN
         /\ OpenFd(fd, FALSE)
         /\ ToService(Msg("CONN_IND", current.svc, fd, {}))
    /\ pending' = [pending EXCEPT ![current.fd] = @ - 1]
    /\ UNCHANGED <<level, ready, watch, guarded, private, phase, events,
                   current, mrx, mbatch, out, worker, bounds, history>>

\* EAGAIN, or EMFILE when there is no descriptor left.
AcceptEnds ==
    /\ phase = "accept"
    /\ AllAccepted(current.fd) \/ Fds \ open = {}
    /\ exhausted' = (exhausted \/ ~AllAccepted(current.fd))
    /\ level' = IF pending[current.fd] = 0
                THEN [level EXCEPT ![current.fd] = {}] ELSE level
    /\ current' = NoEvent
    /\ phase' = "dispatch"
    /\ UNCHANGED <<open, listens, ready, watch, pending, guarded, private,
                   events, mrx, mbatch, txmq, out, worker, bounds, given,
                   dropped, replaced>>

\* A connecting socket.  flags is read here and written in ConnectDone; the
\* worker writes it under another mutex.
DispatchConnect(e) ==
    /\ phase = "dispatch" /\ e \in events
    /\ ~Ignored(e)
    /\ "listen" \notin flags[e.svc] /\ "connect" \in flags[e.svc]
    /\ events' = events \ {e}
    /\ current' = [fd |-> e.fd, svc |-> e.svc, flags |-> flags[e.svc], masks |-> e.masks]
    /\ phase' = "connect"
    /\ UNCHANGED <<kernel, guarded, private, mrx, mbatch, txmq, out, worker,
                   bounds, history>>

ConnectDone ==
    /\ phase = "connect"
    /\ flags' = [flags EXCEPT ![current.svc] = current.flags \ {"connect"}]
    /\ ToService(Msg("CONN_RSP", current.svc, current.fd, current.masks))
    /\ current' = NoEvent
    /\ phase' = "dispatch"
    /\ UNCHANGED <<kernel, evfd, evmk, private, events, mrx, mbatch, out,
                   worker, bounds, history>>

\* Seeded fault: conditions that come while some are pending are forgotten.
Overwritten(s, cs) == IF evmk[s] = {} THEN cs ELSE evmk[s]

Collected(s, cs) == evmk[s] \union cs

\* Any other socket: the first conditions are announced, more are collected.
DispatchData(e) ==
    /\ phase = "dispatch" /\ e \in events
    /\ ~Ignored(e)
    /\ flags[e.svc] \intersect {"listen", "connect"} = {}
    /\ events' = events \ {e}
    /\ evmk' = [evmk EXCEPT ![e.svc] = Collected(e.svc, e.masks)]
    /\ IF evmk[e.svc] = {}
       THEN ToService(Msg("EVENT_IND", e.svc, e.fd, {}))
       ELSE UNCHANGED txmq
    /\ UNCHANGED <<kernel, evfd, flags, private, phase, current, mrx, mbatch,
                   out, worker, bounds, history>>

-----------------------------------------------------------------------------
(* l_master_handleMessage and the routing loop.                            *)

MasterTake ==
    /\ phase = "dispatch"
    /\ events = {}
    /\ mbatch' = mrx
    /\ mrx' = <<>>
    /\ phase' = "handle"
    /\ UNCHANGED <<kernel, guarded, private, events, current, txmq, out,
                   worker, bounds, history>>

MasterHandling(id) ==
    /\ phase = "handle"
    /\ mbatch # <<>>
    /\ Head(mbatch).id = id
    /\ mbatch' = Tail(mbatch)

\* L_MSGID_SRVC_START_REQ: an event set before the start is registered.
HandleStartReq ==
    /\ MasterHandling("START_REQ")
    /\ LET s == Head(mbatch).svc IN
         /\ IF evfd[s] # NoFd
            THEN /\ Register(evfd[s], s, evmk[s])
                 /\ evmk' = [evmk EXCEPT ![s] = {}]
            ELSE UNCHANGED <<watch, ready, evmk>>
         /\ stage' = [stage EXCEPT ![s] = "online"]
         /\ ToService(Msg("START_RSP", s, NoFd, {}))
    /\ UNCHANGED <<open, listens, level, pending, evfd, flags, flagw, held,
                   phase, events, current, mrx, out, worker, bounds, history>>

HandleAddEvent ==
    /\ MasterHandling("ADD_EVENT")
    /\ Register(Head(mbatch).fd, Head(mbatch).svc, Head(mbatch).masks)
    /\ UNCHANGED <<open, listens, level, pending, guarded, private, phase,
                   events, current, mrx, txmq, out, worker, bounds, history>>

\* Seeded fault: the event is deleted but its descriptor is not closed.
OnlyDeleted(fd) ==
    /\ watch' = [watch EXCEPT ![fd] = Unwatched]
    /\ ready' = [ready EXCEPT ![fd] = {}]
    /\ UNCHANGED <<open, listens, level, pending>>

DeleteAndClose(fd) == CloseFds({fd})

HandleDelEvent ==
    /\ MasterHandling("DEL_EVENT")
    /\ IF Head(mbatch).fd = NoFd THEN UNCHANGED kernel
       ELSE DeleteAndClose(Head(mbatch).fd)
    /\ UNCHANGED <<guarded, private, phase, events, current, mrx, txmq, out,
                   worker, bounds, history>>

HandleCloseReq ==
    /\ MasterHandling("CLOSE_REQ")
    /\ LET s == Head(mbatch).svc IN
         /\ stage' = [stage EXCEPT ![s] = "offline"]
         /\ ToService(Msg("CLOSE_RSP", s, NoFd, {}))
    /\ UNCHANGED <<kernel, guarded, flagw, held, phase, events, current, mrx,
                   out, worker, bounds, history>>

MasterGet ==
    /\ phase = "handle"
    /\ mbatch = <<>>
    /\ phase' = "route"
    /\ UNCHANGED <<kernel, guarded, private, events, current, mrx, mbatch,
                   txmq, out, worker, bounds, history>>

\* Seeded fault: every message is read as one that brings a socket.
CarriedByAny(m) == {m.fd}

\* The descriptor that is lost with a message: CONN_IND alone carries one
\* that nobody else has.
Carried(m) == IF m.id = "CONN_IND" THEN {m.fd} ELSE {}

Routed(m) ==
    m.id = "CLOSE_RSP" \/ (Online(m.svc) /\ "stoprx" \notin flags[m.svc])

MasterRoute ==
    /\ phase = "route"
    /\ txmq # <<>>
    /\ txmq' = Tail(txmq)
    /\ LET m == Head(txmq) IN
         IF Routed(m)
         THEN out' = Append(out, m) /\ UNCHANGED dropped
         ELSE dropped' = dropped \union Carried(m) /\ UNCHANGED out
    /\ UNCHANGED <<kernel, guarded, private, phase, events, current, mrx,
                   mbatch, worker, bounds, given, replaced, exhausted>>

\* Seeded fault: the messages delivered overtake those that wait.
DeliveredFirst == out \o rx

Delivered == rx \o out

MasterDeliver ==
    /\ phase = "route"
    /\ txmq = <<>>
    /\ rx' = Delivered
    /\ out' = <<>>
    /\ phase' = "wait"
    /\ UNCHANGED <<kernel, guarded, private, events, current, mrx, mbatch,
                   txmq, batch, txms, running, step, saved, bounds, history>>

MasterStep ==
    \/ MasterWait
    \/ \E e \in events : \/ DispatchIgnored(e)
                         \/ DispatchListen(e)
                         \/ DispatchConnect(e)
                         \/ DispatchData(e)
    \/ Accept \/ AcceptEnds \/ ConnectDone
    \/ MasterTake
    \/ HandleStartReq \/ HandleAddEvent \/ HandleDelEvent \/ HandleCloseReq
    \/ MasterGet \/ MasterRoute \/ MasterDeliver

-----------------------------------------------------------------------------
(* l_worker_start and l_worker_handleMessage.                              *)

WorkerTake ==
    /\ step = "idle"
    /\ batch = <<>> /\ txms = <<>>
    /\ rx # <<>>
    /\ batch' = rx
    /\ rx' = <<>>
    /\ UNCHANGED <<kernel, guarded, private, master, txms, running, step,
                   saved, bounds, history>>

WorkerFlush ==
    /\ step = "idle"
    /\ batch = <<>> /\ txms # <<>>
    /\ mrx' = mrx \o txms
    /\ txms' = <<>>
    /\ UNCHANGED <<kernel, guarded, private, phase, events, current, mbatch,
                   txmq, out, rx, batch, running, step, saved, bounds, history>>

\* L_MSGID_SRVC_CLOSE_RSP: the entry closes what it holds, and is freed.
HandleClosed ==
    /\ step = "idle" /\ batch # <<>>
    /\ LET s == Head(batch).svc IN
         /\ Head(batch).id = "CLOSE_RSP"
         /\ CloseFds(held[s])
         /\ held' = [held EXCEPT ![s] = {}]
         /\ stage' = [stage EXCEPT ![s] = "freed"]
    /\ batch' = Tail(batch)
    /\ UNCHANGED <<guarded, flagw, master, rx, txms, running, step, saved,
                   bounds, history>>

\* A closing service handles no message.
HandleSkipped ==
    /\ step = "idle" /\ batch # <<>>
    /\ Head(batch).id # "CLOSE_RSP"
    /\ "closing" \in flagw[Head(batch).svc]
    /\ dropped' = dropped \union Carried(Head(batch))
    /\ batch' = Tail(batch)
    /\ UNCHANGED <<kernel, guarded, private, master, rx, txms, running, step,
                   saved, bounds, given, replaced, exhausted>>

\* Seeded fault: the conditions are read and not cleared.
StillCollected(s) == evmk[s]

Taken(s) == {}

\* A service handles a message: EVENT_IND brings the conditions collected
\* since it was sent, CONN_IND a socket.
HandleMessage ==
    /\ step = "idle" /\ batch # <<>>
    /\ LET m == Head(batch)
           s == m.svc
       IN  /\ m.id # "CLOSE_RSP"
           /\ "closing" \notin flagw[s]
           /\ IF m.id = "EVENT_IND"
              THEN /\ evmk' = [evmk EXCEPT ![s] = Taken(s)]
                   /\ given' = [given EXCEPT ![s] = @ \union evmk[s]]
              ELSE /\ given' = [given EXCEPT ![s] = @ \union m.masks]
                   /\ UNCHANGED evmk
           /\ held' = [held EXCEPT ![s] = @ \union Carried(m)]
           /\ running' = s
    /\ step' = "entry"
    /\ batch' = Tail(batch)
    /\ UNCHANGED <<kernel, evfd, flags, flagw, stage, master, rx, txms, saved,
                   bounds, dropped, replaced,
                   exhausted>>

-----------------------------------------------------------------------------
(* The calls a service may make in its entry.                              *)

Calling(s) == step = "entry" /\ running = s

\* l_socket_listen or l_socket_connect.
OpenSocket(s, listening) ==
    /\ Calling(s)
    /\ opens < MaxOpens /\ Fds \ open # {}
    /\ opens' = opens + 1
    /\ LET fd == Lowest(Fds \ open) IN
         /\ OpenFd(fd, listening)
         /\ held' = [held EXCEPT ![s] = @ \union {fd}]
    /\ UNCHANGED <<level, ready, watch, pending, guarded, flagw, stage, master,
                   worker, arrived, mods, history>>

\* l_socket_close of a socket of its own.
CloseSocket(s, fd) ==
    /\ Calling(s)
    /\ fd \in held[s]
    /\ CloseFds({fd})
    /\ held' = [held EXCEPT ![s] = @ \ {fd}]
    /\ UNCHANGED <<guarded, flagw, stage, master, worker, bounds, history>>

\* flagw | L_SERVICE_STARTED, which is never zero.
Refused(s) == flagw[s] \union {"started"} # {}

\* A new service is given the socket: l_service_create, l_service_setEvent
\* (l_service_setEventImpl), l_service_start.
StartWith(s, t, fd) ==
    /\ Calling(s)
    /\ stage[t] = "none" /\ fd \in held[s]
    /\ stage' = [stage EXCEPT ![t] = "starting"]
    /\ held' = [held EXCEPT ![s] = @ \ {fd}, ![t] = {fd}]
    /\ IF Refused(t)
       THEN /\ flagw' = [flagw EXCEPT ![t] = @ \union {"started"}]
            /\ UNCHANGED <<evfd, evmk>>
       ELSE /\ flagw' = [flagw EXCEPT ![t] = @ \union {"started", "socket"}]
            /\ evfd' = [evfd EXCEPT ![t] = fd]
            /\ evmk' = [evmk EXCEPT ![t] = {"READ"}]
    /\ ToMaster(<<Msg("START_REQ", t, NoFd, {})>>)
    /\ UNCHANGED <<kernel, flags, master, rx, batch, running, step, saved,
                   bounds, history>>

\* l_service_delEvent.
DelEvent(s) ==
    IF "socket" \in flagw[s]
    THEN /\ evfd' = [evfd EXCEPT ![s] = NoFd]
         /\ flagw' = [flagw EXCEPT ![s] = @ \ {"socket"}]
    ELSE UNCHANGED <<evfd, flagw>>

Deletion(s) ==
    IF "socket" \in flagw[s] /\ evfd[s] # NoFd
    THEN <<Msg("DEL_EVENT", NoService, evfd[s], {})>> ELSE <<>>

CallDelEvent(s) ==
    /\ Calling(s)
    /\ DelEvent(s)
    /\ ToMaster(Deletion(s))
    /\ UNCHANGED <<kernel, evmk, flags, stage, held, master, rx, batch,
                   running, step, saved, bounds, history>>

\* What l_service_modEvent, modListen and modConnect register.
Watched(kind) == IF kind = "connect" THEN {"READ", "WRITE"} ELSE {"READ"}

\* l_service_mod_event_impl, which deletes the new descriptor and not the old.
Replaced(s, fd) == fd

ModEvent(s, fd, kind) ==
    /\ Calling(s)
    /\ mods[s] < MaxMods
    /\ fd # NoFd \/ evfd[s] # NoFd
    /\ kind = "listen" <=> fd \in listens
    /\ mods' = [mods EXCEPT ![s] = @ + 1]
    /\ evfd' = [evfd EXCEPT ![s] = fd]
    /\ evmk' = [evmk EXCEPT ![s] = {}]
    /\ held' = [held EXCEPT ![s] = @ \ {fd}]
    /\ given' = [given EXCEPT ![s] = {}]
    /\ replaced' = (replaced \/ evfd[s] # NoFd)
    /\ IF fd = NoFd
       THEN /\ flagw' = [flagw EXCEPT ![s] = @ \ {"socket"}]
            /\ UNCHANGED flags
       ELSE /\ flagw' = [flagw EXCEPT ![s] = @ \union {"socket"}]
            /\ flags' = [flags EXCEPT ![s] = {kind} \ {"data"}]
    /\ ToMaster((IF evfd[s] = NoFd THEN <<>>
                 ELSE <<Msg("DEL_EVENT", NoService, Replaced(s, fd), {})>>)
                \o (IF fd = NoFd THEN <<>>
                    ELSE <<Msg("ADD_EVENT", s, fd, Watched(kind))>>))
    /\ UNCHANGED <<kernel, stage, master, rx, batch, running, step, saved,
                   arrived, opens, dropped, exhausted>>

\* l_service_close(self).
CloseSelf(s) ==
    /\ Calling(s)
    /\ "closing" \notin flagw[s]
    /\ flagw' = [flagw EXCEPT ![s] = @ \union {"closing"}]
    /\ UNCHANGED <<kernel, guarded, stage, held, master, worker, bounds, history>>

\* The entry returns.  A closing service reads its flags ...
EntryReturn(s) ==
    /\ Calling(s)
    /\ IF "closing" \in flagw[s]
       THEN /\ step' = "stop" /\ saved' = flags[s] /\ UNCHANGED running
       ELSE /\ step' = "idle" /\ running' = NoService /\ UNCHANGED saved
    /\ UNCHANGED <<kernel, guarded, private, master, rx, batch, txms, bounds,
                   history>>

\* ... writes them with L_SERVICE_STOPRX ...
StopRx(s) ==
    /\ step = "stop" /\ running = s
    /\ flags' = [flags EXCEPT ![s] = saved \union {"stoprx"}]
    /\ saved' = {}
    /\ step' = "close"
    /\ UNCHANGED <<kernel, evfd, evmk, private, master, rx, batch, txms,
                   running, bounds, history>>

\* Seeded fault: the service is closed before its event is deleted.
CloseFirst(s) == <<Msg("CLOSE_REQ", s, NoFd, {})>> \o Deletion(s)

LastWords(s) == Deletion(s) \o <<Msg("CLOSE_REQ", s, NoFd, {})>>

\* ... deletes its event, and asks the master to close it.
CloseService(s) ==
    /\ step = "close" /\ running = s
    /\ DelEvent(s)
    /\ ToMaster(LastWords(s))
    /\ step' = "idle"
    /\ running' = NoService
    /\ UNCHANGED <<kernel, evmk, flags, stage, held, master, rx, batch, saved,
                   bounds, history>>

Entry(s) ==
    \/ \E listening \in BOOLEAN : OpenSocket(s, listening)
    \/ \E fd \in held[s] : CloseSocket(s, fd)
    \/ \E t \in Services, fd \in held[s] : StartWith(s, t, fd)
    \/ CallDelEvent(s)
    \/ \E fd \in held[s] \union {evfd[s], NoFd}, kind \in {"data", "listen", "connect"} :
         ModEvent(s, fd, kind)
    \/ CloseSelf(s)
    \/ EntryReturn(s)
    \/ StopRx(s)
    \/ CloseService(s)

WorkerStep ==
    \/ WorkerTake \/ WorkerFlush
    \/ HandleClosed \/ HandleSkipped \/ HandleMessage
    \/ \E s \in Services : Entry(s)

KernelStep ==
    \E fd \in Fds : Connect(fd) \/ \E cs \in Arrivals : Arrive(fd, cs)

-----------------------------------------------------------------------------
(* The listening service has been started and nothing else has happened.   *)

Init ==
    /\ open = {} /\ listens = {}
    /\ level = [fd \in Fds |-> {}]
    /\ ready = [fd \in Fds |-> {}]
    /\ watch = [fd \in Fds |-> Unwatched]
    /\ pending = [fd \in Fds |-> 0]
    /\ evfd = [s \in Services |-> NoFd]
    /\ evmk = [s \in Services |-> {}]
    /\ flags = [s \in Services |-> {}]
    /\ flagw = [s \in Services |-> IF s = Listener THEN {"started"} ELSE {}]
    /\ stage = [s \in Services |-> IF s = Listener THEN "starting" ELSE "none"]
    /\ held = [s \in Services |-> {}]
    /\ phase = "wait"
    /\ events = {}
    /\ current = NoEvent
    /\ mrx = <<Msg("START_REQ", Listener, NoFd, {})>>
    /\ mbatch = <<>> /\ txmq = <<>> /\ out = <<>>
    /\ rx = <<>> /\ batch = <<>> /\ txms = <<>>
    /\ running = NoService
    /\ step = "idle"
    /\ saved = {}
    /\ arrived = 0 /\ opens = 0
    /\ mods = [s \in Services |-> 0]
    /\ given = [s \in Services |-> {}]
    /\ dropped = {}
    /\ replaced = FALSE /\ exhausted = FALSE

Next == MasterStep \/ WorkerStep \/ KernelStep

Spec == Init /\ [][Next]_vars

\* Both threads are scheduled, and an entry returns after finitely many calls;
\* the kernel and the peers promise nothing.
Fairness == WF_vars(MasterStep) /\ WF_vars(WorkerStep)

FairSpec == Spec /\ Fairness

-----------------------------------------------------------------------------
(* Safety.                                                                 *)

\* The types of the variables.
TypeOK ==
    /\ open \subseteq Fds /\ listens \subseteq open
    /\ level \in [Fds -> SUBSET Conditions]
    /\ ready \in [Fds -> SUBSET Conditions]
    /\ watch \in [Fds -> [svc: Services \union {NoService}, masks: SUBSET Conditions]]
    /\ pending \in [Fds -> 0..MaxEvents]
    /\ evfd \in [Services -> Fds \union {NoFd}]
    /\ evmk \in [Services -> SUBSET Conditions]
    /\ flags \in [Services -> SUBSET {"listen", "connect", "stoprx"}]
    /\ flagw \in [Services -> SUBSET {"started", "closing", "socket"}]
    /\ stage \in [Services -> {"none", "starting", "online", "offline", "freed"}]
    /\ held \in [Services -> SUBSET Fds]
    /\ phase \in {"wait", "dispatch", "accept", "connect", "handle", "route"}
    /\ events \subseteq [fd: Fds, svc: Services \union {NoService},
                         masks: SUBSET Conditions]
    /\ current.fd \in Fds \union {NoFd}
    /\ \A q \in {mrx, mbatch, txmq, out, rx, batch, txms} : q \in Seq(Message)
    /\ running \in Services \union {NoService}
    /\ step \in {"idle", "entry", "stop", "close"}
    /\ saved \subseteq {"listen", "connect", "stoprx"}
    /\ arrived \in 0..MaxEvents /\ opens \in 0..MaxOpens
    /\ mods \in [Services -> 0..MaxMods]
    /\ given \in [Services -> SUBSET Conditions]
    /\ dropped \subseteq Fds
    /\ replaced \in BOOLEAN /\ exhausted \in BOOLEAN

Elements(q) == {q[i] : i \in DOMAIN q}
ForService == txmq \o out \o rx \o batch
ForMaster == txms \o mrx \o mbatch

\* Collected conditions are never forgotten: a service that has some is about
\* to be told, whether the master found evmk empty before or after the worker
\* emptied it, and whether or not the event was replaced meanwhile.  A service
\* that is stopping is not told any more.
Announced ==
    \A s \in Services :
      evmk[s] # {} /\ Online(s) /\ "closing" \notin flagw[s] =>
        \E m \in Elements(ForService) : m.id = "EVENT_IND" /\ m.svc = s

\* The worker never uses a service it has freed, although the master may have
\* lost L_SERVICE_STOPRX when it cleared L_SOCKET_FLAG_CONNECT (lines 1536 and
\* 1606 write the same word under different mutexes): leaving the table is
\* what ends the messages of a service.
NoDangling ==
    /\ \A m \in Elements(out \o rx \o batch) : stage[m.svc] # "freed"
    /\ running # NoService => stage[running] \in {"online"}

\* Who is responsible for descriptor fd.
Owners(fd) ==
    {<<"held", s>> : s \in {t \in Services : fd \in held[t]}}
    \union {<<"event", s>> : s \in {t \in Services : evfd[t] = fd}}
    \union {<<"deleting", i>> : i \in {j \in DOMAIN ForMaster :
               ForMaster[j].id = "DEL_EVENT" /\ ForMaster[j].fd = fd}}
    \union {<<"carried", i>> : i \in {j \in DOMAIN ForService :
               ForService[j].id = "CONN_IND" /\ ForService[j].fd = fd}}
    \union (IF fd \in dropped THEN {<<"dropped", fd>>} ELSE {})

\* A socket has one owner from accept or open to close: the service's data, its
\* event, a message that asks the master to close it, or one that brings it to
\* a service.  So nobody closes a number that is another's socket by now, and a
\* socket leaks only with a message that the runtime dropped.
OneOwner ==
    ~replaced =>
      \A fd \in Fds : Cardinality(Owners(fd)) = IF fd \in open THEN 1 ELSE 0

\* epoll and the services agree: the socket of a service is registered for it
\* or will be, and what is registered for a service is its socket or will be
\* deleted; nothing is registered for a service that has left the table.
Agreed ==
    ~replaced =>
      /\ \A s \in Services : evfd[s] # NoFd =>
           \/ watch[evfd[s]].svc = s
           \/ \E m \in Elements(ForMaster) :
                m.id = "ADD_EVENT" /\ m.svc = s /\ m.fd = evfd[s]
      /\ \A fd \in Fds : watch[fd] # Unwatched =>
           \/ evfd[watch[fd].svc] = fd
           \/ \E m \in Elements(ForMaster) : m.id = "DEL_EVENT" /\ m.fd = fd
      /\ \A fd \in Fds : watch[fd] # Unwatched => stage[watch[fd].svc] = "online"

\* After l_service_modEvent the service is "prepare[d] to receive": its socket
\* is open.
EventIsOpen == \A s \in Services : evfd[s] # NoFd => evfd[s] \in open

-----------------------------------------------------------------------------
(* Liveness.                                                               *)

\* What epoll noticed about the socket of a service reaches its entry, in
\* EVENT_IND or CONN_RSP, unless the service closes or drops its event.  An
\* error alone is not noticed (FromEpoll).
Noticed ==
    \A s \in Services, fd \in Fds, c \in UNION Arrivals \ {"ERR"} :
      fd \notin listens /\ c \in ready[fd] /\ watch[fd].svc = s
      ~> c \in given[s] \/ "closing" \in flagw[s] \/ evfd[s] # fd \/ replaced

\* The connections waiting at a registered listening socket are accepted.  Not
\* if accept once found no descriptor left: the edge is gone, and connections
\* wait for the next one even when descriptors have been closed since.
Accepted ==
    \A fd \in Fds :
      pending[fd] > 0 /\ watch[fd] # Unwatched
      ~> pending[fd] = 0 \/ exhausted \/ replaced
=============================================================================
