------------------------------ MODULE Runtime ------------------------------
(***************************************************************************)
(* The message runtime of src/src/lucy/core/master.c: one master thread,   *)
(* NumWorkers worker threads, and the services they run.                   *)
(*                                                                         *)
(* Thread 0 is the master, threads 1..NumWorkers are the workers (thread   *)
(* t is the C thread whose index was initialised to t).  A service is      *)
(* named by its object, so the name stands for both the pointer srvc and   *)
(* the svid in the low 32 bits of its id.  With NumWorkers = 0 (the        *)
(* shipped conf.lua) the master also runs the services.                    *)
(*                                                                         *)
(* A step is one critical section or one message: what a thread does with  *)
(* its private queues between two lock operations is not visible to the    *)
(* others.  The two sleeping protocols are modelled in WorkerWait (a       *)
(* worker on its condition variable) and MasterWakeup (the master on its   *)
(* eventfd); here a worker may take a nonempty queue and the master may    *)
(* leave its wait when it was notified.  The services of this module own   *)
(* no socket and no coroutine.                                             *)
(***************************************************************************)
EXTENDS Integers, Sequences, FiniteSets

CONSTANTS
    Services,    \* service objects that can be created
    Boot,        \* the bootstrap service, L_SERVICE_BOOTSTRAP
    NoService,   \* a null service pointer
    NumWorkers,  \* l_num_workers
    MaxSends,    \* bound: messages sent by services
    MaxExits,    \* bound: calls of l_master_exit
    MaxCalls,    \* bound: both together, an exit counting for two
    FullIds      \* whether services also address others by l_service_id(),
                 \* whose high bits hold the thread index

NoThread == -1                \* a null srvc->thread
Workers == 1..NumWorkers
Threads == 0..NumWorkers
Hosts == IF NumWorkers > 0 THEN Workers ELSE {0}  \* threads that run services

ASSUME RuntimeAssumption ==
    /\ NumWorkers \in Nat
    /\ Boot \in Services
    /\ NoService \notin Services
    /\ MaxSends \in Nat
    /\ MaxExits \in Nat
    /\ MaxCalls \in Nat
    /\ FullIds \in BOOLEAN
    /\ IsFiniteSet(Services)

VARIABLES
    rx,        \* rx[t]: thread t's rxmq, guarded by its mutex
    txms,      \* txms[t]: thread t's queue of messages to the master
    txmq,      \* txmq[t]: thread t's queue of messages to services
    msgRxq,    \* l_msg_rxq, guarded by l_msg_mtx
    notified,  \* the master was woken up and has not yet returned from wait
    pc,        \* pc[t]: where thread t is in its loop
    batch,     \* batch[t]: the msgq thread t is handling
    route,     \* the rxmq of l_master_loop, being routed
    out,       \* out[w]: the per-worker queue mq + w - 1 of l_master_loop
    sweep,     \* the loop index i of the L_MSGID_MASTER_EXIT_REQ handler
    exitedWorkers, \* the local exited_workers of l_master_handleMessage
    alive,     \* alive[w]: l_worker_thread[w-1].index # 0
    threadExit,\* threadExit[w]: the local threadExit of l_worker_start
    running,   \* running[t]: the service whose entry thread t is in
    table,     \* l_srvc_table
    weight,    \* weight[w]: the worker's weight
    thread,    \* thread[s]: srvc->thread
    closing,   \* closing[s]: srvc->flagw & L_SERVICE_CLOSING
    stoprx,    \* stoprx[s]: srvc->flags & L_SERVICE_STOPRX
    memory,    \* memory[s]: what became of the service's buffer
    crashed,   \* an invalid pointer was dereferenced
    sends,     \* messages sent by services so far
    exits,     \* calls of l_master_exit so far
    log        \* log[s]: history of the messages given to the entry of s

queues == <<rx, txms, txmq, msgRxq>>
master == <<route, out, sweep, exitedWorkers, alive, weight, table>>
services == <<thread, closing, stoprx, memory, log>>
bounds == <<sends, exits>>
vars == <<queues, master, services, bounds, notified, pc, batch, threadExit,
          running, crashed>>

-----------------------------------------------------------------------------
(* Messages.                                                               *)

MsgIds == {"START_REQ", "START_RSP", "CLOSE_REQ", "CLOSE_RSP", "USER",
           "MASTER_EXIT_REQ", "WORKER_EXIT_REQ", "WORKER_EXIT_RSP"}

\* svc is the service a message is for or about, tidx the thread index in the
\* high bits of dest (or the data of WORKER_EXIT_RSP), ptr whether the master
\* has replaced the id in dest by a service pointer, src and n the sender and
\* number of a service's message.
Envelope == [id: MsgIds, svc: Services \union {NoService}, tidx: Threads,
             ptr: BOOLEAN, src: Services \union {NoService}, n: 0..MaxSends]

\* The messages about no service.
Control == {"MASTER_EXIT_REQ", "WORKER_EXIT_REQ", "WORKER_EXIT_RSP"}

Message == {m \in Envelope : m.svc = NoService <=> m.id \in Control}

Msg(id, s, t) ==
    [id |-> id, svc |-> s, tidx |-> t, ptr |-> FALSE, src |-> NoService, n |-> 0]

UserMsg(s, t, from, k) ==
    [id |-> "USER", svc |-> s, tidx |-> t, ptr |-> FALSE, src |-> from, n |-> k]

\* dest is L_SERVICE_MASTER, or msgid is in the range of master messages.
ForMaster(m) ==
    m.id \in {"START_REQ", "CLOSE_REQ", "MASTER_EXIT_REQ", "WORKER_EXIT_RSP"}

\* The service id in dest is L_SERVICE_WORKER.
ForWorker(m) == m.id \in {"CLOSE_RSP", "WORKER_EXIT_REQ"}

\* dest names a service.
ForService(m) == m.id \in {"START_RSP", "USER"}

\* thread->index, which the master clears when the worker has exited.
Index(t) == IF t \in Workers /\ ~alive[t] THEN 0 ELSE t

\* l_message_send_impl on thread t.
Post(t, m) ==
    IF t # 0 /\ ~ForMaster(m) /\ m.tidx = t
    THEN /\ rx' = [rx EXCEPT ![t] = Append(@, m)]
         /\ UNCHANGED <<txms, txmq>>
    ELSE IF ForMaster(m)
    THEN /\ txms' = [txms EXCEPT ![t] = Append(@, m)]
         /\ UNCHANGED <<rx, txmq>>
    ELSE /\ txmq' = [txmq EXCEPT ![t] = Append(@, m)]
         /\ UNCHANGED <<rx, txms>>

Goto(t, l) == pc' = [pc EXCEPT ![t] = l]

\* Thread t is done with the message it is handling.
Consume(t) == batch' = [batch EXCEPT ![t] = Tail(@)]

Handling(t, id) ==
    /\ pc[t] = "handle"
    /\ batch[t] # <<>>
    /\ Head(batch[t]).id = id

-----------------------------------------------------------------------------
(* The entry of a service: the calls it may make while thread t runs it.   *)

Running(t) == pc[t] \in {"entry", "last"}

\* l_service_create on thread t: either fresh memory, or the buffer of a
\* service that thread t freed, with the flags that service left in it.
NewFlags(t, s) ==
    \/ closing' = closing /\ stoprx' = stoprx /\ memory' = [memory EXCEPT ![s] = "used"]
    \/ \E r \in Services :
         /\ memory[r] = "freed" /\ thread[r] = t
         /\ closing' = [closing EXCEPT ![s] = closing[r]]
         /\ stoprx' = [stoprx EXCEPT ![s] = stoprx[r]]
         /\ memory' = [memory EXCEPT ![s] = "used", ![r] = "reused"]

\* l_service_create, then l_service_start (the master picks the thread) or
\* l_service_startEx (for a given thread, or without one for thread t).
StartService(t, s, on) ==
    /\ Running(t)
    /\ memory[s] = "none"
    /\ NewFlags(t, s)
    /\ thread' = [thread EXCEPT ![s] = on]
    /\ Post(t, Msg("START_REQ", s, 0))
    /\ UNCHANGED <<msgRxq, master, log, bounds, notified, pc, batch,
                   threadExit, running, crashed>>

\* l_message_send to a service that was started and may be closed since, by
\* its id as it was created or, once the master has set the thread index in
\* it, by l_service_id().
SendUser(t, d, full) ==
    /\ Running(t)
    /\ memory[d] # "none"
    /\ full => FullIds /\ d \in table
    /\ sends < MaxSends /\ sends + 2 * exits < MaxCalls
    /\ sends' = sends + 1
    /\ Post(t, UserMsg(d, IF full THEN Index(thread[d]) ELSE 0, running[t], sends + 1))
    /\ UNCHANGED <<msgRxq, master, services, exits, notified, pc, batch,
                   threadExit, running, crashed>>

\* l_service_close(self).
CloseSelf(t) ==
    /\ Running(t)
    /\ ~closing[running[t]]
    /\ closing' = [closing EXCEPT ![running[t]] = TRUE]
    /\ UNCHANGED <<queues, master, thread, stoprx, memory, log, bounds,
                   notified, pc, batch, threadExit, running, crashed>>

\* l_master_exit.
MasterExit(t) ==
    /\ Running(t)
    /\ exits < MaxExits /\ sends + 2 * exits < MaxCalls - 1
    /\ exits' = exits + 1
    /\ Post(t, Msg("MASTER_EXIT_REQ", NoService, 0))
    /\ UNCHANGED <<msgRxq, master, services, sends, notified, pc, batch,
                   threadExit, running, crashed>>

\* The entry returns to l_worker_handleMessage.
EntryReturn(t) ==
    /\ pc[t] = "entry"
    /\ LET s == running[t] IN
         IF closing[s]
         THEN /\ stoprx' = [stoprx EXCEPT ![s] = TRUE]
              /\ Post(t, Msg("CLOSE_REQ", s, 0))
         ELSE UNCHANGED <<stoprx, rx, txms, txmq>>
    /\ running' = [running EXCEPT ![t] = NoService]
    /\ Goto(t, "handle")
    /\ UNCHANGED <<msgRxq, master, thread, closing, memory, log, bounds,
                   notified, batch, threadExit, crashed>>

\* The entry returns from L_MSGID_SERVICE_CLOSE: the service is freed.
LastReturn(t) ==
    /\ pc[t] = "last"
    /\ memory' = [memory EXCEPT ![running[t]] = "freed"]
    /\ running' = [running EXCEPT ![t] = NoService]
    /\ Goto(t, "handle")
    /\ UNCHANGED <<queues, master, thread, closing, stoprx, log, bounds,
                   notified, batch, threadExit, crashed>>

Entry(t) ==
    \/ \E s \in Services, on \in Hosts \union {NoThread} : StartService(t, s, on)
    \/ \E d \in Services, full \in BOOLEAN : SendUser(t, d, full)
    \/ CloseSelf(t)
    \/ MasterExit(t)
    \/ EntryReturn(t)
    \/ LastReturn(t)

-----------------------------------------------------------------------------
(* l_worker_handleMessage, on a worker or on a master without workers.     *)

RunsServices(t) == t # 0 \/ NumWorkers = 0

LogEntry(m) == [id |-> m.id, src |-> m.src, n |-> m.n]

\* Seeded fault: a closing service still handles the rest of the batch.
SkippedNever(m) == FALSE

\* A closing service handles no message before L_MSGID_SERVICE_CLOSE.
Skipped(m) == closing[m.svc]

\* A message for a service.  An unrouted dest is a number, not a pointer.
HandleServiceMsg(t) ==
    /\ RunsServices(t)
    /\ pc[t] = "handle" /\ batch[t] # <<>>
    /\ LET m == Head(batch[t]) IN
         /\ ForService(m)
         /\ crashed' = ~m.ptr
         /\ IF ~m.ptr \/ Skipped(m)
            THEN UNCHANGED <<log, running, pc>>
            ELSE /\ log' = [log EXCEPT ![m.svc] = Append(@, LogEntry(m))]
                 /\ running' = [running EXCEPT ![t] = m.svc]
                 /\ Goto(t, "entry")
    /\ Consume(t)
    /\ UNCHANGED <<queues, master, thread, closing, stoprx, memory, bounds,
                   notified, threadExit>>

\* L_MSGID_SRVC_CLOSE_RSP: the entry handles its last message.
HandleCloseRsp(t) ==
    /\ RunsServices(t)
    /\ Handling(t, "CLOSE_RSP")
    /\ LET m == Head(batch[t]) IN
         /\ log' = [log EXCEPT ![m.svc] = Append(@, LogEntry(m))]
         /\ running' = [running EXCEPT ![t] = m.svc]
    /\ Goto(t, "last")
    /\ Consume(t)
    /\ UNCHANGED <<queues, master, thread, closing, stoprx, memory, bounds,
                   notified, threadExit, crashed>>

\* L_MSGID_WORKER_EXIT_REQ: the worker answers, and leaves its loop once the
\* rest of the batch is handled.
HandleWorkerExitReq(w) ==
    /\ Handling(w, "WORKER_EXIT_REQ")
    /\ threadExit' = [threadExit EXCEPT ![w] = TRUE]
    /\ Post(w, Msg("WORKER_EXIT_RSP", NoService, w))
    /\ Consume(w)
    /\ UNCHANGED <<msgRxq, master, services, bounds, notified, pc, running,
                   crashed>>

-----------------------------------------------------------------------------
(* The rest of l_worker_start.                                             *)

WorkerTake(w) ==
    /\ pc[w] = "take"
    /\ rx[w] # <<>>
    /\ batch' = [batch EXCEPT ![w] = rx[w]]
    /\ rx' = [rx EXCEPT ![w] = <<>>]
    /\ Goto(w, "handle")
    /\ UNCHANGED <<txms, txmq, msgRxq, master, services, bounds, notified,
                   threadExit, running, crashed>>

\* l_worker_flushMessages: first the messages to the master...
WorkerFlushToMaster(w) ==
    /\ pc[w] = "handle"
    /\ batch[w] = <<>>
    /\ rx' = [rx EXCEPT ![0] = @ \o txms[w]]
    /\ txms' = [txms EXCEPT ![w] = <<>>]
    /\ Goto(w, IF txms[w] # <<>> THEN "sent" ELSE "flush")
    /\ UNCHANGED <<txmq, msgRxq, master, services, bounds, notified, batch,
                   threadExit, running, crashed>>

\* Seeded fault: the flushed messages overtake those that wait.
FlushedFirst(w) == txmq[w] \o msgRxq

Flushed(w) == msgRxq \o txmq[w]

\* ... then those to services; the wakeup follows both.
WorkerFlushToServices(w) ==
    /\ pc[w] \in {"flush", "sent"}
    /\ msgRxq' = Flushed(w)
    /\ txmq' = [txmq EXCEPT ![w] = <<>>]
    /\ notified' = (notified \/ pc[w] = "sent" \/ txmq[w] # <<>>)
    /\ Goto(w, IF threadExit[w] THEN "done" ELSE "take")
    /\ UNCHANGED <<rx, txms, master, services, bounds, batch, threadExit,
                   running, crashed>>

WorkerStep(w) ==
    \/ WorkerTake(w)
    \/ HandleServiceMsg(w)
    \/ HandleCloseRsp(w)
    \/ HandleWorkerExitReq(w)
    \/ Entry(w)
    \/ WorkerFlushToMaster(w)
    \/ WorkerFlushToServices(w)

-----------------------------------------------------------------------------
(* l_master_loop and l_master_handleMessage.                               *)

\* The master waits only when it has nothing of its own to do.
MasterWait ==
    /\ pc[0] = "wait"
    /\ IF txms[0] = <<>> /\ txmq[0] = <<>>
       THEN notified /\ notified' = FALSE
       ELSE UNCHANGED notified
    /\ Goto(0, "take")
    /\ UNCHANGED <<queues, master, services, bounds, batch, threadExit,
                   running, crashed>>

\* Entering l_master_handleMessage: exited_workers is a local variable.
MasterTake ==
    /\ pc[0] = "take"
    /\ batch' = [batch EXCEPT ![0] = rx[0] \o txms[0]]
    /\ rx' = [rx EXCEPT ![0] = <<>>]
    /\ txms' = [txms EXCEPT ![0] = <<>>]
    /\ exitedWorkers' = 0
    /\ Goto(0, "handle")
    /\ UNCHANGED <<txmq, msgRxq, route, out, sweep, alive, weight, table,
                   services, bounds, notified, threadExit, running, crashed>>

\* l_thread_acquire takes a least loaded worker.
LeastLoaded == {w \in Workers : \A v \in Workers : weight[w] <= weight[v]}

Reweigh(t, d) ==
    weight' = IF t = 0 THEN weight ELSE [weight EXCEPT ![t] = @ + d]

\* L_MSGID_SRVC_START_REQ.
HandleStartReq ==
    /\ Handling(0, "START_REQ")
    /\ LET s == Head(batch[0]).svc IN
       \E t \in Threads :
         /\ t \in IF thread[s] # NoThread THEN {thread[s]}
                  ELSE IF NumWorkers > 0 THEN LeastLoaded ELSE {0}
         /\ thread' = [thread EXCEPT ![s] = t]
         /\ Reweigh(t, 1)
         /\ table' = table \union {s}
         /\ Post(0, Msg("START_RSP", s, Index(t)))
    /\ Consume(0)
    /\ UNCHANGED <<msgRxq, route, out, sweep, exitedWorkers, alive, closing,
                   stoprx, memory, log, bounds, notified, pc, threadExit,
                   running, crashed>>

\* Seeded fault: the weight of the thread is not counted down.
RemoveUnweighed(s) ==
    /\ table' = table \ {s}
    /\ weight' = weight
    /\ Post(0, Msg("CLOSE_RSP", s, Index(thread[s])))

\* Seeded fault: the service is not told.
RemoveSilently(s) ==
    /\ table' = table \ {s}
    /\ Reweigh(thread[s], -1)
    /\ UNCHANGED <<rx, txms, txmq>>

\* Taking service s out of the table and sending it L_MSGID_SERVICE_CLOSE.
Remove(s) ==
    /\ table' = table \ {s}
    /\ Reweigh(thread[s], -1)
    /\ Post(0, Msg("CLOSE_RSP", s, Index(thread[s])))

\* Seeded fault: a service that was removed is found again.
FoundAlways(s) == s \in Services

\* l_master_exit may have removed the service before it closed itself.
Found(s) == s \in table

\* L_MSGID_SRVC_CLOSE_REQ.
HandleCloseReq ==
    /\ Handling(0, "CLOSE_REQ")
    /\ LET s == Head(batch[0]).svc IN
         IF Found(s)
         THEN Remove(s)
         ELSE UNCHANGED <<table, weight, rx, txms, txmq>>
    /\ Consume(0)
    /\ UNCHANGED <<msgRxq, route, out, sweep, exitedWorkers, alive, services,
                   bounds, notified, pc, threadExit, running, crashed>>

\* L_MSGID_MASTER_EXIT_REQ: first close all services, in table order...
HandleExitService(s) ==
    /\ Handling(0, "MASTER_EXIT_REQ")
    /\ s \in table
    /\ Remove(s)
    /\ UNCHANGED <<msgRxq, route, out, sweep, exitedWorkers, alive, services,
                   bounds, notified, pc, batch, threadExit, running, crashed>>

\* ... then ask each worker that has not exited to exit...
HandleExitWorker ==
    /\ Handling(0, "MASTER_EXIT_REQ")
    /\ table = {}
    /\ sweep < NumWorkers
    /\ sweep' = sweep + 1
    /\ IF alive[sweep + 1]
       THEN Post(0, Msg("WORKER_EXIT_REQ", NoService, sweep + 1))
       ELSE UNCHANGED <<rx, txms, txmq>>
    /\ UNCHANGED <<msgRxq, route, out, exitedWorkers, alive, weight, table,
                   services, bounds, notified, pc, batch, threadExit, running,
                   crashed>>

\* Seeded fault: the test for a master without workers is off by one.
NoWorkersLate == NumWorkers < 0

NoWorkers == NumWorkers = 0

\* ... or, without workers, tell itself that it may exit.
HandleExitDone ==
    /\ Handling(0, "MASTER_EXIT_REQ")
    /\ table = {}
    /\ sweep = NumWorkers
    /\ sweep' = 0
    /\ IF NoWorkers
       THEN Post(0, Msg("WORKER_EXIT_RSP", NoService, 0))
       ELSE UNCHANGED <<rx, txms, txmq>>
    /\ Consume(0)
    /\ UNCHANGED <<msgRxq, route, out, exitedWorkers, alive, weight, table,
                   services, bounds, notified, pc, threadExit, running,
                   crashed>>

\* Seeded fault: the master waits for one worker more than there are.
AllExitedLate(n) == n > NumWorkers

AllExited(n) == n = NumWorkers

\* L_MSGID_WORKER_EXIT_RSP: when all have exited, the master returns at once.
HandleWorkerExitRsp ==
    /\ Handling(0, "WORKER_EXIT_RSP")
    /\ LET w == Head(batch[0]).tidx IN
         IF NumWorkers > 0
         THEN /\ alive' = [alive EXCEPT ![w] = FALSE]
              /\ exitedWorkers' = exitedWorkers + 1
         ELSE UNCHANGED <<alive, exitedWorkers>>
    /\ Goto(0, IF NumWorkers = 0 \/ AllExited(exitedWorkers')
               THEN "join" ELSE "handle")
    /\ Consume(0)
    /\ UNCHANGED <<queues, route, out, sweep, weight, table, services, bounds,
                   notified, threadExit, running, crashed>>

\* l_master_getMessages: l_msg_rxq comes before the master's own messages.
MasterGet ==
    /\ pc[0] = "handle"
    /\ batch[0] = <<>>
    /\ route' = msgRxq \o txmq[0]
    /\ msgRxq' = <<>>
    /\ txmq' = [txmq EXCEPT ![0] = <<>>]
    /\ Goto(0, "route")
    /\ UNCHANGED <<rx, txms, out, sweep, exitedWorkers, alive, weight, table,
                   services, bounds, notified, batch, threadExit, running,
                   crashed>>

\* Seeded fault: a message is routed to the worker next to its service's.
TargetNext(m) == IF ForWorker(m) THEN m.tidx ELSE (thread[m.svc] % NumWorkers) + 1

\* Finding the thread of a message.
Target(m) == IF ForWorker(m) THEN m.tidx ELSE thread[m.svc]

\* Seeded fault: a service that left the table is still found.
DroppedIfStopped(m) == ForService(m) /\ (thread[m.svc] = NoThread \/ stoprx[m.svc])

\* Seeded fault: only the first message to a service is let through.
DroppedIfSent(m) == m.id = "USER"

\* A message is dropped if its service is not found or no longer receives, or
\* if it is for a worker that had exited when the message was created.
Dropped(m) ==
    \/ ForService(m) /\ (m.svc \notin table \/ stoprx[m.svc])
    \/ ForWorker(m) /\ m.tidx = 0 /\ NumWorkers > 0

\* One message of l_master_loop.  For a worker that has exited the code
\* appends mq + i to the free queue, where i is left over from the delivery
\* loop: outside of the array, which ends or does not end the process.
MasterRoute ==
    /\ pc[0] = "route"
    /\ route # <<>>
    /\ route' = Tail(route)
    /\ LET m == [Head(route) EXCEPT !.ptr = TRUE]
           t == Target(m)
       IN  IF Dropped(m)
           THEN UNCHANGED <<txms, out, crashed>>
           ELSE IF t = 0
           THEN /\ txms' = [txms EXCEPT ![0] = Append(@, m)]
                /\ UNCHANGED <<out, crashed>>
           ELSE IF ~alive[t]
           THEN /\ crashed' \in BOOLEAN
                /\ UNCHANGED <<txms, out>>
           ELSE /\ out' = [out EXCEPT ![t] = Append(@, m)]
                /\ UNCHANGED <<txms, crashed>>
    /\ UNCHANGED <<rx, txmq, msgRxq, sweep, exitedWorkers, alive, weight,
                   table, services, bounds, notified, pc, batch, threadExit,
                   running>>

MasterRouted ==
    /\ pc[0] = "route"
    /\ route = <<>>
    /\ Goto(0, "deliver")
    /\ UNCHANGED <<queues, master, services, bounds, notified, batch,
                   threadExit, running, crashed>>

\* The delivery loop, in the order of the workers.
MasterDeliver(w) ==
    /\ pc[0] = "deliver"
    /\ out[w] # <<>>
    /\ \A v \in Workers : v < w => out[v] = <<>>
    /\ out' = [out EXCEPT ![w] = <<>>]
    /\ rx' = IF alive[w] THEN [rx EXCEPT ![w] = @ \o out[w]] ELSE rx
    /\ UNCHANGED <<txms, txmq, msgRxq, route, sweep, exitedWorkers, alive,
                   weight, table, services, bounds, notified, pc, batch,
                   threadExit, running, crashed>>

MasterDelivered ==
    /\ pc[0] = "deliver"
    /\ \A w \in Workers : out[w] = <<>>
    /\ Goto(0, "wait")
    /\ UNCHANGED <<queues, master, services, bounds, notified, batch,
                   threadExit, running, crashed>>

\* l_thread_join on every worker, then l_master_clean.
MasterJoin ==
    /\ pc[0] = "join"
    /\ \A w \in Workers : pc[w] = "done"
    /\ Goto(0, "done")
    /\ UNCHANGED <<queues, master, services, bounds, notified, batch,
                   threadExit, running, crashed>>

MasterHandle ==
    \/ HandleStartReq
    \/ HandleCloseReq
    \/ \E s \in Services : HandleExitService(s)
    \/ HandleExitWorker
    \/ HandleExitDone
    \/ HandleWorkerExitRsp
    \/ HandleServiceMsg(0)
    \/ HandleCloseRsp(0)
    \/ Entry(0)

MasterStep ==
    \/ MasterWait
    \/ MasterTake
    \/ MasterHandle
    \/ MasterGet
    \/ MasterRoute
    \/ MasterRouted
    \/ \E w \in Workers : MasterDeliver(w)
    \/ MasterDelivered
    \/ MasterJoin

-----------------------------------------------------------------------------
(* The state in which l_master_loop enters its loop: the bootstrap service *)
(* has been started, and its two messages are in the master's txmq.        *)

Init ==
    /\ \E t \in Hosts :
         /\ thread = [s \in Services |-> IF s = Boot THEN t ELSE NoThread]
         /\ weight = [w \in Workers |-> IF w = t THEN 1 ELSE 0]
         /\ txmq = [u \in Threads |->
                      IF u = 0 THEN <<Msg("START_RSP", Boot, t),
                                      Msg("USER", Boot, 0)>>
                      ELSE <<>>]
    /\ table = {Boot}
    /\ rx = [t \in Threads |-> <<>>]
    /\ txms = [t \in Threads |-> <<>>]
    /\ msgRxq = <<>>
    /\ notified = FALSE
    /\ pc = [t \in Threads |-> IF t = 0 THEN "wait" ELSE "take"]
    /\ batch = [t \in Threads |-> <<>>]
    /\ route = <<>>
    /\ out = [w \in Workers |-> <<>>]
    /\ sweep = 0
    /\ exitedWorkers = 0
    /\ alive = [w \in Workers |-> TRUE]
    /\ threadExit = [w \in Workers |-> FALSE]
    /\ running = [t \in Threads |-> NoService]
    /\ closing = [s \in Services |-> FALSE]
    /\ stoprx = [s \in Services |-> FALSE]
    /\ memory = [s \in Services |-> IF s = Boot THEN "used" ELSE "none"]
    /\ crashed = FALSE
    /\ sends = 0
    /\ exits = 0
    /\ log = [s \in Services |-> <<>>]

Next ==
    /\ ~crashed
    /\ MasterStep \/ \E w \in Workers : WorkerStep(w)

Spec == Init /\ [][Next]_vars

\* Weak fairness of each thread: the scheduler runs it, its locks are held for
\* a bounded time, and the entries of services return.
Fairness ==
    /\ WF_vars(~crashed /\ MasterStep)
    /\ \A w \in Workers : WF_vars(~crashed /\ WorkerStep(w))

FairSpec == Spec /\ Fairness

-----------------------------------------------------------------------------
(* Safety.                                                                 *)

\* The types of the variables.
TypeOK ==
    /\ rx \in [Threads -> Seq(Message)]
    /\ txms \in [Threads -> Seq(Message)]
    /\ txmq \in [Threads -> Seq(Message)]
    /\ msgRxq \in Seq(Message)
    /\ notified \in BOOLEAN
    /\ pc \in [Threads -> {"wait", "take", "handle", "entry", "last", "route",
                           "deliver", "flush", "sent", "join", "done"}]
    /\ batch \in [Threads -> Seq(Message)]
    /\ route \in Seq(Message)
    /\ out \in [Workers -> Seq(Message)]
    /\ sweep \in 0..NumWorkers
    /\ exitedWorkers \in Nat
    /\ alive \in [Workers -> BOOLEAN]
    /\ threadExit \in [Workers -> BOOLEAN]
    /\ running \in [Threads -> Services \union {NoService}]
    /\ table \in SUBSET Services
    /\ weight \in [Workers -> Int]
    /\ thread \in [Services -> Threads \union {NoThread}]
    /\ closing \in [Services -> BOOLEAN]
    /\ stoprx \in [Services -> BOOLEAN]
    /\ memory \in [Services -> {"none", "used", "freed", "reused"}]
    /\ crashed \in BOOLEAN
    /\ sends \in 0..MaxSends
    /\ exits \in 0..MaxExits
    /\ log \in [Services -> Seq([id: MsgIds, src: Services \union {NoService},
                                 n: 0..MaxSends])]

Elements(q) == {q[i] : i \in DOMAIN q}

\* The message carries a pointer to its service.
HoldsPointer(m) ==
    m.id \in {"START_REQ", "CLOSE_RSP"} \/ (ForService(m) /\ m.ptr)

\* The services that the messages of q point to are there.
PointsToUsed(q) ==
    \A i \in DOMAIN q : HoldsPointer(q[i]) => memory[q[i].svc] = "used"

\* No thread uses a service after l_worker_handleMessage freed it: no message
\* on its way holds a pointer to a freed service (the master stops routing to
\* a service before it sends L_MSGID_SERVICE_CLOSE, which thus overtakes
\* nothing), no thread is in its entry, and it is not in the table.
NoDangling ==
    /\ PointsToUsed(msgRxq) /\ PointsToUsed(route)
    /\ \A t \in Threads :
         /\ PointsToUsed(rx[t]) /\ PointsToUsed(batch[t])
         /\ PointsToUsed(txms[t]) /\ PointsToUsed(txmq[t])
         /\ Running(t) => memory[running[t]] = "used"
    /\ \A w \in Workers : PointsToUsed(out[w])
    /\ \A s \in table : memory[s] = "used"

\* The weight of a worker is the number of services in the table that run on
\* it, so that l_thread_acquire balances the load (steps c and g of the life
\* cycle of a service).
WeightIsLoad ==
    \A w \in Workers :
      weight[w] = Cardinality({s \in table : thread[s] = w})

\* The entry of a service is run by one thread only, the one that the master
\* attached it to; so no two threads ever run the same service.
SingleThreaded ==
    /\ \A t \in Threads : Running(t) => thread[running[t]] = t
    /\ \A t, u \in Threads :
         Running(t) /\ Running(u) /\ running[t] = running[u] => t = u

\* Messages of one service to another are handled in the order they were
\* sent, through the four queues between the two threads.
SenderOrder ==
    \A s \in Services : \A i, j \in DOMAIN log[s] :
      LET a == log[s][i]
          b == log[s][j]
      IN  i < j /\ a.id = "USER" /\ b.id = "USER" /\ a.src = b.src => a.n < b.n

\* L_MSGID_SERVICE_CLOSE is the service's last message (step j), and it comes
\* once, however its own close and l_master_exit interleave.
CloseIsLast ==
    \A s \in Services : \A i \in DOMAIN log[s] :
      log[s][i].id = "CLOSE_RSP" => i = Len(log[s])

-----------------------------------------------------------------------------
(* The inductive invariant behind SingleThreaded.                          *)

\* The message, once thread t handles it, makes it run the service.
RunsService(m) == m.id = "CLOSE_RSP" \/ (ForService(m) /\ m.ptr)

\* A message that thread t will handle.
HandledBy(t, m) ==
    /\ m.id = "START_REQ" => memory[m.svc] # "none"
    /\ RunsService(m) => thread[m.svc] = t

\* A message that the master will route: only to the service's thread, or to
\* no thread when the thread had exited.
Addressed(m) ==
    /\ ~ForMaster(m)
    /\ m.id = "CLOSE_RSP" =>
         /\ thread[m.svc] # NoThread
         /\ m.tidx = thread[m.svc] \/ (m.tidx = 0 /\ NumWorkers > 0)

\* A service is attached to a thread before a message can reach it, and never
\* to another.
Attached ==
    /\ \A t \in Threads :
         /\ \A m \in Elements(rx[t]) \union Elements(batch[t]) : HandledBy(t, m)
         /\ \A m \in Elements(txms[t]) : HandledBy(0, m)
         /\ \A m \in Elements(txmq[t]) : Addressed(m)
         /\ Running(t) => running[t] \in Services /\ thread[running[t]] = t
    /\ \A w \in Workers : \A m \in Elements(out[w]) : HandledBy(w, m)
    /\ \A m \in Elements(msgRxq) \union Elements(route) : Addressed(m)
    /\ \A s \in table : thread[s] # NoThread
    /\ \A s \in Services : memory[s] = "none" => thread[s] = NoThread

Inv == TypeOK /\ Attached

-----------------------------------------------------------------------------
(* Liveness.                                                               *)

Handled(s, id, k) == \E i \in DOMAIN log[s] : log[s][i].id = id /\ log[s][i].n = k

\* A service that was started handles L_MSGID_SERVICE_START, unless the
\* program is told to exit or the service closes first.
StartedRuns ==
    \A s \in Services :
      memory[s] = "used" ~> Handled(s, "START_RSP", 0) \/ closing[s] \/ exits > 0

\* A service that its thread stopped is given L_MSGID_SERVICE_CLOSE and freed.
StoppedIsFreed ==
    \A s \in Services :
      stoprx[s] /\ log[s] # <<>> ~> memory[s] # "used" \/ exits > 0

\* A message on its way to a service in the table is handled, unless the
\* service closes or the program is told to exit.
SentIsHandled ==
    \A s \in Services, k \in 1..MaxSends :
      (\E t \in Threads : \E m \in Elements(txmq[t]) :
         m.id = "USER" /\ m.svc = s /\ m.n = k /\ s \in table)
      ~> Handled(s, "USER", k) \/ closing[s] \/ exits > 0

\* Nothing that is sent to a service is left behind: neither the first message
\* of one that was started, which the master sends, nor those of others.
Delivered == StartedRuns /\ SentIsHandled

\* After l_master_exit the master leaves its loop and joins its workers.
ExitCompletes == exits > 0 ~> pc[0] = "done"

\* A service that was in the table before anyone called l_master_exit has been
\* closed and freed when the program ends.
OnlineIsClosed ==
    \A s \in Services :
      [](s \in table /\ exits = 0 => [](pc[0] = "done" => memory[s] # "used"))

-----------------------------------------------------------------------------
(* Refinement: the runtime keeps the promises of module Actor.             *)

StateOf(s) ==
    CASE memory[s] = "none" -> "none"
      [] memory[s] \in {"freed", "reused"} -> "freed"
      [] \E t \in Threads : running[t] = s /\ pc[t] = "entry" -> "busy"
      [] \E t \in Threads : running[t] = s /\ pc[t] = "last" -> "last"
      [] OTHER -> "ready"

AbstractActor == INSTANCE Actor WITH
    state <- [s \in Services |-> StateOf(s)],
    owner <- [s \in Services |-> IF log[s] = <<>> THEN NoThread ELSE thread[s]],
    quitting <- closing

\* Every step of the runtime is, for the services, a step of Actor or none.
ImplementsActor == AbstractActor!Spec
============================================================================
