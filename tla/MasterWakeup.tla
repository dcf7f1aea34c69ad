---------------------------- MODULE MasterWakeup ----------------------------
(***************************************************************************)
(* How the master sleeps in epoll_wait and how the workers wake it up:     *)
(* l_worker_flushMessages and the queue handling of l_master_loop in       *)
(* src/src/lucy/core/master.c, l_eventmgr_wakeup and l_eventmgr_timedWait  *)
(* in src/src/lucy/osi/eventpoll.c.  wakeup_count saves the write of the   *)
(* eventfd when one is on its way; it is set before the write and cleared  *)
(* after the read, in critical sections of its own.  The eventfd is        *)
(* watched edge triggered: epoll_wait reports it once for each write.      *)
(* Messages are numbered in the order of their creation.                   *)
(***************************************************************************)
EXTENDS Integers, Sequences

CONSTANTS
    Workers,  \* the worker threads
    MaxMsgs   \* bound: messages flushed by all workers

ASSUME MaxMsgsAssumption == MaxMsgs \in Nat

VARIABLES
    rx,        \* the master's rxmq, guarded by its mutex
    msgRxq,    \* l_msg_rxq, guarded by l_msg_mtx
    count,     \* wakeup_count, guarded by the mutex of the event manager
    efd,       \* the counter of the eventfd
    ready,     \* the ready list of the epoll instance, sockets left out
    mpc,       \* where the master is in its loop
    pc,        \* pc[w]: where worker w is in its flush
    sent,      \* number of messages created so far
    takenRx,   \* history of the messages the master took from rx
    takenMsg   \* history of the messages the master took from msgRxq

WakeupFd == "wakeupfd"

workerVars == <<pc, sent>>
masterVars == <<mpc, takenRx, takenMsg>>
vars == <<rx, msgRxq, count, efd, ready, workerVars, masterVars>>

Init ==
    /\ rx = <<>>
    /\ msgRxq = <<>>
    /\ count = 0
    /\ efd = 0
    /\ ready = {}
    /\ mpc = "top"
    /\ pc = [w \in Workers |-> "idle"]
    /\ sent = 0
    /\ takenRx = <<>>
    /\ takenMsg = <<>>

Goto(w, l) == pc' = [pc EXCEPT ![w] = l]

-----------------------------------------------------------------------------
(* l_worker_flushMessages: txms, then txmq, then the wakeup.               *)

\* One or more new messages at the end of a queue.
Created(q, k) == q \o [i \in 1..k |-> sent + i]

PushToMaster(w) ==
    /\ pc[w] = "idle"
    /\ \E k \in 1..(MaxMsgs - sent) :
         /\ rx' = Created(rx, k)
         /\ sent' = sent + k
    /\ Goto(w, "sent")
    /\ UNCHANGED <<msgRxq, count, efd, ready, masterVars>>

PushToServices(w) ==
    /\ pc[w] \in {"idle", "sent"}
    /\ \E k \in 1..(MaxMsgs - sent) :
         /\ msgRxq' = Created(msgRxq, k)
         /\ sent' = sent + k
    /\ Goto(w, "wake")
    /\ UNCHANGED <<rx, count, efd, ready, masterVars>>

\* txmq is empty.
NothingToServices(w) ==
    /\ pc[w] = "sent"
    /\ Goto(w, "wake")
    /\ UNCHANGED <<rx, msgRxq, count, efd, ready, sent, masterVars>>

\* Seeded fault: the caller that finds the count clear does not write.
AfterTestNoWrite == "idle"

\* Seeded fault: the count does not save the write.
AfterTestAlways == "write"

\* Where l_eventmgr_wakeup goes on after its critical section.
AfterTest == IF count # 0 THEN "idle" ELSE "write"

\* l_eventmgr_wakeup: the critical section...
TestCount(w) ==
    /\ pc[w] = "wake"
    /\ count' = 1
    /\ Goto(w, AfterTest)
    /\ UNCHANGED <<rx, msgRxq, efd, ready, sent, masterVars>>

\* ... and the write of the eventfd after it.
WriteEventFd(w) ==
    /\ pc[w] = "write"
    /\ efd' = efd + 1
    /\ ready' = {WakeupFd}
    /\ Goto(w, "idle")
    /\ UNCHANGED <<rx, msgRxq, count, sent, masterVars>>

WorkerStep(w) ==
    \/ PushToMaster(w) \/ PushToServices(w) \/ NothingToServices(w)
    \/ TestCount(w) \/ WriteEventFd(w)

-----------------------------------------------------------------------------
(* l_master_loop.                                                          *)

\* The master waits unless it has messages of its own to handle.
MasterTop ==
    /\ mpc = "top"
    /\ mpc' \in {"wait", "take"}
    /\ UNCHANGED <<rx, msgRxq, count, efd, ready, workerVars, takenRx, takenMsg>>

\* epoll_wait reports the eventfd...
WaitWakeup ==
    /\ mpc = "wait"
    /\ WakeupFd \in ready
    /\ ready' = {}
    /\ mpc' = "read"
    /\ UNCHANGED <<rx, msgRxq, count, efd, workerVars, takenRx, takenMsg>>

\* ... or only sockets, or it is interrupted.
WaitOther ==
    /\ mpc = "wait"
    /\ WakeupFd \notin ready
    /\ mpc' = "take"
    /\ UNCHANGED <<rx, msgRxq, count, efd, ready, workerVars, takenRx, takenMsg>>

ReadEventFd ==
    /\ mpc = "read"
    /\ efd' = 0
    /\ mpc' = "clear"
    /\ UNCHANGED <<rx, msgRxq, count, ready, workerVars, takenRx, takenMsg>>

\* Seeded fault: the count stays set after the read.
CountKept == count

\* The next wakeup has to write again.
CountCleared == 0

ClearCount ==
    /\ mpc = "clear"
    /\ count' = CountCleared
    /\ mpc' = "take"
    /\ UNCHANGED <<rx, msgRxq, efd, ready, workerVars, takenRx, takenMsg>>

\* The head of l_master_handleMessage.
TakeRx ==
    /\ mpc = "take"
    /\ takenRx' = takenRx \o rx
    /\ rx' = <<>>
    /\ mpc' = "get"
    /\ UNCHANGED <<msgRxq, count, efd, ready, workerVars, takenMsg>>

\* l_master_getMessages.
TakeMsgRxq ==
    /\ mpc = "get"
    /\ takenMsg' = takenMsg \o msgRxq
    /\ msgRxq' = <<>>
    /\ mpc' = "top"
    /\ UNCHANGED <<rx, count, efd, ready, workerVars, takenRx>>

\* Every step of the master but the return from epoll_wait for other reasons.
MasterStep ==
    \/ MasterTop \/ WaitWakeup \/ ReadEventFd \/ ClearCount
    \/ TakeRx \/ TakeMsgRxq

Next == MasterStep \/ WaitOther \/ \E w \in Workers : WorkerStep(w)

\* The master runs, but no socket or signal need wake it up; a worker that has
\* begun to flush goes on.
Fairness ==
    /\ WF_vars(MasterStep)
    /\ \A w \in Workers :
         WF_vars(NothingToServices(w) \/ TestCount(w) \/ WriteEventFd(w))

Spec == Init /\ [][Next]_vars /\ Fairness

-----------------------------------------------------------------------------
(* Properties.                                                             *)

TypeOK ==
    /\ rx \in Seq(1..MaxMsgs)
    /\ msgRxq \in Seq(1..MaxMsgs)
    /\ count \in {0, 1}
    /\ efd \in Nat
    /\ ready \in SUBSET {WakeupFd}
    /\ mpc \in {"top", "wait", "read", "clear", "take", "get"}
    /\ pc \in [Workers -> {"idle", "sent", "wake", "write"}]
    /\ sent \in 0..MaxMsgs
    /\ takenRx \in Seq(1..MaxMsgs)
    /\ takenMsg \in Seq(1..MaxMsgs)

\* A worker is on its way to wake up the master.
WakeupComing == \E w \in Workers : pc[w] \in {"sent", "wake", "write"}

\* No lost wakeup: when messages wait for a master that sleeps, epoll has the
\* eventfd to report or a worker will write it, although a worker that finds
\* wakeup_count set does not write, and may find it set while the master is
\* between its read and its clearing of the count.
NoLostWakeup ==
    mpc = "wait" /\ (rx # <<>> \/ msgRxq # <<>>) =>
      WakeupFd \in ready \/ WakeupComing

\* At most one write of the eventfd is on its way or unread: its counter is a
\* flag.
OneWrite ==
    /\ efd \in {0, 1}
    /\ \A w \in Workers : pc[w] = "write" => efd = 0
    /\ \A v, w \in Workers : pc[v] = "write" /\ pc[w] = "write" => v = w

\* What the count means outside of the master's read: a write is unread or on
\* its way.
CountMeansWrite ==
    /\ WakeupFd \in ready => efd = 1
    /\ efd = 1 /\ WakeupFd \notin ready => mpc = "read"
    /\ mpc = "read" => efd = 1 /\ WakeupFd \notin ready
    /\ mpc = "clear" => count = 1 /\ efd = 0 /\ \A w \in Workers : pc[w] # "write"
    /\ mpc # "clear" =>
         (count = 1 <=> efd = 1 \/ \E w \in Workers : pc[w] = "write")

\* Messages that the master passed by are announced.
Announced(q) ==
    q # <<>> => count = 1 \/ \E w \in Workers : pc[w] \in {"sent", "wake"}

\* The inductive invariant behind NoLostWakeup.
Inv ==
    /\ TypeOK
    /\ OneWrite
    /\ CountMeansWrite
    /\ mpc \in {"top", "wait", "get", "read"} => Announced(rx)
    /\ mpc \in {"top", "wait", "read"} => Announced(msgRxq)

\* Both queues are Mailboxes: whatever a worker flushed is taken once, in
\* order, and at last.
RxBox == INSTANCE Mailbox WITH box <- rx, taken <- takenRx
MsgBox == INSTANCE Mailbox WITH box <- msgRxq, taken <- takenMsg

RxImplementsMailbox == RxBox!Spec
MsgImplementsMailbox == MsgBox!Spec
ImplementsMailboxes == RxImplementsMailbox /\ MsgImplementsMailbox
============================================================================
