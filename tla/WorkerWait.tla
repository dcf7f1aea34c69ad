----------------------------- MODULE WorkerWait -----------------------------
(***************************************************************************)
(* How one worker sleeps when its rxmq is empty and how it is woken up:    *)
(* the head of the loop of l_worker_start, the delivery at the end of      *)
(* l_master_loop, and l_message_send_impl for a message to the worker's    *)
(* own services, all in src/src/lucy/core/master.c.  Every access to       *)
(* shared state is a step of its own; the master signals the condition     *)
(* variable after it has left the critical section, and only when msgwait  *)
(* was 0.  Messages are numbered in the order of their creation.           *)
(***************************************************************************)
EXTENDS Integers, Sequences

CONSTANT MaxMsgs  \* bound: messages sent to the worker

ASSUME MaxMsgsAssumption == MaxMsgs \in Nat

Free == "free"
Master == "master"
Worker == "worker"

VARIABLES
    rxmq,     \* the worker's queue, guarded by mutex
    msgwait,  \* thread->msgwait, guarded by mutex
    mutex,    \* the holder of thread->mutex
    asleep,   \* the worker is blocked on thread->condv
    mpc,      \* where the master is in its delivery
    wpc,      \* where the worker is in its loop
    sent,     \* number of messages created so far
    taken     \* history of the messages the worker took

vars == <<rxmq, msgwait, mutex, asleep, mpc, wpc, sent, taken>>

Init ==
    /\ rxmq = <<>>
    /\ msgwait = 0
    /\ mutex = Free
    /\ asleep = FALSE
    /\ mpc = "idle"
    /\ wpc = "lock"
    /\ sent = 0
    /\ taken = <<>>

-----------------------------------------------------------------------------
(* The master's delivery of a message to the worker.                       *)

MasterLock ==
    /\ mpc = "idle"
    /\ sent < MaxMsgs
    /\ mutex = Free
    /\ mutex' = Master
    /\ mpc' = "push"
    /\ UNCHANGED <<rxmq, msgwait, asleep, wpc, sent, taken>>

\* l_squeue_pushQueue: one or more messages.
MasterPush ==
    /\ mpc = "push"
    /\ \E k \in 1..(MaxMsgs - sent) :
         /\ sent' = sent + k
         /\ rxmq' = rxmq \o [i \in 1..k |-> sent + i]
    /\ mpc' = "test"
    /\ UNCHANGED <<msgwait, mutex, asleep, wpc, taken>>

\* Seeded fault: the test of msgwait is the wrong way round.
SignalIfWoken == msgwait = 1

\* The worker has not been signalled since it last found its queue empty.
NeedsSignal == msgwait = 0

MasterTest ==
    /\ mpc = "test"
    /\ msgwait' = 1
    /\ mpc' = IF NeedsSignal THEN "unlock, signal" ELSE "unlock"
    /\ UNCHANGED <<rxmq, mutex, asleep, wpc, sent, taken>>

MasterUnlock ==
    /\ mpc \in {"unlock", "unlock, signal"}
    /\ mutex' = Free
    /\ mpc' = IF mpc = "unlock" THEN "idle" ELSE "signal"
    /\ UNCHANGED <<rxmq, msgwait, asleep, wpc, sent, taken>>

\* l_condv_signal has no effect unless the worker is blocked.
MasterSignal ==
    /\ mpc = "signal"
    /\ asleep' = FALSE
    /\ mpc' = "idle"
    /\ UNCHANGED <<rxmq, msgwait, mutex, wpc, sent, taken>>

-----------------------------------------------------------------------------
(* The worker's loop.                                                      *)

WorkerLock ==
    /\ wpc = "lock"
    /\ mutex = Free
    /\ mutex' = Worker
    /\ wpc' = "test"
    /\ UNCHANGED <<rxmq, msgwait, asleep, mpc, sent, taken>>

\* The worker is about to block, and has to be signalled.
ClearMsgwait == 0

\* The queue is empty: l_condv_wait releases the mutex and blocks at once.
WorkerSleep ==
    /\ wpc = "test"
    /\ rxmq = <<>>
    /\ msgwait' = ClearMsgwait
    /\ mutex' = Free
    /\ asleep' = TRUE
    /\ wpc' = "wait"
    /\ UNCHANGED <<rxmq, mpc, sent, taken>>

\* pthread_cond_wait may return without a signal.
SpuriousWakeup ==
    /\ asleep
    /\ asleep' = FALSE
    /\ UNCHANGED <<rxmq, msgwait, mutex, mpc, wpc, sent, taken>>

\* l_condv_wait returns with the mutex locked; the queue is tested again.
WorkerWake ==
    /\ wpc = "wait"
    /\ ~asleep
    /\ mutex = Free
    /\ mutex' = Worker
    /\ wpc' = "test"
    /\ UNCHANGED <<rxmq, msgwait, asleep, mpc, sent, taken>>

\* Seeded fault: the batch is copied and the queue is not emptied.
LeftInQueue == rxmq

\* The batch has left the queue.
Emptied == <<>>

WorkerTake ==
    /\ wpc = "test"
    /\ rxmq # <<>>
    /\ taken' = taken \o rxmq
    /\ rxmq' = Emptied
    /\ mutex' = Free
    /\ wpc' = "handle"
    /\ UNCHANGED <<msgwait, asleep, mpc, sent>>

\* While it handles the batch the worker may send to its own services...
WorkerSendSelf ==
    /\ wpc = "handle"
    /\ sent < MaxMsgs
    /\ mutex = Free
    /\ sent' = sent + 1
    /\ rxmq' = Append(rxmq, sent + 1)
    /\ UNCHANGED <<msgwait, mutex, asleep, mpc, wpc, taken>>

\* ... and then it starts over.
WorkerDone ==
    /\ wpc = "handle"
    /\ wpc' = "lock"
    /\ UNCHANGED <<rxmq, msgwait, mutex, asleep, mpc, sent, taken>>

-----------------------------------------------------------------------------

MasterStep == MasterLock \/ MasterPush \/ MasterTest \/ MasterUnlock \/ MasterSignal

WorkerStep ==
    \/ WorkerLock \/ WorkerSleep \/ WorkerWake \/ WorkerTake
    \/ WorkerSendSelf \/ WorkerDone

Next == MasterStep \/ WorkerStep \/ SpuriousWakeup

\* A delivery that was begun is finished, and the worker runs whenever it can.
\* No spurious wakeup is assumed to come, and no message to be sent.
Fairness ==
    /\ WF_vars(MasterPush \/ MasterTest \/ MasterUnlock \/ MasterSignal)
    /\ WF_vars(WorkerLock \/ WorkerSleep \/ WorkerWake \/ WorkerTake \/ WorkerDone)

Spec == Init /\ [][Next]_vars /\ Fairness

-----------------------------------------------------------------------------
(* Properties.                                                             *)

TypeOK ==
    /\ rxmq \in Seq(1..MaxMsgs)
    /\ msgwait \in {0, 1}
    /\ mutex \in {Free, Master, Worker}
    /\ asleep \in BOOLEAN
    /\ mpc \in {"idle", "push", "test", "unlock", "unlock, signal", "signal"}
    /\ wpc \in {"lock", "test", "wait", "handle"}
    /\ sent \in 0..MaxMsgs
    /\ taken \in Seq(1..MaxMsgs)

\* The master is between its push and the signal that goes with it.
SignalComing == mpc \in {"test", "unlock, signal", "signal"}

\* No lost wakeup: a worker sleeps on a nonempty queue only while the master is
\* on its way to signal it, although the signal is sent outside of the
\* critical section and skipped when msgwait is set.
NoLostWakeup == asleep /\ rxmq # <<>> => SignalComing

\* The worker tests the queue, and the master fills it, under the mutex.
MutexHeld ==
    /\ wpc = "test" <=> mutex = Worker
    /\ mpc \in {"push", "test", "unlock", "unlock, signal"} <=> mutex = Master

\* While the worker sleeps, msgwait is set only if the master will signal it.
SetMeansSignal ==
    asleep /\ msgwait = 1 => mpc \in {"unlock, signal", "signal"}

\* The inductive invariant behind NoLostWakeup.
Inv ==
    /\ TypeOK
    /\ MutexHeld
    /\ SetMeansSignal
    /\ asleep => wpc = "wait"
    /\ NoLostWakeup

\* The worker gets every message once and in order, and never sleeps for good
\* on a message: its queue is a Mailbox.
Box == INSTANCE Mailbox WITH box <- rxmq

ImplementsMailbox == Box!Spec
============================================================================
