-------------------------- MODULE WorkerWait_proofs --------------------------
(***************************************************************************)
(* Proofs about module WorkerWait, for every number of messages.           *)
(***************************************************************************)
EXTENDS WorkerWait, SequenceTheorems, TLAPS

\* The batch that MasterPush appends is a sequence of messages.
LEMMA BatchType ==
    ASSUME NEW n \in 0..MaxMsgs, NEW k \in 1..(MaxMsgs - n)
    PROVE  [i \in 1..k |-> n + i] \in Seq(1..MaxMsgs)
<1>1. k \in Nat
  BY MaxMsgsAssumption
<1>2. \A i \in 1..k : n + i \in 1..MaxMsgs
  BY MaxMsgsAssumption
<1>3. [i \in 1..k |-> n + i] \in [1..k -> 1..MaxMsgs]
  BY <1>2
<1> QED BY <1>1, <1>3, SeqDef

\* The invariant holds initially.
LEMMA InitInv == Init => Inv
<1> SUFFICES ASSUME Init PROVE Inv
  OBVIOUS
<1>1. rxmq \in Seq(1..MaxMsgs) /\ taken \in Seq(1..MaxMsgs)
  BY EmptySeq DEF Init
<1>2. sent \in 0..MaxMsgs
  BY MaxMsgsAssumption DEF Init
<1>3. msgwait \in {0, 1} /\ asleep = FALSE /\ mutex = Free
  BY DEF Init
<1>4. wpc = "lock" /\ mpc = "idle"
  BY DEF Init
<1>5. TypeOK
  BY <1>1, <1>2, <1>3, <1>4 DEF TypeOK
<1>6. MutexHeld
  BY <1>3, <1>4 DEF MutexHeld, Free, Master, Worker
<1> QED BY <1>3, <1>5, <1>6 DEF Inv, SetMeansSignal, NoLostWakeup

\* What the invariant says of the control state, without the queues.
Control ==
    /\ MutexHeld
    /\ SetMeansSignal
    /\ asleep => wpc = "wait"
    /\ NoLostWakeup

\* Every step preserves the types.
LEMMA NextType == TypeOK /\ [Next]_vars => TypeOK'
<1> SUFFICES ASSUME TypeOK, [Next]_vars PROVE TypeOK'
  OBVIOUS
<1>0. sent \in 0..MaxMsgs /\ rxmq \in Seq(1..MaxMsgs) /\ taken \in Seq(1..MaxMsgs)
  BY DEF TypeOK
<1>1. CASE MasterLock
  BY <1>1 DEF MasterLock, TypeOK
<1>2. CASE MasterPush
  <2>1. PICK k \in 1..(MaxMsgs - sent) :
          sent' = sent + k /\ rxmq' = rxmq \o [i \in 1..k |-> sent + i]
    BY <1>2 DEF MasterPush
  <2>2. sent' \in 0..MaxMsgs
    <3>1. sent' = sent + k
      BY <2>1
    <3> QED BY <3>1, <1>0, MaxMsgsAssumption
  <2>3. [i \in 1..k |-> sent + i] \in Seq(1..MaxMsgs)
    BY <1>0, BatchType
  <2>4. rxmq' \in Seq(1..MaxMsgs)
    BY <1>0, <2>1, <2>3, ConcatProperties
  <2> QED BY <1>2, <2>2, <2>4 DEF MasterPush, TypeOK
<1>3. CASE MasterTest
  BY <1>3 DEF MasterTest, TypeOK
<1>4. CASE MasterUnlock
  BY <1>4 DEF MasterUnlock, TypeOK
<1>5. CASE MasterSignal
  BY <1>5 DEF MasterSignal, TypeOK
<1>6. CASE WorkerLock
  BY <1>6 DEF WorkerLock, TypeOK
<1>7. CASE WorkerSleep
  BY <1>7 DEF WorkerSleep, ClearMsgwait, TypeOK
<1>8. CASE WorkerWake
  BY <1>8 DEF WorkerWake, TypeOK
<1>9. CASE WorkerTake
  <2>1. taken' \in Seq(1..MaxMsgs)
    BY <1>0, <1>9, ConcatProperties DEF WorkerTake
  <2>2. rxmq' \in Seq(1..MaxMsgs)
    BY <1>9, EmptySeq DEF WorkerTake, Emptied
  <2> QED BY <1>9, <2>1, <2>2 DEF WorkerTake, TypeOK
<1>10. CASE WorkerSendSelf
  <2>1. sent < MaxMsgs /\ sent' = sent + 1 /\ rxmq' = Append(rxmq, sent + 1)
    BY <1>10 DEF WorkerSendSelf
  <2>2. sent + 1 \in 1..MaxMsgs /\ sent' \in 0..MaxMsgs
    BY <1>0, <2>1, MaxMsgsAssumption
  <2>3. rxmq' \in Seq(1..MaxMsgs)
    BY <1>0, <2>1, <2>2, AppendProperties
  <2> QED BY <1>10, <2>2, <2>3 DEF WorkerSendSelf, TypeOK
<1>11. CASE WorkerDone
  BY <1>11 DEF WorkerDone, TypeOK
<1>12. CASE SpuriousWakeup
  BY <1>12 DEF SpuriousWakeup, TypeOK
<1>13. CASE UNCHANGED vars
  BY <1>13 DEF vars, TypeOK
<1> QED
  BY <1>1, <1>2, <1>3, <1>4, <1>5, <1>6, <1>7, <1>8, <1>9, <1>10, <1>11,
     <1>12, <1>13 DEF Next, MasterStep, WorkerStep

\* A cleared flag is not set.
LEMMA ClearIsNotSet == 0 # 1
OBVIOUS

\* Every step preserves the agreement of the two threads.
LEMMA NextControl == TypeOK /\ Control /\ [Next]_vars => Control'
<1> SUFFICES ASSUME TypeOK, Control, [Next]_vars PROVE Control'
  OBVIOUS
<1>0. mutex \in {Free, Master, Worker} /\ msgwait \in {0, 1} /\ asleep \in BOOLEAN
  BY DEF TypeOK
<1> USE <1>0 DEF Control, MutexHeld, SetMeansSignal, NoLostWakeup, SignalComing,
                 Free, Master, Worker
<1>1. CASE MasterLock
  BY <1>1 DEF MasterLock
<1>2. CASE MasterPush
  BY <1>2 DEF MasterPush
<1>3. CASE MasterTest
  BY <1>3 DEF MasterTest, NeedsSignal
<1>4. CASE MasterUnlock
  BY <1>4 DEF MasterUnlock
<1>5. CASE MasterSignal
  BY <1>5 DEF MasterSignal
<1>6. CASE WorkerLock
  BY <1>6 DEF WorkerLock
<1>7. CASE WorkerSleep
  <2>0. rxmq' = <<>>
    BY <1>7 DEF WorkerSleep
  <2>1. msgwait' # 1
    <3>1. msgwait' = 0
      BY <1>7 DEF WorkerSleep, ClearMsgwait
    <3> QED BY <3>1, ClearIsNotSet
  <2>2. wpc' = "wait" /\ mutex' = Free /\ mutex = Worker /\ mpc' = mpc
    BY <1>7 DEF WorkerSleep
  <2>3. MutexHeld'
    BY <2>2
  <2>4. SetMeansSignal'
    BY <2>1
  <2>5. NoLostWakeup'
    BY <2>0 DEF NoLostWakeup
  <2> QED BY <2>2, <2>3, <2>4, <2>5
<1>8. CASE WorkerWake
  BY <1>8 DEF WorkerWake
<1>9. CASE WorkerTake
  BY <1>9 DEF WorkerTake, Emptied
<1>10. CASE WorkerSendSelf
  BY <1>10 DEF WorkerSendSelf
<1>11. CASE WorkerDone
  BY <1>11 DEF WorkerDone
<1>12. CASE SpuriousWakeup
  BY <1>12 DEF SpuriousWakeup
<1>13. CASE UNCHANGED vars
  BY <1>13 DEF vars
<1> QED
  BY <1>1, <1>2, <1>3, <1>4, <1>5, <1>6, <1>7, <1>8, <1>9, <1>10, <1>11,
     <1>12, <1>13 DEF Next, MasterStep, WorkerStep

\* The invariant holds in every state.
THEOREM Invariance == Spec => []Inv
<1>1. Init => Inv
  BY InitInv
<1>2. Inv /\ [Next]_vars => Inv'
  BY NextType, NextControl DEF Inv, Control
<1> QED BY <1>1, <1>2, PTL DEF Spec

\* The variables keep their types.
THEOREM TypeCorrect == Spec => []TypeOK
<1>1. Inv => TypeOK
  BY DEF Inv
<1> QED BY <1>1, Invariance, PTL

\* No wakeup of the worker is lost: it sleeps on a nonempty queue only while
\* the master is about to signal it.
THEOREM NoWakeupIsLost == Spec => []NoLostWakeup
<1>1. Inv => NoLostWakeup
  BY DEF Inv
<1> QED BY <1>1, Invariance, PTL

-----------------------------------------------------------------------------
(* The worker's queue is a Mailbox, as far as what may happen goes.        *)

\* The step of the Mailbox that puts a batch behind the messages that wait.
LEMMA Behind ==
    ASSUME NEW S, NEW q \in Seq(S), NEW b \in Seq(S), b # <<>>
    PROVE  Len(q \o b) > Len(q) /\ SubSeq(q \o b, 1, Len(q)) = q
<1>1. Len(b) > 0 /\ Len(q) \in Nat /\ Len(b) \in Nat
  BY EmptySeq, LenProperties
<1>2. q \o b \in Seq(S) /\ Len(q \o b) = Len(q) + Len(b)
  BY ConcatProperties
<1>3. \A i \in 1..Len(q) : (q \o b)[i] = q[i]
  BY ConcatProperties
<1> DEFINE front == SubSeq(q \o b, 1, Len(q))
<1>4. front = q
  <2>1. front \in Seq(S) /\ Len(front) = Len(q)
    BY <1>1, <1>2, SubSeqProperties
  <2>2. \A i \in 1..Len(q) : front[i] = q[i]
    BY <1>1, <1>2, <1>3, SubSeqProperties
  <2> QED BY <2>1, <2>2, SeqEqual
<1> QED BY <1>1, <1>2, <1>4

\* A step of the two threads puts messages into the queue, takes all of them, or
\* leaves the Mailbox as it is.
LEMMA BoxStep == TypeOK /\ [Next]_vars => [Box!Next]_(Box!vars)
<1> SUFFICES ASSUME TypeOK, [Next]_vars PROVE [Box!Next]_(Box!vars)
  OBVIOUS
<1>0. sent \in 0..MaxMsgs /\ rxmq \in Seq(1..MaxMsgs)
  BY DEF TypeOK
<1>1. CASE MasterPush
  <2>1. PICK k \in 1..(MaxMsgs - sent) : rxmq' = rxmq \o [i \in 1..k |-> sent + i]
    BY <1>1 DEF MasterPush
  <2> DEFINE b == [i \in 1..k |-> sent + i]
  <2>2. b \in Seq(1..MaxMsgs)
    BY <1>0, BatchType
  <2>3. b # <<>>
    <3>1. k \in Nat /\ k >= 1
      BY <1>0, MaxMsgsAssumption
    <3>2. 1 \in DOMAIN b
      BY <3>1
    <3> QED BY <3>2
  <2>4. Box!Put
    BY <1>0, <1>1, <2>1, <2>2, <2>3, Behind DEF Box!Put, MasterPush
  <2> QED BY <2>4 DEF Box!Next
<1>2. CASE WorkerSendSelf
  <2>1. sent + 1 \in 1..MaxMsgs
    BY <1>0, <1>2, MaxMsgsAssumption DEF WorkerSendSelf
  <2>2. /\ rxmq' = rxmq \o <<sent + 1>>
        /\ <<sent + 1>> \in Seq(1..MaxMsgs) /\ <<sent + 1>> # <<>>
    BY <1>0, <1>2, <2>1, AppendIsConcat DEF WorkerSendSelf
  <2>3. Box!Put
    BY <1>0, <1>2, <2>2, Behind DEF Box!Put, WorkerSendSelf
  <2> QED BY <2>3 DEF Box!Next
<1>3. CASE WorkerTake
  <2>1. Box!Take
    BY <1>3 DEF WorkerTake, Emptied, Box!Take
  <2> QED BY <2>1 DEF Box!Next
<1>4. CASE UNCHANGED <<rxmq, taken>>
  BY <1>4 DEF Box!vars
<1> QED
  BY <1>1, <1>2, <1>3, <1>4
  DEF Next, MasterStep, WorkerStep, MasterLock, MasterTest, MasterUnlock,
      MasterSignal, WorkerLock, WorkerSleep, WorkerWake, WorkerDone,
      SpuriousWakeup, vars

\* The worker gets every message once and in the order in which they were
\* delivered, those that it sends to itself among them.
THEOREM WorkerHasMailbox == Spec => Box!SafeSpec
<1>1. Init => Box!Init
  BY DEF Init, Box!Init
<1>2. TypeOK /\ [Next]_vars => [Box!Next]_(Box!vars)
  BY BoxStep
<1> QED BY <1>1, <1>2, TypeCorrect, PTL DEF Spec, Box!SafeSpec
=============================================================================
