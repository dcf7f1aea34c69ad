------------------------- MODULE MasterWakeup_proofs -------------------------
(***************************************************************************)
(* Proofs about module MasterWakeup, for every set of workers and every    *)
(* number of messages.                                                     *)
(***************************************************************************)
EXTENDS MasterWakeup, SequenceTheorems, TLAPS

\* The messages that a worker creates extend a queue of messages.
LEMMA CreatedType ==
    ASSUME NEW q \in Seq(1..MaxMsgs), sent \in 0..MaxMsgs,
           NEW k \in 1..(MaxMsgs - sent)
    PROVE  Created(q, k) \in Seq(1..MaxMsgs) /\ sent + k \in 0..MaxMsgs
<1>1. k \in Nat /\ sent + k \in 0..MaxMsgs
  BY MaxMsgsAssumption
<1>2. \A i \in 1..k : sent + i \in 1..MaxMsgs
  BY MaxMsgsAssumption
<1>3. [i \in 1..k |-> sent + i] \in [1..k -> 1..MaxMsgs]
  BY <1>2
<1>4. [i \in 1..k |-> sent + i] \in Seq(1..MaxMsgs)
  BY <1>1, <1>3, SeqDef
<1> QED BY <1>1, <1>4, ConcatProperties DEF Created

\* Every step preserves the types.
LEMMA NextType == TypeOK /\ [Next]_vars => TypeOK'
<1> SUFFICES ASSUME TypeOK, [Next]_vars PROVE TypeOK'
  OBVIOUS
<1>0. /\ sent \in 0..MaxMsgs /\ efd \in Nat
      /\ rx \in Seq(1..MaxMsgs) /\ msgRxq \in Seq(1..MaxMsgs)
      /\ takenRx \in Seq(1..MaxMsgs) /\ takenMsg \in Seq(1..MaxMsgs)
  BY DEF TypeOK
<1>1. ASSUME NEW w \in Workers, PushToMaster(w) PROVE TypeOK'
  <2>1. PICK k \in 1..(MaxMsgs - sent) : rx' = Created(rx, k) /\ sent' = sent + k
    BY <1>1 DEF PushToMaster
  <2>2. rx' \in Seq(1..MaxMsgs) /\ sent' \in 0..MaxMsgs
    BY <1>0, <2>1, CreatedType
  <2> QED BY <1>1, <2>2 DEF PushToMaster, Goto, TypeOK, masterVars
<1>2. ASSUME NEW w \in Workers, PushToServices(w) PROVE TypeOK'
  <2>1. PICK k \in 1..(MaxMsgs - sent) :
          msgRxq' = Created(msgRxq, k) /\ sent' = sent + k
    BY <1>2 DEF PushToServices
  <2>2. msgRxq' \in Seq(1..MaxMsgs) /\ sent' \in 0..MaxMsgs
    BY <1>0, <2>1, CreatedType
  <2> QED BY <1>2, <2>2 DEF PushToServices, Goto, TypeOK, masterVars
<1>3. ASSUME NEW w \in Workers, NothingToServices(w) PROVE TypeOK'
  BY <1>3 DEF NothingToServices, Goto, TypeOK, masterVars
<1>4. ASSUME NEW w \in Workers, TestCount(w) PROVE TypeOK'
  BY <1>4 DEF TestCount, AfterTest, Goto, TypeOK, masterVars
<1>5. ASSUME NEW w \in Workers, WriteEventFd(w) PROVE TypeOK'
  <2>1. efd' \in Nat
    BY <1>0, <1>5 DEF WriteEventFd
  <2> QED BY <1>5, <2>1 DEF WriteEventFd, Goto, TypeOK, masterVars
<1>6. CASE MasterTop
  BY <1>6 DEF MasterTop, TypeOK, workerVars
<1>7. CASE WaitWakeup
  BY <1>7 DEF WaitWakeup, TypeOK, workerVars
<1>8. CASE WaitOther
  BY <1>8 DEF WaitOther, TypeOK, workerVars
<1>9. CASE ReadEventFd
  BY <1>9 DEF ReadEventFd, TypeOK, workerVars
<1>10. CASE ClearCount
  BY <1>10 DEF ClearCount, CountCleared, TypeOK, workerVars
<1>11. CASE TakeRx
  <2>1. rx' \in Seq(1..MaxMsgs) /\ takenRx' \in Seq(1..MaxMsgs)
    BY <1>0, <1>11, EmptySeq, ConcatProperties DEF TakeRx
  <2> QED BY <1>11, <2>1 DEF TakeRx, TypeOK, workerVars
<1>12. CASE TakeMsgRxq
  <2>1. msgRxq' \in Seq(1..MaxMsgs) /\ takenMsg' \in Seq(1..MaxMsgs)
    BY <1>0, <1>12, EmptySeq, ConcatProperties DEF TakeMsgRxq
  <2> QED BY <1>12, <2>1 DEF TakeMsgRxq, TypeOK, workerVars
<1>13. CASE UNCHANGED vars
  BY <1>13 DEF vars, workerVars, masterVars, TypeOK
<1> QED
  BY <1>1, <1>2, <1>3, <1>4, <1>5, <1>6, <1>7, <1>8, <1>9, <1>10, <1>11,
     <1>12, <1>13 DEF Next, MasterStep, WorkerStep

\* The part of the invariant that is about the eventfd.
EventFd == OneWrite /\ CountMeansWrite

\* Every step preserves the meaning of the count.
LEMMA NextEventFd == TypeOK /\ EventFd /\ [Next]_vars => EventFd'
<1> SUFFICES ASSUME TypeOK, EventFd, [Next]_vars PROVE EventFd'
  OBVIOUS
<1>0. /\ pc \in [Workers -> {"idle", "sent", "wake", "write"}]
      /\ count \in {0, 1} /\ efd \in Nat
      /\ ready \in SUBSET {WakeupFd}
      /\ mpc \in {"top", "wait", "read", "clear", "take", "get"}
  BY DEF TypeOK
<1> USE <1>0 DEF EventFd, OneWrite, CountMeansWrite, WakeupFd
<1>1. ASSUME NEW w \in Workers, PushToMaster(w) PROVE EventFd'
  BY <1>1 DEF PushToMaster, Goto, masterVars
<1>2. ASSUME NEW w \in Workers, PushToServices(w) PROVE EventFd'
  BY <1>2 DEF PushToServices, Goto, masterVars
<1>3. ASSUME NEW w \in Workers, NothingToServices(w) PROVE EventFd'
  BY <1>3 DEF NothingToServices, Goto, masterVars
<1>4. ASSUME NEW w \in Workers, TestCount(w) PROVE EventFd'
  <2>1. CASE count = 1
    <3>1. pc' = [pc EXCEPT ![w] = "idle"] /\ pc[w] = "wake"
      BY <1>4, <2>1 DEF TestCount, AfterTest, Goto
    <3>2. \A v \in Workers : pc'[v] = "write" <=> pc[v] = "write"
      BY <3>1
    <3> QED BY <1>4, <2>1, <3>2 DEF TestCount, masterVars
  <2>2. CASE count = 0
    <3>1. pc' = [pc EXCEPT ![w] = "write"]
      BY <1>4, <2>2 DEF TestCount, AfterTest, Goto
    <3>2. efd = 0 /\ mpc # "clear" /\ \A v \in Workers : pc[v] # "write"
      BY <2>2
    <3>3. \A v \in Workers : pc'[v] = "write" <=> v = w
      BY <3>1, <3>2
    <3> QED BY <1>4, <3>2, <3>3 DEF TestCount, masterVars
  <2> QED BY <2>1, <2>2
<1>5. ASSUME NEW w \in Workers, WriteEventFd(w) PROVE EventFd'
  <2>1. pc[w] = "write" /\ pc' = [pc EXCEPT ![w] = "idle"] /\ efd' = efd + 1
    BY <1>5 DEF WriteEventFd, Goto
  <2>2. efd = 0 /\ count = 1 /\ mpc \notin {"read", "clear"}
    BY <2>1
  <2>3. \A v \in Workers : pc'[v] # "write"
    BY <2>1
  <2>4. efd' = 1
    BY <2>1, <2>2
  <2> QED BY <1>5, <2>2, <2>3, <2>4 DEF WriteEventFd, masterVars
<1>6. CASE MasterTop
  BY <1>6 DEF MasterTop, workerVars
<1>7. CASE WaitWakeup
  BY <1>7 DEF WaitWakeup, workerVars
<1>8. CASE WaitOther
  BY <1>8 DEF WaitOther, workerVars
<1>9. CASE ReadEventFd
  BY <1>9 DEF ReadEventFd, workerVars
<1>10. CASE ClearCount
  BY <1>10 DEF ClearCount, CountCleared, workerVars
<1>11. CASE TakeRx
  BY <1>11 DEF TakeRx, workerVars
<1>12. CASE TakeMsgRxq
  BY <1>12 DEF TakeMsgRxq, workerVars
<1>13. CASE UNCHANGED vars
  BY <1>13 DEF vars, workerVars, masterVars
<1> QED
  BY <1>1, <1>2, <1>3, <1>4, <1>5, <1>6, <1>7, <1>8, <1>9, <1>10, <1>11,
     <1>12, <1>13 DEF Next, MasterStep, WorkerStep

\* The part of the invariant that is about the queues.
Queues ==
    /\ mpc \in {"top", "wait", "get", "read"} => Announced(rx)
    /\ mpc \in {"top", "wait", "read"} => Announced(msgRxq)

\* Every step keeps the waiting messages announced.
LEMMA NextQueues == TypeOK /\ EventFd /\ Queues /\ [Next]_vars => Queues'
<1> SUFFICES ASSUME TypeOK, EventFd, Queues, [Next]_vars PROVE Queues'
  OBVIOUS
<1>0. /\ pc \in [Workers -> {"idle", "sent", "wake", "write"}]
      /\ count \in {0, 1}
      /\ mpc \in {"top", "wait", "read", "clear", "take", "get"}
      /\ mpc = "clear" => count = 1
  BY DEF TypeOK, EventFd, CountMeansWrite
<1> USE <1>0 DEF Queues, Announced
<1>1. ASSUME NEW w \in Workers, PushToMaster(w) PROVE Queues'
  BY <1>1 DEF PushToMaster, Goto, masterVars
<1>2. ASSUME NEW w \in Workers, PushToServices(w) PROVE Queues'
  BY <1>2 DEF PushToServices, Goto, masterVars
<1>3. ASSUME NEW w \in Workers, NothingToServices(w) PROVE Queues'
  BY <1>3 DEF NothingToServices, Goto, masterVars
<1>4. ASSUME NEW w \in Workers, TestCount(w) PROVE Queues'
  BY <1>4 DEF TestCount, AfterTest, Goto, masterVars
<1>5. ASSUME NEW w \in Workers, WriteEventFd(w) PROVE Queues'
  BY <1>5 DEF WriteEventFd, Goto, masterVars
<1>6. CASE MasterTop
  BY <1>6 DEF MasterTop, workerVars
<1>7. CASE WaitWakeup
  BY <1>7 DEF WaitWakeup, workerVars
<1>8. CASE WaitOther
  BY <1>8 DEF WaitOther, workerVars
<1>9. CASE ReadEventFd
  BY <1>9 DEF ReadEventFd, workerVars
<1>10. CASE ClearCount
  BY <1>10 DEF ClearCount, CountCleared, workerVars
<1>11. CASE TakeRx
  BY <1>11 DEF TakeRx, workerVars
<1>12. CASE TakeMsgRxq
  BY <1>12 DEF TakeMsgRxq, workerVars
<1>13. CASE UNCHANGED vars
  BY <1>13 DEF vars, workerVars, masterVars
<1> QED
  BY <1>1, <1>2, <1>3, <1>4, <1>5, <1>6, <1>7, <1>8, <1>9, <1>10, <1>11,
     <1>12, <1>13 DEF Next, MasterStep, WorkerStep

\* The inductive invariant holds in every state.
THEOREM Invariance == Spec => []Inv
<1>1. Init => Inv
  <2> SUFFICES ASSUME Init PROVE Inv
    OBVIOUS
  <2>1. rx \in Seq(1..MaxMsgs) /\ msgRxq \in Seq(1..MaxMsgs)
    BY EmptySeq DEF Init
  <2>2. takenRx \in Seq(1..MaxMsgs) /\ takenMsg \in Seq(1..MaxMsgs)
    BY EmptySeq DEF Init
  <2>3. sent \in 0..MaxMsgs
    BY MaxMsgsAssumption DEF Init
  <2>4. TypeOK
    BY <2>1, <2>2, <2>3 DEF Init, TypeOK
  <2>5. OneWrite /\ CountMeansWrite
    BY DEF Init, OneWrite, CountMeansWrite
  <2> QED BY <2>4, <2>5 DEF Init, Inv, Announced
<1>2. Inv /\ [Next]_vars => Inv'
  BY NextType, NextEventFd, NextQueues DEF Inv, EventFd, Queues
<1> QED BY <1>1, <1>2, PTL DEF Spec

\* The variables keep their types.
THEOREM TypeCorrect == Spec => []TypeOK
<1>1. Inv => TypeOK
  BY DEF Inv
<1> QED BY <1>1, Invariance, PTL

\* The eventfd is written at most once between two reads of the master.
THEOREM WrittenOnce == Spec => []OneWrite
<1>1. Inv => OneWrite
  BY DEF Inv
<1> QED BY <1>1, Invariance, PTL

\* No wakeup of the master is lost: it never sleeps on a nonempty queue unless
\* epoll has its eventfd to report or a worker is on its way to write it.
THEOREM NoWakeupIsLost == Spec => []NoLostWakeup
<1>1. Inv => NoLostWakeup
  <2> SUFFICES ASSUME Inv, mpc = "wait", rx # <<>> \/ msgRxq # <<>>
               PROVE  WakeupFd \in ready \/ WakeupComing
    BY DEF NoLostWakeup
  <2>1. count = 1 \/ \E w \in Workers : pc[w] \in {"sent", "wake"}
    BY DEF Inv, Announced
  <2>2. count = 1 => efd = 1 \/ \E w \in Workers : pc[w] = "write"
    BY DEF Inv, CountMeansWrite
  <2>3. efd = 1 => WakeupFd \in ready
    BY DEF Inv, CountMeansWrite
  <2> QED BY <2>1, <2>2, <2>3 DEF WakeupComing
<1> QED BY <1>1, Invariance, PTL

-----------------------------------------------------------------------------
(* Both queues are Mailboxes, as far as what may happen goes.              *)

\* A batch that is appended lies behind the messages that wait.
LEMMA Behind ==
    ASSUME NEW S, NEW q \in Seq(S), NEW b \in Seq(S), b # <<>>
    PROVE  Len(q \o b) > Len(q) /\ SubSeq(q \o b, 1, Len(q)) = q
<1>1. Len(b) > 0 /\ Len(q) \in Nat /\ Len(b) \in Nat
  BY EmptySeq, LenProperties
<1>2. q \o b \in Seq(S) /\ Len(q \o b) = Len(q) + Len(b)
  BY ConcatProperties
<1>3. \A i \in 1..Len(q) : (q \o b)[i] = q[i]
  BY ConcatProperties
<1> DEFINE front == SubSeq(q \o b, 1, Len(q))
<1>4. front = q
  <2>1. front \in Seq(S) /\ Len(front) = Len(q)
    BY <1>1, <1>2, SubSeqProperties
  <2>2. \A i \in 1..Len(q) : front[i] = q[i]
    BY <1>1, <1>2, <1>3, SubSeqProperties
  <2> QED BY <2>1, <2>2, SeqEqual
<1> QED BY <1>1, <1>2, <1>4

\* So do the messages that a worker creates.
LEMMA CreatedBehind ==
    ASSUME NEW q \in Seq(1..MaxMsgs), sent \in 0..MaxMsgs,
           NEW k \in 1..(MaxMsgs - sent)
    PROVE  Len(Created(q, k)) > Len(q) /\ SubSeq(Created(q, k), 1, Len(q)) = q
<1> DEFINE b == [i \in 1..k |-> sent + i]
<1>1. k \in Nat /\ k > 0
  BY MaxMsgsAssumption
<1>2. b \in Seq(1..MaxMsgs)
  <2>1. b \in [1..k -> 1..MaxMsgs]
    BY MaxMsgsAssumption
  <2> QED BY <1>1, <2>1, SeqDef
<1>3. b # <<>>
  <2>1. 1 \in DOMAIN b
    BY <1>1
  <2> QED BY <2>1
<1>4. Created(q, k) = q \o b
  BY DEF Created
<1> HIDE DEF b
<1> QED BY <1>2, <1>3, <1>4, Behind

\* What the master took from an empty queue is what it had.
LEMMA NothingTaken ==
    ASSUME NEW t \in Seq(1..MaxMsgs)
    PROVE  t \o <<>> = t
BY ConcatEmptySeq

\* A step flushes messages to the master's own queue, takes all of them, or
\* leaves that queue's Mailbox as it is.
LEMMA RxStep == TypeOK /\ [Next]_vars => [RxBox!Next]_(RxBox!vars)
<1> SUFFICES ASSUME TypeOK, [Next]_vars PROVE [RxBox!Next]_(RxBox!vars)
  OBVIOUS
<1>0. sent \in 0..MaxMsgs /\ rx \in Seq(1..MaxMsgs) /\ takenRx \in Seq(1..MaxMsgs)
  BY DEF TypeOK
<1>1. ASSUME NEW w \in Workers, PushToMaster(w) PROVE [RxBox!Next]_(RxBox!vars)
  <2>1. PICK k \in 1..(MaxMsgs - sent) : rx' = Created(rx, k)
    BY <1>1 DEF PushToMaster
  <2>2. takenRx' = takenRx
    BY <1>1 DEF PushToMaster, masterVars
  <2>3. RxBox!Put
    BY <1>0, <2>1, <2>2, CreatedBehind DEF RxBox!Put
  <2> QED BY <2>3 DEF RxBox!Next
<1>2. CASE TakeRx
  <2>1. CASE rx = <<>>
    <3>1. takenRx' = takenRx /\ rx' = rx
      BY <1>0, <1>2, <2>1, NothingTaken DEF TakeRx
    <3> QED BY <3>1 DEF RxBox!vars
  <2>2. CASE rx # <<>>
    <3>1. RxBox!Take
      BY <1>2, <2>2 DEF TakeRx, RxBox!Take
    <3> QED BY <3>1 DEF RxBox!Next
  <2> QED BY <2>1, <2>2
<1>3. CASE UNCHANGED <<rx, takenRx>>
  BY <1>3 DEF RxBox!vars
<1> QED
  BY <1>1, <1>2, <1>3
  DEF Next, MasterStep, WorkerStep, PushToServices, NothingToServices, TestCount,
      WriteEventFd, MasterTop, WaitWakeup, WaitOther, ReadEventFd, ClearCount,
      TakeMsgRxq, vars, masterVars

\* The same of the queue of the messages between services.
LEMMA MsgStep == TypeOK /\ [Next]_vars => [MsgBox!Next]_(MsgBox!vars)
<1> SUFFICES ASSUME TypeOK, [Next]_vars PROVE [MsgBox!Next]_(MsgBox!vars)
  OBVIOUS
<1>0. /\ sent \in 0..MaxMsgs
      /\ msgRxq \in Seq(1..MaxMsgs) /\ takenMsg \in Seq(1..MaxMsgs)
  BY DEF TypeOK
<1>1. ASSUME NEW w \in Workers, PushToServices(w)
      PROVE  [MsgBox!Next]_(MsgBox!vars)
  <2>1. PICK k \in 1..(MaxMsgs - sent) : msgRxq' = Created(msgRxq, k)
    BY <1>1 DEF PushToServices
  <2>2. takenMsg' = takenMsg
    BY <1>1 DEF PushToServices, masterVars
  <2>3. MsgBox!Put
    BY <1>0, <2>1, <2>2, CreatedBehind DEF MsgBox!Put
  <2> QED BY <2>3 DEF MsgBox!Next
<1>2. CASE TakeMsgRxq
  <2>1. CASE msgRxq = <<>>
    <3>1. takenMsg' = takenMsg /\ msgRxq' = msgRxq
      BY <1>0, <1>2, <2>1, NothingTaken DEF TakeMsgRxq
    <3> QED BY <3>1 DEF MsgBox!vars
  <2>2. CASE msgRxq # <<>>
    <3>1. MsgBox!Take
      BY <1>2, <2>2 DEF TakeMsgRxq, MsgBox!Take
    <3> QED BY <3>1 DEF MsgBox!Next
  <2> QED BY <2>1, <2>2
<1>3. CASE UNCHANGED <<msgRxq, takenMsg>>
  BY <1>3 DEF MsgBox!vars
<1> QED
  BY <1>1, <1>2, <1>3
  DEF Next, MasterStep, WorkerStep, PushToMaster, NothingToServices, TestCount,
      WriteEventFd, MasterTop, WaitWakeup, WaitOther, ReadEventFd, ClearCount,
      TakeRx, vars, masterVars

\* However the flushes of the workers and the rounds of the master interleave,
\* the master gets the messages of each queue once and in the order in which
\* they were flushed to it.
THEOREM MasterHasMailboxes == Spec => RxBox!SafeSpec /\ MsgBox!SafeSpec
<1>1. Init => RxBox!Init /\ MsgBox!Init
  BY DEF Init, RxBox!Init, MsgBox!Init
<1>2. TypeOK /\ [Next]_vars => [RxBox!Next]_(RxBox!vars)
  BY RxStep
<1>3. TypeOK /\ [Next]_vars => [MsgBox!Next]_(MsgBox!vars)
  BY MsgStep
<1> QED
  BY <1>1, <1>2, <1>3, TypeCorrect, PTL DEF Spec, RxBox!SafeSpec, MsgBox!SafeSpec
=============================================================================
