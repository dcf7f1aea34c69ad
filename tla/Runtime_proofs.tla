--------------------------- MODULE Runtime_proofs ---------------------------
(***************************************************************************)
(* Proofs about module Runtime, for every set of services and every number *)
(* of workers.                                                             *)
(***************************************************************************)
EXTENDS Runtime, SequenceTheorems, TLAPS

-----------------------------------------------------------------------------
(* Messages and queues of messages.                                        *)

\* The messages that the runtime creates are messages.
LEMMA ServiceMsg ==
    ASSUME NEW id \in {"START_REQ", "START_RSP", "CLOSE_REQ", "CLOSE_RSP"},
           NEW s \in Services, NEW t \in Threads
    PROVE  \E m \in Message :
             /\ m = Msg(id, s, t)
             /\ m.id = id /\ m.svc = s /\ m.tidx = t
<1>1. Msg(id, s, t) \in Envelope
  BY RuntimeAssumption DEF Msg, Envelope, MsgIds
<1>2. id \notin Control /\ s # NoService
  BY RuntimeAssumption DEF Control
<1> QED BY <1>1, <1>2 DEF Msg, Message

LEMMA ControlMsg ==
    ASSUME NEW id \in Control, NEW t \in Threads
    PROVE  \E m \in Message : m = Msg(id, NoService, t) /\ m.id = id
<1>1. Msg(id, NoService, t) \in Envelope
  BY RuntimeAssumption DEF Msg, Envelope, MsgIds, Control
<1> QED BY <1>1 DEF Msg, Message

LEMMA UserMsgType ==
    ASSUME NEW s \in Services, NEW t \in Threads,
           NEW f \in Services \union {NoService}, NEW k \in 0..MaxSends
    PROVE  \E m \in Message :
             m = UserMsg(s, t, f, k) /\ m.id = "USER" /\ ~m.ptr
<1>1. UserMsg(s, t, f, k) \in Envelope
  BY RuntimeAssumption DEF UserMsg, Envelope, MsgIds
<1>2. "USER" \notin Control /\ s # NoService
  BY RuntimeAssumption DEF Control
<1> QED BY <1>1, <1>2 DEF UserMsg, Message

\* The elements of a queue after the operations on it.
LEMMA ElementsAppend ==
    ASSUME NEW q \in Seq(Message), NEW m \in Message
    PROVE  /\ Append(q, m) \in Seq(Message)
           /\ \A x \in Elements(Append(q, m)) : x \in Elements(q) \/ x = m
<1>1. /\ Append(q, m) \in Seq(Message)
      /\ Len(Append(q, m)) = Len(q) + 1
      /\ \A i \in 1..Len(q) : Append(q, m)[i] = q[i]
      /\ Append(q, m)[Len(q) + 1] = m
  BY AppendProperties
<1>2. DOMAIN Append(q, m) = 1..(Len(q) + 1) /\ DOMAIN q = 1..Len(q) /\ Len(q) \in Nat
  BY <1>1, LenProperties
<1>3. \A i \in 1..(Len(q) + 1) : i \in 1..Len(q) \/ i = Len(q) + 1
  BY <1>2
<1> QED BY <1>1, <1>2, <1>3 DEF Elements

LEMMA ElementsConcat ==
    ASSUME NEW q \in Seq(Message), NEW r \in Seq(Message)
    PROVE  /\ q \o r \in Seq(Message)
           /\ \A x \in Elements(q \o r) : x \in Elements(q) \/ x \in Elements(r)
<1>1. /\ q \o r \in Seq(Message)
      /\ Len(q \o r) = Len(q) + Len(r)
      /\ \A i \in 1..(Len(q) + Len(r)) :
           (q \o r)[i] = IF i <= Len(q) THEN q[i] ELSE r[i - Len(q)]
  BY ConcatProperties
<1>2. /\ DOMAIN (q \o r) = 1..(Len(q) + Len(r))
      /\ DOMAIN q = 1..Len(q) /\ DOMAIN r = 1..Len(r)
      /\ Len(q) \in Nat /\ Len(r) \in Nat
  BY <1>1, LenProperties
<1>3. ASSUME NEW i \in 1..(Len(q) + Len(r))
      PROVE  (q \o r)[i] \in Elements(q) \/ (q \o r)[i] \in Elements(r)
  <2>1. CASE i <= Len(q)
    <3>1. (q \o r)[i] = q[i] /\ i \in DOMAIN q
      BY <1>1, <1>2, <2>1
    <3> QED BY <3>1 DEF Elements
  <2>2. CASE ~(i <= Len(q))
    <3>1. (q \o r)[i] = r[i - Len(q)] /\ i - Len(q) \in DOMAIN r
      BY <1>1, <1>2, <2>2
    <3> QED BY <3>1 DEF Elements
  <2> QED BY <2>1, <2>2
<1>4. \A x \in Elements(q \o r) : \E i \in 1..(Len(q) + Len(r)) : x = (q \o r)[i]
  BY <1>2 DEF Elements
<1> QED BY <1>1, <1>3, <1>4

LEMMA ElementsTail ==
    ASSUME NEW q \in Seq(Message), q # <<>>
    PROVE  /\ Head(q) \in Message /\ Head(q) \in Elements(q)
           /\ Tail(q) \in Seq(Message)
           /\ \A x \in Elements(Tail(q)) : x \in Elements(q)
<1>1. /\ Head(q) \in Message /\ Head(q) = q[1] /\ Tail(q) \in Seq(Message)
      /\ Len(Tail(q)) = Len(q) - 1
      /\ \A i \in 1..Len(Tail(q)) : Tail(q)[i] = q[i + 1]
  BY HeadTailProperties, ElementOfSeq
<1>2. /\ DOMAIN Tail(q) = 1..(Len(q) - 1) /\ DOMAIN q = 1..Len(q)
      /\ Len(q) \in Nat /\ Len(q) # 0
  BY <1>1, LenProperties, EmptySeq
<1>3. 1 \in DOMAIN q /\ \A i \in DOMAIN Tail(q) : i + 1 \in DOMAIN q
  BY <1>2
<1>4. Head(q) \in Elements(q)
  BY <1>1, <1>3 DEF Elements
<1>5. \A i \in DOMAIN Tail(q) : Tail(q)[i] = q[i + 1]
  BY <1>1, <1>2
<1>6. \A x \in Elements(Tail(q)) : x \in Elements(q)
  BY <1>3, <1>5 DEF Elements
<1> QED BY <1>1, <1>4, <1>6

LEMMA ElementsEmpty == <<>> \in Seq(Message) /\ Elements(<<>>) = {}
<1>1. <<>> \in Seq(Message) /\ Len(<<>>) = 0
  BY EmptySeq
<1>2. DOMAIN <<>> = {}
  BY <1>1, LenProperties
<1> QED BY <1>1, <1>2 DEF Elements

-----------------------------------------------------------------------------
(* The inductive invariant, one part for each queue.                       *)

RxOK ==
    /\ rx \in [Threads -> Seq(Message)]
    /\ \A t \in Threads : \A m \in Elements(rx[t]) : HandledBy(t, m)

BatchOK ==
    /\ batch \in [Threads -> Seq(Message)]
    /\ \A t \in Threads : \A m \in Elements(batch[t]) : HandledBy(t, m)

TxmsOK ==
    /\ txms \in [Threads -> Seq(Message)]
    /\ \A t \in Threads : \A m \in Elements(txms[t]) : HandledBy(0, m)

TxmqOK ==
    /\ txmq \in [Threads -> Seq(Message)]
    /\ \A t \in Threads : \A m \in Elements(txmq[t]) : Addressed(m)

OutOK ==
    /\ out \in [Workers -> Seq(Message)]
    /\ \A w \in Workers : \A m \in Elements(out[w]) : HandledBy(w, m)

MsgRxqOK == msgRxq \in Seq(Message) /\ \A m \in Elements(msgRxq) : Addressed(m)

RouteOK == route \in Seq(Message) /\ \A m \in Elements(route) : Addressed(m)

QueuesOK == RxOK /\ BatchOK /\ TxmsOK /\ TxmqOK /\ OutOK /\ MsgRxqOK /\ RouteOK

\* The services and the threads they are attached to.
HostsOK ==
    /\ running \in [Threads -> Services \union {NoService}]
    /\ table \in SUBSET Services
    /\ thread \in [Services -> Threads \union {NoThread}]
    /\ memory \in [Services -> {"none", "used", "freed", "reused"}]
    /\ pc \in [Threads -> {"wait", "take", "handle", "entry", "last", "route",
                           "deliver", "flush", "sent", "join", "done"}]
    /\ \A t \in Threads :
         Running(t) => running[t] \in Services /\ thread[running[t]] = t
    /\ \A s \in table : thread[s] # NoThread
    /\ \A s \in Services : memory[s] = "none" => thread[s] = NoThread

\* The counters and the flags of the services and the workers.
FieldsOK ==
    /\ sweep \in 0..NumWorkers
    /\ exitedWorkers \in Nat
    /\ alive \in [Workers -> BOOLEAN]
    /\ threadExit \in [Workers -> BOOLEAN]
    /\ weight \in [Workers -> Int]
    /\ closing \in [Services -> BOOLEAN]
    /\ stoprx \in [Services -> BOOLEAN]
    /\ sends \in 0..MaxSends
    /\ exits \in 0..MaxExits

FlagsOK == notified \in BOOLEAN /\ crashed \in BOOLEAN

LogOK ==
    log \in [Services -> Seq([id: MsgIds, src: Services \union {NoService},
                              n: 0..MaxSends])]

LEMMA InvParts == Inv <=> QueuesOK /\ HostsOK /\ FieldsOK /\ FlagsOK /\ LogOK
<1>1. Inv => QueuesOK
  BY DEF Inv, TypeOK, Attached, QueuesOK, RxOK, BatchOK, TxmsOK, TxmqOK, OutOK,
         MsgRxqOK, RouteOK
<1>2. Inv => HostsOK /\ FieldsOK /\ FlagsOK /\ LogOK
  BY DEF Inv, TypeOK, Attached, HostsOK, FieldsOK, FlagsOK, LogOK
<1>3. QueuesOK /\ HostsOK /\ FieldsOK /\ FlagsOK /\ LogOK => TypeOK
  BY DEF TypeOK, QueuesOK, RxOK, BatchOK, TxmsOK, TxmqOK, OutOK, MsgRxqOK,
         RouteOK, HostsOK, FieldsOK, FlagsOK, LogOK
<1>4. QueuesOK /\ HostsOK => Attached
  BY DEF Attached, QueuesOK, RxOK, BatchOK, TxmsOK, TxmqOK, OutOK, MsgRxqOK,
         RouteOK, HostsOK
<1> QED BY <1>1, <1>2, <1>3, <1>4 DEF Inv

-----------------------------------------------------------------------------
(* What no step takes back: a service that was created is not uncreated,   *)
(* and one that is attached to a thread stays with it.                     *)

Keeps ==
    \A s \in Services :
      /\ memory[s] # "none" => memory'[s] # "none"
      /\ thread[s] # NoThread => thread'[s] = thread[s]

LEMMA HandledStays ==
    ASSUME Keeps, HostsOK, NEW t \in Threads, NEW m \in Message, HandledBy(t, m)
    PROVE  HandledBy(t, m)'
<1>1. t # NoThread
  BY RuntimeAssumption DEF Threads, NoThread
<1>2. m.id = "START_REQ" \/ RunsService(m) => m.svc \in Services
  BY DEF Message, Envelope, RunsService, ForService, Control
<1>3. RunsService(m)' <=> RunsService(m)
  BY DEF RunsService
<1> QED BY <1>1, <1>2, <1>3 DEF Keeps, HandledBy

LEMMA AddressedStays ==
    ASSUME Keeps, NEW m \in Message, Addressed(m)
    PROVE  Addressed(m)'
<1>1. m.id = "CLOSE_RSP" => m.svc \in Services
  BY DEF Message, Envelope, Control
<1> QED BY <1>1 DEF Keeps, Addressed

\* A queue that a step leaves alone keeps its invariant.
LEMMA QueueStays ==
    ASSUME Keeps, HostsOK
    PROVE  /\ RxOK /\ rx' = rx => RxOK'
           /\ BatchOK /\ batch' = batch => BatchOK'
           /\ TxmsOK /\ txms' = txms => TxmsOK'
           /\ TxmqOK /\ txmq' = txmq => TxmqOK'
           /\ OutOK /\ out' = out => OutOK'
           /\ MsgRxqOK /\ msgRxq' = msgRxq => MsgRxqOK'
           /\ RouteOK /\ route' = route => RouteOK'
<1>0. /\ 0 \in Threads
      /\ Workers \subseteq Threads
      /\ \A q \in Seq(Message) : \A m \in Elements(q) : m \in Message
  <2>1. 0 \in Threads /\ Workers \subseteq Threads
    BY RuntimeAssumption DEF Threads, Workers
  <2>2. ASSUME NEW q \in Seq(Message), NEW i \in DOMAIN q PROVE q[i] \in Message
    BY ElementOfSeq, LenProperties
  <2> QED BY <2>1, <2>2 DEF Elements
<1>1. ASSUME RxOK, rx' = rx PROVE RxOK'
  BY <1>0, <1>1, HandledStays DEF RxOK
<1>2. ASSUME BatchOK, batch' = batch PROVE BatchOK'
  BY <1>0, <1>2, HandledStays DEF BatchOK
<1>3. ASSUME TxmsOK, txms' = txms PROVE TxmsOK'
  BY <1>0, <1>3, HandledStays DEF TxmsOK
<1>4. ASSUME TxmqOK, txmq' = txmq PROVE TxmqOK'
  BY <1>0, <1>4, AddressedStays DEF TxmqOK
<1>5. ASSUME OutOK, out' = out PROVE OutOK'
  BY <1>0, <1>5, HandledStays DEF OutOK
<1>6. ASSUME MsgRxqOK, msgRxq' = msgRxq PROVE MsgRxqOK'
  BY <1>0, <1>6, AddressedStays DEF MsgRxqOK
<1>7. ASSUME RouteOK, route' = route PROVE RouteOK'
  BY <1>0, <1>7, AddressedStays DEF RouteOK
<1> QED BY <1>1, <1>2, <1>3, <1>4, <1>5, <1>6, <1>7

\* Post puts a message where the thread that will handle it, or the master
\* that will route it, finds it.
LEMMA PostOK ==
    ASSUME Keeps, HostsOK, RxOK, TxmsOK, TxmqOK,
           NEW t \in Threads, NEW m \in Message, Post(t, m),
           ForMaster(m) => HandledBy(0, m)',
           ~ForMaster(m) => HandledBy(t, m)' \/ t = 0,
           ~ForMaster(m) => Addressed(m)'
    PROVE  RxOK' /\ TxmsOK' /\ TxmqOK'
<1>0. /\ rx[t] \in Seq(Message) /\ txms[t] \in Seq(Message)
      /\ txmq[t] \in Seq(Message)
  BY DEF RxOK, TxmsOK, TxmqOK
<1>e. \A q \in Seq(Message) : \A x \in Elements(q) : x \in Message
  BY ElementOfSeq, LenProperties DEF Elements
<1>z. 0 \in Threads
  BY RuntimeAssumption DEF Threads
<1>1. CASE t # 0 /\ ~ForMaster(m) /\ m.tidx = t
  <2>1. rx' = [rx EXCEPT ![t] = Append(rx[t], m)] /\ UNCHANGED <<txms, txmq>>
    BY <1>1 DEF Post
  <2>2. /\ Append(rx[t], m) \in Seq(Message)
        /\ \A x \in Elements(Append(rx[t], m)) : x \in Elements(rx[t]) \/ x = m
    BY <1>0, ElementsAppend
  <2>3. ASSUME NEW u \in Threads, NEW x \in Elements(rx'[u]) PROVE HandledBy(u, x)'
    <3>1. CASE u = t
      <4>1. x \in Elements(rx[t]) \/ x = m
        BY <2>1, <2>2, <2>3, <3>1 DEF RxOK
      <4>2. CASE x = m
        BY <1>1, <3>1, <4>2
      <4>3. CASE x \in Elements(rx[t])
        BY <1>0, <1>e, <3>1, <4>3, HandledStays DEF RxOK
      <4> QED BY <4>1, <4>2, <4>3
    <3>2. CASE u # t
      <4>1. rx'[u] = rx[u] /\ rx[u] \in Seq(Message)
        BY <2>1, <3>2 DEF RxOK
      <4> QED BY <1>e, <2>3, <4>1, HandledStays DEF RxOK
    <3> QED BY <3>1, <3>2
  <2>4. rx' \in [Threads -> Seq(Message)]
    BY <2>1, <2>2 DEF RxOK
  <2>5. RxOK'
    BY <2>3, <2>4 DEF RxOK
  <2> QED BY <2>1, <2>5, QueueStays
<1>2. CASE ~(t # 0 /\ ~ForMaster(m) /\ m.tidx = t) /\ ForMaster(m)
  <2>1. txms' = [txms EXCEPT ![t] = Append(txms[t], m)] /\ UNCHANGED <<rx, txmq>>
    BY <1>2 DEF Post
  <2>2. /\ Append(txms[t], m) \in Seq(Message)
        /\ \A x \in Elements(Append(txms[t], m)) : x \in Elements(txms[t]) \/ x = m
    BY <1>0, ElementsAppend
  <2>3. ASSUME NEW u \in Threads, NEW x \in Elements(txms'[u]) PROVE HandledBy(0, x)'
    <3>1. CASE u = t
      <4>1. x \in Elements(txms[t]) \/ x = m
        BY <2>1, <2>2, <2>3, <3>1 DEF TxmsOK
      <4>2. CASE x = m
        BY <1>2, <4>2
      <4>3. CASE x \in Elements(txms[t])
        BY <1>0, <1>e, <1>z, <4>3, HandledStays DEF TxmsOK
      <4> QED BY <4>1, <4>2, <4>3
    <3>2. CASE u # t
      <4>1. txms'[u] = txms[u] /\ txms[u] \in Seq(Message)
        BY <2>1, <3>2 DEF TxmsOK
      <4> QED BY <1>e, <1>z, <2>3, <4>1, HandledStays DEF TxmsOK
    <3> QED BY <3>1, <3>2
  <2>4. txms' \in [Threads -> Seq(Message)]
    BY <2>1, <2>2 DEF TxmsOK
  <2>5. TxmsOK'
    BY <2>3, <2>4 DEF TxmsOK
  <2> QED BY <2>1, <2>5, QueueStays
<1>3. CASE ~(t # 0 /\ ~ForMaster(m) /\ m.tidx = t) /\ ~ForMaster(m)
  <2>1. txmq' = [txmq EXCEPT ![t] = Append(txmq[t], m)] /\ UNCHANGED <<rx, txms>>
    BY <1>3 DEF Post
  <2>2. /\ Append(txmq[t], m) \in Seq(Message)
        /\ \A x \in Elements(Append(txmq[t], m)) : x \in Elements(txmq[t]) \/ x = m
    BY <1>0, ElementsAppend
  <2>3. ASSUME NEW u \in Threads, NEW x \in Elements(txmq'[u]) PROVE Addressed(x)'
    <3>1. CASE u = t
      <4>1. x \in Elements(txmq[t]) \/ x = m
        BY <2>1, <2>2, <2>3, <3>1 DEF TxmqOK
      <4>2. CASE x = m
        BY <1>3, <4>2
      <4>3. CASE x \in Elements(txmq[t])
        BY <1>0, <1>e, <4>3, AddressedStays DEF TxmqOK
      <4> QED BY <4>1, <4>2, <4>3
    <3>2. CASE u # t
      <4>1. txmq'[u] = txmq[u] /\ txmq[u] \in Seq(Message)
        BY <2>1, <3>2 DEF TxmqOK
      <4> QED BY <1>e, <2>3, <4>1, AddressedStays DEF TxmqOK
    <3> QED BY <3>1, <3>2
  <2>4. txmq' \in [Threads -> Seq(Message)]
    BY <2>1, <2>2 DEF TxmqOK
  <2>5. TxmqOK'
    BY <2>3, <2>4 DEF TxmqOK
  <2> QED BY <2>1, <2>5, QueueStays
<1> QED BY <1>1, <1>2, <1>3

\* Consume keeps the rest of the batch.
LEMMA ConsumeOK ==
    ASSUME Keeps, HostsOK, BatchOK, NEW t \in Threads, batch[t] # <<>>, Consume(t)
    PROVE  BatchOK'
<1>0. batch[t] \in Seq(Message)
  BY DEF BatchOK
<1>e. \A q \in Seq(Message) : \A x \in Elements(q) : x \in Message
  BY ElementOfSeq, LenProperties DEF Elements
<1>1. batch' = [batch EXCEPT ![t] = Tail(batch[t])]
  BY DEF Consume
<1>2. /\ Tail(batch[t]) \in Seq(Message)
      /\ \A x \in Elements(Tail(batch[t])) : x \in Elements(batch[t])
  BY <1>0, ElementsTail
<1>3. ASSUME NEW u \in Threads, NEW x \in Elements(batch'[u]) PROVE HandledBy(u, x)'
  <2>1. x \in Elements(batch[u]) /\ batch[u] \in Seq(Message)
    BY <1>1, <1>2, <1>3 DEF BatchOK
  <2> QED BY <1>e, <2>1, HandledStays DEF BatchOK
<1>4. batch' \in [Threads -> Seq(Message)]
  BY <1>1, <1>2 DEF BatchOK
<1> QED BY <1>3, <1>4 DEF BatchOK

-----------------------------------------------------------------------------
(* The actions one by one.                                                 *)

\* Thread t's handling of a message needs only what its batch promises.
LEMMA HeadOK ==
    ASSUME BatchOK, NEW t \in Threads, batch[t] # <<>>
    PROVE  Head(batch[t]) \in Message /\ HandledBy(t, Head(batch[t]))
  BY ElementsTail DEF BatchOK

LEMMA ThreadsType ==
    /\ 0 \in Threads /\ Workers \subseteq Threads /\ 0 \notin Workers
    /\ \A t \in Threads : t # NoThread /\ Index(t) \in Threads
    /\ \A t \in Threads : Index(t) = t \/ (Index(t) = 0 /\ NumWorkers > 0)
    /\ Hosts \subseteq Threads
    /\ LeastLoaded \subseteq Threads
  BY RuntimeAssumption DEF Threads, Workers, NoThread, Index, Hosts, LeastLoaded

LEMMA StepKeeps ==
    ASSUME Inv, Next
    PROVE  Keeps
<1>0. HostsOK
  BY InvParts
<1>1. ASSUME UNCHANGED <<thread, memory>> PROVE Keeps
  BY <1>1 DEF Keeps
<1>2. ASSUME NEW t \in Threads, NEW s \in Services, NEW on \in Hosts \union {NoThread},
             StartService(t, s, on)
      PROVE  Keeps
  <2>1. memory[s] = "none" /\ thread' = [thread EXCEPT ![s] = on] /\ NewFlags(t, s)
    BY <1>2 DEF StartService
  <2>2. \A x \in Services : memory[x] # "none" => memory'[x] # "none"
    BY <1>0, <2>1 DEF NewFlags, HostsOK
  <2>3. thread[s] = NoThread
    BY <1>0, <2>1 DEF HostsOK
  <2> QED BY <1>0, <2>1, <2>2, <2>3 DEF Keeps, HostsOK
<1>3. ASSUME NEW t \in Threads, LastReturn(t) PROVE Keeps
  BY <1>0, <1>3 DEF LastReturn, Keeps, HostsOK
<1>4. ASSUME HandleStartReq PROVE Keeps
  <2>1. memory' = memory
    BY <1>4 DEF HandleStartReq
  <2> DEFINE s == Head(batch[0]).svc
  <2>2. PICK t \in Threads :
          /\ t \in IF thread[s] # NoThread THEN {thread[s]}
                   ELSE IF NumWorkers > 0 THEN LeastLoaded ELSE {0}
          /\ thread' = [thread EXCEPT ![s] = t]
    BY <1>4 DEF HandleStartReq
  <2> QED BY <1>0, <2>1, <2>2 DEF Keeps, HostsOK
<1>5. ASSUME NEW t \in Threads, Entry(t) PROVE Keeps
  <2>1. ASSUME NEW d \in Services, NEW full \in BOOLEAN, SendUser(t, d, full) PROVE Keeps
    BY <1>1, <2>1 DEF SendUser, services
  <2>2. ASSUME CloseSelf(t) PROVE Keeps
    BY <1>1, <2>2 DEF CloseSelf
  <2>3. ASSUME MasterExit(t) PROVE Keeps
    BY <1>1, <2>3 DEF MasterExit, services
  <2>4. ASSUME EntryReturn(t) PROVE Keeps
    BY <1>1, <2>4 DEF EntryReturn
  <2> QED BY <1>2, <1>3, <1>5, <2>1, <2>2, <2>3, <2>4 DEF Entry
<1>6. ASSUME NEW w \in Workers, WorkerStep(w) PROVE Keeps
  <2>1. ASSUME ~Entry(w) PROVE UNCHANGED <<thread, memory>>
    BY <1>6, <2>1 DEF WorkerStep, WorkerTake, HandleServiceMsg, HandleCloseRsp,
       HandleWorkerExitReq, WorkerFlushToMaster, WorkerFlushToServices, services
  <2> QED BY <1>1, <1>5, <2>1, ThreadsType
<1>7. ASSUME MasterStep PROVE Keeps
  <2>1. ASSUME ~Entry(0), ~HandleStartReq PROVE UNCHANGED <<thread, memory>>
    BY <1>7, <2>1 DEF MasterStep, MasterWait, MasterTake, MasterHandle, MasterGet,
       MasterRoute, MasterRouted, MasterDeliver, MasterDelivered, MasterJoin,
       HandleCloseReq, HandleExitService, HandleExitWorker, HandleExitDone,
       HandleWorkerExitRsp, HandleServiceMsg, HandleCloseRsp, services
  <2> QED BY <1>1, <1>4, <1>5, <2>1, ThreadsType
<1> QED BY <1>6, <1>7 DEF Next

LEMMA StepHosts ==
    ASSUME Inv, Next
    PROVE  HostsOK'
<1>0. HostsOK /\ BatchOK /\ Keeps
  BY InvParts, StepKeeps DEF QueuesOK
<1>1. ASSUME UNCHANGED <<thread, memory, running, pc>>, table' \subseteq table
      PROVE  HostsOK'
  BY <1>0, <1>1 DEF HostsOK, Running
<1>2. ASSUME UNCHANGED <<thread, memory, running, table>>, NEW t \in Threads,
             NEW l \in {"wait", "take", "handle", "route", "deliver", "flush",
                        "sent", "join", "done"},
             Goto(t, l)
      PROVE  HostsOK'
  BY <1>0, <1>2 DEF HostsOK, Running, Goto
<1>3. ASSUME NEW t \in Threads, Entry(t) PROVE HostsOK'
  <2>1. ASSUME NEW s \in Services, NEW on \in Hosts \union {NoThread},
               StartService(t, s, on)
        PROVE  HostsOK'
    <3>1. /\ memory[s] = "none" /\ thread' = [thread EXCEPT ![s] = on]
          /\ UNCHANGED <<running, table, pc>> /\ NewFlags(t, s)
      BY <2>1 DEF StartService, master
    <3>2. /\ memory' \in [Services -> {"none", "used", "freed", "reused"}]
          /\ \A x \in Services : memory'[x] = "none" => memory[x] = "none" /\ x # s
      BY <1>0, <3>1 DEF NewFlags, HostsOK
    <3>3. thread' \in [Services -> Threads \union {NoThread}]
      BY <1>0, <3>1, ThreadsType DEF HostsOK
    <3>4. \A x \in Services : memory'[x] = "none" => thread'[x] = NoThread
      BY <1>0, <3>1, <3>2 DEF HostsOK
    <3>5. \A x \in table' : thread'[x] # NoThread
      BY <1>0, <3>1 DEF HostsOK, Keeps
    <3>6. \A u \in Threads :
            Running(u)' => running'[u] \in Services /\ thread'[running'[u]] = u
      BY <1>0, <3>1, ThreadsType DEF HostsOK, Keeps, Running
    <3> QED BY <1>0, <3>1, <3>2, <3>3, <3>4, <3>5, <3>6 DEF HostsOK
  <2>2. ASSUME NEW d \in Services, NEW full \in BOOLEAN, SendUser(t, d, full)
        PROVE  HostsOK'
    BY <1>1, <2>2 DEF SendUser, services, master
  <2>3. ASSUME CloseSelf(t) PROVE HostsOK'
    BY <1>1, <2>3 DEF CloseSelf, master
  <2>4. ASSUME MasterExit(t) PROVE HostsOK'
    BY <1>1, <2>4 DEF MasterExit, services, master
  <2>5. ASSUME EntryReturn(t) PROVE HostsOK'
    BY <1>0, <2>5 DEF EntryReturn, HostsOK, Goto, Running, master
  <2>6. ASSUME LastReturn(t) PROVE HostsOK'
    BY <1>0, <2>6 DEF LastReturn, HostsOK, Goto, Running, master
  <2> QED BY <1>3, <2>1, <2>2, <2>3, <2>4, <2>5, <2>6 DEF Entry
<1>4. ASSUME NEW t \in Threads, HandleServiceMsg(t) PROVE HostsOK'
  <2> DEFINE m == Head(batch[t])
  <2>1. /\ batch[t] # <<>> /\ ForService(m)
        /\ UNCHANGED <<thread, memory, table>>
        /\ \/ UNCHANGED <<running, pc>>
           \/ /\ m.ptr /\ running' = [running EXCEPT ![t] = m.svc]
              /\ pc' = [pc EXCEPT ![t] = "entry"]
    BY <1>4 DEF HandleServiceMsg, Goto, master
  <2>2. m \in Message /\ HandledBy(t, m)
    BY <1>0, <2>1, HeadOK
  <2>3. m.svc \in Services
    BY <2>1, <2>2 DEF Message, Envelope, ForService, Control
  <2>4. m.ptr => thread[m.svc] = t
    BY <2>1, <2>2 DEF HandledBy, RunsService
  <2> QED BY <1>0, <1>1, <2>1, <2>3, <2>4 DEF HostsOK, Running
<1>5. ASSUME NEW t \in Threads, HandleCloseRsp(t) PROVE HostsOK'
  <2> DEFINE m == Head(batch[t])
  <2>1. /\ batch[t] # <<>> /\ m.id = "CLOSE_RSP"
        /\ UNCHANGED <<thread, memory, table>>
        /\ running' = [running EXCEPT ![t] = m.svc]
        /\ pc' = [pc EXCEPT ![t] = "last"]
    BY <1>5 DEF HandleCloseRsp, Handling, Goto, master
  <2>2. m \in Message /\ HandledBy(t, m)
    BY <1>0, <2>1, HeadOK
  <2>3. m.svc \in Services /\ thread[m.svc] = t
    BY <2>1, <2>2 DEF Message, Envelope, Control, HandledBy, RunsService
  <2> QED BY <1>0, <2>1, <2>3 DEF HostsOK, Running
<1>6. ASSUME HandleStartReq PROVE HostsOK'
  <2> DEFINE m == Head(batch[0])
  <2>1. batch[0] # <<>> /\ m.id = "START_REQ" /\ UNCHANGED <<memory, running, pc>>
    BY <1>6 DEF HandleStartReq, Handling
  <2>2. PICK t \in Threads :
          thread' = [thread EXCEPT ![m.svc] = t] /\ table' = table \union {m.svc}
    BY <1>6 DEF HandleStartReq
  <2>3. m \in Message /\ HandledBy(0, m)
    BY <1>0, <2>1, HeadOK, ThreadsType
  <2>4. m.svc \in Services /\ memory[m.svc] # "none"
    BY <2>1, <2>3 DEF Message, Envelope, Control, HandledBy
  <2>5. \A u \in Threads :
          Running(u)' => running'[u] \in Services /\ thread'[running'[u]] = u
    BY <1>0, <2>1, ThreadsType DEF HostsOK, Keeps, Running
  <2>6. \A s \in table' : thread'[s] # NoThread
    BY <1>0, <2>2, <2>4, ThreadsType DEF HostsOK, Keeps
  <2> QED BY <1>0, <2>1, <2>2, <2>4, <2>5, <2>6, ThreadsType DEF HostsOK
<1>7. ASSUME NEW w \in Workers, WorkerStep(w) PROVE HostsOK'
  <2>1. CASE WorkerTake(w)
    BY <1>2, <2>1, ThreadsType DEF WorkerTake, services, master
  <2>2. CASE HandleWorkerExitReq(w)
    BY <1>1, <2>2 DEF HandleWorkerExitReq, services, master
  <2>3. CASE WorkerFlushToMaster(w)
    BY <1>2, <2>3, ThreadsType DEF WorkerFlushToMaster, services, master
  <2>4. CASE WorkerFlushToServices(w)
    BY <1>2, <2>4, ThreadsType DEF WorkerFlushToServices, services, master
  <2> QED BY <1>3, <1>4, <1>5, <1>7, <2>1, <2>2, <2>3, <2>4, ThreadsType DEF WorkerStep
<1>8. ASSUME MasterHandle PROVE HostsOK'
  <2>1. CASE HandleCloseReq
    BY <1>1, <2>1 DEF HandleCloseReq, Remove, services
  <2>2. ASSUME NEW s \in Services, HandleExitService(s) PROVE HostsOK'
    BY <1>1, <2>2 DEF HandleExitService, Remove, services
  <2>3. CASE HandleExitWorker
    BY <1>1, <2>3 DEF HandleExitWorker, services
  <2>4. CASE HandleExitDone
    BY <1>1, <2>4 DEF HandleExitDone, services
  <2>5. CASE HandleWorkerExitRsp
    BY <1>2, <2>5, ThreadsType DEF HandleWorkerExitRsp, services
  <2> QED BY <1>3, <1>4, <1>5, <1>6, <1>8, <2>1, <2>2, <2>3, <2>4, <2>5, ThreadsType
          DEF MasterHandle
<1>9. ASSUME MasterStep, ~MasterHandle PROVE HostsOK'
  <2>1. CASE MasterWait
    BY <1>2, <2>1, ThreadsType DEF MasterWait, services, master
  <2>2. CASE MasterTake
    BY <1>2, <2>2, ThreadsType DEF MasterTake, services
  <2>3. CASE MasterGet
    BY <1>2, <2>3, ThreadsType DEF MasterGet, services
  <2>4. CASE MasterRoute
    BY <1>1, <2>4 DEF MasterRoute, services
  <2>5. CASE MasterRouted
    BY <1>2, <2>5, ThreadsType DEF MasterRouted, services, master
  <2>6. ASSUME NEW w \in Workers, MasterDeliver(w) PROVE HostsOK'
    BY <1>1, <2>6 DEF MasterDeliver, services
  <2>7. CASE MasterDelivered
    BY <1>2, <2>7, ThreadsType DEF MasterDelivered, services, master
  <2>8. CASE MasterJoin
    BY <1>2, <2>8, ThreadsType DEF MasterJoin, services, master
  <2> QED BY <1>9, <2>1, <2>2, <2>3, <2>4, <2>5, <2>6, <2>7, <2>8 DEF MasterStep
<1> QED BY <1>7, <1>8, <1>9 DEF Next

LEMMA StepQueues ==
    ASSUME Inv, Next
    PROVE  QueuesOK'
<1>0. /\ HostsOK /\ Keeps /\ FieldsOK
      /\ RxOK /\ BatchOK /\ TxmsOK /\ TxmqOK /\ OutOK /\ MsgRxqOK /\ RouteOK
  BY InvParts, StepKeeps DEF QueuesOK
<1>e. \A q \in Seq(Message) : \A x \in Elements(q) : x \in Message
  BY ElementOfSeq, LenProperties DEF Elements
<1>1. ASSUME NEW t \in Threads, Entry(t) PROVE QueuesOK'
  <2>0. Running(t) => running[t] \in Services /\ running[t] # NoService
    BY <1>0, RuntimeAssumption DEF HostsOK
  <2>1. ASSUME NEW s \in Services, NEW on \in Hosts \union {NoThread},
               StartService(t, s, on)
        PROVE  QueuesOK'
    <3>1. PICK m \in Message :
            m = Msg("START_REQ", s, 0) /\ m.id = "START_REQ" /\ m.svc = s
      BY ServiceMsg, ThreadsType
    <3>2. memory'[s] # "none"
      BY <1>0, <2>1 DEF StartService, NewFlags, HostsOK
    <3>3. ForMaster(m) /\ HandledBy(0, m)'
      BY <3>1, <3>2 DEF ForMaster, HandledBy, RunsService, ForService
    <3>4. RxOK' /\ TxmsOK' /\ TxmqOK'
      BY <1>0, <2>1, <3>1, <3>3, PostOK DEF StartService
    <3> QED BY <1>0, <2>1, <3>4, QueueStays DEF StartService, master, QueuesOK
  <2>2. ASSUME NEW d \in Services, NEW full \in BOOLEAN, SendUser(t, d, full)
        PROVE  QueuesOK'
    <3>1. PICK x \in Threads : x = IF full THEN Index(thread[d]) ELSE 0
      BY <1>0, <2>2, ThreadsType DEF SendUser, HostsOK
    <3>2. sends + 1 \in 0..MaxSends
      BY <1>0, <2>2, RuntimeAssumption DEF SendUser, FieldsOK
    <3>3. PICK m \in Message :
            m = UserMsg(d, x, running[t], sends + 1) /\ m.id = "USER" /\ ~m.ptr
      <4>1. running[t] \in Services \union {NoService}
        BY <1>0 DEF HostsOK
      <4> QED BY <3>2, <4>1, UserMsgType
    <3>4. ~ForMaster(m) /\ HandledBy(t, m)' /\ Addressed(m)'
      BY <3>3 DEF ForMaster, ForService, HandledBy, RunsService, Addressed
    <3>5. RxOK' /\ TxmsOK' /\ TxmqOK'
      <4>1. Post(t, m)
        BY <2>2, <3>1, <3>3 DEF SendUser
      <4> QED BY <1>0, <3>3, <3>4, <4>1, PostOK
    <3> QED BY <1>0, <2>2, <3>5, QueueStays DEF SendUser, master, QueuesOK
  <2>3. ASSUME CloseSelf(t) PROVE QueuesOK'
    BY <1>0, <2>3, QueueStays DEF CloseSelf, queues, master, QueuesOK
  <2>4. ASSUME MasterExit(t) PROVE QueuesOK'
    <3>1. PICK m \in Message : m = Msg("MASTER_EXIT_REQ", NoService, 0) /\ m.id = "MASTER_EXIT_REQ"
      BY ControlMsg, ThreadsType DEF Control
    <3>2. ForMaster(m) /\ HandledBy(0, m)'
      BY <3>1 DEF ForMaster, HandledBy, RunsService, ForService
    <3>3. RxOK' /\ TxmsOK' /\ TxmqOK'
      BY <1>0, <2>4, <3>1, <3>2, PostOK DEF MasterExit
    <3> QED BY <1>0, <2>4, <3>3, QueueStays DEF MasterExit, master, QueuesOK
  <2>5. ASSUME EntryReturn(t) PROVE QueuesOK'
    <3>1. PICK m \in Message : m = Msg("CLOSE_REQ", running[t], 0) /\ m.id = "CLOSE_REQ"
      BY <2>0, <2>5, ServiceMsg, ThreadsType DEF EntryReturn, Running
    <3>2. ForMaster(m) /\ HandledBy(0, m)'
      BY <3>1 DEF ForMaster, HandledBy, RunsService, ForService
    <3>3. CASE Post(t, Msg("CLOSE_REQ", running[t], 0))
      <4>1. RxOK' /\ TxmsOK' /\ TxmqOK'
        BY <1>0, <3>1, <3>2, <3>3, PostOK
      <4> QED BY <1>0, <2>5, <4>1, QueueStays DEF EntryReturn, master, QueuesOK
    <3>4. CASE UNCHANGED <<rx, txms, txmq>>
      BY <1>0, <2>5, <3>4, QueueStays DEF EntryReturn, master, QueuesOK
    <3> QED BY <2>5, <3>3, <3>4 DEF EntryReturn
  <2>6. ASSUME LastReturn(t) PROVE QueuesOK'
    BY <1>0, <2>6, QueueStays DEF LastReturn, queues, master, QueuesOK
  <2> QED BY <1>1, <2>1, <2>2, <2>3, <2>4, <2>5, <2>6 DEF Entry
<1>2. ASSUME NEW t \in Threads, HandleServiceMsg(t) PROVE QueuesOK'
  <2>1. BatchOK'
    BY <1>0, <1>2, ConsumeOK DEF HandleServiceMsg
  <2> QED BY <1>0, <1>2, <2>1, QueueStays DEF HandleServiceMsg, queues, master, QueuesOK
<1>3. ASSUME NEW t \in Threads, HandleCloseRsp(t) PROVE QueuesOK'
  <2>1. BatchOK'
    BY <1>0, <1>3, ConsumeOK DEF HandleCloseRsp, Handling
  <2> QED BY <1>0, <1>3, <2>1, QueueStays DEF HandleCloseRsp, queues, master, QueuesOK
<1>4. ASSUME NEW w \in Workers, HandleWorkerExitReq(w) PROVE QueuesOK'
  <2>1. PICK m \in Message : m = Msg("WORKER_EXIT_RSP", NoService, w) /\ m.id = "WORKER_EXIT_RSP"
    BY ControlMsg, ThreadsType DEF Control
  <2>2. ForMaster(m) /\ HandledBy(0, m)'
    BY <2>1 DEF ForMaster, HandledBy, RunsService, ForService
  <2>3. RxOK' /\ TxmsOK' /\ TxmqOK'
    BY <1>0, <1>4, <2>1, <2>2, PostOK, ThreadsType DEF HandleWorkerExitReq
  <2>4. BatchOK'
    BY <1>0, <1>4, ConsumeOK, ThreadsType DEF HandleWorkerExitReq, Handling
  <2> QED BY <1>0, <1>4, <2>3, <2>4, QueueStays DEF HandleWorkerExitReq, master, QueuesOK
<1>5. ASSUME NEW w \in Workers, WorkerTake(w) PROVE QueuesOK'
  <2>1. /\ batch' = [batch EXCEPT ![w] = rx[w]] /\ rx' = [rx EXCEPT ![w] = <<>>]
        /\ UNCHANGED <<txms, txmq, msgRxq, route, out>>
    BY <1>5 DEF WorkerTake, master
  <2>2. RxOK'
    <3>1. rx' \in [Threads -> Seq(Message)]
      BY <1>0, <2>1, ElementsEmpty DEF RxOK
    <3>2. ASSUME NEW u \in Threads, NEW x \in Elements(rx'[u]) PROVE HandledBy(u, x)'
      <4>1. x \in Elements(rx[u]) /\ x \in Message
        BY <1>0, <1>e, <2>1, <3>2, ElementsEmpty DEF RxOK
      <4> QED BY <1>0, <4>1, HandledStays DEF RxOK
    <3> QED BY <3>1, <3>2 DEF RxOK
  <2>3. BatchOK'
    <3>1. batch' \in [Threads -> Seq(Message)]
      BY <1>0, <2>1, ThreadsType DEF RxOK, BatchOK
    <3>2. ASSUME NEW u \in Threads, NEW x \in Elements(batch'[u]) PROVE HandledBy(u, x)'
      <4>1. x \in Elements(rx[u]) \/ x \in Elements(batch[u])
        BY <1>0, <2>1, <3>2 DEF BatchOK
      <4>2. x \in Message /\ HandledBy(u, x)
        BY <1>0, <1>e, <4>1 DEF RxOK, BatchOK
      <4> QED BY <1>0, <4>2, HandledStays
    <3> QED BY <3>1, <3>2 DEF BatchOK
  <2> QED BY <1>0, <2>1, <2>2, <2>3, QueueStays DEF QueuesOK
<1>6. ASSUME NEW w \in Workers, WorkerFlushToMaster(w) PROVE QueuesOK'
  <2>0. w \in Threads /\ 0 \in Threads
    BY ThreadsType
  <2>1. /\ rx' = [rx EXCEPT ![0] = rx[0] \o txms[w]]
        /\ txms' = [txms EXCEPT ![w] = <<>>]
        /\ UNCHANGED <<txmq, msgRxq, route, out, batch>>
    BY <1>6 DEF WorkerFlushToMaster, master
  <2>2. RxOK'
    <3>1. /\ rx[0] \o txms[w] \in Seq(Message)
          /\ \A x \in Elements(rx[0] \o txms[w]) :
               x \in Elements(rx[0]) \/ x \in Elements(txms[w])
      BY <1>0, <2>0, ElementsConcat DEF RxOK, TxmsOK
    <3>2. rx' \in [Threads -> Seq(Message)]
      BY <1>0, <2>1, <3>1 DEF RxOK
    <3>3. ASSUME NEW u \in Threads, NEW x \in Elements(rx'[u]) PROVE HandledBy(u, x)'
      <4>1. x \in Elements(rx[u]) \/ (u = 0 /\ x \in Elements(txms[w]))
        BY <1>0, <2>1, <3>1, <3>3 DEF RxOK
      <4>2. x \in Message /\ HandledBy(u, x)
        BY <1>0, <1>e, <2>0, <4>1 DEF RxOK, TxmsOK
      <4> QED BY <1>0, <4>2, HandledStays
    <3> QED BY <3>2, <3>3 DEF RxOK
  <2>3. TxmsOK'
    <3>1. txms' \in [Threads -> Seq(Message)]
      BY <1>0, <2>1, ElementsEmpty DEF TxmsOK
    <3>2. ASSUME NEW u \in Threads, NEW x \in Elements(txms'[u]) PROVE HandledBy(0, x)'
      <4>1. x \in Elements(txms[u]) /\ x \in Message
        BY <1>0, <1>e, <2>1, <3>2, ElementsEmpty DEF TxmsOK
      <4> QED BY <1>0, <2>0, <4>1, HandledStays DEF TxmsOK
    <3> QED BY <3>1, <3>2 DEF TxmsOK
  <2> QED BY <1>0, <2>1, <2>2, <2>3, QueueStays DEF QueuesOK
<1>7. ASSUME NEW w \in Workers, WorkerFlushToServices(w) PROVE QueuesOK'
  <2>1. /\ msgRxq' = msgRxq \o txmq[w] /\ txmq' = [txmq EXCEPT ![w] = <<>>]
        /\ UNCHANGED <<rx, txms, route, out, batch>>
    BY <1>7 DEF WorkerFlushToServices, Flushed, master
  <2>2. MsgRxqOK'
    <3>1. /\ msgRxq' \in Seq(Message)
          /\ \A x \in Elements(msgRxq') : x \in Elements(msgRxq) \/ x \in Elements(txmq[w])
      BY <1>0, <2>1, ElementsConcat, ThreadsType DEF MsgRxqOK, TxmqOK
    <3>2. \A x \in Elements(msgRxq') : x \in Message /\ Addressed(x)
      BY <1>0, <1>e, <3>1, ThreadsType DEF MsgRxqOK, TxmqOK
    <3> QED BY <1>0, <3>1, <3>2, AddressedStays DEF MsgRxqOK
  <2>3. TxmqOK'
    <3>1. txmq' \in [Threads -> Seq(Message)]
      BY <1>0, <2>1, ElementsEmpty DEF TxmqOK
    <3>2. ASSUME NEW u \in Threads, NEW x \in Elements(txmq'[u]) PROVE Addressed(x)'
      <4>1. x \in Elements(txmq[u]) /\ x \in Message
        BY <1>0, <1>e, <2>1, <3>2, ElementsEmpty DEF TxmqOK
      <4> QED BY <1>0, <4>1, AddressedStays DEF TxmqOK
    <3> QED BY <3>1, <3>2 DEF TxmqOK
  <2> QED BY <1>0, <2>1, <2>2, <2>3, QueueStays DEF QueuesOK
<1>8. ASSUME HandleStartReq PROVE QueuesOK'
  <2> DEFINE h == Head(batch[0])
  <2>1. PICK t \in Threads : Post(0, Msg("START_RSP", h.svc, Index(t)))
    BY <1>8 DEF HandleStartReq
  <2>2. h \in Message /\ h.id = "START_REQ"
    BY <1>0, <1>8, HeadOK, ThreadsType DEF HandleStartReq, Handling
  <2>3. h.svc \in Services /\ h.svc # NoService
    BY <2>2, RuntimeAssumption DEF Message, Envelope, Control
  <2>4. PICK m \in Message : m = Msg("START_RSP", h.svc, Index(t)) /\ m.id = "START_RSP"
    BY <2>3, ServiceMsg, ThreadsType
  <2>5. ~ForMaster(m) /\ Addressed(m)'
    BY <2>4 DEF ForMaster, Addressed
  <2>6. RxOK' /\ TxmsOK' /\ TxmqOK'
    BY <1>0, <2>1, <2>4, <2>5, PostOK, ThreadsType
  <2>7. BatchOK'
    BY <1>0, <1>8, ConsumeOK, ThreadsType DEF HandleStartReq, Handling
  <2> QED BY <1>0, <1>8, <2>6, <2>7, QueueStays DEF HandleStartReq, QueuesOK
<1>9. ASSUME NEW s \in table, Remove(s) PROVE RxOK' /\ TxmsOK' /\ TxmqOK'
  <2>1. s \in Services /\ s # NoService /\ thread[s] \in Threads
    BY <1>0, RuntimeAssumption DEF HostsOK
  <2>2. PICK m \in Message :
          /\ m = Msg("CLOSE_RSP", s, Index(thread[s]))
          /\ m.id = "CLOSE_RSP" /\ m.svc = s /\ m.tidx = Index(thread[s])
    BY <2>1, ServiceMsg, ThreadsType
  <2>3. Addressed(m)
    BY <1>0, <2>1, <2>2, ThreadsType DEF Addressed, HostsOK, ForMaster
  <2>4. ~ForMaster(m) /\ Addressed(m)'
    BY <1>0, <2>3, AddressedStays DEF Addressed
  <2> QED BY <1>0, <1>9, <2>2, <2>4, PostOK, ThreadsType DEF Remove
<1>10. ASSUME HandleCloseReq PROVE QueuesOK'
  <2>1. BatchOK'
    BY <1>0, <1>10, ConsumeOK, ThreadsType DEF HandleCloseReq, Handling
  <2>2. RxOK' /\ TxmsOK' /\ TxmqOK'
    BY <1>0, <1>9, <1>10, QueueStays DEF HandleCloseReq, Found
  <2> QED BY <1>0, <1>10, <2>1, <2>2, QueueStays DEF HandleCloseReq, QueuesOK
<1>11. ASSUME NEW s \in Services, HandleExitService(s) PROVE QueuesOK'
  <2>1. RxOK' /\ TxmsOK' /\ TxmqOK'
    BY <1>9, <1>11 DEF HandleExitService
  <2> QED BY <1>0, <1>11, <2>1, QueueStays DEF HandleExitService, QueuesOK
<1>12. ASSUME HandleExitWorker PROVE QueuesOK'
  <2>1. sweep + 1 \in Threads
    BY <1>0, <1>12, RuntimeAssumption DEF HandleExitWorker, FieldsOK, Threads
  <2>2. PICK m \in Message : m = Msg("WORKER_EXIT_REQ", NoService, sweep + 1) /\ m.id = "WORKER_EXIT_REQ"
    BY <2>1, ControlMsg, ThreadsType DEF Control
  <2>3. ~ForMaster(m) /\ Addressed(m)'
    BY <2>2 DEF ForMaster, Addressed
  <2>4. CASE Post(0, Msg("WORKER_EXIT_REQ", NoService, sweep + 1))
    <3>1. RxOK' /\ TxmsOK' /\ TxmqOK'
      BY <1>0, <2>2, <2>3, <2>4, PostOK, ThreadsType
    <3> QED BY <1>0, <1>12, <3>1, QueueStays DEF HandleExitWorker, QueuesOK
  <2>5. CASE UNCHANGED <<rx, txms, txmq>>
    BY <1>0, <1>12, <2>5, QueueStays DEF HandleExitWorker, QueuesOK
  <2> QED BY <1>12, <2>4, <2>5 DEF HandleExitWorker
<1>13. ASSUME HandleExitDone PROVE QueuesOK'
  <2>1. PICK m \in Message : m = Msg("WORKER_EXIT_RSP", NoService, 0) /\ m.id = "WORKER_EXIT_RSP"
    BY ControlMsg, ThreadsType DEF Control
  <2>2. ForMaster(m) /\ HandledBy(0, m)'
    BY <2>1 DEF ForMaster, HandledBy, RunsService, ForService
  <2>3. BatchOK'
    BY <1>0, <1>13, ConsumeOK, ThreadsType DEF HandleExitDone, Handling
  <2>4. CASE Post(0, Msg("WORKER_EXIT_RSP", NoService, 0))
    <3>1. RxOK' /\ TxmsOK' /\ TxmqOK'
      BY <1>0, <2>1, <2>2, <2>4, PostOK, ThreadsType
    <3> QED BY <1>0, <1>13, <2>3, <3>1, QueueStays DEF HandleExitDone, QueuesOK
  <2>5. CASE UNCHANGED <<rx, txms, txmq>>
    BY <1>0, <1>13, <2>3, <2>5, QueueStays DEF HandleExitDone, QueuesOK
  <2> QED BY <1>13, <2>4, <2>5 DEF HandleExitDone
<1>14. ASSUME HandleWorkerExitRsp PROVE QueuesOK'
  <2>1. BatchOK'
    BY <1>0, <1>14, ConsumeOK, ThreadsType DEF HandleWorkerExitRsp, Handling
  <2> QED BY <1>0, <1>14, <2>1, QueueStays DEF HandleWorkerExitRsp, queues, QueuesOK
<1>15. ASSUME MasterTake PROVE QueuesOK'
  <2>0. 0 \in Threads
    BY ThreadsType
  <2>1. /\ batch' = [batch EXCEPT ![0] = rx[0] \o txms[0]]
        /\ rx' = [rx EXCEPT ![0] = <<>>] /\ txms' = [txms EXCEPT ![0] = <<>>]
        /\ UNCHANGED <<txmq, msgRxq, route, out>>
    BY <1>15 DEF MasterTake
  <2>2. BatchOK'
    <3>1. /\ rx[0] \o txms[0] \in Seq(Message)
          /\ \A x \in Elements(rx[0] \o txms[0]) :
               x \in Elements(rx[0]) \/ x \in Elements(txms[0])
      BY <1>0, <2>0, ElementsConcat DEF RxOK, TxmsOK
    <3>2. batch' \in [Threads -> Seq(Message)]
      BY <1>0, <2>1, <3>1 DEF BatchOK
    <3>3. ASSUME NEW u \in Threads, NEW x \in Elements(batch'[u]) PROVE HandledBy(u, x)'
      <4>1. \/ x \in Elements(batch[u])
            \/ u = 0 /\ (x \in Elements(rx[0]) \/ x \in Elements(txms[0]))
        BY <1>0, <2>1, <3>1, <3>3 DEF BatchOK
      <4>2. x \in Message /\ HandledBy(u, x)
        BY <1>0, <1>e, <2>0, <4>1 DEF RxOK, TxmsOK, BatchOK
      <4> QED BY <1>0, <4>2, HandledStays
    <3> QED BY <3>2, <3>3 DEF BatchOK
  <2>3. RxOK'
    <3>1. rx' \in [Threads -> Seq(Message)]
      BY <1>0, <2>1, ElementsEmpty DEF RxOK
    <3>2. ASSUME NEW u \in Threads, NEW x \in Elements(rx'[u]) PROVE HandledBy(u, x)'
      <4>1. x \in Elements(rx[u]) /\ x \in Message
        BY <1>0, <1>e, <2>1, <3>2, ElementsEmpty DEF RxOK
      <4> QED BY <1>0, <4>1, HandledStays DEF RxOK
    <3> QED BY <3>1, <3>2 DEF RxOK
  <2>4. TxmsOK'
    <3>1. txms' \in [Threads -> Seq(Message)]
      BY <1>0, <2>1, ElementsEmpty DEF TxmsOK
    <3>2. ASSUME NEW u \in Threads, NEW x \in Elements(txms'[u]) PROVE HandledBy(0, x)'
      <4>1. x \in Elements(txms[u]) /\ x \in Message
        BY <1>0, <1>e, <2>1, <3>2, ElementsEmpty DEF TxmsOK
      <4> QED BY <1>0, <2>0, <4>1, HandledStays DEF TxmsOK
    <3> QED BY <3>1, <3>2 DEF TxmsOK
  <2> QED BY <1>0, <2>1, <2>2, <2>3, <2>4, QueueStays DEF QueuesOK
<1>16. ASSUME MasterGet PROVE QueuesOK'
  <2>0. 0 \in Threads
    BY ThreadsType
  <2>1. /\ route' = msgRxq \o txmq[0] /\ msgRxq' = <<>>
        /\ txmq' = [txmq EXCEPT ![0] = <<>>]
        /\ UNCHANGED <<rx, txms, out, batch>>
    BY <1>16 DEF MasterGet
  <2>2. RouteOK'
    <3>1. /\ route' \in Seq(Message)
          /\ \A x \in Elements(route') : x \in Elements(msgRxq) \/ x \in Elements(txmq[0])
      BY <1>0, <2>0, <2>1, ElementsConcat DEF MsgRxqOK, TxmqOK
    <3>2. \A x \in Elements(route') : x \in Message /\ Addressed(x)
      BY <1>0, <1>e, <2>0, <3>1 DEF MsgRxqOK, TxmqOK
    <3> QED BY <1>0, <3>1, <3>2, AddressedStays DEF RouteOK
  <2>3. MsgRxqOK'
    BY <2>1, ElementsEmpty DEF MsgRxqOK
  <2>4. TxmqOK'
    <3>1. txmq' \in [Threads -> Seq(Message)]
      BY <1>0, <2>1, ElementsEmpty DEF TxmqOK
    <3>2. ASSUME NEW u \in Threads, NEW x \in Elements(txmq'[u]) PROVE Addressed(x)'
      <4>1. x \in Elements(txmq[u]) /\ x \in Message
        BY <1>0, <1>e, <2>1, <3>2, ElementsEmpty DEF TxmqOK
      <4> QED BY <1>0, <4>1, AddressedStays DEF TxmqOK
    <3> QED BY <3>1, <3>2 DEF TxmqOK
  <2> QED BY <1>0, <2>1, <2>2, <2>3, <2>4, QueueStays DEF QueuesOK
<1>17. ASSUME MasterRoute PROVE QueuesOK'
  <2>0. /\ 0 \in Threads /\ route # <<>> /\ route' = Tail(route)
        /\ UNCHANGED <<rx, txmq, msgRxq, batch>>
    BY <1>17, ThreadsType DEF MasterRoute
  <2> DEFINE h == Head(route)
  <2>1. /\ h \in Message /\ Addressed(h) /\ route' \in Seq(Message)
        /\ \A x \in Elements(route') : x \in Elements(route)
    BY <1>0, <2>0, ElementsTail DEF RouteOK
  <2>2. RouteOK'
    BY <1>0, <1>e, <2>1, AddressedStays DEF RouteOK
  <2>3. PICK m \in Message :
          /\ m = [h EXCEPT !.ptr = TRUE]
          /\ m.id = h.id /\ m.svc = h.svc /\ m.tidx = h.tidx
    <3>1. [h EXCEPT !.ptr = TRUE] \in Envelope
      BY <2>1 DEF Message, Envelope
    <3>2. /\ [h EXCEPT !.ptr = TRUE].id = h.id /\ [h EXCEPT !.ptr = TRUE].svc = h.svc
          /\ [h EXCEPT !.ptr = TRUE].tidx = h.tidx
      BY <2>1 DEF Message, Envelope
    <3> QED BY <2>1, <3>1, <3>2 DEF Message
  <2>4. CASE Dropped(m)
    BY <1>0, <1>17, <2>0, <2>2, <2>3, <2>4, QueueStays DEF MasterRoute, QueuesOK
  <2>5. CASE ~Dropped(m)
    <3> DEFINE t == Target(m)
    <3>1. /\ m.id # "START_REQ" /\ m.tidx \in Threads
          /\ RunsService(m) => m.id = "CLOSE_RSP" \/ ForService(m)
      BY <2>1, <2>3 DEF Addressed, ForMaster, RunsService, Message, Envelope
    <3>2. m.id = "CLOSE_RSP" => thread[m.svc] = t
      <4>1. ASSUME m.id = "CLOSE_RSP" PROVE thread[m.svc] = m.tidx /\ t = m.tidx
        BY <1>0, <2>1, <2>3, <2>5, <4>1 DEF Addressed, Dropped, ForWorker, Target
      <4> QED BY <4>1
    <3>3. ForService(m) => thread[m.svc] = t
      BY DEF ForService, Target, ForWorker
    <3>4. RunsService(m) => thread[m.svc] = t
      BY <3>1, <3>2, <3>3
    <3>5. HandledBy(t, m)
      BY <3>1, <3>4 DEF HandledBy
    <3>6. CASE t = 0
      <4>1. txms' = [txms EXCEPT ![0] = Append(txms[0], m)] /\ UNCHANGED out
        BY <1>17, <2>3, <2>5, <3>6 DEF MasterRoute
      <4>2. /\ Append(txms[0], m) \in Seq(Message)
            /\ \A x \in Elements(Append(txms[0], m)) : x \in Elements(txms[0]) \/ x = m
        BY <1>0, <2>0, ElementsAppend DEF TxmsOK
      <4>3. ASSUME NEW u \in Threads, NEW x \in Elements(txms'[u]) PROVE HandledBy(0, x)'
        <5>1. x \in Elements(txms[u]) \/ x = m
          BY <1>0, <2>0, <4>1, <4>2, <4>3 DEF TxmsOK
        <5>2. x \in Message /\ HandledBy(0, x)
          BY <1>0, <1>e, <3>5, <3>6, <5>1 DEF TxmsOK
        <5> QED BY <1>0, <2>0, <5>2, HandledStays
      <4>4. txms' \in [Threads -> Seq(Message)]
        BY <1>0, <4>1, <4>2 DEF TxmsOK
      <4>5. TxmsOK'
        BY <4>3, <4>4 DEF TxmsOK
      <4> QED BY <1>0, <2>0, <2>2, <4>1, <4>5, QueueStays DEF QueuesOK
    <3>7. CASE t # 0 /\ ~alive[t]
      <4>1. UNCHANGED <<txms, out>>
        BY <1>17, <2>3, <2>5, <3>7 DEF MasterRoute
      <4> QED BY <1>0, <2>0, <2>2, <4>1, QueueStays DEF QueuesOK
    <3>8. CASE t # 0 /\ alive[t]
      <4>1. out' = [out EXCEPT ![t] = Append(out[t], m)] /\ UNCHANGED txms
        BY <1>17, <2>3, <2>5, <3>8 DEF MasterRoute
      <4>2. ASSUME NEW u \in Workers
            PROVE  /\ out'[u] \in Seq(Message)
                   /\ \A x \in Elements(out'[u]) : HandledBy(u, x)'
        <5>1. CASE u = t
          <6>1. /\ Append(out[u], m) \in Seq(Message)
                /\ \A x \in Elements(Append(out[u], m)) : x \in Elements(out[u]) \/ x = m
            BY <1>0, ElementsAppend DEF OutOK
          <6>2. out'[u] = Append(out[u], m)
            BY <1>0, <4>1, <5>1 DEF OutOK
          <6>3. \A x \in Elements(out'[u]) : x \in Message /\ HandledBy(u, x)
            BY <1>0, <1>e, <3>5, <5>1, <6>1, <6>2 DEF OutOK
          <6> QED BY <1>0, <6>1, <6>2, <6>3, HandledStays, ThreadsType
        <5>2. CASE u # t
          <6>1. out'[u] = out[u] /\ out[u] \in Seq(Message)
            BY <1>0, <4>1, <5>2 DEF OutOK
          <6>2. \A x \in Elements(out[u]) : x \in Message /\ HandledBy(u, x)
            BY <1>0, <1>e, <6>1 DEF OutOK
          <6> QED BY <1>0, <6>1, <6>2, HandledStays, ThreadsType
        <5> QED BY <5>1, <5>2
      <4>3. out' \in [Workers -> Seq(Message)]
        BY <1>0, <4>1, <4>2 DEF OutOK
      <4>4. OutOK'
        BY <4>2, <4>3 DEF OutOK
      <4> QED BY <1>0, <2>0, <2>2, <4>1, <4>4, QueueStays DEF QueuesOK
    <3> QED BY <3>6, <3>7, <3>8
  <2> QED BY <2>4, <2>5
<1>18. ASSUME NEW w \in Workers, MasterDeliver(w) PROVE QueuesOK'
  <2>1. /\ out' = [out EXCEPT ![w] = <<>>]
        /\ \/ rx' = [rx EXCEPT ![w] = rx[w] \o out[w]]
           \/ rx' = rx
        /\ UNCHANGED <<txms, txmq, msgRxq, route, batch>>
    BY <1>18 DEF MasterDeliver
  <2>2. RxOK'
    <3>0. w \in Threads
      BY ThreadsType
    <3>1. /\ rx[w] \o out[w] \in Seq(Message)
          /\ \A x \in Elements(rx[w] \o out[w]) :
               x \in Elements(rx[w]) \/ x \in Elements(out[w])
      BY <1>0, <3>0, ElementsConcat DEF RxOK, OutOK
    <3>2. rx' \in [Threads -> Seq(Message)]
      BY <1>0, <2>1, <3>1 DEF RxOK
    <3>3. ASSUME NEW u \in Threads, NEW x \in Elements(rx'[u]) PROVE HandledBy(u, x)'
      <4>1. x \in Elements(rx[u]) \/ (u = w /\ x \in Elements(out[w]))
        BY <1>0, <2>1, <3>1, <3>3 DEF RxOK
      <4>2. x \in Message /\ HandledBy(u, x)
        BY <1>0, <1>e, <4>1 DEF RxOK, OutOK
      <4> QED BY <1>0, <4>2, HandledStays
    <3> QED BY <3>2, <3>3 DEF RxOK
  <2>3. OutOK'
    <3>1. out' \in [Workers -> Seq(Message)]
      BY <1>0, <2>1, ElementsEmpty DEF OutOK
    <3>2. ASSUME NEW u \in Workers, NEW x \in Elements(out'[u]) PROVE HandledBy(u, x)'
      <4>1. x \in Elements(out[u]) /\ x \in Message
        BY <1>0, <1>e, <2>1, <3>2, ElementsEmpty DEF OutOK
      <4> QED BY <1>0, <4>1, HandledStays, ThreadsType DEF OutOK
    <3> QED BY <3>1, <3>2 DEF OutOK
  <2> QED BY <1>0, <2>1, <2>2, <2>3, QueueStays DEF QueuesOK
<1>19. ASSUME MasterWait \/ MasterRouted \/ MasterDelivered \/ MasterJoin PROVE QueuesOK'
  <2>1. UNCHANGED <<queues, master, batch>>
    BY <1>19 DEF MasterWait, MasterRouted, MasterDelivered, MasterJoin
  <2> QED BY <1>0, <2>1, QueueStays DEF queues, master, QueuesOK
<1>20. ASSUME NEW w \in Workers, WorkerStep(w) PROVE QueuesOK'
  BY <1>1, <1>2, <1>3, <1>4, <1>5, <1>6, <1>7, <1>20, ThreadsType DEF WorkerStep
<1>21. ASSUME MasterHandle PROVE QueuesOK'
  BY <1>1, <1>2, <1>3, <1>8, <1>10, <1>11, <1>12, <1>13, <1>14, <1>21, ThreadsType
     DEF MasterHandle
<1> QED
  BY <1>15, <1>16, <1>17, <1>18, <1>19, <1>20, <1>21 DEF Next, MasterStep

LEMMA StepFields ==
    ASSUME Inv, Next
    PROVE  FieldsOK'
<1>0. FieldsOK /\ HostsOK /\ BatchOK
  BY InvParts DEF QueuesOK
<1>1. ASSUME UNCHANGED <<sweep, exitedWorkers, alive, threadExit, weight, closing,
                         stoprx, sends, exits>>
      PROVE  FieldsOK'
  BY <1>0, <1>1 DEF FieldsOK
<1>2. ASSUME NEW t \in Threads, Entry(t) PROVE FieldsOK'
  <2>1. ASSUME NEW s \in Services, NEW on \in Hosts \union {NoThread},
               StartService(t, s, on)
        PROVE  FieldsOK'
    <3>1. closing' \in [Services -> BOOLEAN] /\ stoprx' \in [Services -> BOOLEAN]
      BY <1>0, <2>1 DEF StartService, NewFlags, FieldsOK
    <3> QED BY <1>0, <2>1, <3>1 DEF StartService, FieldsOK, master, bounds
  <2>2. ASSUME NEW d \in Services, NEW full \in BOOLEAN, SendUser(t, d, full)
        PROVE  FieldsOK'
    <3>1. sends' \in 0..MaxSends
      BY <1>0, <2>2, RuntimeAssumption DEF SendUser, FieldsOK
    <3> QED BY <1>0, <2>2, <3>1 DEF SendUser, FieldsOK, master, services
  <2>3. ASSUME CloseSelf(t) PROVE FieldsOK'
    <3>1. closing' \in [Services -> BOOLEAN]
      BY <1>0, <2>3 DEF CloseSelf, FieldsOK
    <3> QED BY <1>0, <2>3, <3>1 DEF CloseSelf, FieldsOK, master, bounds
  <2>4. ASSUME MasterExit(t) PROVE FieldsOK'
    <3>1. exits' \in 0..MaxExits
      BY <1>0, <2>4, RuntimeAssumption DEF MasterExit, FieldsOK
    <3> QED BY <1>0, <2>4, <3>1 DEF MasterExit, FieldsOK, master, services
  <2>5. ASSUME EntryReturn(t) PROVE FieldsOK'
    <3>1. stoprx' \in [Services -> BOOLEAN]
      BY <1>0, <2>5 DEF EntryReturn, FieldsOK
    <3> QED BY <1>0, <2>5, <3>1 DEF EntryReturn, FieldsOK, master, bounds
  <2>6. ASSUME LastReturn(t) PROVE FieldsOK'
    BY <1>1, <2>6 DEF LastReturn, master, bounds
  <2> QED BY <1>2, <2>1, <2>2, <2>3, <2>4, <2>5, <2>6 DEF Entry
<1>3. ASSUME NEW t \in Threads, HandleServiceMsg(t) \/ HandleCloseRsp(t)
      PROVE  FieldsOK'
  BY <1>1, <1>3 DEF HandleServiceMsg, HandleCloseRsp, master, bounds
<1>4. ASSUME NEW w \in Workers, WorkerStep(w) PROVE FieldsOK'
  <2>1. CASE HandleWorkerExitReq(w)
    <3>1. threadExit' \in [Workers -> BOOLEAN]
      BY <1>0, <2>1 DEF HandleWorkerExitReq, FieldsOK
    <3> QED BY <1>0, <2>1, <3>1 DEF HandleWorkerExitReq, FieldsOK, master, services, bounds
  <2>2. CASE WorkerTake(w) \/ WorkerFlushToMaster(w) \/ WorkerFlushToServices(w)
    BY <1>1, <2>2 DEF WorkerTake, WorkerFlushToMaster, WorkerFlushToServices,
       master, services, bounds
  <2> QED BY <1>2, <1>3, <1>4, <2>1, <2>2, ThreadsType DEF WorkerStep
<1>5. ASSUME NEW t \in Threads, NEW d \in Int, Reweigh(t, d)
      PROVE  weight' \in [Workers -> Int]
  <2>1. CASE t = 0
    BY <1>0, <1>5, <2>1 DEF Reweigh, FieldsOK
  <2>2. CASE t # 0
    <3>1. t \in Workers
      BY <2>2, RuntimeAssumption DEF Threads, Workers
    <3>2. weight' = [weight EXCEPT ![t] = weight[t] + d] /\ weight[t] + d \in Int
      BY <1>0, <1>5, <2>2, <3>1 DEF Reweigh, FieldsOK
    <3> QED BY <1>0, <3>2 DEF FieldsOK
  <2> QED BY <2>1, <2>2
<1>6. ASSUME MasterHandle PROVE FieldsOK'
  <2>1. CASE HandleStartReq
    <3>1. weight' \in [Workers -> Int]
      BY <1>5, <2>1 DEF HandleStartReq
    <3> QED BY <1>0, <2>1, <3>1 DEF HandleStartReq, FieldsOK, bounds
  <2>2. ASSUME NEW s \in table, Remove(s) PROVE weight' \in [Workers -> Int]
    <3>1. thread[s] \in Threads
      BY <1>0 DEF HostsOK
    <3> QED BY <1>5, <2>2, <3>1 DEF Remove
  <2>3. CASE HandleCloseReq
    <3>1. weight' \in [Workers -> Int]
      BY <1>0, <2>2, <2>3 DEF HandleCloseReq, Found, FieldsOK
    <3> QED BY <1>0, <2>3, <3>1 DEF HandleCloseReq, FieldsOK, services, bounds
  <2>4. ASSUME NEW s \in Services, HandleExitService(s) PROVE FieldsOK'
    <3>1. weight' \in [Workers -> Int]
      BY <2>2, <2>4 DEF HandleExitService
    <3> QED BY <1>0, <2>4, <3>1 DEF HandleExitService, FieldsOK, services, bounds
  <2>5. CASE HandleExitWorker
    <3>1. sweep' \in 0..NumWorkers
      BY <1>0, <2>5, RuntimeAssumption DEF HandleExitWorker, FieldsOK
    <3> QED BY <1>0, <2>5, <3>1 DEF HandleExitWorker, FieldsOK, services, bounds
  <2>6. CASE HandleExitDone
    <3>1. sweep' \in 0..NumWorkers
      BY <1>0, <2>6, RuntimeAssumption DEF HandleExitDone, FieldsOK
    <3> QED BY <1>0, <2>6, <3>1 DEF HandleExitDone, FieldsOK, services, bounds
  <2>7. CASE HandleWorkerExitRsp
    <3> DEFINE w == Head(batch[0]).tidx
    <3>1. \/ alive' = [alive EXCEPT ![w] = FALSE] /\ exitedWorkers' = exitedWorkers + 1
          \/ UNCHANGED <<alive, exitedWorkers>>
      BY <2>7 DEF HandleWorkerExitRsp
    <3>2. alive \in [Workers -> BOOLEAN] /\ exitedWorkers \in Nat
      BY <1>0 DEF FieldsOK
    <3> HIDE DEF w
    <3>3. alive' \in [Workers -> BOOLEAN]
      <4>1. [alive EXCEPT ![w] = FALSE] \in [Workers -> BOOLEAN]
        BY <3>2, Zenon
      <4> QED BY <3>1, <3>2, <4>1, Zenon
    <3>4. exitedWorkers' \in Nat
      BY <3>1, <3>2
    <3> QED BY <1>0, <2>7, <3>3, <3>4 DEF HandleWorkerExitRsp, FieldsOK, services, bounds
  <2> QED BY <1>2, <1>3, <1>6, <2>1, <2>3, <2>4, <2>5, <2>6, <2>7, ThreadsType
          DEF MasterHandle
<1>7. ASSUME MasterStep, ~MasterHandle PROVE FieldsOK'
  <2>1. CASE MasterTake
    BY <1>0, <2>1 DEF MasterTake, FieldsOK, services, bounds
  <2>2. CASE ~MasterTake
    BY <1>1, <1>7, <2>2 DEF MasterStep, MasterWait, MasterGet, MasterRoute,
       MasterRouted, MasterDeliver, MasterDelivered, MasterJoin, services, bounds, master
  <2> QED BY <2>1, <2>2
<1> QED BY <1>4, <1>6, <1>7 DEF Next

LEMMA StepLog ==
    ASSUME Inv, Next
    PROVE  LogOK'
<1> DEFINE Line == [id: MsgIds, src: Services \union {NoService}, n: 0..MaxSends]
<1>0. LogOK /\ BatchOK
  BY InvParts DEF QueuesOK
<1>1. ASSUME log' = log PROVE LogOK'
  BY <1>0, <1>1 DEF LogOK
<1>2. ASSUME NEW t \in Threads, batch[t] # <<>>, NEW s,
             log' = [log EXCEPT ![s] = Append(@, LogEntry(Head(batch[t])))]
      PROVE  LogOK'
  <2>1. Head(batch[t]) \in Message
    BY <1>0, <1>2, HeadOK
  <2>2. LogEntry(Head(batch[t])) \in Line
    BY <2>1 DEF LogEntry, Message, Envelope
  <2>3. log \in [Services -> Seq(Line)]
    BY <1>0 DEF LogOK
  <2>4. \A q \in Seq(Line) : Append(q, LogEntry(Head(batch[t]))) \in Seq(Line)
    BY <2>2, AppendProperties
  <2> HIDE DEF Line
  <2>5. log' \in [Services -> Seq(Line)]
    BY <1>2, <2>3, <2>4
  <2> QED BY <2>5 DEF LogOK, Line
<1>3. ASSUME NEW t \in Threads, HandleServiceMsg(t) PROVE LogOK'
  BY <1>1, <1>2, <1>3 DEF HandleServiceMsg
<1>4. ASSUME NEW t \in Threads, HandleCloseRsp(t) PROVE LogOK'
  BY <1>1, <1>2, <1>4 DEF HandleCloseRsp, Handling
<1>5. ASSUME NEW t \in Threads, Entry(t) PROVE log' = log
  BY <1>5 DEF Entry, StartService, SendUser, CloseSelf, MasterExit, EntryReturn,
     LastReturn, services
<1>6. ASSUME NEW w \in Workers, WorkerStep(w) PROVE LogOK'
  <2>1. CASE Entry(w)
    BY <1>1, <1>5, <2>1, ThreadsType
  <2>2. CASE HandleWorkerExitReq(w) \/ WorkerTake(w) \/ WorkerFlushToMaster(w)
               \/ WorkerFlushToServices(w)
    BY <1>1, <2>2 DEF HandleWorkerExitReq, WorkerTake, WorkerFlushToMaster,
       WorkerFlushToServices, services
  <2> QED BY <1>3, <1>4, <1>6, <2>1, <2>2, ThreadsType DEF WorkerStep
<1>7. ASSUME MasterStep PROVE LogOK'
  <2>1. CASE Entry(0)
    BY <1>1, <1>5, <2>1, ThreadsType
  <2>2. CASE HandleServiceMsg(0) \/ HandleCloseRsp(0)
    BY <1>3, <1>4, <2>2, ThreadsType
  <2>3. CASE MasterHandle /\ ~Entry(0) /\ ~HandleServiceMsg(0) /\ ~HandleCloseRsp(0)
    BY <1>1, <2>3 DEF MasterHandle, HandleStartReq, HandleCloseReq,
       HandleExitService, HandleExitWorker, HandleExitDone, HandleWorkerExitRsp, services
  <2>4. CASE ~MasterHandle
    BY <1>1, <1>7, <2>4 DEF MasterStep, MasterWait, MasterTake, MasterGet,
       MasterRoute, MasterRouted, MasterDeliver, MasterDelivered, MasterJoin, services
  <2> QED BY <2>1, <2>2, <2>3, <2>4
<1> QED BY <1>6, <1>7 DEF Next

LEMMA StepFlags ==
    ASSUME Inv, Next
    PROVE  FlagsOK'
<1>0. notified \in BOOLEAN /\ crashed \in BOOLEAN
  BY InvParts DEF FlagsOK
<1>1. notified' = notified => notified' \in BOOLEAN
  BY <1>0, Zenon
<1>2. crashed' = crashed => crashed' \in BOOLEAN
  BY <1>0, Zenon
<1>3. ASSUME NEW t \in Threads, Entry(t) PROVE notified' = notified /\ crashed' = crashed
  BY <1>3, Zenon DEF Entry, StartService, SendUser, CloseSelf, MasterExit,
     EntryReturn, LastReturn
<1>4. ASSUME NEW t \in Threads, HandleServiceMsg(t)
      PROVE  notified' = notified /\ crashed' \in BOOLEAN
  BY <1>4, Zenon DEF HandleServiceMsg
<1>5. ASSUME NEW t \in Threads, HandleCloseRsp(t)
      PROVE  notified' = notified /\ crashed' = crashed
  BY <1>5, Zenon DEF HandleCloseRsp
<1>6. ASSUME NEW w \in Workers, WorkerFlushToServices(w)
      PROVE  notified' \in BOOLEAN /\ crashed' = crashed
  BY <1>6, Zenon DEF WorkerFlushToServices
<1>7. ASSUME NEW w \in Workers,
             WorkerTake(w) \/ HandleWorkerExitReq(w) \/ WorkerFlushToMaster(w)
      PROVE  notified' = notified /\ crashed' = crashed
  BY <1>7, Zenon DEF WorkerTake, HandleWorkerExitReq, WorkerFlushToMaster
<1>8. ASSUME HandleStartReq \/ HandleCloseReq \/ (\E s \in Services : HandleExitService(s))
             \/ HandleExitWorker \/ HandleExitDone \/ HandleWorkerExitRsp
      PROVE  notified' = notified /\ crashed' = crashed
  BY <1>8, Zenon DEF HandleStartReq, HandleCloseReq, HandleExitService,
     HandleExitWorker, HandleExitDone, HandleWorkerExitRsp
<1>9. CASE MasterWait
  <2>1. (notified' = FALSE \/ notified' = notified) /\ crashed' = crashed
    BY <1>9, Zenon DEF MasterWait
  <2> QED BY <1>0, <2>1, Zenon DEF FlagsOK
<1>10. CASE MasterRoute
  <2>1. notified' = notified /\ (crashed' = crashed \/ crashed' \in BOOLEAN)
    BY <1>10, Zenon DEF MasterRoute
  <2> QED BY <1>1, <1>2, <2>1, Zenon DEF FlagsOK
<1>11. ASSUME MasterTake \/ MasterGet \/ MasterRouted \/ MasterDelivered \/ MasterJoin
              \/ (\E w \in Workers : MasterDeliver(w))
       PROVE  notified' = notified /\ crashed' = crashed
  BY <1>11, Zenon DEF MasterTake, MasterGet, MasterRouted, MasterDelivered,
     MasterJoin, MasterDeliver
<1>12. ASSUME NEW w \in Workers, WorkerStep(w) PROVE FlagsOK'
  <2>1. w \in Threads
    BY ThreadsType
  <2> QED BY <1>1, <1>2, <1>3, <1>4, <1>5, <1>6, <1>7, <1>12, <2>1, Zenon
          DEF WorkerStep, FlagsOK
<1>13. ASSUME MasterStep PROVE FlagsOK'
  <2>1. 0 \in Threads
    BY ThreadsType
  <2> QED BY <1>1, <1>2, <1>3, <1>4, <1>5, <1>8, <1>9, <1>10, <1>11, <1>13, <2>1, Zenon
          DEF MasterStep, MasterHandle, FlagsOK
<1> QED BY <1>12, <1>13, Zenon DEF Next

-----------------------------------------------------------------------------
(* The theorems.                                                           *)

LEMMA InitInv == Init => Inv
<1> SUFFICES ASSUME Init PROVE QueuesOK /\ HostsOK /\ FieldsOK /\ FlagsOK /\ LogOK
  BY InvParts
<1>1. PICK h \in Hosts :
        /\ thread = [s \in Services |-> IF s = Boot THEN h ELSE NoThread]
        /\ weight = [w \in Workers |-> IF w = h THEN 1 ELSE 0]
        /\ txmq = [u \in Threads |->
                     IF u = 0 THEN <<Msg("START_RSP", Boot, h), Msg("USER", Boot, 0)>>
                     ELSE <<>>]
  BY DEF Init
<1>2. h \in Threads
  BY <1>1, ThreadsType
<1>3. TxmqOK
  <2> DEFINE a == Msg("START_RSP", Boot, h)
             b == Msg("USER", Boot, 0)
  <2>1. a \in Message /\ b \in Message /\ a.id = "START_RSP" /\ b.id = "USER"
    BY <1>2, ThreadsType, RuntimeAssumption
       DEF Msg, Message, Envelope, MsgIds, Control
  <2>2. Addressed(a) /\ Addressed(b)
    BY <2>1 DEF Addressed, ForMaster
  <2> HIDE DEF a, b
  <2>3. <<a, b>> \in Seq(Message) /\ \A x \in Elements(<<a, b>>) : x = a \/ x = b
    BY <2>1 DEF Elements
  <2>4. \A u \in Threads : txmq[u] = IF u = 0 THEN <<a, b>> ELSE <<>>
    BY <1>1 DEF a, b
  <2>5. \A u \in Threads :
          txmq[u] \in Seq(Message) /\ \A x \in Elements(txmq[u]) : Addressed(x)
    BY <2>2, <2>3, <2>4, ElementsEmpty
  <2>6. txmq = [u \in Threads |-> txmq[u]]
    BY <1>1
  <2> QED BY <2>5, <2>6 DEF TxmqOK
<1>4. /\ \A u \in Threads : rx[u] = <<>> /\ txms[u] = <<>> /\ batch[u] = <<>>
      /\ rx = [u \in Threads |-> rx[u]] /\ txms = [u \in Threads |-> txms[u]]
      /\ batch = [u \in Threads |-> batch[u]]
      /\ \A w \in Workers : out[w] = <<>>
      /\ out = [w \in Workers |-> out[w]]
      /\ msgRxq = <<>> /\ route = <<>>
  BY DEF Init
<1>5. QueuesOK
  BY <1>3, <1>4, ElementsEmpty
     DEF QueuesOK, RxOK, BatchOK, TxmsOK, OutOK, MsgRxqOK, RouteOK
<1>6. HostsOK
  BY <1>1, <1>2, RuntimeAssumption, ThreadsType DEF Init, HostsOK, Running
<1>7. FieldsOK
  BY <1>1, RuntimeAssumption DEF Init, FieldsOK
<1>8. FlagsOK
  BY Zenon DEF Init, FlagsOK
<1>9. LogOK
  <2>1. \A s \in Services :
          log[s] \in Seq([id: MsgIds, src: Services \union {NoService}, n: 0..MaxSends])
    BY EmptySeq DEF Init
  <2>2. log = [s \in Services |-> log[s]]
    BY DEF Init
  <2> QED BY <2>1, <2>2 DEF LogOK
<1> QED BY <1>5, <1>6, <1>7, <1>8, <1>9

LEMMA StutterInv == Inv /\ UNCHANGED vars => Inv'
<1> SUFFICES ASSUME Inv, UNCHANGED vars PROVE Inv'
  OBVIOUS
<1>1. /\ UNCHANGED <<rx, txms, txmq, msgRxq, route, out, batch>>
      /\ UNCHANGED <<thread, memory, table, running, pc>>
      /\ UNCHANGED <<sweep, exitedWorkers, alive, weight, closing, stoprx, threadExit>>
      /\ UNCHANGED <<sends, exits, notified, crashed, log>>
  BY DEF vars, queues, master, services, bounds
<1>2. QueuesOK /\ HostsOK /\ FieldsOK /\ FlagsOK /\ LogOK
  BY InvParts
<1>3. Keeps
  BY <1>1 DEF Keeps
<1>4. QueuesOK'
  BY <1>1, <1>2, <1>3, QueueStays DEF QueuesOK
<1>5. HostsOK'
  BY <1>1, <1>2 DEF HostsOK, Running
<1>6. FieldsOK'
  BY <1>1, <1>2 DEF FieldsOK
<1>7. FlagsOK'
  BY <1>1, <1>2, Zenon DEF FlagsOK
<1>8. LogOK'
  BY <1>1, <1>2 DEF LogOK
<1> QED BY <1>4, <1>5, <1>6, <1>7, <1>8, InvParts, PTL

LEMMA InvStep == Inv /\ Next => Inv'
<1> SUFFICES ASSUME Inv, Next PROVE Inv'
  OBVIOUS
<1>1. QueuesOK' /\ HostsOK' /\ FieldsOK' /\ FlagsOK' /\ LogOK'
  BY StepQueues, StepHosts, StepFields, StepFlags, StepLog
<1> QED BY <1>1, InvParts, PTL

\* The invariant that attaches every service to one thread holds in every
\* state, for any number of workers and services.
THEOREM Invariance == Spec => []Inv
<1>1. Inv /\ [Next]_vars => Inv'
  BY InvStep, StutterInv
<1> QED BY <1>1, InitInv, PTL DEF Spec

\* The variables of the runtime keep their types.
THEOREM TypeCorrect == Spec => []TypeOK
<1>1. Inv => TypeOK
  BY DEF Inv
<1> QED BY <1>1, Invariance, PTL

\* No two threads ever run one service: every message that makes a thread run
\* a service reaches the thread that the master attached the service to.
THEOREM RunsOnOneThread == Spec => []SingleThreaded
<1>1. Inv => SingleThreaded
  BY DEF Inv, Attached, SingleThreaded
<1> QED BY <1>1, Invariance, PTL
=============================================================================
