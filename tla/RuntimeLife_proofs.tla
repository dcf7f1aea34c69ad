------------------------- MODULE RuntimeLife_proofs -------------------------
(***************************************************************************)
(* Proofs about module Runtime, for every set of services and every number *)
(* of workers: no pointer to a service outlives the service, the close     *)
(* message is a service's last, messages keep their order, and the weight  *)
(* of a worker is its load.                                                *)
(*                                                                         *)
(* The four rest on one invariant.  Kinds says which messages a queue may  *)
(* hold, Life where a service is between its creation and its end, and     *)
(* Chain what may come before what on the way from a sender to the entry   *)
(* of a service, through up to five queues.                                *)
(***************************************************************************)
EXTENDS Runtime_proofs, FiniteSetTheorems

\* Every message that is in some queue.
Pending ==
    {m \in Message :
       \/ \E t \in Threads : \/ m \in Elements(rx[t]) \/ m \in Elements(batch[t])
                             \/ m \in Elements(txms[t]) \/ m \in Elements(txmq[t])
       \/ \E w \in Workers : m \in Elements(out[w])
       \/ m \in Elements(msgRxq) \/ m \in Elements(route)}

\* The messages that the master has not yet taken, and not yet routed.
Untaken == {m \in Message : \E t \in Threads : m \in Elements(txmq[t])}

Unrouted == Elements(route) \union Elements(msgRxq) \union Untaken

\* A step that adds no messages but those of N.
Brings(N) ==
    /\ Pending' \subseteq Pending \union N
    /\ Unrouted' \subseteq Unrouted \union N

-----------------------------------------------------------------------------
(* The parts of the invariant.                                             *)

\* The messages to the master stay in the queues to the master, the others
\* are routed once, and only to the thread of their service.
RxKind(t, m) == t = 0 <=> ForMaster(m)

BatchKind(t, m) == t # 0 => ~ForMaster(m)

TxmsKind(t, m) == t # 0 => ForMaster(m)

\* What services send is in the txmq of the thread they run on.
TxmqKind(t, m) ==
    /\ ~m.ptr
    /\ t # 0 => m.id = "USER"
    /\ m.id = "USER" => IF m.src \in Services THEN thread[m.src] = t ELSE t = 0

Kinds ==
    /\ \A t \in Threads :
         /\ \A m \in Elements(rx[t]) : RxKind(t, m)
         /\ \A m \in Elements(batch[t]) : BatchKind(t, m)
         /\ \A m \in Elements(txms[t]) : TxmsKind(t, m)
         /\ \A m \in Elements(txmq[t]) : TxmqKind(t, m)
    /\ \A w \in Workers : \A m \in Elements(out[w]) : ~ForMaster(m)
    /\ \A m \in Elements(msgRxq) : ~m.ptr
    /\ \A m \in Elements(route) : ~m.ptr

\* A service is started by one message, is then in the table, and is closed by
\* one message; all the while its memory is in use.  Nothing that makes a
\* thread run it is on its way before or after.
LifeOfMessages ==
    /\ \A m \in Pending :
         /\ HoldsPointer(m) => memory[m.svc] = "used"
         /\ m.id \in {"START_REQ", "CLOSE_RSP"} => m.svc \notin table
         /\ m.n <= sends
    /\ \A x, y \in Pending :
         x.id = "START_REQ" /\ RunsService(y) => x.svc # y.svc

LifeOfServices ==
    /\ \A t \in Threads : Running(t) =>
         /\ memory[running[t]] = "used"
         /\ \A m \in Pending : m.id = "START_REQ" => m.svc # running[t]
    /\ \A t \in Threads : pc[t] = "last" =>
         /\ running[t] \notin table
         /\ \A m \in Pending : RunsService(m) => m.svc # running[t]
    /\ \A s \in table : memory[s] = "used"

\* The history of a service that was given its last message, and of those it
\* was given before.
LifeOfLog ==
    /\ \A s \in Services : \A i \in DOMAIN log[s] :
         /\ log[s][i].id = "CLOSE_RSP" =>
              /\ i = Len(log[s])
              /\ \/ memory[s] \in {"freed", "reused"}
                 \/ \E t \in Threads : pc[t] = "last" /\ running[t] = s
         /\ log[s][i].n <= sends
         /\ \A m \in Pending : m.ptr \/ m \in Unrouted =>
              (log[s][i].id = "USER" /\ m.id = "USER" /\ m.svc = s
                 /\ m.src = log[s][i].src => log[s][i].n < m.n)

\* What x says of a message y that is behind it: a service is started once, is
\* run by nothing after its close message, and two messages that one service
\* sent it are in the order of their numbers.
Ahead(x, y) ==
    x.svc = y.svc =>
      /\ ~(x.id = "START_REQ" /\ y.id = "START_REQ")
      /\ ~(x.id = "CLOSE_RSP" /\ RunsService(y))
      /\ x.id = "USER" /\ y.id = "USER" /\ x.ptr /\ x.src = y.src => x.n < y.n

\* A message as the master routes it.
Routed(m) == [m EXCEPT !.ptr = TRUE]

InOrder(q) == \A i, j \in DOMAIN q : i < j => Ahead(q[i], q[j])

InOrderUnrouted(q) == \A i, j \in DOMAIN q : i < j => Ahead(Routed(q[i]), q[j])

Before(A, B) == \A x \in A : \A y \in B : Ahead(x, y)

BeforeUnrouted(A, B) == \A x \in A : \A y \in B : Ahead(Routed(x), y)

\* The order within the queues...
ChainWithin ==
    /\ \A t \in Threads :
         /\ InOrder(batch[t]) /\ InOrder(rx[t]) /\ InOrder(txms[t])
         /\ InOrderUnrouted(txmq[t])
    /\ \A w \in Workers : InOrder(out[w])
    /\ InOrderUnrouted(route) /\ InOrderUnrouted(msgRxq)

\* ... between those that the master has not routed, ...
ChainUnrouted ==
    /\ BeforeUnrouted(Elements(route), Elements(msgRxq) \union Untaken)
    /\ BeforeUnrouted(Elements(msgRxq), Untaken)

\* ... on the way to thread t, ...
ChainTo(t) ==
    /\ Before(Elements(batch[t]), Elements(rx[t]))
    /\ Before(Elements(batch[t]), Unrouted)
    /\ Before(Elements(rx[t]), Unrouted)
    /\ Before(Elements(txms[t]), Unrouted)

\* ... to worker w, ...
ChainToWorker(w) ==
    /\ Before(Elements(batch[w]), Elements(out[w]))
    /\ Before(Elements(rx[w]), Elements(out[w]))
    /\ Before(Elements(out[w]), Unrouted)

\* ... and from thread t to the master.
ChainToMaster(t) ==
    /\ Before(Elements(batch[0]), Elements(txms[t]))
    /\ Before(Elements(rx[0]), Elements(txms[t]))
    /\ \A u \in Threads : t # u => Before(Elements(txms[t]), Elements(txms[u]))

ChainBetween ==
    /\ ChainUnrouted
    /\ \A t \in Threads : ChainTo(t) /\ ChainToMaster(t)
    /\ \A w \in Workers : ChainToWorker(w)

Life == LifeOfMessages /\ LifeOfServices /\ LifeOfLog

Chain == ChainWithin /\ ChainBetween

FlowInv == Inv /\ Kinds /\ Life /\ Chain /\ SenderOrder /\ WeightIsLoad

-----------------------------------------------------------------------------
(* The order in a queue after the operations on it.                        *)

LEMMA OrderAppend ==
    ASSUME NEW q \in Seq(Message), NEW m \in Message
    PROVE  /\ InOrder(q) /\ Before(Elements(q), {m}) => InOrder(Append(q, m))
           /\ InOrderUnrouted(q) /\ BeforeUnrouted(Elements(q), {m})
                => InOrderUnrouted(Append(q, m))
<1> DEFINE r == Append(q, m)
<1>1. /\ DOMAIN r = 1..(Len(q) + 1) /\ DOMAIN q = 1..Len(q) /\ Len(q) \in Nat
      /\ \A i \in 1..Len(q) : r[i] = q[i]
      /\ r[Len(q) + 1] = m
  BY AppendProperties, LenProperties
<1> HIDE DEF r
<1>2. \A i, j \in DOMAIN r : i < j =>
        /\ i \in DOMAIN q /\ r[i] = q[i] /\ r[i] \in Elements(q)
        /\ (j \in DOMAIN q /\ r[j] = q[j]) \/ r[j] = m
  BY <1>1 DEF Elements
<1>3. InOrder(q) /\ Before(Elements(q), {m}) => InOrder(r)
  BY <1>2 DEF InOrder, Before
<1>4. InOrderUnrouted(q) /\ BeforeUnrouted(Elements(q), {m}) => InOrderUnrouted(r)
  BY <1>2 DEF InOrderUnrouted, BeforeUnrouted
<1> QED BY <1>3, <1>4 DEF r

LEMMA OrderConcat ==
    ASSUME NEW q \in Seq(Message), NEW r \in Seq(Message)
    PROVE  /\ InOrder(q) /\ InOrder(r) /\ Before(Elements(q), Elements(r))
                => InOrder(q \o r)
           /\ InOrderUnrouted(q) /\ InOrderUnrouted(r)
              /\ BeforeUnrouted(Elements(q), Elements(r)) => InOrderUnrouted(q \o r)
<1> DEFINE p == q \o r
<1>1. /\ DOMAIN p = 1..(Len(q) + Len(r)) /\ DOMAIN q = 1..Len(q)
      /\ DOMAIN r = 1..Len(r) /\ Len(q) \in Nat /\ Len(r) \in Nat
      /\ \A i \in 1..(Len(q) + Len(r)) : p[i] = IF i <= Len(q) THEN q[i] ELSE r[i - Len(q)]
  BY ConcatProperties, LenProperties
<1> HIDE DEF p
<1>2. ASSUME NEW i \in DOMAIN p, NEW j \in DOMAIN p, i < j
      PROVE  \/ i \in DOMAIN q /\ j \in DOMAIN q /\ p[i] = q[i] /\ p[j] = q[j]
             \/ p[i] \in Elements(q) /\ p[j] \in Elements(r)
             \/ \E k, l \in DOMAIN r : k < l /\ p[i] = r[k] /\ p[j] = r[l]
  <2>1. CASE j <= Len(q)
    BY <1>1, <1>2, <2>1
  <2>2. CASE i <= Len(q) /\ ~(j <= Len(q))
    <3>1. i \in DOMAIN q /\ p[i] = q[i]
      BY <1>1, <1>2, <2>2
    <3>2. j - Len(q) \in DOMAIN r /\ p[j] = r[j - Len(q)]
      BY <1>1, <1>2, <2>2
    <3> QED BY <3>1, <3>2 DEF Elements
  <2>3. CASE ~(i <= Len(q))
    <3>1. /\ i - Len(q) \in DOMAIN r /\ j - Len(q) \in DOMAIN r
          /\ i - Len(q) < j - Len(q)
          /\ p[i] = r[i - Len(q)] /\ p[j] = r[j - Len(q)]
      BY <1>1, <1>2, <2>3
    <3> QED BY <3>1
  <2> QED BY <2>1, <2>2, <2>3, <1>1
<1>3. InOrder(q) /\ InOrder(r) /\ Before(Elements(q), Elements(r)) => InOrder(p)
  BY <1>2 DEF InOrder, Before
<1>4. InOrderUnrouted(q) /\ InOrderUnrouted(r) /\ BeforeUnrouted(Elements(q), Elements(r))
        => InOrderUnrouted(p)
  BY <1>2 DEF InOrderUnrouted, BeforeUnrouted
<1> QED BY <1>3, <1>4 DEF p

LEMMA OrderTail ==
    ASSUME NEW q \in Seq(Message), q # <<>>
    PROVE  /\ InOrder(q) =>
                InOrder(Tail(q)) /\ Before({Head(q)}, Elements(Tail(q)))
           /\ InOrderUnrouted(q) =>
                InOrderUnrouted(Tail(q)) /\ BeforeUnrouted({Head(q)}, Elements(Tail(q)))
<1> DEFINE r == Tail(q)
<1>1. /\ Head(q) = q[1] /\ DOMAIN r = 1..(Len(q) - 1) /\ DOMAIN q = 1..Len(q)
      /\ Len(q) \in Nat /\ Len(q) # 0
      /\ \A i \in 1..(Len(q) - 1) : r[i] = q[i + 1]
  BY HeadTailProperties, LenProperties, EmptySeq
<1> HIDE DEF r
<1>2. \A i \in DOMAIN r : i + 1 \in DOMAIN q /\ r[i] = q[i + 1] /\ 1 < i + 1
  BY <1>1
<1>3. \A i, j \in DOMAIN r : i < j => i + 1 < j + 1
  BY <1>1
<1>4. 1 \in DOMAIN q /\ \A y \in Elements(r) : \E i \in DOMAIN r : y = r[i]
  BY <1>1 DEF Elements
<1>5. InOrder(q) => InOrder(r) /\ Before({q[1]}, Elements(r))
  BY <1>2, <1>3, <1>4 DEF InOrder, Before
<1>6. InOrderUnrouted(q) => InOrderUnrouted(r) /\ BeforeUnrouted({q[1]}, Elements(r))
  BY <1>2, <1>3, <1>4 DEF InOrderUnrouted, BeforeUnrouted
<1> QED BY <1>1, <1>5, <1>6 DEF r

LEMMA OrderEmpty == InOrder(<<>>) /\ InOrderUnrouted(<<>>)
<1>1. DOMAIN <<>> = {}
  BY EmptySeq, LenProperties
<1> QED BY <1>1 DEF InOrder, InOrderUnrouted

\* Routing changes nothing but the pointer.
LEMMA RoutedMsg ==
    ASSUME NEW m \in Message
    PROVE  /\ Routed(m) \in Message /\ Routed(m).ptr
           /\ Routed(m).id = m.id /\ Routed(m).svc = m.svc /\ Routed(m).tidx = m.tidx
           /\ Routed(m).src = m.src /\ Routed(m).n = m.n
BY DEF Routed, Message, Envelope

-----------------------------------------------------------------------------
(* The queues after each operation on them.                                *)

\* Where a pending message is.
LEMMA PendingParts ==
    ASSUME QueuesOK
    PROVE  /\ Pending \subseteq Message
           /\ \A t \in Threads :
                /\ Elements(rx[t]) \subseteq Pending
                /\ Elements(batch[t]) \subseteq Pending
                /\ Elements(txms[t]) \subseteq Pending
                /\ Elements(txmq[t]) \subseteq Pending
           /\ \A w \in Workers : Elements(out[w]) \subseteq Pending
           /\ Unrouted \subseteq Pending
<1>1. \A q \in Seq(Message) : \A x \in Elements(q) : x \in Message
  BY ElementOfSeq, LenProperties DEF Elements
<1>2. \A t \in Threads :
        /\ rx[t] \in Seq(Message) /\ batch[t] \in Seq(Message)
        /\ txms[t] \in Seq(Message) /\ txmq[t] \in Seq(Message)
  BY DEF QueuesOK, RxOK, BatchOK, TxmsOK, TxmqOK
<1>3. /\ \A w \in Workers : out[w] \in Seq(Message)
      /\ msgRxq \in Seq(Message) /\ route \in Seq(Message)
  BY DEF QueuesOK, OutOK, MsgRxqOK, RouteOK
<1> QED BY <1>1, <1>2, <1>3 DEF Pending, Unrouted, Untaken

\* What is pending after a step, from what each queue holds.
LEMMA PendingFrom ==
    ASSUME NEW M,
           \A t \in Threads :
             /\ Elements(rx'[t]) \subseteq M /\ Elements(batch'[t]) \subseteq M
             /\ Elements(txms'[t]) \subseteq M /\ Elements(txmq'[t]) \subseteq M,
           \A w \in Workers : Elements(out'[w]) \subseteq M,
           Elements(msgRxq') \subseteq M, Elements(route') \subseteq M
    PROVE  Pending' \subseteq M
BY DEF Pending

\* A sender's messages stay with its thread.
LEMMA SenderStays ==
    ASSUME Keeps
    PROVE  \A t \in Threads : \A m : TxmqKind(t, m) => TxmqKind(t, m)'
<1>1. \A t \in Threads : t # NoThread
  BY RuntimeAssumption DEF Threads, NoThread
<1> QED BY <1>1 DEF Keeps, TxmqKind

\* Taking a message from a batch.
LEMMA ConsumeFlow ==
    ASSUME QueuesOK, NEW t \in Threads, batch[t] # <<>>, Consume(t)
    PROVE  /\ \A u \in Threads : Elements(batch'[u]) \subseteq Elements(batch[u])
           /\ ChainWithin => \A u \in Threads : InOrder(batch'[u])
           /\ ChainWithin => Before({Head(batch[t])}, Elements(batch'[t]))
           /\ Head(batch[t]) \in Elements(batch[t])
<1>1. batch[t] \in Seq(Message) /\ batch' = [batch EXCEPT ![t] = Tail(batch[t])]
      /\ batch \in [Threads -> Seq(Message)]
  BY DEF QueuesOK, BatchOK, Consume
<1>2. /\ \A x \in Elements(Tail(batch[t])) : x \in Elements(batch[t])
      /\ Head(batch[t]) \in Elements(batch[t])
  BY <1>1, ElementsTail
<1>3. InOrder(batch[t]) =>
        InOrder(Tail(batch[t])) /\ Before({Head(batch[t])}, Elements(Tail(batch[t])))
  BY <1>1, OrderTail
<1> QED BY <1>1, <1>2, <1>3 DEF ChainWithin

\* Sending a message, in a step that may also take one from the batch.
LEMMA PostFlow ==
    ASSUME QueuesOK, HostsOK, Keeps, Kinds, Chain,
           NEW t \in Threads, NEW m \in Message, Post(t, m),
           UNCHANGED <<msgRxq, route, out>>,
           batch' = batch \/ (batch[t] # <<>> /\ Consume(t)),
           ~m.ptr,
           t # 0 /\ ~ForMaster(m) => m.id = "USER",
           m.id = "USER" => m.src \in Services /\ thread[m.src] = t,
           \A x \in Pending : Ahead(x, m) /\ Ahead(Routed(x), m),
           t # 0 \/ ForMaster(m) => \A y \in Pending : Ahead(m, y)
    PROVE  Kinds' /\ Chain' /\ Brings({m})
<1>0. /\ rx \in [Threads -> Seq(Message)] /\ txms \in [Threads -> Seq(Message)]
      /\ txmq \in [Threads -> Seq(Message)]
      /\ 0 \in Threads /\ Workers \subseteq Threads
  BY ThreadsType DEF QueuesOK, RxOK, TxmsOK, TxmqOK
<1>1. /\ \A u \in Threads : Elements(batch'[u]) \subseteq Elements(batch[u])
      /\ \A u \in Threads : InOrder(batch'[u])
  BY ConsumeFlow DEF Chain, ChainWithin
<1>2. m.id = "USER" => ~ForMaster(m)
  BY DEF ForMaster
<1>3. CASE t # 0 /\ ~ForMaster(m) /\ m.tidx = t
  <2>1. rx' = [rx EXCEPT ![t] = Append(rx[t], m)] /\ UNCHANGED <<txms, txmq>>
    BY <1>3 DEF Post
  <2>2. /\ \A x \in Elements(Append(rx[t], m)) : x \in Elements(rx[t]) \/ x = m
        /\ InOrder(rx[t]) /\ Before(Elements(rx[t]), {m}) => InOrder(Append(rx[t], m))
    BY <1>0, ElementsAppend, OrderAppend
  <2>3. /\ \A u \in Threads : u # t => rx'[u] = rx[u]
        /\ \A x \in Elements(rx'[t]) : x \in Elements(rx[t]) \/ x = m
    BY <1>0, <2>1, <2>2
  <2>4. InOrder(rx'[t])
    <3>1. Before(Elements(rx[t]), {m})
      BY PendingParts DEF Before
    <3> QED BY <1>0, <2>1, <2>2, <3>1 DEF Chain, ChainWithin
  <2>5. Kinds'
    <3>1. RxKind(t, m)
      BY <1>3 DEF RxKind
    <3>2. \A u \in Threads :
            /\ \A x \in Elements(rx'[u]) : RxKind(u, x)
            /\ \A x \in Elements(batch'[u]) : BatchKind(u, x)
      BY <1>1, <2>3, <3>1 DEF Kinds
    <3> QED BY <2>1, <3>2, SenderStays DEF Kinds, RxKind, BatchKind, TxmsKind
  <2>6. ChainWithin'
    BY <1>1, <2>1, <2>3, <2>4 DEF Chain, ChainWithin
  <2>7. Untaken' = Untaken /\ Unrouted' = Unrouted
    BY <2>1 DEF Untaken, Unrouted
  <2>8. ChainBetween'
    <3>1. \A y \in Pending : Ahead(m, y)
      BY <1>3
    <3>2. \A w \in Workers : Elements(out[w]) \subseteq Pending
      BY PendingParts
    <3>3. Unrouted \subseteq Pending
      BY PendingParts
    <3>4. \A u \in Threads : Elements(batch[u]) \subseteq Pending
      BY PendingParts
    <3>5. ChainBetween
      BY DEF Chain
    <3>6. ChainUnrouted'
      BY <2>1, <2>7, <3>5 DEF ChainBetween, ChainUnrouted
    <3>7. ASSUME NEW u \in Threads PROVE ChainTo(u)'
      <4>1. ChainTo(u)
        BY <3>5 DEF ChainBetween
      <4>2. Elements(batch'[u]) \subseteq Elements(batch[u])
        BY <1>1
      <4>3. \A x \in Elements(rx'[u]) : x \in Elements(rx[u]) \/ x = m
        BY <2>3
      <4>4. \A x \in Elements(batch[u]) : Ahead(x, m)
        BY <3>4
      <4>5. \A y \in Unrouted : Ahead(m, y)
        BY <3>1, <3>3
      <4> QED BY <2>1, <2>7, <4>1, <4>2, <4>3, <4>4, <4>5 DEF ChainTo, Before
    <3>8. ASSUME NEW u \in Threads PROVE ChainToMaster(u)'
      BY <1>0, <1>1, <1>3, <2>1, <2>3, <3>5 DEF ChainBetween, ChainToMaster, Before
    <3>9. ASSUME NEW w \in Workers PROVE ChainToWorker(w)'
      BY <1>0, <1>1, <2>1, <2>3, <2>7, <3>1, <3>2, <3>5 DEF ChainBetween, ChainToWorker, Before
    <3> QED BY <3>6, <3>7, <3>8, <3>9 DEF ChainBetween
  <2>9. Pending' \subseteq Pending \union {m}
    <3> DEFINE M == Pending \union {m}
    <3>1. \A u \in Threads : Elements(rx'[u]) \subseteq M /\ Elements(batch'[u]) \subseteq M
      BY <1>1, <2>3, PendingParts
    <3>2. \A u \in Threads : Elements(txms'[u]) \subseteq M /\ Elements(txmq'[u]) \subseteq M
      BY <2>1, PendingParts
    <3>3. /\ \A w \in Workers : Elements(out'[w]) \subseteq M
          /\ Elements(msgRxq') \subseteq M /\ Elements(route') \subseteq M
      BY PendingParts DEF Unrouted
    <3> HIDE DEF M
    <3>4. Pending' \subseteq M
      BY <3>1, <3>2, <3>3, PendingFrom
    <3> QED BY <3>4 DEF M
  <2> QED BY <2>5, <2>6, <2>7, <2>8, <2>9 DEF Chain, Brings
<1>4. CASE ForMaster(m)
  <2>1. txms' = [txms EXCEPT ![t] = Append(txms[t], m)] /\ UNCHANGED <<rx, txmq>>
    BY <1>4 DEF Post
  <2>2. /\ \A x \in Elements(Append(txms[t], m)) : x \in Elements(txms[t]) \/ x = m
        /\ InOrder(txms[t]) /\ Before(Elements(txms[t]), {m}) => InOrder(Append(txms[t], m))
    BY <1>0, ElementsAppend, OrderAppend
  <2>3. /\ \A u \in Threads : u # t => txms'[u] = txms[u]
        /\ \A x \in Elements(txms'[t]) : x \in Elements(txms[t]) \/ x = m
    BY <1>0, <2>1, <2>2
  <2>4. InOrder(txms'[t])
    <3>1. Before(Elements(txms[t]), {m})
      BY PendingParts DEF Before
    <3> QED BY <1>0, <2>1, <2>2, <3>1 DEF Chain, ChainWithin
  <2>5. Kinds'
    <3>1. TxmsKind(t, m)
      BY <1>4 DEF TxmsKind
    <3>2. \A u \in Threads :
            /\ \A x \in Elements(txms'[u]) : TxmsKind(u, x)
            /\ \A x \in Elements(batch'[u]) : BatchKind(u, x)
      BY <1>1, <2>3, <3>1 DEF Kinds
    <3> QED BY <2>1, <3>2, SenderStays DEF Kinds, RxKind, BatchKind, TxmsKind
  <2>6. ChainWithin'
    BY <1>1, <2>1, <2>3, <2>4 DEF Chain, ChainWithin
  <2>7. Untaken' = Untaken /\ Unrouted' = Unrouted
    BY <2>1 DEF Untaken, Unrouted
  <2>8. ChainBetween'
    <3>1. \A y \in Pending : Ahead(m, y)
      BY <1>4
    <3>2. \A u \in Threads : Elements(txms[u]) \subseteq Pending
      BY PendingParts
    <3>3. Unrouted \subseteq Pending
      BY PendingParts
    <3>4. Elements(batch[0]) \subseteq Pending /\ Elements(rx[0]) \subseteq Pending
      BY <1>0, PendingParts
    <3>5. ChainBetween
      BY DEF Chain
    <3>6. ChainUnrouted'
      BY <2>1, <2>7, <3>5 DEF ChainBetween, ChainUnrouted
    <3>7. ASSUME NEW u \in Threads PROVE ChainTo(u)'
      BY <1>1, <2>1, <2>3, <2>7, <3>1, <3>3, <3>5 DEF ChainBetween, ChainTo, Before
    <3>8. ASSUME NEW u \in Threads PROVE ChainToMaster(u)'
      <4>1. \A v \in Threads : \A x \in Elements(txms'[v]) : x \in Elements(txms[v]) \/ (v = t /\ x = m)
        BY <2>3
      <4>2. \A x \in Elements(batch[0]) \union Elements(rx[0]) : Ahead(x, m)
        BY <3>4
      <4>3. \A v \in Threads : \A x \in Elements(txms[v]) : Ahead(x, m) /\ Ahead(m, x)
        BY <3>1, <3>2
      <4>4. Elements(batch'[0]) \subseteq Elements(batch[0]) /\ rx'[0] = rx[0]
        BY <1>0, <1>1, <2>1
      <4>5. ChainToMaster(u)
        BY <3>5 DEF ChainBetween
      <4>6. /\ Before(Elements(batch'[0]), Elements(txms'[u]))
            /\ Before(Elements(rx'[0]), Elements(txms'[u]))
        BY <4>1, <4>2, <4>4, <4>5 DEF ChainToMaster, Before
      <4>7. ASSUME NEW v \in Threads, u # v
            PROVE  Before(Elements(txms'[u]), Elements(txms'[v]))
        BY <4>1, <4>3, <4>5, <4>7 DEF ChainToMaster, Before
      <4> QED BY <4>6, <4>7 DEF ChainToMaster
    <3>9. ASSUME NEW w \in Workers PROVE ChainToWorker(w)'
      BY <1>0, <1>1, <2>1, <2>7, <3>5 DEF ChainBetween, ChainToWorker, Before
    <3> QED BY <3>6, <3>7, <3>8, <3>9 DEF ChainBetween
  <2>9. Pending' \subseteq Pending \union {m}
    <3> DEFINE M == Pending \union {m}
    <3>1. \A u \in Threads : Elements(txms'[u]) \subseteq M /\ Elements(batch'[u]) \subseteq M
      BY <1>1, <2>3, PendingParts
    <3>2. \A u \in Threads : Elements(rx'[u]) \subseteq M /\ Elements(txmq'[u]) \subseteq M
      BY <2>1, PendingParts
    <3>3. /\ \A w \in Workers : Elements(out'[w]) \subseteq M
          /\ Elements(msgRxq') \subseteq M /\ Elements(route') \subseteq M
      BY PendingParts DEF Unrouted
    <3> HIDE DEF M
    <3>4. Pending' \subseteq M
      BY <3>1, <3>2, <3>3, PendingFrom
    <3> QED BY <3>4 DEF M
  <2> QED BY <2>5, <2>6, <2>7, <2>8, <2>9 DEF Chain, Brings
<1>5. CASE ~(t # 0 /\ ~ForMaster(m) /\ m.tidx = t) /\ ~ForMaster(m)
  <2>1. txmq' = [txmq EXCEPT ![t] = Append(txmq[t], m)] /\ UNCHANGED <<rx, txms>>
    BY <1>5 DEF Post
  <2>2. /\ \A x \in Elements(Append(txmq[t], m)) : x \in Elements(txmq[t]) \/ x = m
        /\ InOrderUnrouted(txmq[t]) /\ BeforeUnrouted(Elements(txmq[t]), {m})
             => InOrderUnrouted(Append(txmq[t], m))
    BY <1>0, ElementsAppend, OrderAppend
  <2>3. /\ \A u \in Threads : u # t => txmq'[u] = txmq[u]
        /\ \A x \in Elements(txmq'[t]) : x \in Elements(txmq[t]) \/ x = m
    BY <1>0, <2>1, <2>2
  <2>4. InOrderUnrouted(txmq'[t])
    <3>1. BeforeUnrouted(Elements(txmq[t]), {m})
      BY PendingParts DEF BeforeUnrouted
    <3> QED BY <1>0, <2>1, <2>2, <3>1 DEF Chain, ChainWithin
  <2>5. Kinds'
    <3>1. TxmqKind(t, m)
      BY <1>5 DEF TxmqKind
    <3>2. \A u \in Threads :
            /\ \A x \in Elements(txmq'[u]) : TxmqKind(u, x)
            /\ \A x \in Elements(batch'[u]) : BatchKind(u, x)
      BY <1>1, <2>3, <3>1 DEF Kinds
    <3> QED BY <2>1, <3>2, SenderStays DEF Kinds, RxKind, BatchKind, TxmsKind
  <2>6. ChainWithin'
    BY <1>1, <2>1, <2>3, <2>4 DEF Chain, ChainWithin
  <2>7. /\ \A y \in Untaken' : y \in Untaken \/ y = m
        /\ \A y \in Unrouted' : y \in Unrouted \/ y = m
    BY <2>1, <2>3 DEF Untaken, Unrouted
  <2>8. ChainBetween'
    <3>1. \A u \in Threads :
            \A x \in Elements(batch[u]) \union Elements(rx[u]) \union Elements(txms[u]) : Ahead(x, m)
      BY PendingParts
    <3>2. \A w \in Workers : \A x \in Elements(out[w]) : Ahead(x, m)
      BY PendingParts
    <3>3. \A x \in Elements(route) \union Elements(msgRxq) : Ahead(Routed(x), m)
      BY PendingParts DEF Unrouted
    <3>4. ChainBetween
      BY DEF Chain
    <3>5. ChainUnrouted'
      BY <2>1, <2>7, <3>3, <3>4 DEF ChainBetween, ChainUnrouted, BeforeUnrouted
    <3>6. ASSUME NEW u \in Threads PROVE ChainTo(u)'
      BY <1>1, <2>1, <2>7, <3>1, <3>4 DEF ChainBetween, ChainTo, Before
    <3>7. ASSUME NEW u \in Threads PROVE ChainToMaster(u)'
      BY <1>0, <1>1, <2>1, <3>4 DEF ChainBetween, ChainToMaster, Before
    <3>8. ASSUME NEW w \in Workers PROVE ChainToWorker(w)'
      BY <1>0, <1>1, <2>1, <2>7, <3>2, <3>4 DEF ChainBetween, ChainToWorker, Before
    <3> QED BY <3>5, <3>6, <3>7, <3>8 DEF ChainBetween
  <2>9. Pending' \subseteq Pending \union {m}
    <3> DEFINE M == Pending \union {m}
    <3>1. \A u \in Threads : Elements(txmq'[u]) \subseteq M /\ Elements(batch'[u]) \subseteq M
      BY <1>1, <2>3, PendingParts
    <3>2. \A u \in Threads : Elements(rx'[u]) \subseteq M /\ Elements(txms'[u]) \subseteq M
      BY <2>1, PendingParts
    <3>3. /\ \A w \in Workers : Elements(out'[w]) \subseteq M
          /\ Elements(msgRxq') \subseteq M /\ Elements(route') \subseteq M
      BY PendingParts DEF Unrouted
    <3> HIDE DEF M
    <3>4. Pending' \subseteq M
      BY <3>1, <3>2, <3>3, PendingFrom
    <3> QED BY <3>4 DEF M
  <2> QED BY <2>5, <2>6, <2>7, <2>8, <2>9 DEF Chain, Brings
<1> QED BY <1>3, <1>4, <1>5

\* A step that only takes a message from a batch, or leaves the queues alone.
LEMMA QuietFlow ==
    ASSUME QueuesOK, Keeps, Kinds, Chain,
           UNCHANGED <<rx, txms, txmq, msgRxq, route, out>>,
           batch' = batch \/ \E t \in Threads : batch[t] # <<>> /\ Consume(t)
    PROVE  Kinds' /\ Chain' /\ Brings({})
<1>1. /\ \A u \in Threads : Elements(batch'[u]) \subseteq Elements(batch[u])
      /\ \A u \in Threads : InOrder(batch'[u])
  BY ConsumeFlow DEF Chain, ChainWithin
<1>2. Kinds'
  BY <1>1, SenderStays DEF Kinds, RxKind, BatchKind, TxmsKind
<1>3. ChainWithin'
  BY <1>1 DEF Chain, ChainWithin
<1>4. Untaken' = Untaken /\ Unrouted' = Unrouted
  BY DEF Untaken, Unrouted
<1>5. ChainBetween'
  <2>0. 0 \in Threads /\ Workers \subseteq Threads
    BY ThreadsType
  <2>1. ChainUnrouted'
    BY <1>4 DEF Chain, ChainBetween, ChainUnrouted
  <2>2. ASSUME NEW u \in Threads PROVE ChainTo(u)'
    BY <1>1, <1>4 DEF Chain, ChainBetween, ChainTo, Before
  <2>3. ASSUME NEW u \in Threads PROVE ChainToMaster(u)'
    BY <1>1, <2>0 DEF Chain, ChainBetween, ChainToMaster, Before
  <2>4. ASSUME NEW w \in Workers PROVE ChainToWorker(w)'
    BY <1>1, <1>4, <2>0 DEF Chain, ChainBetween, ChainToWorker, Before
  <2> QED BY <2>1, <2>2, <2>3, <2>4 DEF ChainBetween
<1>6. Pending' \subseteq Pending
  <2>1. \A u \in Threads :
          /\ Elements(rx'[u]) \subseteq Pending /\ Elements(batch'[u]) \subseteq Pending
          /\ Elements(txms'[u]) \subseteq Pending /\ Elements(txmq'[u]) \subseteq Pending
    BY <1>1, PendingParts
  <2>2. /\ \A w \in Workers : Elements(out'[w]) \subseteq Pending
        /\ Elements(msgRxq') \subseteq Pending /\ Elements(route') \subseteq Pending
    BY PendingParts DEF Unrouted
  <2> QED BY <2>1, <2>2, PendingFrom
<1> QED BY <1>2, <1>3, <1>5, <1>6, <1>4 DEF Chain, Brings

\* A worker takes its messages, when it has handled the last.
LEMMA TakeFlow ==
    ASSUME QueuesOK, Keeps, Kinds, Chain, NEW w \in Workers, WorkerTake(w)
    PROVE  Kinds' /\ Chain' /\ Brings({})
<1>0. 0 \in Threads /\ Workers \subseteq Threads /\ 0 \notin Workers
  BY ThreadsType DEF Workers
<1>1. /\ rx \in [Threads -> Seq(Message)] /\ batch \in [Threads -> Seq(Message)]
      /\ batch' = [batch EXCEPT ![w] = rx[w]] /\ rx' = [rx EXCEPT ![w] = <<>>]
      /\ UNCHANGED <<txms, txmq, msgRxq, route, out>>
  BY DEF WorkerTake, master, QueuesOK, RxOK, BatchOK
<1>2. /\ \A u \in Threads : u # w => batch'[u] = batch[u] /\ rx'[u] = rx[u]
      /\ batch'[w] = rx[w] /\ rx'[w] = <<>>
  BY <1>0, <1>1
<1>3. Kinds'
  <2>1. \A m \in Elements(batch'[w]) : BatchKind(w, m)
    BY <1>0, <1>2 DEF Kinds, RxKind, BatchKind
  <2>2. \A u \in Threads :
          /\ \A m \in Elements(batch'[u]) : BatchKind(u, m)
          /\ \A m \in Elements(rx'[u]) : RxKind(u, m)
    BY <1>2, <2>1, ElementsEmpty DEF Kinds
  <2> QED BY <1>1, <2>2, SenderStays DEF Kinds, RxKind, BatchKind, TxmsKind
<1>4. ChainWithin'
  BY <1>1, <1>2, OrderEmpty DEF Chain, ChainWithin
<1>5. Untaken' = Untaken /\ Unrouted' = Unrouted
  BY <1>1 DEF Untaken, Unrouted
<1>6. ChainBetween'
  <2>1. ChainUnrouted'
    BY <1>1, <1>5 DEF Chain, ChainBetween, ChainUnrouted
  <2>2. ASSUME NEW u \in Threads PROVE ChainTo(u)'
    BY <1>1, <1>2, <1>5, ElementsEmpty DEF Chain, ChainBetween, ChainTo, Before
  <2>3. ASSUME NEW u \in Threads PROVE ChainToMaster(u)'
    BY <1>0, <1>1, <1>2 DEF Chain, ChainBetween, ChainToMaster, Before
  <2>4. ASSUME NEW v \in Workers PROVE ChainToWorker(v)'
    BY <1>0, <1>1, <1>2, <1>5, ElementsEmpty
       DEF Chain, ChainBetween, ChainToWorker, Before
  <2> QED BY <2>1, <2>2, <2>3, <2>4 DEF ChainBetween
<1>7. Pending' \subseteq Pending
  <2>1. \A u \in Threads :
          /\ Elements(rx'[u]) \subseteq Pending /\ Elements(batch'[u]) \subseteq Pending
          /\ Elements(txms'[u]) \subseteq Pending /\ Elements(txmq'[u]) \subseteq Pending
    BY <1>0, <1>1, <1>2, PendingParts, ElementsEmpty
  <2>2. /\ \A v \in Workers : Elements(out'[v]) \subseteq Pending
        /\ Elements(msgRxq') \subseteq Pending /\ Elements(route') \subseteq Pending
    BY <1>1, PendingParts DEF Unrouted
  <2> QED BY <2>1, <2>2, PendingFrom
<1> QED BY <1>3, <1>4, <1>6, <1>7, <1>5 DEF Chain, Brings

\* A worker hands its messages for the master over.
LEMMA FlushToMasterFlow ==
    ASSUME QueuesOK, Keeps, Kinds, Chain, NEW w \in Workers, WorkerFlushToMaster(w)
    PROVE  Kinds' /\ Chain' /\ Brings({})
<1>0. 0 \in Threads /\ w \in Threads /\ Workers \subseteq Threads /\ w # 0
  BY ThreadsType DEF Workers
<1>1. /\ rx \in [Threads -> Seq(Message)] /\ txms \in [Threads -> Seq(Message)]
      /\ rx' = [rx EXCEPT ![0] = rx[0] \o txms[w]]
      /\ txms' = [txms EXCEPT ![w] = <<>>]
      /\ UNCHANGED <<txmq, msgRxq, route, out, batch>>
  BY DEF WorkerFlushToMaster, master, QueuesOK, RxOK, TxmsOK
<1>2. /\ \A u \in Threads : u # 0 => rx'[u] = rx[u]
      /\ \A u \in Threads : u # w => txms'[u] = txms[u]
      /\ rx'[0] = rx[0] \o txms[w] /\ txms'[w] = <<>>
  BY <1>0, <1>1
<1>3. \A x \in Elements(rx'[0]) : x \in Elements(rx[0]) \/ x \in Elements(txms[w])
  BY <1>0, <1>1, <1>2, ElementsConcat
<1>4. ChainBetween /\ ChainWithin /\ ChainToMaster(w) /\ ChainTo(w) /\ ChainTo(0)
  BY <1>0 DEF Chain, ChainBetween
<1>5. Kinds'
  <2>1. \A m \in Elements(rx'[0]) : RxKind(0, m)
    BY <1>0, <1>3 DEF Kinds, RxKind, TxmsKind
  <2>2. \A u \in Threads :
          /\ \A m \in Elements(txms'[u]) : TxmsKind(u, m)
          /\ \A m \in Elements(rx'[u]) : RxKind(u, m)
    BY <1>2, <2>1, ElementsEmpty DEF Kinds
  <2> QED BY <1>1, <2>2, SenderStays DEF Kinds, RxKind, BatchKind, TxmsKind
<1>6. ChainWithin'
  <2>1. InOrder(rx[0] \o txms[w])
    BY <1>0, <1>1, <1>4, OrderConcat DEF ChainToMaster, ChainWithin
  <2> QED BY <1>1, <1>2, <1>4, <2>1, OrderEmpty DEF ChainWithin
<1>7. Untaken' = Untaken /\ Unrouted' = Unrouted
  BY <1>1 DEF Untaken, Unrouted
<1>8. ChainBetween'
  <2>1. ChainUnrouted'
    BY <1>1, <1>4, <1>7 DEF ChainBetween, ChainUnrouted
  <2>2. ASSUME NEW u \in Threads PROVE ChainTo(u)'
    <3>1. Before(Elements(batch'[u]), Elements(rx'[u]))
      BY <1>1, <1>2, <1>3, <1>4 DEF ChainBetween, ChainTo, ChainToMaster, Before
    <3>2. Before(Elements(rx'[u]), Unrouted')
      BY <1>2, <1>3, <1>4, <1>7 DEF ChainBetween, ChainTo, Before
    <3>3. Before(Elements(batch'[u]), Unrouted') /\ Before(Elements(txms'[u]), Unrouted')
      BY <1>1, <1>2, <1>4, <1>7, ElementsEmpty DEF ChainBetween, ChainTo, Before
    <3> QED BY <3>1, <3>2, <3>3 DEF ChainTo
  <2>3. ASSUME NEW u \in Threads PROVE ChainToMaster(u)'
    <3>1. /\ Before(Elements(batch'[0]), Elements(txms'[u]))
          /\ Before(Elements(rx'[0]), Elements(txms'[u]))
      BY <1>1, <1>2, <1>3, <1>4, ElementsEmpty DEF ChainBetween, ChainToMaster, Before
    <3>2. \A v \in Threads : u # v => Before(Elements(txms'[u]), Elements(txms'[v]))
      BY <1>2, <1>4, ElementsEmpty DEF ChainBetween, ChainToMaster, Before
    <3> QED BY <3>1, <3>2 DEF ChainToMaster
  <2>4. ASSUME NEW v \in Workers PROVE ChainToWorker(v)'
    <3>1. v \in Threads /\ v # 0
      BY ThreadsType DEF Workers
    <3> QED BY <1>1, <1>2, <1>4, <1>7, <3>1 DEF ChainBetween, ChainToWorker
  <2> QED BY <2>1, <2>2, <2>3, <2>4 DEF ChainBetween
<1>9. Pending' \subseteq Pending
  <2>1. \A u \in Threads :
          /\ Elements(rx'[u]) \subseteq Pending /\ Elements(batch'[u]) \subseteq Pending
          /\ Elements(txms'[u]) \subseteq Pending /\ Elements(txmq'[u]) \subseteq Pending
    BY <1>0, <1>1, <1>2, <1>3, PendingParts, ElementsEmpty
  <2>2. /\ \A v \in Workers : Elements(out'[v]) \subseteq Pending
        /\ Elements(msgRxq') \subseteq Pending /\ Elements(route') \subseteq Pending
    BY <1>1, PendingParts DEF Unrouted
  <2> QED BY <2>1, <2>2, PendingFrom
<1> QED BY <1>5, <1>6, <1>8, <1>9, <1>7 DEF Chain, Brings

\* What two threads send does not depend on each other: they run different
\* services, and only the master sends close messages.
LEMMA UntakenApart ==
    ASSUME QueuesOK, Kinds, NEW t \in Threads, NEW u \in Threads, t # u,
           NEW x \in Elements(txmq[t]), NEW y \in Elements(txmq[u])
    PROVE  Ahead(Routed(x), y)
<1>1. x \in Message /\ y \in Message
  BY PendingParts
<1>2. TxmqKind(t, x) /\ TxmqKind(u, y) /\ ~ForMaster(x)
  BY DEF Kinds, QueuesOK, TxmqOK, Addressed
<1>3. ~(x.id = "USER" /\ y.id = "USER" /\ x.src = y.src)
  BY <1>2 DEF TxmqKind
<1>4. ~(x.id = "CLOSE_RSP" /\ RunsService(y))
  BY <1>2 DEF TxmqKind, RunsService, ForService
<1>5. x.id # "START_REQ"
  BY <1>2 DEF ForMaster
<1> QED BY <1>1, <1>3, <1>4, <1>5, RoutedMsg DEF Ahead

\* A worker hands its messages for services over.
LEMMA FlushToServicesFlow ==
    ASSUME QueuesOK, Keeps, Kinds, Chain, NEW w \in Workers, WorkerFlushToServices(w)
    PROVE  Kinds' /\ Chain' /\ Brings({})
<1>0. w \in Threads /\ Workers \subseteq Threads
  BY ThreadsType
<1>1. /\ txmq \in [Threads -> Seq(Message)] /\ msgRxq \in Seq(Message)
      /\ msgRxq' = msgRxq \o txmq[w] /\ txmq' = [txmq EXCEPT ![w] = <<>>]
      /\ UNCHANGED <<rx, txms, route, out, batch>>
  BY DEF WorkerFlushToServices, Flushed, master, QueuesOK, TxmqOK, MsgRxqOK
<1>2. (\A u \in Threads : u # w => txmq'[u] = txmq[u]) /\ txmq'[w] = <<>>
  BY <1>0, <1>1
<1>3. \A x \in Elements(msgRxq') : x \in Elements(msgRxq) \/ x \in Elements(txmq[w])
  BY <1>0, <1>1, ElementsConcat
<1>4. ChainBetween /\ ChainWithin /\ ChainUnrouted
  BY DEF Chain, ChainBetween
<1>5. Elements(txmq[w]) \subseteq Untaken
  BY <1>0, PendingParts DEF Untaken
<1>6. Kinds'
  <2>1. \A m \in Elements(msgRxq') : ~m.ptr
    BY <1>0, <1>3 DEF Kinds, TxmqKind
  <2>2. \A u \in Threads : \A m \in Elements(txmq'[u]) : TxmqKind(u, m)
    BY <1>2, ElementsEmpty DEF Kinds
  <2> QED BY <1>1, <2>1, <2>2, SenderStays DEF Kinds, RxKind, BatchKind, TxmsKind
<1>7. ChainWithin'
  <2>1. BeforeUnrouted(Elements(msgRxq), Elements(txmq[w]))
    BY <1>4, <1>5 DEF ChainUnrouted, BeforeUnrouted
  <2>2. InOrderUnrouted(msgRxq \o txmq[w])
    BY <1>0, <1>1, <1>4, <2>1, OrderConcat DEF ChainWithin
  <2> QED BY <1>1, <1>2, <1>4, <2>2, OrderEmpty DEF ChainWithin
<1>8. /\ \A y \in Untaken' : \E u \in Threads : u # w /\ y \in Elements(txmq[u])
      /\ Untaken' \subseteq Untaken /\ Unrouted' \subseteq Unrouted
  BY <1>1, <1>2, <1>3, <1>5, ElementsEmpty DEF Untaken, Unrouted
<1>9. ChainBetween'
  <2>1. ChainUnrouted'
    <3>1. BeforeUnrouted(Elements(route'), Elements(msgRxq') \union Untaken')
      BY <1>1, <1>3, <1>4, <1>5, <1>8 DEF ChainUnrouted, BeforeUnrouted
    <3>2. ASSUME NEW x \in Elements(msgRxq'), NEW y \in Untaken' PROVE Ahead(Routed(x), y)
      <4>1. CASE x \in Elements(msgRxq)
        BY <1>4, <1>8, <4>1 DEF ChainUnrouted, BeforeUnrouted
      <4>2. CASE x \in Elements(txmq[w])
        <5>1. PICK u \in Threads : u # w /\ y \in Elements(txmq[u])
          BY <1>8
        <5> QED BY <1>0, <4>2, <5>1, UntakenApart
      <4> QED BY <1>3, <4>1, <4>2
    <3> QED BY <3>1, <3>2 DEF ChainUnrouted, BeforeUnrouted
  <2>2. ASSUME NEW u \in Threads PROVE ChainTo(u)'
    BY <1>1, <1>4, <1>8 DEF ChainBetween, ChainTo, Before
  <2>3. ASSUME NEW u \in Threads PROVE ChainToMaster(u)'
    BY <1>1, <1>4 DEF ChainBetween, ChainToMaster
  <2>4. ASSUME NEW v \in Workers PROVE ChainToWorker(v)'
    BY <1>1, <1>4, <1>8 DEF ChainBetween, ChainToWorker, Before
  <2> QED BY <2>1, <2>2, <2>3, <2>4 DEF ChainBetween
<1>10. Pending' \subseteq Pending
  <2>1. \A u \in Threads :
          /\ Elements(rx'[u]) \subseteq Pending /\ Elements(batch'[u]) \subseteq Pending
          /\ Elements(txms'[u]) \subseteq Pending /\ Elements(txmq'[u]) \subseteq Pending
    BY <1>1, <1>2, PendingParts, ElementsEmpty
  <2>2. /\ \A v \in Workers : Elements(out'[v]) \subseteq Pending
        /\ Elements(msgRxq') \subseteq Pending /\ Elements(route') \subseteq Pending
    BY <1>0, <1>1, <1>3, PendingParts DEF Unrouted
  <2> QED BY <2>1, <2>2, PendingFrom
<1> QED BY <1>6, <1>7, <1>9, <1>10, <1>8 DEF Chain, Brings

\* The master takes the messages for itself, its own last.
LEMMA MasterTakeFlow ==
    ASSUME QueuesOK, Keeps, Kinds, Chain, MasterTake
    PROVE  Kinds' /\ Chain' /\ Brings({})
<1>0. 0 \in Threads /\ Workers \subseteq Threads /\ 0 \notin Workers
  BY ThreadsType DEF Workers
<1>1. /\ rx \in [Threads -> Seq(Message)] /\ txms \in [Threads -> Seq(Message)]
      /\ batch \in [Threads -> Seq(Message)]
      /\ batch' = [batch EXCEPT ![0] = rx[0] \o txms[0]]
      /\ rx' = [rx EXCEPT ![0] = <<>>] /\ txms' = [txms EXCEPT ![0] = <<>>]
      /\ UNCHANGED <<txmq, msgRxq, route, out>>
  BY DEF MasterTake, QueuesOK, RxOK, TxmsOK, BatchOK
<1>2. /\ \A u \in Threads : u # 0 =>
           rx'[u] = rx[u] /\ txms'[u] = txms[u] /\ batch'[u] = batch[u]
      /\ batch'[0] = rx[0] \o txms[0] /\ rx'[0] = <<>> /\ txms'[0] = <<>>
  BY <1>0, <1>1
<1>3. \A x \in Elements(batch'[0]) : x \in Elements(rx[0]) \/ x \in Elements(txms[0])
  BY <1>0, <1>1, <1>2, ElementsConcat
<1>4. ChainBetween /\ ChainWithin /\ ChainToMaster(0) /\ ChainTo(0)
  BY <1>0 DEF Chain, ChainBetween
<1>5. Kinds'
  <2>1. \A u \in Threads :
          /\ \A m \in Elements(rx'[u]) : RxKind(u, m)
          /\ \A m \in Elements(txms'[u]) : TxmsKind(u, m)
          /\ \A m \in Elements(batch'[u]) : BatchKind(u, m)
    BY <1>2, ElementsEmpty DEF Kinds, BatchKind
  <2> QED BY <1>1, <2>1, SenderStays DEF Kinds, RxKind, BatchKind, TxmsKind
<1>6. ChainWithin'
  <2>1. InOrder(rx[0] \o txms[0])
    BY <1>0, <1>1, <1>4, OrderConcat DEF ChainToMaster, ChainWithin
  <2> QED BY <1>1, <1>2, <1>4, <2>1, OrderEmpty DEF ChainWithin
<1>7. Untaken' = Untaken /\ Unrouted' = Unrouted
  BY <1>1 DEF Untaken, Unrouted
<1>8. ChainBetween'
  <2>1. ChainUnrouted'
    BY <1>1, <1>4, <1>7 DEF ChainBetween, ChainUnrouted
  <2>2. ASSUME NEW u \in Threads PROVE ChainTo(u)'
    <3>1. CASE u = 0
      <4>1. Before(Elements(batch'[0]), Unrouted')
        BY <1>3, <1>4, <1>7 DEF ChainTo, Before
      <4> QED BY <1>2, <3>1, <4>1, ElementsEmpty DEF ChainTo, Before
    <3>2. CASE u # 0
      BY <1>2, <1>4, <1>7, <3>2 DEF ChainBetween, ChainTo
    <3> QED BY <3>1, <3>2
  <2>3. ASSUME NEW u \in Threads PROVE ChainToMaster(u)'
    <3>1. CASE u = 0
      BY <1>2, <3>1, ElementsEmpty DEF ChainToMaster, Before
    <3>2. CASE u # 0
      <4>1. Before(Elements(batch'[0]), Elements(txms'[u]))
        BY <1>0, <1>2, <1>3, <1>4, <3>2 DEF ChainBetween, ChainToMaster, Before
      <4>2. Before(Elements(rx'[0]), Elements(txms'[u]))
        BY <1>2, ElementsEmpty DEF Before
      <4>3. \A v \in Threads : u # v => Before(Elements(txms'[u]), Elements(txms'[v]))
        BY <1>2, <1>4, <3>2, ElementsEmpty DEF ChainBetween, ChainToMaster, Before
      <4> QED BY <4>1, <4>2, <4>3 DEF ChainToMaster
    <3> QED BY <3>1, <3>2
  <2>4. ASSUME NEW v \in Workers PROVE ChainToWorker(v)'
    BY <1>0, <1>1, <1>2, <1>4, <1>7 DEF ChainBetween, ChainToWorker
  <2> QED BY <2>1, <2>2, <2>3, <2>4 DEF ChainBetween
<1>9. Pending' \subseteq Pending
  <2>1. \A u \in Threads :
          /\ Elements(rx'[u]) \subseteq Pending /\ Elements(batch'[u]) \subseteq Pending
          /\ Elements(txms'[u]) \subseteq Pending /\ Elements(txmq'[u]) \subseteq Pending
    BY <1>0, <1>1, <1>2, <1>3, PendingParts, ElementsEmpty
  <2>2. /\ \A v \in Workers : Elements(out'[v]) \subseteq Pending
        /\ Elements(msgRxq') \subseteq Pending /\ Elements(route') \subseteq Pending
    BY <1>1, PendingParts DEF Unrouted
  <2> QED BY <2>1, <2>2, PendingFrom
<1> QED BY <1>5, <1>6, <1>8, <1>9, <1>7 DEF Chain, Brings

\* The master takes the messages that it will route, its own last.
LEMMA MasterGetFlow ==
    ASSUME QueuesOK, Keeps, Kinds, Chain, MasterGet
    PROVE  Kinds' /\ Chain' /\ Brings({})
<1>0. 0 \in Threads /\ Workers \subseteq Threads
  BY ThreadsType
<1>1. /\ txmq \in [Threads -> Seq(Message)] /\ msgRxq \in Seq(Message)
      /\ route' = msgRxq \o txmq[0] /\ msgRxq' = <<>>
      /\ txmq' = [txmq EXCEPT ![0] = <<>>]
      /\ UNCHANGED <<rx, txms, out, batch>>
  BY DEF MasterGet, QueuesOK, TxmqOK, MsgRxqOK
<1>2. (\A u \in Threads : u # 0 => txmq'[u] = txmq[u]) /\ txmq'[0] = <<>>
  BY <1>0, <1>1
<1>3. \A x \in Elements(route') : x \in Elements(msgRxq) \/ x \in Elements(txmq[0])
  BY <1>0, <1>1, ElementsConcat
<1>4. ChainBetween /\ ChainWithin /\ ChainUnrouted
  BY DEF Chain, ChainBetween
<1>5. Elements(txmq[0]) \subseteq Untaken
  BY <1>0, PendingParts DEF Untaken
<1>6. Kinds'
  <2>1. \A m \in Elements(route') : ~m.ptr
    BY <1>0, <1>3 DEF Kinds, TxmqKind
  <2>2. \A u \in Threads : \A m \in Elements(txmq'[u]) : TxmqKind(u, m)
    BY <1>2, ElementsEmpty DEF Kinds
  <2>3. \A m \in Elements(msgRxq') : ~m.ptr
    BY <1>1, ElementsEmpty
  <2> QED BY <1>1, <2>1, <2>2, <2>3, SenderStays DEF Kinds, RxKind, BatchKind, TxmsKind
<1>7. ChainWithin'
  <2>1. BeforeUnrouted(Elements(msgRxq), Elements(txmq[0]))
    BY <1>4, <1>5 DEF ChainUnrouted, BeforeUnrouted
  <2>2. InOrderUnrouted(msgRxq \o txmq[0])
    BY <1>0, <1>1, <1>4, <2>1, OrderConcat DEF ChainWithin
  <2> QED BY <1>1, <1>2, <1>4, <2>2, OrderEmpty DEF ChainWithin
<1>8. /\ \A y \in Untaken' : \E u \in Threads : u # 0 /\ y \in Elements(txmq[u])
      /\ Untaken' \subseteq Untaken /\ Unrouted' \subseteq Unrouted
  BY <1>1, <1>2, <1>3, <1>5, ElementsEmpty DEF Untaken, Unrouted
<1>9. ChainBetween'
  <2>1. ChainUnrouted'
    <3>1. ASSUME NEW x \in Elements(route'), NEW y \in Untaken' PROVE Ahead(Routed(x), y)
      <4>1. CASE x \in Elements(msgRxq)
        BY <1>4, <1>8, <4>1 DEF ChainUnrouted, BeforeUnrouted
      <4>2. CASE x \in Elements(txmq[0])
        <5>1. PICK u \in Threads : u # 0 /\ y \in Elements(txmq[u])
          BY <1>8
        <5> QED BY <1>0, <4>2, <5>1, UntakenApart
      <4> QED BY <1>3, <4>1, <4>2
    <3> QED BY <1>1, <3>1, ElementsEmpty DEF ChainUnrouted, BeforeUnrouted
  <2>2. ASSUME NEW u \in Threads PROVE ChainTo(u)'
    BY <1>1, <1>4, <1>8 DEF ChainBetween, ChainTo, Before
  <2>3. ASSUME NEW u \in Threads PROVE ChainToMaster(u)'
    BY <1>1, <1>4 DEF ChainBetween, ChainToMaster
  <2>4. ASSUME NEW v \in Workers PROVE ChainToWorker(v)'
    BY <1>1, <1>4, <1>8 DEF ChainBetween, ChainToWorker, Before
  <2> QED BY <2>1, <2>2, <2>3, <2>4 DEF ChainBetween
<1>10. Pending' \subseteq Pending
  <2>1. \A u \in Threads :
          /\ Elements(rx'[u]) \subseteq Pending /\ Elements(batch'[u]) \subseteq Pending
          /\ Elements(txms'[u]) \subseteq Pending /\ Elements(txmq'[u]) \subseteq Pending
    BY <1>1, <1>2, PendingParts, ElementsEmpty
  <2>2. /\ \A v \in Workers : Elements(out'[v]) \subseteq Pending
        /\ Elements(msgRxq') \subseteq Pending /\ Elements(route') \subseteq Pending
    BY <1>0, <1>1, <1>3, PendingParts, ElementsEmpty DEF Unrouted
  <2> QED BY <2>1, <2>2, PendingFrom
<1> QED BY <1>6, <1>7, <1>9, <1>10, <1>8 DEF Chain, Brings

\* The master delivers what it routed to worker w.
LEMMA DeliverFlow ==
    ASSUME QueuesOK, Keeps, Kinds, Chain, NEW w \in Workers, MasterDeliver(w)
    PROVE  Kinds' /\ Chain' /\ Brings({})
<1>0. w \in Threads /\ w # 0 /\ 0 \in Threads /\ Workers \subseteq Threads
  BY ThreadsType DEF Workers
<1>1. /\ rx \in [Threads -> Seq(Message)] /\ out \in [Workers -> Seq(Message)]
      /\ rx' = [rx EXCEPT ![w] = rx[w] \o out[w]] \/ rx' = rx
      /\ out' = [out EXCEPT ![w] = <<>>]
      /\ UNCHANGED <<txms, txmq, msgRxq, route, batch>>
  BY DEF MasterDeliver, QueuesOK, RxOK, OutOK
<1>2. /\ \A u \in Threads : u # w => rx'[u] = rx[u]
      /\ \A v \in Workers : v # w => out'[v] = out[v]
      /\ rx'[w] = rx[w] \o out[w] \/ rx'[w] = rx[w]
      /\ out'[w] = <<>>
  BY <1>0, <1>1
<1>3. \A x \in Elements(rx'[w]) : x \in Elements(rx[w]) \/ x \in Elements(out[w])
  BY <1>0, <1>1, <1>2, ElementsConcat
<1>4. ChainBetween /\ ChainWithin /\ ChainToWorker(w)
  BY DEF Chain, ChainBetween
<1>5. Kinds'
  <2>1. \A m \in Elements(rx'[w]) : RxKind(w, m)
    BY <1>0, <1>3 DEF Kinds, RxKind
  <2>2. \A u \in Threads : \A m \in Elements(rx'[u]) : RxKind(u, m)
    BY <1>2, <2>1 DEF Kinds
  <2>3. \A v \in Workers : \A m \in Elements(out'[v]) : ~ForMaster(m)
    BY <1>2, ElementsEmpty DEF Kinds
  <2> QED BY <1>1, <2>2, <2>3, SenderStays DEF Kinds, RxKind, BatchKind, TxmsKind
<1>6. ChainWithin'
  <2>1. InOrder(rx[w] \o out[w])
    BY <1>0, <1>1, <1>4, OrderConcat DEF ChainToWorker, ChainWithin
  <2> QED BY <1>1, <1>2, <1>4, <2>1, OrderEmpty DEF ChainWithin
<1>7. Untaken' = Untaken /\ Unrouted' = Unrouted
  BY <1>1 DEF Untaken, Unrouted
<1>8. ChainBetween'
  <2>1. ChainUnrouted'
    BY <1>1, <1>4, <1>7 DEF ChainBetween, ChainUnrouted
  <2>2. ASSUME NEW u \in Threads PROVE ChainTo(u)'
    <3>1. CASE u = w
      <4>1. Before(Elements(batch'[w]), Elements(rx'[w])) /\ Before(Elements(rx'[w]), Unrouted')
        BY <1>0, <1>1, <1>3, <1>4, <1>7 DEF ChainBetween, ChainTo, ChainToWorker, Before
      <4> QED BY <1>0, <1>1, <1>4, <1>7, <3>1, <4>1 DEF ChainBetween, ChainTo
    <3>2. CASE u # w
      BY <1>1, <1>2, <1>4, <1>7, <3>2 DEF ChainBetween, ChainTo
    <3> QED BY <3>1, <3>2
  <2>3. ASSUME NEW u \in Threads PROVE ChainToMaster(u)'
    BY <1>0, <1>1, <1>2, <1>4 DEF ChainBetween, ChainToMaster
  <2>4. ASSUME NEW v \in Workers PROVE ChainToWorker(v)'
    <3>1. v \in Threads
      BY <1>0
    <3>2. CASE v = w
      BY <1>2, <3>2, ElementsEmpty DEF ChainToWorker, Before
    <3>3. CASE v # w
      BY <1>1, <1>2, <1>4, <1>7, <3>1, <3>3 DEF ChainBetween, ChainToWorker
    <3> QED BY <3>2, <3>3
  <2> QED BY <2>1, <2>2, <2>3, <2>4 DEF ChainBetween
<1>9. Pending' \subseteq Pending
  <2>1. \A u \in Threads :
          /\ Elements(rx'[u]) \subseteq Pending /\ Elements(batch'[u]) \subseteq Pending
          /\ Elements(txms'[u]) \subseteq Pending /\ Elements(txmq'[u]) \subseteq Pending
    BY <1>0, <1>1, <1>2, <1>3, PendingParts
  <2>2. /\ \A v \in Workers : Elements(out'[v]) \subseteq Pending
        /\ Elements(msgRxq') \subseteq Pending /\ Elements(route') \subseteq Pending
    BY <1>1, <1>2, PendingParts, ElementsEmpty DEF Unrouted
  <2> QED BY <2>1, <2>2, PendingFrom
<1> QED BY <1>5, <1>6, <1>8, <1>9, <1>7 DEF Chain, Brings

\* The master routes a message: to itself, to a worker, or to nobody.  What
\* it routes to a service is for a service of the table, which has no close
\* message on its way.
LEMMA RouteFlow ==
    ASSUME QueuesOK, Keeps, Kinds, Chain, LifeOfMessages, MasterRoute
    PROVE  /\ Kinds' /\ Chain'
           /\ \E h \in Pending :
                /\ Brings({Routed(h)})
                /\ Brings({}) \/ ~Dropped(Routed(h))
                /\ h \in Unrouted /\ h \in Message /\ ~ForMaster(h)
<1>0. 0 \in Threads /\ Workers \subseteq Threads /\ 0 \notin Workers
  BY ThreadsType DEF Workers
<1> DEFINE h == Head(route)
           m == Routed(h)
           t == Target(m)
<1>1. /\ route \in Seq(Message) /\ route # <<>> /\ route' = Tail(route)
      /\ UNCHANGED <<rx, txmq, msgRxq, batch>>
      /\ txms \in [Threads -> Seq(Message)] /\ out \in [Workers -> Seq(Message)]
  BY DEF MasterRoute, QueuesOK, RouteOK, TxmsOK, OutOK
<1>2. /\ h \in Message /\ h \in Elements(route)
      /\ \A x \in Elements(route') : x \in Elements(route)
  BY <1>1, ElementsTail
<1>3. ChainBetween /\ ChainWithin /\ ChainUnrouted
  BY DEF Chain, ChainBetween
<1>4. InOrderUnrouted(route') /\ BeforeUnrouted({h}, Elements(route'))
  BY <1>1, <1>3, OrderTail DEF ChainWithin
<1>5. /\ m \in Message /\ m.ptr /\ m.id = h.id /\ m.svc = h.svc /\ m.src = h.src
      /\ m.n = h.n /\ ~h.ptr /\ ~ForMaster(h) /\ ~ForMaster(m) /\ h \in Pending
      /\ h.ptr = FALSE
  <2>1. ~h.ptr /\ ~ForMaster(h) /\ h \in Pending
    BY <1>2, PendingParts DEF Kinds, QueuesOK, RouteOK, Addressed, Unrouted
  <2> QED BY <1>2, <2>1, RoutedMsg DEF ForMaster, Message, Envelope
<1> HIDE DEF h, m, t
<1>6. Untaken' = Untaken /\ Unrouted' \subseteq Unrouted
  BY <1>1, <1>2 DEF Untaken, Unrouted
<1>7. h \in Unrouted
  BY <1>2 DEF Unrouted
<1>8. \A y \in Unrouted' : Ahead(m, y)
  BY <1>1, <1>2, <1>3, <1>4 DEF Unrouted, Untaken, ChainUnrouted, BeforeUnrouted, m
<1>9. ChainUnrouted'
  BY <1>1, <1>2, <1>3, <1>6 DEF ChainUnrouted, BeforeUnrouted
<1>10. \/ /\ UNCHANGED <<txms, out>>
       \/ /\ ~Dropped(m) /\ t = 0
          /\ txms' = [txms EXCEPT ![0] = Append(txms[0], m)] /\ out' = out
       \/ /\ ~Dropped(m) /\ t # 0
          /\ out' = [out EXCEPT ![t] = Append(out[t], m)] /\ txms' = txms
  BY DEF MasterRoute, m, h, t, Routed
<1>11. ASSUME UNCHANGED <<txms, out>>
       PROVE  Kinds' /\ Chain' /\ Pending' \subseteq Pending
  <2>1. Kinds'
    BY <1>1, <1>2, <1>11, SenderStays DEF Kinds, RxKind, BatchKind, TxmsKind
  <2>2. ChainWithin'
    BY <1>1, <1>3, <1>4, <1>11 DEF ChainWithin
  <2>3. ChainBetween'
    BY <1>1, <1>3, <1>6, <1>9, <1>11 DEF ChainBetween, ChainTo, ChainToMaster,
       ChainToWorker, Before
  <2>4. Pending' \subseteq Pending
    BY <1>1, <1>2, <1>11 DEF Pending
  <2> QED BY <2>1, <2>2, <2>3, <2>4 DEF Chain
<1>12. ASSUME ~Dropped(m), NEW x \in Pending, Ahead(x, h) PROVE Ahead(x, m)
  <2>1. CASE RunsService(h)
    BY <1>5, <1>12, <2>1 DEF Ahead
  <2>2. CASE ~RunsService(h)
    <3>1. ~(x.id = "CLOSE_RSP" /\ RunsService(m) /\ x.svc = m.svc)
      <4>1. RunsService(m) => m.svc \in table
        BY <1>5, <1>12, <2>2 DEF Dropped, RunsService, ForService
      <4> QED BY <4>1 DEF LifeOfMessages
    <3> QED BY <1>5, <1>12, <3>1 DEF Ahead
  <2> QED BY <2>1, <2>2
<1>13. ASSUME ~Dropped(m)
       PROVE  /\ \A u \in Threads :
                   \A x \in Elements(batch[u]) \union Elements(rx[u]) \union Elements(txms[u]) :
                     Ahead(x, m)
              /\ \A w \in Workers : \A x \in Elements(out[w]) : Ahead(x, m)
  <2>1. \A u \in Threads :
          \A x \in Elements(batch[u]) \union Elements(rx[u]) \union Elements(txms[u]) :
            x \in Pending /\ Ahead(x, h)
    BY <1>3, <1>7, PendingParts DEF ChainBetween, ChainTo, Before
  <2>2. \A w \in Workers : \A x \in Elements(out[w]) : x \in Pending /\ Ahead(x, h)
    BY <1>3, <1>7, PendingParts DEF ChainBetween, ChainToWorker, Before
  <2> QED BY <1>12, <1>13, <2>1, <2>2
<1>14. ASSUME ~Dropped(m), txms' = [txms EXCEPT ![0] = Append(txms[0], m)], out' = out
       PROVE  Kinds' /\ Chain' /\ Pending' \subseteq Pending \union {m}
  <2>1. /\ \A u \in Threads : u # 0 => txms'[u] = txms[u]
        /\ \A x \in Elements(txms'[0]) : x \in Elements(txms[0]) \/ x = m
    BY <1>0, <1>1, <1>5, <1>14, ElementsAppend
  <2>2. InOrder(txms'[0])
    <3>1. Before(Elements(txms[0]), {m})
      BY <1>0, <1>13, <1>14 DEF Before
    <3>2. InOrder(Append(txms[0], m))
      BY <1>0, <1>1, <1>3, <1>5, <3>1, OrderAppend DEF ChainWithin
    <3> QED BY <1>0, <1>1, <1>14, <3>2
  <2>3. Kinds'
    <3>1. \A u \in Threads : \A x \in Elements(txms'[u]) : TxmsKind(u, x)
      BY <2>1 DEF Kinds, TxmsKind
    <3> QED BY <1>1, <1>2, <1>14, <3>1, SenderStays DEF Kinds, RxKind, BatchKind
  <2>4. ChainWithin'
    BY <1>1, <1>3, <1>4, <1>14, <2>1, <2>2 DEF ChainWithin
  <2>5. ASSUME NEW u \in Threads PROVE ChainTo(u)'
    BY <1>1, <1>3, <1>6, <1>8, <2>1 DEF ChainBetween, ChainTo, Before
  <2>6. ASSUME NEW u \in Threads PROVE ChainToMaster(u)'
    <3>1. \A v \in Threads : \A x \in Elements(txms'[v]) : x \in Elements(txms[v]) \/ (v = 0 /\ x = m)
      BY <2>1
    <3>2. ChainToMaster(u)
      BY <1>3 DEF ChainBetween
    <3>3. /\ Before(Elements(batch'[0]), Elements(txms'[u]))
          /\ Before(Elements(rx'[0]), Elements(txms'[u]))
      BY <1>0, <1>1, <1>13, <1>14, <3>1, <3>2 DEF ChainToMaster, Before
    <3>4. ASSUME NEW v \in Threads, u # v
          PROVE  Before(Elements(txms'[u]), Elements(txms'[v]))
      <4>1. \A y \in Elements(txms[v]) : v # 0 => Ahead(m, y)
        BY <1>5 DEF Kinds, TxmsKind, Ahead, RunsService, ForMaster, ForService
      <4>2. \A x \in Elements(txms[u]) : Ahead(x, m)
        BY <1>13, <1>14
      <4> QED BY <3>1, <3>2, <3>4, <4>1, <4>2 DEF ChainToMaster, Before
    <3> QED BY <3>3, <3>4 DEF ChainToMaster
  <2>7. ASSUME NEW w \in Workers PROVE ChainToWorker(w)'
    BY <1>1, <1>3, <1>6, <1>14 DEF ChainBetween, ChainToWorker, Before
  <2>8. Pending' \subseteq Pending \union {m}
    BY <1>0, <1>1, <1>2, <1>14, <2>1 DEF Pending
  <2> QED BY <1>9, <2>3, <2>4, <2>5, <2>6, <2>7, <2>8 DEF Chain, ChainBetween
<1>15. ASSUME ~Dropped(m), out' = [out EXCEPT ![t] = Append(out[t], m)], txms' = txms
       PROVE  Kinds' /\ Chain' /\ Pending' \subseteq Pending \union {m}
  <2>1. \A w \in Workers :
          /\ w # t => out'[w] = out[w]
          /\ w = t => out'[w] = Append(out[w], m)
    BY <1>1, <1>15
  <2>2. \A w \in Workers : \A x \in Elements(out'[w]) : x \in Elements(out[w]) \/ x = m
    BY <1>1, <1>5, <2>1, ElementsAppend
  <2>3. ASSUME NEW w \in Workers PROVE InOrder(out'[w])
    <3>1. Before(Elements(out[w]), {m})
      BY <1>13, <1>15 DEF Before
    <3>2. InOrder(Append(out[w], m))
      BY <1>1, <1>3, <1>5, <3>1, OrderAppend DEF ChainWithin
    <3> QED BY <1>3, <2>1, <3>2 DEF ChainWithin
  <2>4. Kinds'
    <3>1. \A w \in Workers : \A x \in Elements(out'[w]) : ~ForMaster(x)
      BY <1>5, <2>2 DEF Kinds
    <3> QED BY <1>1, <1>2, <1>15, <3>1, SenderStays DEF Kinds, RxKind, BatchKind, TxmsKind
  <2>5. ChainWithin'
    BY <1>1, <1>3, <1>4, <1>15, <2>3 DEF ChainWithin
  <2>6. ASSUME NEW u \in Threads PROVE ChainTo(u)'
    BY <1>1, <1>3, <1>6, <1>15 DEF ChainBetween, ChainTo, Before
  <2>7. ASSUME NEW u \in Threads PROVE ChainToMaster(u)'
    BY <1>1, <1>3, <1>15 DEF ChainBetween, ChainToMaster
  <2>8. ASSUME NEW w \in Workers PROVE ChainToWorker(w)'
    <3>1. ChainToWorker(w) /\ w \in Threads
      BY <1>0, <1>3 DEF ChainBetween
    <3>2. \A x \in Elements(batch[w]) \union Elements(rx[w]) : Ahead(x, m)
      BY <1>13, <1>15, <3>1
    <3>3. /\ Before(Elements(batch'[w]), Elements(out'[w]))
          /\ Before(Elements(rx'[w]), Elements(out'[w]))
      BY <1>1, <2>2, <3>1, <3>2 DEF ChainToWorker, Before
    <3>4. Before(Elements(out'[w]), Unrouted')
      BY <1>6, <1>8, <2>2, <3>1 DEF ChainToWorker, Before
    <3> QED BY <3>3, <3>4 DEF ChainToWorker
  <2>9. Pending' \subseteq Pending \union {m}
    BY <1>1, <1>2, <1>15, <2>2 DEF Pending
  <2> QED BY <1>9, <2>4, <2>5, <2>6, <2>7, <2>8, <2>9 DEF Chain, ChainBetween
<1> QED BY <1>2, <1>5, <1>6, <1>7, <1>10, <1>11, <1>14, <1>15 DEF m, Brings

\* What is behind the message that thread t takes from its batch.
LEMMA HeadAhead ==
    ASSUME QueuesOK, Chain, NEW t \in Threads, batch[t] # <<>>, Consume(t),
           RunsService(Head(batch[t])),
           UNCHANGED <<rx, txms, txmq, msgRxq, route, out, thread>>,
           NEW y \in Pending', RunsService(y) \/ y \in Unrouted'
    PROVE  Ahead(Head(batch[t]), y)
<1> DEFINE m == Head(batch[t])
<1>0. 0 \in Threads /\ Workers \subseteq Threads
  BY ThreadsType
<1>1. /\ \A u \in Threads : Elements(batch'[u]) \subseteq Elements(batch[u])
      /\ Before({m}, Elements(batch'[t])) /\ m \in Elements(batch[t])
  BY ConsumeFlow DEF Chain
<1>2. ChainBetween /\ ChainTo(t) /\ \A w \in Workers : ChainToWorker(w)
  BY DEF Chain, ChainBetween
<1>3. thread[m.svc] = t
  BY <1>1 DEF QueuesOK, BatchOK, HandledBy
<1> HIDE DEF m
<1>4. CASE y \in Unrouted'
  <2>1. y \in Unrouted
    BY <1>4 DEF Unrouted, Untaken
  <2> QED BY <1>1, <1>2, <2>1 DEF ChainTo, Before, m
<1>5. CASE y \notin Unrouted' /\ RunsService(y) /\ y.svc = m.svc
  <2>1. \/ \E u \in Threads : \/ y \in Elements(rx[u]) \/ y \in Elements(batch'[u])
                              \/ y \in Elements(txms[u])
        \/ \E w \in Workers : y \in Elements(out[w])
    BY <1>5 DEF Pending, Unrouted, Untaken
  <2>2. ASSUME NEW u \in Threads, y \in Elements(rx[u]) PROVE Ahead(m, y)
    <3>1. u = t
      BY <1>3, <1>5, <2>2 DEF QueuesOK, RxOK, HandledBy
    <3> QED BY <1>1, <1>2, <2>2, <3>1 DEF ChainTo, Before
  <2>3. ASSUME NEW u \in Threads, y \in Elements(batch'[u]) PROVE Ahead(m, y)
    <3>1. u = t
      BY <1>1, <1>3, <1>5, <2>3 DEF QueuesOK, BatchOK, HandledBy
    <3> QED BY <1>1, <2>3, <3>1 DEF Before
  <2>4. ASSUME NEW u \in Threads, y \in Elements(txms[u]) PROVE Ahead(m, y)
    <3>1. t = 0
      BY <1>3, <1>5, <2>4 DEF QueuesOK, TxmsOK, HandledBy
    <3> QED BY <1>1, <1>2, <2>4, <3>1 DEF ChainBetween, ChainToMaster, Before
  <2>5. ASSUME NEW w \in Workers, y \in Elements(out[w]) PROVE Ahead(m, y)
    <3>1. w = t
      BY <1>3, <1>5, <2>5 DEF QueuesOK, OutOK, HandledBy
    <3> QED BY <1>1, <1>2, <2>5, <3>1 DEF ChainToWorker, Before
  <2> QED BY <2>1, <2>2, <2>3, <2>4, <2>5 DEF m
<1>6. CASE y.svc # m.svc
  BY <1>6 DEF Ahead, m
<1> QED BY <1>4, <1>5, <1>6

\* The message that starts a service is the only one that does.
LEMMA StartAhead ==
    ASSUME QueuesOK, Kinds', QueuesOK', Chain, batch[0] # <<>>, Consume(0),
           Head(batch[0]).id = "START_REQ", UNCHANGED <<rx, txms, out>>,
           NEW y \in Pending', y.id = "START_REQ"
    PROVE  y.svc # Head(batch[0]).svc
<1> DEFINE m == Head(batch[0])
<1>0. 0 \in Threads /\ Workers \subseteq Threads
  BY ThreadsType
<1>1. Before({m}, Elements(batch'[0])) /\ m \in Elements(batch[0])
  BY <1>0, ConsumeFlow DEF Chain
<1>2. ForMaster(y)
  BY DEF ForMaster
<1>3. \/ y \in Elements(rx'[0]) \/ y \in Elements(batch'[0])
      \/ \E u \in Threads : y \in Elements(txms'[u])
  BY <1>0, <1>2 DEF Pending, Kinds, RxKind, BatchKind, QueuesOK, TxmqOK, MsgRxqOK, RouteOK,
     Addressed
<1>4. /\ Before(Elements(batch[0]), Elements(rx[0]))
      /\ \A u \in Threads : Before(Elements(batch[0]), Elements(txms[u]))
  BY <1>0 DEF Chain, ChainBetween, ChainTo, ChainToMaster
<1>5. Ahead(m, y)
  BY <1>1, <1>3, <1>4 DEF Before
<1> QED BY <1>5 DEF Ahead

-----------------------------------------------------------------------------
(* The life of the services under each action.                             *)

\* A step that starts, closes and runs no service.
LEMMA LifeFrame ==
    ASSUME Inv, Life, SenderOrder, UNCHANGED <<memory, table, log>>,
           sends' \in Nat, sends <= sends', NEW N, Brings(N),
           \A m \in N : /\ m \in Message /\ ~m.ptr
                        /\ m.id \notin {"START_REQ", "CLOSE_RSP"}
                        /\ m.n <= sends'
                        /\ m.id = "USER" => sends < m.n,
           \A t \in Threads : Running(t)' => Running(t) /\ running'[t] = running[t],
           \A t \in Threads : pc[t] = "last" <=> pc'[t] = "last"
    PROVE  Life' /\ SenderOrder'
<1>0. sends \in Nat /\ LogOK
  BY InvParts, RuntimeAssumption DEF FieldsOK
<1>1. /\ \A m \in Pending' : m \in Pending \/ m \in N
      /\ \A m \in Unrouted' : m \in Unrouted \/ m \in N
  BY DEF Brings
<1>2. \A m \in N : ~RunsService(m) /\ ~HoldsPointer(m)
  BY DEF RunsService, HoldsPointer, ForService
<1>3. \A m : (HoldsPointer(m)' <=> HoldsPointer(m)) /\ (RunsService(m)' <=> RunsService(m))
  BY DEF RunsService, HoldsPointer, ForService
<1>4. \A m \in Pending : m \in Message /\ m.n \in Nat
  BY DEF Pending, Message, Envelope
<1>5. LifeOfMessages'
  <2>1. \A m \in Pending' : m.n <= sends'
    BY <1>0, <1>1, <1>4 DEF Life, LifeOfMessages
  <2>2. \A m \in Pending' :
          /\ HoldsPointer(m) => memory[m.svc] = "used"
          /\ m.id \in {"START_REQ", "CLOSE_RSP"} => m.svc \notin table
    BY <1>1, <1>2 DEF Life, LifeOfMessages
  <2>3. \A x, y \in Pending' : x.id = "START_REQ" /\ RunsService(y) => x.svc # y.svc
    BY <1>1, <1>2 DEF Life, LifeOfMessages
  <2> QED BY <1>3, <2>1, <2>2, <2>3 DEF LifeOfMessages
<1>6. LifeOfServices'
  <2>1. ASSUME NEW t \in Threads, Running(t)'
        PROVE  /\ memory'[running'[t]] = "used"
               /\ \A m \in Pending' : m.id = "START_REQ" => m.svc # running'[t]
    BY <1>1, <2>1 DEF Life, LifeOfServices
  <2>2. ASSUME NEW t \in Threads, pc'[t] = "last"
        PROVE  /\ running'[t] \notin table'
               /\ \A m \in Pending' : RunsService(m) => m.svc # running'[t]
    <3>1. Running(t)'
      BY <2>2 DEF Running
    <3>2. running'[t] = running[t] /\ pc[t] = "last"
      BY <2>2, <3>1
    <3> QED BY <1>1, <1>2, <3>2 DEF Life, LifeOfServices
  <2> QED BY <1>3, <2>1, <2>2 DEF Life, LifeOfServices
<1>7. LifeOfLog'
  <2>1. \A t \in Threads : pc[t] = "last" => pc'[t] = "last" /\ running'[t] = running[t]
    BY DEF Running
  <2>2. ASSUME NEW s \in Services, NEW i \in DOMAIN log[s]
        PROVE  log[s][i].n \in Nat /\ log[s][i].n <= sends'
    <3> DEFINE Line == [id: MsgIds, src: Services \union {NoService}, n: 0..MaxSends]
    <3>1. \A x \in Line : x.n \in Nat
      OBVIOUS
    <3>2. log[s] \in Seq(Line)
      BY <1>0 DEF LogOK
    <3> HIDE DEF Line
    <3>3. log[s][i] \in Line
      BY <3>2, ElementOfSeq, LenProperties
    <3>4. log[s][i].n \in Nat
      BY <3>1, <3>3
    <3> QED BY <1>0, <3>4 DEF Life, LifeOfLog
  <2>3. ASSUME NEW s \in Services, NEW i \in DOMAIN log[s], NEW m \in Pending',
               m.ptr \/ m \in Unrouted', log[s][i].id = "USER", m.id = "USER",
               m.svc = s, m.src = log[s][i].src
        PROVE  log[s][i].n < m.n
    <3>1. CASE m \in N
      <4>1. m.n \in Nat /\ sends < m.n
        BY <2>3, <3>1 DEF Message, Envelope
      <4>2. log[s][i].n \in Nat /\ log[s][i].n <= sends
        BY <2>2 DEF Life, LifeOfLog
      <4> QED BY <1>0, <4>1, <4>2
    <3>2. CASE m \notin N
      BY <1>1, <2>3, <3>2 DEF Life, LifeOfLog
    <3> QED BY <3>1, <3>2
  <2> QED BY <2>1, <2>2, <2>3 DEF Life, LifeOfLog
<1>8. SenderOrder'
  BY DEF SenderOrder
<1> QED BY <1>5, <1>6, <1>7, <1>8 DEF Life

\* The threads run the services they ran, or return from them.
RunsOn ==
    /\ \A t \in Threads : Running(t)' => Running(t) /\ running'[t] = running[t]
    /\ \A t \in Threads : pc[t] = "last" <=> pc'[t] = "last"

\* A step that moves messages, starts, closes and runs no service.
LEMMA QuietLife ==
    ASSUME Inv, Life, SenderOrder, UNCHANGED <<memory, table, log, sends>>, RunsOn,
           Brings({})
    PROVE  Life' /\ SenderOrder'
<1>1. sends' \in Nat /\ sends <= sends'
  BY InvParts, RuntimeAssumption DEF FieldsOK
<1> QED BY <1>1, LifeFrame DEF RunsOn

\* A message that neither starts nor closes a service, nor comes from one.
Plain(m) == m.id \notin {"START_REQ", "CLOSE_RSP", "USER"} /\ ~m.ptr /\ m.n = 0

LEMMA PlainFlow ==
    ASSUME Inv, Keeps, Kinds, Chain,
           NEW t \in Threads, NEW m \in Message, Plain(m), t = 0 \/ ForMaster(m),
           Post(t, m), UNCHANGED <<msgRxq, route, out>>,
           batch' = batch \/ (batch[t] # <<>> /\ Consume(t))
    PROVE  Kinds' /\ Chain' /\ Brings({m})
<1>1. QueuesOK /\ HostsOK
  BY InvParts
<1>2. \A x : Ahead(x, m) /\ Ahead(m, x) /\ Ahead(Routed(x), m)
  BY DEF Plain, Ahead, RunsService, ForService
<1>3. ~m.ptr /\ m.id # "USER"
  BY DEF Plain
<1> QED BY <1>1, <1>2, <1>3, PostFlow

\* A step that sends such a message, starts, closes and runs no service.
LEMMA PlainLife ==
    ASSUME Inv, Life, SenderOrder, UNCHANGED <<memory, table, log, sends>>, RunsOn,
           NEW m \in Message, Plain(m), Brings({m})
    PROVE  Life' /\ SenderOrder'
<1>1. sends' \in Nat /\ sends <= sends' /\ 0 <= sends'
  BY InvParts, RuntimeAssumption DEF FieldsOK
<1>2. \A x \in {m} : /\ x \in Message /\ ~x.ptr
                     /\ x.id \notin {"START_REQ", "CLOSE_RSP"}
                     /\ x.n <= sends'
                     /\ x.id = "USER" => sends < x.n
  BY <1>1 DEF Plain
<1> QED BY <1>1, <1>2, LifeFrame DEF RunsOn

\* What is pending, once more: the services it points to are in use.
LEMMA PendingLife ==
    ASSUME Inv, Life
    PROVE  /\ \A m \in Pending :
                /\ m \in Message
                /\ m.id \in {"START_REQ", "CLOSE_RSP"} \/ RunsService(m) =>
                     m.svc \in Services /\ memory[m.svc] = "used"
           /\ \A s \in table : s \in Services /\ memory[s] = "used"
<1>1. \A m \in Pending : m \in Message
  BY DEF Pending
<1>2. \A m \in Message :
        m.id \in {"START_REQ", "CLOSE_RSP"} \/ RunsService(m) =>
          m.svc \in Services /\ HoldsPointer(m)
  BY DEF Message, Envelope, Control, RunsService, HoldsPointer, ForService
<1>3. table \subseteq Services
  BY InvParts DEF HostsOK
<1> QED BY <1>1, <1>2, <1>3 DEF Life, LifeOfMessages, LifeOfServices

LEMMA StartServiceFlow ==
    ASSUME Inv, Keeps, Kinds, Chain, Life, SenderOrder, NEW t \in Threads,
           NEW s \in Services, NEW on \in Hosts \union {NoThread}, StartService(t, s, on)
    PROVE  Kinds' /\ Chain' /\ Life' /\ SenderOrder'
<1>0. QueuesOK /\ HostsOK /\ FieldsOK
  BY InvParts
<1>1. PICK m \in Message :
        m = Msg("START_REQ", s, 0) /\ m.id = "START_REQ" /\ m.svc = s
  BY ServiceMsg, ThreadsType
<1>2. ~m.ptr /\ m.n = 0 /\ ForMaster(m) /\ m.id # "USER" /\ ~RunsService(m)
  BY <1>1 DEF Msg, ForMaster, RunsService, ForService
<1>3. \A x \in Pending : x.id \in {"START_REQ", "CLOSE_RSP"} \/ RunsService(x) => x.svc # s
  BY PendingLife DEF StartService
<1>4. \A x \in Pending : Ahead(x, m) /\ Ahead(Routed(x), m) /\ Ahead(m, x)
  <2>1. \A x \in Pending : Ahead(x, m) /\ Ahead(m, x)
    BY <1>1, <1>2, <1>3 DEF Ahead
  <2>2. \A x \in Pending : Ahead(Routed(x), m)
    BY <1>1, <1>2, <1>3, RoutedMsg DEF Ahead, Pending
  <2> QED BY <2>1, <2>2
<1>5. UNCHANGED <<msgRxq, route, out, batch, table, log, sends, running, pc>> /\ Post(t, m)
  BY <1>1 DEF StartService, master, bounds
<1>6. Kinds' /\ Chain' /\ Brings({m})
  BY <1>0, <1>2, <1>4, <1>5, PostFlow
<1>7. /\ memory'[s] = "used"
      /\ \A r \in Services : memory[r] = "used" => memory'[r] = "used"
      /\ \A r \in Services : memory[r] \in {"freed", "reused"} => memory'[r] \in {"freed", "reused"}
  BY <1>0 DEF StartService, NewFlags, HostsOK
<1>8. memory[s] # "used" /\ s \notin table
  BY PendingLife DEF StartService
<1>9. /\ \A x \in Pending' : x \in Pending \/ x = m
      /\ \A x \in Unrouted' : x \in Unrouted \/ x = m
  BY <1>6 DEF Brings
<1>10. \A x : (HoldsPointer(x)' <=> HoldsPointer(x)) /\ (RunsService(x)' <=> RunsService(x))
  BY DEF RunsService, HoldsPointer, ForService
<1>11. LifeOfMessages'
  <2>1. ASSUME NEW x \in Pending', HoldsPointer(x) PROVE memory'[x.svc] = "used"
    <3>1. CASE x = m
      BY <1>1, <1>7, <3>1
    <3>2. CASE x \in Pending
      <4>1. memory[x.svc] = "used" /\ x.svc \in Services
        BY <2>1, <3>2, PendingLife DEF HoldsPointer, RunsService
      <4> QED BY <1>7, <4>1
    <3> QED BY <1>9, <3>1, <3>2
  <2>2. \A x \in Pending' : x.id \in {"START_REQ", "CLOSE_RSP"} => x.svc \notin table'
    BY <1>1, <1>5, <1>8, <1>9 DEF Life, LifeOfMessages
  <2>3. \A x \in Pending' : x.n <= sends'
    BY <1>0, <1>2, <1>5, <1>9 DEF Life, LifeOfMessages, FieldsOK
  <2>4. \A x, y \in Pending' : x.id = "START_REQ" /\ RunsService(y) => x.svc # y.svc
    BY <1>1, <1>2, <1>3, <1>9 DEF Life, LifeOfMessages
  <2> QED BY <1>10, <2>1, <2>2, <2>3, <2>4 DEF LifeOfMessages
<1>12. \A u \in Threads : (Running(u)' <=> Running(u)) /\ (Running(u) => running[u] \in Services)
  BY <1>0, <1>5 DEF Running, HostsOK
<1>13. LifeOfServices'
  <2>1. \A u \in Threads : Running(u) => running[u] # s
    BY <1>8 DEF Life, LifeOfServices
  <2>2. ASSUME NEW u \in Threads, Running(u)
        PROVE  /\ memory'[running[u]] = "used"
               /\ \A x \in Pending' : x.id = "START_REQ" => x.svc # running[u]
    BY <1>1, <1>7, <1>9, <1>12, <2>1, <2>2 DEF Life, LifeOfServices
  <2>3. \A u \in Threads : pc[u] = "last" =>
          /\ running[u] \notin table
          /\ \A x \in Pending' : RunsService(x) => x.svc # running[u]
    BY <1>2, <1>9 DEF Life, LifeOfServices
  <2>4. \A r \in table : memory'[r] = "used"
    BY <1>7, PendingLife
  <2> QED BY <1>5, <1>10, <1>12, <2>2, <2>3, <2>4 DEF LifeOfServices
<1>14. LifeOfLog'
  BY <1>1, <1>2, <1>5, <1>7, <1>9 DEF Life, LifeOfLog
<1>15. SenderOrder'
  BY <1>5 DEF SenderOrder
<1> QED BY <1>6, <1>11, <1>13, <1>14, <1>15 DEF Life

LEMMA SendUserFlow ==
    ASSUME Inv, Keeps, Kinds, Chain, Life, SenderOrder, NEW t \in Threads,
           NEW d \in Services, NEW full \in BOOLEAN, SendUser(t, d, full)
    PROVE  Kinds' /\ Chain' /\ Life' /\ SenderOrder'
<1>0. QueuesOK /\ HostsOK /\ FieldsOK
  BY InvParts
<1>1. /\ sends \in Nat /\ sends' = sends + 1 /\ sends + 1 \in 0..MaxSends
      /\ Running(t) /\ running[t] \in Services /\ thread[running[t]] = t
      /\ UNCHANGED <<msgRxq, route, out, batch, table, log, memory, running, pc>>
  BY <1>0, RuntimeAssumption DEF SendUser, FieldsOK, HostsOK, master, services
<1>2. PICK x \in Threads : x = IF full THEN Index(thread[d]) ELSE 0
  BY <1>0, ThreadsType DEF SendUser, HostsOK
<1>3. PICK m \in Message :
        m = UserMsg(d, x, running[t], sends + 1) /\ m.id = "USER" /\ ~m.ptr
  BY <1>1, UserMsgType
<1>4. m.n = sends + 1 /\ m.src = running[t] /\ ~RunsService(m) /\ ~ForMaster(m) /\ Post(t, m)
  BY <1>2, <1>3 DEF UserMsg, RunsService, ForService, ForMaster, SendUser
<1>5. \A y \in Pending : y.n < m.n /\ Ahead(y, m) /\ Ahead(Routed(y), m) /\ Ahead(m, y)
  <2>1. \A y \in Pending : y \in Message /\ y.n \in Nat /\ y.n <= sends
    BY DEF Pending, Message, Envelope, Life, LifeOfMessages
  <2>2. \A y \in Pending : y.n < m.n
    BY <1>1, <1>4, <2>1
  <2> QED BY <1>3, <1>4, <2>1, <2>2, RoutedMsg DEF Ahead
<1>6. Kinds' /\ Chain' /\ Brings({m})
  BY <1>0, <1>1, <1>3, <1>4, <1>5, PostFlow
<1>7. sends' \in Nat /\ sends <= sends' /\ sends < m.n /\ m.n <= sends'
  BY <1>1, <1>4
<1>8. Life' /\ SenderOrder'
  <2>1. RunsOn
    BY <1>1 DEF RunsOn, Running
  <2>2. \A y \in {m} : /\ y \in Message /\ ~y.ptr
                       /\ y.id \notin {"START_REQ", "CLOSE_RSP"}
                       /\ y.n <= sends'
                       /\ y.id = "USER" => sends < y.n
    BY <1>3, <1>7
  <2> QED BY <1>1, <1>6, <1>7, <2>1, <2>2, LifeFrame DEF RunsOn
<1> QED BY <1>6, <1>8

LEMMA LastReturnFlow ==
    ASSUME Inv, Keeps, Kinds, Chain, Life, SenderOrder, NEW t \in Threads, LastReturn(t)
    PROVE  Kinds' /\ Chain' /\ Life' /\ SenderOrder'
<1> DEFINE s == running[t]
<1>0. QueuesOK /\ HostsOK
  BY InvParts
<1>1. /\ UNCHANGED <<rx, txms, txmq, msgRxq, route, out, batch, table, log, sends>>
      /\ memory' = [memory EXCEPT ![s] = "freed"]
      /\ running' = [running EXCEPT ![t] = NoService]
      /\ pc' = [pc EXCEPT ![t] = "handle"] /\ pc[t] = "last"
  BY DEF LastReturn, queues, master, bounds, Goto
<1>2. Running(t) /\ s \in Services /\ thread[s] = t
  BY <1>0, <1>1 DEF Running, HostsOK
<1> HIDE DEF s
<1>3. Kinds' /\ Chain' /\ Brings({})
  BY <1>0, <1>1, QuietFlow
<1>4. \A u \in Threads : Running(u)' =>
        /\ u # t /\ Running(u) /\ running'[u] = running[u] /\ pc'[u] = pc[u]
        /\ running[u] \in Services /\ running[u] # s
  BY <1>0, <1>1, <1>2 DEF HostsOK, Running
<1>5. \A u \in Threads : pc'[u] = "last" => Running(u)'
  BY DEF Running
<1>6. \A u \in Threads : u # t => pc'[u] = pc[u] /\ running'[u] = running[u]
  BY <1>0, <1>1 DEF HostsOK
<1>7. memory'[s] = "freed" /\ \A r \in Services : r # s => memory'[r] = memory[r]
  BY <1>0, <1>1, <1>2 DEF HostsOK
<1>8. \A m \in Pending : m.id \in {"START_REQ", "CLOSE_RSP"} \/ RunsService(m) => m.svc # s
  <2>1. \A m \in Pending : m.id = "START_REQ" \/ RunsService(m) => m.svc # s
    BY <1>1, <1>2 DEF Life, LifeOfServices, s
  <2> QED BY <2>1 DEF RunsService
<1>9. s \notin table
  BY <1>1 DEF Life, LifeOfServices, s
<1>10. \A m : (HoldsPointer(m)' <=> HoldsPointer(m)) /\ (RunsService(m)' <=> RunsService(m))
  BY DEF RunsService, HoldsPointer, ForService
<1>11. \A m : HoldsPointer(m) => m.id \in {"START_REQ", "CLOSE_RSP"} \/ RunsService(m)
  BY DEF RunsService, HoldsPointer
<1>12. LifeOfMessages'
  <2>1. \A m \in Pending : HoldsPointer(m) => memory'[m.svc] = "used"
    BY <1>7, <1>8, <1>11, PendingLife
  <2> QED BY <1>1, <1>3, <1>10, <2>1 DEF Life, LifeOfMessages, Brings
<1>13. LifeOfServices'
  <2>1. \A u \in Threads : Running(u)' =>
          /\ memory'[running'[u]] = "used"
          /\ \A m \in Pending' : m.id = "START_REQ" => m.svc # running'[u]
    BY <1>3, <1>4, <1>7 DEF Life, LifeOfServices, Brings
  <2>2. \A u \in Threads : pc'[u] = "last" =>
          /\ running'[u] \notin table'
          /\ \A m \in Pending' : RunsService(m) => m.svc # running'[u]
    BY <1>1, <1>3, <1>4, <1>5 DEF Life, LifeOfServices, Brings
  <2>3. \A r \in table' : memory'[r] = "used"
    BY <1>1, <1>7, <1>9, PendingLife
  <2> QED BY <1>10, <2>1, <2>2, <2>3 DEF LifeOfServices
<1>14. LifeOfLog'
  <2>1. ASSUME NEW r \in Services,
               \/ memory[r] \in {"freed", "reused"}
               \/ \E u \in Threads : pc[u] = "last" /\ running[u] = r
        PROVE  \/ memory'[r] \in {"freed", "reused"}
               \/ \E u \in Threads : pc'[u] = "last" /\ running'[u] = r
    <3>1. CASE r = s
      BY <1>7, <3>1
    <3>2. CASE r # s
      BY <1>6, <1>7, <2>1, <3>2 DEF s
    <3> QED BY <3>1, <3>2
  <2> QED BY <1>1, <1>3, <2>1 DEF Life, LifeOfLog, Brings
<1>15. SenderOrder'
  BY <1>1 DEF SenderOrder
<1> QED BY <1>3, <1>12, <1>13, <1>14, <1>15 DEF Life

\* The calls of an entry.
LEMMA EntryFlow ==
    ASSUME Inv, Keeps, Kinds, Chain, Life, SenderOrder, NEW t \in Threads, Entry(t)
    PROVE  Kinds' /\ Chain' /\ Life' /\ SenderOrder'
<1>0. QueuesOK /\ HostsOK
  BY InvParts
<1>1. CASE CloseSelf(t)
  <2>1. /\ UNCHANGED <<rx, txms, txmq, msgRxq, route, out, batch>>
        /\ UNCHANGED <<memory, table, log, sends, running, pc>>
    BY <1>1 DEF CloseSelf, queues, master, bounds
  <2>2. RunsOn
    BY <2>1 DEF RunsOn, Running
  <2> QED BY <1>0, <2>1, <2>2, QuietFlow, QuietLife
<1>2. CASE MasterExit(t)
  <2>1. PICK m \in Message : m = Msg("MASTER_EXIT_REQ", NoService, 0) /\ m.id = "MASTER_EXIT_REQ"
    BY ControlMsg, ThreadsType DEF Control
  <2>2. Plain(m) /\ ForMaster(m)
    BY <2>1 DEF Plain, Msg, ForMaster
  <2>3. /\ UNCHANGED <<msgRxq, route, out, batch, memory, table, log, sends, running, pc>>
        /\ Post(t, m)
    BY <1>2, <2>1 DEF MasterExit, master, services
  <2>4. RunsOn
    BY <2>3 DEF RunsOn, Running
  <2> QED BY <2>2, <2>3, <2>4, PlainFlow, PlainLife
<1>3. CASE EntryReturn(t)
  <2>0. running[t] \in Services
    BY <1>0, <1>3 DEF HostsOK, EntryReturn, Running
  <2>1. PICK m \in Message : m = Msg("CLOSE_REQ", running[t], 0) /\ m.id = "CLOSE_REQ"
    BY <2>0, ServiceMsg, ThreadsType
  <2>2. Plain(m) /\ ForMaster(m)
    BY <2>1 DEF Plain, Msg, ForMaster
  <2>3. /\ UNCHANGED <<msgRxq, route, out, batch, memory, table, log, sends>>
        /\ Post(t, m) \/ UNCHANGED <<rx, txms, txmq>>
        /\ pc[t] = "entry" /\ pc' = [pc EXCEPT ![t] = "handle"]
        /\ running' = [running EXCEPT ![t] = NoService]
    BY <1>3, <2>1 DEF EntryReturn, master, bounds, Goto
  <2>4. RunsOn
    BY <1>0, <2>3 DEF RunsOn, Running, HostsOK
  <2>5. CASE Post(t, m)
    BY <2>2, <2>3, <2>4, <2>5, PlainFlow, PlainLife
  <2>6. CASE UNCHANGED <<rx, txms, txmq>>
    BY <1>0, <2>3, <2>4, <2>6, QuietFlow, QuietLife
  <2> QED BY <2>3, <2>5, <2>6
<1> QED BY <1>1, <1>2, <1>3, StartServiceFlow, SendUserFlow, LastReturnFlow DEF Entry

\* The entry of a service is given message m, which its log records.
LEMMA LogEntryFlow ==
    ASSUME Inv, Life, SenderOrder, NEW t \in Threads, batch[t] # <<>>, Brings({}),
           NEW m \in Message, m = Head(batch[t]), RunsService(m), pc[t] = "handle",
           \A y \in Pending' : RunsService(y) \/ y \in Unrouted' => Ahead(m, y),
           NEW l \in {"entry", "last"}, l = "last" <=> m.id = "CLOSE_RSP",
           pc' = [pc EXCEPT ![t] = l], running' = [running EXCEPT ![t] = m.svc],
           log' = [log EXCEPT ![m.svc] = Append(@, LogEntry(m))],
           UNCHANGED <<memory, table, sends>>
    PROVE  Life' /\ SenderOrder'
<1> DEFINE Line == [id: MsgIds, src: Services \union {NoService}, n: 0..MaxSends]
           s == m.svc
           e == LogEntry(m)
<1>0. QueuesOK /\ HostsOK /\ FieldsOK /\ LogOK
  BY InvParts
<1>1. m \in Pending
  <2>1. m \in Elements(batch[t])
    BY <1>0, ElementsTail DEF QueuesOK, BatchOK
  <2> QED BY <1>0, <2>1, PendingParts
<1>2. /\ s \in Services /\ memory[s] = "used"
      /\ \A y \in Pending : y.id = "START_REQ" => y.svc # s
      /\ m.n <= sends
      /\ m.id = "USER" => m.ptr
  BY <1>1, PendingLife DEF Life, LifeOfMessages, RunsService
<1>3. e \in Line /\ e.id = m.id /\ e.src = m.src /\ e.n = m.n
  BY DEF LogEntry, Message, Envelope
<1>4. /\ log[s] \in Seq(Line) /\ log \in [Services -> Seq(Line)]
  BY <1>0, <1>2 DEF LogOK
<1> HIDE DEF s, e, Line
<1>5. /\ Len(log[s]) \in Nat /\ DOMAIN log[s] = 1..Len(log[s])
      /\ DOMAIN log'[s] = 1..(Len(log[s]) + 1)
      /\ Len(log'[s]) = Len(log[s]) + 1
      /\ \A i \in 1..Len(log[s]) : log'[s][i] = log[s][i]
      /\ log'[s][Len(log[s]) + 1] = e
      /\ \A r \in Services : r # s => log'[r] = log[r]
  <2>1. log'[s] = Append(log[s], e) /\ \A r \in Services : r # s => log'[r] = log[r]
    BY <1>2, <1>4 DEF s, e
  <2> QED BY <1>3, <1>4, <2>1, AppendProperties, LenProperties
<1>6. /\ \A u \in Threads : u # t => pc'[u] = pc[u] /\ running'[u] = running[u]
      /\ pc'[t] = l /\ running'[t] = s
      /\ \A u \in Threads : u # t => (Running(u)' <=> Running(u))
  BY <1>0 DEF HostsOK, Running, s
<1>7. \A x : (HoldsPointer(x)' <=> HoldsPointer(x)) /\ (RunsService(x)' <=> RunsService(x))
  BY DEF RunsService, HoldsPointer, ForService
<1>8. LifeOfMessages'
  BY <1>7 DEF Life, LifeOfMessages, Brings
<1>9. LifeOfServices'
  <2>1. ASSUME NEW u \in Threads, Running(u)'
        PROVE  /\ memory'[running'[u]] = "used"
               /\ \A y \in Pending' : y.id = "START_REQ" => y.svc # running'[u]
    <3>1. CASE u = t
      BY <1>2, <1>6, <3>1 DEF Brings
    <3>2. CASE u # t
      BY <1>6, <2>1, <3>2 DEF Life, LifeOfServices, Brings
    <3> QED BY <3>1, <3>2
  <2>2. ASSUME NEW u \in Threads, pc'[u] = "last"
        PROVE  /\ running'[u] \notin table'
               /\ \A y \in Pending' : RunsService(y) => y.svc # running'[u]
    <3>1. CASE u = t
      <4>1. m.id = "CLOSE_RSP"
        BY <1>6, <2>2, <3>1
      <4>2. s \notin table
        BY <1>1, <4>1 DEF Life, LifeOfMessages, s
      <4>3. \A y \in Pending' : RunsService(y) => y.svc # s
        BY <4>1 DEF Ahead, s
      <4> QED BY <1>6, <3>1, <4>2, <4>3
    <3>2. CASE u # t
      BY <1>6, <2>2, <3>2 DEF Life, LifeOfServices, Brings
    <3> QED BY <3>1, <3>2
  <2> QED BY <1>7, <2>1, <2>2 DEF Life, LifeOfServices
<1>10. \A i \in DOMAIN log[s] : log[s][i].id # "CLOSE_RSP"
  <2>1. ASSUME NEW u \in Threads, pc[u] = "last", running[u] = s PROVE FALSE
    BY <1>1, <2>1 DEF Life, LifeOfServices, s
  <2> QED BY <1>2, <2>1 DEF Life, LifeOfLog
<1>11. LifeOfLog'
  <2>1. ASSUME NEW r \in Services, NEW i \in DOMAIN log'[r], log'[r][i].id = "CLOSE_RSP"
        PROVE  /\ i = Len(log'[r])
               /\ \/ memory'[r] \in {"freed", "reused"}
                  \/ \E u \in Threads : pc'[u] = "last" /\ running'[u] = r
    <3>1. CASE r = s
      <4>1. i = Len(log[s]) + 1
        BY <1>5, <1>10, <2>1, <3>1
      <4>2. m.id = "CLOSE_RSP"
        BY <1>3, <1>5, <2>1, <3>1, <4>1
      <4> QED BY <1>5, <1>6, <3>1, <4>1, <4>2
    <3>2. CASE r # s
      <4>1. log'[r] = log[r]
        BY <1>5, <3>2
      <4>2. /\ i = Len(log[r])
            /\ \/ memory[r] \in {"freed", "reused"}
               \/ \E u \in Threads : pc[u] = "last" /\ running[u] = r
        <5>1. i \in DOMAIN log[r] /\ log[r][i].id = "CLOSE_RSP"
          BY <2>1, <4>1
        <5> QED BY <5>1 DEF Life, LifeOfLog
      <4>3. pc[t] # "last"
        OBVIOUS
      <4> QED BY <1>6, <4>1, <4>2, <4>3
    <3> QED BY <3>1, <3>2
  <2>2. ASSUME NEW r \in Services, NEW i \in DOMAIN log'[r]
        PROVE  /\ log'[r][i].n <= sends'
               /\ \A y \in Pending' : y.ptr \/ y \in Unrouted' =>
                    (log'[r][i].id = "USER" /\ y.id = "USER" /\ y.svc = r
                       /\ y.src = log'[r][i].src => log'[r][i].n < y.n)
    <3>1. CASE r = s /\ i = Len(log[s]) + 1
      <4>1. log'[r][i] = e
        BY <1>5, <3>1
      <4>2. ASSUME NEW y \in Pending', y.ptr \/ y \in Unrouted', e.id = "USER", y.id = "USER",
                   y.svc = r, y.src = e.src
            PROVE  e.n < y.n
        <5>1. RunsService(y) \/ y \in Unrouted'
          BY <4>2 DEF RunsService, ForService
        <5> QED BY <1>2, <1>3, <3>1, <4>2, <5>1 DEF Ahead, s
      <4> QED BY <1>2, <1>3, <4>1, <4>2
    <3>2. CASE ~(r = s /\ i = Len(log[s]) + 1)
      <4>1. i \in DOMAIN log[r] /\ log'[r][i] = log[r][i]
        BY <1>5, <2>2, <3>2
      <4> QED BY <4>1 DEF Life, LifeOfLog, Brings
    <3> QED BY <3>1, <3>2
  <2> QED BY <2>1, <2>2 DEF LifeOfLog
<1>12. SenderOrder'
  <2> DEFINE k == Len(log[s]) + 1
  <2>1. /\ \A i, j \in DOMAIN log'[s] : i < j => i \in DOMAIN log[s]
        /\ \A i \in DOMAIN log'[s] : i \in DOMAIN log[s] \/ i = k
    BY <1>5
  <2>2. \A i \in DOMAIN log[s] : log'[s][i] = log[s][i]
    BY <1>5
  <2>3. log'[s][k] = e /\ \A r \in Services : r # s => log'[r] = log[r]
    BY <1>5
  <2> HIDE DEF k
  <2>4. ASSUME NEW r \in Services, NEW i \in DOMAIN log'[r], NEW j \in DOMAIN log'[r],
               i < j, log'[r][i].id = "USER", log'[r][j].id = "USER",
               log'[r][i].src = log'[r][j].src
        PROVE  log'[r][i].n < log'[r][j].n
    <3>1. CASE r = s /\ j = k
      <4>1. i \in DOMAIN log[s] /\ log'[r][i] = log[s][i] /\ log'[r][j] = e
        BY <2>1, <2>2, <2>3, <2>4, <3>1
      <4>2. m.id = "USER" /\ m.ptr /\ log[s][i].id = "USER" /\ m.src = log[s][i].src
        BY <1>2, <1>3, <2>4, <4>1
      <4>3. log[s][i].n < m.n
        BY <1>1, <1>2, <4>1, <4>2 DEF Life, LifeOfLog, s
      <4> QED BY <1>3, <4>1, <4>3
    <3>2. CASE ~(r = s /\ j = k)
      <4>1. /\ i \in DOMAIN log[r] /\ log'[r][i] = log[r][i]
            /\ j \in DOMAIN log[r] /\ log'[r][j] = log[r][j]
        BY <2>1, <2>2, <2>3, <2>4, <3>2
      <4> QED BY <2>4, <4>1 DEF SenderOrder
    <3> QED BY <3>1, <3>2
  <2> SUFFICES ASSUME NEW r \in Services, NEW i \in DOMAIN log'[r], NEW j \in DOMAIN log'[r],
                      i < j, log'[r][i].id = "USER", log'[r][j].id = "USER",
                      log'[r][i].src = log'[r][j].src
               PROVE  log'[r][i].n < log'[r][j].n
    BY DEF SenderOrder
  <2> QED BY <2>4
<1> QED BY <1>8, <1>9, <1>11, <1>12 DEF Life

\* A thread handles a message for a service, or its close message.
LEMMA ServiceMsgFlow ==
    ASSUME Inv, Keeps, Kinds, Chain, Life, SenderOrder, NEW t \in Threads,
           HandleServiceMsg(t) \/ HandleCloseRsp(t)
    PROVE  Kinds' /\ Chain' /\ Life' /\ SenderOrder'
<1> DEFINE m == Head(batch[t])
<1>0. QueuesOK /\ HostsOK
  BY InvParts
<1>1. /\ UNCHANGED <<rx, txms, txmq, msgRxq, route, out, thread, memory, table, sends>>
      /\ pc[t] = "handle" /\ batch[t] # <<>> /\ Consume(t)
  BY DEF HandleServiceMsg, HandleCloseRsp, Handling, queues, master, bounds
<1>2. Kinds' /\ Chain' /\ Brings({})
  BY <1>0, <1>1, QuietFlow
<1>3. m \in Message
  BY <1>0, <1>1, HeadOK DEF QueuesOK
<1> HIDE DEF m
<1>4. CASE UNCHANGED <<log, running, pc>>
  <2>1. RunsOn
    BY <1>4 DEF RunsOn, Running
  <2> QED BY <1>1, <1>2, <1>4, <2>1, QuietLife
<1>5. ASSUME RunsService(m), NEW l \in {"entry", "last"}, l = "last" <=> m.id = "CLOSE_RSP",
             pc' = [pc EXCEPT ![t] = l], running' = [running EXCEPT ![t] = m.svc],
             log' = [log EXCEPT ![m.svc] = Append(@, LogEntry(m))]
      PROVE  Life' /\ SenderOrder'
  <2>1. \A y \in Pending' : RunsService(y) \/ y \in Unrouted' => Ahead(m, y)
    BY <1>0, <1>1, <1>5, HeadAhead DEF m
  <2> QED BY <1>1, <1>2, <1>3, <1>5, <2>1, LogEntryFlow DEF m
<1>6. CASE HandleServiceMsg(t) /\ ~UNCHANGED <<log, running, pc>>
  <2>1. /\ ForService(m) /\ m.ptr
        /\ pc' = [pc EXCEPT ![t] = "entry"] /\ running' = [running EXCEPT ![t] = m.svc]
        /\ log' = [log EXCEPT ![m.svc] = Append(@, LogEntry(m))]
    BY <1>6 DEF HandleServiceMsg, Goto, m
  <2>2. RunsService(m) /\ m.id # "CLOSE_RSP"
    BY <2>1 DEF RunsService, ForService
  <2> QED BY <1>2, <1>5, <2>1, <2>2
<1>7. CASE HandleCloseRsp(t)
  <2>1. /\ m.id = "CLOSE_RSP"
        /\ pc' = [pc EXCEPT ![t] = "last"] /\ running' = [running EXCEPT ![t] = m.svc]
        /\ log' = [log EXCEPT ![m.svc] = Append(@, LogEntry(m))]
    BY <1>7 DEF HandleCloseRsp, Handling, Goto, m
  <2>2. RunsService(m)
    BY <2>1 DEF RunsService
  <2> QED BY <1>2, <1>5, <2>1, <2>2
<1> QED BY <1>2, <1>4, <1>6, <1>7

\* The master puts a service into the table: its start message was the only
\* one, and it has no close message.
LEMMA HandleStartReqFlow ==
    ASSUME Inv, Keeps, Kinds, Chain, Life, SenderOrder, QueuesOK', HandleStartReq
    PROVE  Kinds' /\ Chain' /\ Life' /\ SenderOrder'
<1> DEFINE h == Head(batch[0])
           s == h.svc
<1>0. QueuesOK /\ HostsOK /\ 0 \in Threads
  BY InvParts, ThreadsType
<1>1. /\ UNCHANGED <<msgRxq, route, out, memory, log, sends, pc, running>>
      /\ batch[0] # <<>> /\ h.id = "START_REQ" /\ Consume(0)
      /\ table' = table \union {s}
  BY DEF HandleStartReq, Handling, bounds
<1>2. PICK t \in Threads : Post(0, Msg("START_RSP", s, Index(t)))
  BY DEF HandleStartReq
<1>3. h \in Pending
  <2>1. h \in Elements(batch[0])
    BY <1>0, <1>1, ElementsTail DEF QueuesOK, BatchOK
  <2> QED BY <1>0, <2>1, PendingParts
<1>4. s \in Services /\ memory[s] = "used"
  BY <1>1, <1>3, PendingLife
<1>5. PICK m \in Message : m = Msg("START_RSP", s, Index(t)) /\ m.id = "START_RSP" /\ m.svc = s
  BY <1>4, ServiceMsg, ThreadsType
<1>6. Plain(m) /\ ~ForMaster(m) /\ ~RunsService(m) /\ ~HoldsPointer(m)
  BY <1>5 DEF Plain, Msg, ForMaster, RunsService, HoldsPointer, ForService
<1>7. Kinds' /\ Chain' /\ Brings({m})
  BY <1>0, <1>1, <1>2, <1>5, <1>6, PlainFlow
<1>8. \A y \in Pending' : y.id = "START_REQ" => y.svc # s
  <2>1. UNCHANGED <<rx, txms, out>>
    BY <1>1, <1>2, <1>5, <1>6 DEF Post
  <2> QED BY <1>0, <1>1, <1>7, <2>1, StartAhead
<1>9. \A y \in Pending : y.id = "CLOSE_RSP" => y.svc # s
  BY <1>1, <1>3 DEF Life, LifeOfMessages, RunsService
<1>10. \A u \in Threads : Running(u) => running[u] # s
  BY <1>1, <1>3 DEF Life, LifeOfServices
<1> HIDE DEF h, s
<1>11. \A x : (HoldsPointer(x)' <=> HoldsPointer(x)) /\ (RunsService(x)' <=> RunsService(x))
  BY DEF RunsService, HoldsPointer, ForService
<1>12. /\ \A x \in Pending' : x \in Pending \/ x = m
       /\ \A x \in Unrouted' : x \in Unrouted \/ x = m
  BY <1>7 DEF Brings
<1>13. LifeOfMessages'
  <2>1. \A x \in Pending' : HoldsPointer(x) => memory'[x.svc] = "used"
    BY <1>1, <1>6, <1>12 DEF Life, LifeOfMessages
  <2>2. \A x \in Pending' : x.id \in {"START_REQ", "CLOSE_RSP"} => x.svc \notin table'
    BY <1>1, <1>5, <1>8, <1>9, <1>12 DEF Life, LifeOfMessages
  <2>3. \A x \in Pending' : x.n <= sends'
    <3>1. m.n <= sends'
      BY <1>1, <1>6, InvParts, RuntimeAssumption DEF Plain, FieldsOK
    <3> QED BY <1>1, <1>12, <3>1 DEF Life, LifeOfMessages
  <2>4. \A x, y \in Pending' : x.id = "START_REQ" /\ RunsService(y) => x.svc # y.svc
    BY <1>5, <1>6, <1>12 DEF Life, LifeOfMessages
  <2> QED BY <1>11, <2>1, <2>2, <2>3, <2>4 DEF LifeOfMessages
<1>14. LifeOfServices'
  <2>1. \A u \in Threads : Running(u)' =>
          /\ Running(u) /\ memory'[running'[u]] = "used"
          /\ \A x \in Pending' : x.id = "START_REQ" => x.svc # running'[u]
    BY <1>1, <1>5, <1>12 DEF Life, LifeOfServices, Running
  <2>2. \A u \in Threads : pc'[u] = "last" =>
          /\ running'[u] \notin table'
          /\ \A x \in Pending' : RunsService(x) => x.svc # running'[u]
    BY <1>1, <1>6, <1>10, <1>12 DEF Life, LifeOfServices, Running
  <2>3. \A r \in table' : memory'[r] = "used"
    BY <1>1, <1>4 DEF Life, LifeOfServices
  <2> QED BY <1>11, <2>1, <2>2, <2>3 DEF LifeOfServices
<1>15. LifeOfLog'
  BY <1>1, <1>5, <1>12 DEF Life, LifeOfLog
<1>16. SenderOrder'
  BY <1>1 DEF SenderOrder
<1> QED BY <1>7, <1>13, <1>14, <1>15, <1>16 DEF Life

\* The master takes a service out of the table and sends it its close message,
\* which is thus its only one.
LEMMA RemoveFlow ==
    ASSUME Inv, Keeps, Kinds, Chain, Life, SenderOrder, NEW s \in table, Remove(s),
           UNCHANGED <<msgRxq, route, out, memory, log, sends, pc, running, thread>>,
           batch' = batch \/ (batch[0] # <<>> /\ Consume(0))
    PROVE  Kinds' /\ Chain' /\ Life' /\ SenderOrder'
<1>0. QueuesOK /\ HostsOK /\ 0 \in Threads
  BY InvParts, ThreadsType
<1>1. s \in Services /\ memory[s] = "used" /\ thread[s] \in Threads
  BY <1>0, PendingLife DEF HostsOK
<1>2. PICK m \in Message :
        m = Msg("CLOSE_RSP", s, Index(thread[s])) /\ m.id = "CLOSE_RSP" /\ m.svc = s
  BY <1>1, ServiceMsg, ThreadsType
<1>3. ~m.ptr /\ m.n = 0 /\ ~ForMaster(m) /\ m.id # "USER" /\ Post(0, m) /\ table' = table \ {s}
  BY <1>2 DEF Msg, ForMaster, Remove
<1>4. \A x \in Pending : x.id \in {"START_REQ", "CLOSE_RSP"} => x.svc # s
  BY DEF Life, LifeOfMessages
<1>5. \A x \in Pending : Ahead(x, m) /\ Ahead(Routed(x), m)
  <2>1. \A x \in Pending : Ahead(x, m)
    BY <1>2, <1>4 DEF Ahead
  <2>2. \A x \in Pending : Ahead(Routed(x), m)
    BY <1>2, <1>4, RoutedMsg DEF Ahead, Pending
  <2> QED BY <2>1, <2>2
<1>6. Kinds' /\ Chain' /\ Brings({m})
  BY <1>0, <1>3, <1>5, PostFlow
<1>7. /\ \A x \in Pending' : x \in Pending \/ x = m
      /\ \A x \in Unrouted' : x \in Unrouted \/ x = m
  BY <1>6 DEF Brings
<1>8. \A x : (HoldsPointer(x)' <=> HoldsPointer(x)) /\ (RunsService(x)' <=> RunsService(x))
  BY DEF RunsService, HoldsPointer, ForService
<1>9. LifeOfMessages'
  <2>1. \A x \in Pending' : HoldsPointer(x) => memory'[x.svc] = "used"
    BY <1>1, <1>2, <1>7 DEF Life, LifeOfMessages
  <2>2. \A x \in Pending' : x.id \in {"START_REQ", "CLOSE_RSP"} => x.svc \notin table'
    BY <1>2, <1>3, <1>7 DEF Life, LifeOfMessages
  <2>3. \A x \in Pending' : x.n <= sends'
    <3>1. m.n <= sends'
      BY <1>3, InvParts, RuntimeAssumption DEF FieldsOK
    <3> QED BY <1>7, <3>1 DEF Life, LifeOfMessages
  <2>4. \A x, y \in Pending' : x.id = "START_REQ" /\ RunsService(y) => x.svc # y.svc
    BY <1>2, <1>4, <1>7 DEF Life, LifeOfMessages
  <2> QED BY <1>8, <2>1, <2>2, <2>3, <2>4 DEF LifeOfMessages
<1>10. LifeOfServices'
  <2>1. \A u \in Threads : Running(u)' =>
          /\ Running(u) /\ memory'[running'[u]] = "used"
          /\ \A x \in Pending' : x.id = "START_REQ" => x.svc # running'[u]
    BY <1>2, <1>7 DEF Life, LifeOfServices, Running
  <2>2. \A u \in Threads : pc'[u] = "last" =>
          /\ running'[u] \notin table'
          /\ \A x \in Pending' : RunsService(x) => x.svc # running'[u]
    BY <1>2, <1>3, <1>7 DEF Life, LifeOfServices, Running
  <2>3. \A r \in table' : memory'[r] = "used"
    BY <1>3 DEF Life, LifeOfServices
  <2> QED BY <1>8, <2>1, <2>2, <2>3 DEF LifeOfServices
<1>11. LifeOfLog'
  BY <1>2, <1>7 DEF Life, LifeOfLog
<1>12. SenderOrder'
  BY DEF SenderOrder
<1> QED BY <1>6, <1>9, <1>10, <1>11, <1>12 DEF Life

\* The other messages to the master, and its loop.
LEMMA MasterHandleFlow ==
    ASSUME Inv, Keeps, QueuesOK', Kinds, Chain, Life, SenderOrder, MasterHandle
    PROVE  Kinds' /\ Chain' /\ Life' /\ SenderOrder'
<1>0. QueuesOK /\ HostsOK /\ 0 \in Threads
  BY InvParts, ThreadsType
<1>1. CASE HandleCloseReq
  <2> DEFINE s == Head(batch[0]).svc
  <2>1. /\ UNCHANGED <<msgRxq, route, out, memory, log, sends, pc, running, thread>>
        /\ batch[0] # <<>> /\ Consume(0)
        /\ \/ s \in table /\ Remove(s)
           \/ UNCHANGED <<table, rx, txms, txmq>>
    BY <1>1 DEF HandleCloseReq, Handling, Found, services, bounds
  <2> HIDE DEF s
  <2>2. CASE UNCHANGED <<table, rx, txms, txmq>>
    <3>1. RunsOn
      BY <2>1 DEF RunsOn, Running
    <3> QED BY <1>0, <2>1, <2>2, <3>1, QuietFlow, QuietLife
  <2>3. CASE s \in table /\ Remove(s)
    BY <2>1, <2>3, RemoveFlow
  <2> QED BY <2>1, <2>2, <2>3
<1>2. ASSUME NEW s \in Services, HandleExitService(s)
      PROVE  Kinds' /\ Chain' /\ Life' /\ SenderOrder'
  <2>1. /\ UNCHANGED <<msgRxq, route, out, memory, log, sends, pc, running, thread, batch>>
        /\ s \in table /\ Remove(s)
    BY <1>2 DEF HandleExitService, services, bounds
  <2> QED BY <2>1, RemoveFlow
<1>3. CASE HandleExitWorker
  <2>1. /\ UNCHANGED <<msgRxq, route, out, memory, table, log, sends, pc, running, batch>>
        /\ \/ Post(0, Msg("WORKER_EXIT_REQ", NoService, sweep + 1))
           \/ UNCHANGED <<rx, txms, txmq>>
        /\ sweep < NumWorkers /\ sweep \in 0..NumWorkers
    BY <1>3, InvParts DEF HandleExitWorker, services, bounds, FieldsOK
  <2>2. sweep + 1 \in Threads
    BY <2>1, RuntimeAssumption DEF Threads
  <2>3. PICK m \in Message :
          m = Msg("WORKER_EXIT_REQ", NoService, sweep + 1) /\ m.id = "WORKER_EXIT_REQ"
    BY <2>2, ControlMsg DEF Control
  <2>4. Plain(m)
    BY <2>3 DEF Plain, Msg
  <2>5. RunsOn
    BY <2>1 DEF RunsOn, Running
  <2>6. CASE Post(0, m)
    BY <1>0, <2>1, <2>4, <2>5, <2>6, PlainFlow, PlainLife
  <2>7. CASE UNCHANGED <<rx, txms, txmq>>
    BY <1>0, <2>1, <2>5, <2>7, QuietFlow, QuietLife
  <2> QED BY <2>1, <2>3, <2>6, <2>7
<1>4. CASE HandleExitDone
  <2>1. /\ UNCHANGED <<msgRxq, route, out, memory, table, log, sends, pc, running>>
        /\ batch[0] # <<>> /\ Consume(0)
        /\ \/ Post(0, Msg("WORKER_EXIT_RSP", NoService, 0))
           \/ UNCHANGED <<rx, txms, txmq>>
    BY <1>4 DEF HandleExitDone, Handling, services, bounds
  <2>2. PICK m \in Message :
          m = Msg("WORKER_EXIT_RSP", NoService, 0) /\ m.id = "WORKER_EXIT_RSP"
    BY <1>0, ControlMsg DEF Control
  <2>3. Plain(m)
    BY <2>2 DEF Plain, Msg
  <2>4. RunsOn
    BY <2>1 DEF RunsOn, Running
  <2>5. CASE Post(0, m)
    BY <1>0, <2>1, <2>3, <2>4, <2>5, PlainFlow, PlainLife
  <2>6. CASE UNCHANGED <<rx, txms, txmq>>
    BY <1>0, <2>1, <2>4, <2>6, QuietFlow, QuietLife
  <2> QED BY <2>1, <2>2, <2>5, <2>6
<1>5. CASE HandleWorkerExitRsp
  <2>1. /\ UNCHANGED <<rx, txms, txmq, msgRxq, route, out>>
        /\ UNCHANGED <<memory, table, log, sends, running>>
        /\ batch[0] # <<>> /\ Consume(0) /\ pc[0] = "handle"
        /\ pc' = [pc EXCEPT ![0] = "join"] \/ pc' = [pc EXCEPT ![0] = "handle"]
    BY <1>5 DEF HandleWorkerExitRsp, Handling, Goto, queues, services, bounds
  <2>2. RunsOn
    BY <1>0, <2>1 DEF RunsOn, Running, HostsOK
  <2> QED BY <1>0, <2>1, <2>2, QuietFlow, QuietLife
<1> QED BY <1>0, <1>1, <1>2, <1>3, <1>4, <1>5, HandleStartReqFlow, ServiceMsgFlow, EntryFlow
        DEF MasterHandle

\* What the master routes to a service that is in the table is still in order,
\* and finds the service in use.
LEMMA RouteLife ==
    ASSUME Inv, Keeps, Kinds, Chain, Life, SenderOrder, MasterRoute
    PROVE  Kinds' /\ Chain' /\ Life' /\ SenderOrder'
<1>0. QueuesOK /\ LifeOfMessages
  BY InvParts DEF Life
<1>1. Kinds' /\ Chain'
  BY <1>0, RouteFlow
<1>2. PICK h \in Pending : /\ Brings({Routed(h)})
                           /\ Brings({}) \/ ~Dropped(Routed(h))
                           /\ h \in Unrouted /\ h \in Message /\ ~ForMaster(h)
  BY <1>0, RouteFlow
<1> DEFINE m == Routed(h)
<1>3. UNCHANGED <<memory, table, log, sends, pc, running>>
  BY DEF MasterRoute, services, bounds
<1>4. /\ m.id = h.id /\ m.svc = h.svc /\ m.src = h.src /\ m.n = h.n
      /\ ~Dropped(m) /\ ForService(m) => m.svc \in table
  BY <1>2, RoutedMsg DEF Dropped
<1> HIDE DEF m
<1>5. CASE Brings({})
  <2>1. RunsOn
    BY <1>3 DEF RunsOn, Running
  <2> QED BY <1>1, <1>3, <1>5, <2>1, QuietLife
<1>6. CASE ~Dropped(m)
  <2>1. /\ \A x \in Pending' : x \in Pending \/ x = m
        /\ \A x \in Unrouted' : x \in Unrouted \/ x = m
    BY <1>2 DEF Brings, m
  <2>2. /\ m.id # "START_REQ"
        /\ RunsService(m) \/ HoldsPointer(m) => m.id = "CLOSE_RSP" \/ m.svc \in table
    BY <1>2, <1>4, <1>6 DEF ForMaster, RunsService, HoldsPointer
  <2>3. RunsService(m) =>
          /\ \A x \in Pending : x.id = "START_REQ" => x.svc # m.svc
          /\ \A u \in Threads : pc[u] = "last" => running[u] # m.svc
    <3>1. CASE m.id = "CLOSE_RSP"
      <4>1. RunsService(h)
        BY <1>4, <3>1 DEF RunsService
      <4> QED BY <1>2, <1>4, <4>1 DEF Life, LifeOfMessages, LifeOfServices
    <3>2. CASE m.svc \in table
      BY <3>2 DEF Life, LifeOfMessages, LifeOfServices
    <3> QED BY <2>2, <3>1, <3>2
  <2>4. HoldsPointer(m) => memory[m.svc] = "used"
    <3>1. CASE m.id = "CLOSE_RSP"
      <4>1. HoldsPointer(h)
        BY <1>4, <3>1 DEF HoldsPointer
      <4> QED BY <1>2, <1>4, <4>1 DEF Life, LifeOfMessages
    <3> QED BY <2>2, <3>1 DEF Life, LifeOfServices
  <2>5. \A x : (HoldsPointer(x)' <=> HoldsPointer(x)) /\ (RunsService(x)' <=> RunsService(x))
    BY DEF RunsService, HoldsPointer, ForService
  <2>6. LifeOfMessages'
    <3>1. \A x \in Pending' : /\ HoldsPointer(x) => memory'[x.svc] = "used"
                              /\ x.id \in {"START_REQ", "CLOSE_RSP"} => x.svc \notin table'
                              /\ x.n <= sends'
      BY <1>2, <1>3, <1>4, <2>1, <2>4 DEF Life, LifeOfMessages
    <3>2. \A x, y \in Pending' : x.id = "START_REQ" /\ RunsService(y) => x.svc # y.svc
      BY <2>1, <2>2, <2>3 DEF Life, LifeOfMessages
    <3> QED BY <2>5, <3>1, <3>2 DEF LifeOfMessages
  <2>7. LifeOfServices'
    <3>1. \A u \in Threads : Running(u)' =>
            /\ Running(u) /\ memory'[running'[u]] = "used"
            /\ \A x \in Pending' : x.id = "START_REQ" => x.svc # running'[u]
      BY <1>3, <2>1, <2>2 DEF Life, LifeOfServices, Running
    <3>2. \A u \in Threads : pc'[u] = "last" =>
            /\ running'[u] \notin table'
            /\ \A x \in Pending' : RunsService(x) => x.svc # running'[u]
      BY <1>3, <2>1, <2>3 DEF Life, LifeOfServices
    <3> QED BY <1>3, <2>5, <3>1, <3>2 DEF Life, LifeOfServices
  <2>8. LifeOfLog'
    BY <1>2, <1>3, <1>4, <2>1 DEF Life, LifeOfLog
  <2>9. SenderOrder'
    BY <1>3 DEF SenderOrder
  <2> QED BY <1>1, <2>6, <2>7, <2>8, <2>9 DEF Life
<1> QED BY <1>2, <1>5, <1>6 DEF m

LEMMA MasterStepFlow ==
    ASSUME Inv, Keeps, QueuesOK', Kinds, Chain, Life, SenderOrder, MasterStep
    PROVE  Kinds' /\ Chain' /\ Life' /\ SenderOrder'
<1>0. QueuesOK /\ HostsOK /\ 0 \in Threads
  BY InvParts, ThreadsType
<1>1. ASSUME UNCHANGED <<rx, txms, txmq, msgRxq, route, out, batch>>,
             UNCHANGED <<memory, table, log, sends, running>>, Goto(0, "take") \/ Goto(0, "deliver")
               \/ Goto(0, "wait") \/ Goto(0, "done"),
             ~Running(0)
      PROVE  Kinds' /\ Chain' /\ Life' /\ SenderOrder'
  <2>1. RunsOn
    BY <1>0, <1>1 DEF RunsOn, Running, HostsOK, Goto
  <2> QED BY <1>0, <1>1, <2>1, QuietFlow, QuietLife
<1>2. CASE MasterWait
  BY <1>1, <1>2 DEF MasterWait, queues, master, services, bounds, Running
<1>3. CASE MasterRouted
  BY <1>1, <1>3 DEF MasterRouted, queues, master, services, bounds, Running
<1>4. CASE MasterDelivered
  BY <1>1, <1>4 DEF MasterDelivered, queues, master, services, bounds, Running
<1>5. CASE MasterJoin
  BY <1>1, <1>5 DEF MasterJoin, queues, master, services, bounds, Running
<1>6. CASE MasterTake
  <2>1. RunsOn /\ UNCHANGED <<memory, table, log, sends>>
    BY <1>0, <1>6 DEF MasterTake, RunsOn, Running, HostsOK, Goto, services, bounds
  <2> QED BY <1>0, <1>6, <2>1, MasterTakeFlow, QuietLife
<1>7. CASE MasterGet
  <2>1. RunsOn /\ UNCHANGED <<memory, table, log, sends>>
    BY <1>0, <1>7 DEF MasterGet, RunsOn, Running, HostsOK, Goto, services, bounds
  <2> QED BY <1>0, <1>7, <2>1, MasterGetFlow, QuietLife
<1>8. ASSUME NEW w \in Workers, MasterDeliver(w)
      PROVE  Kinds' /\ Chain' /\ Life' /\ SenderOrder'
  <2>1. RunsOn /\ UNCHANGED <<memory, table, log, sends>>
    BY <1>8 DEF MasterDeliver, RunsOn, Running, services, bounds
  <2> QED BY <1>0, <1>8, <2>1, DeliverFlow, QuietLife
<1> QED BY <1>2, <1>3, <1>4, <1>5, <1>6, <1>7, <1>8, MasterHandleFlow, RouteLife DEF MasterStep

LEMMA WorkerStepFlow ==
    ASSUME Inv, Keeps, Kinds, Chain, Life, SenderOrder, NEW w \in Workers, WorkerStep(w)
    PROVE  Kinds' /\ Chain' /\ Life' /\ SenderOrder'
<1>0. QueuesOK /\ HostsOK /\ w \in Threads
  BY InvParts, ThreadsType
<1>1. CASE HandleWorkerExitReq(w)
  <2>1. /\ UNCHANGED <<msgRxq, route, out, memory, table, log, sends, pc, running>>
        /\ batch[w] # <<>> /\ Consume(w) /\ Post(w, Msg("WORKER_EXIT_RSP", NoService, w))
    BY <1>1 DEF HandleWorkerExitReq, Handling, master, services, bounds
  <2>2. PICK m \in Message :
          m = Msg("WORKER_EXIT_RSP", NoService, w) /\ m.id = "WORKER_EXIT_RSP"
    BY <1>0, ControlMsg DEF Control
  <2>3. Plain(m) /\ ForMaster(m)
    BY <2>2 DEF Plain, Msg, ForMaster
  <2>4. RunsOn
    BY <2>1 DEF RunsOn, Running
  <2> QED BY <1>0, <2>1, <2>2, <2>3, <2>4, PlainFlow, PlainLife
<1>2. CASE WorkerTake(w)
  <2>1. RunsOn /\ UNCHANGED <<memory, table, log, sends>>
    BY <1>0, <1>2 DEF WorkerTake, RunsOn, Running, HostsOK, Goto, master, services, bounds
  <2> QED BY <1>0, <1>2, <2>1, TakeFlow, QuietLife
<1>3. CASE WorkerFlushToMaster(w)
  <2>1. RunsOn /\ UNCHANGED <<memory, table, log, sends>>
    BY <1>0, <1>3 DEF WorkerFlushToMaster, RunsOn, Running, HostsOK, Goto, master, services, bounds
  <2> QED BY <1>0, <1>3, <2>1, FlushToMasterFlow, QuietLife
<1>4. CASE WorkerFlushToServices(w)
  <2>1. RunsOn /\ UNCHANGED <<memory, table, log, sends>>
    BY <1>0, <1>4 DEF WorkerFlushToServices, RunsOn, Running, HostsOK, Goto, master, services, bounds
  <2> QED BY <1>0, <1>4, <2>1, FlushToServicesFlow, QuietLife
<1> QED BY <1>0, <1>1, <1>2, <1>3, <1>4, ServiceMsgFlow, EntryFlow DEF WorkerStep

-----------------------------------------------------------------------------
(* The weight of a worker.                                                 *)

\* The services of the table that run on worker w.
Load(w) == {s \in table : thread[s] = w}

LEMMA LoadFinite ==
    ASSUME HostsOK, NEW w \in Workers
    PROVE  IsFiniteSet(Load(w)) /\ Cardinality(Load(w)) \in Nat
<1>1. IsFiniteSet(Services) /\ Load(w) \in SUBSET Services
  BY RuntimeAssumption DEF Load, HostsOK
<1>2. IsFiniteSet(Load(w))
  BY <1>1, FS_Subset
<1> QED BY <1>2, FS_CardinalityType

\* A service that leaves the table was in it.
LEMMA RemoveWeight ==
    ASSUME Inv, WeightIsLoad, NEW s \in table, Remove(s), thread' = thread
    PROVE  WeightIsLoad'
<1>0. HostsOK /\ weight \in [Workers -> Int] /\ 0 \notin Workers
  BY InvParts, ThreadsType DEF FieldsOK
<1>1. SUFFICES ASSUME NEW w \in Workers PROVE weight'[w] = Cardinality(Load(w)')
  BY DEF WeightIsLoad, Load
<1>2. IsFiniteSet(Load(w)) /\ Cardinality(Load(w)) \in Nat /\ weight[w] = Cardinality(Load(w))
  BY <1>0, LoadFinite DEF WeightIsLoad, Load
<1>3. table' = table \ {s}
  BY DEF Remove
<1>4. CASE thread[s] = w
  <2>1. Load(w)' = Load(w) \ {s} /\ s \in Load(w)
    BY <1>3, <1>4 DEF Load
  <2>2. weight'[w] = weight[w] - 1
    BY <1>0, <1>4 DEF Remove, Reweigh
  <2> QED BY <1>2, <2>1, <2>2, FS_RemoveElement
<1>5. CASE thread[s] # w
  <2>1. Load(w)' = Load(w)
    BY <1>3, <1>5 DEF Load
  <2>2. weight'[w] = weight[w]
    BY <1>0, <1>5 DEF Remove, Reweigh
  <2> QED BY <1>2, <2>1, <2>2
<1> QED BY <1>4, <1>5

\* A service that enters the table was not in it.
LEMMA StartWeight ==
    ASSUME Inv, Life, WeightIsLoad, HandleStartReq
    PROVE  WeightIsLoad'
<1>0. HostsOK /\ QueuesOK /\ weight \in [Workers -> Int] /\ 0 \notin Workers /\ 0 \in Threads
  BY InvParts, ThreadsType DEF FieldsOK
<1> DEFINE h == Head(batch[0])
           s == h.svc
<1>1. batch[0] # <<>> /\ h.id = "START_REQ" /\ table' = table \union {s}
  BY DEF HandleStartReq, Handling
<1>2. PICK t \in Threads : thread' = [thread EXCEPT ![s] = t] /\ Reweigh(t, 1)
  BY DEF HandleStartReq
<1>3. s \in Services /\ s \notin table
  <2>1. h \in Elements(batch[0])
    BY <1>0, <1>1, ElementsTail DEF QueuesOK, BatchOK
  <2>2. h \in Pending
    BY <1>0, <2>1, PendingParts
  <2> QED BY <1>1, <2>2, PendingLife DEF Life, LifeOfMessages
<1> HIDE DEF h, s
<1>4. SUFFICES ASSUME NEW w \in Workers PROVE weight'[w] = Cardinality(Load(w)')
  BY DEF WeightIsLoad, Load
<1>5. IsFiniteSet(Load(w)) /\ Cardinality(Load(w)) \in Nat /\ weight[w] = Cardinality(Load(w))
  BY <1>0, LoadFinite DEF WeightIsLoad, Load
<1>6. thread'[s] = t /\ \A r \in table : thread'[r] = thread[r]
  BY <1>0, <1>2, <1>3 DEF HostsOK
<1>7. CASE t = w
  <2>1. Load(w)' = Load(w) \union {s} /\ s \notin Load(w)
    BY <1>1, <1>3, <1>6, <1>7 DEF Load
  <2>2. weight'[w] = weight[w] + 1
    BY <1>0, <1>2, <1>7 DEF Reweigh
  <2> QED BY <1>5, <2>1, <2>2, FS_AddElement
<1>8. CASE t # w
  <2>1. Load(w)' = Load(w)
    BY <1>1, <1>3, <1>6, <1>8 DEF Load
  <2>2. weight'[w] = weight[w]
    BY <1>0, <1>2, <1>8 DEF Reweigh
  <2> QED BY <1>5, <2>1, <2>2
<1> QED BY <1>7, <1>8

LEMMA StepWeight ==
    ASSUME Inv, Keeps, Life, WeightIsLoad, Next
    PROVE  WeightIsLoad'
<1>0. HostsOK
  BY InvParts
<1>1. ASSUME UNCHANGED <<table, weight>> PROVE WeightIsLoad'
  <2>1. \A s \in table : thread'[s] = thread[s]
    BY <1>0 DEF Keeps, HostsOK
  <2>2. \A w \in Workers : Load(w)' = Load(w)
    BY <1>1, <2>1 DEF Load
  <2> QED BY <1>1, <2>2 DEF WeightIsLoad, Load
<1>2. ASSUME NEW t \in Threads, Entry(t) PROVE UNCHANGED <<table, weight>>
  BY <1>2 DEF Entry, StartService, SendUser, CloseSelf, MasterExit, EntryReturn,
     LastReturn, master
<1>3. ASSUME NEW t \in Threads, HandleServiceMsg(t) \/ HandleCloseRsp(t)
      PROVE  UNCHANGED <<table, weight>>
  BY <1>3 DEF HandleServiceMsg, HandleCloseRsp, master
<1>4. ASSUME NEW w \in Workers, WorkerStep(w) PROVE WeightIsLoad'
  <2>1. w \in Threads
    BY ThreadsType
  <2>2. CASE HandleWorkerExitReq(w) \/ WorkerTake(w) \/ WorkerFlushToMaster(w)
               \/ WorkerFlushToServices(w)
    BY <1>1, <2>2 DEF HandleWorkerExitReq, WorkerTake, WorkerFlushToMaster,
       WorkerFlushToServices, master
  <2> QED BY <1>1, <1>2, <1>3, <1>4, <2>1, <2>2 DEF WorkerStep
<1>5. CASE HandleCloseReq
  <2>1. CASE Found(Head(batch[0]).svc)
    BY <1>5, <2>1, RemoveWeight DEF HandleCloseReq, Found, services
  <2>2. CASE ~Found(Head(batch[0]).svc)
    BY <1>1, <1>5, <2>2 DEF HandleCloseReq
  <2> QED BY <2>1, <2>2
<1>6. ASSUME NEW s \in Services, HandleExitService(s) PROVE WeightIsLoad'
  BY <1>6, RemoveWeight DEF HandleExitService, services
<1>7. CASE HandleExitWorker \/ HandleExitDone \/ HandleWorkerExitRsp
  BY <1>1, <1>7 DEF HandleExitWorker, HandleExitDone, HandleWorkerExitRsp
<1>8. CASE MasterStep /\ ~MasterHandle
  BY <1>1, <1>8 DEF MasterStep, MasterWait, MasterTake, MasterGet, MasterRoute,
     MasterRouted, MasterDeliver, MasterDelivered, MasterJoin, master
<1>9. CASE MasterHandle
  BY <1>1, <1>2, <1>3, <1>5, <1>6, <1>7, <1>9, StartWeight, ThreadsType DEF MasterHandle
<1> QED BY <1>4, <1>8, <1>9 DEF Next

-----------------------------------------------------------------------------
(* The theorems.                                                           *)

LEMMA InitFlow == Init => FlowInv
<1> SUFFICES ASSUME Init PROVE Kinds /\ Life /\ Chain /\ SenderOrder /\ WeightIsLoad
  BY InitInv DEF FlowInv
<1>0. Inv /\ QueuesOK /\ HostsOK /\ 0 \in Threads /\ Workers \subseteq Threads
  BY InitInv, InvParts, ThreadsType
<1>1. PICK h \in Hosts :
        /\ thread = [s \in Services |-> IF s = Boot THEN h ELSE NoThread]
        /\ weight = [w \in Workers |-> IF w = h THEN 1 ELSE 0]
        /\ txmq = [u \in Threads |->
                     IF u = 0 THEN <<Msg("START_RSP", Boot, h), Msg("USER", Boot, 0)>>
                     ELSE <<>>]
  BY DEF Init
<1> DEFINE a == Msg("START_RSP", Boot, h)
           b == Msg("USER", Boot, 0)
<1>2. /\ a.id = "START_RSP" /\ ~a.ptr /\ a.n = 0
      /\ b.id = "USER" /\ ~b.ptr /\ b.n = 0 /\ b.src \notin Services
  BY RuntimeAssumption DEF Msg
<1>3. Ahead(Routed(a), b)
  BY DEF Ahead, Routed, Msg
<1> HIDE DEF a, b
<1>4. txmq[0] = <<a, b>> /\ \A u \in Threads : u # 0 => txmq[u] = <<>>
  BY <1>0, <1>1 DEF a, b
<1>5. /\ \A u \in Threads : rx[u] = <<>> /\ txms[u] = <<>> /\ batch[u] = <<>>
      /\ \A w \in Workers : out[w] = <<>>
      /\ msgRxq = <<>> /\ route = <<>>
  BY DEF Init
<1>6. /\ \A x \in Elements(txmq[0]) : x = a \/ x = b
      /\ \A u \in Threads : u # 0 => Elements(txmq[u]) = {}
  BY <1>4, ElementsEmpty DEF Elements
<1>7. /\ \A u \in Threads : Elements(rx[u]) = {} /\ Elements(txms[u]) = {} /\ Elements(batch[u]) = {}
      /\ \A w \in Workers : Elements(out[w]) = {}
      /\ Elements(msgRxq) = {} /\ Elements(route) = {}
  BY <1>5, ElementsEmpty
<1>8. \A x \in Pending : x = a \/ x = b
  BY <1>6, <1>7 DEF Pending
<1>9. Kinds
  <2>1. TxmqKind(0, a) /\ TxmqKind(0, b)
    BY <1>2 DEF TxmqKind
  <2> QED BY <1>6, <1>7, <2>1 DEF Kinds
<1>10. ChainWithin
  <2>1. InOrderUnrouted(<<a, b>>)
    BY <1>3 DEF InOrderUnrouted
  <2> QED BY <1>4, <1>5, <2>1, OrderEmpty DEF ChainWithin
<1>11. ChainBetween
  BY <1>0, <1>7 DEF ChainBetween, ChainUnrouted, ChainTo, ChainToWorker, ChainToMaster,
     Before, BeforeUnrouted
<1>12. /\ \A s \in Services : log[s] = <<>> /\ DOMAIN log[s] = {}
       /\ \A u \in Threads : ~Running(u) /\ pc[u] # "last"
       /\ table = {Boot} /\ sends = 0
       /\ \A s \in table : memory[s] = "used"
  BY RuntimeAssumption DEF Init, Running
<1>13. LifeOfMessages
  BY <1>2, <1>8, <1>12 DEF LifeOfMessages, HoldsPointer, RunsService, ForService
<1>14. LifeOfServices /\ LifeOfLog /\ SenderOrder
  BY <1>12 DEF LifeOfServices, LifeOfLog, SenderOrder
<1>15. WeightIsLoad
  <2>1. SUFFICES ASSUME NEW w \in Workers PROVE weight[w] = Cardinality({s \in table : thread[s] = w})
    BY DEF WeightIsLoad
  <2>2. thread[Boot] = h /\ weight[w] = IF w = h THEN 1 ELSE 0
    BY <1>1, RuntimeAssumption
  <2>3. CASE w = h
    <3>1. {s \in table : thread[s] = w} = {Boot}
      BY <1>12, <2>2, <2>3
    <3> QED BY <2>2, <2>3, <3>1, FS_Singleton
  <2>4. CASE w # h
    <3>1. {s \in table : thread[s] = w} = {}
      BY <1>12, <2>2, <2>4
    <3> QED BY <2>2, <2>4, <3>1, FS_EmptySet
  <2> QED BY <2>3, <2>4
<1> QED BY <1>9, <1>10, <1>11, <1>13, <1>14, <1>15 DEF Life, Chain

LEMMA StepFlow == FlowInv /\ Next => FlowInv'
<1> SUFFICES ASSUME FlowInv, Next PROVE FlowInv'
  OBVIOUS
<1>1. Inv /\ Kinds /\ Life /\ Chain /\ SenderOrder /\ WeightIsLoad
  BY DEF FlowInv
<1>2. Keeps /\ QueuesOK'
  BY <1>1, StepKeeps, StepQueues
<1>3. Kinds' /\ Chain' /\ Life' /\ SenderOrder'
  BY <1>1, <1>2, MasterStepFlow, WorkerStepFlow DEF Next
<1>4. WeightIsLoad'
  BY <1>1, <1>2, StepWeight
<1>5. Inv'
  BY <1>1, InvStep
<1> QED BY <1>3, <1>4, <1>5 DEF FlowInv

LEMMA StutterFlow == FlowInv /\ UNCHANGED vars => FlowInv'
<1> SUFFICES ASSUME FlowInv, UNCHANGED vars PROVE FlowInv'
  OBVIOUS
<1>1. Inv /\ Kinds /\ Life /\ Chain /\ SenderOrder /\ WeightIsLoad /\ QueuesOK
  BY InvParts DEF FlowInv
<1>2. /\ UNCHANGED <<rx, txms, txmq, msgRxq, route, out, batch>>
      /\ UNCHANGED <<thread, memory, table, weight, log, sends, running, pc>>
  BY DEF vars, queues, master, services, bounds
<1>3. Inv'
  BY <1>1, StutterInv
<1>4. Keeps /\ RunsOn
  BY <1>2 DEF Keeps, RunsOn, Running
<1>5. Kinds' /\ Chain' /\ Brings({})
  BY <1>1, <1>2, <1>4, QuietFlow
<1>6. Life' /\ SenderOrder'
  BY <1>1, <1>2, <1>4, <1>5, QuietLife
<1>7. WeightIsLoad'
  BY <1>1, <1>2 DEF WeightIsLoad
<1> QED BY <1>3, <1>5, <1>6, <1>7 DEF FlowInv

\* The invariant behind the next four theorems holds in every state, for any
\* number of workers, services and messages.
THEOREM FlowInvariance == Spec => []FlowInv
<1>1. FlowInv /\ [Next]_vars => FlowInv'
  BY StepFlow, StutterFlow
<1> QED BY <1>1, InitFlow, PTL DEF Spec

\* No pointer to a service outlives the service: not in a message in any of
\* the queues, not in a thread that runs it, and not in the service table.
THEOREM NothingDangles == Spec => []NoDangling
<1>1. FlowInv => NoDangling
  <2> SUFFICES ASSUME FlowInv PROVE NoDangling
    OBVIOUS
  <2>1. LifeOfMessages /\ LifeOfServices /\ QueuesOK
    BY InvParts DEF FlowInv, Life
  <2>2. \A q : Elements(q) \subseteq Pending => PointsToUsed(q)
    BY <2>1 DEF PointsToUsed, Elements, LifeOfMessages
  <2>3. /\ \A t \in Threads :
             /\ PointsToUsed(rx[t]) /\ PointsToUsed(batch[t])
             /\ PointsToUsed(txms[t]) /\ PointsToUsed(txmq[t])
        /\ \A w \in Workers : PointsToUsed(out[w])
        /\ PointsToUsed(msgRxq) /\ PointsToUsed(route)
    BY <2>1, <2>2, PendingParts DEF Unrouted
  <2> QED BY <2>1, <2>3 DEF NoDangling, LifeOfServices
<1> QED BY <1>1, FlowInvariance, PTL

\* L_MSGID_SERVICE_CLOSE is the last message that a service handles, and it
\* handles it once, however its own close and l_master_exit interleave.
THEOREM CloseComesLast == Spec => []CloseIsLast
<1>1. FlowInv => CloseIsLast
  BY DEF FlowInv, Life, LifeOfLog, CloseIsLast
<1> QED BY <1>1, FlowInvariance, PTL

\* Two messages that one service sends to another are handled in the order
\* they were sent in, whichever queues they went through.
THEOREM OrderIsKept == Spec => []SenderOrder
<1>1. FlowInv => SenderOrder
  BY DEF FlowInv
<1> QED BY <1>1, FlowInvariance, PTL

\* The weight of a worker, by which l_thread_acquire chooses one, is the
\* number of the services in the table that run on it.
THEOREM WeightIsRight == Spec => []WeightIsLoad
<1>1. FlowInv => WeightIsLoad
  BY DEF FlowInv
<1> QED BY <1>1, FlowInvariance, PTL

-----------------------------------------------------------------------------
(* Module Runtime implements module Actor: whatever the threads and queues *)
(* do, a service sees only the steps of Actor.  StartService is Create,    *)
(* HandleServiceMsg Enter, CloseSelf Quit, EntryReturn Leave,              *)
(* HandleCloseRsp Finish and LastReturn Free; no other action shows.       *)


\* A service that was given a message is attached to a thread.
Owned == \A s \in Services : log[s] # <<>> => thread[s] # NoThread

ActorInv == FlowInv /\ Owned

Busy(s) == \E t \in Threads : running[t] = s /\ pc[t] = "entry"

Ending(s) == \E t \in Threads : running[t] = s /\ pc[t] = "last"

OwnerOf(s) == IF log[s] = <<>> THEN NoThread ELSE thread[s]

-----------------------------------------------------------------------------
(* The mapped state.                                                       *)

\* The state of a service, by the first case that applies.
Cases ==
    \A s \in Services :
      StateOf(s) = IF memory[s] = "none" THEN "none"
                   ELSE IF memory[s] \in {"freed", "reused"} THEN "freed"
                   ELSE IF Busy(s) THEN "busy"
                   ELSE IF Ending(s) THEN "last" ELSE "ready"

\* A service is run by one thread at most, and while its memory is in use.
LEMMA OneRuns ==
    ASSUME FlowInv, NEW s \in Services, NEW t \in Threads, Running(t), running[t] = s
    PROVE  /\ memory[s] = "used" /\ thread[s] = t
           /\ \A u \in Threads : Running(u) /\ running[u] = s => u = t
<1>1. HostsOK /\ LifeOfServices
  BY InvParts DEF FlowInv, Life
<1> QED BY <1>1 DEF HostsOK, LifeOfServices

\* At most one case applies.
LEMMA StateCases == FlowInv => Cases
<1> SUFFICES ASSUME FlowInv, NEW s \in Services
             PROVE  StateOf(s) = IF memory[s] = "none" THEN "none"
                                 ELSE IF memory[s] \in {"freed", "reused"} THEN "freed"
                                 ELSE IF Busy(s) THEN "busy"
                                 ELSE IF Ending(s) THEN "last" ELSE "ready"
  BY DEF Cases
<1>1. memory[s] \in {"none", "used", "freed", "reused"}
  BY InvParts DEF FlowInv, HostsOK
<1>2. Busy(s) \/ Ending(s) => memory[s] = "used"
  BY OneRuns DEF Busy, Ending, Running
<1>3. ~(Busy(s) /\ Ending(s))
  BY OneRuns DEF Busy, Ending, Running
<1>4. StateOf(s) = CASE memory[s] = "none" -> "none"
                     [] memory[s] \in {"freed", "reused"} -> "freed"
                     [] Busy(s) -> "busy"
                     [] Ending(s) -> "last"
                     [] OTHER -> "ready"
  BY DEF StateOf, Busy, Ending
<1> QED BY <1>1, <1>2, <1>3, <1>4

\* A step does not show on a service whose memory it leaves alone and that
\* the same threads run.
LEMMA StateStays ==
    ASSUME Cases, Cases', NEW s \in Services,
           memory'[s] = memory[s] \/ (memory[s] = "freed" /\ memory'[s] = "reused"),
           \A t \in Threads :
             \/ pc'[t] = pc[t] /\ running'[t] = running[t]
             \/ /\ ~Running(t) \/ running[t] # s
                /\ ~Running(t)' \/ running'[t] # s
    PROVE  StateOf(s)' = StateOf(s)
<1>1. (Busy(s)' <=> Busy(s)) /\ (Ending(s)' <=> Ending(s))
  BY DEF Busy, Ending, Running
<1> QED BY <1>1 DEF Cases

\* The thread that owns a service stays its owner.
LEMMA OwnerStays ==
    ASSUME Keeps, Owned, NEW s \in Services, log'[s] = log[s]
    PROVE  OwnerOf(s)' = OwnerOf(s)
BY DEF Keeps, Owned, OwnerOf

-----------------------------------------------------------------------------
(* The steps.                                                              *)

\* A step that does not show.
LEMMA Stutters ==
    ASSUME Cases, Cases', Keeps, Owned, UNCHANGED <<memory, log, closing>>,
           \A t \in Threads : \/ pc'[t] = pc[t] /\ running'[t] = running[t]
                              \/ ~Running(t) /\ ~Running(t)'
    PROVE  UNCHANGED AbstractActor!vars
<1>1. \A s \in Services : StateOf(s)' = StateOf(s)
  BY StateStays
<1>2. \A s \in Services : OwnerOf(s)' = OwnerOf(s)
  BY OwnerStays
<1> QED BY <1>1, <1>2 DEF AbstractActor!vars, OwnerOf

\* A step that shows on one service.
LEMMA Shows ==
    ASSUME Cases, Cases', Keeps, Owned, NEW s \in Services,
           \A r \in Services : r # s => log'[r] = log[r]
                                /\ (memory'[r] = memory[r]
                                      \/ (memory[r] = "freed" /\ memory'[r] = "reused")),
           \A t \in Threads : \/ pc'[t] = pc[t] /\ running'[t] = running[t]
                              \/ /\ ~Running(t) \/ running[t] = s
                                 /\ ~Running(t)' \/ running'[t] = s
    PROVE  \A r \in Services : r # s => StateOf(r)' = StateOf(r) /\ OwnerOf(r)' = OwnerOf(r)
<1>1. \A r \in Services : r # s => StateOf(r)' = StateOf(r)
  BY StateStays
<1>2. \A r \in Services : r # s => OwnerOf(r)' = OwnerOf(r)
  BY OwnerStays
<1> QED BY <1>1, <1>2

LEMMA Creates ==
    ASSUME ActorInv, FlowInv', Cases, Cases', Keeps, NEW t \in Threads, NEW s \in Services,
           NEW on, StartService(t, s, on)
    PROVE  AbstractActor!Create(s)
<1>0. HostsOK /\ FieldsOK /\ LifeOfServices
  BY InvParts DEF ActorInv, FlowInv, Life
<1>1. /\ memory[s] = "none" /\ NewFlags(t, s)
      /\ UNCHANGED <<log, pc, running>>
  BY DEF StartService
<1>2. /\ memory'[s] = "used"
      /\ \A r \in Services : r # s =>
           memory'[r] = memory[r] \/ (memory[r] = "freed" /\ memory'[r] = "reused")
      /\ \E q \in BOOLEAN : closing' = [closing EXCEPT ![s] = q]
  BY <1>0, <1>1 DEF NewFlags, HostsOK, FieldsOK
<1>3. \A u \in Threads : Running(u) => running[u] # s
  BY <1>0, <1>1 DEF LifeOfServices
<1>4. ~Busy(s)' /\ ~Ending(s)'
  BY <1>1, <1>3 DEF Busy, Ending, Running
<1>5. StateOf(s) = "none" /\ StateOf(s)' = "ready"
  BY <1>1, <1>2, <1>4 DEF Cases
<1>6. \A r \in Services : r # s => StateOf(r)' = StateOf(r) /\ OwnerOf(r)' = OwnerOf(r)
  BY <1>1, <1>2, Shows DEF ActorInv
<1>7. OwnerOf(s)' = OwnerOf(s)
  BY <1>1, OwnerStays DEF ActorInv
<1> QED BY <1>2, <1>5, <1>6, <1>7 DEF AbstractActor!Create, OwnerOf

LEMMA Quits ==
    ASSUME ActorInv, Cases, Cases', Keeps, NEW t \in Threads, CloseSelf(t)
    PROVE  running[t] \in Services /\ AbstractActor!Quit(running[t])
<1>0. HostsOK /\ LifeOfServices
  BY InvParts DEF ActorInv, FlowInv, Life
<1>1. /\ running[t] \in Services /\ memory[running[t]] = "used" /\ Running(t)
      /\ closing' = [closing EXCEPT ![running[t]] = TRUE]
      /\ UNCHANGED <<memory, log, pc, running>>
  BY <1>0 DEF CloseSelf, HostsOK, LifeOfServices
<1>2. StateOf(running[t]) \in {"busy", "last"}
  <2>1. Busy(running[t]) \/ Ending(running[t])
    BY <1>1 DEF Busy, Ending, Running
  <2> QED BY <1>1, <2>1 DEF Cases
<1>3. \A r \in Services : StateOf(r)' = StateOf(r) /\ OwnerOf(r)' = OwnerOf(r)
  BY <1>1, StateStays, OwnerStays DEF ActorInv
<1> QED BY <1>1, <1>2, <1>3 DEF AbstractActor!Quit, OwnerOf

LEMMA Leaves ==
    ASSUME ActorInv, Cases, Cases', Keeps, NEW t \in Threads, EntryReturn(t)
    PROVE  running[t] \in Services /\ AbstractActor!Leave(running[t])
<1>0. HostsOK /\ FlowInv
  BY InvParts DEF ActorInv, FlowInv
<1>s. PICK s \in Services : s = running[t]
  BY <1>0 DEF HostsOK, Running, EntryReturn
<1>1. /\ pc[t] = "entry" /\ pc' = [pc EXCEPT ![t] = "handle"]
      /\ running' = [running EXCEPT ![t] = NoService]
      /\ UNCHANGED <<memory, log, closing>>
  BY <1>s DEF EntryReturn, Goto
<1>2. /\ s \in Services /\ memory[s] = "used" /\ Busy(s)
      /\ \A u \in Threads : Running(u) /\ running[u] = s => u = t
  BY <1>0, <1>1, <1>s, OneRuns DEF HostsOK, Running, Busy
<1>3. /\ pc'[t] = "handle" /\ ~Running(t)'
      /\ \A u \in Threads : u # t => pc'[u] = pc[u] /\ running'[u] = running[u]
  BY <1>0, <1>1 DEF HostsOK, Running
<1>4. ~Busy(s)' /\ ~Ending(s)'
  BY <1>2, <1>3 DEF Busy, Ending, Running
<1>5. StateOf(s) = "busy" /\ StateOf(s)' = "ready"
  BY <1>1, <1>2, <1>4 DEF Cases
<1>6. \A r \in Services : r # s => StateOf(r)' = StateOf(r) /\ OwnerOf(r)' = OwnerOf(r)
  BY <1>1, <1>2, <1>3, <1>s, Shows DEF ActorInv
<1>7. OwnerOf(s)' = OwnerOf(s)
  BY <1>1, <1>2, OwnerStays DEF ActorInv
<1> QED BY <1>1, <1>2, <1>5, <1>6, <1>7, <1>s DEF AbstractActor!Leave, OwnerOf

LEMMA Frees ==
    ASSUME ActorInv, Cases, Cases', Keeps, NEW t \in Threads, LastReturn(t)
    PROVE  running[t] \in Services /\ AbstractActor!Free(running[t])
<1>0. HostsOK /\ FlowInv
  BY InvParts DEF ActorInv, FlowInv
<1>s. PICK s \in Services : s = running[t]
  BY <1>0 DEF HostsOK, Running, LastReturn
<1>1. /\ pc[t] = "last" /\ pc' = [pc EXCEPT ![t] = "handle"]
      /\ running' = [running EXCEPT ![t] = NoService]
      /\ memory' = [memory EXCEPT ![s] = "freed"]
      /\ UNCHANGED <<log, closing>>
  BY <1>s DEF LastReturn, Goto
<1>2. /\ s \in Services /\ memory[s] = "used" /\ Ending(s)
      /\ \A u \in Threads : Running(u) /\ running[u] = s => u = t
  BY <1>0, <1>1, <1>s, OneRuns DEF HostsOK, Running, Ending
<1>3. /\ pc'[t] = "handle" /\ ~Running(t)' /\ ~Busy(s)
      /\ \A u \in Threads : u # t => pc'[u] = pc[u] /\ running'[u] = running[u]
  BY <1>0, <1>1, <1>2 DEF HostsOK, Running, Busy
<1>4. memory'[s] = "freed" /\ \A r \in Services : r # s => memory'[r] = memory[r]
  BY <1>0, <1>1, <1>2 DEF HostsOK
<1>5. StateOf(s) = "last" /\ StateOf(s)' = "freed"
  BY <1>2, <1>3, <1>4 DEF Cases
<1>6. \A r \in Services : r # s => StateOf(r)' = StateOf(r) /\ OwnerOf(r)' = OwnerOf(r)
  BY <1>1, <1>2, <1>3, <1>4, <1>s, Shows DEF ActorInv
<1>7. OwnerOf(s)' = OwnerOf(s)
  BY <1>1, <1>2, OwnerStays DEF ActorInv
<1> QED BY <1>1, <1>2, <1>5, <1>6, <1>7, <1>s DEF AbstractActor!Free, OwnerOf

\* A message that a service has been given is in its log.
LEMMA Logged ==
    ASSUME NEW S, NEW q \in Seq(S), NEW x \in S
    PROVE  Append(q, x) # <<>>
BY AppendProperties

\* Thread t gives service s a message: nobody runs the service, and it is t's.
LEMMA Gives ==
    ASSUME ActorInv, Cases, Cases', Keeps, NEW t \in Threads, pc[t] = "handle",
           batch[t] # <<>>, RunsService(Head(batch[t])),
           NEW s \in Services, s = Head(batch[t]).svc,
           NEW l \in {"entry", "last"}, pc' = [pc EXCEPT ![t] = l],
           running' = [running EXCEPT ![t] = s],
           log' = [log EXCEPT ![s] = Append(@, LogEntry(Head(batch[t])))],
           UNCHANGED <<memory, thread>>
    PROVE  /\ StateOf(s) = "ready" /\ StateOf(s)' = IF l = "entry" THEN "busy" ELSE "last"
           /\ OwnerOf(s) \in {NoThread, t} /\ OwnerOf(s)' = t
           /\ \A r \in Services : r # s => StateOf(r)' = StateOf(r) /\ OwnerOf(r)' = OwnerOf(r)
<1> DEFINE Line == [id: MsgIds, src: Services \union {NoService}, n: 0..MaxSends]
           e == LogEntry(Head(batch[t]))
<1>0. HostsOK /\ QueuesOK /\ LogOK /\ FlowInv /\ Life /\ Inv
  BY InvParts DEF ActorInv, FlowInv
<1>1. /\ Head(batch[t]) \in Message /\ HandledBy(t, Head(batch[t]))
      /\ Head(batch[t]) \in Elements(batch[t])
  BY <1>0, HeadOK, ElementsTail DEF QueuesOK, BatchOK
<1>2. thread[s] = t /\ memory[s] = "used"
  <2>1. Head(batch[t]) \in Pending
    BY <1>0, <1>1, PendingParts
  <2> QED BY <1>0, <1>1, <2>1, PendingLife DEF HandledBy
<1>3. e \in Line /\ log[s] \in Seq(Line) /\ log \in [Services -> Seq(Line)]
  BY <1>0, <1>1 DEF LogEntry, Message, Envelope, LogOK
<1> HIDE DEF Line
<1>4. log'[s] # <<>> /\ \A r \in Services : r # s => log'[r] = log[r]
  <2>1. log'[s] = Append(log[s], e) /\ \A r \in Services : r # s => log'[r] = log[r]
    BY <1>3
  <2>2. Append(log[s], e) # <<>>
    BY <1>3, Logged
  <2> QED BY <2>1, <2>2
<1>5. ~Running(t) /\ \A u \in Threads : Running(u) => running[u] # s
  BY <1>0, <1>2 DEF HostsOK, Running
<1>6. /\ pc'[t] = l /\ running'[t] = s
      /\ \A u \in Threads : u # t => pc'[u] = pc[u] /\ running'[u] = running[u]
  BY <1>0 DEF HostsOK
<1>7. StateOf(s) = "ready"
  BY <1>2, <1>5 DEF Cases, Busy, Ending, Running
<1>8. StateOf(s)' = IF l = "entry" THEN "busy" ELSE "last"
  <2>1. CASE l = "entry"
    BY <1>2, <1>6, <2>1 DEF Cases, Busy
  <2>2. CASE l = "last"
    <3>1. ~Busy(s)' /\ Ending(s)'
      BY <1>5, <1>6, <2>2 DEF Busy, Ending, Running
    <3> QED BY <1>2, <2>2, <3>1 DEF Cases
  <2> QED BY <2>1, <2>2
<1>9. \A r \in Services : r # s => StateOf(r)' = StateOf(r) /\ OwnerOf(r)' = OwnerOf(r)
  BY <1>4, <1>5, <1>6, Shows DEF ActorInv
<1> QED BY <1>2, <1>4, <1>7, <1>8, <1>9 DEF OwnerOf

LEMMA Enters ==
    ASSUME ActorInv, Cases, Cases', Keeps, NEW t \in Threads, HandleServiceMsg(t)
    PROVE  \/ \E s \in Services : AbstractActor!Enter(s, t)
           \/ UNCHANGED AbstractActor!vars
<1> DEFINE m == Head(batch[t])
<1>0. QueuesOK
  BY InvParts DEF ActorInv, FlowInv
<1>1. /\ pc[t] = "handle" /\ batch[t] # <<>> /\ UNCHANGED <<memory, thread, closing>>
      /\ \/ UNCHANGED <<log, running, pc>>
         \/ /\ ForService(m) /\ m.ptr /\ ~closing[m.svc]
            /\ log' = [log EXCEPT ![m.svc] = Append(@, LogEntry(m))]
            /\ running' = [running EXCEPT ![t] = m.svc]
            /\ pc' = [pc EXCEPT ![t] = "entry"]
  BY DEF HandleServiceMsg, Skipped, Goto
<1>2. m \in Message
  BY <1>0, <1>1, HeadOK DEF QueuesOK
<1>3. CASE UNCHANGED <<log, running, pc>>
  BY <1>1, <1>3, Stutters DEF ActorInv
<1>4. CASE ~UNCHANGED <<log, running, pc>>
  <2>1. RunsService(m) /\ m.svc \in Services
    BY <1>1, <1>2, <1>4 DEF RunsService, ForService, Message, Envelope, Control
  <2>2. PICK s \in Services : s = m.svc
    BY <2>1
  <2>3. /\ StateOf(s) = "ready" /\ StateOf(s)' = "busy"
        /\ OwnerOf(s) \in {NoThread, t} /\ OwnerOf(s)' = t
        /\ \A r \in Services : r # s => StateOf(r)' = StateOf(r) /\ OwnerOf(r)' = OwnerOf(r)
    BY <1>1, <1>4, <2>1, <2>2, Gives
  <2>4. ~closing[s] /\ closing' = closing
    BY <1>1, <1>4, <2>2
  <2> QED BY <2>3, <2>4 DEF AbstractActor!Enter, OwnerOf
<1> QED BY <1>3, <1>4

LEMMA Finishes ==
    ASSUME ActorInv, Cases, Cases', Keeps, NEW t \in Threads, HandleCloseRsp(t)
    PROVE  \E s \in Services : AbstractActor!Finish(s, t)
<1> DEFINE m == Head(batch[t])
<1>0. QueuesOK
  BY InvParts DEF ActorInv, FlowInv
<1>1. /\ pc[t] = "handle" /\ batch[t] # <<>> /\ UNCHANGED <<memory, thread, closing>>
      /\ m.id = "CLOSE_RSP"
      /\ log' = [log EXCEPT ![m.svc] = Append(@, LogEntry(m))]
      /\ running' = [running EXCEPT ![t] = m.svc]
      /\ pc' = [pc EXCEPT ![t] = "last"]
  BY DEF HandleCloseRsp, Handling, Goto
<1>2. RunsService(m) /\ m.svc \in Services
  <2>1. m \in Message
    BY <1>0, <1>1, HeadOK DEF QueuesOK
  <2> QED BY <1>1, <2>1 DEF RunsService, Message, Envelope, Control
<1>3. PICK s \in Services : s = m.svc
  BY <1>2
<1>4. /\ StateOf(s) = "ready" /\ StateOf(s)' = "last"
      /\ OwnerOf(s) \in {NoThread, t} /\ OwnerOf(s)' = t
      /\ \A r \in Services : r # s => StateOf(r)' = StateOf(r) /\ OwnerOf(r)' = OwnerOf(r)
  BY <1>1, <1>2, <1>3, Gives
<1>5. closing' = closing
  BY <1>1
<1> QED BY <1>4, <1>5 DEF AbstractActor!Finish, OwnerOf

\* A service is given messages by the thread it is attached to only.
LEMMA StepOwned ==
    ASSUME ActorInv, Keeps, Next
    PROVE  Owned'
<1>0. HostsOK /\ QueuesOK /\ LogOK
  BY InvParts DEF ActorInv, FlowInv
<1>1. ASSUME log' = log PROVE Owned'
  BY <1>1 DEF ActorInv, Owned, Keeps
<1>2. ASSUME NEW t \in Threads, batch[t] # <<>>, RunsService(Head(batch[t])),
             log' = [log EXCEPT ![Head(batch[t]).svc] = Append(@, LogEntry(Head(batch[t])))]
      PROVE  Owned'
  <2>1. HandledBy(t, Head(batch[t])) /\ t # NoThread
    BY <1>0, <1>2, HeadOK, ThreadsType DEF QueuesOK
  <2>2. thread[Head(batch[t]).svc] # NoThread
    BY <1>2, <2>1 DEF HandledBy
  <2> QED BY <1>0, <1>2, <2>2 DEF ActorInv, Owned, Keeps, LogOK
<1>3. ASSUME NEW t \in Threads, HandleServiceMsg(t) PROVE Owned'
  BY <1>1, <1>2, <1>3 DEF HandleServiceMsg, RunsService
<1>4. ASSUME NEW t \in Threads, HandleCloseRsp(t) PROVE Owned'
  BY <1>1, <1>2, <1>4 DEF HandleCloseRsp, Handling, RunsService
<1>5. ASSUME NEW t \in Threads, Entry(t) PROVE log' = log
  BY <1>5 DEF Entry, StartService, SendUser, CloseSelf, MasterExit, EntryReturn,
     LastReturn, services
<1>6. ASSUME NEW w \in Workers, WorkerStep(w) PROVE Owned'
  <2>1. CASE HandleWorkerExitReq(w) \/ WorkerTake(w) \/ WorkerFlushToMaster(w)
               \/ WorkerFlushToServices(w)
    BY <1>1, <2>1 DEF HandleWorkerExitReq, WorkerTake, WorkerFlushToMaster,
       WorkerFlushToServices, services
  <2> QED BY <1>1, <1>3, <1>4, <1>5, <1>6, <2>1, ThreadsType DEF WorkerStep
<1>7. ASSUME MasterStep PROVE Owned'
  <2>1. CASE MasterHandle
    <3>1. HandleStartReq \/ HandleCloseReq \/ (\E s \in Services : HandleExitService(s))
            \/ HandleExitWorker \/ HandleExitDone \/ HandleWorkerExitRsp => log' = log
      BY DEF HandleStartReq, HandleCloseReq, HandleExitService, HandleExitWorker,
         HandleExitDone, HandleWorkerExitRsp, services
    <3> QED BY <1>1, <1>3, <1>4, <1>5, <2>1, <3>1, ThreadsType DEF MasterHandle
  <2>2. CASE ~MasterHandle
    BY <1>1, <1>7, <2>2 DEF MasterStep, MasterWait, MasterTake, MasterGet,
       MasterRoute, MasterRouted, MasterDeliver, MasterDelivered, MasterJoin, services
  <2> QED BY <2>1, <2>2
<1> QED BY <1>6, <1>7 DEF Next

-----------------------------------------------------------------------------
(* The theorem.                                                            *)

\* The calls that an entry makes.
LEMMA EntryShows ==
    ASSUME ActorInv, FlowInv', Cases, Cases', Keeps, NEW t \in Threads, Entry(t)
    PROVE  AbstractActor!Next \/ UNCHANGED AbstractActor!vars
<1>1. ASSUME NEW d \in Services, NEW full \in BOOLEAN, SendUser(t, d, full)
      PROVE  UNCHANGED AbstractActor!vars
  BY <1>1, Stutters DEF SendUser, services, ActorInv
<1>2. CASE MasterExit(t)
  BY <1>2, Stutters DEF MasterExit, services, ActorInv
<1> QED BY <1>1, <1>2, Creates, Quits, Leaves, Frees DEF Entry, AbstractActor!Next

\* The messages that a thread gives to services.
LEMMA MessageShows ==
    ASSUME ActorInv, Cases, Cases', Keeps, NEW t \in Threads,
           HandleServiceMsg(t) \/ HandleCloseRsp(t)
    PROVE  AbstractActor!Next \/ UNCHANGED AbstractActor!vars
BY Enters, Finishes DEF AbstractActor!Next

LEMMA StepShows ==
    ASSUME ActorInv, FlowInv', Cases, Cases', Next
    PROVE  AbstractActor!Next \/ UNCHANGED AbstractActor!vars
<1>0. /\ HostsOK /\ Keeps /\ 0 \in Threads /\ Workers \subseteq Threads
      /\ pc \in [Threads -> {"wait", "take", "handle", "entry", "last", "route",
                             "deliver", "flush", "sent", "join", "done"}]
  BY InvParts, StepKeeps, ThreadsType DEF ActorInv, FlowInv, HostsOK
<1>1. ASSUME NEW t \in Threads, ~Running(t), NEW l, Goto(t, l), l \notin {"entry", "last"},
             UNCHANGED <<memory, log, closing, running>>
      PROVE  UNCHANGED AbstractActor!vars
  <2>1. /\ ~Running(t)'
        /\ \A u \in Threads : u # t => pc'[u] = pc[u] /\ running'[u] = running[u]
    BY <1>0, <1>1 DEF Goto, Running
  <2> QED BY <1>0, <1>1, <2>1, Stutters DEF ActorInv
<1>2. ASSUME UNCHANGED <<memory, log, closing, running, pc>>
      PROVE  UNCHANGED AbstractActor!vars
  BY <1>0, <1>2, Stutters DEF ActorInv
<1>3. ASSUME NEW w \in Workers, WorkerStep(w)
      PROVE  AbstractActor!Next \/ UNCHANGED AbstractActor!vars
  <2>1. CASE HandleWorkerExitReq(w)
    BY <1>2, <2>1 DEF HandleWorkerExitReq, services
  <2>2. CASE WorkerTake(w)
    BY <1>0, <1>1, <2>2 DEF WorkerTake, services, Running
  <2>3. CASE WorkerFlushToMaster(w)
    BY <1>0, <1>1, <2>3 DEF WorkerFlushToMaster, services, Running
  <2>4. CASE WorkerFlushToServices(w)
    BY <1>0, <1>1, <2>4 DEF WorkerFlushToServices, services, Running
  <2> QED BY <1>0, <1>3, <2>1, <2>2, <2>3, <2>4, EntryShows, MessageShows DEF WorkerStep
<1>4. CASE MasterHandle
  <2>1. CASE HandleStartReq \/ HandleCloseReq \/ (\E s \in Services : HandleExitService(s))
               \/ HandleExitWorker \/ HandleExitDone
    BY <1>2, <2>1 DEF HandleStartReq, HandleCloseReq, HandleExitService,
       HandleExitWorker, HandleExitDone, services
  <2>2. CASE HandleWorkerExitRsp
    BY <1>0, <1>1, <2>2 DEF HandleWorkerExitRsp, Handling, services, Running
  <2> QED BY <1>0, <1>4, <2>1, <2>2, EntryShows, MessageShows DEF MasterHandle
<1>5. CASE MasterRoute
  BY <1>2, <1>5 DEF MasterRoute, services
<1>6. ASSUME NEW w \in Workers, MasterDeliver(w) PROVE UNCHANGED AbstractActor!vars
  BY <1>2, <1>6 DEF MasterDeliver, services
<1>7. CASE MasterWait \/ MasterTake \/ MasterGet
  BY <1>0, <1>1, <1>7 DEF MasterWait, MasterTake, MasterGet, services, Running
<1>8. CASE MasterRouted \/ MasterDelivered \/ MasterJoin
  BY <1>0, <1>1, <1>8 DEF MasterRouted, MasterDelivered, MasterJoin, services, Running
<1> QED BY <1>3, <1>4, <1>5, <1>6, <1>7, <1>8 DEF Next, MasterStep

LEMMA InitShows == Init => Owned /\ AbstractActor!Init
<1> SUFFICES ASSUME Init PROVE Owned /\ AbstractActor!Init
  OBVIOUS
<1>1. /\ \A s \in Services : log[s] = <<>>
      /\ \A s \in Services : memory[s] \in {"none", "used"}
      /\ \A t \in Threads : ~Running(t)
      /\ closing = [s \in Services |-> FALSE]
  BY RuntimeAssumption DEF Init, Running
<1>2. FlowInv /\ Cases
  BY InitFlow, StateCases
<1>3. \A s \in Services : StateOf(s) \in {"none", "ready"}
  BY <1>1, <1>2 DEF Cases, Busy, Ending, Running
<1>4. \A s \in Services : OwnerOf(s) = NoThread
  BY <1>1 DEF OwnerOf
<1> QED BY <1>1, <1>3, <1>4 DEF Owned, AbstractActor!Init, OwnerOf

LEMMA OwnedStep == ActorInv /\ [Next]_vars => ActorInv'
<1> SUFFICES ASSUME ActorInv, [Next]_vars PROVE ActorInv'
  OBVIOUS
<1>1. FlowInv'
  BY StepFlow, StutterFlow DEF ActorInv
<1>2. CASE Next
  BY <1>1, <1>2, StepKeeps, StepOwned DEF ActorInv, FlowInv
<1>3. CASE UNCHANGED vars
  BY <1>1, <1>3 DEF ActorInv, Owned, vars, services
<1> QED BY <1>2, <1>3

\* The runtime keeps the promises of module Actor, for any number of workers,
\* services and messages: one thread, one message at a time, nothing after the
\* service closed itself but its last message, and nothing after that.
THEOREM RuntimeIsActor == Spec => ImplementsActor
<1>1. ActorInv => Cases
  BY StateCases DEF ActorInv
<1>2. ActorInv /\ ActorInv' /\ Cases /\ Cases' /\ [Next]_vars
        => AbstractActor!Next \/ UNCHANGED AbstractActor!vars
  <2> SUFFICES ASSUME ActorInv, ActorInv', Cases, Cases', [Next]_vars
               PROVE  AbstractActor!Next \/ UNCHANGED AbstractActor!vars
    OBVIOUS
  <2>1. CASE Next
    BY <2>1, StepShows DEF ActorInv
  <2>2. CASE UNCHANGED vars
    <3>1. Keeps
      BY <2>2 DEF Keeps, vars, services
    <3> QED BY <2>2, <3>1, Stutters DEF vars, services, ActorInv
  <2> QED BY <2>1, <2>2
<1>3. Init => ActorInv
  BY InitShows, InitFlow DEF ActorInv
<1>4. Spec => []ActorInv
  BY <1>3, OwnedStep, PTL DEF Spec
<1>5. Spec => AbstractActor!Spec
  BY <1>1, <1>2, <1>4, InitShows, PTL DEF Spec, AbstractActor!Spec
<1> QED BY <1>5 DEF ImplementsActor
=============================================================================
