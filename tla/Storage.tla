------------------------------ MODULE Storage ------------------------------
(***************************************************************************)
(* The memory of a thread and the tables it is threaded through: the       *)
(* queues of src/src/lucy/core/queue.c, the free buffers, the service      *)
(* table and the thread pool of src/src/lucy/core/master.c, pointer by     *)
(* pointer.                                                                *)
(*                                                                         *)
(* A message and a service are buffers whose first word is a list node.    *)
(* One node serves every list: the queues of messages, the chains of the   *)
(* service table and the queue of free buffers.  Addresses are integers:   *)
(* objects are positive, the heads of lists negative.  The program that    *)
(* uses the lists does so by the rules: it queues what it holds, and holds *)
(* what it took out.                                                       *)
(***************************************************************************)
EXTENDS Integers, Sequences, FiniteSets, SequencesExt, FiniteSetsExt

CONSTANTS
    NumObjects,  \* blocks of memory
    Sizes,       \* sizes that are asked for
    Limit,       \* thread_max_free_memory
    NumSlots,    \* nslot
    NumWorkers,  \* l_num_workers
    SvidRange,   \* 2^32
    SvidStart,   \* L_SERVICE_START_ID
    MaxIds       \* bound: ids given out

Null == 0
Objects == 1..NumObjects
FreeQ == -1            \* l_freebq.queue
TxQ == -2              \* a thread's queue of messages
RxQ == -3              \* the queue it is flushed to
Queues == {FreeQ, TxQ, RxQ}
SlotHead(i) == -4 - i
Slots == {SlotHead(i) : i \in 0..NumSlots - 1}
Workers == 1..NumWorkers
Pool == 0              \* the head of l_thread_pool

ASSUME StorageAssumption ==
    /\ NumObjects \in Nat /\ NumWorkers \in Nat /\ MaxIds \in Nat
    /\ NumSlots \in Nat \ {0}
    /\ Sizes \subseteq Nat \ {0}
    /\ Limit \in Nat
    /\ SvidStart \in Nat /\ SvidRange \in Nat /\ SvidStart < SvidRange

VARIABLES
    next,      \* next[a]: the node's pointer
    tail,      \* tail[q]: the queue's pointer to its last node
    bsize,     \* bsize[o]: the size its header names, 0 if it is not allocated
    held,      \* the objects that the program holds
    size, frmem,   \* l_freebq
    svid,      \* svid[o]: the service id, 0 if it has none
    seed,      \* l_svid_seed
    nelem,     \* l_srvctable.nelem
    owner,     \* owner[o]: the thread a service in the table is attached to
    pnext, pprev,  \* the nodes of l_thread_pool
    weight,    \* weight[w]: thread->weight
    doing,     \* the loop the program is in
    hint,      \* l_frontsrvc.hint
    ids,       \* ids given out so far
    born,      \* born[o]: how many had been given out before the service's
    resized    \* a buffer was given a new size

lists == <<next, tail>>
memory == <<bsize, held, size, frmem, resized>>
table == <<svid, seed, nelem, owner, ids, born>>
pool == <<pnext, pprev, weight>>
vars == <<lists, memory, table, pool, doing, hint>>

-----------------------------------------------------------------------------
(* l_squeue.                                                               *)

Insert(q, o) ==
    /\ next' = [next EXCEPT ![o] = next[tail[q]], ![tail[q]] = o]
    /\ tail' = [tail EXCEPT ![q] = o]

\* Seeded fault: the tail stays at the node that was taken.
StaleTail(q) == tail

\* Taking the last node leaves the tail at the head.
TailAfterPop(q) ==
    IF next[q] = tail[q] THEN [tail EXCEPT ![q] = q] ELSE tail

Unlink(q) ==
    /\ next' = [next EXCEPT ![q] = next[next[q]]]
    /\ tail' = TailAfterPop(q)

IsEmpty(q) == next[q] = q

InsertQueue(q, r) ==
    IF IsEmpty(r) THEN UNCHANGED lists
    ELSE /\ next' = [next EXCEPT ![tail[q]] = next[r], ![tail[r]] = q, ![r] = r]
         /\ tail' = [tail EXCEPT ![q] = tail[r], ![r] = r]

-----------------------------------------------------------------------------
(* l_buffer_init and l_buffer_free.                                        *)

Idle == doing = "idle"

\* No free buffer: the memory is new (which block it is makes no difference, so
\* take the first).
AllocNew(o, n) ==
    /\ Idle
    /\ IsEmpty(FreeQ)
    /\ bsize[o] = 0 /\ \A p \in 1..o - 1 : bsize[p] # 0
    /\ bsize' = [bsize EXCEPT ![o] = n]
    /\ held' = held \union {o}
    /\ UNCHANGED <<lists, size, frmem, resized, table, pool, doing, hint>>

\* Seeded fault: the queue of free buffers is not counted down.
NotCounted(n) == n

CountedDown(n) == n - 1

\* The first free buffer is taken and given the size asked for, larger or
\* smaller; frmem is counted down by the new size, and nothing is cleared.
AllocFree(n) ==
    /\ Idle
    /\ ~IsEmpty(FreeQ)
    /\ LET o == next[FreeQ] IN
         /\ bsize' = [bsize EXCEPT ![o] = n]
         /\ held' = held \union {o}
         /\ resized' = (resized \/ bsize[o] # n)
    /\ Unlink(FreeQ)
    /\ size' = CountedDown(size)
    /\ frmem' = frmem - n
    /\ UNCHANGED <<table, pool, doing, hint>>

\* There is no memory for the new size: the buffer goes back to the queue.
AllocFails ==
    /\ Idle
    /\ ~IsEmpty(FreeQ)
    /\ LET o == next[FreeQ]
           popped == [next EXCEPT ![FreeQ] = next[o]]
           last == TailAfterPop(FreeQ)[FreeQ]
       IN  /\ next' = [popped EXCEPT ![o] = popped[last], ![last] = o]
           /\ tail' = [tail EXCEPT ![FreeQ] = o]
    /\ UNCHANGED <<memory, table, pool, doing, hint>>

Free(o) ==
    /\ Idle
    /\ o \in held
    /\ held' = held \ {o}
    /\ svid' = [svid EXCEPT ![o] = 0]
    /\ owner' = [owner EXCEPT ![o] = 0]
    /\ born' = [born EXCEPT ![o] = 0]
    /\ Insert(FreeQ, o)
    /\ size' = size + 1
    /\ frmem' = frmem + bsize[o]
    /\ doing' = "trim"
    /\ UNCHANGED <<bsize, resized, seed, nelem, ids, pool, hint>>

\* Seeded fault: a buffer more than the limit is kept.
OverLimitLate(f) == f > Limit + 1

OverLimit(f) == f > Limit

\* One turn of the loop that gives memory back while frmem exceeds the limit.
Trim ==
    /\ doing = "trim"
    /\ IF OverLimit(frmem) /\ ~IsEmpty(FreeQ)
       THEN /\ LET o == next[FreeQ] IN
                 /\ bsize' = [bsize EXCEPT ![o] = 0]
                 /\ frmem' = frmem - bsize[o]
            /\ Unlink(FreeQ)
            /\ size' = size - 1
            /\ UNCHANGED doing
       ELSE /\ doing' = "idle"
            /\ UNCHANGED <<lists, bsize, size, frmem>>
    /\ UNCHANGED <<held, resized, table, pool, hint>>

-----------------------------------------------------------------------------
(* Messages: l_message_send_impl, the flush, and the receiving end.        *)

Send(o) ==
    /\ Idle
    /\ o \in held /\ svid[o] = 0
    /\ Insert(TxQ, o)
    /\ held' = held \ {o}
    /\ UNCHANGED <<bsize, size, frmem, resized, table, pool, doing, hint>>

Flush ==
    /\ Idle
    /\ InsertQueue(RxQ, TxQ)
    /\ UNCHANGED <<memory, table, pool, doing, hint>>

Receive ==
    /\ Idle
    /\ ~IsEmpty(RxQ)
    /\ held' = held \union {next[RxQ]}
    /\ Unlink(RxQ)
    /\ UNCHANGED <<bsize, size, frmem, resized, table, pool, doing, hint>>

-----------------------------------------------------------------------------
(* l_master_new_svid and l_service_createFrom.                             *)

\* Seeded fault: the first id that services may have is left out.
NextSvidLate(n) ==
    LET m == (n + 1) % SvidRange IN IF m <= SvidStart THEN SvidStart + 1 ELSE m

NextSvid(n) ==
    LET m == (n + 1) % SvidRange IN IF m < SvidStart THEN SvidStart ELSE m

NewService(o) ==
    /\ Idle
    /\ o \in held /\ svid[o] = 0
    /\ ids < MaxIds
    /\ ids' = ids + 1
    /\ seed' = NextSvid(seed)
    /\ svid' = [svid EXCEPT ![o] = seed']
    /\ born' = [born EXCEPT ![o] = ids]
    /\ UNCHANGED <<lists, memory, nelem, owner, pool, doing, hint>>

-----------------------------------------------------------------------------
(* l_priorq and the thread pool.                                           *)

\* The nodes from the front to the end of the pool.
PoolOrder ==
    LET path[n \in 0..NumWorkers] ==
          IF n = 0 THEN <<pnext[Pool]>>
          ELSE Append(path[n - 1], pnext[path[n - 1][n]])
    IN  path[NumWorkers]

\* Seeded fault: the pool is ordered from the busiest worker.
BusierFirst(v, w) == v > w

LessLoaded(v, w) == v < w

\* l_priorq_push of a worker into a pool it is not in: it goes before the
\* first that is not less loaded, or before the head.
Pushed(nx, pv, w, wt) ==
    LET path[n \in 0..NumWorkers] ==
          IF n = 0 THEN nx[Pool]
          ELSE IF path[n - 1] # Pool /\ LessLoaded(wt[path[n - 1]], wt[w])
               THEN nx[path[n - 1]] ELSE path[n - 1]
        cur == path[NumWorkers]
    IN  [nx |-> [nx EXCEPT ![pv[cur]] = w, ![w] = cur],
         pv |-> [pv EXCEPT ![w] = pv[cur], ![cur] = w]]

\* l_thread_acquire, l_thread_acquireSpecific and l_thread_release: the worker
\* is taken out, and put back with its weight changed.
Reweigh(w, d) ==
    LET nx == [pnext EXCEPT ![pprev[w]] = pnext[w]]
        pv == [pprev EXCEPT ![pnext[w]] = pprev[w]]
        wt == [weight EXCEPT ![w] = @ + d]
        q == Pushed(nx, pv, w, wt)
    IN  /\ weight' = wt
        /\ pnext' = q.nx
        /\ pprev' = q.pv

-----------------------------------------------------------------------------
(* The service table.                                                      *)

HeadOf(id) == SlotHead(id % NumSlots)

\* The nodes of a chain.
ChainOf(h) ==
    LET path[n \in 0..NumObjects] ==
          IF n = 0 THEN <<>>
          ELSE LET p == path[n - 1]
                   a == next[IF p = <<>> THEN h ELSE Last(p)]
               IN  IF Len(p) < n - 1 \/ a = Null THEN p ELSE Append(p, a)
    IN  path[NumObjects]

\* l_srvctabledfind: the first of the chain that has the id, or Null.
Find(id) ==
    LET c == ChainOf(HeadOf(id))
        hits == {i \in DOMAIN c : svid[c[i]] = id}
    IN  IF hits = {} THEN Null ELSE c[Min(hits)]

\* Seeded fault: what was chained in a slot is forgotten.
ChainAlone(o, h) == [next EXCEPT ![o] = Null, ![h] = o]

ChainFirst(o, h) == [next EXCEPT ![o] = next[h], ![h] = o]

\* L_MSGID_SRVC_START_REQ: attach a thread (l_service_startEx names one), then
\* l_srvctabledadd.
AddService(o, w) ==
    /\ Idle
    /\ o \in held /\ svid[o] # 0 /\ owner[o] = 0
    /\ held' = held \ {o}
    /\ next' = ChainFirst(o, HeadOf(svid[o]))
    /\ nelem' = nelem + 1
    /\ owner' = [owner EXCEPT ![o] = w]
    /\ Reweigh(w, 1)
    /\ UNCHANGED <<tail, bsize, size, frmem, resized, svid, seed, ids,
                   born, doing, hint>>

\* The node whose pointer leads to o.
Before(h, o) ==
    LET c == ChainOf(h)
        i == CHOOSE j \in DOMAIN c : c[j] = o
    IN  IF i = 1 THEN h ELSE c[i - 1]

\* L_MSGID_SRVC_CLOSE_REQ: l_srvctableddel, and the thread is released.
DelService(id) ==
    /\ Idle
    /\ LET o == Find(id) IN
         /\ o # Null
         /\ next' = [next EXCEPT ![Before(HeadOf(id), o)] = next[o]]
         /\ held' = held \union {o}
         /\ Reweigh(owner[o], -1)
    /\ nelem' = nelem - 1
    /\ UNCHANGED <<tail, bsize, size, frmem, resized, svid, seed, owner,
                   ids, born, doing, hint>>

\* L_MSGID_MASTER_EXIT_REQ: l_srvctableddelFront until it returns no service,
\* beginning each time at the slot where it found the last.
SweepStart ==
    /\ Idle
    /\ doing' = "sweep"
    /\ hint' = 0
    /\ UNCHANGED <<lists, memory, table, pool>>

Sweep ==
    /\ doing = "sweep"
    /\ LET full == {i \in hint..NumSlots - 1 : next[SlotHead(i)] # Null} IN
         IF full = {}
         THEN /\ doing' = "swept"
              /\ UNCHANGED <<next, held, hint, pool>>
         ELSE LET i == Min(full)
                  o == next[SlotHead(i)]
              IN  /\ next' = [next EXCEPT ![SlotHead(i)] = next[o]]
                  /\ held' = held \union {o}
                  /\ hint' = i
                  /\ Reweigh(owner[o], -1)
                  /\ UNCHANGED doing
    /\ UNCHANGED <<tail, bsize, size, frmem, resized, svid, seed, nelem,
                   owner, ids, born>>

-----------------------------------------------------------------------------
Init ==
    /\ next = [a \in Objects \union Queues \union Slots |->
                 IF a \in Queues THEN a ELSE Null]
    /\ tail = [q \in Queues |-> q]
    /\ bsize = [o \in Objects |-> 0]
    /\ held = {}
    /\ size = 0 /\ frmem = 0
    /\ svid = [o \in Objects |-> 0]
    /\ seed = SvidStart
    /\ nelem = 0
    /\ owner = [o \in Objects |-> 0]
    \* l_master_init pushes the idle workers one after the other.
    /\ pnext = [w \in 0..NumWorkers |-> IF w = 0 THEN NumWorkers ELSE w - 1]
    /\ pprev = [w \in 0..NumWorkers |-> IF w = NumWorkers THEN 0 ELSE w + 1]
    /\ weight = [w \in Workers |-> 0]
    /\ doing = "idle"
    /\ hint = 0
    /\ ids = 0
    /\ born = [o \in Objects |-> 0]
    /\ resized = FALSE

Next ==
    \/ \E o \in Objects, n \in Sizes : AllocNew(o, n)
    \/ \E n \in Sizes : AllocFree(n)
    \/ AllocFails
    \/ \E o \in Objects : Free(o) \/ Send(o) \/ NewService(o)
    \/ \E o \in Objects, w \in Workers : AddService(o, w)
    \/ \E id \in SvidStart..SvidRange - 1 : DelService(id)
    \/ Trim \/ Flush \/ Receive \/ SweepStart \/ Sweep

Spec == Init /\ [][Next]_vars

-----------------------------------------------------------------------------
(* Properties.                                                             *)

\* The types of the variables.
TypeOK ==
    /\ next \in [Objects \union Queues \union Slots ->
                   Objects \union Queues \union {Null}]
    /\ tail \in [Queues -> Objects \union Queues]
    /\ bsize \in [Objects -> Sizes \union {0}]
    /\ held \subseteq Objects
    /\ size \in 0..NumObjects /\ frmem \in Int
    /\ svid \in [Objects -> {0} \union SvidStart..SvidRange - 1]
    /\ seed \in SvidStart..SvidRange - 1
    /\ nelem \in Nat
    /\ owner \in [Objects -> 0..NumWorkers]
    /\ pnext \in [0..NumWorkers -> 0..NumWorkers]
    /\ pprev \in [0..NumWorkers -> 0..NumWorkers]
    /\ weight \in [Workers -> Nat]
    /\ doing \in {"idle", "trim", "sweep", "swept"}
    /\ hint \in 0..NumSlots
    /\ ids \in 0..MaxIds /\ born \in [Objects -> 0..MaxIds]
    /\ resized \in BOOLEAN

\* The nodes of a queue.
QueueOf(q) ==
    LET path[n \in 0..NumObjects] ==
          IF n = 0 THEN <<>>
          ELSE LET p == path[n - 1]
                   a == next[IF p = <<>> THEN q ELSE Last(p)]
               IN  IF Len(p) < n - 1 \/ a = q \/ a = Null THEN p ELSE Append(p, a)
    IN  path[NumObjects]

ListOf(l) ==
    IF next[l] \in {l, Null} THEN <<>>
    ELSE IF l \in Queues THEN QueueOf(l) ELSE ChainOf(l)

AbstractLists == INSTANCE Lists WITH
    Chains <- Slots,
    content <- [l \in Queues \union Slots |-> ListOf(l)]

\* The pointers implement lists: however objects move between the queues, the
\* table and the free buffers through their one node, each list holds what was
\* put into it, in order, and no other is changed.
ImplementsLists == AbstractLists!Spec

InTable == UNION {ToSet(ListOf(h)) : h \in Slots}
InQueues == UNION {ToSet(ListOf(q)) : q \in Queues}

\* No memory is lost and none is used twice: a block that is allocated is held
\* by the program, in a queue or in the table; the free buffers are counted.
NothingLost ==
    /\ TypeOK
    /\ LET tabled == InTable
           queued == InQueues
       IN  /\ {o \in Objects : bsize[o] # 0} = held \union tabled \union queued
           /\ held \intersect (tabled \union queued) = {}
           /\ tabled \intersect queued = {}
    /\ size = Len(QueueOf(FreeQ))

FreeMemory == MapThenSumSet(LAMBDA o : bsize[o], ToSet(QueueOf(FreeQ)))

\* As long as every buffer was used for what has its size, frmem is the size of
\* the free buffers, and between two operations it is within the limit.
AccountExact ==
    ~resized => frmem = FreeMemory /\ (Idle => frmem <= Limit)

\* The pool holds every worker once, linked both ways, and the least loaded
\* first, so that l_thread_acquire takes one of those; the load is the number
\* of services in the table.
PoolOrdered ==
    LET order == SubSeq(PoolOrder, 1, NumWorkers)
        tabled == InTable
    IN  /\ ToSet(order) = Workers
        /\ PoolOrder[NumWorkers + 1] = Pool
        /\ \A a \in 0..NumWorkers : pprev[pnext[a]] = a
        /\ \A i \in 1..NumWorkers - 1 : weight[order[i]] <= weight[order[i + 1]]
        /\ \A w \in Workers : weight[w] = Cardinality({o \in tabled : owner[o] = w})

\* Two services have the same id only if the ids went once around between them,
\* and no service has one of the ids below L_SERVICE_START_ID.
FreshIds ==
    /\ \A o, p \in Objects :
         o # p /\ svid[o] # 0 /\ svid[o] = svid[p] =>
           /\ born[o] # born[p]
           /\ (born[o] - born[p]) % (SvidRange - SvidStart) = 0
    /\ \A o \in Objects : svid[o] # 0 => svid[o] >= SvidStart

\* A service in the table is found under its id, unless another got the same
\* id; until the services are swept, the table knows how many it has; and the
\* sweep at exit leaves nothing behind the slot it has come to, so that it ends
\* with an empty table.
Found ==
    /\ LET tabled == InTable IN
         /\ \A o \in tabled :
              \/ Find(svid[o]) = o
              \/ \E p \in tabled \ {o} : svid[p] = svid[o]
         /\ doing \notin {"sweep", "swept"} => nelem = Cardinality(tabled)
    /\ doing = "sweep" => \A i \in 0..hint - 1 : next[SlotHead(i)] = Null
    /\ doing = "swept" => InTable = {}
=============================================================================
