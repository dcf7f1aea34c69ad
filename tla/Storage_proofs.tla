---------------------------- MODULE Storage_proofs ----------------------------
(***************************************************************************)
(* Proofs about module Storage, for every number of blocks, slots, workers *)
(* and ids: the ids of services, the lists that the pointers represent,    *)
(* where each block is, the account of the free buffers, what the table    *)
(* finds and the order of the pool.                                        *)
(***************************************************************************)
EXTENDS Storage, FiniteSetTheorems, FunctionTheorems, TLAPS

\* How many ids there are: they start again after so many.
Around == SvidRange - SvidStart

\* The types of the variables that ids depend on.
IdsTyped ==
    /\ svid \in [Objects -> {0} \union SvidStart..SvidRange - 1]
    /\ seed \in SvidStart..SvidRange - 1
    /\ ids \in Nat
    /\ born \in [Objects -> Nat]

\* n ids after the first, the seed is at id.
Reached(n, id) == \E rounds \in Nat : n = rounds * Around + (id - SvidStart)

\* The seed goes on with every id that is given out, a service has the id its
\* number stands for, and no two services have one number.
IdsInv ==
    /\ IdsTyped
    /\ Reached(ids, seed)
    /\ \A o \in Objects :
         svid[o] # 0 => born[o] < ids /\ Reached(born[o] + 1, svid[o])
    /\ \A o, p \in Objects :
         o # p /\ svid[o] # 0 /\ svid[p] # 0 => born[o] # born[p]

\* There is at least one id.
LEMMA AroundType == Around \in Nat \ {0}
BY StorageAssumption DEF Around

\* Whole rounds lead to the same id.
LEMMA WholeRounds ==
    ASSUME NEW n \in Nat \ {0}, NEW r \in Int
    PROVE  (r * n) % n = 0
OBVIOUS

\* The next id is one further on the way round.
LEMMA NextSvidType ==
    ASSUME NEW n \in SvidStart..SvidRange - 1
    PROVE  /\ NextSvid(n) \in SvidStart..SvidRange - 1
           /\ NextSvid(n) = IF n + 1 = SvidRange THEN SvidStart ELSE n + 1
<1>1. SvidStart \in Nat /\ SvidRange \in Nat \ {0} /\ SvidStart < SvidRange
  BY StorageAssumption
<1>2. n \in Nat /\ n < SvidRange /\ n >= SvidStart
  BY <1>1
<1>3. (n + 1) % SvidRange = IF n + 1 = SvidRange THEN 0 ELSE n + 1
  BY <1>1, <1>2
<1>4. CASE n + 1 = SvidRange
  BY <1>1, <1>3, <1>4 DEF NextSvid
<1>5. CASE n + 1 # SvidRange
  BY <1>1, <1>2, <1>3, <1>5 DEF NextSvid
<1> QED BY <1>4, <1>5

\* One id more, and the seed is at the next.
LEMMA NextReached ==
    ASSUME NEW n \in Nat, NEW id \in SvidStart..SvidRange - 1, Reached(n, id)
    PROVE  Reached(n + 1, NextSvid(id))
<1> DEFINE a == Around
<1>1. PICK r \in Nat : n = r * a + (id - SvidStart)
  BY DEF Reached
<1>2. a \in Nat /\ a = SvidRange - SvidStart /\ SvidStart \in Nat /\ SvidRange \in Nat
  BY StorageAssumption DEF Around
<1>3. CASE id + 1 = SvidRange
  <2>1. NextSvid(id) = SvidStart
    BY <1>3, NextSvidType
  <2> HIDE DEF a
  <2>2. n + 1 = r * a + a
    <3>1. id \in Nat /\ id - SvidStart = a - 1
      BY <1>2, <1>3
    <3>2. r * a \in Nat
      BY <1>2
    <3> QED BY <1>1, <1>2, <3>1, <3>2
  <2>3. r * a + a = (r + 1) * a
    BY <1>2
  <2>4. n + 1 = (r + 1) * a + (SvidStart - SvidStart)
    BY <1>2, <2>2, <2>3
  <2> QED BY <2>1, <2>4 DEF Reached, a
<1>4. CASE id + 1 # SvidRange
  <2>1. NextSvid(id) = id + 1
    BY <1>4, NextSvidType
  <2> HIDE DEF a
  <2>2. r * a \in Nat /\ id \in Nat
    BY <1>2
  <2>3. n + 1 = r * a + ((id + 1) - SvidStart)
    BY <1>1, <1>2, <2>2
  <2> QED BY <2>1, <2>3 DEF Reached, a
<1> QED BY <1>3, <1>4

\* The invariant holds before the first id is given out.
LEMMA InitIds == Init => IdsInv
<1> SUFFICES ASSUME Init PROVE IdsInv
  OBVIOUS
<1>1. svid = [o \in Objects |-> 0] /\ seed = SvidStart /\ ids = 0
  BY DEF Init
<1>2. born = [o \in Objects |-> 0]
  BY DEF Init
<1>3. IdsTyped
  BY <1>1, <1>2, StorageAssumption DEF IdsTyped
<1>4. Reached(0, SvidStart)
  <2>1. Around \in Nat /\ SvidStart \in Nat
    BY AroundType, StorageAssumption
  <2>2. 0 = 0 * Around + (SvidStart - SvidStart)
    BY <2>1
  <2> QED BY <2>2 DEF Reached
<1> QED BY <1>1, <1>3, <1>4 DEF IdsInv

\* A step that gives out no id, and at most takes ids away.
Quiet ==
    /\ seed' = seed /\ ids' = ids
    /\ \/ svid' = svid /\ born' = born
       \/ \E o \in Objects :
            /\ svid' = [svid EXCEPT ![o] = 0]
            /\ born' = [born EXCEPT ![o] = 0]

\* Such a step keeps the invariant.
LEMMA QuietKeeps == IdsInv /\ Quiet => IdsInv'
<1> SUFFICES ASSUME IdsInv, Quiet PROVE IdsInv'
  OBVIOUS
<1>1. IdsTyped /\ seed' = seed /\ ids' = ids
  BY DEF IdsInv, Quiet
<1>2. IdsTyped'
  BY <1>1 DEF Quiet, IdsTyped
<1>3. \A o \in Objects : svid'[o] # 0 => svid'[o] = svid[o] /\ born'[o] = born[o]
  BY <1>1 DEF Quiet, IdsTyped
<1>4. Reached(ids, seed)'
  BY <1>1 DEF IdsInv, Reached
<1>5. \A o \in Objects :
        svid'[o] # 0 => born'[o] < ids' /\ Reached(born'[o] + 1, svid'[o])
  BY <1>1, <1>3 DEF IdsInv
<1>6. \A o, p \in Objects :
        o # p /\ svid'[o] # 0 /\ svid'[p] # 0 => born'[o] # born'[p]
  BY <1>3 DEF IdsInv
<1>7. (\A o \in Objects :
         svid[o] # 0 => born[o] < ids /\ Reached(born[o] + 1, svid[o]))'
  BY <1>5 DEF Reached
<1> QED BY <1>2, <1>4, <1>6, <1>7 DEF IdsInv

\* A new service gets the next id.
LEMMA NewServiceKeeps ==
    ASSUME IdsInv, NEW o \in Objects, NewService(o)
    PROVE  IdsInv'
<1>1. /\ seed' = NextSvid(seed) /\ ids' = ids + 1
      /\ svid' = [svid EXCEPT ![o] = seed']
      /\ born' = [born EXCEPT ![o] = ids]
  BY DEF NewService
<1>2. IdsTyped
  BY DEF IdsInv
<1>3. seed' \in SvidStart..SvidRange - 1
  BY <1>1, <1>2, NextSvidType DEF IdsTyped
<1>4. IdsTyped'
  BY <1>1, <1>2, <1>3 DEF IdsTyped
<1>5. Reached(ids', seed')
  BY <1>1, <1>2, NextReached DEF IdsInv, IdsTyped
<1>6. svid'[o] = seed' /\ born'[o] = ids
  BY <1>1, <1>2 DEF IdsTyped
<1>7. \A p \in Objects \ {o} : svid'[p] = svid[p] /\ born'[p] = born[p]
  BY <1>1, <1>2 DEF IdsTyped
<1>8. ids \in Nat /\ ids < ids'
  BY <1>1, <1>2 DEF IdsTyped
<1>9. \A p \in Objects :
        svid'[p] # 0 => born'[p] < ids' /\ Reached(born'[p] + 1, svid'[p])
  <2> SUFFICES ASSUME NEW p \in Objects, svid'[p] # 0
               PROVE  born'[p] < ids' /\ Reached(born'[p] + 1, svid'[p])
    OBVIOUS
  <2>1. CASE p = o
    BY <1>1, <1>5, <1>6, <1>8, <2>1
  <2>2. CASE p # o
    <3>1. born[p] < ids /\ Reached(born[p] + 1, svid[p]) /\ born[p] \in Nat
      BY <1>2, <1>7, <2>2 DEF IdsInv, IdsTyped
    <3>2. born[p] < ids'
      BY <1>1, <1>8, <3>1
    <3> QED BY <1>7, <2>2, <3>1, <3>2
  <2> QED BY <2>1, <2>2
<1>10. \A p, q \in Objects :
         p # q /\ svid'[p] # 0 /\ svid'[q] # 0 => born'[p] # born'[q]
  <2>1. \A p \in Objects \ {o} : svid'[p] # 0 => born'[p] < ids
    BY <1>7 DEF IdsInv
  <2>2. \A p \in Objects \ {o} : svid'[p] # 0 => born'[p] # ids
    BY <1>4, <1>8, <2>1 DEF IdsTyped
  <2> QED BY <1>6, <1>7, <2>2 DEF IdsInv
<1>11. (\A p \in Objects :
          svid[p] # 0 => born[p] < ids /\ Reached(born[p] + 1, svid[p]))'
  BY <1>9 DEF Reached
<1>12. Reached(ids, seed)'
  BY <1>5 DEF Reached
<1> QED BY <1>4, <1>10, <1>11, <1>12 DEF IdsInv

\* Of all the steps only the creation of a service gives out an id.
LEMMA NextIds == IdsInv /\ [Next]_vars => IdsInv'
<1> SUFFICES ASSUME IdsInv, [Next]_vars PROVE IdsInv'
  OBVIOUS
<1>1. ASSUME NEW o \in Objects, NewService(o) PROVE IdsInv'
  BY <1>1, NewServiceKeeps
<1>2. ASSUME NEW o \in Objects, Free(o) PROVE Quiet
  BY <1>2 DEF Free, Quiet
<1>3. ASSUME NEW o \in Objects, NEW n \in Sizes, AllocNew(o, n) PROVE Quiet
  BY <1>3 DEF AllocNew, Quiet, table
<1>4. ASSUME NEW n \in Sizes, AllocFree(n) PROVE Quiet
  BY <1>4 DEF AllocFree, Quiet, table
<1>5. ASSUME AllocFails PROVE Quiet
  BY <1>5 DEF AllocFails, Quiet, table
<1>6. ASSUME NEW o \in Objects, Send(o) PROVE Quiet
  BY <1>6 DEF Send, Quiet, table
<1>7. ASSUME NEW o \in Objects, NEW w \in Workers, AddService(o, w) PROVE Quiet
  BY <1>7 DEF AddService, Quiet
<1>8. ASSUME NEW id \in SvidStart..SvidRange - 1, DelService(id) PROVE Quiet
  BY <1>8 DEF DelService, Quiet
<1>9. ASSUME Trim PROVE Quiet
  BY <1>9 DEF Trim, Quiet, table
<1>10. ASSUME Flush PROVE Quiet
  BY <1>10 DEF Flush, Quiet, table
<1>11. ASSUME Receive PROVE Quiet
  BY <1>11 DEF Receive, Quiet, table
<1>12. ASSUME SweepStart PROVE Quiet
  BY <1>12 DEF SweepStart, Quiet, table
<1>13. ASSUME Sweep PROVE Quiet
  BY <1>13 DEF Sweep, Quiet
<1>14. ASSUME UNCHANGED vars PROVE Quiet
  BY <1>14 DEF vars, table, Quiet
<1> QED
  BY <1>1, <1>2, <1>3, <1>4, <1>5, <1>6, <1>7, <1>8, <1>9, <1>10, <1>11,
     <1>12, <1>13, <1>14, QuietKeeps DEF Next

\* However many ids are given out, a service has the id its number stands for.
THEOREM IdsInvariance == Spec => []IdsInv
<1>1. Init => IdsInv
  BY InitIds
<1>2. IdsInv /\ [Next]_vars => IdsInv'
  BY NextIds
<1> QED BY <1>1, <1>2, PTL DEF Spec

\* l_master_new_svid: two services have the same id only if the ids went once
\* around, or several times, between the one and the other; none has an id below
\* L_SERVICE_START_ID.
THEOREM IdsAreFresh == Spec => []FreshIds
<1>1. IdsInv => FreshIds
  <2> SUFFICES ASSUME IdsInv, NEW o \in Objects, NEW p \in Objects,
                      o # p, svid[o] # 0, svid[o] = svid[p]
               PROVE  /\ born[o] # born[p]
                      /\ (born[o] - born[p]) % (SvidRange - SvidStart) = 0
    <3>1. ASSUME IdsInv, NEW o \in Objects, svid[o] # 0 PROVE svid[o] >= SvidStart
      <4>1. svid[o] \in SvidStart..SvidRange - 1
        BY <3>1 DEF IdsInv, IdsTyped
      <4> QED BY <4>1, StorageAssumption
    <3> QED BY <3>1 DEF FreshIds
  <2>1. born[o] # born[p]
    BY DEF IdsInv
  <2>2. PICK i \in Nat : born[o] + 1 = i * Around + (svid[o] - SvidStart)
    BY DEF IdsInv, Reached
  <2>3. PICK j \in Nat : born[p] + 1 = j * Around + (svid[o] - SvidStart)
    BY DEF IdsInv, Reached
  <2>4. Around \in Nat \ {0} /\ SvidStart \in Nat /\ SvidRange \in Nat
    BY AroundType, StorageAssumption
  <2>5. born[o] \in Nat /\ born[p] \in Nat /\ svid[o] \in Nat
    BY <2>4 DEF IdsInv, IdsTyped
  <2>6. born[o] - born[p] = (i - j) * Around
    <3>1. i * Around \in Nat /\ j * Around \in Nat
      BY <2>4
    <3>2. (i - j) * Around = i * Around - j * Around
      BY <2>4
    <3> DEFINE x == i * Around
               y == j * Around
    <3> HIDE DEF x, y
    <3>3. x \in Nat /\ y \in Nat
      BY <3>1 DEF x, y
    <3>4. /\ born[o] + 1 = x + (svid[o] - SvidStart)
          /\ born[p] + 1 = y + (svid[o] - SvidStart)
      BY <2>2, <2>3 DEF x, y
    <3>5. born[o] - born[p] = x - y
      BY <2>4, <2>5, <3>3, <3>4
    <3> QED BY <3>2, <3>5 DEF x, y
  <2>7. ((i - j) * Around) % Around = 0
    BY <2>4, WholeRounds
  <2> QED BY <2>1, <2>6, <2>7 DEF Around
<1> QED BY <1>1, IdsInvariance, PTL
-----------------------------------------------------------------------------
(* Natural numbers.                                                        *)

\* Counting reaches every number: otherwise adding 1 would map the numbers that
\* are reached below one that is not into themselves without 0.
LEMMA Counting ==
    ASSUME NEW T \in SUBSET Nat, 0 \in T, \A n \in T : n + 1 \in T
    PROVE  T = Nat
<1> SUFFICES ASSUME NEW n \in Nat, n \notin T PROVE FALSE
  OBVIOUS
<1> DEFINE S == T \intersect (0..n)
           f == [x \in S |-> x + 1]
<1>1. IsFiniteSet(0..n) /\ S \in SUBSET (0..n)
  BY FS_Interval
<1>2. IsFiniteSet(S)
  BY <1>1, FS_Subset
<1>3. /\ 0 \in S /\ IsFiniteSet(S \ {0})
      /\ Cardinality(S \ {0}) = Cardinality(S) - 1
  BY <1>2, FS_RemoveElement
<1>4. \A x \in S : x + 1 \in S \ {0}
  <2> SUFFICES ASSUME NEW x \in S PROVE x + 1 \in S \ {0}
    OBVIOUS
  <2>1. x \in Nat /\ x <= n /\ x # n
    OBVIOUS
  <2> QED BY <2>1
<1>5. f \in Injection(S, S \ {0})
  <2>1. f \in [S -> S \ {0}]
    BY <1>4
  <2>2. \A x, y \in S : f[x] = f[y] => x = y
    OBVIOUS
  <2> QED BY <2>1, <2>2 DEF Injection, IsInjective
<1>6. Cardinality(S) <= Cardinality(S \ {0})
  BY <1>3, <1>5, FS_Injection
<1>7. Cardinality(S) \in Nat
  BY <1>2, FS_CardinalityType
<1> QED BY <1>3, <1>6, <1>7

\* Counting up to a bound.
LEMMA CountingTo ==
    ASSUME NEW b \in Nat, NEW T, 0 \in T, \A n \in 0..b - 1 : n \in T => n + 1 \in T
    PROVE  \A n \in 0..b : n \in T
<1> DEFINE U == {n \in Nat : n <= b => n \in T}
<1>1. \A n \in U : n + 1 \in U
  OBVIOUS
<1>2. U = Nat
  BY <1>1, Counting
<1> QED BY <1>2

\* A set of natural numbers has a least one.
LEMMA MinOf ==
    ASSUME NEW S \in SUBSET Nat, S # {}
    PROVE  Min(S) \in S /\ \A k \in S : Min(S) <= k
<1> SUFFICES \E m \in S : \A k \in S : m <= k
  BY DEF Min
<1> SUFFICES ASSUME \A m \in S : \E k \in S : k < m PROVE FALSE
  OBVIOUS
<1> DEFINE T == {n \in Nat : \A k \in 0..n : k \notin S}
<1>1. 0 \in T
  OBVIOUS
<1>2. \A n \in T : n + 1 \in T
  <2> SUFFICES ASSUME NEW n \in T, n + 1 \in S PROVE FALSE
    OBVIOUS
  <2>1. PICK k \in S : k < n + 1
    OBVIOUS
  <2>2. k \in 0..n
    BY <2>1
  <2> QED BY <2>2
<1>3. T \in SUBSET Nat
  OBVIOUS
<1>4. T = Nat
  <2> HIDE DEF T
  <2> QED BY <1>1, <1>2, <1>3, Counting
<1>5. \A n \in Nat : n \notin S
  BY <1>4
<1> QED BY <1>5

-----------------------------------------------------------------------------
(* Lists as sequences.                                                     *)

Heads == Queues \union Slots

Nodes == Objects \union Heads

\* The pointer of the last node of a list.
End(l) == IF l \in Queues THEN l ELSE Null

\* The i-th node of the list at l that has the objects s.
NodeAt(l, s, i) == IF i = 0 THEN l ELSE s[i]

\* The pointers nx lead through s and end.
Linked(nx, l, s) ==
    \A i \in 0..Len(s) : nx[NodeAt(l, s, i)] = IF i < Len(s) THEN s[i + 1] ELSE End(l)

\* No object is in two lists, or twice in one.
Apart(c) ==
    \A l, k \in Heads : \A i \in 1..Len(c[l]), j \in 1..Len(c[k]) :
      c[l][i] = c[k][j] => l = k /\ i = j

\* The lists that the pointers nx and the tails tl represent are c.
Represents(nx, tl, c) ==
    /\ c \in [Heads -> Seq(Objects)]
    /\ Apart(c)
    /\ nx \in [Nodes -> Objects \union Queues \union {Null}]
    /\ tl \in [Queues -> Objects \union Queues]
    /\ \A l \in Heads : Linked(nx, l, c[l])
    /\ \A q \in Queues : tl[q] = NodeAt(q, c[q], Len(c[q]))

\* The addresses of objects, of queues and of slots differ.
LEMMA Addresses ==
    /\ Objects \intersect Heads = {} /\ Queues \intersect Slots = {}
    /\ Null \notin Nodes
    /\ FreeQ \in Queues /\ TxQ \in Queues /\ RxQ \in Queues
    /\ FreeQ # TxQ /\ FreeQ # RxQ /\ TxQ # RxQ
BY StorageAssumption
   DEF Objects, Heads, Nodes, Queues, Slots, SlotHead, Null, FreeQ, TxQ, RxQ

\* The types of what lists are made of.
LEMMA ListType ==
    ASSUME NEW nx, NEW tl, NEW c, Represents(nx, tl, c), NEW l \in Heads
    PROVE  /\ c[l] \in Seq(Objects) /\ Len(c[l]) \in Nat
           /\ \A i \in 1..Len(c[l]) : c[l][i] \in Objects
           /\ \A i \in 0..Len(c[l]) : NodeAt(l, c[l], i) \in Nodes
           /\ nx[l] = IF c[l] = <<>> THEN End(l) ELSE c[l][1]
           /\ c[l] # <<>> <=> Len(c[l]) > 0
<1> DEFINE s == c[l]
<1>1. s \in Seq(Objects)
  BY DEF Represents
<1> HIDE DEF s
<1>2. Len(s) \in Nat /\ (s # <<>> <=> Len(s) > 0) /\ \A i \in 1..Len(s) : s[i] \in Objects
  BY <1>1
<1>3. \A i \in 0..Len(s) : NodeAt(l, s, i) \in Nodes
  <2> SUFFICES ASSUME NEW i \in 0..Len(s) PROVE NodeAt(l, s, i) \in Nodes
    OBVIOUS
  <2>1. i # 0 => i \in 1..Len(s)
    BY <1>2
  <2> QED BY <1>2, <2>1 DEF NodeAt, Nodes
<1>4. nx[l] = IF s = <<>> THEN End(l) ELSE s[1]
  <2>1. Linked(nx, l, s)
    BY DEF Represents, s
  <2>2. 0 \in 0..Len(s) /\ 0 + 1 = 1
    BY <1>2
  <2>3. nx[l] = IF 0 < Len(s) THEN s[1] ELSE End(l)
    BY <2>1, <2>2 DEF Linked, NodeAt
  <2> QED BY <1>2, <2>3
<1> QED BY <1>1, <1>2, <1>3, <1>4 DEF s

\* No node is in two lists, or twice in one.
LEMMA NodesApart ==
    ASSUME NEW nx, NEW tl, NEW c, Represents(nx, tl, c),
           NEW l \in Heads, NEW k \in Heads,
           NEW i \in 0..Len(c[l]), NEW j \in 0..Len(c[k]),
           NodeAt(l, c[l], i) = NodeAt(k, c[k], j)
    PROVE  l = k /\ i = j
<1>1. /\ Len(c[l]) \in Nat /\ Len(c[k]) \in Nat
      /\ \A n \in 1..Len(c[l]) : c[l][n] \in Objects
      /\ \A n \in 1..Len(c[k]) : c[k][n] \in Objects
  BY ListType
<1>2. i # 0 => i \in 1..Len(c[l])
  BY <1>1
<1>3. j # 0 => j \in 1..Len(c[k])
  BY <1>1
<1>4. CASE i = 0 /\ j = 0
  BY <1>4 DEF NodeAt
<1>5. CASE i = 0 /\ j # 0
  BY <1>1, <1>3, <1>5, Addresses DEF NodeAt
<1>6. CASE i # 0 /\ j = 0
  BY <1>1, <1>2, <1>6, Addresses DEF NodeAt
<1>7. CASE i # 0 /\ j # 0
  BY <1>2, <1>3, <1>7 DEF NodeAt, Represents, Apart
<1> QED BY <1>4, <1>5, <1>6, <1>7

\* An object that is in no list.
Unlisted(c, o) == \A l \in Heads : \A i \in 1..Len(c[l]) : c[l][i] # o

LEMMA UnlistedNode ==
    ASSUME NEW nx, NEW tl, NEW c, Represents(nx, tl, c), NEW o \in Objects, Unlisted(c, o),
           NEW l \in Heads, NEW i \in 0..Len(c[l])
    PROVE  NodeAt(l, c[l], i) # o
<1>1. Len(c[l]) \in Nat
  BY ListType
<1>2. i # 0 => i \in 1..Len(c[l])
  BY <1>1
<1>3. CASE i = 0
  BY <1>3, Addresses DEF NodeAt
<1>4. CASE i # 0
  BY <1>2, <1>4 DEF NodeAt, Unlisted
<1> QED BY <1>3, <1>4

\* The content of one list may be replaced by what is in no other.
LEMMA ApartExcept ==
    ASSUME NEW c \in [Heads -> Seq(Objects)], Apart(c), NEW q \in Heads, NEW t \in Seq(Objects),
           \A i, j \in 1..Len(t) : t[i] = t[j] => i = j,
           \A l \in Heads \ {q} : \A i \in 1..Len(c[l]), j \in 1..Len(t) : c[l][i] # t[j]
    PROVE  LET d == [c EXCEPT ![q] = t]
           IN  d \in [Heads -> Seq(Objects)] /\ Apart(d)
<1> DEFINE d == [c EXCEPT ![q] = t]
<1>1. d \in [Heads -> Seq(Objects)] /\ d[q] = t /\ \A l \in Heads \ {q} : d[l] = c[l]
  OBVIOUS
<1> HIDE DEF d
<1>2. Apart(d)
  <2> SUFFICES ASSUME NEW l \in Heads, NEW k \in Heads,
                      NEW i \in 1..Len(d[l]), NEW j \in 1..Len(d[k]), d[l][i] = d[k][j]
               PROVE  l = k /\ i = j
    BY DEF Apart
  <2>1. CASE l = q /\ k = q
    BY <1>1, <2>1
  <2>2. CASE l = q /\ k # q
    <3>1. d[l] = t /\ d[k] = c[k] /\ k \in Heads \ {q}
      BY <1>1, <2>2
    <3>2. c[k][j] # t[i]
      BY <3>1
    <3> QED BY <3>1, <3>2
  <2>3. CASE l # q /\ k = q
    <3>1. d[k] = t /\ d[l] = c[l] /\ l \in Heads \ {q}
      BY <1>1, <2>3
    <3>2. c[l][i] # t[j]
      BY <3>1
    <3> QED BY <3>1, <3>2
  <2>4. CASE l # q /\ k # q
    BY <1>1, <2>4 DEF Apart
  <2> QED BY <2>1, <2>2, <2>3, <2>4
<1> QED BY <1>1, <1>2 DEF d

\* A list whose nodes keep their pointers is linked as before.
LEMMA StaysLinked ==
    ASSUME NEW nx, NEW ny, NEW l, NEW s, Linked(nx, l, s),
           \A i \in 0..Len(s) : ny[NodeAt(l, s, i)] = nx[NodeAt(l, s, i)]
    PROVE  Linked(ny, l, s)
BY DEF Linked

\* l_squeue_push.
Inserted(nx, tl, q, o) == [nx EXCEPT ![o] = nx[tl[q]], ![tl[q]] = o]

LEMMA InsertRepresents ==
    ASSUME NEW nx, NEW tl, NEW c, Represents(nx, tl, c),
           NEW q \in Queues, NEW o \in Objects, Unlisted(c, o)
    PROVE  Represents(Inserted(nx, tl, q, o), [tl EXCEPT ![q] = o],
                      [c EXCEPT ![q] = Append(c[q], o)])
<1> DEFINE s == c[q]
           n == Len(s)
           t == Append(s, o)
           z == tl[q]
           ny == Inserted(nx, tl, q, o)
           tm == [tl EXCEPT ![q] = o]
           d == [c EXCEPT ![q] = t]
<1>1. q \in Heads /\ c \in [Heads -> Seq(Objects)] /\ Apart(c)
  BY DEF Heads, Represents
<1>2. /\ nx \in [Nodes -> Objects \union Queues \union {Null}]
      /\ tl \in [Queues -> Objects \union Queues]
  BY DEF Represents
<1>3. s \in Seq(Objects) /\ n \in Nat
  BY <1>1, ListType
<1>4. /\ t \in Seq(Objects) /\ Len(t) = n + 1 /\ t[n + 1] = o
      /\ \A i \in 1..n : t[i] = s[i]
  BY <1>3
<1>5. z = NodeAt(q, s, n) /\ z \in Nodes /\ o \in Nodes
  <2>1. n \in 0..n
    BY <1>3
  <2>2. z = NodeAt(q, s, n)
    BY DEF Represents
  <2>3. NodeAt(q, s, n) \in Nodes
    BY <1>1, <2>1, ListType
  <2> QED BY <2>2, <2>3 DEF Nodes
<1>6. o # z
  <2>1. n \in 0..Len(c[q])
    BY <1>3
  <2> QED BY <1>1, <1>5, <2>1, UnlistedNode
<1>7. nx[z] = q
  <2>1. n \in 0..n /\ ~(n < Len(s)) /\ Linked(nx, q, s)
    BY <1>1, <1>3 DEF Represents
  <2> QED BY <1>5, <2>1 DEF Linked, End
<1>8. /\ ny \in [Nodes -> Objects \union Queues \union {Null}]
      /\ ny[o] = q /\ ny[z] = o
      /\ \A a \in Nodes \ {o, z} : ny[a] = nx[a]
  <2> HIDE DEF z
  <2>1. ny = [nx EXCEPT ![o] = nx[z], ![z] = o]
    BY DEF Inserted, z
  <2> HIDE DEF ny
  <2> QED BY <1>2, <1>5, <1>6, <1>7, <2>1
<1> HIDE DEF ny
<1>9. d \in [Heads -> Seq(Objects)] /\ Apart(d)
  <2>1. \A i, j \in 1..n : s[i] = s[j] => i = j
    BY <1>1 DEF Apart
  <2>2. \A i \in 1..n : s[i] # o
    BY <1>1 DEF Unlisted
  <2>3. \A i, j \in 1..Len(t) : t[i] = t[j] => i = j
    <3> HIDE DEF t, s, n
    <3>1. \A i \in 1..Len(t) : i \in 1..n \/ i = n + 1
      BY <1>3, <1>4
    <3> QED BY <1>4, <2>1, <2>2, <3>1
  <2>4. \A l \in Heads \ {q} : \A i \in 1..Len(c[l]), j \in 1..Len(t) : c[l][i] # t[j]
    <3> SUFFICES ASSUME NEW l \in Heads \ {q}, NEW i \in 1..Len(c[l]), NEW j \in 1..Len(t)
                 PROVE  c[l][i] # t[j]
      OBVIOUS
    <3>1. CASE j = n + 1
      BY <1>4, <3>1 DEF Unlisted
    <3>2. CASE j # n + 1
      <4>1. j \in 1..n
        BY <1>3, <1>4, <3>2
      <4>2. t[j] = s[j]
        BY <1>4, <4>1
      <4> QED BY <1>1, <4>1, <4>2 DEF Apart
    <3> QED BY <3>1, <3>2
  <2> HIDE DEF t
  <2> QED BY <1>1, <1>4, <2>3, <2>4, ApartExcept
<1>10. d[q] = t /\ \A l \in Heads \ {q} : d[l] = c[l]
  BY <1>1
<1> HIDE DEF d
<1>11. \A l \in Heads : Linked(ny, l, d[l])
  <2> SUFFICES ASSUME NEW l \in Heads PROVE Linked(ny, l, d[l])
    OBVIOUS
  <2>1. CASE l = q
    <3> SUFFICES ASSUME NEW i \in 0..n + 1
                 PROVE  ny[NodeAt(q, t, i)] = IF i < n + 1 THEN t[i + 1] ELSE q
      BY <1>4, <1>10, <2>1 DEF Linked, End
    <3> HIDE DEF t, s
    <3>1. CASE i = n + 1
      BY <1>3, <1>4, <1>8, <3>1 DEF NodeAt
    <3>2. CASE i = n
      <4>1. NodeAt(q, t, i) = z
        <5>1. i # 0 => i \in 1..n
          BY <1>3, <3>2
        <5> QED BY <1>4, <1>5, <3>2, <5>1 DEF NodeAt
      <4> QED BY <1>3, <1>4, <1>8, <3>2, <4>1
    <3>3. CASE i # n /\ i # n + 1
      <4>1. i \in 0..n - 1 /\ i < n /\ i < n + 1 /\ i + 1 \in 1..n
        BY <1>3, <3>3
      <4>2. NodeAt(q, t, i) = NodeAt(q, s, i)
        <5>1. i # 0 => i \in 1..n
          BY <4>1
        <5> QED BY <1>4, <5>1 DEF NodeAt
      <4>3. NodeAt(q, s, i) # z /\ NodeAt(q, s, i) # o /\ NodeAt(q, s, i) \in Nodes
        <5>1. i \in 0..Len(c[q]) /\ n \in 0..Len(c[q])
          BY <1>3, <4>1 DEF s
        <5> QED BY <1>1, <1>5, <3>3, <5>1, NodesApart, UnlistedNode, ListType DEF s
      <4>4. nx[NodeAt(q, s, i)] = s[i + 1]
        <5>1. i \in 0..Len(s) /\ i < Len(s) /\ Linked(nx, q, s)
          BY <1>1, <1>3, <4>1 DEF Represents, s
        <5> QED BY <5>1 DEF Linked
      <4>5. t[i + 1] = s[i + 1]
        BY <1>4, <4>1
      <4> QED BY <1>8, <4>1, <4>2, <4>3, <4>4, <4>5
    <3> QED BY <3>1, <3>2, <3>3
  <2>2. CASE l # q
    <3>1. Linked(nx, l, c[l]) /\ d[l] = c[l]
      BY <1>10, <2>2 DEF Represents
    <3>2. \A i \in 0..Len(c[l]) : ny[NodeAt(l, c[l], i)] = nx[NodeAt(l, c[l], i)]
      <4> SUFFICES ASSUME NEW i \in 0..Len(c[l])
                   PROVE  ny[NodeAt(l, c[l], i)] = nx[NodeAt(l, c[l], i)]
        OBVIOUS
      <4>1. NodeAt(l, c[l], i) # o /\ NodeAt(l, c[l], i) \in Nodes
        BY UnlistedNode, ListType
      <4>2. NodeAt(l, c[l], i) # z
        <5>1. n \in 0..Len(c[q])
          BY <1>3
        <5> QED BY <1>1, <1>5, <2>2, <5>1, NodesApart
      <4> QED BY <1>8, <4>1, <4>2
    <3> QED BY <3>1, <3>2, StaysLinked
  <2> QED BY <2>1, <2>2
<1>12. tm \in [Queues -> Objects \union Queues]
       /\ \A k \in Queues : tm[k] = NodeAt(k, d[k], Len(d[k]))
  <2>1. tm \in [Queues -> Objects \union Queues] /\ tm[q] = o
        /\ \A k \in Queues \ {q} : tm[k] = tl[k]
    BY <1>2
  <2> HIDE DEF tm
  <2>2. tm[q] = NodeAt(q, d[q], Len(d[q]))
    BY <1>3, <1>4, <1>10, <2>1 DEF NodeAt
  <2>3. \A k \in Queues \ {q} : tm[k] = NodeAt(k, d[k], Len(d[k]))
    BY <1>10, <2>1 DEF Represents, Heads
  <2> QED BY <2>1, <2>2, <2>3
<1> QED BY <1>8, <1>9, <1>11, <1>12 DEF Represents, ny, d

\* A sequence without its i-th element.
LEMMA RemoveAtType ==
    ASSUME NEW S, NEW s \in Seq(S), NEW i \in 1..Len(s)
    PROVE  /\ RemoveAt(s, i) \in Seq(S) /\ Len(RemoveAt(s, i)) = Len(s) - 1
           /\ \A j \in 1..Len(s) - 1 : RemoveAt(s, i)[j] = IF j < i THEN s[j] ELSE s[j + 1]
<1> DEFINE u == SubSeq(s, 1, i - 1)
           v == SubSeq(s, i + 1, Len(s))
           n == Len(s)
<1>1. n \in Nat /\ i \in Nat /\ i >= 1 /\ i <= n
  OBVIOUS
<1>2. u \in Seq(S) /\ Len(u) = i - 1 /\ \A j \in 1..i - 1 : u[j] = s[j]
  BY <1>1
<1>3. v \in Seq(S) /\ Len(v) = n - i /\ \A j \in 1..n - i : v[j] = s[j + i]
  BY <1>1
<1> HIDE DEF u, v, n
<1>4. /\ u \o v \in Seq(S) /\ Len(u \o v) = n - 1
      /\ \A j \in 1..n - 1 : (u \o v)[j] = IF j < i THEN u[j] ELSE v[j - (i - 1)]
  <2>0. u \in Seq(S) /\ v \in Seq(S)
    BY <1>2, <1>3
  <2>1. u \o v \in Seq(S) /\ Len(u \o v) = Len(u) + Len(v)
    BY <2>0
  <2>2. \A j \in 1..Len(u) + Len(v) :
          (u \o v)[j] = IF j <= Len(u) THEN u[j] ELSE v[j - Len(u)]
    BY <2>0
  <2>3. Len(u) + Len(v) = n - 1 /\ \A j \in 1..n - 1 : j <= i - 1 <=> j < i
    BY <1>1, <1>2, <1>3
  <2> QED BY <1>2, <2>1, <2>2, <2>3
<1>5. \A j \in 1..n - 1 : (u \o v)[j] = IF j < i THEN s[j] ELSE s[j + 1]
  <2> SUFFICES ASSUME NEW j \in 1..n - 1
               PROVE  (u \o v)[j] = IF j < i THEN s[j] ELSE s[j + 1]
    OBVIOUS
  <2>1. CASE j < i
    <3>1. j \in 1..i - 1
      BY <1>1, <2>1
    <3> QED BY <1>2, <1>4, <2>1, <3>1
  <2>2. CASE ~(j < i)
    <3>1. j - (i - 1) \in 1..n - i /\ (j - (i - 1)) + i = j + 1
      BY <1>1, <2>2
    <3>2. v[j - (i - 1)] = s[j + 1]
      BY <1>3, <3>1
    <3> QED BY <1>4, <2>2, <3>2
  <2> QED BY <2>1, <2>2
<1>6. RemoveAt(s, i) = u \o v
  BY DEF RemoveAt, u, v
<1> QED BY <1>4, <1>5, <1>6 DEF n

\* Without its first element it is its tail.
LEMMA TailIsRemoval ==
    ASSUME NEW S, NEW s \in Seq(S), s # <<>>
    PROVE  Tail(s) = RemoveAt(s, 1) /\ 1 \in 1..Len(s)
<1>1. Len(s) \in Nat /\ 1 \in 1..Len(s)
  OBVIOUS
<1> DEFINE t == Tail(s)
           u == RemoveAt(s, 1)
<1>2. t \in Seq(S) /\ Len(t) = Len(s) - 1 /\ \A j \in 1..Len(s) - 1 : t[j] = s[j + 1]
  BY <1>1
<1>3. u \in Seq(S) /\ Len(u) = Len(s) - 1 /\ \A j \in 1..Len(s) - 1 : u[j] = s[j + 1]
  <2>1. \A j \in 1..Len(s) - 1 : ~(j < 1)
    OBVIOUS
  <2> QED BY <1>1, <2>1, RemoveAtType
<1> HIDE DEF t, u
<1>4. t = u
  BY <1>2, <1>3
<1> QED BY <1>1, <1>4 DEF t, u

\* A node is taken out of a list: the pointer to it becomes its own.
LEMMA RemoveLinks ==
    ASSUME NEW nx, NEW tl, NEW c, Represents(nx, tl, c), NEW q \in Heads,
           NEW i \in 1..Len(c[q])
    PROVE  LET ny == [nx EXCEPT ![NodeAt(q, c[q], i - 1)] = nx[c[q][i]]]
               d == [c EXCEPT ![q] = RemoveAt(c[q], i)]
           IN  /\ d \in [Heads -> Seq(Objects)] /\ Apart(d)
               /\ ny \in [Nodes -> Objects \union Queues \union {Null}]
               /\ \A l \in Heads : Linked(ny, l, d[l])
<1> DEFINE s == c[q]
           n == Len(s)
           t == RemoveAt(s, i)
           z == NodeAt(q, s, i - 1)
           ny == [nx EXCEPT ![z] = nx[s[i]]]
           d == [c EXCEPT ![q] = t]
<1>1. c \in [Heads -> Seq(Objects)] /\ Apart(c)
  BY DEF Represents
<1>2. nx \in [Nodes -> Objects \union Queues \union {Null}]
  BY DEF Represents
<1>3. s \in Seq(Objects) /\ n \in Nat /\ i \in 1..n
  BY <1>1, ListType
<1>4. /\ t \in Seq(Objects) /\ Len(t) = n - 1
      /\ \A j \in 1..n - 1 : t[j] = IF j < i THEN s[j] ELSE s[j + 1]
  BY <1>3, RemoveAtType
<1>5. i - 1 \in 0..n /\ i \in 0..n /\ i # 0
  BY <1>3
<1>6. z \in Nodes /\ s[i] \in Nodes
  <2>1. NodeAt(q, s, i) = s[i]
    BY <1>5 DEF NodeAt
  <2> QED BY <1>5, <2>1, ListType
<1>7. nx[s[i]] = IF i < n THEN s[i + 1] ELSE End(q)
  <2>1. NodeAt(q, s, i) = s[i] /\ Linked(nx, q, s)
    BY <1>5 DEF NodeAt, Represents
  <2> QED BY <1>5, <2>1 DEF Linked
<1> HIDE DEF t
<1>8. /\ ny \in [Nodes -> Objects \union Queues \union {Null}]
      /\ ny[z] = nx[s[i]] /\ \A a \in Nodes \ {z} : ny[a] = nx[a]
  <2> HIDE DEF z, s
  <2> QED BY <1>2, <1>6
<1>9. d \in [Heads -> Seq(Objects)] /\ Apart(d)
  <2>1. \A j \in 1..Len(t) : (j < i /\ j \in 1..n) \/ (~(j < i) /\ j + 1 \in 1..n)
    BY <1>3, <1>4
  <2>2. \A j, k \in 1..n : s[j] = s[k] => j = k
    BY <1>1 DEF Apart
  <2>3. \A j, k \in 1..Len(t) : t[j] = t[k] => j = k
    <3> HIDE DEF s, n
    <3> SUFFICES ASSUME NEW j \in 1..Len(t), NEW k \in 1..Len(t), t[j] = t[k] PROVE j = k
      OBVIOUS
    <3>1. /\ t[j] = IF j < i THEN s[j] ELSE s[j + 1]
          /\ t[k] = IF k < i THEN s[k] ELSE s[k + 1]
      BY <1>4
    <3> DEFINE a == IF j < i THEN j ELSE j + 1
               b == IF k < i THEN k ELSE k + 1
    <3>2. a \in 1..n /\ b \in 1..n /\ s[a] = s[b]
      BY <2>1, <3>1
    <3>3. a = b
      <4> HIDE DEF a, b
      <4> QED BY <2>2, <3>2
    <3>4. j \in Nat /\ k \in Nat /\ i \in Nat
      BY <1>3, <1>4
    <3> QED BY <3>3, <3>4
  <2>4. \A l \in Heads \ {q} : \A j \in 1..Len(c[l]), k \in 1..Len(t) : c[l][j] # t[k]
    <3> SUFFICES ASSUME NEW l \in Heads \ {q}, NEW j \in 1..Len(c[l]), NEW k \in 1..Len(t)
                 PROVE  c[l][j] # t[k]
      OBVIOUS
    <3>1. \E m \in 1..n : t[k] = s[m]
      BY <1>4, <2>1
    <3> QED BY <1>1, <3>1 DEF Apart
  <2> QED BY <1>1, <1>4, <2>3, <2>4, ApartExcept
<1>10. d[q] = t /\ \A l \in Heads \ {q} : d[l] = c[l]
  BY <1>1
<1> HIDE DEF d, ny
<1>11. \A l \in Heads : Linked(ny, l, d[l])
  <2> SUFFICES ASSUME NEW l \in Heads PROVE Linked(ny, l, d[l])
    OBVIOUS
  <2>1. CASE l = q
    <3> SUFFICES ASSUME NEW j \in 0..n - 1
                 PROVE  ny[NodeAt(q, t, j)] = IF j < n - 1 THEN t[j + 1] ELSE End(q)
      BY <1>4, <1>10, <2>1 DEF Linked
    <3> HIDE DEF s, n, z
    <3>1. CASE j = i - 1
      <4>1. NodeAt(q, t, j) = z
        <5>1. j # 0 => j \in 1..n - 1 /\ j < i
          BY <1>3, <3>1
        <5> QED BY <1>4, <3>1, <5>1 DEF NodeAt, z
      <4>2. j < n - 1 <=> i < n
        BY <1>3, <3>1
      <4>3. j < n - 1 => t[j + 1] = s[i + 1]
        <5> SUFFICES ASSUME j < n - 1 PROVE t[j + 1] = s[i + 1]
          OBVIOUS
        <5>1. j + 1 \in 1..n - 1 /\ ~(j + 1 < i) /\ (j + 1) + 1 = i + 1
          BY <1>3, <3>1
        <5> QED BY <1>4, <5>1
      <4> QED BY <1>7, <1>8, <4>1, <4>2, <4>3
    <3>2. CASE j < i - 1
      <4>1. j \in 0..n /\ j < n /\ j < n - 1 /\ j + 1 < i /\ j + 1 \in 1..n - 1 /\ j # i - 1
        BY <1>3, <3>2
      <4>2. NodeAt(q, t, j) = NodeAt(q, s, j)
        <5>1. j # 0 => j \in 1..n - 1 /\ j < i
          BY <1>3, <3>2
        <5> QED BY <1>4, <5>1 DEF NodeAt
      <4>3. NodeAt(q, s, j) # z /\ NodeAt(q, s, j) \in Nodes
        BY <1>5, <4>1, NodesApart, ListType DEF s, n, z
      <4>4. nx[NodeAt(q, s, j)] = s[j + 1]
        <5>1. j \in 0..Len(s) /\ j < Len(s) /\ Linked(nx, q, s)
          BY <4>1 DEF Represents, s, n
        <5> QED BY <5>1 DEF Linked
      <4> QED BY <1>4, <1>8, <4>1, <4>2, <4>3, <4>4
    <3>3. CASE j > i - 1
      <4>1. /\ j \in 1..n - 1 /\ ~(j < i) /\ j # 0 /\ j + 1 # 0
            /\ j + 1 \in 0..n /\ j + 1 # i - 1 /\ (j + 1 < n <=> j < n - 1)
        BY <1>3, <3>3
      <4>2. NodeAt(q, t, j) = NodeAt(q, s, j + 1)
        BY <1>4, <4>1 DEF NodeAt
      <4>3. NodeAt(q, s, j + 1) # z /\ NodeAt(q, s, j + 1) \in Nodes
        BY <1>5, <4>1, NodesApart, ListType DEF s, n, z
      <4>4. nx[NodeAt(q, s, j + 1)] = IF j + 1 < n THEN s[(j + 1) + 1] ELSE End(q)
        <5>1. j + 1 \in 0..Len(s) /\ Linked(nx, q, s)
          BY <4>1 DEF Represents, s, n
        <5> QED BY <5>1 DEF Linked, n
      <4>5. j < n - 1 => t[j + 1] = s[(j + 1) + 1]
        <5> SUFFICES ASSUME j < n - 1 PROVE t[j + 1] = s[(j + 1) + 1]
          OBVIOUS
        <5>1. j + 1 \in 1..n - 1 /\ ~(j + 1 < i)
          BY <1>3, <4>1
        <5> QED BY <1>4, <5>1
      <4> QED BY <1>8, <4>1, <4>2, <4>3, <4>4, <4>5
    <3> QED BY <1>3, <3>1, <3>2, <3>3
  <2>2. CASE l # q
    <3>1. Linked(nx, l, c[l]) /\ d[l] = c[l]
      BY <1>10, <2>2 DEF Represents
    <3>2. \A j \in 0..Len(c[l]) : ny[NodeAt(l, c[l], j)] = nx[NodeAt(l, c[l], j)]
      <4> SUFFICES ASSUME NEW j \in 0..Len(c[l])
                   PROVE  ny[NodeAt(l, c[l], j)] = nx[NodeAt(l, c[l], j)]
        OBVIOUS
      <4>1. NodeAt(l, c[l], j) \in Nodes
        BY ListType
      <4>2. NodeAt(l, c[l], j) # z
        BY <1>5, <2>2, NodesApart
      <4> QED BY <1>8, <4>1, <4>2
    <3> QED BY <3>1, <3>2, StaysLinked
  <2> QED BY <2>1, <2>2
<1> QED BY <1>8, <1>9, <1>11 DEF ny, d, t, z

\* l_squeue_pop.
LEMMA UnlinkRepresents ==
    ASSUME NEW nx, NEW tl, NEW c, Represents(nx, tl, c), NEW q \in Queues, c[q] # <<>>
    PROVE  /\ nx[q] = c[q][1]
           /\ Represents([nx EXCEPT ![q] = nx[nx[q]]],
                         IF nx[q] = tl[q] THEN [tl EXCEPT ![q] = q] ELSE tl,
                         [c EXCEPT ![q] = Tail(c[q])])
<1> DEFINE s == c[q]
           n == Len(s)
           t == Tail(s)
           ny == [nx EXCEPT ![q] = nx[nx[q]]]
           tm == IF nx[q] = tl[q] THEN [tl EXCEPT ![q] = q] ELSE tl
           d == [c EXCEPT ![q] = t]
<1>1. q \in Heads /\ s \in Seq(Objects) /\ n \in Nat /\ n > 0 /\ nx[q] = s[1]
  BY ListType DEF Heads
<1>2. t = RemoveAt(s, 1) /\ 1 \in 1..n
  BY <1>1, TailIsRemoval
<1>3. 1 - 1 = 0 /\ NodeAt(q, s, 0) = q
  BY DEF NodeAt
<1>4. /\ d \in [Heads -> Seq(Objects)] /\ Apart(d)
      /\ ny \in [Nodes -> Objects \union Queues \union {Null}]
      /\ \A l \in Heads : Linked(ny, l, d[l])
  <2>1. ny = [nx EXCEPT ![NodeAt(q, c[q], 1 - 1)] = nx[c[q][1]]]
    BY <1>1, <1>3
  <2>2. d = [c EXCEPT ![q] = RemoveAt(c[q], 1)] /\ 1 \in 1..Len(c[q])
    BY <1>2
  <2> HIDE DEF ny, d
  <2> QED BY <1>1, <2>1, <2>2, RemoveLinks
<1>5. /\ Len(t) = n - 1
      /\ \A j \in 1..n - 1 : t[j] = s[j + 1]
  BY <1>1
<1>6. c \in [Heads -> Seq(Objects)] /\ tl \in [Queues -> Objects \union Queues]
  BY DEF Represents
<1>7. d[q] = t /\ \A l \in Heads \ {q} : d[l] = c[l]
  BY <1>1, <1>6
<1>8. tl[q] = s[n]
  BY <1>1 DEF Represents, NodeAt
<1>9. nx[q] = tl[q] <=> n = 1
  <2>1. n \in 1..Len(s) /\ 1 \in 1..Len(s)
    BY <1>1
  <2>2. s[1] = s[n] => 1 = n
    BY <1>1, <2>1 DEF Represents, Apart
  <2> QED BY <1>1, <1>8, <2>2
<1> HIDE DEF d, ny, t
<1>10. tm \in [Queues -> Objects \union Queues]
       /\ \A k \in Queues : tm[k] = NodeAt(k, d[k], Len(d[k]))
  <2>1. \A k \in Queues \ {q} : tl[k] = NodeAt(k, d[k], Len(d[k]))
    BY <1>7 DEF Represents, Heads
  <2>2. CASE n = 1
    <3>1. tm = [tl EXCEPT ![q] = q]
      BY <1>9, <2>2
    <3>2. NodeAt(q, d[q], Len(d[q])) = q
      BY <1>5, <1>7, <2>2 DEF NodeAt
    <3> HIDE DEF tm
    <3> QED BY <1>6, <2>1, <3>1, <3>2
  <2>3. CASE n # 1
    <3>1. tm = tl
      BY <1>9, <2>3
    <3>2. n - 1 \in 1..n - 1 /\ n - 1 # 0 /\ (n - 1) + 1 = n
      <4>1. n \in Nat /\ n > 0
        BY <1>1
      <4> HIDE DEF n
      <4> QED BY <2>3, <4>1
    <3>3. NodeAt(q, d[q], Len(d[q])) = s[n]
      <4>1. NodeAt(q, t, n - 1) = t[n - 1]
        BY <3>2 DEF NodeAt
      <4> QED BY <1>5, <1>7, <3>2, <4>1
    <3> HIDE DEF tm
    <3> QED BY <1>6, <1>8, <2>1, <3>1, <3>3
  <2> QED BY <2>2, <2>3
<1> HIDE DEF tm
<1> QED BY <1>1, <1>4, <1>10 DEF Represents, ny, d, t, tm

\* l_srvctableddel and l_srvctableddelFront.
LEMMA RemoveRepresents ==
    ASSUME NEW nx, NEW tl, NEW c, Represents(nx, tl, c), NEW h \in Slots,
           NEW i \in 1..Len(c[h])
    PROVE  Represents([nx EXCEPT ![NodeAt(h, c[h], i - 1)] = nx[c[h][i]]], tl,
                      [c EXCEPT ![h] = RemoveAt(c[h], i)])
<1> DEFINE ny == [nx EXCEPT ![NodeAt(h, c[h], i - 1)] = nx[c[h][i]]]
           d == [c EXCEPT ![h] = RemoveAt(c[h], i)]
<1>1. h \in Heads /\ h \notin Queues
  BY Addresses DEF Heads
<1>2. /\ d \in [Heads -> Seq(Objects)] /\ Apart(d)
      /\ ny \in [Nodes -> Objects \union Queues \union {Null}]
      /\ \A l \in Heads : Linked(ny, l, d[l])
  BY <1>1, RemoveLinks
<1>3. \A k \in Queues : k \in Heads /\ d[k] = c[k]
  <2>1. c \in [Heads -> Seq(Objects)]
    BY DEF Represents
  <2> QED BY <1>1, <2>1 DEF Heads
<1> HIDE DEF d, ny
<1>4. \A k \in Queues : tl[k] = NodeAt(k, d[k], Len(d[k]))
  BY <1>3 DEF Represents
<1>5. tl \in [Queues -> Objects \union Queues]
  BY DEF Represents
<1> QED BY <1>2, <1>4, <1>5 DEF Represents, d, ny

\* l_srvctabledadd: the first of a chain.
LEMMA ChainFirstRepresents ==
    ASSUME NEW nx, NEW tl, NEW c, Represents(nx, tl, c),
           NEW h \in Slots, NEW o \in Objects, Unlisted(c, o)
    PROVE  Represents([nx EXCEPT ![o] = nx[h], ![h] = o], tl,
                      [c EXCEPT ![h] = <<o>> \o c[h]])
<1> DEFINE s == c[h]
           n == Len(s)
           t == <<o>> \o s
           ny == [nx EXCEPT ![o] = nx[h], ![h] = o]
           d == [c EXCEPT ![h] = t]
<1>1. h \in Heads /\ h \notin Queues /\ c \in [Heads -> Seq(Objects)] /\ Apart(c)
  BY Addresses DEF Heads, Represents
<1>2. nx \in [Nodes -> Objects \union Queues \union {Null}]
  BY DEF Represents
<1>3. s \in Seq(Objects) /\ n \in Nat
  BY <1>1, ListType
<1>4. /\ t \in Seq(Objects) /\ Len(t) = n + 1 /\ t[1] = o
      /\ \A i \in 1..n : t[i + 1] = s[i]
  <2>1. <<o>> \in Seq(Objects) /\ Len(<<o>>) = 1 /\ <<o>>[1] = o
    OBVIOUS
  <2> DEFINE a == <<o>>
  <2> HIDE DEF a, s
  <2>2. a \in Seq(Objects) /\ Len(a) = 1 /\ a[1] = o
    BY <2>1 DEF a
  <2>0. a \in Seq(Objects) /\ s \in Seq(Objects)
    BY <1>3, <2>2
  <2>3. a \o s \in Seq(Objects) /\ Len(a \o s) = Len(a) + Len(s)
    BY <2>0
  <2>4. \A i \in 1..Len(a) + Len(s) :
          (a \o s)[i] = IF i <= Len(a) THEN a[i] ELSE s[i - Len(a)]
    BY <2>0
  <2>5. (a \o s)[1] = o
    <3>1. 1 \in 1..Len(a) + Len(s) /\ 1 <= Len(a)
      BY <1>3, <2>2
    <3> QED BY <2>2, <2>4, <3>1
  <2>6. \A i \in 1..n : (a \o s)[i + 1] = s[i]
    <3> SUFFICES ASSUME NEW i \in 1..n PROVE (a \o s)[i + 1] = s[i]
      OBVIOUS
    <3>1. i + 1 \in 1..Len(a) + Len(s) /\ ~(i + 1 <= Len(a)) /\ (i + 1) - Len(a) = i
      BY <1>3, <2>2
    <3> QED BY <2>4, <3>1
  <2>7. t = a \o s
    BY DEF a
  <2> QED BY <1>3, <2>2, <2>3, <2>5, <2>6, <2>7
<1> HIDE DEF t
<1>5. h \in Nodes /\ o \in Nodes /\ o # h
  BY <1>1, Addresses DEF Nodes
<1>6. nx[h] = IF n > 0 THEN s[1] ELSE End(h)
  BY <1>1, ListType
<1>7. /\ ny \in [Nodes -> Objects \union Queues \union {Null}]
      /\ ny[o] = nx[h] /\ ny[h] = o
      /\ \A a \in Nodes \ {o, h} : ny[a] = nx[a]
  BY <1>2, <1>5
<1>8. d \in [Heads -> Seq(Objects)] /\ Apart(d)
  <2>1. \A i, j \in 1..n : s[i] = s[j] => i = j
    BY <1>1 DEF Apart
  <2>2. \A i \in 1..n : s[i] # o
    BY <1>1 DEF Unlisted
  <2>3. \A i \in 1..Len(t) : i = 1 \/ (i - 1 \in 1..n /\ t[i] = s[i - 1])
    <3> SUFFICES ASSUME NEW i \in 1..Len(t), i # 1 PROVE i - 1 \in 1..n /\ t[i] = s[i - 1]
      OBVIOUS
    <3>1. i - 1 \in 1..n /\ (i - 1) + 1 = i
      BY <1>3, <1>4
    <3> QED BY <1>4, <3>1
  <2>4. \A i, j \in 1..Len(t) : t[i] = t[j] => i = j
    <3> SUFFICES ASSUME NEW i \in 1..Len(t), NEW j \in 1..Len(t), t[i] = t[j] PROVE i = j
      OBVIOUS
    <3> HIDE DEF s, n
    <3>1. CASE i = 1 \/ j = 1
      BY <1>4, <2>2, <2>3, <3>1
    <3>2. CASE i # 1 /\ j # 1
      <4>1. i - 1 = j - 1
        BY <2>1, <2>3, <3>2
      <4>2. i \in Nat /\ j \in Nat
        BY <1>3, <1>4
      <4> QED BY <4>1, <4>2
    <3> QED BY <3>1, <3>2
  <2>5. \A l \in Heads \ {h} : \A i \in 1..Len(c[l]), j \in 1..Len(t) : c[l][i] # t[j]
    <3> SUFFICES ASSUME NEW l \in Heads \ {h}, NEW i \in 1..Len(c[l]), NEW j \in 1..Len(t)
                 PROVE  c[l][i] # t[j]
      OBVIOUS
    <3>1. CASE j = 1
      BY <1>4, <3>1 DEF Unlisted
    <3>2. CASE j # 1
      <4>1. j - 1 \in 1..n /\ t[j] = s[j - 1]
        BY <2>3, <3>2
      <4> QED BY <1>1, <4>1 DEF Apart
    <3> QED BY <3>1, <3>2
  <2> QED BY <1>1, <1>4, <2>4, <2>5, ApartExcept
<1>9. d[h] = t /\ \A l \in Heads \ {h} : d[l] = c[l]
  BY <1>1
<1> HIDE DEF d, ny
<1>10. \A l \in Heads : Linked(ny, l, d[l])
  <2> SUFFICES ASSUME NEW l \in Heads PROVE Linked(ny, l, d[l])
    OBVIOUS
  <2>1. CASE l = h
    <3> SUFFICES ASSUME NEW i \in 0..n + 1
                 PROVE  ny[NodeAt(h, t, i)] = IF i < n + 1 THEN t[i + 1] ELSE End(h)
      BY <1>4, <1>9, <2>1 DEF Linked
    <3> HIDE DEF s, n
    <3>1. CASE i = 0
      BY <1>3, <1>4, <1>7, <3>1 DEF NodeAt
    <3>2. CASE i = 1
      <4>1. NodeAt(h, t, i) = o
        BY <1>4, <3>2 DEF NodeAt
      <4>2. n > 0 => t[1 + 1] = s[1]
        <5>1. n > 0 => 1 \in 1..n
          BY <1>3
        <5> QED BY <1>4, <5>1
      <4>3. i < n + 1 <=> n > 0
        BY <1>3, <3>2
      <4> QED BY <1>6, <1>7, <3>2, <4>1, <4>2, <4>3
    <3>3. CASE i # 0 /\ i # 1
      <4>1. /\ i - 1 \in 1..n /\ i - 1 \in 0..n /\ i - 1 # 0 /\ (i - 1) + 1 = i
            /\ (i - 1 < n <=> i < n + 1)
        BY <1>3, <3>3
      <4>2. NodeAt(h, t, i) = NodeAt(h, s, i - 1)
        <5>1. t[(i - 1) + 1] = s[i - 1]
          BY <1>4, <4>1
        <5> QED BY <3>3, <4>1, <5>1 DEF NodeAt
      <4>3. NodeAt(h, s, i - 1) # h /\ NodeAt(h, s, i - 1) # o /\ NodeAt(h, s, i - 1) \in Nodes
        <5>1. 0 \in 0..Len(c[h]) /\ i - 1 \in 0..Len(c[h]) /\ NodeAt(h, c[h], 0) = h
          BY <1>3, <4>1 DEF s, n, NodeAt
        <5> QED BY <1>1, <4>1, <5>1, NodesApart, UnlistedNode, ListType DEF s
      <4>4. nx[NodeAt(h, s, i - 1)] = IF i - 1 < n THEN s[i] ELSE End(h)
        <5>1. Linked(nx, h, s)
          BY <1>1 DEF Represents, s
        <5> QED BY <4>1, <5>1 DEF Linked, n
      <4>5. i < n + 1 => t[i + 1] = s[i]
        <5>1. i < n + 1 => i \in 1..n
          BY <1>3, <3>3
        <5> QED BY <1>4, <5>1
      <4> QED BY <1>7, <4>1, <4>2, <4>3, <4>4, <4>5
    <3> QED BY <3>1, <3>2, <3>3
  <2>2. CASE l # h
    <3>1. Linked(nx, l, c[l]) /\ d[l] = c[l]
      BY <1>9, <2>2 DEF Represents
    <3>2. \A i \in 0..Len(c[l]) : ny[NodeAt(l, c[l], i)] = nx[NodeAt(l, c[l], i)]
      <4> SUFFICES ASSUME NEW i \in 0..Len(c[l])
                   PROVE  ny[NodeAt(l, c[l], i)] = nx[NodeAt(l, c[l], i)]
        OBVIOUS
      <4>1. NodeAt(l, c[l], i) # o /\ NodeAt(l, c[l], i) \in Nodes
        BY UnlistedNode, ListType
      <4>2. NodeAt(l, c[l], i) # h
        <5>1. 0 \in 0..Len(c[h]) /\ NodeAt(h, c[h], 0) = h
          BY <1>3 DEF NodeAt
        <5> QED BY <1>1, <2>2, <5>1, NodesApart
      <4> QED BY <1>7, <4>1, <4>2
    <3> QED BY <3>1, <3>2, StaysLinked
  <2> QED BY <2>1, <2>2
<1>11. \A k \in Queues : k \in Heads /\ k # h
  BY <1>1 DEF Heads
<1>12. \A k \in Queues : tl[k] = NodeAt(k, d[k], Len(d[k]))
  BY <1>9, <1>11 DEF Represents
<1>13. tl \in [Queues -> Objects \union Queues]
  BY DEF Represents
<1> QED BY <1>7, <1>8, <1>10, <1>12, <1>13 DEF Represents, ny, d, t

\* Two sequences one after the other.
LEMMA ConcatType ==
    ASSUME NEW S, NEW a \in Seq(S), NEW b \in Seq(S)
    PROVE  /\ a \o b \in Seq(S) /\ Len(a \o b) = Len(a) + Len(b)
           /\ \A i \in 1..Len(a) : (a \o b)[i] = a[i]
           /\ \A i \in 1..Len(b) : (a \o b)[Len(a) + i] = b[i]
           /\ \A i \in 1..Len(a) + Len(b) :
                i \in 1..Len(a) \/ (i - Len(a) \in 1..Len(b) /\ Len(a) + (i - Len(a)) = i)
<1>1. a \o b \in Seq(S) /\ Len(a \o b) = Len(a) + Len(b)
  OBVIOUS
<1>2. \A i \in 1..Len(a) + Len(b) :
        (a \o b)[i] = IF i <= Len(a) THEN a[i] ELSE b[i - Len(a)]
  OBVIOUS
<1>3. Len(a) \in Nat /\ Len(b) \in Nat
  OBVIOUS
<1> DEFINE m == Len(a)
           n == Len(b)
<1>4. m \in Nat /\ n \in Nat
  BY <1>3
<1> HIDE DEF m, n
<1>5. \A i \in 1..m : i \in 1..m + n /\ i <= m
  BY <1>4
<1>6. \A i \in 1..n : m + i \in 1..m + n /\ ~(m + i <= m) /\ (m + i) - m = i
  BY <1>4
<1>7. \A i \in 1..m + n : i \in 1..m \/ (i - m \in 1..n /\ m + (i - m) = i)
  BY <1>4
<1>8. \A i \in 1..n : (a \o b)[m + i] = b[i]
  BY <1>2, <1>6 DEF m, n
<1> QED BY <1>1, <1>2, <1>5, <1>7, <1>8 DEF m, n

\* l_squeue_pushQueue: r goes to the end of q.
Joined(nx, tl, q, r) == [nx EXCEPT ![tl[q]] = nx[r], ![tl[r]] = q, ![r] = r]

LEMMA JoinRepresents ==
    ASSUME NEW nx, NEW tl, NEW c, Represents(nx, tl, c),
           NEW q \in Queues, NEW r \in Queues, q # r, c[r] # <<>>
    PROVE  Represents(Joined(nx, tl, q, r), [tl EXCEPT ![q] = tl[r], ![r] = r],
                      [c EXCEPT ![q] = c[q] \o c[r], ![r] = <<>>])
<1> DEFINE a == c[q]
           b == c[r]
           m == Len(a)
           n == Len(b)
           t == a \o b
           y == tl[q]
           z == tl[r]
           ny == Joined(nx, tl, q, r)
           tm == [tl EXCEPT ![q] = z, ![r] = r]
           d == [c EXCEPT ![q] = t, ![r] = <<>>]
<1>1. /\ q \in Heads /\ r \in Heads /\ c \in [Heads -> Seq(Objects)] /\ Apart(c)
      /\ nx \in [Nodes -> Objects \union Queues \union {Null}]
      /\ tl \in [Queues -> Objects \union Queues]
  BY DEF Heads, Represents
<1>2. /\ a \in Seq(Objects) /\ b \in Seq(Objects) /\ m \in Nat /\ n \in Nat /\ n > 0
      /\ nx[r] = b[1]
  BY <1>1, ListType
<1>3. /\ t \in Seq(Objects) /\ Len(t) = m + n
      /\ \A i \in 1..m : t[i] = a[i]
      /\ \A i \in 1..n : t[m + i] = b[i]
      /\ \A i \in 1..m + n : i \in 1..m \/ (i - m \in 1..n /\ m + (i - m) = i)
  <2> HIDE DEF a, b
  <2>1. a \in Seq(Objects) /\ b \in Seq(Objects)
    BY <1>2
  <2> QED BY <2>1, ConcatType
<1> HIDE DEF t
<1>4. y = NodeAt(q, a, m) /\ z = NodeAt(r, b, n) /\ r = NodeAt(r, b, 0)
  BY DEF Represents, NodeAt
<1>5. m \in 0..m /\ n \in 0..n /\ 0 \in 0..n /\ n # 0
  BY <1>2
<1>6. y \in Nodes /\ z \in Nodes /\ r \in Nodes /\ y # z /\ y # r /\ z # r
  BY <1>1, <1>4, <1>5, ListType, NodesApart
<1>7. /\ ny \in [Nodes -> Objects \union Queues \union {Null}]
      /\ ny[y] = b[1] /\ ny[z] = q /\ ny[r] = r
      /\ \A x \in Nodes \ {y, z, r} : ny[x] = nx[x]
  <2>1. ny = [nx EXCEPT ![y] = b[1], ![z] = q, ![r] = r]
    BY <1>2 DEF Joined
  <2>2. b[1] \in Objects
    BY <1>1, <1>2, <1>5, ListType
  <2> HIDE DEF y, z, ny, b
  <2> QED BY <1>1, <1>6, <2>1, <2>2
<1> HIDE DEF ny
<1>8. /\ d \in [Heads -> Seq(Objects)] /\ d[q] = t /\ d[r] = <<>>
      /\ \A l \in Heads \ {q, r} : d[l] = c[l]
  <2>1. t \in Seq(Objects) /\ <<>> \in Seq(Objects)
    BY <1>3
  <2> QED BY <1>1, <2>1
<1> HIDE DEF d
<1>9. Apart(d)
  <2> DEFINE L(k, i) == IF k = q /\ i \notin 1..m THEN r ELSE k
             I(k, i) == IF k = q /\ i \notin 1..m THEN i - m ELSE i
  <2>1. \A k \in Heads : \A i \in 1..Len(d[k]) :
          /\ k # r /\ i \in Int
          /\ L(k, i) \in Heads /\ I(k, i) \in 1..Len(c[L(k, i)])
          /\ c[L(k, i)][I(k, i)] = d[k][i]
    <3> SUFFICES ASSUME NEW k \in Heads, NEW i \in 1..Len(d[k])
                 PROVE  /\ k # r /\ i \in Int
                        /\ L(k, i) \in Heads /\ I(k, i) \in 1..Len(c[L(k, i)])
                        /\ c[L(k, i)][I(k, i)] = d[k][i]
      OBVIOUS
    <3>1. CASE k = q
      <4>1. i \in 1..m + n
        BY <1>3, <1>8, <3>1
      <4>2. CASE i \in 1..m
        BY <1>1, <1>3, <1>8, <3>1, <4>1, <4>2
      <4>3. CASE i \notin 1..m
        <5>1. i - m \in 1..n /\ t[i] = b[i - m]
          BY <1>3, <4>1, <4>3
        <5> QED BY <1>1, <1>8, <3>1, <4>1, <4>3, <5>1
      <4> QED BY <4>2, <4>3
    <3>2. CASE k = r
      BY <1>8, <3>2
    <3>3. CASE k # q /\ k # r
      BY <1>8, <3>3
    <3> QED BY <3>1, <3>2, <3>3
  <2>2. \A l, k \in Heads : \A i \in 1..Len(c[l]), j \in 1..Len(c[k]) :
          c[l][i] = c[k][j] => l = k /\ i = j
    BY <1>1 DEF Apart
  <2> SUFFICES ASSUME NEW l \in Heads, NEW k \in Heads,
                      NEW i \in 1..Len(d[l]), NEW j \in 1..Len(d[k]), d[l][i] = d[k][j]
               PROVE  l = k /\ i = j
    BY DEF Apart
  <2>3. /\ l # r /\ i \in Int /\ L(l, i) \in Heads /\ I(l, i) \in 1..Len(c[L(l, i)])
        /\ c[L(l, i)][I(l, i)] = d[l][i]
    BY <2>1
  <2>4. /\ k # r /\ j \in Int /\ L(k, j) \in Heads /\ I(k, j) \in 1..Len(c[L(k, j)])
        /\ c[L(k, j)][I(k, j)] = d[k][j]
    BY <2>1
  <2>5. L(l, i) = L(k, j) /\ I(l, i) = I(k, j)
    <3> HIDE DEF L, I
    <3> QED BY <2>2, <2>3, <2>4
  <2> QED BY <1>2, <2>3, <2>4, <2>5
<1>10. Linked(nx, q, a) /\ Linked(nx, r, b)
  BY <1>1 DEF Represents
<1>11. \A i \in 0..m : i # m => NodeAt(q, a, i) \in Nodes \ {y, z, r}
  BY <1>1, <1>4, <1>5, ListType, NodesApart
<1>12. \A i \in 1..n : i # n => NodeAt(r, b, i) \in Nodes \ {y, z, r}
  <2>1. \A i \in 1..n : i \in 0..n /\ i # 0
    BY <1>2
  <2> QED BY <1>1, <1>4, <1>5, <2>1, ListType, NodesApart
<1>13. Linked(ny, q, t)
  <2> SUFFICES ASSUME NEW i \in 0..m + n
               PROVE  ny[NodeAt(q, t, i)] = IF i < m + n THEN t[i + 1] ELSE q
    BY <1>3 DEF Linked, End
  <2> HIDE DEF a, b, m, n, y, z
  <2>1. CASE i < m
    <3>1. i \in 0..m /\ i # m /\ i < m + n /\ i + 1 \in 1..m /\ (i # 0 => i \in 1..m)
      BY <1>2, <2>1
    <3>2. NodeAt(q, t, i) = NodeAt(q, a, i)
      BY <1>3, <3>1 DEF NodeAt
    <3>3. nx[NodeAt(q, a, i)] = t[i + 1]
      BY <1>3, <1>10, <2>1, <3>1 DEF Linked, m
    <3> QED BY <1>7, <1>11, <3>1, <3>2, <3>3
  <2>2. CASE i = m
    <3>1. NodeAt(q, t, i) = y
      <4>1. i # 0 => i \in 1..m
        BY <1>2, <2>2
      <4> QED BY <1>3, <1>4, <2>2, <4>1 DEF NodeAt
    <3>2. t[i + 1] = b[1]
      <4>1. 1 \in 1..n
        BY <1>2
      <4> QED BY <1>3, <2>2, <4>1
    <3>3. i < m + n
      BY <1>2, <2>2
    <3> QED BY <1>7, <3>1, <3>2, <3>3
  <2>3. CASE m < i
    <3> DEFINE j == i - m
    <3>1. j \in 1..n /\ j \in 0..n /\ m + j = i /\ i # 0 /\ j # 0 /\ (j < n <=> i < m + n)
      BY <1>2, <2>3
    <3>2. NodeAt(q, t, i) = NodeAt(r, b, j)
      BY <1>3, <3>1 DEF NodeAt
    <3>3. CASE j = n
      BY <1>4, <1>7, <3>1, <3>2, <3>3
    <3>4. CASE j # n
      <4>1. j + 1 \in 1..n /\ m + (j + 1) = i + 1 /\ j < n
        BY <1>2, <3>1, <3>4
      <4>2. t[i + 1] = b[j + 1]
        BY <1>3, <4>1
      <4>3. nx[NodeAt(r, b, j)] = b[j + 1]
        <5> HIDE DEF j
        <5> QED BY <1>10, <3>1, <4>1 DEF Linked, n
      <4> HIDE DEF j
      <4> QED BY <1>7, <1>12, <3>1, <3>2, <3>4, <4>1, <4>2, <4>3
    <3> QED BY <3>3, <3>4
  <2> QED BY <1>2, <2>1, <2>2, <2>3
<1>14. \A l \in Heads : Linked(ny, l, d[l])
  <2> SUFFICES ASSUME NEW l \in Heads PROVE Linked(ny, l, d[l])
    OBVIOUS
  <2>1. CASE l = q
    BY <1>8, <1>13, <2>1
  <2>2. CASE l = r
    BY <1>7, <1>8, <2>2 DEF Linked, NodeAt, End
  <2>3. CASE l # q /\ l # r
    <3>1. Linked(nx, l, c[l]) /\ d[l] = c[l]
      BY <1>8, <2>3 DEF Represents
    <3>2. \A i \in 0..Len(c[l]) : ny[NodeAt(l, c[l], i)] = nx[NodeAt(l, c[l], i)]
      <4> SUFFICES ASSUME NEW i \in 0..Len(c[l])
                   PROVE  NodeAt(l, c[l], i) \in Nodes \ {y, z, r}
        BY <1>7
      <4> QED BY <1>1, <1>4, <1>5, <2>3, ListType, NodesApart
    <3> QED BY <3>1, <3>2, StaysLinked
  <2> QED BY <2>1, <2>2, <2>3
<1>15. /\ tm \in [Queues -> Objects \union Queues]
       /\ \A k \in Queues : tm[k] = NodeAt(k, d[k], Len(d[k]))
  <2>1. /\ tm \in [Queues -> Objects \union Queues] /\ tm[q] = z /\ tm[r] = r
        /\ \A k \in Queues \ {q, r} : tm[k] = tl[k]
    BY <1>1
  <2> HIDE DEF tm
  <2>2. tm[q] = NodeAt(q, d[q], Len(d[q]))
    <3>1. n \in 1..n /\ m + n # 0
      <4>1. m \in Nat /\ n \in Nat /\ n > 0
        BY <1>2
      <4> HIDE DEF m, n
      <4> QED BY <4>1
    <3> QED BY <1>3, <1>4, <1>5, <1>8, <2>1, <3>1 DEF NodeAt
  <2>3. tm[r] = NodeAt(r, d[r], Len(d[r]))
    BY <1>8, <2>1 DEF NodeAt
  <2>4. \A k \in Queues \ {q, r} : tm[k] = NodeAt(k, d[k], Len(d[k]))
    BY <1>8, <2>1 DEF Represents, Heads
  <2> QED BY <2>1, <2>2, <2>3, <2>4
<1> HIDE DEF tm
<1> QED BY <1>7, <1>8, <1>9, <1>14, <1>15 DEF Represents, ny, d, t, tm

-----------------------------------------------------------------------------
(* The walks along the pointers.                                           *)

\* A list is not longer than there are objects.
LEMMA ListLength ==
    ASSUME NEW nx, NEW tl, NEW c, Represents(nx, tl, c), NEW l \in Heads
    PROVE  Len(c[l]) \in 0..NumObjects
<1> DEFINE s == c[l]
           n == Len(s)
<1>1. s \in Seq(Objects) /\ n \in Nat /\ NumObjects \in Nat
  BY ListType, StorageAssumption
<1>2. \A i, j \in 1..n : s[i] = s[j] => i = j
  BY DEF Represents, Apart
<1>3. s \in Injection(1..n, Objects)
  <2> HIDE DEF s
  <2>1. s \in [1..n -> Objects]
    BY <1>1
  <2> QED BY <1>2, <2>1 DEF Injection, IsInjective
<1>4. IsFiniteSet(Objects) /\ Cardinality(Objects) = NumObjects
  BY <1>1, FS_Interval DEF Objects
<1>5. Cardinality(1..n) = n
  BY <1>1, FS_Interval
<1>6. Cardinality(1..n) <= Cardinality(Objects)
  BY <1>3, <1>4, FS_Injection
<1> QED BY <1>1, <1>4, <1>5, <1>6

\* The first k of a sequence.
First(s, k) == IF k <= Len(s) THEN SubSeq(s, 1, k) ELSE s

\* One turn of a walk.
LEMMA WalkTurn ==
    ASSUME NEW nx, NEW tl, NEW c, Represents(nx, tl, c), NEW l \in Heads, NEW k \in Nat \ {0}
    PROVE  LET p == First(c[l], k - 1)
               a == nx[IF p = <<>> THEN l ELSE Last(p)]
           IN  First(c[l], k) = IF Len(p) < k - 1 \/ a = End(l) \/ a = Null THEN p ELSE Append(p, a)
<1> DEFINE s == c[l]
           n == Len(s)
           p == First(s, k - 1)
           a == nx[IF p = <<>> THEN l ELSE Last(p)]
<1>1. s \in Seq(Objects) /\ n \in Nat
  BY ListType
<1>2. Linked(nx, l, s) /\ \A i \in 1..n : s[i] \in Objects
  BY ListType DEF Represents
<1>3. CASE k - 1 > n
  <2>1. p = s /\ First(s, k) = s /\ Len(p) < k - 1
    BY <1>1, <1>3 DEF First
  <2> QED BY <2>1
<1>4. CASE k - 1 <= n
  <2>0. k - 1 \in 0..n
    BY <1>1, <1>4
  <2>1. /\ p \in Seq(Objects) /\ Len(p) = k - 1
        /\ \A i \in 1..k - 1 : p[i] = s[i]
    <3>1. p = SubSeq(s, 1, k - 1)
      BY <1>4 DEF First
    <3> HIDE DEF s, p
    <3> QED BY <1>1, <2>0, <3>1 DEF n
  <2>2. (IF p = <<>> THEN l ELSE Last(p)) = NodeAt(l, s, k - 1)
    <3> HIDE DEF p, s
    <3>1. CASE k = 1
      BY <2>1, <3>1 DEF NodeAt
    <3>2. CASE k # 1
      <4>1. k - 1 \in 1..k - 1 /\ k - 1 # 0
        BY <3>2
      <4>2. p # <<>> /\ Last(p) = p[k - 1]
        BY <2>1, <4>1 DEF Last
      <4> QED BY <2>1, <4>1, <4>2 DEF NodeAt
    <3> QED BY <3>1, <3>2
  <2>3. a = IF k - 1 < n THEN s[k] ELSE End(l)
    <3>1. (k - 1) + 1 = k
      OBVIOUS
    <3> QED BY <1>2, <2>0, <2>2, <3>1 DEF Linked
  <2> HIDE DEF a
  <2>4. CASE k - 1 = n
    <3>1. a = End(l)
      BY <1>1, <2>3, <2>4
    <3>2. First(s, k) = s /\ p = s
      <4>1. ~(k <= n)
        BY <1>1, <2>4
      <4>2. First(s, k) = s
        BY <4>1 DEF First
      <4> HIDE DEF s, p
      <4>3. p = s
        BY <1>1, <2>1, <2>4 DEF n
      <4> QED BY <4>2, <4>3
    <3> QED BY <3>1, <3>2 DEF a
  <2>5. CASE k - 1 < n
    <3>1. k \in 1..n /\ a = s[k] /\ a \in Objects
      BY <1>1, <1>2, <2>3, <2>5
    <3>2. a # End(l) /\ a # Null
      BY <3>1, Addresses DEF End, Heads, Nodes
    <3>3. First(s, k) = Append(p, a)
      <4>1. First(s, k) = SubSeq(s, 1, k)
        BY <1>1, <3>1 DEF First
      <4> HIDE DEF s, p
      <4>2. SubSeq(s, 1, k) \in Seq(Objects) /\ Len(SubSeq(s, 1, k)) = k
            /\ \A i \in 1..k : SubSeq(s, 1, k)[i] = s[i]
        BY <1>1, <3>1 DEF n
      <4>3. Append(p, a) \in Seq(Objects) /\ Len(Append(p, a)) = k
            /\ \A i \in 1..k : Append(p, a)[i] = s[i]
        <5>1. /\ Append(p, a) \in Seq(Objects) /\ Len(Append(p, a)) = k
              /\ Append(p, a)[k] = a /\ \A i \in 1..k - 1 : Append(p, a)[i] = p[i]
          BY <2>1, <3>1
        <5>2. \A i \in 1..k : i = k \/ i \in 1..k - 1
          OBVIOUS
        <5> QED BY <2>1, <3>1, <5>1, <5>2
      <4>4. SubSeq(s, 1, k) = Append(p, a)
        <5> DEFINE u == SubSeq(s, 1, k)
                   v == Append(p, a)
        <5> HIDE DEF u, v
        <5>1. u \in Seq(Objects) /\ v \in Seq(Objects) /\ Len(u) = k /\ Len(v) = k
              /\ \A i \in 1..k : u[i] = v[i]
          BY <4>2, <4>3 DEF u, v
        <5>2. u = v
          BY <5>1
        <5> QED BY <5>2 DEF u, v
      <4> QED BY <4>1, <4>4
    <3>4. ~(Len(p) < k - 1)
      BY <2>1
    <3> QED BY <3>2, <3>3, <3>4 DEF a
  <2> QED BY <1>1, <1>4, <2>4, <2>5
<1> QED BY <1>1, <1>3, <1>4

\* The whole of a list is its first NumObjects.
LEMMA WalkEnds ==
    ASSUME NEW nx, NEW tl, NEW c, Represents(nx, tl, c), NEW l \in Heads
    PROVE  First(c[l], NumObjects) = c[l] /\ First(c[l], 0) = <<>> /\ NumObjects \in Nat
<1>1. c[l] \in Seq(Objects) /\ Len(c[l]) \in 0..NumObjects /\ NumObjects \in Nat
  BY ListType, ListLength, StorageAssumption
<1> DEFINE s == c[l]
<1> HIDE DEF s
<1>2. s \in Seq(Objects) /\ Len(s) \in 0..NumObjects
  BY <1>1 DEF s
<1>3. First(s, NumObjects) = s
  <2>1. CASE NumObjects = Len(s)
    <3>1. First(s, NumObjects) = SubSeq(s, 1, Len(s))
      BY <1>2, <2>1 DEF First
    <3>2. SubSeq(s, 1, Len(s)) = s
      BY <1>2
    <3> QED BY <3>1, <3>2
  <2>2. CASE NumObjects # Len(s)
    BY <1>1, <1>2, <2>2 DEF First
  <2> QED BY <2>1, <2>2
<1>4. First(s, 0) = <<>>
  <2>1. First(s, 0) = SubSeq(s, 1, 0)
    BY <1>2 DEF First
  <2> QED BY <1>2, <2>1
<1> QED BY <1>1, <1>3, <1>4 DEF s

\* A walk that begins with nothing and makes such turns ends with the list.
LEMMA WalkFollows ==
    ASSUME NEW nx, NEW tl, NEW c, Represents(nx, tl, c), NEW l \in Heads, NEW g, g[0] = <<>>,
           \A k \in 1..NumObjects :
             LET p == g[k - 1]
                 a == nx[IF p = <<>> THEN l ELSE Last(p)]
             IN  g[k] = IF Len(p) < k - 1 \/ a = End(l) \/ a = Null THEN p ELSE Append(p, a)
    PROVE  g[NumObjects] = c[l]
<1> DEFINE T == {k \in 0..NumObjects : g[k] = First(c[l], k)}
<1>1. NumObjects \in Nat
  BY StorageAssumption
<1>2. 0 \in T
  BY <1>1, WalkEnds
<1>3. \A k \in 0..NumObjects - 1 : k \in T => k + 1 \in T
  <2> SUFFICES ASSUME NEW k \in 0..NumObjects - 1, g[k] = First(c[l], k)
               PROVE  k + 1 \in 0..NumObjects /\ g[k + 1] = First(c[l], k + 1)
    OBVIOUS
  <2>0. k + 1 \in 0..NumObjects
    BY <1>1
  <2>1. k + 1 \in 1..NumObjects /\ k + 1 \in Nat \ {0} /\ (k + 1) - 1 = k
    BY <1>1
  <2>2. LET p == First(c[l], k)
            a == nx[IF p = <<>> THEN l ELSE Last(p)]
        IN  First(c[l], k + 1) = IF Len(p) < k \/ a = End(l) \/ a = Null THEN p ELSE Append(p, a)
    BY <2>1, WalkTurn
  <2>3. LET p == g[k]
            a == nx[IF p = <<>> THEN l ELSE Last(p)]
        IN  g[k + 1] = IF Len(p) < k \/ a = End(l) \/ a = Null THEN p ELSE Append(p, a)
    BY <2>1
  <2> QED BY <2>0, <2>2, <2>3
<1>4. NumObjects \in T
  <2>1. NumObjects \in 0..NumObjects
    BY <1>1
  <2> HIDE DEF T
  <2> QED BY <2>1, <1>1, <1>2, <1>3, CountingTo
<1> QED BY <1>4, WalkEnds

LEMMA QueueWalk ==
    ASSUME NEW c, Represents(next, tail, c), NEW q \in Queues
    PROVE  QueueOf(q) = c[q]
<1> DEFINE Body(f, n) ==
             IF n = 0 THEN <<>>
             ELSE LET p == f[n - 1]
                      a == next[IF p = <<>> THEN q ELSE Last(p)]
                  IN  IF Len(p) < n - 1 \/ a = q \/ a = Null THEN p ELSE Append(p, a)
           path == CHOOSE f : f = [n \in 0..NumObjects |-> Body(f, n)]
           g == [n \in 0..NumObjects |-> First(c[q], n)]
<1>1. q \in Heads /\ End(q) = q /\ NumObjects \in Nat
  BY StorageAssumption DEF Heads, End
<1>2. g = [n \in 0..NumObjects |-> Body(g, n)]
  <2> SUFFICES ASSUME NEW n \in 0..NumObjects PROVE g[n] = Body(g, n)
    OBVIOUS
  <2>1. CASE n = 0
    BY <1>1, <2>1, WalkEnds
  <2>2. CASE n # 0
    <3>1. n \in Nat \ {0} /\ n - 1 \in 0..NumObjects
      BY <1>1, <2>2
    <3>2. g[n] = First(c[q], n) /\ g[n - 1] = First(c[q], n - 1)
      BY <3>1
    <3>3. LET p == First(c[q], n - 1)
              a == next[IF p = <<>> THEN q ELSE Last(p)]
          IN  First(c[q], n) = IF Len(p) < n - 1 \/ a = q \/ a = Null THEN p ELSE Append(p, a)
      <4>1. LET p == First(c[q], n - 1)
                a == next[IF p = <<>> THEN q ELSE Last(p)]
            IN  First(c[q], n)
                  = IF Len(p) < n - 1 \/ a = End(q) \/ a = Null THEN p ELSE Append(p, a)
        BY <1>1, <3>1, WalkTurn
      <4> QED BY <1>1, <4>1
    <3> QED BY <2>2, <3>2, <3>3
  <2> QED BY <2>1, <2>2
<1>3. path = [n \in 0..NumObjects |-> Body(path, n)]
  BY <1>2
<1>4. QueueOf(q) = path[NumObjects]
  BY DEF QueueOf
<1> HIDE DEF path
<1>5. path[0] = <<>>
  BY <1>1, <1>3
<1>6. \A k \in 1..NumObjects :
        LET p == path[k - 1]
            a == next[IF p = <<>> THEN q ELSE Last(p)]
        IN  path[k] = IF Len(p) < k - 1 \/ a = q \/ a = Null THEN p ELSE Append(p, a)
  <2> SUFFICES ASSUME NEW k \in 1..NumObjects
               PROVE  LET p == path[k - 1]
                          a == next[IF p = <<>> THEN q ELSE Last(p)]
                      IN  path[k] = IF Len(p) < k - 1 \/ a = q \/ a = Null THEN p ELSE Append(p, a)
    OBVIOUS
  <2>1. k \in 0..NumObjects /\ k # 0
    BY <1>1
  <2>2. path[k] = Body(path, k)
    BY <1>3, <2>1
  <2> QED BY <2>1, <2>2
<1>7. path[NumObjects] = c[q]
  BY <1>1, <1>5, <1>6, WalkFollows
<1> QED BY <1>4, <1>7

LEMMA ChainWalk ==
    ASSUME NEW c, Represents(next, tail, c), NEW h \in Slots
    PROVE  ChainOf(h) = c[h]
<1> DEFINE Body(f, n) ==
             IF n = 0 THEN <<>>
             ELSE LET p == f[n - 1]
                      a == next[IF p = <<>> THEN h ELSE Last(p)]
                  IN  IF Len(p) < n - 1 \/ a = Null THEN p ELSE Append(p, a)
           path == CHOOSE f : f = [n \in 0..NumObjects |-> Body(f, n)]
           g == [n \in 0..NumObjects |-> First(c[h], n)]
<1>1. h \in Heads /\ End(h) = Null /\ NumObjects \in Nat
  BY StorageAssumption, Addresses DEF Heads, End
<1>2. g = [n \in 0..NumObjects |-> Body(g, n)]
  <2> SUFFICES ASSUME NEW n \in 0..NumObjects PROVE g[n] = Body(g, n)
    OBVIOUS
  <2>1. CASE n = 0
    BY <1>1, <2>1, WalkEnds
  <2>2. CASE n # 0
    <3>1. n \in Nat \ {0} /\ n - 1 \in 0..NumObjects
      BY <1>1, <2>2
    <3>2. g[n] = First(c[h], n) /\ g[n - 1] = First(c[h], n - 1)
      BY <3>1
    <3>3. LET p == First(c[h], n - 1)
              a == next[IF p = <<>> THEN h ELSE Last(p)]
          IN  First(c[h], n) = IF Len(p) < n - 1 \/ a = Null THEN p ELSE Append(p, a)
      BY <1>1, <3>1, WalkTurn
    <3> QED BY <2>2, <3>2, <3>3
  <2> QED BY <2>1, <2>2
<1>3. path = [n \in 0..NumObjects |-> Body(path, n)]
  BY <1>2
<1>4. ChainOf(h) = path[NumObjects]
  BY DEF ChainOf
<1> HIDE DEF path
<1>5. path[0] = <<>>
  BY <1>1, <1>3
<1>6. \A k \in 1..NumObjects :
        LET p == path[k - 1]
            a == next[IF p = <<>> THEN h ELSE Last(p)]
        IN  path[k] = IF Len(p) < k - 1 \/ a = End(h) \/ a = Null THEN p ELSE Append(p, a)
  <2> SUFFICES ASSUME NEW k \in 1..NumObjects
               PROVE  LET p == path[k - 1]
                          a == next[IF p = <<>> THEN h ELSE Last(p)]
                      IN  path[k] = IF Len(p) < k - 1 \/ a = Null THEN p ELSE Append(p, a)
    BY <1>1
  <2>1. k \in 0..NumObjects /\ k # 0
    BY <1>1
  <2>2. path[k] = Body(path, k)
    BY <1>3, <2>1
  <2> QED BY <2>1, <2>2
<1>7. path[NumObjects] = c[h]
  BY <1>1, <1>5, <1>6, WalkFollows
<1> QED BY <1>4, <1>7

\* What the pointers represent is what the walks along them find.
LEMMA WalkIs ==
    \A c : Represents(next, tail, c) =>
      \A l \in Heads : /\ ListOf(l) = c[l]
                       /\ l \in Queues => QueueOf(l) = c[l]
                       /\ l \in Slots => ChainOf(l) = c[l]
<1> SUFFICES ASSUME NEW c, Represents(next, tail, c), NEW l \in Heads
             PROVE  /\ ListOf(l) = c[l]
                    /\ l \in Queues => QueueOf(l) = c[l]
                    /\ l \in Slots => ChainOf(l) = c[l]
  OBVIOUS
<1>1. l \in Queues => QueueOf(l) = c[l]
  BY QueueWalk
<1>2. l \in Slots => ChainOf(l) = c[l]
  BY ChainWalk
<1>3. next[l] \in {l, Null} => c[l] = <<>>
  <2> SUFFICES ASSUME c[l] # <<>> PROVE next[l] \notin {l, Null}
    OBVIOUS
  <2>1. next[l] = c[l][1] /\ c[l][1] \in Objects
    BY ListType
  <2> QED BY <2>1, Addresses DEF Nodes
<1>4. next[l] \notin {l, Null} \/ c[l] = <<>>
  BY <1>3
<1> QED BY <1>1, <1>2, <1>3 DEF ListOf, Heads

LEMMA WalkAfter ==
    (\A c : Represents(next, tail, c) =>
       \A l \in Heads : /\ ListOf(l) = c[l]
                        /\ l \in Queues => QueueOf(l) = c[l]
                        /\ l \in Slots => ChainOf(l) = c[l])'
BY WalkIs, PTL

-----------------------------------------------------------------------------
(* What a step does to the lists.                                          *)

\* What is in a list.
In(l) == ToSet(ListOf(l))

Content == [l \in Heads |-> ListOf(l)]

ListsOK == Represents(next, tail, Content)

\* One list gets o, or loses it, and the others stay as they are.
Adds(l, o) ==
    /\ In(l)' = In(l) \union {o}
    /\ \A k \in Heads \ {l} : In(k)' = In(k)

Drops(l, o) ==
    /\ o \in In(l) /\ In(l)' = In(l) \ {o}
    /\ \A k \in Heads \ {l} : In(k)' = In(k)

Holds == \A k \in Heads : In(k)' = In(k)

\* The elements of sequences.
LEMMA ElementsAppend ==
    ASSUME NEW S, NEW s \in Seq(S), NEW o \in S
    PROVE  ToSet(Append(s, o)) = ToSet(s) \union {o} /\ Len(Append(s, o)) = Len(s) + 1
<1> DEFINE t == Append(s, o)
<1>1. /\ t \in Seq(S) /\ Len(t) = Len(s) + 1 /\ t[Len(s) + 1] = o
      /\ \A i \in 1..Len(s) : t[i] = s[i]
  OBVIOUS
<1>2. /\ Len(s) \in Nat /\ DOMAIN s = 1..Len(s) /\ DOMAIN t = 1..Len(t)
      /\ \A i \in 1..Len(s) + 1 : i \in 1..Len(s) \/ i = Len(s) + 1
      /\ \A i \in 1..Len(s) : i \in 1..Len(s) + 1
      /\ Len(s) + 1 \in 1..Len(s) + 1
  OBVIOUS
<1> HIDE DEF t
<1>3. ToSet(t) \subseteq ToSet(s) \union {o}
  BY <1>1, <1>2 DEF ToSet
<1>4. ToSet(s) \union {o} \subseteq ToSet(t)
  <2>1. \A x \in ToSet(s) : x \in ToSet(t)
    <3> SUFFICES ASSUME NEW i \in 1..Len(s) PROVE s[i] \in ToSet(t)
      BY <1>2 DEF ToSet
    <3> QED BY <1>1, <1>2 DEF ToSet
  <2>2. o \in ToSet(t)
    BY <1>1, <1>2 DEF ToSet
  <2> QED BY <2>1, <2>2
<1> QED BY <1>1, <1>3, <1>4 DEF t

LEMMA ElementsConcat ==
    ASSUME NEW S, NEW a \in Seq(S), NEW b \in Seq(S)
    PROVE  ToSet(a \o b) = ToSet(a) \union ToSet(b)
<1> DEFINE t == a \o b
<1>1. /\ t \in Seq(S) /\ Len(t) = Len(a) + Len(b)
      /\ \A i \in 1..Len(a) : t[i] = a[i]
      /\ \A i \in 1..Len(b) : t[Len(a) + i] = b[i]
      /\ \A i \in 1..Len(a) + Len(b) :
           i \in 1..Len(a) \/ (i - Len(a) \in 1..Len(b) /\ Len(a) + (i - Len(a)) = i)
  BY ConcatType
<1>2. /\ DOMAIN a = 1..Len(a) /\ DOMAIN b = 1..Len(b)
      /\ Len(a) \in Nat /\ Len(b) \in Nat
  OBVIOUS
<1> HIDE DEF t
<1>3. DOMAIN t = 1..Len(a) + Len(b)
  BY <1>1
<1>4. ToSet(t) \subseteq ToSet(a) \union ToSet(b)
  <2> SUFFICES ASSUME NEW i \in 1..Len(a) + Len(b)
               PROVE  t[i] \in ToSet(a) \union ToSet(b)
    BY <1>3 DEF ToSet
  <2>1. CASE i \in 1..Len(a)
    BY <1>1, <1>2, <2>1 DEF ToSet
  <2>2. CASE i \notin 1..Len(a)
    <3>1. i - Len(a) \in 1..Len(b) /\ t[i] = b[i - Len(a)]
      BY <1>1, <2>2
    <3> QED BY <1>2, <3>1 DEF ToSet
  <2> QED BY <2>1, <2>2
<1>5. \A i \in 1..Len(a) : a[i] \in ToSet(t)
  <2> SUFFICES ASSUME NEW i \in 1..Len(a) PROVE a[i] \in ToSet(t)
    OBVIOUS
  <2>1. i \in DOMAIN t
    BY <1>2, <1>3
  <2> QED BY <1>1, <2>1 DEF ToSet
<1>6. \A i \in 1..Len(b) : b[i] \in ToSet(t)
  <2> SUFFICES ASSUME NEW i \in 1..Len(b) PROVE b[i] \in ToSet(t)
    OBVIOUS
  <2>1. Len(a) + i \in DOMAIN t
    BY <1>2, <1>3
  <2> QED BY <1>1, <2>1 DEF ToSet
<1>7. ToSet(a) \union ToSet(b) \subseteq ToSet(t)
  BY <1>2, <1>5, <1>6 DEF ToSet
<1> QED BY <1>4, <1>7 DEF t

LEMMA ElementsRemoved ==
    ASSUME NEW S, NEW s \in Seq(S), NEW i \in 1..Len(s),
           \A j, k \in 1..Len(s) : s[j] = s[k] => j = k
    PROVE  ToSet(RemoveAt(s, i)) = ToSet(s) \ {s[i]} /\ s[i] \in ToSet(s)
<1> DEFINE t == RemoveAt(s, i)
           n == Len(s)
<1>1. /\ t \in Seq(S) /\ Len(t) = n - 1
      /\ \A j \in 1..n - 1 : t[j] = IF j < i THEN s[j] ELSE s[j + 1]
  BY RemoveAtType
<1>2. n \in Nat /\ DOMAIN s = 1..n /\ i \in 1..n
  OBVIOUS
<1> HIDE DEF t, n
<1>3. DOMAIN t = 1..n - 1
  BY <1>1, <1>2
<1>4. \A j, k \in 1..n : s[j] = s[k] => j = k
  BY DEF n
<1>5. ToSet(t) \subseteq ToSet(s) \ {s[i]}
  <2> SUFFICES ASSUME NEW j \in 1..n - 1 PROVE t[j] \in ToSet(s) \ {s[i]}
    BY <1>3 DEF ToSet
  <2>1. \E k \in 1..n : k # i /\ t[j] = s[k]
    <3>1. CASE j < i
      BY <1>1, <1>2, <3>1
    <3>2. CASE ~(j < i)
      <4>1. j + 1 \in 1..n /\ j + 1 # i
        BY <1>2, <3>2
      <4> QED BY <1>1, <3>2, <4>1
    <3> QED BY <3>1, <3>2
  <2> QED BY <1>2, <1>4, <2>1 DEF ToSet
<1>6. ToSet(s) \ {s[i]} \subseteq ToSet(t)
  <2> SUFFICES ASSUME NEW k \in 1..n, k # i PROVE s[k] \in ToSet(t)
    BY <1>2 DEF ToSet
  <2>1. \E j \in 1..n - 1 : t[j] = s[k]
    <3>1. CASE k < i
      <4>1. k \in 1..n - 1
        BY <1>2, <3>1
      <4> QED BY <1>1, <3>1, <4>1
    <3>2. CASE ~(k < i)
      <4>1. k - 1 \in 1..n - 1 /\ ~(k - 1 < i) /\ (k - 1) + 1 = k
        BY <1>2, <3>2
      <4> QED BY <1>1, <4>1
    <3> QED BY <3>1, <3>2
  <2> QED BY <1>3, <2>1 DEF ToSet
<1>7. s[i] \in ToSet(s)
  BY <1>2 DEF ToSet
<1> QED BY <1>5, <1>6, <1>7 DEF t

\* What the pointers come to represent is the content.
LEMMA ContentAfter ==
    ASSUME NEW c, Represents(next', tail', c)
    PROVE  /\ Content' = c /\ ListsOK'
           /\ \A l \in Heads : ListOf(l)' = c[l]
<1>1. \A l \in Heads : ListOf(l)' = c[l]
  BY WalkAfter DEF Represents, Linked, Apart
<1>2. c \in [Heads -> Seq(Objects)]
  BY DEF Represents
<1>3. Content' = c
  BY <1>1, <1>2 DEF Content
<1> QED BY <1>1, <1>3 DEF ListsOK, Represents, Linked, Apart

\* The lists as the invariant sees them.
LEMMA ContentType ==
    ASSUME ListsOK, NEW l \in Heads
    PROVE  /\ Content[l] = ListOf(l) /\ ListOf(l) \in Seq(Objects)
           /\ Len(ListOf(l)) \in 0..NumObjects
           /\ In(l) = {ListOf(l)[i] : i \in 1..Len(ListOf(l))} /\ In(l) \subseteq Objects
           /\ l \in Queues => QueueOf(l) = ListOf(l) /\ (IsEmpty(l) <=> ListOf(l) = <<>>)
           /\ l \in Slots => ChainOf(l) = ListOf(l) /\ (next[l] = Null <=> ListOf(l) = <<>>)
           /\ ListOf(l) # <<>> => next[l] = ListOf(l)[1] /\ next[l] \in In(l)
           /\ \A i, j \in 1..Len(ListOf(l)) : ListOf(l)[i] = ListOf(l)[j] => i = j
<1>1. Content[l] = ListOf(l) /\ Represents(next, tail, Content)
  BY DEF Content, ListsOK
<1> DEFINE s == ListOf(l)
<1>2. /\ s \in Seq(Objects) /\ Len(s) \in 0..NumObjects
      /\ next[l] = IF s = <<>> THEN End(l) ELSE s[1]
      /\ s # <<>> <=> Len(s) > 0
  BY <1>1, ListType, ListLength
<1>3. /\ l \in Queues => QueueOf(l) = s
      /\ l \in Slots => ChainOf(l) = s
  BY <1>1, WalkIs
<1>4. \A i, j \in 1..Len(s) : s[i] = s[j] => i = j
  BY <1>1 DEF Represents, Apart
<1>6. In(l) = {s[i] : i \in 1..Len(s)}
  <2> HIDE DEF s
  <2>1. DOMAIN s = 1..Len(s)
    BY <1>2
  <2>2. ToSet(s) = {s[i] : i \in 1..Len(s)}
    BY <2>1 DEF ToSet
  <2> QED BY <2>2 DEF In, s
<1> HIDE DEF s
<1>5. \A i \in 1..Len(s) : s[i] \in Objects
  BY <1>2
<1>7. s # <<>> => 1 \in 1..Len(s)
  BY <1>2
<1>8. s # <<>> => next[l] = s[1] /\ next[l] \in In(l) /\ next[l] \in Objects
  BY <1>2, <1>5, <1>6, <1>7
<1>9. l \in Queues => (IsEmpty(l) <=> s = <<>>)
  <2>1. s = <<>> => next[l] = End(l)
    BY <1>2
  <2> QED BY <1>8, <2>1, Addresses DEF IsEmpty, End, Heads
<1>10. l \in Slots => (next[l] = Null <=> s = <<>>)
  <2>1. s = <<>> => next[l] = End(l)
    BY <1>2
  <2> QED BY <1>8, <2>1, Addresses DEF End, Nodes
<1> QED BY <1>1, <1>2, <1>3, <1>4, <1>5, <1>6, <1>8, <1>9, <1>10 DEF s

\* No object is in two lists.
LEMMA ListsApart ==
    ASSUME ListsOK, NEW l \in Heads, NEW k \in Heads, NEW o, o \in In(l), o \in In(k)
    PROVE  l = k
<1>1. PICK i \in 1..Len(Content[l]) : Content[l][i] = o
  BY ContentType
<1>2. PICK j \in 1..Len(Content[k]) : Content[k][j] = o
  BY ContentType
<1> QED BY <1>1, <1>2 DEF ListsOK, Represents, Apart

LEMMA UnlistedIn ==
    ASSUME ListsOK, NEW o
    PROVE  Unlisted(Content, o) <=> \A l \in Heads : o \notin In(l)
BY ContentType DEF Unlisted

\* A step that leaves the pointers alone.
LEMMA StillStep ==
    ASSUME ListsOK, UNCHANGED lists
    PROVE  ListsOK' /\ Content' = Content /\ Holds /\ \A l \in Heads : ListOf(l)' = ListOf(l)
<1>1. Represents(next', tail', Content)
  BY DEF ListsOK, lists
<1>2. Content' = Content /\ ListsOK' /\ \A l \in Heads : ListOf(l)' = Content[l]
  <2> DEFINE c == Content
  <2> HIDE DEF c
  <2>1. Represents(next', tail', c)
    BY <1>1 DEF c
  <2>2. Content' = c /\ ListsOK' /\ \A l \in Heads : ListOf(l)' = c[l]
    BY <2>1, ContentAfter
  <2> QED BY <2>2 DEF c
<1>3. \A l \in Heads : ListOf(l)' = ListOf(l)
  BY <1>2 DEF Content
<1> QED BY <1>2, <1>3 DEF Holds, In

\* One list becomes s.
LEMMA OneChanged ==
    ASSUME ListsOK, NEW q \in Heads, NEW s,
           Represents(next', tail', [Content EXCEPT ![q] = s])
    PROVE  /\ ListsOK' /\ Content' = [Content EXCEPT ![q] = s]
           /\ ListOf(q)' = s /\ In(q)' = ToSet(s)
           /\ \A l \in Heads \ {q} : ListOf(l)' = ListOf(l) /\ In(l)' = In(l)
<1> DEFINE c == [Content EXCEPT ![q] = s]
<1>1. c[q] = s /\ \A l \in Heads \ {q} : c[l] = ListOf(l)
  BY DEF Content
<1> HIDE DEF c
<1>2. Represents(next', tail', c)
  BY DEF c
<1>3. Content' = c /\ ListsOK' /\ \A l \in Heads : ListOf(l)' = c[l]
  BY <1>2, ContentAfter
<1>4. ListOf(q)' = s /\ \A l \in Heads \ {q} : ListOf(l)' = ListOf(l)
  BY <1>1, <1>3
<1> QED BY <1>3, <1>4 DEF In, c

LEMMA InsertStep ==
    ASSUME ListsOK, NEW q \in Queues, NEW o \in Objects, Insert(q, o),
           \A l \in Heads : o \notin In(l)
    PROVE  /\ ListsOK' /\ Content' = [Content EXCEPT ![q] = Append(Content[q], o)]
           /\ Adds(q, o) /\ ListOf(q)' = Append(ListOf(q), o)
           /\ \A l \in Heads \ {q} : ListOf(l)' = ListOf(l)
<1>1. q \in Heads /\ Unlisted(Content, o) /\ Content[q] = ListOf(q)
      /\ ListOf(q) \in Seq(Objects)
  BY UnlistedIn, ContentType DEF Heads
<1>2. Represents(Inserted(next, tail, q, o), [tail EXCEPT ![q] = o],
                 [Content EXCEPT ![q] = Append(Content[q], o)])
  BY <1>1, InsertRepresents DEF ListsOK
<1>3. next' = Inserted(next, tail, q, o) /\ tail' = [tail EXCEPT ![q] = o]
  BY DEF Insert, Inserted
<1> DEFINE s == Append(Content[q], o)
<1>4. Represents(next', tail', [Content EXCEPT ![q] = s])
  BY <1>2, <1>3
<1> HIDE DEF s
<1>5. /\ ListsOK' /\ Content' = [Content EXCEPT ![q] = s]
      /\ ListOf(q)' = s /\ In(q)' = ToSet(s)
      /\ \A l \in Heads \ {q} : ListOf(l)' = ListOf(l) /\ In(l)' = In(l)
  BY <1>1, <1>4, OneChanged
<1>6. ToSet(s) = In(q) \union {o}
  BY <1>1, ElementsAppend DEF In, s
<1> QED BY <1>1, <1>5, <1>6 DEF Adds, s

LEMMA UnlinkStep ==
    ASSUME ListsOK, NEW q \in Queues, ~IsEmpty(q), Unlink(q)
    PROVE  /\ ListsOK' /\ Content' = [Content EXCEPT ![q] = Tail(Content[q])]
           /\ Content[q] # <<>>
           /\ Drops(q, next[q]) /\ next[q] \in Objects /\ ListOf(q)' = Tail(ListOf(q))
           /\ Len(ListOf(q)') = Len(ListOf(q)) - 1
           /\ \A l \in Heads \ {q} : ListOf(l)' = ListOf(l)
<1>1. /\ q \in Heads /\ Content[q] = ListOf(q) /\ ListOf(q) \in Seq(Objects)
      /\ ListOf(q) # <<>> /\ next[q] \in In(q) /\ next[q] \in Objects
      /\ next[q] = ListOf(q)[1]
      /\ \A i, j \in 1..Len(ListOf(q)) : ListOf(q)[i] = ListOf(q)[j] => i = j
  BY ContentType DEF Heads
<1>2. Represents([next EXCEPT ![q] = next[next[q]]],
                 IF next[q] = tail[q] THEN [tail EXCEPT ![q] = q] ELSE tail,
                 [Content EXCEPT ![q] = Tail(Content[q])])
  BY <1>1, UnlinkRepresents DEF ListsOK
<1>3. /\ next' = [next EXCEPT ![q] = next[next[q]]]
      /\ tail' = IF next[q] = tail[q] THEN [tail EXCEPT ![q] = q] ELSE tail
  BY DEF Unlink, TailAfterPop
<1> DEFINE s == Tail(Content[q])
<1>4. Represents(next', tail', [Content EXCEPT ![q] = s])
  BY <1>2, <1>3
<1> HIDE DEF s
<1>5. /\ ListsOK' /\ Content' = [Content EXCEPT ![q] = s]
      /\ ListOf(q)' = s /\ In(q)' = ToSet(s)
      /\ \A l \in Heads \ {q} : ListOf(l)' = ListOf(l) /\ In(l)' = In(l)
  BY <1>1, <1>4, OneChanged
<1>6. ToSet(s) = In(q) \ {next[q]} /\ Len(s) = Len(ListOf(q)) - 1
  <2> DEFINE u == ListOf(q)
  <2> HIDE DEF u
  <2>1. /\ u \in Seq(Objects) /\ u # <<>> /\ s = Tail(u) /\ next[q] = u[1]
        /\ \A i, j \in 1..Len(u) : u[i] = u[j] => i = j
    BY <1>1 DEF s, u
  <2>2. s = RemoveAt(u, 1) /\ 1 \in 1..Len(u)
    BY <2>1, TailIsRemoval
  <2>3. ToSet(s) = ToSet(u) \ {u[1]}
    BY <2>1, <2>2, ElementsRemoved
  <2>4. Len(s) = Len(u) - 1
    BY <2>1
  <2> QED BY <2>1, <2>3, <2>4 DEF In, u
<1> QED BY <1>1, <1>5, <1>6 DEF Drops, s

\* The front of a queue goes to its end.
LEMMA RotateStep ==
    ASSUME ListsOK, AllocFails
    PROVE  /\ ListsOK'
           /\ Content' = [Content EXCEPT ![FreeQ] = Append(Tail(Content[FreeQ]), Head(Content[FreeQ]))]
           /\ Content[FreeQ] # <<>> /\ Len(ListOf(FreeQ)') = Len(ListOf(FreeQ))
           /\ Holds
           /\ \A l \in Heads \ {FreeQ} : ListOf(l)' = ListOf(l)
<1> DEFINE q == FreeQ
           o == next[q]
           popped == [next EXCEPT ![q] = next[next[q]]]
           tpopped == IF next[q] = tail[q] THEN [tail EXCEPT ![q] = q] ELSE tail
           d == [Content EXCEPT ![q] = Tail(Content[q])]
           s == Append(Tail(Content[q]), Head(Content[q]))
<1>1. /\ q \in Queues /\ q \in Heads /\ Content[q] = ListOf(q) /\ ListOf(q) \in Seq(Objects)
      /\ ListOf(q) # <<>> /\ o \in In(q) /\ o \in Objects /\ o = ListOf(q)[1]
      /\ \A i, j \in 1..Len(ListOf(q)) : ListOf(q)[i] = ListOf(q)[j] => i = j
  <2>1. q \in Queues /\ q \in Heads /\ ~IsEmpty(q)
    BY Addresses DEF Heads, AllocFails
  <2> QED BY <2>1, ContentType
<1>2. Represents(popped, tpopped, d)
  BY <1>1, UnlinkRepresents DEF ListsOK
<1>3. d[q] = Tail(Content[q]) /\ \A l \in Heads \ {q} : d[l] = ListOf(l)
  BY <1>1 DEF Content
<1>4. /\ Tail(Content[q]) \in Seq(Objects) /\ o = Head(Content[q])
      /\ Len(Tail(Content[q])) = Len(ListOf(q)) - 1 /\ Len(ListOf(q)) \in Nat
      /\ ToSet(Tail(Content[q])) = In(q) \ {o}
  <2> DEFINE u == ListOf(q)
  <2> HIDE DEF u
  <2>1. /\ u \in Seq(Objects) /\ u # <<>> /\ o = u[1] /\ Content[q] = u
        /\ \A i, j \in 1..Len(u) : u[i] = u[j] => i = j
    BY <1>1 DEF u
  <2>2. Tail(u) = RemoveAt(u, 1) /\ 1 \in 1..Len(u)
    BY <2>1, TailIsRemoval
  <2>3. ToSet(Tail(u)) = ToSet(u) \ {u[1]}
    <3>1. ToSet(RemoveAt(u, 1)) = ToSet(u) \ {u[1]}
      BY <2>1, <2>2, ElementsRemoved
    <3> QED BY <2>2, <3>1
  <2>4. Tail(u) \in Seq(Objects) /\ Head(u) = u[1] /\ Len(Tail(u)) = Len(u) - 1 /\ Len(u) \in Nat
    BY <2>1
  <2> QED BY <2>1, <2>3, <2>4 DEF In, u
<1>5. Unlisted(d, o)
  <2> HIDE DEF d, o
  <2> SUFFICES ASSUME NEW l \in Heads, NEW i \in 1..Len(d[l]), d[l][i] = o PROVE FALSE
    BY DEF Unlisted
  <2>1. CASE l = q
    <3> DEFINE v == Tail(Content[q])
    <3> HIDE DEF v
    <3>0. v \in Seq(Objects) /\ d[l] = v
      BY <1>3, <1>4, <2>1 DEF v
    <3>1. DOMAIN v = 1..Len(v)
      BY <3>0
    <3>2. o \in ToSet(v)
      BY <3>0, <3>1 DEF ToSet
    <3> QED BY <1>4, <3>2 DEF v
  <2>2. CASE l # q
    <3>1. o \in In(l)
      BY <1>3, <2>2, ContentType
    <3> QED BY <1>1, <2>2, <3>1, ListsApart
  <2> QED BY <2>1, <2>2
<1>6. Represents(Inserted(popped, tpopped, q, o), [tpopped EXCEPT ![q] = o],
                 [d EXCEPT ![q] = Append(d[q], o)])
  <2> HIDE DEF d, popped, tpopped, o
  <2> QED BY <1>1, <1>2, <1>5, InsertRepresents
<1>7. next' = Inserted(popped, tpopped, q, o)
  BY DEF AllocFails, Inserted, TailAfterPop
<1>8. tail' = [tpopped EXCEPT ![q] = o]
  <2>1. tail' = [tail EXCEPT ![q] = o]
    BY DEF AllocFails
  <2>2. tail \in [Queues -> Objects \union Queues]
    BY DEF ListsOK, Represents
  <2> QED BY <1>1, <2>1, <2>2
<1>9. [d EXCEPT ![q] = Append(d[q], o)] = [Content EXCEPT ![q] = s]
  <2>1. Append(d[q], o) = s
    BY <1>3, <1>4
  <2> HIDE DEF s
  <2>2. Content \in [Heads -> Seq(Objects)]
    BY DEF ListsOK, Represents
  <2> QED BY <1>1, <2>1, <2>2
<1>10. Represents(next', tail', [Content EXCEPT ![q] = s])
  BY <1>6, <1>7, <1>8, <1>9
<1>11. ToSet(s) = In(q) /\ Len(s) = Len(ListOf(q))
  <2> DEFINE v == Tail(Content[q])
  <2>0. s = Append(v, o)
    BY <1>4
  <2> HIDE DEF v, o, s
  <2>1. s = Append(v, o) /\ v \in Seq(Objects) /\ ToSet(v) = In(q) \ {o}
        /\ Len(v) = Len(ListOf(q)) - 1 /\ Len(ListOf(q)) \in Nat
    BY <1>4, <2>0 DEF v
  <2>2. ToSet(s) = ToSet(v) \union {o} /\ Len(s) = Len(v) + 1
    BY <1>1, <2>1, ElementsAppend
  <2> QED BY <1>1, <2>1, <2>2
<1> HIDE DEF s
<1>12. /\ ListsOK' /\ Content' = [Content EXCEPT ![q] = s]
       /\ ListOf(q)' = s /\ In(q)' = ToSet(s)
       /\ \A l \in Heads \ {q} : ListOf(l)' = ListOf(l) /\ In(l)' = In(l)
  BY <1>1, <1>10, OneChanged
<1> QED BY <1>1, <1>11, <1>12 DEF Holds, s

\* Everything that is sent goes to the end of what was flushed before.
LEMMA JoinStep ==
    ASSUME ListsOK, InsertQueue(RxQ, TxQ)
    PROVE  /\ ListsOK'
           /\ ListOf(RxQ)' = ListOf(RxQ) \o ListOf(TxQ) /\ ListOf(TxQ)' = <<>>
           /\ \A l \in Heads \ {RxQ, TxQ} : ListOf(l)' = ListOf(l)
           /\ In(RxQ)' = In(RxQ) \union In(TxQ) /\ In(TxQ)' = {}
           /\ \A l \in Heads \ {RxQ, TxQ} : In(l)' = In(l)
<1>1. /\ RxQ \in Queues /\ TxQ \in Queues /\ RxQ # TxQ /\ RxQ \in Heads /\ TxQ \in Heads
      /\ Content[RxQ] = ListOf(RxQ) /\ ListOf(RxQ) \in Seq(Objects)
      /\ Content[TxQ] = ListOf(TxQ) /\ ListOf(TxQ) \in Seq(Objects)
      /\ IsEmpty(TxQ) <=> ListOf(TxQ) = <<>>
  BY Addresses, ContentType DEF Heads
<1>2. CASE IsEmpty(TxQ)
  <2>1. UNCHANGED lists /\ ListOf(TxQ) = <<>>
    BY <1>1, <1>2 DEF InsertQueue
  <2>2. ListsOK' /\ Holds /\ \A l \in Heads : ListOf(l)' = ListOf(l)
    BY <2>1, StillStep
  <2>3. ListOf(RxQ) = ListOf(RxQ) \o ListOf(TxQ)
    <3> DEFINE u == ListOf(RxQ)
    <3> HIDE DEF u
    <3>1. u \in Seq(Objects)
      BY <1>1 DEF u
    <3>2. u = u \o <<>>
      BY <3>1
    <3> QED BY <2>1, <3>2 DEF u
  <2>4. In(TxQ) = {}
    BY <2>1 DEF In, ToSet
  <2> QED BY <1>1, <2>1, <2>2, <2>3, <2>4 DEF Holds
<1>3. CASE ~IsEmpty(TxQ)
  <2> DEFINE d == [Content EXCEPT ![RxQ] = Content[RxQ] \o Content[TxQ], ![TxQ] = <<>>]
  <2>1. Represents(Joined(next, tail, RxQ, TxQ),
                   [tail EXCEPT ![RxQ] = tail[TxQ], ![TxQ] = TxQ], d)
    BY <1>1, <1>3, JoinRepresents DEF ListsOK
  <2>2. /\ next' = Joined(next, tail, RxQ, TxQ)
        /\ tail' = [tail EXCEPT ![RxQ] = tail[TxQ], ![TxQ] = TxQ]
    BY <1>3 DEF InsertQueue, Joined
  <2>3. /\ d[RxQ] = ListOf(RxQ) \o ListOf(TxQ) /\ d[TxQ] = <<>>
        /\ \A l \in Heads \ {RxQ, TxQ} : d[l] = ListOf(l)
    BY <1>1 DEF Content
  <2>4. Represents(next', tail', d)
    BY <2>1, <2>2
  <2> HIDE DEF d
  <2>5. ListsOK' /\ \A l \in Heads : ListOf(l)' = d[l]
    BY <2>4, ContentAfter
  <2>6. /\ ListOf(RxQ)' = ListOf(RxQ) \o ListOf(TxQ) /\ ListOf(TxQ)' = <<>>
        /\ \A l \in Heads \ {RxQ, TxQ} : ListOf(l)' = ListOf(l)
    BY <1>1, <2>3, <2>5
  <2>7. ToSet(ListOf(RxQ) \o ListOf(TxQ)) = In(RxQ) \union In(TxQ)
    <3> DEFINE u == ListOf(RxQ)
               v == ListOf(TxQ)
    <3> HIDE DEF u, v
    <3>1. u \in Seq(Objects) /\ v \in Seq(Objects)
      BY <1>1 DEF u, v
    <3>2. ToSet(u \o v) = ToSet(u) \union ToSet(v)
      BY <3>1, ElementsConcat
    <3> QED BY <3>2 DEF u, v, In
  <2>8. ToSet(<<>>) = {}
    BY DEF ToSet
  <2> QED BY <2>5, <2>6, <2>7, <2>8 DEF In
<1> QED BY <1>2, <1>3

\* An object becomes the first of a chain.
LEMMA ChainStep ==
    ASSUME ListsOK, NEW h \in Slots, NEW o \in Objects, \A l \in Heads : o \notin In(l),
           next' = ChainFirst(o, h), tail' = tail
    PROVE  /\ ListsOK' /\ Adds(h, o) /\ ListOf(h)' = <<o>> \o ListOf(h)
           /\ \A l \in Heads \ {h} : ListOf(l)' = ListOf(l)
<1>1. h \in Heads /\ Unlisted(Content, o) /\ Content[h] = ListOf(h)
      /\ ListOf(h) \in Seq(Objects)
  BY UnlistedIn, ContentType DEF Heads
<1> DEFINE s == <<o>> \o Content[h]
<1>2. Represents(next', tail', [Content EXCEPT ![h] = s])
  BY <1>1, ChainFirstRepresents DEF ListsOK, ChainFirst
<1>3. ToSet(s) = In(h) \union {o}
  <2> DEFINE u == ListOf(h)
             v == <<o>>
  <2>1. u \in Seq(Objects) /\ v \in Seq(Objects)
    BY <1>1
  <2>2. ToSet(v) = {o}
    BY DEF ToSet
  <2>3. s = v \o u
    BY <1>1
  <2> HIDE DEF u, v, s
  <2>4. ToSet(v \o u) = ToSet(v) \union ToSet(u)
    BY <2>1, ElementsConcat
  <2> QED BY <2>2, <2>3, <2>4 DEF In, u
<1> HIDE DEF s
<1>4. /\ ListsOK'
      /\ ListOf(h)' = s /\ In(h)' = ToSet(s)
      /\ \A l \in Heads \ {h} : ListOf(l)' = ListOf(l) /\ In(l)' = In(l)
  BY <1>1, <1>2, OneChanged
<1> QED BY <1>1, <1>3, <1>4 DEF Adds, s

\* An element leaves a chain.
LEMMA LeaveStep ==
    ASSUME ListsOK, NEW h \in Slots, NEW i \in 1..Len(ListOf(h)),
           next' = [next EXCEPT ![NodeAt(h, ListOf(h), i - 1)] = next[ListOf(h)[i]]],
           tail' = tail
    PROVE  /\ ListsOK' /\ Drops(h, ListOf(h)[i]) /\ ListOf(h)' = RemoveAt(ListOf(h), i)
           /\ \A l \in Heads \ {h} : ListOf(l)' = ListOf(l)
<1>1. h \in Heads /\ Content[h] = ListOf(h) /\ ListOf(h) \in Seq(Objects)
      /\ \A j, k \in 1..Len(ListOf(h)) : ListOf(h)[j] = ListOf(h)[k] => j = k
  BY ContentType DEF Heads
<1> DEFINE u == ListOf(h)
           s == RemoveAt(u, i)
<1>2. Represents(next', tail', [Content EXCEPT ![h] = s])
  BY <1>1, RemoveRepresents DEF ListsOK
<1>3. ToSet(s) = ToSet(u) \ {u[i]} /\ u[i] \in ToSet(u)
  <2> HIDE DEF u
  <2>1. u \in Seq(Objects) /\ \A j, k \in 1..Len(u) : u[j] = u[k] => j = k
    BY <1>1 DEF u
  <2>2. i \in 1..Len(u)
    BY DEF u
  <2> QED BY <2>1, <2>2, ElementsRemoved
<1> HIDE DEF s
<1>4. /\ ListsOK'
      /\ ListOf(h)' = s /\ In(h)' = ToSet(s)
      /\ \A l \in Heads \ {h} : ListOf(l)' = ListOf(l) /\ In(l)' = In(l)
  BY <1>1, <1>2, OneChanged
<1> QED BY <1>3, <1>4 DEF Drops, s, In

\* The slot of an id is one of the table.
LEMMA HeadOfType ==
    ASSUME NEW id \in Nat
    PROVE  HeadOf(id) \in Slots
<1>1. id % NumSlots \in 0..NumSlots - 1
  BY StorageAssumption
<1> QED BY <1>1 DEF HeadOf, Slots

\* l_srvctabledfind, and the pointer that leads to what it finds.
LEMMA FindIs ==
    ASSUME ListsOK, NEW id \in Nat
    PROVE  LET h == HeadOf(id)
               o == Find(id)
           IN  /\ h \in Slots
               /\ o = Null => \A p \in In(h) : svid[p] # id
               /\ o # Null =>
                    \E i \in 1..Len(ListOf(h)) :
                      /\ o = ListOf(h)[i] /\ svid[o] = id
                      /\ Before(h, o) = NodeAt(h, ListOf(h), i - 1)
<1> DEFINE h == HeadOf(id)
           c == ListOf(h)
           hits == {i \in DOMAIN c : svid[c[i]] = id}
<1>1. h \in Slots /\ h \in Heads
  BY HeadOfType DEF Heads
<1>2. /\ ChainOf(h) = c /\ c \in Seq(Objects) /\ In(h) = {c[i] : i \in 1..Len(c)}
      /\ \A i, j \in 1..Len(c) : c[i] = c[j] => i = j
  BY <1>1, ContentType
<1>3. Find(id) = IF hits = {} THEN Null ELSE c[Min(hits)]
  BY <1>2 DEF Find
<1> HIDE DEF c
<1>4. DOMAIN c = 1..Len(c) /\ Len(c) \in Nat /\ \A i \in 1..Len(c) : c[i] \in Objects
  BY <1>2
<1>5. CASE hits = {}
  <2>1. \A i \in 1..Len(c) : svid[c[i]] # id
    BY <1>4, <1>5
  <2> QED BY <1>1, <1>2, <1>3, <1>5, <2>1 DEF c
<1>6. CASE hits # {}
  <2> DEFINE i == Min(hits)
  <2>1. i \in hits
    <3>1. hits \in SUBSET Nat
      BY <1>4
    <3> HIDE DEF hits
    <3> QED BY <1>6, <3>1, MinOf
  <2>2. i \in 1..Len(c) /\ svid[c[i]] = id /\ Find(id) = c[i]
    BY <1>3, <1>4, <1>6, <2>1
  <2> HIDE DEF i
  <2>3. Find(id) # Null
    BY <1>4, <2>2, Addresses DEF Nodes
  <2>4. Before(h, Find(id)) = NodeAt(h, c, i - 1)
    <3>1. (CHOOSE j \in DOMAIN ChainOf(h) : ChainOf(h)[j] = c[i]) = i
      BY <1>2, <1>4, <2>2
    <3>2. Before(h, c[i]) = IF i = 1 THEN h ELSE c[i - 1]
      <4> DEFINE k == CHOOSE j \in DOMAIN ChainOf(h) : ChainOf(h)[j] = c[i]
      <4>1. Before(h, c[i]) = IF k = 1 THEN h ELSE ChainOf(h)[k - 1]
        BY DEF Before
      <4>2. k = i
        BY <3>1
      <4> HIDE DEF k
      <4> QED BY <1>2, <4>1, <4>2
    <3>3. i = 1 <=> i - 1 = 0
      BY <1>4, <2>2
    <3> QED BY <2>2, <3>2, <3>3 DEF NodeAt
  <2> QED BY <1>1, <2>2, <2>3, <2>4 DEF c
<1> QED BY <1>5, <1>6

-----------------------------------------------------------------------------
(* Every step is one of Lists, and keeps the blocks where they belong.     *)

AbstractMove == [AbstractLists!Next]_Content

\* The types that do not depend on the lists.
Typed ==
    /\ bsize \in [Objects -> Sizes \union {0}] /\ held \subseteq Objects
    /\ frmem \in Int /\ resized \in BOOLEAN
    /\ owner \in [Objects -> 0..NumWorkers]
    /\ doing \in {"idle", "trim", "sweep", "swept"}
    /\ hint \in 0..NumSlots
    /\ ids \in 0..MaxIds /\ born \in [Objects -> 0..MaxIds]

\* A block that is allocated is held or is in one list; size counts the free
\* ones.
Blocks ==
    /\ ListsOK
    /\ size = Len(ListOf(FreeQ))
    /\ \A o \in Objects : bsize[o] # 0 <=> o \in held \/ \E l \in Heads : o \in In(l)
    /\ \A o \in held : \A l \in Heads : o \notin In(l)

\* A service in the table is in the slot of its id, and has a thread.
Rows ==
    \A h \in Slots : \A o \in In(h) :
      svid[o] # 0 /\ HeadOf(svid[o]) = h /\ owner[o] \in Workers

Kept == IdsInv /\ Typed /\ Blocks /\ Rows

\* One list changes as Lists allows.
LEMMA OneMoves ==
    ASSUME ListsOK, NEW q \in Heads, \A l \in Heads \ {q} : ListOf(l)' = ListOf(l),
           q \in Queues => AbstractLists!QueueChanges(Content, q, ListOf(q)'),
           q \in Slots => AbstractLists!ChainChanges(Content, q, ListOf(q)')
    PROVE  AbstractMove
<1>1. /\ Content = [l \in Queues \union Slots |-> ListOf(l)]
      /\ Content' = [l \in Queues \union Slots |-> ListOf(l)']
      /\ q \in Queues \union Slots /\ Queues \intersect Slots = {}
  BY Addresses DEF Content, Heads
<1>2. \A l \in Heads : Content[l] = ListOf(l) /\ Content'[l] = ListOf(l)'
  BY <1>1 DEF Heads
<1> DEFINE changed == {l \in DOMAIN Content : Content[l] # Content'[l]}
<1>3. DOMAIN Content = Heads
  BY <1>1 DEF Heads
<1>4. changed \subseteq {q}
  BY <1>2, <1>3
<1>5. CASE q \notin changed
  <2>1. \A l \in Heads : ListOf(l)' = ListOf(l)
    BY <1>2, <1>3, <1>5
  <2>2. Content' = Content
    BY <1>1, <2>1 DEF Heads
  <2> QED BY <2>2 DEF AbstractMove
<1>6. CASE q \in changed
  <2>1. changed = {q}
    BY <1>4, <1>6
  <2>2. IF q \in Queues THEN AbstractLists!QueueChanges(Content, q, Content'[q])
                        ELSE AbstractLists!ChainChanges(Content, q, Content'[q])
    BY <1>1, <1>2
  <2> HIDE DEF changed
  <2>3. \E l \in changed :
          /\ changed = {l}
          /\ IF l \in Queues THEN AbstractLists!QueueChanges(Content, l, Content'[l])
                             ELSE AbstractLists!ChainChanges(Content, l, Content'[l])
    BY <1>6, <2>1, <2>2
  <2>4. AbstractLists!Step(Content, Content')
    BY <2>3 DEF AbstractLists!Step, changed
  <2> QED BY <1>1, <2>4 DEF AbstractMove, AbstractLists!Next
<1> QED BY <1>5, <1>6

\* A queue goes to the end of another.
LEMMA TwoMove ==
    ASSUME ListsOK, InsertQueue(RxQ, TxQ)
    PROVE  AbstractMove
<1>1. /\ ListOf(RxQ)' = ListOf(RxQ) \o ListOf(TxQ) /\ ListOf(TxQ)' = <<>>
      /\ \A l \in Heads \ {RxQ, TxQ} : ListOf(l)' = ListOf(l)
  BY JoinStep
<1>2. RxQ \in Queues /\ TxQ \in Queues /\ RxQ # TxQ /\ RxQ \in Heads /\ TxQ \in Heads
  BY Addresses DEF Heads
<1>3. /\ Content = [l \in Queues \union Slots |-> ListOf(l)]
      /\ Content' = [l \in Queues \union Slots |-> ListOf(l)']
      /\ DOMAIN Content = Heads
      /\ \A l \in Heads : Content[l] = ListOf(l) /\ Content'[l] = ListOf(l)'
  BY DEF Content, Heads
<1> DEFINE changed == {l \in DOMAIN Content : Content[l] # Content'[l]}
           u == ListOf(RxQ)
           v == ListOf(TxQ)
<1>4. u \in Seq(Objects) /\ v \in Seq(Objects)
  BY <1>2, ContentType
<1>5. CASE v = <<>>
  <2>1. u = u \o v
    <3> HIDE DEF u, v
    <3> QED BY <1>4, <1>5
  <2>2. \A l \in Heads : ListOf(l)' = ListOf(l)
    BY <1>1, <1>5, <2>1
  <2>3. Content' = Content
    BY <1>3, <2>2 DEF Heads
  <2> QED BY <2>3 DEF AbstractMove
<1>6. CASE v # <<>>
  <2>1. u # u \o v
    <3> HIDE DEF u, v
    <3>1. Len(u \o v) = Len(u) + Len(v) /\ Len(u) \in Nat /\ Len(v) \in Nat
      BY <1>4
    <3>2. Len(v) # 0
      BY <1>4, <1>6
    <3> QED BY <3>1, <3>2
  <2>2. changed = {RxQ, TxQ}
    BY <1>1, <1>2, <1>3, <1>6, <2>1
  <2> HIDE DEF changed
  <2>3. /\ RxQ \in changed \intersect Queues /\ TxQ \in changed \intersect Queues
        /\ Content'[RxQ] = Content[RxQ] \o Content[TxQ] /\ Content'[TxQ] = <<>>
    BY <1>1, <1>2, <1>3, <2>2
  <2>4. \E q, r \in changed \intersect Queues :
          /\ changed = {q, r} /\ q # r
          /\ Content'[q] = Content[q] \o Content[r] /\ Content'[r] = <<>>
    BY <1>2, <2>2, <2>3
  <2>5. AbstractLists!Step(Content, Content')
    BY <2>4 DEF AbstractLists!Step, changed
  <2> QED BY <1>3, <2>5 DEF AbstractMove, AbstractLists!Next
<1> QED BY <1>5, <1>6

\* What is in no list is so for Lists.
LEMMA UnlistedThere ==
    ASSUME ListsOK, NEW o \in Objects, \A l \in Heads : o \notin In(l)
    PROVE  o \in AbstractLists!Unlisted(Content)
<1>1. DOMAIN Content = Heads
  BY DEF Content
<1>2. \A l \in Heads : AbstractLists!ToSet(Content[l]) = In(l)
  BY ContentType DEF AbstractLists!ToSet, ToSet, In
<1> QED BY <1>1, <1>2 DEF AbstractLists!Unlisted

\* The steps of a queue and of a chain are steps of Lists.
LEMMA InsertMoves ==
    ASSUME ListsOK, NEW q \in Queues, NEW o \in Objects, Insert(q, o),
           \A l \in Heads : o \notin In(l)
    PROVE  AbstractMove
<1>1. /\ ListOf(q)' = Append(ListOf(q), o)
      /\ \A l \in Heads \ {q} : ListOf(l)' = ListOf(l)
  BY InsertStep
<1>2. q \in Heads /\ q \notin Slots
  BY Addresses DEF Heads
<1>3. AbstractLists!QueueChanges(Content, q, ListOf(q)')
  BY <1>1, <1>2, UnlistedThere, ContentType DEF AbstractLists!QueueChanges
<1> QED BY <1>1, <1>2, <1>3, OneMoves

LEMMA UnlinkMoves ==
    ASSUME ListsOK, NEW q \in Queues, ~IsEmpty(q), Unlink(q)
    PROVE  AbstractMove
<1>1. /\ ListOf(q)' = Tail(ListOf(q)) /\ Content[q] # <<>>
      /\ \A l \in Heads \ {q} : ListOf(l)' = ListOf(l)
  BY UnlinkStep
<1>2. q \in Heads /\ q \notin Slots
  BY Addresses DEF Heads
<1>3. AbstractLists!QueueChanges(Content, q, ListOf(q)')
  BY <1>1, <1>2, ContentType DEF AbstractLists!QueueChanges
<1> QED BY <1>1, <1>2, <1>3, OneMoves

LEMMA RotateMoves ==
    ASSUME ListsOK, AllocFails
    PROVE  AbstractMove
<1>1. /\ Content' = [Content EXCEPT ![FreeQ] = Append(Tail(Content[FreeQ]), Head(Content[FreeQ]))]
      /\ Content[FreeQ] # <<>> /\ \A l \in Heads \ {FreeQ} : ListOf(l)' = ListOf(l)
  BY RotateStep
<1>2. FreeQ \in Queues /\ FreeQ \in Heads /\ FreeQ \notin Slots
  BY Addresses DEF Heads
<1>3. Content'[FreeQ] = ListOf(FreeQ)' /\ DOMAIN Content = Heads
  BY <1>2 DEF Content
<1>4. ListOf(FreeQ)' = Append(Tail(Content[FreeQ]), Head(Content[FreeQ]))
  BY <1>1, <1>2, <1>3
<1>5. AbstractLists!QueueChanges(Content, FreeQ, ListOf(FreeQ)')
  BY <1>1, <1>4 DEF AbstractLists!QueueChanges
<1> QED BY <1>1, <1>2, <1>5, OneMoves

LEMMA ChainMoves ==
    ASSUME ListsOK, NEW h \in Slots, NEW o \in Objects, \A l \in Heads : o \notin In(l),
           next' = ChainFirst(o, h), tail' = tail
    PROVE  AbstractMove
<1>1. /\ ListOf(h)' = <<o>> \o ListOf(h)
      /\ \A l \in Heads \ {h} : ListOf(l)' = ListOf(l)
  BY ChainStep
<1>2. h \in Heads /\ h \notin Queues
  BY Addresses DEF Heads
<1>3. Content[h] = ListOf(h)
  BY <1>2, ContentType
<1>4. AbstractLists!ChainChanges(Content, h, ListOf(h)')
  BY <1>1, <1>3, UnlistedThere DEF AbstractLists!ChainChanges
<1> QED BY <1>1, <1>2, <1>4, OneMoves

LEMMA LeaveMoves ==
    ASSUME ListsOK, NEW h \in Slots, NEW i \in 1..Len(ListOf(h)),
           next' = [next EXCEPT ![NodeAt(h, ListOf(h), i - 1)] = next[ListOf(h)[i]]],
           tail' = tail
    PROVE  AbstractMove
<1>1. /\ ListOf(h)' = RemoveAt(ListOf(h), i)
      /\ \A l \in Heads \ {h} : ListOf(l)' = ListOf(l)
  BY LeaveStep
<1>2. h \in Heads /\ h \notin Queues
  BY Addresses DEF Heads
<1>3. Content[h] = ListOf(h) /\ i \in DOMAIN ListOf(h)
  BY <1>2, ContentType
<1>4. AbstractLists!ChainChanges(Content, h, ListOf(h)')
  BY <1>1, <1>3 DEF AbstractLists!ChainChanges, AbstractLists!RemoveAt, RemoveAt
<1> QED BY <1>1, <1>2, <1>4, OneMoves

LEMMA StillMoves ==
    ASSUME ListsOK, UNCHANGED lists
    PROVE  AbstractMove
BY StillStep DEF AbstractMove

\* The table loses at most a service, and the others keep their id and thread.
LEMMA RowsStay ==
    ASSUME Rows, \A h \in Slots : In(h)' \subseteq In(h),
           \A h \in Slots : \A o \in In(h) : svid'[o] = svid[o] /\ owner'[o] = owner[o]
    PROVE  Rows'
<1> SUFFICES ASSUME NEW h \in Slots, NEW o \in In(h)'
             PROVE  svid'[o] # 0 /\ HeadOf(svid'[o]) = h /\ owner'[o] \in Workers
  BY DEF Rows, HeadOf
<1>1. o \in In(h) /\ svid'[o] = svid[o] /\ owner'[o] = owner[o]
  OBVIOUS
<1> QED BY <1>1 DEF Rows

\* The step of a block in no list, or of the pointers alone.
LEMMA SlotsAre == /\ \A h \in Slots : h \in Heads /\ h \notin Queues
                  /\ FreeQ \in Heads /\ TxQ \in Heads /\ RxQ \in Heads
BY Addresses DEF Heads

LEMMA AllocNewKept ==
    ASSUME Kept, NEW o \in Objects, NEW n \in Sizes, AllocNew(o, n)
    PROVE  Blocks' /\ Rows' /\ AbstractMove /\ Holds
<1>1. ListsOK /\ UNCHANGED lists /\ UNCHANGED <<size, svid, owner>>
      /\ bsize[o] = 0 /\ bsize' = [bsize EXCEPT ![o] = n] /\ held' = held \union {o}
  BY DEF Kept, Blocks, AllocNew, table
<1>2. ListsOK' /\ Holds /\ \A l \in Heads : ListOf(l)' = ListOf(l)
  BY <1>1, StillStep
<1>3. n # 0 /\ bsize'[o] = n /\ \A p \in Objects \ {o} : bsize'[p] = bsize[p]
  BY <1>1, StorageAssumption DEF Kept, Typed
<1>4. \A l \in Heads : In(l)' = In(l) /\ o \notin In(l)
  BY <1>1, <1>2 DEF Kept, Blocks, Holds
<1>5. /\ \A p \in Objects : bsize'[p] # 0 <=> p \in held' \/ \E l \in Heads : p \in In(l)'
      /\ \A p \in held' : \A l \in Heads : p \notin In(l)'
  BY <1>1, <1>3, <1>4 DEF Kept, Blocks
<1>6. size' = Len(ListOf(FreeQ)')
  BY <1>1, <1>2, SlotsAre DEF Kept, Blocks
<1>7. Rows'
  BY <1>1, <1>4, RowsStay, SlotsAre DEF Kept
<1> QED BY <1>1, <1>2, <1>5, <1>6, <1>7, StillMoves DEF Blocks

LEMMA AllocFreeKept ==
    ASSUME Kept, NEW n \in Sizes, AllocFree(n)
    PROVE  Blocks' /\ Rows' /\ AbstractMove /\ Drops(FreeQ, next[FreeQ])
<1> DEFINE o == next[FreeQ]
<1>1. /\ ListsOK /\ ~IsEmpty(FreeQ) /\ Unlink(FreeQ) /\ FreeQ \in Queues
      /\ UNCHANGED <<svid, owner>> /\ size' = size - 1
      /\ bsize' = [bsize EXCEPT ![o] = n] /\ held' = held \union {o}
  BY Addresses DEF Kept, Blocks, AllocFree, table, CountedDown
<1>2. /\ ListsOK' /\ Drops(FreeQ, o) /\ o \in Objects
      /\ Len(ListOf(FreeQ)') = Len(ListOf(FreeQ)) - 1
  BY <1>1, UnlinkStep
<1>3. AbstractMove
  BY <1>1, UnlinkMoves
<1> HIDE DEF o
<1>4. n # 0 /\ bsize'[o] = n /\ \A p \in Objects \ {o} : bsize'[p] = bsize[p]
  BY <1>1, <1>2, StorageAssumption DEF Kept, Typed
<1>5. \A l \in Heads : In(l)' = In(l) \ {o}
  BY <1>1, <1>2, ListsApart, SlotsAre DEF Drops
<1>6. bsize[o] # 0 /\ o \in In(FreeQ)
  BY <1>2, SlotsAre DEF Kept, Blocks, Drops
<1>7. /\ \A p \in Objects : bsize'[p] # 0 <=> p \in held' \/ \E l \in Heads : p \in In(l)'
      /\ \A p \in held' : \A l \in Heads : p \notin In(l)'
  BY <1>1, <1>4, <1>5 DEF Kept, Blocks
<1>8. size' = Len(ListOf(FreeQ)')
  BY <1>1, <1>2 DEF Kept, Blocks
<1>9. Rows'
  <2>1. \A h \in Slots : In(h)' \subseteq In(h)
    BY <1>5, SlotsAre
  <2> QED BY <1>1, <2>1, RowsStay DEF Kept
<1> QED BY <1>2, <1>3, <1>7, <1>8, <1>9 DEF Blocks, o

LEMMA AllocFailsKept ==
    ASSUME Kept, AllocFails
    PROVE  Blocks' /\ Rows' /\ AbstractMove /\ Holds
<1>1. ListsOK /\ UNCHANGED <<bsize, held, size, svid, owner>>
  BY DEF Kept, Blocks, AllocFails, memory, table
<1>2. ListsOK' /\ Holds /\ Len(ListOf(FreeQ)') = Len(ListOf(FreeQ))
  BY <1>1, RotateStep
<1>3. /\ \A p \in Objects : bsize'[p] # 0 <=> p \in held' \/ \E l \in Heads : p \in In(l)'
      /\ \A p \in held' : \A l \in Heads : p \notin In(l)'
  BY <1>1, <1>2 DEF Kept, Blocks, Holds
<1>4. Rows'
  <2>1. \A h \in Slots : In(h)' \subseteq In(h)
    BY <1>2, SlotsAre DEF Holds
  <2> QED BY <1>1, <2>1, RowsStay DEF Kept
<1>5. size' = Len(ListOf(FreeQ)')
  BY <1>1, <1>2 DEF Kept, Blocks
<1> QED BY <1>1, <1>2, <1>3, <1>4, <1>5, RotateMoves DEF Blocks

\* What was held goes to the end of a queue.
LEMMA QueuedKept ==
    ASSUME Kept, NEW q \in Queues, NEW o \in held, Insert(q, o), bsize' = bsize,
           held' = held \ {o}, size' = IF q = FreeQ THEN size + 1 ELSE size,
           \A p \in Objects \ {o} : svid'[p] = svid[p] /\ owner'[p] = owner[p]
    PROVE  Blocks' /\ Rows' /\ AbstractMove /\ Adds(q, o)
<1>1. ListsOK /\ o \in Objects /\ q \in Heads /\ q \notin Slots
      /\ \A l \in Heads : o \notin In(l)
  BY Addresses DEF Kept, Blocks, Typed, Heads
<1>2. /\ ListsOK' /\ Adds(q, o) /\ ListOf(q)' = Append(ListOf(q), o)
      /\ \A l \in Heads \ {q} : ListOf(l)' = ListOf(l)
  BY <1>1, InsertStep
<1>3. AbstractMove
  BY <1>1, InsertMoves
<1>4. /\ \A p \in Objects : bsize'[p] # 0 <=> p \in held' \/ \E l \in Heads : p \in In(l)'
      /\ \A p \in held' : \A l \in Heads : p \notin In(l)'
  BY <1>1, <1>2 DEF Kept, Blocks, Adds
<1>5. size' = Len(ListOf(FreeQ)')
  <2>1. ListOf(q) \in Seq(Objects)
    BY <1>1, ContentType
  <2>2. Len(Append(ListOf(q), o)) = Len(ListOf(q)) + 1
    BY <1>1, <2>1, ElementsAppend
  <2> QED BY <1>2, <2>2, SlotsAre DEF Kept, Blocks
<1>6. Rows'
  <2>1. \A h \in Slots : In(h)' = In(h) /\ In(h) \subseteq Objects \ {o}
    BY <1>1, <1>2, SlotsAre, ContentType DEF Adds
  <2> QED BY <2>1, RowsStay DEF Kept
<1> QED BY <1>2, <1>3, <1>4, <1>5, <1>6 DEF Blocks

LEMMA FreeKept ==
    ASSUME Kept, NEW o \in Objects, Free(o)
    PROVE  Blocks' /\ Rows' /\ AbstractMove /\ Adds(FreeQ, o)
<1>1. \A p \in Objects \ {o} : svid'[p] = svid[p] /\ owner'[p] = owner[p]
  BY DEF Kept, Typed, IdsInv, IdsTyped, Free
<1> QED BY <1>1, Addresses, QueuedKept DEF Free

LEMMA SendKept ==
    ASSUME Kept, NEW o \in Objects, Send(o)
    PROVE  Blocks' /\ Rows' /\ AbstractMove /\ Adds(TxQ, o)
<1>1. UNCHANGED <<svid, owner>>
  BY DEF Send, table
<1> QED BY <1>1, Addresses, QueuedKept DEF Send

\* One turn of the loop gives the first free buffer back, or ends.
Returns ==
    /\ OverLimit(frmem) /\ ~IsEmpty(FreeQ)
    /\ bsize' = [bsize EXCEPT ![next[FreeQ]] = 0]
    /\ Drops(FreeQ, next[FreeQ]) /\ next[FreeQ] \in Objects
    /\ frmem' = frmem - bsize[next[FreeQ]]
    /\ doing' = doing

Ends ==
    /\ ~OverLimit(frmem) \/ In(FreeQ) = {}
    /\ Holds /\ UNCHANGED <<bsize, frmem>> /\ doing' = "idle"

LEMMA TrimKept ==
    ASSUME Kept, Trim
    PROVE  Blocks' /\ Rows' /\ AbstractMove /\ (Returns \/ Ends)
<1> DEFINE o == next[FreeQ]
<1>1. ListsOK /\ FreeQ \in Queues /\ UNCHANGED <<held, svid, owner>>
  BY Addresses DEF Kept, Blocks, Trim, table
<1>2. CASE OverLimit(frmem) /\ ~IsEmpty(FreeQ)
  <2>1. /\ Unlink(FreeQ) /\ size' = size - 1 /\ bsize' = [bsize EXCEPT ![o] = 0]
        /\ frmem' = frmem - bsize[o] /\ doing' = doing
    BY <1>2 DEF Trim
  <2>2. /\ ListsOK' /\ Drops(FreeQ, o) /\ o \in Objects
        /\ Len(ListOf(FreeQ)') = Len(ListOf(FreeQ)) - 1
    BY <1>1, <1>2, <2>1, UnlinkStep
  <2>3. AbstractMove
    BY <1>1, <1>2, <2>1, UnlinkMoves
  <2>4. Returns
    BY <1>2, <2>1, <2>2 DEF Returns
  <2> HIDE DEF o
  <2>5. bsize'[o] = 0 /\ \A p \in Objects \ {o} : bsize'[p] = bsize[p]
    BY <2>1, <2>2 DEF Kept, Typed
  <2>6. \A l \in Heads : In(l)' = In(l) \ {o}
    BY <1>1, <2>2, ListsApart, SlotsAre DEF Drops
  <2>7. o \notin held
    BY <2>2, SlotsAre DEF Kept, Blocks, Drops
  <2>8. /\ \A p \in Objects : bsize'[p] # 0 <=> p \in held' \/ \E l \in Heads : p \in In(l)'
        /\ \A p \in held' : \A l \in Heads : p \notin In(l)'
    BY <1>1, <2>5, <2>6, <2>7 DEF Kept, Blocks
  <2>9. size' = Len(ListOf(FreeQ)')
    BY <2>1, <2>2 DEF Kept, Blocks
  <2>10. Rows'
    <3>1. \A h \in Slots : In(h)' \subseteq In(h)
      BY <2>6, SlotsAre
    <3> QED BY <1>1, <3>1, RowsStay DEF Kept
  <2> QED BY <2>2, <2>3, <2>4, <2>8, <2>9, <2>10 DEF Blocks
<1>3. CASE ~(OverLimit(frmem) /\ ~IsEmpty(FreeQ))
  <2>1. UNCHANGED <<lists, bsize, size, frmem>> /\ doing' = "idle"
    BY <1>3 DEF Trim
  <2>2. ListsOK' /\ Holds /\ \A l \in Heads : ListOf(l)' = ListOf(l)
    BY <1>1, <2>1, StillStep
  <2>3. IsEmpty(FreeQ) => In(FreeQ) = {}
    <3>1. IsEmpty(FreeQ) => ListOf(FreeQ) = <<>>
      BY <1>1, SlotsAre, ContentType
    <3> QED BY <3>1 DEF In, ToSet
  <2>4. Ends
    BY <1>3, <2>1, <2>2, <2>3 DEF Ends
  <2>5. /\ \A p \in Objects : bsize'[p] # 0 <=> p \in held' \/ \E l \in Heads : p \in In(l)'
        /\ \A p \in held' : \A l \in Heads : p \notin In(l)'
    BY <1>1, <2>1, <2>2 DEF Kept, Blocks, Holds
  <2>6. size' = Len(ListOf(FreeQ)')
    BY <2>1, <2>2, SlotsAre DEF Kept, Blocks
  <2>7. Rows'
    <3>1. \A h \in Slots : In(h)' \subseteq In(h)
      BY <2>2, SlotsAre DEF Holds
    <3> QED BY <1>1, <3>1, RowsStay DEF Kept
  <2> QED BY <1>1, <2>1, <2>2, <2>4, <2>5, <2>6, <2>7, StillMoves DEF Blocks
<1> QED BY <1>2, <1>3

LEMMA FlushKept ==
    ASSUME Kept, Flush
    PROVE  Blocks' /\ Rows' /\ AbstractMove /\ In(FreeQ)' = In(FreeQ)
           /\ \A h \in Slots : In(h)' = In(h)
<1>1. ListsOK /\ InsertQueue(RxQ, TxQ) /\ UNCHANGED <<bsize, held, size, svid, owner>>
  BY DEF Kept, Blocks, Flush, memory, table
<1>2. /\ ListsOK'
      /\ \A l \in Heads \ {RxQ, TxQ} : ListOf(l)' = ListOf(l)
      /\ In(RxQ)' = In(RxQ) \union In(TxQ) /\ In(TxQ)' = {}
      /\ \A l \in Heads \ {RxQ, TxQ} : In(l)' = In(l)
  BY <1>1, JoinStep
<1>3. /\ RxQ \in Heads /\ TxQ \in Heads /\ FreeQ \in Heads \ {RxQ, TxQ} /\ RxQ # TxQ
      /\ \A h \in Slots : h \in Heads \ {RxQ, TxQ}
  BY SlotsAre, Addresses
<1>4. \A p : (\E l \in Heads : p \in In(l)') <=> (\E l \in Heads : p \in In(l))
  <2> SUFFICES ASSUME NEW p
               PROVE  (\E l \in Heads : p \in In(l)') <=> (\E l \in Heads : p \in In(l))
    OBVIOUS
  <2>1. ASSUME NEW l \in Heads, p \in In(l)' PROVE \E k \in Heads : p \in In(k)
    BY <1>2, <1>3, <2>1
  <2>2. ASSUME NEW l \in Heads, p \in In(l) PROVE \E k \in Heads : p \in In(k)'
    BY <1>2, <1>3, <2>2
  <2> QED BY <2>1, <2>2
<1>5. /\ \A p \in Objects : bsize'[p] # 0 <=> p \in held' \/ \E l \in Heads : p \in In(l)'
      /\ \A p \in held' : \A l \in Heads : p \notin In(l)'
  BY <1>1, <1>4 DEF Kept, Blocks
<1>6. size' = Len(ListOf(FreeQ)')
  BY <1>1, <1>2, <1>3 DEF Kept, Blocks
<1>7. Rows'
  <2>1. \A h \in Slots : In(h)' \subseteq In(h)
    BY <1>2, <1>3
  <2> QED BY <1>1, <2>1, RowsStay DEF Kept
<1> QED BY <1>1, <1>2, <1>3, <1>5, <1>6, <1>7, TwoMove DEF Blocks

\* What leaves a list is held.
LEMMA TakenKept ==
    ASSUME Kept, NEW l \in Heads, l # FreeQ, NEW o, Drops(l, o), ListsOK',
           ListOf(FreeQ)' = ListOf(FreeQ), held' = held \union {o},
           UNCHANGED <<bsize, size, svid, owner>>
    PROVE  Blocks' /\ Rows'
<1>1. \A k \in Heads : In(k)' = In(k) \ {o}
  BY ListsApart DEF Kept, Blocks, Drops
<1>2. o \in Objects
  BY ContentType DEF Kept, Blocks, Drops
<1>3. bsize[o] # 0
  BY <1>2 DEF Kept, Blocks, Drops
<1>4. /\ \A p \in Objects : bsize'[p] # 0 <=> p \in held' \/ \E k \in Heads : p \in In(k)'
      /\ \A p \in held' : \A k \in Heads : p \notin In(k)'
  BY <1>1, <1>3 DEF Kept, Blocks
<1>5. Rows'
  <2>1. \A h \in Slots : In(h)' \subseteq In(h)
    BY <1>1, SlotsAre
  <2> QED BY <2>1, RowsStay DEF Kept
<1> QED BY <1>4, <1>5 DEF Kept, Blocks

LEMMA ReceiveKept ==
    ASSUME Kept, Receive
    PROVE  Blocks' /\ Rows' /\ AbstractMove /\ Drops(RxQ, next[RxQ]) /\ next[RxQ] \in Objects
<1> DEFINE o == next[RxQ]
<1>1. /\ ListsOK /\ ~IsEmpty(RxQ) /\ Unlink(RxQ) /\ held' = held \union {o}
      /\ RxQ \in Queues /\ RxQ \in Heads /\ RxQ # FreeQ
      /\ UNCHANGED <<bsize, size, svid, owner>>
  BY Addresses, SlotsAre DEF Kept, Blocks, Receive, table
<1>2. /\ ListsOK' /\ Drops(RxQ, o) /\ o \in Objects
      /\ \A l \in Heads \ {RxQ} : ListOf(l)' = ListOf(l)
  BY <1>1, UnlinkStep
<1>3. AbstractMove
  BY <1>1, UnlinkMoves
<1>4. ListOf(FreeQ)' = ListOf(FreeQ)
  BY <1>1, <1>2, SlotsAre
<1> HIDE DEF o
<1>5. Blocks' /\ Rows'
  BY <1>1, <1>2, <1>4, TakenKept
<1> QED BY <1>2, <1>3, <1>5 DEF o

LEMMA NewServiceKept ==
    ASSUME Kept, NEW o \in Objects, NewService(o)
    PROVE  Blocks' /\ Rows' /\ AbstractMove /\ Holds
<1>1. /\ ListsOK /\ UNCHANGED lists /\ UNCHANGED <<bsize, held, size, owner>>
      /\ o \in held /\ \A p \in Objects \ {o} : svid'[p] = svid[p]
  BY DEF Kept, Blocks, NewService, memory, IdsInv, IdsTyped
<1>2. ListsOK' /\ Holds /\ \A l \in Heads : ListOf(l)' = ListOf(l)
  BY <1>1, StillStep
<1>3. /\ \A p \in Objects : bsize'[p] # 0 <=> p \in held' \/ \E l \in Heads : p \in In(l)'
      /\ \A p \in held' : \A l \in Heads : p \notin In(l)'
  BY <1>1, <1>2 DEF Kept, Blocks, Holds
<1>4. size' = Len(ListOf(FreeQ)')
  BY <1>1, <1>2, SlotsAre DEF Kept, Blocks
<1>5. Rows'
  <2>1. \A h \in Slots : In(h)' \subseteq In(h) /\ In(h) \subseteq Objects \ {o}
    BY <1>1, <1>2, SlotsAre, ContentType DEF Holds, Kept, Blocks
  <2> QED BY <1>1, <2>1, RowsStay DEF Kept
<1> QED BY <1>1, <1>2, <1>3, <1>4, <1>5, StillMoves DEF Blocks

LEMMA SweepStartKept ==
    ASSUME Kept, SweepStart
    PROVE  Blocks' /\ Rows' /\ AbstractMove /\ Holds
<1>1. ListsOK /\ UNCHANGED lists /\ UNCHANGED <<bsize, held, size, svid, owner>>
  BY DEF Kept, Blocks, SweepStart, memory, table
<1>2. ListsOK' /\ Holds /\ \A l \in Heads : ListOf(l)' = ListOf(l)
  BY <1>1, StillStep
<1>3. /\ \A p \in Objects : bsize'[p] # 0 <=> p \in held' \/ \E l \in Heads : p \in In(l)'
      /\ \A p \in held' : \A l \in Heads : p \notin In(l)'
  BY <1>1, <1>2 DEF Kept, Blocks, Holds
<1>4. size' = Len(ListOf(FreeQ)')
  BY <1>1, <1>2, SlotsAre DEF Kept, Blocks
<1>5. Rows'
  <2>1. \A h \in Slots : In(h)' \subseteq In(h)
    BY <1>2, SlotsAre DEF Holds
  <2> QED BY <1>1, <2>1, RowsStay DEF Kept
<1> QED BY <1>1, <1>2, <1>3, <1>4, <1>5, StillMoves DEF Blocks

LEMMA AddServiceKept ==
    ASSUME Kept, NEW o \in Objects, NEW w \in Workers, AddService(o, w)
    PROVE  /\ Blocks' /\ Rows' /\ AbstractMove
           /\ \E h \in Slots : Adds(h, o)
           /\ o \in held /\ owner' = [owner EXCEPT ![o] = w]
<1>0. PICK h : h = HeadOf(svid[o])
  OBVIOUS
<1>1. /\ ListsOK /\ o \in held /\ svid[o] # 0 /\ held' = held \ {o}
      /\ next' = ChainFirst(o, h) /\ tail' = tail
      /\ owner' = [owner EXCEPT ![o] = w]
      /\ UNCHANGED <<bsize, size, svid>>
      /\ \A l \in Heads : o \notin In(l)
  BY <1>0 DEF Kept, Blocks, AddService
<1>2. h \in Slots /\ h \in Heads /\ h # FreeQ
  <2>1. svid[o] \in Nat
    BY StorageAssumption DEF Kept, IdsInv, IdsTyped
  <2>2. h \in Slots
    BY <1>0, <2>1, HeadOfType
  <2> QED BY <2>2, SlotsAre, Addresses
<1>3. /\ ListsOK' /\ Adds(h, o)
      /\ \A l \in Heads \ {h} : ListOf(l)' = ListOf(l)
  BY <1>1, <1>2, ChainStep
<1>4. AbstractMove
  BY <1>1, <1>2, ChainMoves
<1>5. HeadOf(svid'[o]) = h
  BY <1>0, <1>1
<1>6. /\ \A p \in Objects : bsize'[p] # 0 <=> p \in held' \/ \E l \in Heads : p \in In(l)'
      /\ \A p \in held' : \A l \in Heads : p \notin In(l)'
  <2>1. \A l \in Heads : In(l)' = IF l = h THEN In(l) \union {o} ELSE In(l)
    BY <1>2, <1>3 DEF Adds
  <2>2. o \notin held' /\ bsize[o] # 0
    BY <1>1 DEF Kept, Blocks
  <2>3. \A p \in Objects : bsize[p] # 0 <=> p \in held \/ \E l \in Heads : p \in In(l)
    BY DEF Kept, Blocks
  <2>4. \A p \in held : \A l \in Heads : p \notin In(l)
    BY DEF Kept, Blocks
  <2> HIDE DEF Kept
  <2>5. ASSUME NEW p \in Objects
        PROVE  bsize'[p] # 0 <=> p \in held' \/ \E l \in Heads : p \in In(l)'
    <3>1. CASE p = o
      BY <1>1, <1>2, <2>1, <2>2, <3>1
    <3>2. CASE p # o
      BY <1>1, <2>1, <2>3, <3>2
    <3> QED BY <3>1, <3>2
  <2>6. ASSUME NEW p \in held', NEW l \in Heads PROVE p \notin In(l)'
    BY <1>1, <2>1, <2>4, <2>6
  <2> QED BY <2>5, <2>6
<1>7. size' = Len(ListOf(FreeQ)')
  BY <1>1, <1>2, <1>3, SlotsAre DEF Kept, Blocks
<1>8. Rows'
  <2>0. \A l \in Slots : In(l)' = IF l = h THEN In(l) \union {o} ELSE In(l)
    BY <1>2, <1>3, SlotsAre DEF Adds
  <2> SUFFICES ASSUME NEW k \in Slots, NEW p \in In(k)'
               PROVE  svid'[p] # 0 /\ HeadOf(svid'[p]) = k /\ owner'[p] \in Workers
    BY DEF Rows, HeadOf
  <2>1. CASE p = o
    <3>1. k = h
      BY <1>1, <2>0, <2>1, SlotsAre
    <3>2. owner'[o] = w
      BY <1>1 DEF Kept, Typed
    <3> QED BY <1>1, <1>5, <2>1, <3>1, <3>2
  <2>2. CASE p # o
    <3>1. p \in In(k)
      BY <2>0, <2>2
    <3>2. p \in Objects
      BY <1>1, <3>1, SlotsAre, ContentType
    <3>3. owner'[p] = owner[p]
      BY <1>1, <2>2, <3>2 DEF Kept, Typed
    <3> QED BY <1>1, <3>1, <3>3 DEF Kept, Rows
  <2> QED BY <2>1, <2>2
<1> QED BY <1>1, <1>2, <1>3, <1>4, <1>6, <1>7, <1>8 DEF Blocks

\* A service leaves the table and its thread.
Released(h, o) ==
    /\ Drops(h, o) /\ o \in Objects /\ owner[o] \in Workers
    /\ held' = held \union {o} /\ Reweigh(owner[o], -1)

LEMMA ReleasedKept ==
    ASSUME Kept, NEW h \in Slots, NEW i \in 1..Len(ListOf(h)),
           next' = [next EXCEPT ![NodeAt(h, ListOf(h), i - 1)] = next[ListOf(h)[i]]],
           held' = held \union {ListOf(h)[i]}, Reweigh(owner[ListOf(h)[i]], -1),
           UNCHANGED <<tail, bsize, size, svid, owner>>
    PROVE  Blocks' /\ Rows' /\ AbstractMove /\ Released(h, ListOf(h)[i])
<1> DEFINE o == ListOf(h)[i]
<1>1. ListsOK /\ h \in Heads /\ h # FreeQ
  BY SlotsAre, Addresses DEF Kept, Blocks
<1>2. /\ ListsOK' /\ Drops(h, o)
      /\ \A l \in Heads \ {h} : ListOf(l)' = ListOf(l)
  BY <1>1, LeaveStep
<1>3. AbstractMove
  BY <1>1, LeaveMoves
<1>4. o \in Objects /\ owner[o] \in Workers
  <2>1. o \in In(h)
    BY <1>2 DEF Drops
  <2> QED BY <1>1, <2>1, ContentType DEF Kept, Rows
<1>5. ListOf(FreeQ)' = ListOf(FreeQ)
  BY <1>1, <1>2, SlotsAre
<1> HIDE DEF o
<1>6. Released(h, o)
  BY <1>2, <1>4 DEF Released, o
<1>7. Blocks' /\ Rows'
  BY <1>1, <1>2, <1>5, TakenKept DEF o
<1> QED BY <1>3, <1>6, <1>7 DEF o

LEMMA DelServiceKept ==
    ASSUME Kept, NEW id \in SvidStart..SvidRange - 1, DelService(id)
    PROVE  Blocks' /\ Rows' /\ AbstractMove /\ \E h \in Slots : \E o \in Objects : Released(h, o)
<1>1. id \in Nat /\ ListsOK
  BY StorageAssumption DEF Kept, Blocks
<1> DEFINE h == HeadOf(id)
           o == Find(id)
<1>2. /\ o # Null /\ next' = [next EXCEPT ![Before(h, o)] = next[o]]
      /\ held' = held \union {o} /\ Reweigh(owner[o], -1)
      /\ UNCHANGED <<tail, bsize, size, svid, owner>>
  BY DEF DelService
<1>3. h \in Slots
  BY <1>1, FindIs
<1>4. PICK i \in 1..Len(ListOf(h)) :
           o = ListOf(h)[i] /\ Before(h, o) = NodeAt(h, ListOf(h), i - 1)
  BY <1>1, <1>2, FindIs
<1> HIDE DEF h, o
<1>5. Blocks' /\ Rows' /\ AbstractMove /\ Released(h, ListOf(h)[i])
  BY <1>2, <1>3, <1>4, ReleasedKept
<1>6. ListOf(h)[i] \in Objects
  BY <1>5 DEF Released
<1> QED BY <1>3, <1>5, <1>6

\* The sweep takes the first service it finds, or ends.
Swept ==
    \/ /\ \A j \in hint..NumSlots - 1 : In(SlotHead(j)) = {}
       /\ doing' = "swept" /\ hint' = hint /\ Holds
       /\ UNCHANGED pool
    \/ \E i \in hint..NumSlots - 1 :
         /\ hint' = i /\ doing' = doing
         /\ \A j \in hint..i - 1 : In(SlotHead(j)) = {}
         /\ \E o \in Objects : Released(SlotHead(i), o)

LEMMA SweepKept ==
    ASSUME Kept, Sweep
    PROVE  Blocks' /\ Rows' /\ AbstractMove /\ Swept
<1> DEFINE full == {i \in hint..NumSlots - 1 : next[SlotHead(i)] # Null}
<1>1. ListsOK /\ UNCHANGED <<tail, bsize, size, svid, owner>>
  BY DEF Kept, Blocks, Sweep
<1>2. hint \in Nat /\ NumSlots \in Nat
  BY StorageAssumption DEF Kept, Typed
<1>3. \A i \in hint..NumSlots - 1 : SlotHead(i) \in Slots
  BY <1>2 DEF Slots
<1>4. \A i \in hint..NumSlots - 1 : next[SlotHead(i)] = Null => In(SlotHead(i)) = {}
  <2> SUFFICES ASSUME NEW i \in hint..NumSlots - 1, next[SlotHead(i)] = Null
               PROVE  In(SlotHead(i)) = {}
    OBVIOUS
  <2>1. ListOf(SlotHead(i)) = <<>>
    BY <1>1, <1>3, SlotsAre, ContentType
  <2> QED BY <2>1 DEF In, ToSet
<1>5. CASE full = {}
  <2>1. /\ UNCHANGED <<next, held, hint, pool>> /\ doing' = "swept"
    BY <1>5 DEF Sweep
  <2>2. UNCHANGED lists
    BY <1>1, <2>1 DEF lists
  <2>3. ListsOK' /\ Holds /\ \A l \in Heads : ListOf(l)' = ListOf(l)
    BY <1>1, <2>2, StillStep
  <2>4. \A j \in hint..NumSlots - 1 : In(SlotHead(j)) = {}
    BY <1>4, <1>5
  <2>5. /\ \A p \in Objects : bsize'[p] # 0 <=> p \in held' \/ \E l \in Heads : p \in In(l)'
        /\ \A p \in held' : \A l \in Heads : p \notin In(l)'
    BY <1>1, <2>1, <2>3 DEF Kept, Blocks, Holds
  <2>6. size' = Len(ListOf(FreeQ)')
    BY <1>1, <2>3, SlotsAre DEF Kept, Blocks
  <2>7. Rows'
    <3>1. \A h \in Slots : In(h)' \subseteq In(h)
      BY <2>3, SlotsAre DEF Holds
    <3> QED BY <1>1, <3>1, RowsStay DEF Kept
  <2> QED BY <1>1, <2>1, <2>2, <2>3, <2>4, <2>5, <2>6, <2>7, StillMoves DEF Blocks, Swept
<1>6. CASE full # {}
  <2> DEFINE i == Min(full)
             h == SlotHead(i)
             o == next[h]
  <2>1. i \in full /\ \A k \in full : i <= k
    <3>1. full \in SUBSET Nat
      BY <1>2
    <3> HIDE DEF full
    <3> QED BY <1>6, <3>1, MinOf
  <2>2. /\ next' = [next EXCEPT ![h] = next[o]] /\ held' = held \union {o}
        /\ hint' = i /\ Reweigh(owner[o], -1) /\ doing' = doing
    BY <1>6 DEF Sweep
  <2> HIDE DEF i
  <2>3. i \in hint..NumSlots - 1 /\ next[h] # Null /\ h \in Slots
    BY <1>3, <2>1
  <2>4. \A j \in hint..i - 1 : In(SlotHead(j)) = {}
    <3> SUFFICES ASSUME NEW j \in hint..i - 1 PROVE In(SlotHead(j)) = {}
      OBVIOUS
    <3>1. j \in hint..NumSlots - 1 /\ ~(i <= j)
      BY <1>2, <2>3
    <3>2. j \notin full
      BY <2>1, <3>1
    <3> QED BY <1>4, <3>1, <3>2
  <2> HIDE DEF h
  <2>5. 1 \in 1..Len(ListOf(h)) /\ o = ListOf(h)[1]
    <3>1. /\ ListOf(h) \in Seq(Objects) /\ ListOf(h) # <<>>
          /\ next[h] = ListOf(h)[1]
      BY <1>1, <2>3, SlotsAre, ContentType
    <3> QED BY <3>1
  <2>6. NodeAt(h, ListOf(h), 1 - 1) = h
    BY DEF NodeAt
  <2> HIDE DEF o
  <2>7. Blocks' /\ Rows' /\ AbstractMove /\ Released(h, ListOf(h)[1])
    <3>1. next' = [next EXCEPT ![NodeAt(h, ListOf(h), 1 - 1)] = next[ListOf(h)[1]]]
      BY <2>2, <2>5, <2>6
    <3> QED BY <1>1, <2>2, <2>3, <2>5, <3>1, ReleasedKept
  <2>8. ListOf(h)[1] \in Objects
    BY <2>7 DEF Released
  <2>9. Swept
    BY <2>2, <2>3, <2>4, <2>7, <2>8 DEF Swept, h
  <2> QED BY <2>7, <2>9
<1> QED BY <1>5, <1>6
-----------------------------------------------------------------------------
(* Every step keeps the lists, the blocks and the rows.                    *)

\* What the steps do to the lists, in one formula.
StepKept ==
    /\ Blocks' /\ Rows' /\ AbstractMove

LEMMA NextLists ==
    ASSUME Kept, Next
    PROVE  Blocks' /\ Rows' /\ AbstractMove
<1> SUFFICES StepKept
  BY DEF StepKept
<1>1. ASSUME NEW o \in Objects, NEW n \in Sizes, AllocNew(o, n) PROVE StepKept
  BY <1>1, AllocNewKept DEF StepKept
<1>2. ASSUME NEW n \in Sizes, AllocFree(n) PROVE StepKept
  BY <1>2, AllocFreeKept DEF StepKept
<1>3. CASE AllocFails
  BY <1>3, AllocFailsKept DEF StepKept
<1>4. ASSUME NEW o \in Objects, Free(o) PROVE StepKept
  BY <1>4, FreeKept DEF StepKept
<1>5. ASSUME NEW o \in Objects, Send(o) PROVE StepKept
  BY <1>5, SendKept DEF StepKept
<1>6. ASSUME NEW o \in Objects, NewService(o) PROVE StepKept
  BY <1>6, NewServiceKept DEF StepKept
<1>7. ASSUME NEW o \in Objects, NEW w \in Workers, AddService(o, w) PROVE StepKept
  BY <1>7, AddServiceKept DEF StepKept
<1>8. ASSUME NEW id \in SvidStart..SvidRange - 1, DelService(id) PROVE StepKept
  BY <1>8, DelServiceKept DEF StepKept
<1>9. CASE Trim
  BY <1>9, TrimKept DEF StepKept
<1>10. CASE Flush
  BY <1>10, FlushKept DEF StepKept
<1>11. CASE Receive
  BY <1>11, ReceiveKept DEF StepKept
<1>12. CASE SweepStart
  BY <1>12, SweepStartKept DEF StepKept
<1>13. CASE Sweep
  BY <1>13, SweepKept DEF StepKept
<1>14. CASE \E o \in Objects : Free(o) \/ Send(o) \/ NewService(o)
  BY <1>4, <1>5, <1>6, <1>14
<1>15. CASE \E o \in Objects, w \in Workers : AddService(o, w)
  BY <1>7, <1>15
<1>16. CASE \E id \in SvidStart..SvidRange - 1 : DelService(id)
  BY <1>8, <1>16
<1>17. CASE (\E o \in Objects, n \in Sizes : AllocNew(o, n)) \/ \E n \in Sizes : AllocFree(n)
  BY <1>1, <1>2, <1>17
<1> QED
  BY <1>3, <1>9, <1>10, <1>11, <1>12, <1>13, <1>14, <1>15, <1>16, <1>17 DEF Next

LEMMA NextTyped == ASSUME Kept, Next PROVE Typed'
<1>1. ASSUME NEW o \in Objects, NEW n \in Sizes, AllocNew(o, n) PROVE Typed'
  BY <1>1 DEF Kept, Typed, AllocNew, table
<1>2. ASSUME NEW n \in Sizes, AllocFree(n) PROVE Typed'
  <2>1. next[FreeQ] \in Objects
    BY <1>2, AllocFreeKept, ContentType, SlotsAre DEF Drops, Kept, Blocks
  <2>2. n \in Nat
    BY StorageAssumption
  <2> QED BY <1>2, <2>1, <2>2 DEF Kept, Typed, AllocFree, table
<1>3. CASE AllocFails
  BY <1>3 DEF Kept, Typed, AllocFails, memory, table
<1>4. ASSUME NEW o \in Objects, Free(o) PROVE Typed'
  <2>1. bsize[o] \in Nat
    <3>1. Sizes \union {0} \subseteq Nat
      BY StorageAssumption
    <3> QED BY <3>1 DEF Kept, Typed
  <2>2. frmem' \in Int
    BY <1>4, <2>1 DEF Kept, Typed, Free
  <2> QED BY <1>4, <2>2, StorageAssumption DEF Kept, Typed, Free
<1>5. ASSUME NEW o \in Objects, Send(o) PROVE Typed'
  BY <1>5 DEF Kept, Typed, Send, table
<1>6. ASSUME NEW o \in Objects, NewService(o) PROVE Typed'
  BY <1>6, StorageAssumption DEF Kept, Typed, NewService, memory
<1>7. ASSUME NEW o \in Objects, NEW w \in Workers, AddService(o, w) PROVE Typed'
  <2>1. w \in 0..NumWorkers
    BY StorageAssumption DEF Workers
  <2> QED BY <1>7, <2>1 DEF Kept, Typed, AddService
<1>8. ASSUME NEW id \in SvidStart..SvidRange - 1, DelService(id) PROVE Typed'
  <2>1. held' \subseteq Objects
    BY <1>8, DelServiceKept DEF Released, Kept, Typed
  <2> QED BY <1>8, <2>1 DEF Kept, Typed, DelService
<1>9. CASE Trim
  <2>1. CASE Returns
    <3>1. bsize[next[FreeQ]] \in Nat
      <4>1. Sizes \union {0} \subseteq Nat
        BY StorageAssumption
      <4> QED BY <2>1, <4>1 DEF Kept, Typed, Returns
    <3>2. frmem' \in Int
      BY <2>1, <3>1 DEF Kept, Typed, Returns
    <3>3. bsize' \in [Objects -> Sizes \union {0}] /\ doing' \in {"idle", "trim", "sweep", "swept"}
      BY <2>1 DEF Kept, Typed, Returns
    <3> QED BY <1>9, <3>2, <3>3 DEF Kept, Typed, Trim, table
  <2>2. CASE Ends
    BY <1>9, <2>2 DEF Kept, Typed, Trim, table, Ends
  <2> QED BY <1>9, <2>1, <2>2, TrimKept
<1>10. CASE Flush
  BY <1>10 DEF Kept, Typed, Flush, memory, table
<1>11. CASE Receive
  <2>1. next[RxQ] \in Objects
    BY <1>11, ReceiveKept
  <2> QED BY <1>11, <2>1 DEF Kept, Typed, Receive, table
<1>12. CASE SweepStart
  <2>1. 0 \in 0..NumSlots
    BY StorageAssumption
  <2> QED BY <1>12, <2>1 DEF Kept, Typed, SweepStart, memory, table
<1>13. CASE Sweep
  <2>1. Swept
    BY <1>13, SweepKept
  <2>2. hint' \in 0..NumSlots /\ doing' \in {"idle", "trim", "sweep", "swept"}
    <3>1. \A i \in hint..NumSlots - 1 : i \in 0..NumSlots
      BY StorageAssumption DEF Kept, Typed
    <3> QED BY <2>1, <3>1 DEF Swept, Kept, Typed
  <2>3. held' \subseteq Objects
    <3>1. CASE \E i \in hint..NumSlots - 1 : \E o \in Objects : Released(SlotHead(i), o)
      BY <3>1 DEF Released, Kept, Typed
    <3>2. CASE doing' = "swept" /\ Holds
      <4>1. {i \in hint..NumSlots - 1 : next[SlotHead(i)] # Null} = {} => held' = held
        BY <1>13 DEF Sweep
      <4>2. {i \in hint..NumSlots - 1 : next[SlotHead(i)] # Null} # {} => doing' = doing
        BY <1>13 DEF Sweep
      <4>3. doing = "sweep"
        BY <1>13 DEF Sweep
      <4> QED BY <3>2, <4>1, <4>2, <4>3 DEF Kept, Typed
    <3> QED BY <2>1, <3>1, <3>2 DEF Swept
  <2> QED BY <1>13, <2>2, <2>3 DEF Kept, Typed, Sweep
<1> QED BY <1>1, <1>2, <1>3, <1>4, <1>5, <1>6, <1>7, <1>8, <1>9, <1>10, <1>11, <1>12, <1>13
     DEF Next

LEMMA NextKept == Kept /\ [Next]_vars => Kept' /\ AbstractMove
<1> SUFFICES ASSUME Kept, [Next]_vars PROVE Kept' /\ AbstractMove
  OBVIOUS
<1>1. IdsInv'
  BY NextIds DEF Kept
<1>2. CASE Next
  BY <1>1, <1>2, NextLists, NextTyped DEF Kept
<1>3. CASE UNCHANGED vars
  <2>1. UNCHANGED lists /\ UNCHANGED <<bsize, held, size, svid, owner>>
    BY <1>3 DEF vars, memory, table
  <2>2. ListsOK' /\ Holds /\ \A l \in Heads : ListOf(l)' = ListOf(l)
    BY <2>1, StillStep DEF Kept, Blocks
  <2>3. Typed'
    BY <1>3 DEF vars, memory, table, Kept, Typed
  <2>4. Blocks'
    <3>1. /\ \A p \in Objects : bsize'[p] # 0 <=> p \in held' \/ \E l \in Heads : p \in In(l)'
          /\ \A p \in held' : \A l \in Heads : p \notin In(l)'
      BY <2>1, <2>2 DEF Kept, Blocks, Holds
    <3>2. size' = Len(ListOf(FreeQ)')
      BY <2>1, <2>2, SlotsAre DEF Kept, Blocks
    <3> QED BY <2>2, <3>1, <3>2 DEF Blocks
  <2>5. Rows'
    <3>1. \A h \in Slots : In(h)' \subseteq In(h)
      BY <2>2, SlotsAre DEF Holds
    <3> QED BY <2>1, <3>1, RowsStay DEF Kept
  <2> QED BY <1>1, <2>1, <2>3, <2>4, <2>5, StillMoves DEF Kept, Blocks
<1> QED BY <1>2, <1>3
-----------------------------------------------------------------------------
(* The lists are kept.                                                     *)

\* At first all lists are empty.
LEMMA InitKept == Init => Kept /\ Content = [l \in Queues \union Slots |-> <<>>]
<1> SUFFICES ASSUME Init PROVE Kept /\ Content = [l \in Queues \union Slots |-> <<>>]
  OBVIOUS
<1> DEFINE none == [l \in Heads |-> <<>>]
<1>1. /\ none \in [Heads -> Seq(Objects)]
      /\ \A l \in Heads : none[l] = <<>> /\ Len(none[l]) = 0
  OBVIOUS
<1>2. \A l \in Heads : next[l] = End(l) /\ ListOf(l) = <<>>
  <2> SUFFICES ASSUME NEW l \in Heads PROVE next[l] = End(l) /\ ListOf(l) = <<>>
    OBVIOUS
  <2>1. next[l] = IF l \in Queues THEN l ELSE Null
    BY DEF Init, Heads
  <2> QED BY <2>1 DEF ListOf, End
<1>3. Content = none
  BY <1>2 DEF Content
<1> HIDE DEF none
<1>4. Apart(none)
  BY <1>1 DEF Apart
<1>5. next \in [Nodes -> Objects \union Queues \union {Null}]
  BY DEF Init, Nodes, Heads
<1>6. tail \in [Queues -> Objects \union Queues]
  BY DEF Init
<1>7. ASSUME NEW l \in Heads PROVE Linked(next, l, none[l])
  BY <1>1, <1>2 DEF Linked, NodeAt
<1>8. ASSUME NEW q \in Queues PROVE tail[q] = NodeAt(q, none[q], Len(none[q]))
  <2>1. q \in Heads
    BY DEF Heads
  <2> QED BY <1>1, <2>1 DEF Init, NodeAt
<1>9. ListsOK
  BY <1>1, <1>3, <1>4, <1>5, <1>6, <1>7, <1>8 DEF ListsOK, Represents
<1>10. \A l \in Heads : In(l) = {}
  BY <1>2 DEF In, ToSet
<1>11. Typed
  <2>1. 0 \in 0..NumWorkers /\ 0 \in 0..NumSlots /\ 0 \in 0..MaxIds
    BY StorageAssumption
  <2>2. bsize \in [Objects -> Sizes \union {0}] /\ held \subseteq Objects
    BY DEF Init
  <2>3. owner \in [Objects -> 0..NumWorkers] /\ born \in [Objects -> 0..MaxIds]
    BY <2>1 DEF Init
  <2>4. /\ frmem \in Int /\ resized \in BOOLEAN
        /\ doing \in {"idle", "trim", "sweep", "swept"}
        /\ hint \in 0..NumSlots /\ ids \in 0..MaxIds
    <3>1. frmem = 0 /\ hint = 0 /\ ids = 0 /\ resized = FALSE /\ doing = "idle"
      BY DEF Init
    <3>2. resized \in BOOLEAN
      BY <3>1, Zenon
    <3>3. /\ frmem \in Int /\ hint \in 0..NumSlots /\ ids \in 0..MaxIds
          /\ doing \in {"idle", "trim", "sweep", "swept"}
      BY <2>1, <3>1
    <3> QED BY <3>2, <3>3
  <2> QED BY <2>2, <2>3, <2>4 DEF Typed
<1>12. Blocks
  <2>1. size = Len(ListOf(FreeQ))
    <3>1. FreeQ \in Heads /\ ListOf(FreeQ) = <<>>
      BY <1>2, SlotsAre, Addresses DEF Heads
    <3> QED BY <3>1 DEF Init
  <2>2. /\ \A o \in Objects : bsize[o] # 0 <=> o \in held \/ \E l \in Heads : o \in In(l)
        /\ \A o \in held : \A l \in Heads : o \notin In(l)
    BY <1>10 DEF Init
  <2> QED BY <1>9, <2>1, <2>2 DEF Blocks
<1>13. Rows
  BY <1>10, SlotsAre DEF Rows
<1> QED BY <1>3, <1>11, <1>12, <1>13, InitIds DEF Kept, none, Heads

\* However objects move, what is in the lists is in them once.
THEOREM KeptInvariance == Spec => []Kept
<1>1. Init => Kept
  BY InitKept
<1>2. Kept /\ [Next]_vars => Kept'
  BY NextKept
<1> QED BY <1>1, <1>2, PTL DEF Spec

\* The pointers of the queues, of the free buffers and of the table implement
\* lists: an object that is put in is in that list and in no other, in its
\* place, until it is taken out.
THEOREM ListsAreKept == Spec => ImplementsLists
<1>1. Init => AbstractLists!Init
  BY InitKept DEF AbstractLists!Init, Content, Heads
<1>2. Init => Kept
  BY InitKept
<1>3. Kept /\ [Next]_vars
        => [AbstractLists!Next]_[l \in Queues \union Slots |-> ListOf(l)]
  BY NextKept DEF AbstractMove, Content, Heads
<1>4. Spec => AbstractLists!Spec
  BY <1>1, <1>3, KeptInvariance, PTL DEF Spec, AbstractLists!Spec
<1> QED BY <1>4 DEF ImplementsLists
-----------------------------------------------------------------------------
(* Sums over sets of blocks.                                               *)

Total(b, S) == MapThenSumSet(LAMBDA o : b[o], S)

\* The element that a sum takes next.
Some(s) == CHOOSE x \in s : TRUE

\* One step of the sum f of b.
SumStep(b, f, s) == IF s = {} THEN 0 ELSE b[Some(s)] + f[s \ {Some(s)}]

\* f has the sums of b over the subsets of S.
Sums(b, S, f) == f = [s \in SUBSET S |-> SumStep(b, f, s)]

\* The subsets of S that have at most n elements.
UpTo(S, n) == {s \in SUBSET S : Cardinality(s) <= n}

\* What holds of the empty set and, n by n, of the subsets with n + 1 elements,
\* holds of all.
LEMMA BySize ==
    ASSUME NEW S, IsFiniteSet(S), NEW P, {} \in P,
           \A n \in Nat : UpTo(S, n) \subseteq P => UpTo(S, n + 1) \subseteq P
    PROVE  \A s \in SUBSET S : s \in P
<1> DEFINE T == {n \in Nat : UpTo(S, n) \subseteq P}
<1>1. 0 \in T
  <2> SUFFICES ASSUME NEW s \in UpTo(S, 0) PROVE s \in P
    OBVIOUS
  <2>1. IsFiniteSet(s) /\ Cardinality(s) <= 0
    BY FS_Subset DEF UpTo
  <2>2. s = {}
    BY <2>1, FS_EmptySet, FS_CardinalityType
  <2> QED BY <2>2
<1>2. \A n \in T : n + 1 \in T
  OBVIOUS
<1>3. T \in SUBSET Nat
  OBVIOUS
<1>4. T = Nat
  <2> HIDE DEF T
  <2> QED BY <1>1, <1>2, <1>3, Counting
<1> SUFFICES ASSUME NEW s \in SUBSET S PROVE s \in P
  OBVIOUS
<1>5. Cardinality(s) \in Nat
  BY FS_Subset, FS_CardinalityType
<1>6. s \in UpTo(S, Cardinality(s))
  BY <1>5 DEF UpTo
<1> QED BY <1>4, <1>5, <1>6

\* The element that is taken is one; without it the set is smaller.
LEMMA SomeOf ==
    ASSUME NEW S, IsFiniteSet(S), NEW s \in SUBSET S
    PROVE  /\ IsFiniteSet(s) /\ Cardinality(s) \in Nat
           /\ s # {} => Some(s) \in s
           /\ \A x \in s : /\ s \ {x} \in SUBSET S
                           /\ Cardinality(s \ {x}) = Cardinality(s) - 1
<1>1. IsFiniteSet(s) /\ Cardinality(s) \in Nat
  BY FS_Subset, FS_CardinalityType
<1>2. s # {} => Some(s) \in s
  BY DEF Some
<1>3. ASSUME NEW x \in s PROVE Cardinality(s \ {x}) = Cardinality(s) - 1
  BY <1>1, FS_RemoveElement
<1> QED BY <1>1, <1>2, <1>3

\* There are sums.
LEMMA SumsExist ==
    ASSUME NEW S, IsFiniteSet(S), NEW b
    PROVE  \E f : Sums(b, S, f)
<1> DEFINE Upon(n, f) ==
             \A s \in UpTo(S, n) : f[s] = SumStep(b, f, s)
           T == {n \in Nat : \E f : f = [s \in SUBSET S |-> f[s]] /\ Upon(n, f)}
<1>1. 0 \in T
  <2> DEFINE f == [s \in SUBSET S |-> 0]
  <2>1. ASSUME NEW s \in UpTo(S, 0) PROVE f[s] = SumStep(b, f, s)
    <3>1. s \in SUBSET S /\ IsFiniteSet(s) /\ Cardinality(s) <= 0 /\ Cardinality(s) \in Nat
      BY SomeOf DEF UpTo
    <3>2. s = {}
      BY <3>1, FS_EmptySet
    <3> QED BY <3>1, <3>2 DEF SumStep
  <2>2. f = [s \in SUBSET S |-> f[s]]
    OBVIOUS
  <2>3. Upon(0, f)
    BY <2>1
  <2> QED BY <2>2, <2>3
<1>2. ASSUME NEW n \in T PROVE n + 1 \in T
  <2>1. PICK f : f = [s \in SUBSET S |-> f[s]] /\ Upon(n, f)
    OBVIOUS
  <2> DEFINE g == [s \in SUBSET S |-> SumStep(b, f, s)]
  <2>2. ASSUME NEW s \in UpTo(S, n + 1) PROVE g[s] = SumStep(b, g, s)
    <3>1. s \in SUBSET S /\ Cardinality(s) <= n + 1 /\ Cardinality(s) \in Nat
      BY SomeOf DEF UpTo
    <3>2. CASE s = {}
      BY <3>1, <3>2 DEF SumStep
    <3>3. CASE s # {}
      <4> DEFINE r == s \ {Some(s)}
      <4>1. r \in SUBSET S /\ Cardinality(r) = Cardinality(s) - 1
        BY <3>1, <3>3, SomeOf
      <4>2. r \in UpTo(S, n)
        BY <3>1, <4>1 DEF UpTo
      <4>3. f[r] = SumStep(b, f, r)
        BY <2>1, <4>2
      <4>4. g[r] = f[r]
        BY <4>1, <4>3
      <4>5. g[s] = SumStep(b, f, s)
        BY <3>1
      <4> QED BY <3>3, <4>4, <4>5 DEF SumStep
    <3> QED BY <3>2, <3>3
  <2>3. g = [s \in SUBSET S |-> g[s]]
    OBVIOUS
  <2> HIDE DEF g
  <2>4. Upon(n + 1, g)
    BY <2>2
  <2> HIDE DEF Upon
  <2>5. \E h : h = [s \in SUBSET S |-> h[s]] /\ Upon(n + 1, h)
    BY <2>3, <2>4
  <2> QED BY <2>5
<1>3. Cardinality(S) \in T
  <2>1. Cardinality(S) \in Nat
    BY FS_CardinalityType
  <2>2. T = Nat
    <3>1. T \in SUBSET Nat
      OBVIOUS
    <3> HIDE DEF T
    <3> QED BY <1>1, <1>2, <3>1, Counting
  <2> QED BY <2>1, <2>2
<1>4. PICK f : f = [s \in SUBSET S |-> f[s]] /\ Upon(Cardinality(S), f)
  BY <1>3
<1>5. ASSUME NEW s \in SUBSET S PROVE s \in UpTo(S, Cardinality(S))
  BY FS_Subset DEF UpTo
<1>6. \A s \in SUBSET S : f[s] = SumStep(b, f, s)
  BY <1>4, <1>5
<1>7. f = [s \in SUBSET S |-> SumStep(b, f, s)]
  BY <1>4, <1>6
<1> QED BY <1>7 DEF Sums

\* The order does not matter.
LEMMA AnyOrder ==
    ASSUME NEW S, IsFiniteSet(S), NEW b, \A x \in S : b[x] \in Int,
           NEW f, Sums(b, S, f)
    PROVE  /\ f[{}] = 0
           /\ \A s \in SUBSET S : /\ f[s] \in Int
                                  /\ \A x \in s : f[s] = b[x] + f[s \ {x}]
<1>1. \A s \in SUBSET S : f[s] = SumStep(b, f, s)
  BY DEF Sums
<1>2. f[{}] = 0
  BY <1>1 DEF SumStep
<1> DEFINE P == {s \in SUBSET S : f[s] \in Int /\ \A x \in s : f[s] = b[x] + f[s \ {x}]}
<1>3. {} \in P
  BY <1>2
<1>4. ASSUME NEW n \in Nat, UpTo(S, n) \subseteq P, NEW s \in UpTo(S, n + 1)
      PROVE  s \in P
  <2>1. /\ s \in SUBSET S /\ Cardinality(s) <= n + 1 /\ Cardinality(s) \in Nat
        /\ \A x \in s : s \ {x} \in SUBSET S /\ Cardinality(s \ {x}) = Cardinality(s) - 1
    BY SomeOf DEF UpTo
  <2>2. \A x \in s : s \ {x} \in UpTo(S, n)
    BY <2>1 DEF UpTo
  <2>3. \A x \in s : /\ f[s \ {x}] \in Int
                     /\ \A y \in s \ {x} : f[s \ {x}] = b[y] + f[(s \ {x}) \ {y}]
    BY <1>4, <2>2
  <2>4. CASE s = {}
    BY <1>3, <2>4
  <2>5. CASE s # {}
    <3> DEFINE c == Some(s)
    <3>1. c \in s /\ f[s] = b[c] + f[s \ {c}]
      BY <1>1, <2>1, <2>5, SomeOf DEF SumStep
    <3> HIDE DEF c
    <3>2. b[c] \in Int /\ f[s \ {c}] \in Int
      BY <2>1, <2>3, <3>1
    <3>3. f[s] \in Int
      BY <3>1, <3>2
    <3>4. ASSUME NEW x \in s PROVE f[s] = b[x] + f[s \ {x}]
      <4>1. CASE x = c
        BY <3>1, <4>1
      <4>2. CASE x # c
        <5> DEFINE r == (s \ {c}) \ {x}
        <5>1. r = (s \ {x}) \ {c}
          OBVIOUS
        <5>2. f[s \ {c}] = b[x] + f[r]
          BY <2>3, <3>1, <4>2
        <5>3. f[s \ {x}] = b[c] + f[r]
          BY <2>3, <3>1, <4>2, <5>1
        <5>4. r \in UpTo(S, n)
          <6>1. r \in SUBSET S /\ IsFiniteSet(s \ {c})
            BY <2>1, <3>1, SomeOf
          <6>2. Cardinality(r) = Cardinality(s \ {c}) - 1
            BY <3>1, <4>2, <6>1, FS_RemoveElement
          <6> QED BY <2>1, <3>1, <6>1, <6>2 DEF UpTo
        <5>5. f[r] \in Int /\ b[x] \in Int
          BY <1>4, <2>1, <5>4
        <5> HIDE DEF r
        <5> QED BY <3>1, <3>2, <5>2, <5>3, <5>5
      <4> QED BY <4>1, <4>2
    <3> QED BY <2>1, <3>3, <3>4
  <2> QED BY <2>4, <2>5
<1>5. \A s \in SUBSET S : s \in P
  <2> HIDE DEF P
  <2> QED BY <1>3, <1>4, BySize
<1> QED BY <1>2, <1>5

\* Sums of functions that agree on a set agree, whatever sets they are made for.
LEMMA SumsAgree ==
    ASSUME NEW S, IsFiniteSet(S), NEW b, NEW f, Sums(b, S, f),
           NEW R, NEW d, NEW g, Sums(d, R, g),
           NEW u, u \subseteq S, u \subseteq R, \A x \in u : b[x] = d[x]
    PROVE  f[u] = g[u]
<1>1. /\ \A s \in SUBSET S : f[s] = SumStep(b, f, s)
      /\ \A s \in SUBSET R : g[s] = SumStep(d, g, s)
  BY DEF Sums
<1>2. IsFiniteSet(u)
  BY FS_Subset
<1> DEFINE P == {s \in SUBSET u : f[s] = g[s]}
<1>3. {} \in P
  BY <1>1 DEF SumStep
<1>4. ASSUME NEW n \in Nat, UpTo(u, n) \subseteq P, NEW s \in UpTo(u, n + 1)
      PROVE  s \in P
  <2>1. s \in SUBSET u /\ Cardinality(s) <= n + 1
    BY DEF UpTo
  <2>2. CASE s = {}
    BY <1>3, <2>2
  <2>3. CASE s # {}
    <3> DEFINE r == s \ {Some(s)}
    <3>1. /\ r \in SUBSET u /\ Cardinality(r) = Cardinality(s) - 1 /\ Cardinality(s) \in Nat
          /\ Some(s) \in s
      BY <1>2, <2>1, <2>3, SomeOf
    <3>2. r \in UpTo(u, n)
      BY <2>1, <3>1 DEF UpTo
    <3>3. f[r] = g[r] /\ b[Some(s)] = d[Some(s)]
      BY <1>4, <2>1, <3>1, <3>2
    <3>4. f[s] = SumStep(b, f, s) /\ g[s] = SumStep(d, g, s)
      BY <1>1, <2>1
    <3>5. f[s] = b[Some(s)] + f[r] /\ g[s] = d[Some(s)] + g[r]
      BY <2>3, <3>4 DEF SumStep
    <3> QED BY <2>1, <3>3, <3>5
  <2> QED BY <2>2, <2>3
<1>5. \A s \in SUBSET u : s \in P
  <2> HIDE DEF P
  <2> QED BY <1>2, <1>3, <1>4, BySize
<1> QED BY <1>5

\* A total is the sum that a function of sums has.
LEMMA TotalIs ==
    ASSUME NEW S, IsFiniteSet(S), NEW b
    PROVE  \E f : Sums(b, S, f) /\ Total(b, S) = f[S]
<1> DEFINE f == CHOOSE it : it = [s \in SUBSET S |->
                   IF s = {} THEN 0
                   ELSE b[CHOOSE x \in s : TRUE] + it[s \ {CHOOSE x \in s : TRUE}]]
<1>1. Total(b, S) = f[S]
  BY DEF Total, MapThenSumSet, MapThenFoldSet
<1>2. PICK g : Sums(b, S, g)
  BY SumsExist
<1>3. g = [s \in SUBSET S |->
             IF s = {} THEN 0
             ELSE b[CHOOSE x \in s : TRUE] + g[s \ {CHOOSE x \in s : TRUE}]]
  BY <1>2 DEF Sums, SumStep, Some
<1>4. f = [s \in SUBSET S |->
             IF s = {} THEN 0
             ELSE b[CHOOSE x \in s : TRUE] + f[s \ {CHOOSE x \in s : TRUE}]]
  BY <1>3
<1> HIDE DEF f
<1>5. Sums(b, S, f)
  BY <1>4 DEF Sums, SumStep, Some
<1> QED BY <1>1, <1>5

\* The total of nothing.
LEMMA TotalEmpty == ASSUME NEW b PROVE Total(b, {}) = 0
<1>1. IsFiniteSet({})
  BY FS_EmptySet
<1>2. PICK f : Sums(b, {}, f) /\ Total(b, {}) = f[{}]
  BY <1>1, TotalIs
<1> QED BY <1>1, <1>2, AnyOrder

\* The total of one block more.
LEMMA TotalMore ==
    ASSUME NEW S, IsFiniteSet(S), NEW x, x \notin S, NEW b,
           \A y \in S \union {x} : b[y] \in Int
    PROVE  /\ Total(b, S \union {x}) = Total(b, S) + b[x]
           /\ Total(b, S) \in Int
<1> DEFINE R == S \union {x}
<1>1. IsFiniteSet(R) /\ R \ {x} = S /\ x \in R /\ S \in SUBSET R /\ R \in SUBSET R
  BY FS_AddElement
<1>2. \A y \in R : b[y] \in Int
  OBVIOUS
<1> HIDE DEF R
<1>3. PICK f : Sums(b, R, f) /\ Total(b, R) = f[R]
  BY <1>1, TotalIs
<1>4. PICK g : Sums(b, S, g) /\ Total(b, S) = g[S]
  BY TotalIs
<1>5. f[R] = b[x] + f[S]
  BY <1>1, <1>2, <1>3, AnyOrder
<1>6. f[S] = g[S]
  BY <1>1, <1>3, <1>4, SumsAgree
<1>7. f[S] \in Int /\ b[x] \in Int
  BY <1>1, <1>2, <1>3, AnyOrder
<1> QED BY <1>3, <1>4, <1>5, <1>6, <1>7 DEF R

\* The total depends on what is counted.
LEMMA TotalSame ==
    ASSUME NEW S, IsFiniteSet(S), NEW b, NEW d, \A y \in S : b[y] = d[y]
    PROVE  Total(b, S) = Total(d, S)
<1>1. PICK f : Sums(b, S, f) /\ Total(b, S) = f[S]
  BY TotalIs
<1>2. PICK g : Sums(d, S, g) /\ Total(d, S) = g[S]
  BY TotalIs
<1> QED BY <1>1, <1>2, SumsAgree

\* The total of one block less.
LEMMA TotalLess ==
    ASSUME NEW S, IsFiniteSet(S), NEW x \in S, NEW b, \A y \in S : b[y] \in Int
    PROVE  Total(b, S \ {x}) = Total(b, S) - b[x]
<1> DEFINE R == S \ {x}
<1>1. IsFiniteSet(R) /\ x \notin R /\ S = R \union {x}
  BY FS_RemoveElement
<1> HIDE DEF R
<1>2. Total(b, S) = Total(b, R) + b[x] /\ Total(b, R) \in Int
  BY <1>1, TotalMore
<1> QED BY <1>2 DEF R
-----------------------------------------------------------------------------
(* The account of the free buffers.                                        *)

\* What frmem says of the buffers in the queue.
Account ==
    ~resized => /\ frmem = Total(bsize, In(FreeQ))
                /\ Idle => frmem <= Limit

\* The sizes of the blocks of a list.
LEMMA FreeSizes ==
    ASSUME Kept
    PROVE  /\ IsFiniteSet(In(FreeQ)) /\ In(FreeQ) \subseteq Objects
           /\ \A o \in Objects : bsize[o] \in Int
<1>1. In(FreeQ) \subseteq Objects
  BY ContentType, SlotsAre DEF Kept, Blocks
<1>2. IsFiniteSet(Objects)
  BY FS_Interval, StorageAssumption DEF Objects
<1>3. Sizes \union {0} \subseteq Nat
  BY StorageAssumption
<1>4. \A o \in Objects : bsize[o] \in Int
  BY <1>3 DEF Kept, Typed
<1> QED BY <1>1, <1>2, <1>4, FS_Subset

\* Nothing changes for the free buffers.
LEMMA AccountStays ==
    ASSUME Kept, Account, In(FreeQ)' = In(FreeQ), \A o \in In(FreeQ) : bsize'[o] = bsize[o],
           UNCHANGED <<frmem, resized>>, doing' = "idle" => Idle
    PROVE  Account'
<1>1. Total(bsize', In(FreeQ)) = Total(bsize, In(FreeQ))
  BY FreeSizes, TotalSame
<1>2. Total(bsize, In(FreeQ))' = Total(bsize, In(FreeQ))
  BY <1>1
<1> QED BY <1>2 DEF Account, Idle

LEMMA NextAccount == ASSUME Kept, Account, Next PROVE Account'
<1> USE SlotsAre, Addresses
<1>1. ASSUME NEW o \in Objects, NEW n \in Sizes, AllocNew(o, n) PROVE Account'
  <2>1. /\ \A p \in Objects \ {o} : bsize'[p] = bsize[p]
        /\ UNCHANGED <<frmem, resized, doing>> /\ bsize[o] = 0
    BY <1>1 DEF AllocNew, Kept, Typed
  <2>2. o \notin In(FreeQ)
    BY <2>1 DEF Kept, Blocks
  <2>3. In(FreeQ)' = In(FreeQ)
    BY <1>1, AllocNewKept DEF Holds
  <2> QED BY <2>1, <2>2, <2>3, FreeSizes, AccountStays DEF Idle
<1>2. ASSUME NEW n \in Sizes, AllocFree(n) PROVE Account'
  <2> DEFINE o == next[FreeQ]
  <2>1. /\ o \in In(FreeQ) /\ In(FreeQ)' = In(FreeQ) \ {o}
        /\ bsize' = [bsize EXCEPT ![o] = n]
        /\ frmem' = frmem - n /\ resized' = (resized \/ bsize[o] # n)
        /\ Idle
    BY <1>2, AllocFreeKept DEF Drops, AllocFree
  <2> HIDE DEF o
  <2> SUFFICES ASSUME ~resized'
               PROVE  frmem' = Total(bsize, In(FreeQ))' /\ frmem' <= Limit
    BY DEF Account
  <2>2. ~resized /\ bsize[o] = n
    BY <2>1
  <2>3. \A p \in In(FreeQ) \ {o} : bsize'[p] = bsize[p]
    BY <2>1, FreeSizes DEF Kept, Typed
  <2>4. Total(bsize', In(FreeQ) \ {o}) = Total(bsize, In(FreeQ) \ {o})
    BY <2>3, FreeSizes, FS_RemoveElement, TotalSame
  <2>5. Total(bsize, In(FreeQ) \ {o}) = Total(bsize, In(FreeQ)) - bsize[o]
    BY <2>1, FreeSizes, TotalLess
  <2>6. Total(bsize, In(FreeQ))' = Total(bsize', In(FreeQ) \ {o})
    BY <2>1
  <2>7. frmem = Total(bsize, In(FreeQ)) /\ frmem <= Limit
    BY <2>1, <2>2 DEF Account
  <2>8. frmem' = Total(bsize, In(FreeQ))'
    BY <2>1, <2>2, <2>4, <2>5, <2>6, <2>7
  <2>9. n \in Nat /\ frmem \in Int /\ Limit \in Nat
    BY StorageAssumption DEF Kept, Typed
  <2> QED BY <2>1, <2>7, <2>8, <2>9
<1>3. CASE AllocFails
  BY <1>3, AllocFailsKept, FreeSizes, AccountStays DEF Holds, AllocFails, memory, Idle
<1>4. ASSUME NEW o \in Objects, Free(o) PROVE Account'
  <2>1. /\ In(FreeQ)' = In(FreeQ) \union {o} /\ bsize' = bsize /\ resized' = resized
        /\ frmem' = frmem + bsize[o] /\ doing' = "trim" /\ o \in held
    BY <1>4, FreeKept DEF Adds, Free
  <2>2. o \notin In(FreeQ)
    BY <2>1 DEF Kept, Blocks
  <2>3. Total(bsize, In(FreeQ) \union {o}) = Total(bsize, In(FreeQ)) + bsize[o]
    BY <2>2, FreeSizes, TotalMore
  <2>4. Total(bsize, In(FreeQ))' = Total(bsize, In(FreeQ) \union {o})
    BY <2>1
  <2> QED BY <2>1, <2>3, <2>4 DEF Account, Idle
<1>5. ASSUME NEW o \in Objects, Send(o) PROVE Account'
  BY <1>5, SendKept, FreeSizes, AccountStays DEF Adds, Send, Idle
<1>6. ASSUME NEW o \in Objects, NewService(o) PROVE Account'
  BY <1>6, NewServiceKept, FreeSizes, AccountStays DEF Holds, NewService, memory, Idle
<1>7. ASSUME NEW o \in Objects, NEW w \in Workers, AddService(o, w) PROVE Account'
  <2>1. In(FreeQ)' = In(FreeQ)
    BY <1>7, AddServiceKept DEF Adds
  <2> QED BY <1>7, <2>1, FreeSizes, AccountStays DEF AddService, Idle
<1>8. ASSUME NEW id \in SvidStart..SvidRange - 1, DelService(id) PROVE Account'
  <2>1. In(FreeQ)' = In(FreeQ)
    BY <1>8, DelServiceKept DEF Released, Drops
  <2> QED BY <1>8, <2>1, FreeSizes, AccountStays DEF DelService, Idle
<1>9. CASE Trim
  <2>1. resized' = resized /\ (Returns \/ Ends)
    BY <1>9, TrimKept DEF Trim
  <2>2. CASE Returns
    <3> DEFINE o == next[FreeQ]
    <3>1. /\ o \in In(FreeQ) /\ In(FreeQ)' = In(FreeQ) \ {o}
          /\ bsize' = [bsize EXCEPT ![o] = 0]
          /\ frmem' = frmem - bsize[o] /\ doing' = "trim"
      BY <1>9, <2>2 DEF Drops, Returns, Trim
    <3> HIDE DEF o
    <3>2. \A p \in In(FreeQ) \ {o} : bsize'[p] = bsize[p]
      BY <3>1, FreeSizes DEF Kept, Typed
    <3>3. Total(bsize', In(FreeQ) \ {o}) = Total(bsize, In(FreeQ) \ {o})
      BY <3>2, FreeSizes, FS_RemoveElement, TotalSame
    <3>4. Total(bsize, In(FreeQ) \ {o}) = Total(bsize, In(FreeQ)) - bsize[o]
      BY <3>1, FreeSizes, TotalLess
    <3>5. Total(bsize, In(FreeQ))' = Total(bsize', In(FreeQ) \ {o})
      BY <3>1
    <3> QED BY <2>1, <3>1, <3>3, <3>4, <3>5 DEF Account, Idle
  <2>3. CASE Ends
    <3>1. In(FreeQ)' = In(FreeQ) /\ UNCHANGED <<bsize, frmem>>
      BY <2>3 DEF Ends, Holds
    <3>2. Total(bsize, In(FreeQ))' = Total(bsize, In(FreeQ))
      BY <3>1
    <3>3. CASE In(FreeQ) = {}
      BY <2>1, <3>1, <3>2, <3>3, TotalEmpty, StorageAssumption DEF Account
    <3>4. CASE ~OverLimit(frmem)
      <4>1. frmem <= Limit
        BY <3>4, StorageAssumption DEF Kept, Typed, OverLimit
      <4> QED BY <2>1, <3>1, <3>2, <4>1 DEF Account
    <3> QED BY <2>3, <3>3, <3>4 DEF Ends
  <2> QED BY <2>1, <2>2, <2>3
<1>10. CASE Flush
  BY <1>10, FlushKept, FreeSizes, AccountStays DEF Flush, memory, Idle
<1>11. CASE Receive
  BY <1>11, ReceiveKept, FreeSizes, AccountStays DEF Drops, Receive, Idle
<1>12. CASE SweepStart
  BY <1>12, SweepStartKept, FreeSizes, AccountStays DEF Holds, SweepStart, memory, Idle
<1>13. CASE Sweep
  <2>1. In(FreeQ)' = In(FreeQ)
    <3>1. CASE Holds
      BY <3>1 DEF Holds
    <3>2. CASE \E i \in hint..NumSlots - 1 : \E o \in Objects : Released(SlotHead(i), o)
      <4>1. PICK i \in hint..NumSlots - 1, o \in Objects : Released(SlotHead(i), o)
        BY <3>2
      <4>2. SlotHead(i) \in Slots
        BY StorageAssumption DEF Slots, Kept, Typed
      <4> QED BY <4>1, <4>2 DEF Released, Drops
    <3> QED BY <1>13, <3>1, <3>2, SweepKept DEF Swept
  <2>2. doing' # "idle"
    BY <1>13, SweepKept DEF Swept, Sweep
  <2> QED BY <1>13, <2>1, <2>2, FreeSizes, AccountStays DEF Sweep
<1> QED
  BY <1>1, <1>2, <1>3, <1>4, <1>5, <1>6, <1>7, <1>8, <1>9, <1>10, <1>11, <1>12, <1>13
     DEF Next

\* As long as no buffer was used for what has another size, frmem is the size of
\* the free buffers; between two operations l_buffer_free has brought it within
\* the limit.
THEOREM AccountIsExact == Spec => []AccountExact
<1>1. Init => Account
  <2>1. Init => In(FreeQ) = {}
    <3> SUFFICES ASSUME Init PROVE In(FreeQ) = {}
      OBVIOUS
    <3>1. FreeQ \in Queues \union Slots /\ Content[FreeQ] = <<>>
      BY InitKept, Addresses
    <3>2. ListOf(FreeQ) = <<>>
      BY <3>1 DEF Content, Heads
    <3> QED BY <3>2 DEF In, ToSet
  <2>2. Init => frmem = 0
    BY DEF Init
  <2> QED BY <2>1, <2>2, TotalEmpty, StorageAssumption DEF Account
<1>2. Kept /\ Account /\ [Next]_vars => Account'
  <2> SUFFICES ASSUME Kept, Account, UNCHANGED vars PROVE Account'
    BY NextAccount
  <2>1. In(FreeQ)' = In(FreeQ)
    BY StillStep, SlotsAre DEF vars, Kept, Blocks, Holds
  <2> QED BY <2>1, AccountStays DEF vars, memory, Idle
<1>3. Kept /\ Account => AccountExact
  <2> SUFFICES ASSUME Kept PROVE FreeMemory = Total(bsize, In(FreeQ))
    BY DEF Account, AccountExact
  <2>1. QueueOf(FreeQ) = ListOf(FreeQ)
    BY ContentType, SlotsAre, Addresses DEF Kept, Blocks
  <2>2. FreeMemory = Total(bsize, ToSet(QueueOf(FreeQ)))
    BY DEF Total, FreeMemory, MapThenSumSet, MapThenFoldSet
  <2> QED BY <2>1, <2>2 DEF In
<1> QED BY <1>1, <1>2, <1>3, KeptInvariance, PTL DEF Spec
-----------------------------------------------------------------------------
(* The table as a set of services.                                         *)

LEMMA InTableIs ==
    /\ InTable = UNION {In(h) : h \in Slots}
    /\ \A o : o \in InTable <=> \E h \in Slots : o \in In(h)
BY DEF InTable, In

LEMMA InTableAfter ==
    /\ InTable' = UNION {In(h)' : h \in Slots}
    /\ \A o : o \in InTable' <=> \E h \in Slots : o \in In(h)'
BY DEF InTable, In

\* A service in the table is an object with an id and a thread, and not held.
LEMMA TableOf ==
    ASSUME Kept
    PROVE  /\ IsFiniteSet(InTable)
           /\ \A o \in InTable : o \in Objects /\ owner[o] \in Workers /\ o \notin held
<1>1. \A o \in InTable : o \in Objects /\ owner[o] \in Workers /\ o \notin held
  BY InTableIs, SlotsAre, ContentType DEF Kept, Blocks, Rows
<1>2. InTable \in SUBSET Objects
  BY <1>1
<1>3. IsFiniteSet(Objects)
  BY FS_Interval, StorageAssumption DEF Objects
<1> QED BY <1>1, <1>2, <1>3, FS_Subset

\* What a step does to the table: nothing, or a service comes, or one goes.
Stays ==
    /\ InTable' = InTable /\ \A o \in InTable : owner'[o] = owner[o]
    /\ UNCHANGED <<pool, nelem>>
    /\ doing \in {"sweep", "swept"} => doing' \in {"sweep", "swept"}

Enters(o, w) ==
    /\ o \notin InTable /\ InTable' = InTable \union {o}
    /\ owner' = [owner EXCEPT ![o] = w]
    /\ Reweigh(w, 1) /\ nelem' = nelem + 1 /\ doing = "idle" /\ doing' = doing

Exits(o) ==
    /\ o \in InTable /\ InTable' = InTable \ {o}
    /\ owner' = owner
    /\ Reweigh(owner[o], -1) /\ doing' = doing
    /\ \/ doing = "sweep" /\ nelem' = nelem
       \/ doing = "idle" /\ nelem' = nelem - 1

\* The chains stay as they are.
LEMMA SameTable ==
    ASSUME \A h \in Slots : In(h)' = In(h)
    PROVE  InTable' = InTable
BY InTableIs, InTableAfter

\* A step of the lists without services.
LEMMA ListStays ==
    ASSUME Kept, \A h \in Slots : In(h)' = In(h),
           \A o \in Objects \ held : owner'[o] = owner[o],
           UNCHANGED <<pool, nelem>>, doing \in {"idle", "trim"}
    PROVE  Stays
BY SameTable, TableOf DEF Stays

\* What leaves a chain leaves the table.
LEMMA ReleasedTable ==
    ASSUME Kept, NEW h \in Slots, NEW o, Released(h, o)
    PROVE  o \in InTable /\ InTable' = InTable \ {o}
<1>1. \A k \in Slots : In(k)' = In(k) \ {o}
  BY ListsApart, SlotsAre DEF Kept, Blocks, Released, Drops
<1>2. o \in In(h)
  BY DEF Released, Drops
<1>3. \A p : p \in InTable' <=> p \in InTable \ {o}
  BY <1>1, InTableIs, InTableAfter
<1> QED BY <1>2, <1>3, InTableIs

LEMMA NextTable ==
    ASSUME Kept, Next
    PROVE  \/ Stays
           \/ \E o \in Objects, w \in Workers : Enters(o, w)
           \/ \E o \in Objects : Exits(o)
<1> DEFINE Goal == \/ Stays
                   \/ \E o \in Objects, w \in Workers : Enters(o, w)
                   \/ \E o \in Objects : Exits(o)
<1> SUFFICES Goal
  OBVIOUS
<1> USE SlotsAre, Addresses
<1>1. ASSUME NEW o \in Objects, NEW n \in Sizes, AllocNew(o, n) PROVE Stays
  BY <1>1, AllocNewKept, ListStays DEF Holds, AllocNew, table, Idle
<1>2. ASSUME NEW n \in Sizes, AllocFree(n) PROVE Stays
  BY <1>2, AllocFreeKept, ListStays DEF Drops, AllocFree, table, Idle
<1>3. ASSUME AllocFails PROVE Stays
  BY <1>3, AllocFailsKept, ListStays DEF Holds, AllocFails, table, Idle
<1>4. ASSUME NEW o \in Objects, Free(o) PROVE Stays
  <2>1. \A p \in Objects \ held : owner'[p] = owner[p]
    BY <1>4 DEF Free, Kept, Typed
  <2> QED BY <1>4, <2>1, FreeKept, ListStays DEF Adds, Free, Idle
<1>5. ASSUME NEW o \in Objects, Send(o) PROVE Stays
  BY <1>5, SendKept, ListStays DEF Adds, Send, table, Idle
<1>6. ASSUME NEW o \in Objects, NewService(o) PROVE Stays
  BY <1>6, NewServiceKept, ListStays DEF Holds, NewService, Idle
<1>7. ASSUME NEW o \in Objects, NEW w \in Workers, AddService(o, w) PROVE Enters(o, w)
  <2>1. PICK h \in Slots : Adds(h, o)
    BY <1>7, AddServiceKept
  <2>2. \A p : p \in InTable' <=> p \in InTable \union {o}
    <3>1. \A k \in Slots : In(k)' = IF k = h THEN In(k) \union {o} ELSE In(k)
      BY <2>1 DEF Adds
    <3> QED BY <3>1, InTableIs, InTableAfter
  <2>3. o \notin InTable
    BY <1>7, TableOf DEF AddService
  <2>4. InTable' = InTable \union {o}
    BY <2>2
  <2> QED BY <1>7, <2>3, <2>4 DEF AddService, Enters, Idle
<1>8. ASSUME NEW id \in SvidStart..SvidRange - 1, DelService(id) PROVE \E o \in Objects : Exits(o)
  <2>1. PICK h \in Slots, o \in Objects : Released(h, o)
    BY <1>8, DelServiceKept
  <2> QED BY <1>8, <2>1, ReleasedTable DEF DelService, Exits, Idle, Released
<1>9. ASSUME Trim PROVE Stays
  <2>1. \A h \in Slots : In(h)' = In(h)
    BY <1>9, TrimKept DEF Returns, Ends, Holds, Drops
  <2> QED BY <1>9, <2>1, ListStays DEF Trim, table
<1>10. ASSUME Flush PROVE Stays
  BY <1>10, FlushKept, ListStays DEF Flush, memory, table, Idle
<1>11. ASSUME Receive PROVE Stays
  BY <1>11, ReceiveKept, ListStays DEF Drops, Receive, table, Idle
<1>12. ASSUME SweepStart PROVE Stays
  BY <1>12, SweepStartKept, ListStays DEF Holds, SweepStart, memory, table, Idle
<1>13. ASSUME Sweep PROVE Stays \/ \E o \in Objects : Exits(o)
  <2>1. owner' = owner /\ nelem' = nelem /\ doing = "sweep"
    BY <1>13 DEF Sweep
  <2>2. CASE doing' = "swept" /\ Holds /\ UNCHANGED pool
    BY <2>1, <2>2, SameTable DEF Stays, Holds
  <2>3. CASE \E i \in hint..NumSlots - 1 :
               doing' = doing /\ \E o \in Objects : Released(SlotHead(i), o)
    <3>1. PICK i \in hint..NumSlots - 1, o \in Objects :
             doing' = doing /\ Released(SlotHead(i), o)
      BY <2>3
    <3>2. SlotHead(i) \in Slots
      BY StorageAssumption DEF Slots, Kept, Typed
    <3>3. o \in InTable /\ InTable' = InTable \ {o}
      BY <3>1, <3>2, ReleasedTable
    <3>4. Reweigh(owner[o], -1)
      BY <3>1 DEF Released
    <3>5. Exits(o)
      BY <2>1, <3>1, <3>3, <3>4 DEF Exits
    <3> QED BY <3>5
  <2> QED BY <1>13, <2>2, <2>3, SweepKept DEF Swept
<1>14. CASE \E o \in Objects : Free(o) \/ Send(o) \/ NewService(o)
  BY <1>4, <1>5, <1>6, <1>14
<1>15. CASE \E o \in Objects, w \in Workers : AddService(o, w)
  BY <1>7, <1>15
<1>16. CASE \E id \in SvidStart..SvidRange - 1 : DelService(id)
  BY <1>8, <1>16
<1>17. CASE (\E o \in Objects, n \in Sizes : AllocNew(o, n)) \/ \E n \in Sizes : AllocFree(n)
  BY <1>1, <1>2, <1>17
<1> HIDE DEF Goal
<1>18. CASE AllocFails \/ Trim \/ Flush \/ Receive \/ SweepStart \/ Sweep
  BY <1>3, <1>9, <1>10, <1>11, <1>12, <1>13, <1>18 DEF Goal
<1> QED BY <1>14, <1>15, <1>16, <1>17, <1>18 DEF Next

-----------------------------------------------------------------------------
(* What the table finds and counts.                                        *)

\* nelem is the number of services until the sweep, which leaves nothing behind
\* the slot it has come to.
Counted ==
    /\ nelem \in Nat
    /\ doing \notin {"sweep", "swept"} => nelem = Cardinality(InTable)
    /\ doing = "sweep" => \A i \in 0..hint - 1 : In(SlotHead(i)) = {}
    /\ doing = "swept" => InTable = {}

LEMMA SweepBehind ==
    ASSUME Kept, Counted, Sweep, doing' = "sweep"
    PROVE  \A j \in 0..hint' - 1 : In(SlotHead(j))' = {}
<1>1. doing = "sweep" /\ hint \in 0..NumSlots /\ NumSlots \in Nat
  BY StorageAssumption DEF Sweep, Kept, Typed
<1>2. PICK i \in hint..NumSlots - 1 :
         /\ hint' = i /\ \A j \in hint..i - 1 : In(SlotHead(j)) = {}
         /\ \E o \in Objects : Released(SlotHead(i), o)
  BY SweepKept DEF Swept
<1>3. \A j \in 0..i - 1 : In(SlotHead(j)) = {}
  <2> SUFFICES ASSUME NEW j \in 0..i - 1 PROVE In(SlotHead(j)) = {}
    OBVIOUS
  <2>1. j \in 0..hint - 1 \/ j \in hint..i - 1
    BY <1>1
  <2> QED BY <1>1, <1>2, <2>1 DEF Counted
<1>4. \A j \in 0..i - 1 : SlotHead(j) \in Heads
  <2>1. \A j \in 0..i - 1 : j \in 0..NumSlots - 1
    BY <1>1
  <2> QED BY <2>1, SlotsAre DEF Slots
<1>5. \A k \in Heads : In(k)' \subseteq In(k)
  BY <1>2 DEF Released, Drops
<1> QED BY <1>2, <1>3, <1>4, <1>5

LEMMA SweepEnd ==
    ASSUME Kept, Counted, Sweep, doing' = "swept"
    PROVE  InTable' = {}
<1>1. doing = "sweep" /\ hint \in 0..NumSlots /\ NumSlots \in Nat
  BY StorageAssumption DEF Sweep, Kept, Typed
<1>2. Holds /\ \A j \in hint..NumSlots - 1 : In(SlotHead(j)) = {}
  BY <1>1, SweepKept DEF Swept
<1>3. ASSUME NEW h \in Slots PROVE In(h)' = {}
  <2>1. PICK i \in 0..NumSlots - 1 : h = SlotHead(i)
    BY DEF Slots
  <2>2. i \in 0..hint - 1 \/ i \in hint..NumSlots - 1
    BY <1>1
  <2>3. In(h) = {}
    BY <1>1, <1>2, <2>1, <2>2 DEF Counted
  <2> QED BY <1>2, <2>3, SlotsAre DEF Holds
<1> QED BY <1>3, InTableAfter

LEMMA NextCounted == ASSUME Kept, Counted, Next PROVE Counted'
<1>1. /\ nelem' \in Nat
      /\ doing' \notin {"sweep", "swept"} => nelem' = Cardinality(InTable)'
  <2>1. CASE Stays
    BY <2>1 DEF Stays, Counted
  <2>2. CASE \E o \in Objects, w \in Workers : Enters(o, w)
    <3>1. PICK o \in Objects, w \in Workers : Enters(o, w)
      BY <2>2
    <3>2. Cardinality(InTable \union {o}) = Cardinality(InTable) + 1
      BY <3>1, TableOf, FS_AddElement DEF Enters
    <3> QED BY <3>1, <3>2 DEF Enters, Counted
  <2>3. CASE \E o \in Objects : Exits(o)
    <3>1. PICK o \in Objects : Exits(o)
      BY <2>3
    <3>2. Cardinality(InTable \ {o}) = Cardinality(InTable) - 1
      BY <3>1, TableOf, FS_RemoveElement DEF Exits
    <3>3. Cardinality(InTable \ {o}) \in Nat
      BY TableOf, FS_RemoveElement, FS_CardinalityType
    <3>4. CASE doing = "idle"
      BY <3>1, <3>2, <3>3, <3>4 DEF Exits, Counted
    <3>5. CASE doing = "sweep"
      BY <3>1, <3>5 DEF Exits, Counted
    <3> QED BY <3>1, <3>4, <3>5 DEF Exits
  <2> QED BY <2>1, <2>2, <2>3, NextTable
<1>2. doing' = "sweep" => \A i \in 0..hint' - 1 : In(SlotHead(i))' = {}
  <2> SUFFICES ASSUME doing' = "sweep" PROVE \A i \in 0..hint' - 1 : In(SlotHead(i))' = {}
    OBVIOUS
  <2>1. CASE SweepStart
    BY <2>1 DEF SweepStart
  <2>2. CASE Sweep
    BY <2>2, SweepBehind
  <2>3. CASE ~Sweep /\ ~SweepStart
    <3>1. doing' \in {"idle", "trim"} \/ (doing = "idle" /\ doing' = doing) \/ (doing = "trim" /\ doing' = doing)
      BY <2>3 DEF Next, AllocNew, AllocFree, AllocFails, Free, Send, NewService,
                  AddService, DelService, Trim, Flush, Receive, Idle
    <3> QED BY <3>1
  <2> QED BY <2>1, <2>2, <2>3
<1>3. doing' = "swept" => InTable' = {}
  <2>1. CASE Sweep
    BY <2>1, SweepEnd
  <2>2. CASE ~Sweep
    <3>1. doing' # "swept"
      BY <2>2 DEF Next, AllocNew, AllocFree, AllocFails, Free, Send, NewService,
                  AddService, DelService, Trim, Flush, Receive, SweepStart, Idle
    <3> QED BY <3>1
  <2> QED BY <2>1, <2>2
<1> QED BY <1>1, <1>2, <1>3 DEF Counted

LEMMA CountedFinds == Kept /\ Counted => Found
<1> SUFFICES ASSUME Kept, Counted PROVE Found
  OBVIOUS
<1>1. ASSUME NEW o \in InTable
      PROVE  Find(svid[o]) = o \/ \E p \in InTable \ {o} : svid[p] = svid[o]
  <2>1. PICK h \in Slots : o \in In(h)
    BY InTableIs
  <2>2. o \in Objects /\ HeadOf(svid[o]) = h
    BY <2>1, TableOf DEF Kept, Rows
  <2>3. svid[o] \in Nat /\ ListsOK
    BY <2>2, StorageAssumption DEF Kept, Blocks, IdsInv, IdsTyped
  <2> DEFINE p == Find(svid[o])
  <2>4. /\ p = Null => \A r \in In(h) : svid[r] # svid[o]
        /\ p # Null => \E i \in 1..Len(ListOf(h)) : p = ListOf(h)[i] /\ svid[p] = svid[o]
    BY <2>2, <2>3, FindIs
  <2> HIDE DEF p
  <2>5. p # Null
    BY <2>1, <2>4
  <2>6. p \in In(h) /\ svid[p] = svid[o]
    BY <2>3, <2>4, <2>5, ContentType, SlotsAre
  <2>7. p \in InTable
    BY <2>6, InTableIs
  <2> QED BY <2>6, <2>7 DEF p
<1>2. doing = "sweep" => \A i \in 0..hint - 1 : next[SlotHead(i)] = Null
  <2> SUFFICES ASSUME doing = "sweep", NEW i \in 0..hint - 1 PROVE next[SlotHead(i)] = Null
    OBVIOUS
  <2>1. In(SlotHead(i)) = {}
    BY DEF Counted
  <2>2. i \in 0..NumSlots - 1
    BY StorageAssumption DEF Kept, Typed
  <2>3. SlotHead(i) \in Slots /\ SlotHead(i) \in Heads
    BY <2>2, SlotsAre DEF Slots
  <2>4. ListOf(SlotHead(i)) # <<>> => next[SlotHead(i)] \in In(SlotHead(i))
    BY <2>3, ContentType DEF Kept, Blocks
  <2> QED BY <2>1, <2>3, <2>4, ContentType DEF Kept, Blocks
<1> QED BY <1>1, <1>2 DEF Found, Counted

LEMMA InitCounted == Init => Counted
<1> SUFFICES ASSUME Init PROVE Counted
  OBVIOUS
<1>1. \A l \in Heads : In(l) = {}
  BY InitKept DEF In, Content, ToSet, Heads
<1>2. InTable = {}
  BY <1>1, InTableIs, SlotsAre
<1>3. nelem = 0 /\ doing = "idle"
  BY DEF Init
<1> QED BY <1>2, <1>3, FS_EmptySet DEF Counted

LEMMA CountedStep == Kept /\ Counted /\ [Next]_vars => Counted'
<1> SUFFICES ASSUME Kept, Counted, UNCHANGED vars PROVE Counted'
  BY NextCounted
<1>1. \A h \in Heads : In(h)' = In(h)
  BY StillStep DEF vars, Kept, Blocks, Holds
<1>2. InTable' = InTable
  BY <1>1, SameTable, SlotsAre
<1>3. doing' = "sweep" => \A i \in 0..hint' - 1 : In(SlotHead(i))' = {}
  <2>1. hint' = hint /\ doing' = doing
    BY DEF vars
  <2>2. \A i \in 0..hint - 1 : SlotHead(i) \in Heads
    <3>1. \A i \in 0..hint - 1 : i \in 0..NumSlots - 1
      BY StorageAssumption DEF Kept, Typed
    <3> QED BY <3>1, SlotsAre DEF Slots
  <2> QED BY <1>1, <2>1, <2>2 DEF Counted
<1> QED BY <1>2, <1>3 DEF Counted, vars, table

\* l_srvctabledfind finds every service that is in the table under its id, or
\* one that got the same id; nelem counts them; l_srvctableddelFront, which
\* begins at the slot of the last, has left nothing before it.
THEOREM ServicesAreFound == Spec => []Found
BY InitCounted, CountedStep, CountedFinds, KeptInvariance, PTL DEF Spec

-----------------------------------------------------------------------------
(* The pool as a ring through its head.                                    *)

\* The pointers nx and pv lead through the n workers q[1], ..., q[n].
Ring(nx, pv, q, n) ==
    /\ q \in [0..n + 1 -> 0..NumWorkers]
    /\ q[0] = Pool /\ q[n + 1] = Pool
    /\ \A i \in 1..n : q[i] \in Workers
    /\ \A i, j \in 0..n : q[i] = q[j] => i = j
    /\ \A i \in 0..n : nx[q[i]] = q[i + 1] /\ pv[q[i + 1]] = q[i]

Members(q, n) == {q[i] : i \in 1..n}

Without(q, n, k) == [i \in 0..n |-> IF i < k THEN q[i] ELSE q[i + 1]]

With(r, m, j, w) ==
    [i \in 0..m + 2 |-> IF i < j THEN r[i] ELSE IF i = j THEN w ELSE r[i - 1]]

Links == [0..NumWorkers -> 0..NumWorkers]

\* w is put in before the node a.
NextWith(nx, pv, a, w) == [nx EXCEPT ![pv[a]] = w, ![w] = a]

PrevWith(pv, a, w) == [pv EXCEPT ![w] = pv[a], ![a] = w]

\* l_priorq_remove.
LEMMA RingRemove ==
    ASSUME NEW nx \in Links, NEW pv \in Links, NEW n \in Nat \ {0}, NEW q,
           Ring(nx, pv, q, n), NEW k \in 1..n
    PROVE  LET w == q[k]
               r == Without(q, n, k)
               ny == [nx EXCEPT ![pv[w]] = nx[w]]
               py == [pv EXCEPT ![nx[w]] = pv[w]]
           IN  /\ ny \in Links /\ py \in Links /\ Ring(ny, py, r, n - 1)
               /\ \A i \in 0..n : r[i] # w
               /\ Members(r, n - 1) = Members(q, n) \ {w}
<1> DEFINE w == q[k]
           r == Without(q, n, k)
           ny == [nx EXCEPT ![pv[w]] = nx[w]]
           py == [pv EXCEPT ![nx[w]] = pv[w]]
<1>1. /\ q \in [0..n + 1 -> 0..NumWorkers] /\ q[0] = Pool /\ q[n + 1] = Pool
      /\ \A i \in 1..n : q[i] \in Workers
      /\ \A i, j \in 0..n : q[i] = q[j] => i = j
      /\ \A i \in 0..n : nx[q[i]] = q[i + 1] /\ pv[q[i + 1]] = q[i]
      /\ Pool \notin Workers
  BY DEF Ring, Pool, Workers
<1>2. pv[w] = q[k - 1] /\ nx[w] = q[k + 1]
  <2>1. k - 1 \in 0..n /\ k \in 0..n /\ (k - 1) + 1 = k
    OBVIOUS
  <2> QED BY <1>1, <2>1
<1>3. q[k - 1] \in 0..NumWorkers /\ q[k + 1] \in 0..NumWorkers /\ w \in Workers
  BY <1>1
<1>4. /\ ny \in Links /\ py \in Links
      /\ ny[q[k - 1]] = q[k + 1] /\ py[q[k + 1]] = q[k - 1]
      /\ \A a \in 0..NumWorkers : /\ a # q[k - 1] => ny[a] = nx[a]
                                  /\ a # q[k + 1] => py[a] = pv[a]
  BY <1>2, <1>3 DEF Links
<1>5. /\ r \in [0..n -> 0..NumWorkers]
      /\ \A i \in 0..n : r[i] = IF i < k THEN q[i] ELSE q[i + 1]
  <2>1. \A i \in 0..n : q[i] \in 0..NumWorkers /\ q[i + 1] \in 0..NumWorkers
    BY <1>1
  <2> QED BY <2>1 DEF Without
<1>6. \A i, j \in 1..n + 1 : q[i] = q[j] => i = j
  <2> SUFFICES ASSUME NEW i \in 1..n + 1, NEW j \in 1..n + 1, q[i] = q[j] PROVE i = j
    OBVIOUS
  <2>1. CASE i \in 1..n /\ j \in 1..n
    BY <1>1, <2>1
  <2>2. CASE i = n + 1 /\ j \in 1..n
    BY <1>1, <2>2
  <2>3. CASE j = n + 1 /\ i \in 1..n
    BY <1>1, <2>3
  <2> QED BY <2>1, <2>2, <2>3
<1> HIDE DEF ny, py, r
<1>7. r[0] = Pool /\ r[n] = Pool
  BY <1>1, <1>5
<1>8. \A i \in 1..n - 1 : r[i] \in Workers
  <2> SUFFICES ASSUME NEW i \in 1..n - 1 PROVE r[i] \in Workers
    OBVIOUS
  <2>1. i \in 0..n /\ i \in 1..n /\ i + 1 \in 1..n
    OBVIOUS
  <2>2. r[i] = q[i] \/ r[i] = q[i + 1]
    BY <1>5, <2>1
  <2> QED BY <1>1, <2>1, <2>2
<1>9. \A i, j \in 0..n - 1 : r[i] = r[j] => i = j
  <2> SUFFICES ASSUME NEW i \in 0..n - 1, NEW j \in 0..n - 1, r[i] = r[j] PROVE i = j
    OBVIOUS
  <2>1. /\ r[i] = IF i < k THEN q[i] ELSE q[i + 1]
        /\ r[j] = IF j < k THEN q[j] ELSE q[j + 1]
        /\ i \in 0..n /\ i + 1 \in 0..n /\ j \in 0..n /\ j + 1 \in 0..n
    BY <1>5
  <2>2. CASE i < k /\ j < k
    BY <1>1, <2>1, <2>2
  <2>3. CASE ~(i < k) /\ ~(j < k)
    <3>1. q[i + 1] = q[j + 1] /\ i + 1 \in 0..n /\ j + 1 \in 0..n
      BY <2>1, <2>3
    <3>2. i + 1 = j + 1
      BY <1>1, <3>1
    <3> QED BY <3>2
  <2>4. CASE i < k /\ ~(j < k)
    <3>1. i = j + 1
      BY <1>1, <2>1, <2>4
    <3> QED BY <2>4, <3>1
  <2>5. CASE ~(i < k) /\ j < k
    <3>1. i + 1 = j
      BY <1>1, <2>1, <2>5
    <3> QED BY <2>5, <3>1
  <2> QED BY <2>2, <2>3, <2>4, <2>5
<1>10. \A i \in 0..n : r[i] # w
  <2> SUFFICES ASSUME NEW i \in 0..n PROVE r[i] # w
    OBVIOUS
  <2>1. CASE i < k
    BY <1>1, <1>5, <2>1
  <2>2. CASE ~(i < k)
    <3>1. i + 1 \in 1..n + 1 /\ i + 1 # k /\ k \in 1..n + 1
      BY <2>2
    <3> QED BY <1>5, <1>6, <2>2, <3>1
  <2> QED BY <2>1, <2>2
<1>11. \A i \in 0..n - 1 : ny[r[i]] = r[i + 1] /\ py[r[i + 1]] = r[i]
  <2> SUFFICES ASSUME NEW i \in 0..n - 1
               PROVE  ny[r[i]] = r[i + 1] /\ py[r[i + 1]] = r[i]
    OBVIOUS
  <2>0. /\ r[i] = IF i < k THEN q[i] ELSE q[i + 1]
        /\ r[i + 1] = IF i + 1 < k THEN q[i + 1] ELSE q[i + 2]
    <3>1. i \in 0..n /\ i + 1 \in 0..n /\ (i + 1) + 1 = i + 2
      OBVIOUS
    <3> QED BY <1>5, <3>1
  <2>1. CASE i + 1 < k
    <3>1. r[i] = q[i] /\ r[i + 1] = q[i + 1] /\ i \in 0..n /\ k - 1 \in 0..n /\ i # k - 1
      BY <2>0, <2>1
    <3>2. q[i] # q[k - 1] /\ nx[q[i]] = q[i + 1] /\ pv[q[i + 1]] = q[i]
      BY <1>1, <3>1
    <3>3. i + 1 \in 1..n + 1 /\ k + 1 \in 1..n + 1 /\ i + 1 # k + 1
      BY <2>1
    <3>4. q[i + 1] # q[k + 1]
      BY <1>6, <3>3
    <3>5. q[i] \in 0..NumWorkers /\ q[i + 1] \in 0..NumWorkers
      BY <1>1
    <3> QED BY <1>4, <3>1, <3>2, <3>4, <3>5
  <2>2. CASE i + 1 = k
    <3>1. r[i] = q[k - 1] /\ r[i + 1] = q[k + 1]
      BY <2>0, <2>2
    <3> QED BY <1>4, <3>1
  <2>3. CASE i + 1 > k
    <3>1. r[i] = q[i + 1] /\ r[i + 1] = q[i + 2] /\ i + 1 \in 0..n /\ k - 1 \in 0..n
          /\ i + 1 # k - 1 /\ (i + 1) + 1 = i + 2
      BY <2>0, <2>3
    <3>2. q[i + 1] # q[k - 1] /\ nx[q[i + 1]] = q[i + 2] /\ pv[q[i + 2]] = q[i + 1]
      BY <1>1, <3>1
    <3>3. i + 2 \in 1..n + 1 /\ k + 1 \in 1..n + 1 /\ i + 2 # k + 1
      BY <2>3
    <3>4. q[i + 2] # q[k + 1]
      BY <1>6, <3>3
    <3>5. q[i + 1] \in 0..NumWorkers /\ q[i + 2] \in 0..NumWorkers
      BY <1>1, <3>1, <3>3
    <3> QED BY <1>4, <3>1, <3>2, <3>4, <3>5
  <2> QED BY <2>1, <2>2, <2>3
<1>12. Members(r, n - 1) = Members(q, n) \ {w}
  <2>1. ASSUME NEW x \in Members(r, n - 1) PROVE x \in Members(q, n) \ {w}
    <3>1. PICK i \in 1..n - 1 : x = r[i]
      BY DEF Members
    <3>2. x = q[i] \/ x = q[i + 1]
      BY <1>5, <3>1
    <3>3. i \in 1..n /\ i + 1 \in 1..n /\ i \in 0..n
      OBVIOUS
    <3> QED BY <1>10, <3>1, <3>2, <3>3 DEF Members
  <2>2. ASSUME NEW x \in Members(q, n) \ {w} PROVE x \in Members(r, n - 1)
    <3>1. PICK i \in 1..n : x = q[i]
      BY DEF Members
    <3>2. i # k
      BY <3>1
    <3>3. CASE i < k
      <4>1. i \in 1..n - 1 /\ r[i] = x
        BY <1>5, <3>1, <3>3
      <4> QED BY <4>1 DEF Members
    <3>4. CASE i > k
      <4>1. i - 1 \in 1..n - 1 /\ i - 1 \in 0..n /\ ~(i - 1 < k) /\ (i - 1) + 1 = i
        BY <3>4
      <4>2. r[i - 1] = x
        BY <1>5, <3>1, <4>1
      <4> QED BY <4>1, <4>2 DEF Members
    <3> QED BY <3>2, <3>3, <3>4
  <2> QED BY <2>1, <2>2
<1>13. Ring(ny, py, r, n - 1)
  <2>1. (n - 1) + 1 = n
    OBVIOUS
  <2> QED BY <1>5, <1>7, <1>8, <1>9, <1>11, <2>1 DEF Ring
<1> QED BY <1>4, <1>10, <1>12, <1>13 DEF ny, py, r

\* l_priorq_push, once the place is found.
LEMMA RingInsert ==
    ASSUME NEW nx \in Links, NEW pv \in Links, NEW m \in Nat, NEW r,
           Ring(nx, pv, r, m), NEW w \in Workers, \A i \in 0..m + 1 : r[i] # w,
           NEW j \in 1..m + 1
    PROVE  /\ NextWith(nx, pv, r[j], w) \in Links /\ PrevWith(pv, r[j], w) \in Links
           /\ Ring(NextWith(nx, pv, r[j], w), PrevWith(pv, r[j], w), With(r, m, j, w), m + 1)
           /\ Members(With(r, m, j, w), m + 1) = Members(r, m) \union {w}
<1> DEFINE q == With(r, m, j, w)
           ny == NextWith(nx, pv, r[j], w)
           py == PrevWith(pv, r[j], w)
<1>1. /\ r \in [0..m + 1 -> 0..NumWorkers] /\ r[0] = Pool /\ r[m + 1] = Pool
      /\ \A i \in 1..m : r[i] \in Workers
      /\ \A i, k \in 0..m : r[i] = r[k] => i = k
      /\ \A i \in 0..m : nx[r[i]] = r[i + 1] /\ pv[r[i + 1]] = r[i]
      /\ Pool \notin Workers
  BY DEF Ring, Pool, Workers
<1>2. pv[r[j]] = r[j - 1]
  <2>1. j - 1 \in 0..m /\ (j - 1) + 1 = j
    OBVIOUS
  <2> QED BY <1>1, <2>1
<1>3. /\ r[j] \in 0..NumWorkers /\ r[j - 1] \in 0..NumWorkers /\ w \in 0..NumWorkers
      /\ r[j] # w /\ r[j - 1] # w
  <2>1. j \in 0..m + 1 /\ j - 1 \in 0..m + 1
    OBVIOUS
  <2> QED BY <1>1, <2>1 DEF Workers
<1>4. /\ ny \in Links /\ py \in Links
      /\ ny[r[j - 1]] = w /\ ny[w] = r[j] /\ py[w] = r[j - 1] /\ py[r[j]] = w
      /\ \A a \in 0..NumWorkers : a # w => /\ a # r[j - 1] => ny[a] = nx[a]
                                           /\ a # r[j] => py[a] = pv[a]
  BY <1>2, <1>3 DEF Links, NextWith, PrevWith
<1>5. /\ q \in [0..m + 2 -> 0..NumWorkers]
      /\ \A i \in 0..m + 2 : q[i] = IF i < j THEN r[i] ELSE IF i = j THEN w ELSE r[i - 1]
  <2>1. \A i \in 0..m + 2 : /\ i < j => r[i] \in 0..NumWorkers
                            /\ i > j => r[i - 1] \in 0..NumWorkers
    <3> SUFFICES ASSUME NEW i \in 0..m + 2
                 PROVE  /\ i < j => r[i] \in 0..NumWorkers
                        /\ i > j => r[i - 1] \in 0..NumWorkers
      OBVIOUS
    <3>1. i < j => i \in 0..m + 1
      OBVIOUS
    <3>2. i > j => i - 1 \in 0..m + 1
      OBVIOUS
    <3> QED BY <1>1, <3>1, <3>2
  <2> QED BY <1>3, <2>1 DEF With
<1>6. \A i, k \in 1..m + 1 : r[i] = r[k] => i = k
  <2> SUFFICES ASSUME NEW i \in 1..m + 1, NEW k \in 1..m + 1, r[i] = r[k] PROVE i = k
    OBVIOUS
  <2>1. CASE i \in 1..m /\ k \in 1..m
    BY <1>1, <2>1
  <2>2. CASE i = m + 1 /\ k \in 1..m
    BY <1>1, <2>2
  <2>3. CASE k = m + 1 /\ i \in 1..m
    BY <1>1, <2>3
  <2> QED BY <2>1, <2>2, <2>3
<1> HIDE DEF ny, py, q
<1>7. q[0] = Pool /\ q[m + 2] = Pool
  <2>1. 0 \in 0..m + 2 /\ m + 2 \in 0..m + 2 /\ (m + 2) - 1 = m + 1 /\ 0 < j /\ m + 2 > j
    OBVIOUS
  <2> QED BY <1>1, <1>5, <2>1
<1>8. \A i \in 1..m + 1 : q[i] \in Workers
  <2> SUFFICES ASSUME NEW i \in 1..m + 1 PROVE q[i] \in Workers
    OBVIOUS
  <2>1. CASE i < j
    <3>1. i \in 1..m /\ i \in 0..m + 2
      BY <2>1
    <3> QED BY <1>1, <1>5, <2>1, <3>1
  <2>2. CASE i = j
    BY <1>5, <2>2
  <2>3. CASE i > j
    <3>1. i - 1 \in 1..m /\ i \in 0..m + 2
      BY <2>3
    <3> QED BY <1>1, <1>5, <2>3, <3>1
  <2> QED BY <2>1, <2>2, <2>3
<1>9. \A i, k \in 0..m + 1 : q[i] = q[k] => i = k
  <2>1. ASSUME NEW i \in 0..m + 1, NEW k \in 0..m + 1, i < k, q[i] = q[k] PROVE FALSE
    <3>1. /\ q[i] = IF i < j THEN r[i] ELSE IF i = j THEN w ELSE r[i - 1]
          /\ q[k] = IF k < j THEN r[k] ELSE IF k = j THEN w ELSE r[k - 1]
      BY <1>5
    <3>2. CASE k < j
      <4>1. i < j /\ i \in 0..m /\ k \in 0..m /\ i # k
        BY <2>1, <3>2
      <4>2. r[i] = r[k]
        BY <2>1, <3>1, <3>2, <4>1
      <4> QED BY <1>1, <4>1, <4>2
    <3>3. CASE k = j
      <4>1. i < j /\ ~(k < j)
        BY <2>1, <3>3
      <4>2. r[i] = w
        BY <2>1, <3>1, <3>3, <4>1
      <4> QED BY <2>1, <4>2
    <3>4. CASE k > j
      <4>1. k - 1 \in 0..m /\ k - 1 \in 0..m + 1 /\ q[k] = r[k - 1]
        BY <3>1, <3>4
      <4>2. CASE i < j
        <5>1. i \in 0..m /\ i < k - 1 /\ q[i] = r[i]
          BY <3>1, <3>4, <4>2
        <5>2. i = k - 1
          BY <1>1, <2>1, <4>1, <5>1
        <5> QED BY <5>1, <5>2
      <4>3. CASE i = j
        <5>1. ~(i < j)
          BY <4>3
        <5>2. r[k - 1] = w
          BY <2>1, <3>1, <4>1, <4>3, <5>1
        <5> QED BY <4>1, <5>2
      <4>4. CASE i > j
        <5>1. i - 1 \in 0..m /\ i - 1 # k - 1 /\ q[i] = r[i - 1]
          BY <2>1, <3>1, <4>4
        <5>2. i - 1 = k - 1
          BY <1>1, <2>1, <4>1, <5>1
        <5> QED BY <5>1, <5>2
      <4> QED BY <4>2, <4>3, <4>4
    <3> QED BY <3>2, <3>3, <3>4
  <2> SUFFICES ASSUME NEW i \in 0..m + 1, NEW k \in 0..m + 1, q[i] = q[k] PROVE i = k
    OBVIOUS
  <2>2. ~(i < k) /\ ~(k < i)
    BY <2>1
  <2> QED BY <2>2
<1>10. \A i \in 0..m + 1 : ny[q[i]] = q[i + 1] /\ py[q[i + 1]] = q[i]
  <2> SUFFICES ASSUME NEW i \in 0..m + 1
               PROVE  ny[q[i]] = q[i + 1] /\ py[q[i + 1]] = q[i]
    OBVIOUS
  <2>1. /\ q[i] = IF i < j THEN r[i] ELSE IF i = j THEN w ELSE r[i - 1]
        /\ q[i + 1] = IF i + 1 < j THEN r[i + 1] ELSE IF i + 1 = j THEN w ELSE r[i]
    <3>1. i \in 0..m + 2 /\ i + 1 \in 0..m + 2 /\ (i + 1) - 1 = i
      OBVIOUS
    <3> QED BY <1>5, <3>1
  <2>2. CASE i + 1 < j
    <3>1. /\ q[i] = r[i] /\ q[i + 1] = r[i + 1] /\ i \in 0..m /\ j - 1 \in 0..m /\ i # j - 1
          /\ i + 1 \in 1..m + 1 /\ i + 1 # j /\ i \in 0..m + 1 /\ i + 1 \in 0..m + 1
      BY <2>1, <2>2
    <3>2. r[i] # r[j - 1] /\ nx[r[i]] = r[i + 1] /\ pv[r[i + 1]] = r[i]
      BY <1>1, <3>1
    <3>3. r[i + 1] # r[j]
      BY <1>6, <3>1
    <3>4. r[i] # w /\ r[i + 1] # w /\ r[i] \in 0..NumWorkers /\ r[i + 1] \in 0..NumWorkers
      BY <1>1, <3>1
    <3> QED BY <1>4, <3>1, <3>2, <3>3, <3>4
  <2>3. CASE i + 1 = j
    <3>1. q[i] = r[j - 1] /\ q[i + 1] = w
      BY <2>1, <2>3
    <3> QED BY <1>4, <3>1
  <2>4. CASE i = j
    <3>1. q[i] = w /\ q[i + 1] = r[j]
      BY <2>1, <2>4
    <3> QED BY <1>4, <3>1
  <2>5. CASE i > j
    <3>1. /\ q[i] = r[i - 1] /\ q[i + 1] = r[i] /\ i - 1 \in 0..m /\ j - 1 \in 0..m
          /\ i - 1 # j - 1 /\ (i - 1) + 1 = i
          /\ i \in 1..m + 1 /\ i # j /\ i - 1 \in 0..m + 1
      BY <2>1, <2>5
    <3>2. r[i - 1] # r[j - 1] /\ nx[r[i - 1]] = r[i] /\ pv[r[i]] = r[i - 1]
      BY <1>1, <3>1
    <3>3. r[i] # r[j]
      BY <1>6, <3>1
    <3>4. r[i - 1] # w /\ r[i] # w /\ r[i - 1] \in 0..NumWorkers /\ r[i] \in 0..NumWorkers
      BY <1>1, <3>1
    <3> QED BY <1>4, <3>1, <3>2, <3>3, <3>4
  <2> QED BY <2>2, <2>3, <2>4, <2>5
<1>11. Members(q, m + 1) = Members(r, m) \union {w}
  <2>1. ASSUME NEW x \in Members(q, m + 1) PROVE x \in Members(r, m) \union {w}
    <3>1. PICK i \in 1..m + 1 : x = q[i]
      BY DEF Members
    <3>2. q[i] = IF i < j THEN r[i] ELSE IF i = j THEN w ELSE r[i - 1]
      BY <1>5
    <3>3. CASE i < j
      <4>1. i \in 1..m /\ x = r[i]
        BY <3>1, <3>2, <3>3
      <4> QED BY <4>1 DEF Members
    <3>4. CASE i = j
      BY <3>1, <3>2, <3>4
    <3>5. CASE i > j
      <4>1. i - 1 \in 1..m /\ x = r[i - 1]
        BY <3>1, <3>2, <3>5
      <4> QED BY <4>1 DEF Members
    <3> QED BY <3>3, <3>4, <3>5
  <2>2. ASSUME NEW x \in Members(r, m) PROVE x \in Members(q, m + 1)
    <3>1. PICK i \in 1..m : x = r[i]
      BY <2>2 DEF Members
    <3>2. CASE i < j
      <4>1. i \in 1..m + 1 /\ q[i] = x
        BY <1>5, <3>1, <3>2
      <4> QED BY <4>1 DEF Members
    <3>3. CASE ~(i < j)
      <4>1. i + 1 \in 1..m + 1 /\ i + 1 \in 0..m + 2 /\ i + 1 > j /\ (i + 1) - 1 = i
        BY <3>3
      <4>2. q[i + 1] = x
        BY <1>5, <3>1, <4>1
      <4> QED BY <4>1, <4>2 DEF Members
    <3> QED BY <3>2, <3>3
  <2>3. w \in Members(q, m + 1)
    <3>1. q[j] = w
      BY <1>5
    <3> QED BY <3>1 DEF Members
  <2> QED BY <2>1, <2>2, <2>3
<1>12. Ring(ny, py, q, m + 1)
  <2>1. (m + 1) + 1 = m + 2
    OBVIOUS
  <2> QED BY <1>5, <1>7, <1>8, <1>9, <1>10, <2>1 DEF Ring
<1> QED BY <1>4, <1>11, <1>12 DEF ny, py, q

\* The workers are in the order of their loads.
Ordered(wt, q, n) == \A i, j \in 1..n : i <= j => wt[q[i]] <= wt[q[j]]

\* Before r[j] is the place of w.
Placed(nx, pv, r, m, wt, w, j) ==
    /\ Pushed(nx, pv, w, wt) = [nx |-> NextWith(nx, pv, r[j], w),
                                pv |-> PrevWith(pv, r[j], w)]
    /\ \A i \in 1..j - 1 : wt[r[i]] <= wt[w]
    /\ \A i \in j..m : wt[w] <= wt[r[i]]

\* l_priorq_push finds the place before the first that is not less loaded.
LEMMA PushPlace ==
    ASSUME NEW nx, NEW pv, NEW m \in Nat, m + 1 = NumWorkers, NEW r, Ring(nx, pv, r, m),
           NEW wt \in [Workers -> Int], Ordered(wt, r, m), NEW w \in Workers
    PROVE  \E j \in 1..m + 1 : Placed(nx, pv, r, m, wt, w, j)
<1> DEFINE stops == {i \in 1..m + 1 : r[i] = Pool \/ ~LessLoaded(wt[r[i]], wt[w])}
<1>1. /\ r[0] = Pool /\ r[m + 1] = Pool /\ Pool \notin Workers
      /\ \A i \in 1..m : r[i] \in Workers
      /\ \A i \in 0..m : nx[r[i]] = r[i + 1]
  BY DEF Ring, Pool, Workers
<1>2. PICK j : j \in stops /\ \A i \in stops : j <= i
  <2>1. stops \in SUBSET Nat /\ m + 1 \in stops
    BY <1>1
  <2> HIDE DEF stops
  <2> QED BY <2>1, MinOf
<1>3. j \in 1..m + 1 /\ (r[j] = Pool \/ ~LessLoaded(wt[r[j]], wt[w]))
  BY <1>2
<1>4. \A i \in 1..j - 1 : i \in 1..m /\ r[i] # Pool /\ LessLoaded(wt[r[i]], wt[w])
  <2> SUFFICES ASSUME NEW i \in 1..j - 1
               PROVE  i \in 1..m /\ r[i] # Pool /\ LessLoaded(wt[r[i]], wt[w])
    OBVIOUS
  <2>1. i \in 1..m /\ ~(j <= i)
    BY <1>3
  <2>2. i \notin stops
    BY <1>2, <2>1
  <2>3. i \in 1..m + 1
    BY <2>1
  <2> QED BY <2>1, <2>2, <2>3
<1> HIDE DEF stops
<1> DEFINE Body(f, n) ==
             IF n = 0 THEN nx[Pool]
             ELSE IF f[n - 1] # Pool /\ LessLoaded(wt[f[n - 1]], wt[w])
                  THEN nx[f[n - 1]] ELSE f[n - 1]
           path == CHOOSE f : f = [n \in 0..NumWorkers |-> Body(f, n)]
           At(n) == r[IF n + 1 < j THEN n + 1 ELSE j]
           g == [n \in 0..NumWorkers |-> At(n)]
<1>5. At(0) = nx[Pool]
  <2>1. 0 \in 0..m /\ 0 + 1 = 1 /\ (j = 1 \/ 1 < j)
    BY <1>3
  <2>2. nx[r[0]] = r[1]
    BY <1>1, <2>1
  <2> QED BY <1>1, <2>1, <2>2
<1>6. \A n \in 1..NumWorkers :
        At(n) = IF At(n - 1) # Pool /\ LessLoaded(wt[At(n - 1)], wt[w])
                THEN nx[At(n - 1)] ELSE At(n - 1)
  <2> SUFFICES ASSUME NEW n \in 1..NumWorkers
               PROVE  At(n) = IF At(n - 1) # Pool /\ LessLoaded(wt[At(n - 1)], wt[w])
                              THEN nx[At(n - 1)] ELSE At(n - 1)
    OBVIOUS
  <2>1. n \in Nat /\ (n - 1) + 1 = n
    OBVIOUS
  <2>2. CASE n < j
    <3>1. At(n - 1) = r[n]
      BY <2>1, <2>2
    <3>2. n \in 1..j - 1 /\ n \in 0..m
      BY <1>3, <2>1, <2>2
    <3>3. At(n) = r[n + 1]
      BY <1>3, <2>1, <2>2
    <3>4. r[n] # Pool /\ LessLoaded(wt[r[n]], wt[w]) /\ nx[r[n]] = r[n + 1]
      BY <1>1, <1>4, <3>2
    <3> HIDE DEF At
    <3> QED BY <3>1, <3>3, <3>4
  <2>3. CASE ~(n < j)
    <3>1. At(n - 1) = r[j] /\ At(n) = r[j]
      BY <1>3, <2>1, <2>3
    <3> HIDE DEF At
    <3> QED BY <1>3, <3>1
  <2> QED BY <2>2, <2>3
<1>7. At(NumWorkers) = r[j]
  BY <1>3
<1> HIDE DEF At
<1>8. g = [n \in 0..NumWorkers |-> Body(g, n)]
  <2> SUFFICES ASSUME NEW n \in 0..NumWorkers PROVE g[n] = Body(g, n)
    OBVIOUS
  <2>1. CASE n = 0
    BY <1>5, <2>1
  <2>2. CASE n # 0
    <3>1. n \in 1..NumWorkers /\ n - 1 \in 0..NumWorkers
      BY <2>2
    <3>2. g[n] = At(n) /\ g[n - 1] = At(n - 1)
      BY <3>1
    <3> HIDE DEF g
    <3> QED BY <1>6, <2>2, <3>1, <3>2
  <2> QED BY <2>1, <2>2
<1>9. path = [n \in 0..NumWorkers |-> Body(path, n)]
  BY <1>8
<1>10. Pushed(nx, pv, w, wt) = [nx |-> NextWith(nx, pv, path[NumWorkers], w),
                                pv |-> PrevWith(pv, path[NumWorkers], w)]
  BY DEF Pushed, NextWith, PrevWith
<1> HIDE DEF path
<1>11. path[NumWorkers] = r[j]
  <2> DEFINE T == {n \in 0..NumWorkers : path[n] = At(n)}
  <2>1. 0 \in T
    <3>1. 0 \in 0..NumWorkers
      OBVIOUS
    <3> QED BY <1>5, <1>9, <3>1
  <2>2. \A n \in 0..NumWorkers - 1 : n \in T => n + 1 \in T
    <3> SUFFICES ASSUME NEW n \in 0..NumWorkers - 1, path[n] = At(n)
                 PROVE  path[n + 1] = At(n + 1)
      OBVIOUS
    <3>1. n + 1 \in 1..NumWorkers /\ n + 1 \in 0..NumWorkers /\ (n + 1) - 1 = n /\ n + 1 # 0
      OBVIOUS
    <3>2. path[n + 1] = Body(path, n + 1)
      BY <1>9, <3>1
    <3> QED BY <1>6, <3>1, <3>2
  <2>3. NumWorkers \in T
    <3>1. NumWorkers \in Nat /\ NumWorkers \in 0..NumWorkers
      OBVIOUS
    <3> HIDE DEF T
    <3> QED BY <2>1, <2>2, <3>1, CountingTo
  <2> QED BY <1>7, <2>3
<1>12. \A i \in 1..j - 1 : wt[r[i]] <= wt[w]
  <2> SUFFICES ASSUME NEW i \in 1..j - 1 PROVE wt[r[i]] <= wt[w]
    OBVIOUS
  <2>1. r[i] \in Workers /\ wt[r[i]] < wt[w]
    BY <1>1, <1>4 DEF LessLoaded
  <2> QED BY <2>1
<1>13. \A i \in j..m : wt[w] <= wt[r[i]]
  <2> SUFFICES ASSUME NEW i \in j..m PROVE wt[w] <= wt[r[i]]
    OBVIOUS
  <2>1. j \in 1..m /\ i \in 1..m /\ j <= i
    BY <1>3
  <2>2. r[j] \in Workers /\ r[i] \in Workers
    BY <1>1, <2>1
  <2>3. ~(wt[r[j]] < wt[w])
    BY <1>1, <1>3, <2>2 DEF LessLoaded
  <2>4. wt[r[j]] <= wt[r[i]]
    BY <2>1 DEF Ordered
  <2> QED BY <2>2, <2>3, <2>4
<1>14. Placed(nx, pv, r, m, wt, w, j)
  BY <1>10, <1>11, <1>12, <1>13 DEF Placed
<1> QED BY <1>3, <1>14

\* What stays in the pool keeps its order.
LEMMA WithoutOrdered ==
    ASSUME NEW n \in Nat \ {0}, NEW q, NEW wt, NEW vt, Ordered(wt, q, n), NEW k \in 1..n,
           \A i \in 1..n : i # k => vt[q[i]] = wt[q[i]]
    PROVE  Ordered(vt, Without(q, n, k), n - 1)
<1> DEFINE r == Without(q, n, k)
           src(i) == IF i < k THEN i ELSE i + 1
<1>1. \A i \in 1..n - 1 : src(i) \in 1..n /\ src(i) # k /\ r[i] = q[src(i)]
  BY DEF Without
<1>2. \A i, j \in 1..n - 1 : i <= j => src(i) <= src(j)
  OBVIOUS
<1> HIDE DEF r, src
<1> SUFFICES ASSUME NEW i \in 1..n - 1, NEW j \in 1..n - 1, i <= j PROVE vt[r[i]] <= vt[r[j]]
  BY DEF Ordered, r
<1>3. wt[q[src(i)]] <= wt[q[src(j)]]
  BY <1>1, <1>2 DEF Ordered
<1>4. /\ vt[q[src(i)]] = wt[q[src(i)]] /\ vt[q[src(j)]] = wt[q[src(j)]]
      /\ r[i] = q[src(i)] /\ r[j] = q[src(j)]
  BY <1>1
<1> QED BY <1>3, <1>4

\* The place of a worker is in the order.
LEMMA WithOrdered ==
    ASSUME NEW m \in Nat, NEW r, NEW wt, Ordered(wt, r, m), NEW w, wt[w] \in Int,
           NEW j \in 1..m + 1,
           \A i \in 1..j - 1 : wt[r[i]] <= wt[w], \A i \in j..m : wt[w] <= wt[r[i]],
           \A i \in 1..m : wt[r[i]] \in Int
    PROVE  Ordered(wt, With(r, m, j, w), m + 1)
<1> DEFINE q == With(r, m, j, w)
<1>1. \A i \in 1..m + 1 : q[i] = IF i < j THEN r[i] ELSE IF i = j THEN w ELSE r[i - 1]
  BY DEF With
<1> HIDE DEF q
<1> SUFFICES ASSUME NEW i \in 1..m + 1, NEW k \in 1..m + 1, i <= k PROVE wt[q[i]] <= wt[q[k]]
  BY DEF Ordered, q
<1>2. CASE k < j
  <2>1. q[i] = r[i] /\ q[k] = r[k] /\ i \in 1..m /\ k \in 1..m
    BY <1>1, <1>2
  <2> QED BY <2>1 DEF Ordered
<1>3. CASE k = j /\ i < j
  <2>1. q[i] = r[i] /\ q[k] = w /\ i \in 1..j - 1
    BY <1>1, <1>3
  <2> QED BY <2>1
<1>4. CASE k = j /\ i = j
  <2>1. q[i] = w /\ q[k] = w
    BY <1>1, <1>4
  <2> QED BY <2>1
<1>5. CASE k > j /\ i < j
  <2>1. q[i] = r[i] /\ q[k] = r[k - 1] /\ i \in 1..m /\ k - 1 \in 1..m /\ i <= k - 1
    BY <1>1, <1>5
  <2> QED BY <2>1 DEF Ordered
<1>6. CASE k > j /\ i = j
  <2>1. q[i] = w /\ q[k] = r[k - 1] /\ k - 1 \in j..m
    BY <1>1, <1>6
  <2> QED BY <2>1
<1>7. CASE k > j /\ i > j
  <2>1. /\ q[i] = r[i - 1] /\ q[k] = r[k - 1] /\ i - 1 \in 1..m /\ k - 1 \in 1..m
        /\ i - 1 <= k - 1
    BY <1>1, <1>7
  <2> QED BY <2>1 DEF Ordered
<1> QED BY <1>2, <1>3, <1>4, <1>5, <1>6, <1>7

\* The pool has every worker, in the order of the loads.
PoolRing(nx, pv, wt) ==
    \E q : /\ Ring(nx, pv, q, NumWorkers) /\ Members(q, NumWorkers) = Workers
           /\ Ordered(wt, q, NumWorkers)

\* Taking a worker out and putting it back with another load keeps the pool.
LEMMA Reweighed ==
    ASSUME pnext \in Links, pprev \in Links, weight \in [Workers -> Int],
           PoolRing(pnext, pprev, weight), NEW w \in Workers, NEW d \in Int, Reweigh(w, d)
    PROVE  /\ pnext' \in Links /\ pprev' \in Links
           /\ weight' = [weight EXCEPT ![w] = weight[w] + d]
           /\ PoolRing(pnext', pprev', weight')
<1> DEFINE nx == [pnext EXCEPT ![pprev[w]] = pnext[w]]
           pv == [pprev EXCEPT ![pnext[w]] = pprev[w]]
           wt == [weight EXCEPT ![w] = weight[w] + d]
           m == NumWorkers - 1
<1>1. weight' = wt /\ pnext' = Pushed(nx, pv, w, wt).nx /\ pprev' = Pushed(nx, pv, w, wt).pv
  BY DEF Reweigh
<1>2. NumWorkers \in Nat \ {0} /\ m \in Nat /\ m + 1 = NumWorkers
  BY StorageAssumption DEF Workers
<1>3. PICK q : /\ Ring(pnext, pprev, q, NumWorkers) /\ Members(q, NumWorkers) = Workers
               /\ Ordered(weight, q, NumWorkers)
  BY DEF PoolRing
<1>4. PICK k \in 1..NumWorkers : w = q[k]
  BY <1>3 DEF Members
<1> DEFINE r == Without(q, NumWorkers, k)
<1>5. /\ nx \in Links /\ pv \in Links /\ Ring(nx, pv, r, m)
      /\ \A i \in 0..m + 1 : r[i] # w
      /\ Members(r, m) = Workers \ {w}
  <2>1. /\ nx \in Links /\ pv \in Links /\ Ring(nx, pv, r, NumWorkers - 1)
        /\ \A i \in 0..NumWorkers : r[i] # w
        /\ Members(r, NumWorkers - 1) = Workers \ {w}
    <3>1. /\ pnext \in Links /\ pprev \in Links /\ NumWorkers \in Nat \ {0}
          /\ k \in 1..NumWorkers /\ Ring(pnext, pprev, q, NumWorkers)
          /\ Members(q, NumWorkers) = Workers
      BY <1>2, <1>3
    <3> HIDE DEF r
    <3> QED BY <1>4, <3>1, RingRemove DEF r
  <2> HIDE DEF r, nx, pv
  <2> QED BY <1>2, <2>1
<1> HIDE DEF r, m
<1>6. /\ wt \in [Workers -> Int] /\ wt[w] \in Int
      /\ \A v \in Workers \ {w} : wt[v] = weight[v]
  OBVIOUS
<1> HIDE DEF nx, pv, wt
<1>7. Ordered(wt, r, m)
  <2>1. \A i \in 1..NumWorkers : i # k => wt[q[i]] = weight[q[i]]
    <3> SUFFICES ASSUME NEW i \in 1..NumWorkers, i # k PROVE wt[q[i]] = weight[q[i]]
      OBVIOUS
    <3>1. q[i] \in Workers /\ q[i] # q[k]
      <4>1. i \in 0..NumWorkers /\ k \in 0..NumWorkers
        BY <1>2
      <4> QED BY <1>3, <4>1 DEF Ring
    <3> QED BY <1>4, <1>6, <3>1
  <2> QED BY <1>2, <1>3, <2>1, WithoutOrdered DEF r, m
<1>8. PICK j \in 1..m + 1 : Placed(nx, pv, r, m, wt, w, j)
  <2>1. m \in Nat /\ m + 1 = NumWorkers /\ Ring(nx, pv, r, m) /\ wt \in [Workers -> Int]
    BY <1>2, <1>5, <1>6
  <2> QED BY <1>7, <2>1, PushPlace
<1> DEFINE t == With(r, m, j, w)
           ny == NextWith(nx, pv, r[j], w)
           py == PrevWith(pv, r[j], w)
<1>9. /\ ny \in Links /\ py \in Links /\ Ring(ny, py, t, m + 1)
      /\ Members(t, m + 1) = Members(r, m) \union {w}
  <2>1. /\ m \in Nat /\ nx \in Links /\ pv \in Links /\ Ring(nx, pv, r, m)
        /\ \A i \in 0..m + 1 : r[i] # w
    BY <1>2, <1>5
  <2> QED BY <2>1, RingInsert
<1>10. pnext' = ny /\ pprev' = py
  BY <1>1, <1>8 DEF Placed
<1> HIDE DEF t, ny, py
<1>11. Ordered(wt, t, m + 1)
  <2>1. \A i \in 1..m : wt[r[i]] \in Int
    BY <1>5, <1>6 DEF Ring
  <2>2. (\A i \in 1..j - 1 : wt[r[i]] <= wt[w]) /\ (\A i \in j..m : wt[w] <= wt[r[i]])
    BY <1>8 DEF Placed
  <2> QED BY <1>2, <1>6, <1>7, <2>1, <2>2, WithOrdered DEF t
<1>12. Members(t, NumWorkers) = Workers
  BY <1>2, <1>5, <1>9
<1>13. PoolRing(ny, py, wt)
  BY <1>2, <1>9, <1>11, <1>12 DEF PoolRing
<1> QED BY <1>1, <1>9, <1>10, <1>13 DEF wt

\* The walk along the pool.
LEMMA PoolOrderIs ==
    ASSUME NEW q, Ring(pnext, pprev, q, NumWorkers)
    PROVE  PoolOrder = [i \in 1..NumWorkers + 1 |-> q[i]]
<1> DEFINE Body(f, n) == IF n = 0 THEN <<pnext[Pool]>>
                         ELSE Append(f[n - 1], pnext[f[n - 1][n]])
           path == CHOOSE f : f = [n \in 0..NumWorkers |-> Body(f, n)]
           upTo(n) == [i \in 1..n + 1 |-> q[i]]
           g == [n \in 0..NumWorkers |-> upTo(n)]
<1>1. /\ NumWorkers \in Nat /\ q[0] = Pool
      /\ \A i \in 0..NumWorkers : pnext[q[i]] = q[i + 1]
  BY StorageAssumption DEF Ring
<1>2. upTo(0) = <<pnext[Pool]>>
  <2>1. pnext[Pool] = q[1]
    <3>1. 0 \in 0..NumWorkers /\ 0 + 1 = 1
      BY <1>1
    <3> QED BY <1>1, <3>1
  <2> QED BY <2>1
<1>3. \A n \in 1..NumWorkers : upTo(n) = Append(upTo(n - 1), pnext[upTo(n - 1)[n]])
  <2> SUFFICES ASSUME NEW n \in 1..NumWorkers
               PROVE  upTo(n) = Append(upTo(n - 1), pnext[upTo(n - 1)[n]])
    OBVIOUS
  <2>1. n \in Nat \ {0} /\ n \in 0..NumWorkers /\ (n - 1) + 1 = n
    BY <1>1
  <2>2. upTo(n - 1) = [i \in 1..n |-> q[i]]
    BY <2>1
  <2>3. pnext[upTo(n - 1)[n]] = q[n + 1]
    BY <1>1, <2>1, <2>2
  <2>4. Append([i \in 1..n |-> q[i]], q[n + 1]) = [i \in 1..n + 1 |-> q[i]]
    BY <2>1
  <2> QED BY <2>2, <2>3, <2>4
<1> HIDE DEF upTo
<1>4. g = [n \in 0..NumWorkers |-> Body(g, n)]
  <2> SUFFICES ASSUME NEW n \in 0..NumWorkers PROVE g[n] = Body(g, n)
    OBVIOUS
  <2>1. CASE n = 0
    BY <1>2, <2>1
  <2>2. CASE n # 0
    <3>1. n \in 1..NumWorkers /\ n - 1 \in 0..NumWorkers
      BY <1>1, <2>2
    <3>2. g[n] = upTo(n) /\ g[n - 1] = upTo(n - 1)
      BY <3>1
    <3> HIDE DEF g
    <3> QED BY <1>3, <2>2, <3>1, <3>2
  <2> QED BY <2>1, <2>2
<1>5. path = [n \in 0..NumWorkers |-> Body(path, n)]
  BY <1>4
<1>6. PoolOrder = path[NumWorkers]
  BY DEF PoolOrder
<1> HIDE DEF path
<1> DEFINE T == {n \in 0..NumWorkers : path[n] = upTo(n)}
<1>7. 0 \in T
  <2>1. 0 \in 0..NumWorkers
    BY <1>1
  <2> QED BY <1>2, <1>5, <2>1
<1>8. \A n \in 0..NumWorkers - 1 : n \in T => n + 1 \in T
  <2> SUFFICES ASSUME NEW n \in 0..NumWorkers - 1, path[n] = upTo(n)
               PROVE  path[n + 1] = upTo(n + 1) /\ n + 1 \in 0..NumWorkers
    OBVIOUS
  <2>1. n + 1 \in 1..NumWorkers /\ n + 1 \in 0..NumWorkers /\ (n + 1) - 1 = n /\ n + 1 # 0
    BY <1>1
  <2>2. path[n + 1] = Body(path, n + 1)
    BY <1>5, <2>1
  <2> QED BY <1>3, <2>1, <2>2
<1>9. NumWorkers \in T
  <2>1. NumWorkers \in 0..NumWorkers
    BY <1>1
  <2> HIDE DEF T
  <2> QED BY <1>1, <1>7, <1>8, <2>1, CountingTo
<1> QED BY <1>6, <1>9 DEF upTo

\* The services of a thread.
Load(w) == {o \in InTable : owner[o] = w}

PoolKept ==
    /\ pnext \in Links /\ pprev \in Links /\ weight \in [Workers -> Int]
    /\ PoolRing(pnext, pprev, weight)
    /\ \A w \in Workers : weight[w] = Cardinality(Load(w))

LEMMA NextPool == ASSUME Kept, PoolKept, Next PROVE PoolKept'
<1>1. CASE Stays
  <2>1. \A w \in Workers : Load(w)' = Load(w)
    BY <1>1 DEF Load, Stays
  <2>2. pnext' = pnext /\ pprev' = pprev /\ weight' = weight
    BY <1>1 DEF Stays, pool
  <2>3. PoolRing(pnext, pprev, weight)'
    BY <2>2 DEF PoolKept, PoolRing, Ring, Ordered
  <2> QED BY <2>1, <2>2, <2>3 DEF PoolKept
<1>2. CASE \E o \in Objects, w \in Workers : Enters(o, w)
  <2>1. PICK o \in Objects, w \in Workers : Enters(o, w)
    BY <1>2
  <2>2. /\ pnext' \in Links /\ pprev' \in Links
        /\ weight' = [weight EXCEPT ![w] = weight[w] + 1]
        /\ PoolRing(pnext', pprev', weight')
    BY <2>1, Reweighed DEF PoolKept, Enters
  <2>3. weight' \in [Workers -> Int]
    BY <2>2 DEF PoolKept
  <2>4. ASSUME NEW v \in Workers PROVE weight'[v] = Cardinality(Load(v)')
    <3>1. /\ InTable' = InTable \union {o} /\ o \notin InTable
          /\ owner' = [owner EXCEPT ![o] = w] /\ owner \in [Objects -> 0..NumWorkers]
          /\ \A p \in InTable : p \in Objects
          /\ IsFiniteSet(InTable)
      BY <2>1, TableOf DEF Enters, Kept, Typed
    <3>2. Load(v)' = IF v = w THEN Load(v) \union {o} ELSE Load(v)
      BY <3>1 DEF Load
    <3>3. IsFiniteSet(Load(v)) /\ o \notin Load(v)
      <4>1. Load(v) \in SUBSET InTable
        BY DEF Load
      <4> QED BY <3>1, <4>1, FS_Subset
    <3>4. Cardinality(Load(v) \union {o}) = Cardinality(Load(v)) + 1
      BY <3>3, FS_AddElement
    <3>5. weight[v] = Cardinality(Load(v)) /\ weight \in [Workers -> Int]
      BY DEF PoolKept
    <3> QED BY <2>2, <3>2, <3>4, <3>5
  <2> QED BY <2>2, <2>3, <2>4 DEF PoolKept, PoolRing, Ring, Ordered
<1>3. CASE \E o \in Objects : Exits(o)
  <2>1. PICK o \in Objects : Exits(o)
    BY <1>3
  <2>2. PICK w \in Workers : w = owner[o]
    BY <2>1, TableOf DEF Exits
  <2>3. Reweigh(w, -1)
    BY <2>1, <2>2 DEF Exits
  <2>4. /\ pnext' \in Links /\ pprev' \in Links
        /\ weight' = [weight EXCEPT ![w] = weight[w] + (-1)]
        /\ PoolRing(pnext', pprev', weight')
    BY <2>3, Reweighed DEF PoolKept
  <2>5. weight' \in [Workers -> Int]
    BY <2>4 DEF PoolKept
  <2>6. ASSUME NEW v \in Workers PROVE weight'[v] = Cardinality(Load(v)')
    <3>1. /\ InTable' = InTable \ {o} /\ o \in InTable
          /\ owner' = owner /\ IsFiniteSet(InTable)
      BY <2>1, TableOf DEF Exits
    <3>2. /\ Load(v)' = IF v = w THEN Load(v) \ {o} ELSE Load(v)
          /\ v = w => o \in Load(v)
      BY <2>2, <3>1 DEF Load
    <3>3. IsFiniteSet(Load(v))
      <4>1. Load(v) \in SUBSET InTable
        BY DEF Load
      <4> QED BY <3>1, <4>1, FS_Subset
    <3>4. v = w => Cardinality(Load(v) \ {o}) = Cardinality(Load(v)) - 1
      BY <3>2, <3>3, FS_RemoveElement
    <3>5. weight[v] = Cardinality(Load(v)) /\ weight \in [Workers -> Int]
      BY DEF PoolKept
    <3> QED BY <2>4, <3>2, <3>4, <3>5
  <2> QED BY <2>4, <2>5, <2>6 DEF PoolKept, PoolRing, Ring, Ordered
<1> QED BY <1>1, <1>2, <1>3, NextTable

LEMMA InitPool == Init => PoolKept
<1> SUFFICES ASSUME Init PROVE PoolKept
  OBVIOUS
<1> DEFINE N == NumWorkers
           q == [i \in 0..N + 1 |-> IF i \in {0, N + 1} THEN 0 ELSE N + 1 - i]
<1>1. N \in Nat /\ Pool = 0 /\ Workers = 1..N
  BY StorageAssumption DEF Pool, Workers
<1>2. /\ pnext = [w \in 0..N |-> IF w = 0 THEN N ELSE w - 1]
      /\ pprev = [w \in 0..N |-> IF w = N THEN 0 ELSE w + 1]
      /\ weight = [w \in Workers |-> 0]
  BY DEF Init
<1>3. \A w \in 0..N : pprev[w] \in 0..N /\ pnext[w] \in 0..N
  BY <1>1, <1>2
<1>4. pnext \in Links /\ pprev \in Links
  BY <1>1, <1>2, <1>3 DEF Links
<1>5. /\ q \in [0..N + 1 -> 0..N] /\ q[0] = 0 /\ q[N + 1] = 0
      /\ \A i \in 1..N : q[i] = N + 1 - i
  <2>1. \A i \in 0..N + 1 : (IF i \in {0, N + 1} THEN 0 ELSE N + 1 - i) \in 0..N
    BY <1>1
  <2> QED BY <1>1, <2>1
<1> HIDE DEF q
<1>6. \A i \in 1..N : q[i] \in Workers
  BY <1>1, <1>5
<1>7. \A i, j \in 0..N : q[i] = q[j] => i = j
  <2> SUFFICES ASSUME NEW i \in 0..N, NEW j \in 0..N, q[i] = q[j] PROVE i = j
    OBVIOUS
  <2>1. CASE i = 0 /\ j # 0
    BY <1>1, <1>5, <2>1
  <2>2. CASE i # 0 /\ j = 0
    BY <1>1, <1>5, <2>2
  <2>3. CASE i # 0 /\ j # 0
    BY <1>1, <1>5, <2>3
  <2> QED BY <2>1, <2>2, <2>3
<1>8. \A i \in 0..N : pnext[q[i]] = q[i + 1] /\ pprev[q[i + 1]] = q[i]
  <2> SUFFICES ASSUME NEW i \in 0..N PROVE pnext[q[i]] = q[i + 1] /\ pprev[q[i + 1]] = q[i]
    OBVIOUS
  <2>1. CASE i = 0 /\ N = 0
    BY <1>1, <1>2, <1>5, <2>1
  <2>2. CASE i = 0 /\ N # 0
    <3>1. q[i] = 0 /\ q[i + 1] = N
      BY <1>1, <1>5, <2>2
    <3> QED BY <1>1, <1>2, <3>1
  <2>3. CASE i # 0 /\ i # N
    <3>1. q[i] = N + 1 - i /\ q[i + 1] = N - i /\ N + 1 - i \in 1..N /\ N - i \in 0..N - 1
      BY <1>1, <1>5, <2>3
    <3> QED BY <1>1, <1>2, <3>1
  <2>4. CASE i # 0 /\ i = N
    <3>1. q[i] = 1 /\ q[i + 1] = 0
      BY <1>1, <1>5, <2>4
    <3> QED BY <1>1, <1>2, <2>4, <3>1
  <2> QED BY <2>1, <2>2, <2>3, <2>4
<1>9. Ring(pnext, pprev, q, NumWorkers)
  BY <1>1, <1>5, <1>6, <1>7, <1>8 DEF Ring
<1>10. Members(q, NumWorkers) = Workers
  <2>1. \A w \in Workers : N + 1 - w \in 1..N /\ q[N + 1 - w] = w
    BY <1>1, <1>5
  <2> QED BY <1>6, <2>1 DEF Members
<1>11. Ordered(weight, q, NumWorkers)
  BY <1>2, <1>6 DEF Ordered
<1>12. \A w \in Workers : weight[w] = Cardinality(Load(w))
  <2>1. \A l \in Heads : In(l) = {}
    BY InitKept DEF In, Content, ToSet, Heads
  <2>2. InTable = {}
    BY <2>1, InTableIs, SlotsAre
  <2> QED BY <1>2, <2>2, FS_EmptySet DEF Load
<1>13. weight \in [Workers -> Int]
  BY <1>2
<1> QED BY <1>4, <1>9, <1>10, <1>11, <1>12, <1>13 DEF PoolKept, PoolRing

LEMMA PoolKeptOrders == Kept /\ PoolKept => PoolOrdered
<1> SUFFICES ASSUME Kept, PoolKept PROVE PoolOrdered
  OBVIOUS
<1>1. PICK q : /\ Ring(pnext, pprev, q, NumWorkers) /\ Members(q, NumWorkers) = Workers
               /\ Ordered(weight, q, NumWorkers)
  BY DEF PoolKept, PoolRing
<1>2. /\ NumWorkers \in Nat /\ q[0] = Pool /\ q[NumWorkers + 1] = Pool
      /\ \A i \in 0..NumWorkers : pnext[q[i]] = q[i + 1] /\ pprev[q[i + 1]] = q[i]
  BY <1>1, StorageAssumption DEF Ring
<1>3. PoolOrder = [i \in 1..NumWorkers + 1 |-> q[i]]
  BY <1>1, PoolOrderIs
<1> DEFINE order == SubSeq(PoolOrder, 1, NumWorkers)
<1>4. order = [i \in 1..NumWorkers |-> q[i]]
  BY <1>2, <1>3
<1> HIDE DEF order
<1>5. ToSet(order) = Workers
  BY <1>1, <1>4 DEF ToSet, Members
<1>6. PoolOrder[NumWorkers + 1] = Pool
  BY <1>2, <1>3
<1>7. \A a \in 0..NumWorkers : pprev[pnext[a]] = a
  <2> SUFFICES ASSUME NEW a \in 0..NumWorkers PROVE pprev[pnext[a]] = a
    OBVIOUS
  <2>1. \E i \in 0..NumWorkers : a = q[i]
    <3>1. CASE a = 0
      BY <1>2, <3>1 DEF Pool
    <3>2. CASE a # 0
      <4>1. a \in Members(q, NumWorkers)
        BY <1>1, <1>2, <3>2 DEF Workers
      <4> QED BY <1>2, <4>1 DEF Members
    <3> QED BY <3>1, <3>2
  <2> QED BY <1>2, <2>1
<1>8. \A i \in 1..NumWorkers - 1 : weight[order[i]] <= weight[order[i + 1]]
  <2> SUFFICES ASSUME NEW i \in 1..NumWorkers - 1
               PROVE  weight[order[i]] <= weight[order[i + 1]]
    OBVIOUS
  <2>1. i \in 1..NumWorkers /\ i + 1 \in 1..NumWorkers /\ i <= i + 1
    BY <1>2
  <2>2. order[i] = q[i] /\ order[i + 1] = q[i + 1]
    BY <1>4, <2>1
  <2> QED BY <1>1, <2>1, <2>2 DEF Ordered
<1>9. \A w \in Workers : weight[w] = Cardinality({o \in InTable : owner[o] = w})
  BY DEF PoolKept, Load
<1> QED BY <1>5, <1>6, <1>7, <1>8, <1>9 DEF PoolOrdered, order

LEMMA PoolStep == Kept /\ PoolKept /\ [Next]_vars => PoolKept'
<1> SUFFICES ASSUME Kept, PoolKept, UNCHANGED vars PROVE PoolKept'
  BY NextPool
<1>1. \A h \in Heads : In(h)' = In(h)
  BY StillStep DEF vars, Kept, Blocks, Holds
<1>2. InTable' = InTable
  BY <1>1, SameTable, SlotsAre
<1>3. pnext' = pnext /\ pprev' = pprev /\ weight' = weight /\ owner' = owner
  BY DEF vars, pool, table
<1>4. \A w \in Workers : Load(w)' = Load(w)
  BY <1>2, <1>3 DEF Load
<1>5. PoolRing(pnext, pprev, weight)'
  BY <1>3 DEF PoolKept, PoolRing, Ring, Ordered
<1> QED BY <1>3, <1>4, <1>5 DEF PoolKept

\* l_thread_acquire takes the first of the pool: every worker is in it once,
\* linked both ways, in the order of the loads, and the load of a worker is the
\* number of services in the table that are attached to it.
THEOREM PoolIsOrdered == Spec => []PoolOrdered
BY InitPool, PoolStep, PoolKeptOrders, KeptInvariance, PTL DEF Spec

-----------------------------------------------------------------------------
(* Nothing is lost.                                                        *)

LEMMA KeptTypes == Kept /\ Counted /\ PoolKept => TypeOK
<1> SUFFICES ASSUME Kept, Counted, PoolKept PROVE TypeOK
  OBVIOUS
<1>1. /\ next \in [Objects \union Queues \union Slots -> Objects \union Queues \union {Null}]
      /\ tail \in [Queues -> Objects \union Queues]
  <2>1. Nodes = Objects \union Queues \union Slots
    BY DEF Nodes, Heads
  <2> QED BY <2>1 DEF Kept, Blocks, ListsOK, Represents
<1>2. size \in 0..NumObjects
  BY ContentType, SlotsAre DEF Kept, Blocks
<1>3. weight \in [Workers -> Nat]
  <2>1. ASSUME NEW w \in Workers PROVE weight[w] \in Nat
    <3>1. Load(w) \in SUBSET InTable
      BY DEF Load
    <3>2. IsFiniteSet(Load(w))
      BY <3>1, TableOf, FS_Subset
    <3> QED BY <3>2, FS_CardinalityType DEF PoolKept
  <2> QED BY <2>1 DEF PoolKept
<1>4. /\ pnext \in [0..NumWorkers -> 0..NumWorkers]
      /\ pprev \in [0..NumWorkers -> 0..NumWorkers]
  BY DEF PoolKept, Links
<1>5. nelem \in Nat
  BY DEF Counted
<1>6. /\ svid \in [Objects -> {0} \union SvidStart..SvidRange - 1]
      /\ seed \in SvidStart..SvidRange - 1
  BY DEF Kept, IdsInv, IdsTyped
<1> QED BY <1>1, <1>2, <1>3, <1>4, <1>5, <1>6 DEF TypeOK, Kept, Typed

\* No block is lost or used twice: what is allocated is held by the program, or
\* is in one queue or in the table; l_freebq.size counts the free buffers.
THEOREM NothingIsLost == Spec => []NothingLost
<1>1. Kept /\ Counted /\ PoolKept => NothingLost
  <2> SUFFICES ASSUME Kept, Counted, PoolKept PROVE NothingLost
    OBVIOUS
  <2>1. \A o : o \in InQueues <=> \E q \in Queues : o \in In(q)
    BY DEF InQueues, In
  <2>2. \A o : o \in InTable \union InQueues <=> \E l \in Heads : o \in In(l)
    BY <2>1, InTableIs DEF Heads
  <2>3. \A l \in Heads : In(l) \subseteq Objects
    BY ContentType DEF Kept, Blocks
  <2>4. {o \in Objects : bsize[o] # 0} = held \union InTable \union InQueues
    BY <2>2, <2>3 DEF Kept, Blocks, Typed
  <2>5. held \intersect (InTable \union InQueues) = {}
    BY <2>2 DEF Kept, Blocks
  <2>6. InTable \intersect InQueues = {}
    BY <2>1, InTableIs, ListsApart, Addresses DEF Heads, Kept, Blocks
  <2>7. size = Len(QueueOf(FreeQ))
    BY ContentType, SlotsAre, Addresses DEF Kept, Blocks
  <2> QED BY <2>4, <2>5, <2>6, <2>7, KeptTypes DEF NothingLost
<1>2. Spec => []Counted
  BY InitCounted, CountedStep, KeptInvariance, PTL DEF Spec
<1>3. Spec => []PoolKept
  BY InitPool, PoolStep, KeptInvariance, PTL DEF Spec
<1> QED BY <1>1, <1>2, <1>3, KeptInvariance, PTL
=============================================================================
