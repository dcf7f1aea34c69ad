------------------------- MODULE SocketEvent_proofs -------------------------
(***************************************************************************)
(* Proofs about module SocketEvent, for every set of services, every       *)
(* number of descriptors and every bound on what happens.                  *)
(*                                                                         *)
(* First the types, the life of a service as far as its messages tell of   *)
(* it, and from these that no freed service is used and that collected     *)
(* conditions are announced; then who is responsible for a socket.         *)
(***************************************************************************)
EXTENDS SocketEvent, SequenceTheorems, FiniteSetTheorems, WellFoundedInduction, TLAPS

-----------------------------------------------------------------------------
(* Descriptors.                                                            *)

\* A nonempty set of descriptors has a lowest.
LEMMA LowestOf ==
    ASSUME NEW S \in SUBSET Fds, S # {}
    PROVE  Lowest(S) \in S
<1>1. S \subseteq Nat
  BY SocketAssumption DEF Fds
<1>2. IsWellFoundedOn(OpToRel(<, Nat), Nat)
  BY NatLessThanWellFounded
<1>3. \E n \in S : \A k \in S : <<k, n>> \notin OpToRel(<, Nat)
  BY <1>1, <1>2, WFMin
<1>4. PICK n \in S : \A k \in S : <<k, n>> \notin OpToRel(<, Nat)
  BY <1>3
<1>5. ASSUME NEW k \in S PROVE n <= k
  <2>1. k \in Nat /\ n \in Nat
    BY <1>1
  <2>2. ~(<<k, n>>[1] < <<k, n>>[2])
    BY <1>4, <2>1 DEF OpToRel
  <2> QED BY <2>1, <2>2
<1> QED BY <1>5 DEF Lowest

-----------------------------------------------------------------------------
(* Queues.                                                                 *)

LEMMA ElementsAppend ==
    ASSUME NEW S, NEW q \in Seq(S), NEW m \in S
    PROVE  /\ Append(q, m) \in Seq(S)
           /\ Elements(Append(q, m)) = Elements(q) \union {m}
<1>1. /\ Append(q, m) \in Seq(S)
      /\ Len(Append(q, m)) = Len(q) + 1
      /\ \A i \in 1..Len(q) : Append(q, m)[i] = q[i]
      /\ Append(q, m)[Len(q) + 1] = m
  BY AppendProperties
<1>2. DOMAIN Append(q, m) = 1..(Len(q) + 1) /\ DOMAIN q = 1..Len(q) /\ Len(q) \in Nat
  BY <1>1, LenProperties
<1>3. 1..(Len(q) + 1) = 1..Len(q) \union {Len(q) + 1}
  BY <1>2
<1> QED BY <1>1, <1>2, <1>3 DEF Elements

\* Where the elements of a concatenation are.
LEMMA ConcatPlaces ==
    ASSUME NEW S, NEW q \in Seq(S), NEW r \in Seq(S)
    PROVE  /\ q \o r \in Seq(S)
           /\ DOMAIN q = 1..Len(q) /\ Len(q) \in Nat
           /\ DOMAIN r = 1..Len(r) /\ Len(r) \in Nat
           /\ DOMAIN (q \o r) = 1..(Len(q) + Len(r))
           /\ \A i \in DOMAIN q : i \in DOMAIN (q \o r) /\ (q \o r)[i] = q[i]
           /\ \A i \in DOMAIN r : Len(q) + i \in DOMAIN (q \o r)
                                  /\ (q \o r)[Len(q) + i] = r[i]
           /\ \A i \in DOMAIN (q \o r) :
                i \in DOMAIN q \/ \E j \in DOMAIN r : i = Len(q) + j
<1>1. /\ q \o r \in Seq(S)
      /\ Len(q \o r) = Len(q) + Len(r)
      /\ \A i \in 1..(Len(q) + Len(r)) :
           (q \o r)[i] = IF i <= Len(q) THEN q[i] ELSE r[i - Len(q)]
  BY ConcatProperties
<1>2. /\ DOMAIN (q \o r) = 1..(Len(q) + Len(r))
      /\ DOMAIN q = 1..Len(q) /\ DOMAIN r = 1..Len(r)
      /\ Len(q) \in Nat /\ Len(r) \in Nat
  BY <1>1, LenProperties
<1>3. \A i \in DOMAIN q : i \in DOMAIN (q \o r) /\ (q \o r)[i] = q[i]
  BY <1>1, <1>2
<1>4. ASSUME NEW i \in DOMAIN r
      PROVE  Len(q) + i \in DOMAIN (q \o r) /\ (q \o r)[Len(q) + i] = r[i]
  <2>1. Len(q) + i \in 1..(Len(q) + Len(r)) /\ ~(Len(q) + i <= Len(q))
        /\ (Len(q) + i) - Len(q) = i
    BY <1>2
  <2> QED BY <1>1, <1>2, <2>1
<1>5. ASSUME NEW i \in DOMAIN (q \o r), i \notin DOMAIN q
      PROVE  \E j \in DOMAIN r : i = Len(q) + j
  <2>1. i - Len(q) \in DOMAIN r /\ i = Len(q) + (i - Len(q))
    BY <1>2, <1>5
  <2> QED BY <2>1
<1> QED BY <1>1, <1>2, <1>3, <1>4, <1>5

LEMMA ElementsConcat ==
    ASSUME NEW S, NEW q \in Seq(S), NEW r \in Seq(S)
    PROVE  /\ q \o r \in Seq(S)
           /\ Elements(q \o r) = Elements(q) \union Elements(r)
<1>1. ASSUME NEW x \in Elements(q \o r) PROVE x \in Elements(q) \union Elements(r)
  BY <1>1, ConcatPlaces DEF Elements
<1>2. ASSUME NEW x \in Elements(q) PROVE x \in Elements(q \o r)
  BY <1>2, ConcatPlaces DEF Elements
<1>3. ASSUME NEW x \in Elements(r) PROVE x \in Elements(q \o r)
  <2>1. PICK j \in DOMAIN r : x = r[j]
    BY <1>3 DEF Elements
  <2>2. Len(q) + j \in DOMAIN (q \o r) /\ (q \o r)[Len(q) + j] = r[j]
    BY ConcatPlaces
  <2> QED BY <2>1, <2>2 DEF Elements
<1> QED BY <1>1, <1>2, <1>3, ConcatPlaces

\* The places of a queue and those of what is left when its head is taken.
LEMMA TailPlaces ==
    ASSUME NEW S, NEW q \in Seq(S), q # <<>>
    PROVE  /\ Head(q) \in S /\ Head(q) = q[1] /\ 1 \in DOMAIN q
           /\ Tail(q) \in Seq(S)
           /\ DOMAIN q \subseteq Nat /\ DOMAIN Tail(q) \subseteq Nat
           /\ \A i \in DOMAIN Tail(q) : i + 1 \in DOMAIN q /\ Tail(q)[i] = q[i + 1]
           /\ \A i \in DOMAIN q : i = 1 \/ i - 1 \in DOMAIN Tail(q)
<1>1. /\ Head(q) \in S /\ Head(q) = q[1] /\ Tail(q) \in Seq(S)
      /\ Len(Tail(q)) = Len(q) - 1
      /\ \A i \in 1..Len(Tail(q)) : Tail(q)[i] = q[i + 1]
  BY HeadTailProperties, ElementOfSeq
<1>2. /\ DOMAIN Tail(q) = 1..(Len(q) - 1) /\ DOMAIN q = 1..Len(q)
      /\ Len(q) \in Nat /\ Len(q) # 0
  BY <1>1, LenProperties, EmptySeq
<1>3. /\ 1 \in DOMAIN q /\ \A i \in DOMAIN Tail(q) : i + 1 \in DOMAIN q
      /\ \A i \in DOMAIN q : i = 1 \/ i - 1 \in DOMAIN Tail(q)
      /\ DOMAIN q \subseteq Nat /\ DOMAIN Tail(q) \subseteq Nat
  BY <1>2
<1>4. \A i \in DOMAIN Tail(q) : Tail(q)[i] = q[i + 1]
  BY <1>1, <1>2
<1> QED BY <1>1, <1>3, <1>4

LEMMA ElementsTail ==
    ASSUME NEW S, NEW q \in Seq(S), q # <<>>
    PROVE  /\ Head(q) \in S
           /\ Tail(q) \in Seq(S)
           /\ Elements(q) = {Head(q)} \union Elements(Tail(q))
<1>1. ASSUME NEW x \in Elements(q) PROVE x \in {Head(q)} \union Elements(Tail(q))
  <2>1. PICK i \in DOMAIN q : x = q[i]
    BY <1>1 DEF Elements
  <2>2. CASE i = 1
    BY <2>1, <2>2, TailPlaces
  <2>3. CASE i - 1 \in DOMAIN Tail(q)
    <3>1. Tail(q)[i - 1] = q[(i - 1) + 1] /\ (i - 1) + 1 = i
      BY <2>3, TailPlaces
    <3> QED BY <2>1, <2>3, <3>1 DEF Elements
  <2> QED BY <2>2, <2>3, TailPlaces
<1>2. ASSUME NEW x \in Elements(Tail(q)) PROVE x \in Elements(q)
  BY <1>2, TailPlaces DEF Elements
<1>3. Head(q) \in Elements(q)
  BY TailPlaces DEF Elements
<1> QED BY <1>1, <1>2, <1>3, TailPlaces

LEMMA ElementsEmpty == \A S : <<>> \in Seq(S) /\ Elements(<<>>) = {}
BY EmptySeq, LenProperties DEF Elements

LEMMA ElementsType ==
    ASSUME NEW S, NEW q \in Seq(S)
    PROVE  /\ \A m \in Elements(q) : m \in S
           /\ \A i \in DOMAIN q : q[i] \in S /\ q[i] \in Elements(q) /\ i \in Nat
BY ElementOfSeq, LenProperties DEF Elements

\* Concatenation regroups.
LEMMA Regroup ==
    ASSUME NEW S, NEW p \in Seq(S), NEW q \in Seq(S), NEW r \in Seq(S)
    PROVE  /\ (p \o q) \o r = p \o (q \o r)
           /\ <<>> \o q = q /\ q \o <<>> = q
           /\ p # <<>> => /\ p \o q # <<>>
                          /\ Head(p \o q) = Head(p) /\ Tail(p \o q) = Tail(p) \o q
<1>1. (p \o q) \o r = p \o (q \o r)
  BY ConcatAssociative
<1>2. <<>> \o q = q /\ q \o <<>> = q
  BY ConcatEmptySeq
<1>3. ASSUME p # <<>>
      PROVE /\ p \o q # <<>>
            /\ Head(p \o q) = Head(p) /\ Tail(p \o q) = Tail(p) \o q
  <2>1. p \o q # <<>> /\ p \o q \in Seq(S) /\ Tail(p) \in Seq(S)
    BY <1>3, ConcatEqualIffEmpty, ConcatPlaces, TailPlaces
  <2>2. /\ Len(p \o q) = Len(p) + Len(q) /\ Len(Tail(p)) = Len(p) - 1
        /\ Len(Tail(p \o q)) = Len(p) + Len(q) - 1
        /\ Len(Tail(p) \o q) = Len(p) - 1 + Len(q)
        /\ Len(p) \in Nat \ {0} /\ Len(q) \in Nat
    BY <1>3, <2>1, ConcatProperties, HeadTailProperties, LenProperties, EmptySeq
  <2>3. Head(p \o q) = Head(p)
    BY <1>3, <2>1, TailPlaces, ConcatPlaces
  <2>4. ASSUME NEW i \in 1..Len(Tail(p \o q))
        PROVE  Tail(p \o q)[i] = (Tail(p) \o q)[i]
    <3>1. Tail(p \o q)[i] = (p \o q)[i + 1]
      BY <2>1, HeadTailProperties
    <3>2. (p \o q)[i + 1] = IF i + 1 <= Len(p) THEN p[i + 1] ELSE q[i + 1 - Len(p)]
      BY <2>2, ConcatProperties
    <3>3. (Tail(p) \o q)[i] =
             IF i <= Len(p) - 1 THEN Tail(p)[i] ELSE q[i - (Len(p) - 1)]
      BY <2>1, <2>2, ConcatProperties
    <3>4. i <= Len(p) - 1 => Tail(p)[i] = p[i + 1]
      BY <1>3, <2>2, HeadTailProperties
    <3>5. (i + 1 <= Len(p) <=> i <= Len(p) - 1) /\ i + 1 - Len(p) = i - (Len(p) - 1)
      BY <2>2
    <3> QED BY <3>1, <3>2, <3>3, <3>4, <3>5
  <2>5. Tail(p \o q) \in Seq(S) /\ Tail(p) \o q \in Seq(S)
        /\ Len(Tail(p \o q)) = Len(Tail(p) \o q)
    BY <2>1, <2>2, TailPlaces, ConcatPlaces
  <2>6. Tail(p \o q) = Tail(p) \o q
    BY <2>4, <2>5, SeqEqual
  <2> QED BY <2>1, <2>3, <2>6
<1> QED BY <1>1, <1>2, <1>3

LEMMA ElementsOfThree ==
    ASSUME NEW S, NEW p \in Seq(S), NEW q \in Seq(S), NEW r \in Seq(S)
    PROVE  /\ p \o q \o r \in Seq(S)
           /\ Elements(p \o q \o r) = Elements(p) \union Elements(q) \union Elements(r)
<1> DEFINE pq == p \o q
<1>1. pq \in Seq(S) /\ Elements(pq) = Elements(p) \union Elements(q)
  BY ElementsConcat
<1> HIDE DEF pq
<1>2. pq \o r \in Seq(S) /\ Elements(pq \o r) = Elements(pq) \union Elements(r)
  BY <1>1, ElementsConcat
<1> QED BY <1>1, <1>2 DEF pq

\* Two and three queues in a row.
Joined(q, r) == q \o r
Three(p, q, r) == p \o q \o r

LEMMA JoinedAgain ==
    ASSUME NEW S, NEW p \in Seq(S), NEW q \in Seq(S), NEW r \in Seq(S)
    PROVE  /\ Joined(p, q) \in Seq(S)
           /\ Joined(p, Joined(q, r)) = Joined(Joined(p, q), r)
BY Regroup, ElementsConcat DEF Joined

LEMMA JoinedHead ==
    ASSUME NEW S, NEW p \in Seq(S), NEW q \in Seq(S), p # <<>>
    PROVE  /\ Joined(p, q) # <<>> /\ Head(Joined(p, q)) = Head(p)
           /\ Tail(Joined(p, q)) = Joined(Tail(p), q)
BY Regroup DEF Joined

\* The head of three queues, and what is added to the last.
LEMMA EndsOfThree ==
    ASSUME NEW S, NEW p \in Seq(S), NEW q \in Seq(S), NEW r \in Seq(S)
    PROVE  /\ p # <<>> => /\ Three(p, q, r) # <<>>
                          /\ Head(Three(p, q, r)) = Head(p)
                          /\ Tail(Three(p, q, r)) = Three(Tail(p), q, r)
           /\ \A t \in Seq(S) : Three(p, q, Joined(r, t)) = Joined(Three(p, q, r), t)
<1>0. \A a, b, c : Three(a, b, c) = Joined(Joined(a, b), c)
  BY DEF Three, Joined
<1>1. Joined(p, q) \in Seq(S)
  BY JoinedAgain
<1>2. ASSUME p # <<>>
      PROVE  /\ Three(p, q, r) # <<>>
             /\ Head(Three(p, q, r)) = Head(p)
             /\ Tail(Three(p, q, r)) = Three(Tail(p), q, r)
  <2>1. /\ Joined(p, q) # <<>> /\ Head(Joined(p, q)) = Head(p)
        /\ Tail(Joined(p, q)) = Joined(Tail(p), q)
    BY <1>2, JoinedHead
  <2>2. /\ Joined(Joined(p, q), r) # <<>>
        /\ Head(Joined(Joined(p, q), r)) = Head(Joined(p, q))
        /\ Tail(Joined(Joined(p, q), r)) = Joined(Tail(Joined(p, q)), r)
    BY <1>1, <2>1, JoinedHead
  <2> QED BY <1>0, <2>1, <2>2
<1>3. ASSUME NEW t \in Seq(S)
      PROVE  Three(p, q, Joined(r, t)) = Joined(Three(p, q, r), t)
  <2>1. Joined(Joined(p, q), Joined(r, t)) = Joined(Joined(Joined(p, q), r), t)
    BY <1>1, JoinedAgain
  <2> QED BY <1>0, <2>1
<1> QED BY <1>2, <1>3

-----------------------------------------------------------------------------
(* Types.                                                                  *)

\* What is sent to the master, and what it sends.
MasterMsg ==
    {m \in Message :
       /\ m.id \in {"START_REQ", "ADD_EVENT", "DEL_EVENT", "CLOSE_REQ"}
       /\ m.id # "DEL_EVENT" => m.svc \in Services
       /\ m.id = "ADD_EVENT" => m.fd \in Fds}

ServiceMsg ==
    {m \in Message :
       /\ m.id \in {"START_RSP", "CONN_IND", "CONN_RSP", "EVENT_IND", "CLOSE_RSP"}
       /\ m.svc \in Services
       /\ m.id = "CONN_IND" => m.fd \in Fds}

SocketFlags == {"listen", "connect", "stoprx"}
EventType == [fd: Fds, svc: Services \union {NoService}, masks: SUBSET Conditions]
CurrentType == [fd: Fds \union {NoFd}, svc: Services \union {NoService},
                flags: SUBSET SocketFlags, masks: SUBSET Conditions]

KernelOK ==
    /\ open \subseteq Fds /\ listens \subseteq open
    /\ level \in [Fds -> SUBSET Conditions]
    /\ ready \in [Fds -> SUBSET Conditions]
    /\ watch \in [Fds -> [svc: Services \union {NoService}, masks: SUBSET Conditions]]
    /\ pending \in [Fds -> Nat]
    /\ arrived \in 0..MaxEvents /\ \A fd \in Fds : pending[fd] <= arrived

GuardedOK ==
    /\ evfd \in [Services -> Fds \union {NoFd}]
    /\ evmk \in [Services -> SUBSET Conditions]
    /\ flags \in [Services -> SUBSET SocketFlags]

PrivateOK ==
    /\ flagw \in [Services -> SUBSET {"started", "closing", "socket"}]
    /\ stage \in [Services -> {"none", "starting", "online", "offline", "freed"}]
    /\ held \in [Services -> SUBSET Fds]

\* In accept and connect the master is dispatching an event of a service; it
\* has messages in its hands only while it handles them.
MasterOK ==
    /\ phase \in {"wait", "dispatch", "accept", "connect", "handle", "route"}
    /\ events \subseteq EventType
    /\ current \in CurrentType
    /\ phase \in {"accept", "connect"} => current.fd \in Fds /\ current.svc \in Services
    /\ phase # "handle" => mbatch = <<>>

QueuesOK ==
    /\ mrx \in Seq(MasterMsg) /\ mbatch \in Seq(MasterMsg) /\ txms \in Seq(MasterMsg)
    /\ txmq \in Seq(ServiceMsg) /\ out \in Seq(ServiceMsg)
    /\ rx \in Seq(ServiceMsg) /\ batch \in Seq(ServiceMsg)

WorkerOK ==
    /\ step \in {"idle", "entry", "stop", "close"}
    /\ IF step = "idle" THEN running = NoService ELSE running \in Services
    /\ saved \subseteq SocketFlags

CountsOK ==
    /\ opens \in 0..MaxOpens
    /\ mods \in [Services -> 0..MaxMods]
    /\ given \in [Services -> SUBSET Conditions]
    /\ dropped \subseteq Fds
    /\ replaced \in BOOLEAN /\ exhausted \in BOOLEAN

Types ==
    /\ KernelOK /\ GuardedOK /\ PrivateOK /\ MasterOK /\ QueuesOK /\ WorkerOK
    /\ CountsOK

LEMMA MasterMsgs ==
    /\ \A s \in Services :
         /\ Msg("START_REQ", s, NoFd, {}) \in MasterMsg
         /\ Msg("CLOSE_REQ", s, NoFd, {}) \in MasterMsg
    /\ \A s \in Services, fd \in Fds, cs \in SUBSET Conditions :
         Msg("ADD_EVENT", s, fd, cs) \in MasterMsg
    /\ \A fd \in Fds \union {NoFd} : Msg("DEL_EVENT", NoService, fd, {}) \in MasterMsg
BY DEF MasterMsg, Message, MsgIds, Msg

LEMMA ServiceMsgs ==
    /\ \A s \in Services :
         /\ Msg("START_RSP", s, NoFd, {}) \in ServiceMsg
         /\ Msg("CLOSE_RSP", s, NoFd, {}) \in ServiceMsg
    /\ \A s \in Services, fd \in Fds, cs \in SUBSET Conditions :
         /\ Msg("CONN_IND", s, fd, cs) \in ServiceMsg
         /\ Msg("CONN_RSP", s, fd, cs) \in ServiceMsg
         /\ Msg("EVENT_IND", s, fd, cs) \in ServiceMsg
BY DEF ServiceMsg, Message, MsgIds, Msg

LEMMA InitTypes == Init => Types
<1> SUFFICES ASSUME Init PROVE Types
  OBVIOUS
<1>1. Msg("START_REQ", Listener, NoFd, {}) \in MasterMsg
  BY SocketAssumption, MasterMsgs
<1>2. QueuesOK
  BY <1>1 DEF Init, QueuesOK
<1>3. KernelOK
  BY SocketAssumption DEF Init, KernelOK, Unwatched, Conditions
<1>4. GuardedOK /\ PrivateOK /\ WorkerOK
  BY DEF Init, GuardedOK, PrivateOK, WorkerOK
<1>5. MasterOK
  BY DEF Init, MasterOK, NoEvent, CurrentType
<1>6. CountsOK
  <2>1. replaced \in BOOLEAN /\ exhausted \in BOOLEAN
    BY Zenon DEF Init
  <2>2. opens \in 0..MaxOpens /\ mods \in [Services -> 0..MaxMods]
    BY SocketAssumption DEF Init
  <2>3. given \in [Services -> SUBSET Conditions] /\ dropped \subseteq Fds
    BY DEF Init
  <2> QED BY <2>1, <2>2, <2>3 DEF CountsOK
<1> QED BY <1>2, <1>3, <1>4, <1>5, <1>6 DEF Types

\* The kernel's variables are written by these steps only.
LEMMA KernelSteps ==
    ASSUME Next
    PROVE  \/ KernelStep \/ MasterWait \/ Accept \/ AcceptEnds \/ HandleStartReq
           \/ HandleAddEvent \/ HandleDelEvent \/ HandleClosed
           \/ \E s \in Services, l \in BOOLEAN : OpenSocket(s, l)
           \/ \E s \in Services : \E fd \in held[s] : CloseSocket(s, fd)
           \/ UNCHANGED <<kernel, arrived>>
<1>1. CASE MasterStep
  BY <1>1 DEF MasterStep, DispatchIgnored, DispatchListen, DispatchConnect,
     DispatchData, ConnectDone, MasterTake, HandleCloseReq, MasterGet,
     MasterRoute, MasterDeliver, bounds
<1>2. CASE WorkerTake \/ WorkerFlush \/ HandleSkipped \/ HandleMessage
  BY <1>2 DEF WorkerTake, WorkerFlush, HandleSkipped, HandleMessage, bounds
<1>3. CASE HandleClosed
  BY <1>3
<1>4. ASSUME NEW s \in Services, Entry(s)
      PROVE  \/ \E l \in BOOLEAN : OpenSocket(s, l)
             \/ \E fd \in held[s] : CloseSocket(s, fd)
             \/ UNCHANGED <<kernel, arrived>>
  <2>1. CASE \E t \in Services, fd \in held[s] : StartWith(s, t, fd)
    BY <2>1 DEF StartWith, bounds
  <2>2. CASE CallDelEvent(s) \/ CloseSelf(s) \/ EntryReturn(s) \/ StopRx(s) \/ CloseService(s)
    BY <2>2 DEF CallDelEvent, CloseSelf, EntryReturn, StopRx, CloseService, bounds
  <2>3. ASSUME NEW fd, NEW kind, ModEvent(s, fd, kind)
        PROVE  UNCHANGED <<kernel, arrived>>
    BY <2>3 DEF ModEvent
  <2> QED BY <1>4, <2>1, <2>2, <2>3 DEF Entry
<1> QED BY <1>1, <1>2, <1>3, <1>4 DEF Next, WorkerStep

\* Closing descriptors keeps the types.
LEMMA CloseKeeps ==
    ASSUME KernelOK, NEW S \in SUBSET Fds, CloseFds(S), UNCHANGED arrived
    PROVE  KernelOK'
<1>1. Unwatched \in [svc: Services \union {NoService}, masks: SUBSET Conditions]
  BY DEF Unwatched
<1>2. /\ watch' \in [Fds -> [svc: Services \union {NoService}, masks: SUBSET Conditions]]
      /\ level' \in [Fds -> SUBSET Conditions] /\ ready' \in [Fds -> SUBSET Conditions]
  BY <1>1 DEF CloseFds, KernelOK
<1>3. /\ open' \subseteq Fds /\ listens' \subseteq open'
      /\ pending' \in [Fds -> Nat] /\ arrived' \in 0..MaxEvents
      /\ \A fd \in Fds : pending'[fd] <= arrived'
  BY SocketAssumption DEF CloseFds, KernelOK
<1> QED BY <1>2, <1>3 DEF KernelOK

LEMMA RegisterKeeps ==
    ASSUME KernelOK, NEW s \in Services, NEW cs \in SUBSET Conditions, NEW fd \in Fds,
           Register(fd, s, cs), UNCHANGED <<open, listens, level, pending, arrived>>
    PROVE  KernelOK'
<1>1. [svc |-> s, masks |-> cs] \in [svc: Services \union {NoService}, masks: SUBSET Conditions]
  OBVIOUS
<1>2. level[fd] \intersect (cs \union {"HUP", "ERR"}) \in SUBSET Conditions
  BY DEF KernelOK
<1>3. /\ watch' \in [Fds -> [svc: Services \union {NoService}, masks: SUBSET Conditions]]
      /\ ready' \in [Fds -> SUBSET Conditions]
  BY <1>1, <1>2 DEF Register, KernelOK
<1> QED BY <1>3 DEF KernelOK

\* What the first message of a queue brings.
LEMMA MasterHead ==
    ASSUME QueuesOK, NEW id, MasterHandling(id)
    PROVE  /\ Head(mbatch) \in MasterMsg /\ Head(mbatch) \in Message
           /\ Head(mbatch).id = id
           /\ Head(mbatch).fd \in Fds \union {NoFd}
           /\ Head(mbatch).masks \in SUBSET Conditions
           /\ id # "DEL_EVENT" => Head(mbatch).svc \in Services
           /\ id = "ADD_EVENT" => Head(mbatch).fd \in Fds
           /\ mbatch # <<>> /\ mbatch' = Tail(mbatch) /\ Tail(mbatch) \in Seq(MasterMsg)
           /\ phase = "handle"
<1>1. mbatch # <<>> /\ Head(mbatch).id = id /\ phase = "handle" /\ mbatch' = Tail(mbatch)
  BY DEF MasterHandling
<1>2. Head(mbatch) \in MasterMsg /\ Tail(mbatch) \in Seq(MasterMsg)
  BY <1>1, TailPlaces DEF QueuesOK
<1> QED BY <1>1, <1>2 DEF MasterMsg, Message

LEMMA ServiceHead ==
    ASSUME NEW q \in Seq(ServiceMsg), q # <<>>
    PROVE  /\ Head(q) \in ServiceMsg /\ Head(q) \in Message
           /\ Tail(q) \in Seq(ServiceMsg)
           /\ Head(q).svc \in Services /\ Head(q).fd \in Fds \union {NoFd}
           /\ Head(q).masks \in SUBSET Conditions
           /\ Head(q).id = "CONN_IND" => Head(q).fd \in Fds
<1>1. Head(q) \in ServiceMsg /\ Tail(q) \in Seq(ServiceMsg)
  BY TailPlaces
<1> QED BY <1>1 DEF ServiceMsg, Message

LEMMA StepKernel ==
    ASSUME Types, Next
    PROVE  KernelOK'
<1>0. /\ KernelOK /\ GuardedOK /\ PrivateOK /\ MasterOK /\ QueuesOK
      /\ MaxEvents \in Nat /\ Arrivals \subseteq SUBSET Conditions
      /\ Unwatched \in [svc: Services \union {NoService}, masks: SUBSET Conditions]
  BY SocketAssumption DEF Types, Unwatched
<1>1. ASSUME NEW fd \in Fds, NEW cs \in Arrivals, Arrive(fd, cs) PROVE KernelOK'
  <2>1. /\ level' \in [Fds -> SUBSET Conditions] /\ ready' \in [Fds -> SUBSET Conditions]
    BY <1>0, <1>1 DEF Arrive, KernelOK
  <2>2. arrived' \in 0..MaxEvents /\ \A f \in Fds : pending[f] <= arrived'
    BY <1>0, <1>1 DEF Arrive, KernelOK
  <2> QED BY <1>0, <1>1, <2>1, <2>2 DEF Arrive, KernelOK
<1>2. ASSUME NEW fd \in Fds, Connect(fd) PROVE KernelOK'
  <2>1. /\ level' \in [Fds -> SUBSET Conditions] /\ ready' \in [Fds -> SUBSET Conditions]
    BY <1>0, <1>2 DEF Connect, KernelOK, Conditions
  <2>2. /\ arrived' \in 0..MaxEvents /\ pending' \in [Fds -> Nat]
        /\ \A f \in Fds : pending'[f] <= arrived'
    BY <1>0, <1>2 DEF Connect, KernelOK
  <2> QED BY <1>0, <1>2, <2>1, <2>2 DEF Connect, KernelOK
<1>3. CASE MasterWait
  BY <1>0, <1>3 DEF MasterWait, KernelOK, bounds
<1>4. CASE Accept
  <2>1. Lowest(Fds \ open) \in Fds
    BY <1>4, LowestOf DEF Accept
  <2>2. pending' \in [Fds -> Nat] /\ \A f \in Fds : pending'[f] <= arrived
    <3>1. /\ current.fd \in Fds /\ pending[current.fd] # 0
          /\ pending' = [pending EXCEPT ![current.fd] = @ - 1]
      BY <1>0, <1>4 DEF Accept, AllAccepted, MasterOK
    <3>2. pending \in [Fds -> Nat] /\ arrived \in Nat /\ \A f \in Fds : pending[f] <= arrived
      BY <1>0 DEF KernelOK
    <3> QED BY <3>1, <3>2
  <2> QED BY <1>0, <1>4, <2>1, <2>2 DEF Accept, OpenFd, KernelOK, bounds
<1>5. CASE AcceptEnds
  <2>1. level' \in [Fds -> SUBSET Conditions]
    BY <1>0, <1>5 DEF AcceptEnds, KernelOK
  <2> QED BY <1>0, <1>5, <2>1 DEF AcceptEnds, KernelOK, bounds
<1>6. CASE HandleStartReq
  <2> DEFINE s == Head(mbatch).svc
  <2>1. s \in Services
    BY <1>0, <1>6, MasterHead DEF HandleStartReq
  <2>2. UNCHANGED <<open, listens, level, pending, arrived>>
    BY <1>6 DEF HandleStartReq, bounds
  <2>3. CASE evfd[s] # NoFd
    BY <1>0, <1>6, <2>1, <2>2, <2>3, RegisterKeeps DEF HandleStartReq, GuardedOK
  <2>4. CASE evfd[s] = NoFd
    BY <1>0, <1>6, <2>2, <2>4 DEF HandleStartReq, KernelOK
  <2> QED BY <2>3, <2>4
<1>7. CASE HandleAddEvent
  BY <1>0, <1>7, MasterHead, RegisterKeeps DEF HandleAddEvent, bounds
<1>8. CASE HandleDelEvent
  <2>1. Head(mbatch).fd = NoFd \/ {Head(mbatch).fd} \in SUBSET Fds
    BY <1>0, <1>8, MasterHead DEF HandleDelEvent
  <2>2. UNCHANGED arrived
    BY <1>8 DEF HandleDelEvent, bounds
  <2>3. CASE Head(mbatch).fd = NoFd
    BY <1>0, <1>8, <2>2, <2>3 DEF HandleDelEvent, kernel, KernelOK
  <2>4. CASE Head(mbatch).fd # NoFd
    BY <1>0, <1>8, <2>1, <2>2, <2>4, CloseKeeps DEF HandleDelEvent, DeleteAndClose
  <2> QED BY <2>3, <2>4
<1>9. CASE HandleClosed
  <2>1. held[Head(batch).svc] \in SUBSET Fds
    BY <1>0, <1>9, ServiceHead DEF HandleClosed, QueuesOK, PrivateOK
  <2> QED BY <1>0, <1>9, <2>1, CloseKeeps DEF HandleClosed, bounds
<1>10. ASSUME NEW s \in Services, NEW l \in BOOLEAN, OpenSocket(s, l) PROVE KernelOK'
  <2>1. Lowest(Fds \ open) \in Fds
    BY <1>10, LowestOf DEF OpenSocket
  <2> QED BY <1>0, <1>10, <2>1 DEF OpenSocket, OpenFd, KernelOK
<1>11. ASSUME NEW s \in Services, NEW fd \in held[s], CloseSocket(s, fd) PROVE KernelOK'
  <2>1. {fd} \in SUBSET Fds
    BY <1>0 DEF PrivateOK
  <2> QED BY <1>0, <1>11, <2>1, CloseKeeps DEF CloseSocket, bounds
<1>12. CASE UNCHANGED <<kernel, arrived>>
  BY <1>0, <1>12 DEF KernelOK, kernel
<1> QED BY <1>1, <1>2, <1>3, <1>4, <1>5, <1>6, <1>7, <1>8, <1>9, <1>10, <1>11,
           <1>12, KernelSteps DEF KernelStep

\* The word and the mask of a service's event, and its flags.
LEMMA StepGuarded ==
    ASSUME Types, Next
    PROVE  GuardedOK'
<1>0. /\ GuardedOK /\ PrivateOK /\ MasterOK /\ QueuesOK /\ WorkerOK
  BY DEF Types
<1>1. CASE MasterStep
  <2>1. CASE ConnectDone
    <3>1. current.flags \in SUBSET SocketFlags
      BY <1>0 DEF MasterOK, CurrentType
    <3> QED BY <1>0, <2>1, <3>1 DEF ConnectDone, GuardedOK
  <2>2. ASSUME NEW e \in events, DispatchData(e) PROVE GuardedOK'
    <3>1. e.masks \in SUBSET Conditions
      BY <1>0 DEF MasterOK, EventType
    <3>2. e.svc \in Services
      BY <2>2 DEF DispatchData, Ignored, Online
    <3> QED BY <1>0, <2>2, <3>1, <3>2 DEF DispatchData, Collected, GuardedOK
  <2>3. CASE HandleStartReq
    BY <1>0, <2>3 DEF HandleStartReq, GuardedOK
  <2>4. CASE UNCHANGED guarded
    BY <1>0, <2>4 DEF guarded, GuardedOK
  <2>5. MasterStep => ConnectDone \/ (\E e \in events : DispatchData(e)) \/ HandleStartReq
                      \/ UNCHANGED guarded
    BY DEF MasterStep, MasterWait, DispatchIgnored, DispatchListen, DispatchConnect,
       Accept, AcceptEnds, MasterTake, HandleAddEvent, HandleDelEvent,
       HandleCloseReq, MasterGet, MasterRoute, MasterDeliver
  <2> QED BY <1>1, <2>1, <2>2, <2>3, <2>4, <2>5
<1>2. CASE WorkerTake \/ WorkerFlush \/ HandleClosed \/ HandleSkipped \/ KernelStep
  BY <1>0, <1>2 DEF WorkerTake, WorkerFlush, HandleClosed, HandleSkipped,
     KernelStep, Arrive, Connect, guarded, GuardedOK
<1>3. CASE HandleMessage
  BY <1>0, <1>3 DEF HandleMessage, Taken, GuardedOK
<1>4. ASSUME NEW s \in Services, Entry(s) PROVE GuardedOK'
  <2>1. ASSUME NEW t \in Services, NEW fd \in held[s], StartWith(s, t, fd) PROVE GuardedOK'
    BY <1>0, <2>1 DEF StartWith, Refused, GuardedOK
  <2>2. ASSUME CallDelEvent(s) \/ CloseService(s) PROVE GuardedOK'
    BY <1>0, <2>2 DEF CallDelEvent, CloseService, DelEvent, GuardedOK
  <2>3. ASSUME NEW fd \in held[s] \union {evfd[s], NoFd},
               NEW kind \in {"data", "listen", "connect"}, ModEvent(s, fd, kind)
        PROVE  GuardedOK'
    <3>1. fd \in Fds \union {NoFd}
      BY <1>0 DEF GuardedOK, PrivateOK
    <3>2. {kind} \ {"data"} \in SUBSET SocketFlags
      BY DEF SocketFlags
    <3> QED BY <1>0, <2>3, <3>1, <3>2 DEF ModEvent, GuardedOK
  <2>4. CASE StopRx(s)
    <3>1. saved \union {"stoprx"} \in SUBSET SocketFlags
      BY <1>0 DEF WorkerOK, SocketFlags
    <3> QED BY <1>0, <2>4, <3>1 DEF StopRx, GuardedOK
  <2>5. CASE (\E l \in BOOLEAN : OpenSocket(s, l))
             \/ (\E fd \in held[s] : CloseSocket(s, fd)) \/ CloseSelf(s) \/ EntryReturn(s)
    BY <1>0, <2>5 DEF OpenSocket, CloseSocket, CloseSelf, EntryReturn, guarded, GuardedOK
  <2> QED BY <1>4, <2>1, <2>2, <2>3, <2>4, <2>5 DEF Entry
<1> QED BY <1>1, <1>2, <1>3, <1>4 DEF Next, WorkerStep

\* The life of a service, its own flags and its descriptors.
LEMMA StepPrivate ==
    ASSUME Types, Next
    PROVE  PrivateOK'
<1>0. /\ KernelOK /\ GuardedOK /\ PrivateOK /\ MasterOK /\ QueuesOK /\ WorkerOK
  BY DEF Types
<1>1. CASE MasterStep
  <2>1. CASE HandleStartReq
    BY <1>0, <2>1 DEF HandleStartReq, PrivateOK
  <2>2. CASE HandleCloseReq
    BY <1>0, <2>2 DEF HandleCloseReq, PrivateOK
  <2>3. CASE UNCHANGED private
    BY <1>0, <2>3 DEF private, PrivateOK
  <2>4. MasterStep => HandleStartReq \/ HandleCloseReq \/ UNCHANGED private
    BY DEF MasterStep, MasterWait, DispatchIgnored, DispatchListen, DispatchConnect,
       DispatchData, Accept, AcceptEnds, ConnectDone, MasterTake, HandleAddEvent,
       HandleDelEvent, MasterGet, MasterRoute, MasterDeliver
  <2> QED BY <1>1, <2>1, <2>2, <2>3, <2>4
<1>2. CASE WorkerTake \/ WorkerFlush \/ HandleSkipped \/ KernelStep
  BY <1>0, <1>2 DEF WorkerTake, WorkerFlush, HandleSkipped, KernelStep, Arrive,
     Connect, private, PrivateOK
<1>3. CASE HandleClosed
  BY <1>0, <1>3 DEF HandleClosed, PrivateOK
<1>4. CASE HandleMessage
  <2>1. Carried(Head(batch)) \in SUBSET Fds
    BY <1>0, <1>4, ServiceHead DEF HandleMessage, Carried, QueuesOK
  <2> QED BY <1>0, <1>4, <2>1 DEF HandleMessage, PrivateOK
<1>5. ASSUME NEW s \in Services, Entry(s) PROVE PrivateOK'
  <2>1. ASSUME NEW l \in BOOLEAN, OpenSocket(s, l) PROVE PrivateOK'
    <3>1. Lowest(Fds \ open) \in Fds
      BY <2>1, LowestOf DEF OpenSocket
    <3> QED BY <1>0, <2>1, <3>1 DEF OpenSocket, PrivateOK
  <2>2. ASSUME NEW fd \in held[s], CloseSocket(s, fd) PROVE PrivateOK'
    BY <1>0, <2>2 DEF CloseSocket, PrivateOK
  <2>3. ASSUME NEW t \in Services, NEW fd \in held[s], StartWith(s, t, fd) PROVE PrivateOK'
    <3>1. held' = [held EXCEPT ![s] = @ \ {fd}, ![t] = {fd}] /\ fd \in Fds
      BY <1>0, <2>3 DEF StartWith, PrivateOK
    <3>2. held' \in [Services -> SUBSET Fds]
      BY <1>0, <3>1 DEF PrivateOK
    <3> QED BY <1>0, <2>3, <3>2 DEF StartWith, PrivateOK
  <2>4. CASE CallDelEvent(s) \/ CloseService(s)
    BY <1>0, <2>4 DEF CallDelEvent, CloseService, DelEvent, PrivateOK
  <2>5. ASSUME NEW fd, NEW kind, ModEvent(s, fd, kind) PROVE PrivateOK'
    BY <1>0, <2>5 DEF ModEvent, PrivateOK
  <2>6. CASE CloseSelf(s)
    BY <1>0, <2>6 DEF CloseSelf, PrivateOK
  <2>7. CASE EntryReturn(s) \/ StopRx(s)
    BY <1>0, <2>7 DEF EntryReturn, StopRx, private, PrivateOK
  <2> QED BY <1>5, <2>1, <2>2, <2>3, <2>4, <2>5, <2>6, <2>7 DEF Entry
<1> QED BY <1>1, <1>2, <1>3, <1>4, <1>5 DEF Next, WorkerStep

\* Where the master is.
LEMMA StepMaster ==
    ASSUME Types, Next
    PROVE  MasterOK'
<1>0. /\ KernelOK /\ GuardedOK /\ MasterOK /\ QueuesOK
  BY DEF Types
<1>1. CASE MasterStep
  <2>1. CASE MasterWait
    <3>1. events' \subseteq EventType
      BY <1>0, <2>1 DEF MasterWait, EventType, KernelOK, FromEpoll
    <3> QED BY <1>0, <2>1, <3>1 DEF MasterWait, MasterOK
  <2>2. ASSUME NEW e \in events, DispatchIgnored(e) \/ DispatchData(e) PROVE MasterOK'
    BY <1>0, <2>2 DEF DispatchIgnored, DispatchData, MasterOK
  <2>3. ASSUME NEW e \in events, DispatchListen(e) \/ DispatchConnect(e) PROVE MasterOK'
    <3>1. e \in EventType /\ e.svc \in Services
      BY <1>0, <2>3 DEF DispatchListen, DispatchConnect, Ignored, Online, MasterOK
    <3>2. flags[e.svc] \in SUBSET SocketFlags
      BY <1>0, <3>1 DEF GuardedOK
    <3>3. current' \in CurrentType /\ current'.fd \in Fds /\ current'.svc \in Services
      BY <2>3, <3>1, <3>2 DEF DispatchListen, DispatchConnect, EventType, CurrentType
    <3> QED BY <1>0, <2>3, <3>3 DEF DispatchListen, DispatchConnect, MasterOK
  <2>4. CASE AcceptEnds \/ ConnectDone
    <3>1. NoEvent \in CurrentType
      BY DEF NoEvent, CurrentType
    <3> QED BY <1>0, <2>4, <3>1 DEF AcceptEnds, ConnectDone, MasterOK
  <2>5. CASE Accept
    BY <1>0, <2>5 DEF Accept, MasterOK
  <2>6. CASE MasterTake \/ MasterGet \/ MasterRoute \/ MasterDeliver
    BY <1>0, <2>6 DEF MasterTake, MasterGet, MasterRoute, MasterDeliver, MasterOK
  <2>7. CASE HandleStartReq \/ HandleAddEvent \/ HandleDelEvent \/ HandleCloseReq
    BY <1>0, <2>7 DEF HandleStartReq, HandleAddEvent, HandleDelEvent, HandleCloseReq,
       MasterHandling, MasterOK
  <2> QED BY <1>1, <2>1, <2>2, <2>3, <2>4, <2>5, <2>6, <2>7 DEF MasterStep
<1>2. CASE WorkerStep \/ KernelStep
  <2>1. UNCHANGED <<phase, events, current, mbatch>>
    <3>1. CASE WorkerTake \/ WorkerFlush \/ HandleClosed \/ HandleSkipped \/ HandleMessage
               \/ KernelStep
      BY <3>1 DEF WorkerTake, WorkerFlush, HandleClosed, HandleSkipped, HandleMessage,
         KernelStep, Arrive, Connect, master
    <3>2. ASSUME NEW s \in Services, Entry(s) PROVE UNCHANGED <<phase, events, current, mbatch>>
      BY <3>2 DEF Entry, OpenSocket, CloseSocket, StartWith, CallDelEvent, ModEvent,
         CloseSelf, EntryReturn, StopRx, CloseService, master
    <3> QED BY <1>2, <3>1, <3>2 DEF WorkerStep
  <2> QED BY <1>0, <2>1 DEF MasterOK
<1> QED BY <1>1, <1>2 DEF Next

\* What a service that is closing, or gives up its event, says.
LEMMA DeletionType ==
    ASSUME Types, NEW s \in Services
    PROVE  Deletion(s) \in Seq(MasterMsg) /\ LastWords(s) \in Seq(MasterMsg)
<1>1. evfd[s] \in Fds \union {NoFd}
  BY DEF Types, GuardedOK
<1>2. Msg("DEL_EVENT", NoService, evfd[s], {}) \in MasterMsg
      /\ Msg("CLOSE_REQ", s, NoFd, {}) \in MasterMsg
  BY <1>1, MasterMsgs
<1> HIDE DEF Msg
<1>3. Deletion(s) \in Seq(MasterMsg)
  BY <1>2 DEF Deletion
<1>4. <<Msg("CLOSE_REQ", s, NoFd, {})>> \in Seq(MasterMsg)
  BY <1>2
<1> QED BY <1>3, <1>4, ConcatPlaces DEF LastWords

\* The messages that setting an event sends.
ModMessages(s, fd, kind) ==
    (IF evfd[s] = NoFd THEN <<>>
     ELSE <<Msg("DEL_EVENT", NoService, Replaced(s, fd), {})>>)
    \o (IF fd = NoFd THEN <<>> ELSE <<Msg("ADD_EVENT", s, fd, Watched(kind))>>)

LEMMA ModMessagesType ==
    ASSUME Types, NEW s \in Services, NEW fd \in held[s] \union {evfd[s], NoFd}, NEW kind
    PROVE  /\ fd \in Fds \union {NoFd}
           /\ ModMessages(s, fd, kind) \in Seq(MasterMsg)
<1>1. fd \in Fds \union {NoFd}
  BY DEF Types, GuardedOK, PrivateOK
<1>2. Watched(kind) \in SUBSET Conditions
  BY DEF Watched, Conditions
<1>3. /\ Msg("DEL_EVENT", NoService, fd, {}) \in MasterMsg
      /\ fd # NoFd => Msg("ADD_EVENT", s, fd, Watched(kind)) \in MasterMsg
  BY <1>1, <1>2, MasterMsgs
<1>4. /\ <<Msg("DEL_EVENT", NoService, fd, {})>> \in Seq(MasterMsg)
      /\ fd # NoFd => <<Msg("ADD_EVENT", s, fd, Watched(kind))>> \in Seq(MasterMsg)
      /\ <<>> \in Seq(MasterMsg)
  BY <1>3
<1> QED BY <1>1, <1>4, ConcatPlaces DEF ModMessages, Replaced

-----------------------------------------------------------------------------
(* The two ways of messages.                                               *)

\* The messages to the master, and those to services that it has routed, each
\* in the order in which they will be handled.
Asked == mbatch \o mrx \o txms
Sent == batch \o rx \o out

LEMMA AskedParts ==
    ASSUME QueuesOK
    PROVE  /\ Asked \in Seq(MasterMsg)
           /\ Elements(Asked) = Elements(ForMaster)
           /\ Elements(Asked) = Elements(mbatch) \union Elements(mrx) \union Elements(txms)
<1>0. mrx \in Seq(MasterMsg) /\ mbatch \in Seq(MasterMsg) /\ txms \in Seq(MasterMsg)
  BY DEF QueuesOK
<1>1. Asked \in Seq(MasterMsg)
      /\ Elements(Asked) = Elements(mbatch) \union Elements(mrx) \union Elements(txms)
  BY <1>0, ElementsOfThree DEF Asked
<1>2. Elements(ForMaster) = Elements(txms) \union Elements(mrx) \union Elements(mbatch)
  BY <1>0, ElementsOfThree DEF ForMaster
<1> QED BY <1>1, <1>2

LEMMA ElementsOfFour ==
    ASSUME NEW S, NEW t \in Seq(S), NEW o \in Seq(S), NEW r \in Seq(S), NEW b \in Seq(S)
    PROVE  /\ Elements(o \o r \o b) = Elements(b \o r \o o)
           /\ Elements(t \o o \o r \o b) = Elements(t) \union Elements(b \o r \o o)
<1>1. /\ Elements(b \o r \o o) = Elements(b) \union Elements(r) \union Elements(o)
      /\ Elements(o \o r \o b) = Elements(o) \union Elements(r) \union Elements(b)
      /\ t \o o \o r \in Seq(S)
      /\ Elements(t \o o \o r) = Elements(t) \union Elements(o) \union Elements(r)
  BY ElementsOfThree
<1>2. PICK q \in Seq(S) : q = t \o o \o r
  BY <1>1
<1>3. Elements(q \o b) = Elements(q) \union Elements(b)
  BY ElementsConcat
<1> QED BY <1>1, <1>2, <1>3

LEMMA SentParts ==
    ASSUME QueuesOK
    PROVE  /\ Sent \in Seq(ServiceMsg)
           /\ Elements(Sent) = Elements(out \o rx \o batch)
           /\ Elements(ForService) = Elements(txmq) \union Elements(Sent)
           /\ Elements(Sent) = Elements(batch) \union Elements(rx) \union Elements(out)
<1>0. /\ batch \in Seq(ServiceMsg) /\ rx \in Seq(ServiceMsg)
      /\ out \in Seq(ServiceMsg) /\ txmq \in Seq(ServiceMsg)
  BY DEF QueuesOK
<1>1. Sent \in Seq(ServiceMsg)
      /\ Elements(Sent) = Elements(batch) \union Elements(rx) \union Elements(out)
  BY <1>0, ElementsOfThree DEF Sent
<1> QED BY <1>0, <1>1, ElementsOfFour DEF Sent, ForService

\* Moving messages from queue to queue changes neither.
LEMMA AskedKept ==
    ASSUME MasterOK, QueuesOK,
           MasterTake \/ WorkerFlush \/ UNCHANGED <<mrx, mbatch, txms>>
    PROVE  /\ Asked' = Asked
           /\ mrx' \in Seq(MasterMsg) /\ mbatch' \in Seq(MasterMsg) /\ txms' \in Seq(MasterMsg)
<1>0. /\ mrx \in Seq(MasterMsg) /\ mbatch \in Seq(MasterMsg) /\ txms \in Seq(MasterMsg)
      /\ <<>> \in Seq(MasterMsg)
  BY ElementsEmpty DEF QueuesOK
<1>1. CASE MasterTake
  <2>1. mbatch = <<>> /\ mbatch' = mrx /\ mrx' = <<>> /\ txms' = txms
    BY <1>1 DEF MasterTake, MasterOK, worker
  <2>2. <<>> \o mrx = mrx /\ mrx \o <<>> = mrx
    BY <1>0, Regroup
  <2> QED BY <1>0, <2>1, <2>2 DEF Asked
<1>2. CASE WorkerFlush
  <2>1. mbatch' = mbatch /\ mrx' = mrx \o txms /\ txms' = <<>>
    BY <1>2 DEF WorkerFlush
  <2>2. /\ (mbatch \o mrx) \o txms = mbatch \o (mrx \o txms)
        /\ mrx \o txms \in Seq(MasterMsg)
    BY <1>0, Regroup, ElementsConcat
  <2>3. mbatch \o (mrx \o txms) \in Seq(MasterMsg)
    BY <1>0, <2>2, ElementsConcat
  <2>4. (mbatch \o (mrx \o txms)) \o <<>> = mbatch \o (mrx \o txms)
    BY <2>3, Regroup
  <2> QED BY <1>0, <2>1, <2>2, <2>4 DEF Asked
<1>3. CASE UNCHANGED <<mrx, mbatch, txms>>
  BY <1>0, <1>3 DEF Asked
<1> QED BY <1>1, <1>2, <1>3

\* The master handles the first message.
LEMMA AskedHead ==
    ASSUME QueuesOK, NEW id, MasterHandling(id), UNCHANGED <<mrx, txms>>
    PROVE  /\ Asked # <<>> /\ Head(Asked) = Head(mbatch) /\ Asked' = Tail(Asked)
           /\ mrx' \in Seq(MasterMsg) /\ mbatch' \in Seq(MasterMsg) /\ txms' \in Seq(MasterMsg)
<1>0. /\ mrx \in Seq(MasterMsg) /\ mbatch \in Seq(MasterMsg) /\ txms \in Seq(MasterMsg)
  BY DEF QueuesOK
<1>1. mbatch # <<>> /\ mbatch' = Tail(mbatch) /\ Tail(mbatch) \in Seq(MasterMsg)
  BY MasterHead
<1>2. /\ Three(mbatch, mrx, txms) # <<>> /\ Head(Three(mbatch, mrx, txms)) = Head(mbatch)
      /\ Tail(Three(mbatch, mrx, txms)) = Three(Tail(mbatch), mrx, txms)
  BY <1>0, <1>1, EndsOfThree
<1> QED BY <1>0, <1>1, <1>2 DEF Asked, Three

\* A service asks the master.
LEMMA AskedMore ==
    ASSUME QueuesOK, NEW ms \in Seq(MasterMsg), ToMaster(ms), UNCHANGED <<mrx, mbatch>>
    PROVE  /\ Asked' = Asked \o ms
           /\ mrx' \in Seq(MasterMsg) /\ mbatch' \in Seq(MasterMsg) /\ txms' \in Seq(MasterMsg)
<1>0. /\ mrx \in Seq(MasterMsg) /\ mbatch \in Seq(MasterMsg) /\ txms \in Seq(MasterMsg)
      /\ txms' = txms \o ms
  BY DEF QueuesOK, ToMaster
<1>1. txms \o ms \in Seq(MasterMsg)
  BY <1>0, ElementsConcat
<1>2. Three(mbatch, mrx, Joined(txms, ms)) = Joined(Three(mbatch, mrx, txms), ms)
  BY <1>0, EndsOfThree
<1> QED BY <1>0, <1>1, <1>2 DEF Asked, Three, Joined

LEMMA SentKept ==
    ASSUME QueuesOK,
           WorkerTake \/ MasterDeliver \/ UNCHANGED <<batch, rx, out>>
    PROVE  /\ Sent' = Sent
           /\ batch' \in Seq(ServiceMsg) /\ rx' \in Seq(ServiceMsg) /\ out' \in Seq(ServiceMsg)
<1>0. /\ batch \in Seq(ServiceMsg) /\ rx \in Seq(ServiceMsg) /\ out \in Seq(ServiceMsg)
      /\ <<>> \in Seq(ServiceMsg)
  BY ElementsEmpty DEF QueuesOK
<1>1. CASE WorkerTake
  <2>1. batch = <<>> /\ batch' = rx /\ rx' = <<>> /\ out' = out
    BY <1>1 DEF WorkerTake, master
  <2>2. <<>> \o rx = rx /\ rx \o <<>> = rx
    BY <1>0, Regroup
  <2> QED BY <1>0, <2>1, <2>2 DEF Sent
<1>2. CASE MasterDeliver
  <2>1. batch' = batch /\ rx' = rx \o out /\ out' = <<>>
    BY <1>2 DEF MasterDeliver, Delivered
  <2>2. /\ (batch \o rx) \o out = batch \o (rx \o out)
        /\ rx \o out \in Seq(ServiceMsg)
    BY <1>0, Regroup, ElementsConcat
  <2>3. batch \o (rx \o out) \in Seq(ServiceMsg)
    BY <1>0, <2>2, ElementsConcat
  <2>4. (batch \o (rx \o out)) \o <<>> = batch \o (rx \o out)
    BY <2>3, Regroup
  <2> QED BY <1>0, <2>1, <2>2, <2>4 DEF Sent
<1>3. CASE UNCHANGED <<batch, rx, out>>
  BY <1>0, <1>3 DEF Sent
<1> QED BY <1>1, <1>2, <1>3

\* The worker handles the first message.
LEMMA SentHead ==
    ASSUME QueuesOK, batch # <<>>, batch' = Tail(batch), UNCHANGED <<rx, out>>
    PROVE  /\ Sent # <<>> /\ Head(Sent) = Head(batch) /\ Sent' = Tail(Sent)
           /\ batch' \in Seq(ServiceMsg) /\ rx' \in Seq(ServiceMsg) /\ out' \in Seq(ServiceMsg)
<1>0. /\ batch \in Seq(ServiceMsg) /\ rx \in Seq(ServiceMsg) /\ out \in Seq(ServiceMsg)
      /\ Tail(batch) \in Seq(ServiceMsg)
  BY ServiceHead DEF QueuesOK
<1>1. /\ Three(batch, rx, out) # <<>> /\ Head(Three(batch, rx, out)) = Head(batch)
      /\ Tail(Three(batch, rx, out)) = Three(Tail(batch), rx, out)
  BY <1>0, EndsOfThree
<1> QED BY <1>0, <1>1 DEF Sent, Three

\* The master routes a message.
LEMMA SentMore ==
    ASSUME QueuesOK, NEW m \in ServiceMsg, out' = Append(out, m), UNCHANGED <<batch, rx>>
    PROVE  /\ Sent' = Append(Sent, m)
           /\ batch' \in Seq(ServiceMsg) /\ rx' \in Seq(ServiceMsg) /\ out' \in Seq(ServiceMsg)
<1>0. /\ batch \in Seq(ServiceMsg) /\ rx \in Seq(ServiceMsg) /\ out \in Seq(ServiceMsg)
      /\ <<m>> \in Seq(ServiceMsg)
  BY DEF QueuesOK
<1>1. /\ Append(out, m) = out \o <<m>> /\ Append(out, m) \in Seq(ServiceMsg)
  BY <1>0, ElementsAppend, AppendIsConcat
<1>2. batch \o rx \o (out \o <<m>>) = (batch \o rx \o out) \o <<m>>
  <2>1. PICK one \in Seq(ServiceMsg) : one = <<m>>
    BY <1>0
  <2>2. Three(batch, rx, Joined(out, one)) = Joined(Three(batch, rx, out), one)
    BY <1>0, EndsOfThree
  <2> QED BY <2>1, <2>2 DEF Three, Joined
<1>3. Append(Sent, m) = Sent \o <<m>>
  BY SentParts, AppendIsConcat
<1> QED BY <1>0, <1>1, <1>2, <1>3 DEF Sent

\* What the queues to the master do in a step.
LEMMA StepAsked ==
    ASSUME Types, Next
    PROVE  /\ mrx' \in Seq(MasterMsg) /\ mbatch' \in Seq(MasterMsg) /\ txms' \in Seq(MasterMsg)
           /\ \/ Asked' = Asked
              \/ HandleStartReq \/ HandleAddEvent \/ HandleDelEvent \/ HandleCloseReq
              \/ \E s \in Services : \/ CallDelEvent(s) \/ CloseService(s)
                                     \/ \E t \in Services, fd \in held[s] : StartWith(s, t, fd)
                                     \/ \E fd \in held[s] \union {evfd[s], NoFd},
                                           kind \in {"data", "listen", "connect"} :
                                          ModEvent(s, fd, kind)
<1>0. MasterOK /\ QueuesOK
  BY DEF Types
<1>1. CASE MasterTake \/ WorkerFlush \/ UNCHANGED <<mrx, mbatch, txms>>
  BY <1>0, <1>1, AskedKept
<1>2. CASE HandleStartReq \/ HandleAddEvent \/ HandleDelEvent \/ HandleCloseReq
  <2>1. \E id \in MsgIds : MasterHandling(id) /\ UNCHANGED <<mrx, txms>>
    BY <1>2 DEF HandleStartReq, HandleAddEvent, HandleDelEvent, HandleCloseReq, MsgIds, worker
  <2> QED BY <1>0, <1>2, <2>1, AskedHead
<1>3. ASSUME NEW s \in Services, CallDelEvent(s) \/ CloseService(s)
      PROVE  mrx' \in Seq(MasterMsg) /\ mbatch' \in Seq(MasterMsg) /\ txms' \in Seq(MasterMsg)
  <2>1. UNCHANGED <<mrx, mbatch>> /\ (ToMaster(Deletion(s)) \/ ToMaster(LastWords(s)))
    BY <1>3 DEF CallDelEvent, CloseService, master
  <2> QED BY <1>0, <2>1, AskedMore, DeletionType
<1>4. ASSUME NEW s \in Services, NEW t \in Services, NEW fd \in held[s], StartWith(s, t, fd)
      PROVE  mrx' \in Seq(MasterMsg) /\ mbatch' \in Seq(MasterMsg) /\ txms' \in Seq(MasterMsg)
  <2>1. UNCHANGED <<mrx, mbatch>> /\ ToMaster(<<Msg("START_REQ", t, NoFd, {})>>)
    BY <1>4 DEF StartWith, master
  <2>2. Msg("START_REQ", t, NoFd, {}) \in MasterMsg
    BY MasterMsgs
  <2>3. <<Msg("START_REQ", t, NoFd, {})>> \in Seq(MasterMsg)
    BY <2>2
  <2> QED BY <1>0, <2>1, <2>3, AskedMore
<1>5. ASSUME NEW s \in Services, NEW fd \in held[s] \union {evfd[s], NoFd},
             NEW kind \in {"data", "listen", "connect"}, ModEvent(s, fd, kind)
      PROVE  mrx' \in Seq(MasterMsg) /\ mbatch' \in Seq(MasterMsg) /\ txms' \in Seq(MasterMsg)
  <2>1. UNCHANGED <<mrx, mbatch>> /\ ToMaster(ModMessages(s, fd, kind))
    BY <1>5 DEF ModEvent, ModMessages, master
  <2> QED BY <1>0, <2>1, AskedMore, ModMessagesType
<1>6. MasterStep =>
        \/ MasterTake \/ UNCHANGED <<mrx, mbatch, txms>>
        \/ HandleStartReq \/ HandleAddEvent \/ HandleDelEvent \/ HandleCloseReq
  BY DEF MasterStep, MasterWait, DispatchIgnored, DispatchListen, DispatchConnect,
     DispatchData, Accept, AcceptEnds, ConnectDone, MasterGet, MasterRoute,
     MasterDeliver, worker
<1>7. WorkerTake \/ HandleClosed \/ HandleSkipped \/ HandleMessage \/ KernelStep =>
        UNCHANGED <<mrx, mbatch, txms>>
  BY DEF WorkerTake, HandleClosed, HandleSkipped, HandleMessage, KernelStep, Arrive,
     Connect, master, worker
<1>8. ASSUME NEW s \in Services,
             (\E l \in BOOLEAN : OpenSocket(s, l)) \/ (\E fd \in held[s] : CloseSocket(s, fd))
             \/ CloseSelf(s) \/ EntryReturn(s) \/ StopRx(s)
      PROVE  UNCHANGED <<mrx, mbatch, txms>>
  BY <1>8 DEF OpenSocket, CloseSocket, CloseSelf, EntryReturn, StopRx, master, worker
<1>9. CASE \E s \in Services : Entry(s)
  <2> PICK s \in Services : Entry(s)
    BY <1>9
  <2>1. CASE CallDelEvent(s) \/ CloseService(s)
    BY <1>3, <2>1
  <2>2. CASE \E t \in Services, fd \in held[s] : StartWith(s, t, fd)
    BY <1>4, <2>2
  <2>3. CASE \E fd \in held[s] \union {evfd[s], NoFd}, kind \in {"data", "listen", "connect"} :
                ModEvent(s, fd, kind)
    BY <1>5, <2>3
  <2> QED BY <1>1, <1>8, <2>1, <2>2, <2>3 DEF Entry
<1> QED BY <1>1, <1>2, <1>6, <1>7, <1>9 DEF Next, WorkerStep

\* What the queues to the services do in a step.
LEMMA StepSent ==
    ASSUME Types, Next
    PROVE  /\ txmq' \in Seq(ServiceMsg) /\ batch' \in Seq(ServiceMsg)
           /\ rx' \in Seq(ServiceMsg) /\ out' \in Seq(ServiceMsg)
           /\ \/ Sent' = Sent
              \/ MasterRoute
              \/ HandleClosed \/ HandleSkipped \/ HandleMessage
           /\ \/ UNCHANGED txmq
              \/ MasterRoute \/ Accept \/ ConnectDone \/ HandleStartReq \/ HandleCloseReq
              \/ \E e \in events : DispatchData(e)
<1>0. MasterOK /\ QueuesOK
  BY DEF Types
<1>m. ASSUME NEW m \in ServiceMsg, ToService(m) PROVE txmq' \in Seq(ServiceMsg)
  BY <1>0, <1>m, ElementsAppend DEF ToService, QueuesOK
<1>1. CASE WorkerTake \/ MasterDeliver \/ UNCHANGED <<batch, rx, out>>
  <2>1. /\ batch' \in Seq(ServiceMsg) /\ rx' \in Seq(ServiceMsg) /\ out' \in Seq(ServiceMsg)
        /\ Sent' = Sent
    BY <1>0, <1>1, SentKept
  <2>2. CASE UNCHANGED txmq
    BY <1>0, <2>1, <2>2 DEF QueuesOK
  <2>3. CASE Accept
    <3>1. Lowest(Fds \ open) \in Fds /\ current.svc \in Services /\ {} \in SUBSET Conditions
      BY <1>0, <2>3, LowestOf DEF Accept, MasterOK
    <3>2. Msg("CONN_IND", current.svc, Lowest(Fds \ open), {}) \in ServiceMsg
      BY <3>1, ServiceMsgs
    <3> QED BY <1>m, <2>1, <2>3, <3>2 DEF Accept
  <2>4. CASE ConnectDone
    <3>1. current.fd \in Fds /\ current.svc \in Services /\ current.masks \in SUBSET Conditions
      BY <1>0, <2>4 DEF ConnectDone, MasterOK, CurrentType
    <3>2. Msg("CONN_RSP", current.svc, current.fd, current.masks) \in ServiceMsg
      BY <3>1, ServiceMsgs
    <3> QED BY <1>m, <2>1, <2>4, <3>2 DEF ConnectDone
  <2>5. CASE HandleStartReq \/ HandleCloseReq
    <3>1. Head(mbatch).svc \in Services
      BY <1>0, <2>5, MasterHead DEF HandleStartReq, HandleCloseReq
    <3>2. /\ Msg("START_RSP", Head(mbatch).svc, NoFd, {}) \in ServiceMsg
          /\ Msg("CLOSE_RSP", Head(mbatch).svc, NoFd, {}) \in ServiceMsg
      BY <3>1, ServiceMsgs
    <3> QED BY <1>m, <2>1, <2>5, <3>2 DEF HandleStartReq, HandleCloseReq
  <2>6. CASE \E e \in events : DispatchData(e)
    <3> PICK e \in events : DispatchData(e)
      BY <2>6
    <3>1. e.fd \in Fds /\ e.svc \in Services /\ {} \in SUBSET Conditions
      BY <1>0 DEF DispatchData, Ignored, Online, MasterOK, EventType
    <3>2. Msg("EVENT_IND", e.svc, e.fd, {}) \in ServiceMsg
      BY <3>1, ServiceMsgs
    <3>3. ToService(Msg("EVENT_IND", e.svc, e.fd, {})) \/ UNCHANGED txmq
      BY DEF DispatchData
    <3> QED BY <1>0, <1>m, <2>1, <2>6, <3>2, <3>3 DEF QueuesOK
  <2>7. /\ WorkerTake \/ MasterDeliver => UNCHANGED txmq
        /\ Next /\ UNCHANGED <<batch, rx, out>> =>
             \/ UNCHANGED txmq
             \/ MasterRoute \/ Accept \/ ConnectDone \/ HandleStartReq \/ HandleCloseReq
             \/ \E e \in events : DispatchData(e)
    <3>1. WorkerTake \/ MasterDeliver => UNCHANGED txmq
      BY DEF WorkerTake, MasterDeliver, master
    <3>2. ASSUME MasterStep
          PROVE  \/ UNCHANGED txmq
                 \/ MasterRoute \/ Accept \/ ConnectDone \/ HandleStartReq \/ HandleCloseReq
                 \/ \E e \in events : DispatchData(e)
      BY <3>2 DEF MasterStep, MasterWait, DispatchIgnored, DispatchListen, DispatchConnect,
         AcceptEnds, MasterTake, HandleAddEvent, HandleDelEvent, MasterGet, MasterDeliver
    <3>3. CASE WorkerTake \/ WorkerFlush \/ HandleClosed \/ HandleSkipped \/ HandleMessage
               \/ KernelStep
      BY <3>3 DEF WorkerTake, WorkerFlush, HandleClosed, HandleSkipped, HandleMessage,
         KernelStep, Arrive, Connect, master
    <3>4. ASSUME NEW s \in Services, Entry(s) PROVE UNCHANGED txmq
      BY <3>4 DEF Entry, OpenSocket, CloseSocket, StartWith, CallDelEvent, ModEvent,
         CloseSelf, EntryReturn, StopRx, CloseService, master
    <3> QED BY <3>1, <3>2, <3>3, <3>4 DEF Next, WorkerStep
  <2>8. CASE MasterRoute
    <3>1. txmq' \in Seq(ServiceMsg)
      BY <1>0, <2>8, ServiceHead DEF MasterRoute, QueuesOK
    <3> QED BY <2>1, <2>8, <3>1
  <2> QED BY <1>1, <2>2, <2>3, <2>4, <2>5, <2>6, <2>7, <2>8
<1>2. CASE MasterRoute
  <2>1. /\ Head(txmq) \in ServiceMsg /\ txmq' \in Seq(ServiceMsg)
        /\ out' = Append(out, Head(txmq)) \/ out' = out
        /\ UNCHANGED <<batch, rx>>
    BY <1>0, <1>2, ServiceHead DEF MasterRoute, QueuesOK, worker
  <2> QED BY <1>0, <1>2, <2>1, SentMore, SentKept
<1>3. CASE HandleClosed \/ HandleSkipped \/ HandleMessage
  <2>1. batch # <<>> /\ batch' = Tail(batch) /\ UNCHANGED <<rx, out, txmq>>
    BY <1>3 DEF HandleClosed, HandleSkipped, HandleMessage, master
  <2> QED BY <1>0, <1>3, <2>1, SentHead DEF QueuesOK
<1>4. MasterStep => MasterDeliver \/ MasterRoute \/ UNCHANGED <<batch, rx, out>>
  BY DEF MasterStep, MasterWait, DispatchIgnored, DispatchListen, DispatchConnect,
     DispatchData, Accept, AcceptEnds, ConnectDone, MasterTake, HandleStartReq,
     HandleAddEvent, HandleDelEvent, HandleCloseReq, MasterGet, worker
<1>5. WorkerFlush \/ KernelStep => UNCHANGED <<batch, rx, out>>
  BY DEF WorkerFlush, KernelStep, Arrive, Connect, master, worker
<1>6. ASSUME NEW s \in Services, Entry(s) PROVE UNCHANGED <<batch, rx, out>>
  BY <1>6 DEF Entry, OpenSocket, CloseSocket, StartWith, CallDelEvent, ModEvent,
     CloseSelf, EntryReturn, StopRx, CloseService, master, worker
<1> QED BY <1>1, <1>2, <1>3, <1>4, <1>5, <1>6 DEF Next, WorkerStep

LEMMA StepWorker ==
    ASSUME Types, Next
    PROVE  WorkerOK'
<1>0. GuardedOK /\ QueuesOK /\ WorkerOK
  BY DEF Types
<1>1. CASE MasterStep \/ KernelStep
  <2>1. UNCHANGED <<running, step, saved>>
    BY <1>1 DEF MasterStep, MasterWait, DispatchIgnored, DispatchListen, DispatchConnect,
       DispatchData, Accept, AcceptEnds, ConnectDone, MasterTake, HandleStartReq,
       HandleAddEvent, HandleDelEvent, HandleCloseReq, MasterGet, MasterRoute,
       MasterDeliver, KernelStep, Arrive, Connect, worker
  <2> QED BY <1>0, <2>1 DEF WorkerOK
<1>2. CASE WorkerTake \/ WorkerFlush \/ HandleClosed \/ HandleSkipped
  BY <1>0, <1>2 DEF WorkerTake, WorkerFlush, HandleClosed, HandleSkipped, WorkerOK
<1>3. CASE HandleMessage
  <2>1. Head(batch).svc \in Services
    BY <1>0, <1>3, ServiceHead DEF HandleMessage, QueuesOK
  <2> QED BY <1>0, <1>3, <2>1 DEF HandleMessage, WorkerOK
<1>4. ASSUME NEW s \in Services, Entry(s) PROVE WorkerOK'
  <2>1. CASE EntryReturn(s) \/ StopRx(s) \/ CloseService(s)
    BY <1>0, <2>1 DEF EntryReturn, StopRx, CloseService, Calling, GuardedOK, WorkerOK
  <2>2. (\E l \in BOOLEAN : OpenSocket(s, l)) \/ (\E fd \in held[s] : CloseSocket(s, fd))
        \/ (\E t \in Services, fd \in held[s] : StartWith(s, t, fd))
        \/ CallDelEvent(s) \/ (\E fd, kind : ModEvent(s, fd, kind)) \/ CloseSelf(s)
        => UNCHANGED <<running, step, saved>>
    BY DEF OpenSocket, CloseSocket, StartWith, CallDelEvent, ModEvent, CloseSelf, worker
  <2>3. CASE UNCHANGED <<running, step, saved>>
    BY <1>0, <2>3 DEF WorkerOK
  <2> QED BY <1>4, <2>1, <2>2, <2>3 DEF Entry
<1> QED BY <1>1, <1>2, <1>3, <1>4 DEF Next, WorkerStep

LEMMA StepCounts ==
    ASSUME Types, Next
    PROVE  CountsOK'
<1>0. /\ KernelOK /\ GuardedOK /\ PrivateOK /\ MasterOK /\ QueuesOK /\ WorkerOK /\ CountsOK
      /\ MaxOpens \in Nat /\ MaxMods \in Nat
  BY SocketAssumption DEF Types
<1>1. opens' \in 0..MaxOpens
  <2>1. (\E s \in Services, l \in BOOLEAN : OpenSocket(s, l)) \/ UNCHANGED opens
    <3>1. CASE MasterStep \/ KernelStep
      BY <3>1 DEF MasterStep, MasterWait, DispatchIgnored, DispatchListen, DispatchConnect,
         DispatchData, Accept, AcceptEnds, ConnectDone, MasterTake, HandleStartReq,
         HandleAddEvent, HandleDelEvent, HandleCloseReq, MasterGet, MasterRoute,
         MasterDeliver, KernelStep, Arrive, Connect, bounds
    <3>2. CASE WorkerTake \/ WorkerFlush \/ HandleClosed \/ HandleSkipped \/ HandleMessage
      BY <3>2 DEF WorkerTake, WorkerFlush, HandleClosed, HandleSkipped, HandleMessage, bounds
    <3>3. ASSUME NEW s \in Services, Entry(s)
          PROVE  (\E l \in BOOLEAN : OpenSocket(s, l)) \/ UNCHANGED opens
      BY <3>3 DEF Entry, CloseSocket, StartWith, CallDelEvent, ModEvent,
         CloseSelf, EntryReturn, StopRx, CloseService, bounds
    <3> QED BY <3>1, <3>2, <3>3 DEF Next, WorkerStep
  <2> QED BY <1>0, <2>1 DEF OpenSocket, CountsOK
<1>2. mods' \in [Services -> 0..MaxMods]
  <2>1. (\E s \in Services : \E fd, kind : ModEvent(s, fd, kind)) \/ UNCHANGED mods
    <3>1. CASE MasterStep \/ KernelStep
      BY <3>1 DEF MasterStep, MasterWait, DispatchIgnored, DispatchListen, DispatchConnect,
         DispatchData, Accept, AcceptEnds, ConnectDone, MasterTake, HandleStartReq,
         HandleAddEvent, HandleDelEvent, HandleCloseReq, MasterGet, MasterRoute,
         MasterDeliver, KernelStep, Arrive, Connect, bounds
    <3>2. CASE WorkerTake \/ WorkerFlush \/ HandleClosed \/ HandleSkipped \/ HandleMessage
      BY <3>2 DEF WorkerTake, WorkerFlush, HandleClosed, HandleSkipped, HandleMessage, bounds
    <3>3. ASSUME NEW s \in Services, Entry(s)
          PROVE  (\E fd, kind : ModEvent(s, fd, kind)) \/ UNCHANGED mods
      BY <3>3 DEF Entry, OpenSocket, CloseSocket, StartWith, CallDelEvent,
         CloseSelf, EntryReturn, StopRx, CloseService, bounds
    <3> QED BY <3>1, <3>2, <3>3 DEF Next, WorkerStep
  <2>2. mods \in [Services -> 0..MaxMods]
    BY <1>0 DEF CountsOK
  <2>3. ASSUME NEW s \in Services, NEW fd, NEW kind, ModEvent(s, fd, kind)
        PROVE  mods' \in [Services -> 0..MaxMods]
    <3>1. mods[s] + 1 \in 0..MaxMods /\ mods' = [mods EXCEPT ![s] = mods[s] + 1]
      BY <1>0, <2>2, <2>3 DEF ModEvent
    <3> QED BY <2>2, <3>1
  <2> QED BY <2>1, <2>2, <2>3
<1>3. given' \in [Services -> SUBSET Conditions]
  <2>1. \/ (\E fd \in Fds, cs \in Arrivals : Arrive(fd, cs)) \/ HandleMessage
        \/ (\E s \in Services : \E fd, kind : ModEvent(s, fd, kind)) \/ UNCHANGED given
    <3>1. CASE MasterStep
      BY <3>1 DEF MasterStep, MasterWait, DispatchIgnored, DispatchListen, DispatchConnect,
         DispatchData, Accept, AcceptEnds, ConnectDone, MasterTake, HandleStartReq,
         HandleAddEvent, HandleDelEvent, HandleCloseReq, MasterGet, MasterRoute,
         MasterDeliver, history
    <3>2. CASE WorkerTake \/ WorkerFlush \/ HandleClosed \/ HandleSkipped
      BY <3>2 DEF WorkerTake, WorkerFlush, HandleClosed, HandleSkipped, history
    <3>3. ASSUME NEW s \in Services, Entry(s)
          PROVE  (\E fd, kind : ModEvent(s, fd, kind)) \/ UNCHANGED given
      BY <3>3 DEF Entry, OpenSocket, CloseSocket, StartWith, CallDelEvent,
         CloseSelf, EntryReturn, StopRx, CloseService, history
    <3>4. CASE KernelStep
      BY <3>4 DEF KernelStep, Connect, history
    <3> QED BY <3>1, <3>2, <3>3, <3>4 DEF Next, WorkerStep
  <2>2. given \in [Services -> SUBSET Conditions]
    BY <1>0 DEF CountsOK
  <2>3. ASSUME NEW fd \in Fds, NEW cs \in Arrivals, Arrive(fd, cs)
        PROVE  given' \in [Services -> SUBSET Conditions]
    BY <2>2, <2>3 DEF Arrive
  <2>4. CASE HandleMessage
    <3>1. Head(batch).svc \in Services /\ Head(batch).masks \in SUBSET Conditions
      BY <1>0, <2>4, ServiceHead DEF HandleMessage, QueuesOK
    <3>2. evmk[Head(batch).svc] \in SUBSET Conditions
      BY <1>0, <3>1 DEF GuardedOK
    <3> QED BY <2>2, <2>4, <3>1, <3>2 DEF HandleMessage
  <2>5. ASSUME NEW s \in Services, NEW fd, NEW kind, ModEvent(s, fd, kind)
        PROVE  given' \in [Services -> SUBSET Conditions]
    BY <2>2, <2>5 DEF ModEvent
  <2> QED BY <2>1, <2>2, <2>3, <2>4, <2>5
<1>4. dropped' \subseteq Fds
  <2>1. MasterRoute \/ HandleSkipped \/ UNCHANGED dropped
    <3>1. CASE MasterStep \/ KernelStep
      BY <3>1 DEF MasterStep, MasterWait, DispatchIgnored, DispatchListen, DispatchConnect,
         DispatchData, Accept, AcceptEnds, ConnectDone, MasterTake, HandleStartReq,
         HandleAddEvent, HandleDelEvent, HandleCloseReq, MasterGet,
         MasterDeliver, KernelStep, Arrive, Connect, history
    <3>2. CASE WorkerTake \/ WorkerFlush \/ HandleClosed \/ HandleMessage
      BY <3>2 DEF WorkerTake, WorkerFlush, HandleClosed, HandleMessage, history
    <3>3. ASSUME NEW s \in Services, Entry(s) PROVE UNCHANGED dropped
      BY <3>3 DEF Entry, OpenSocket, CloseSocket, StartWith, CallDelEvent, ModEvent,
         CloseSelf, EntryReturn, StopRx, CloseService, history
    <3> QED BY <3>1, <3>2, <3>3 DEF Next, WorkerStep
  <2>2. \A m \in ServiceMsg : Carried(m) \subseteq Fds
    BY DEF Carried, ServiceMsg
  <2>3. CASE MasterRoute
    <3>1. Head(txmq) \in ServiceMsg
      BY <1>0, <2>3, ServiceHead DEF MasterRoute, QueuesOK
    <3> QED BY <1>0, <2>2, <2>3, <3>1 DEF MasterRoute, CountsOK
  <2>4. CASE HandleSkipped
    <3>1. Head(batch) \in ServiceMsg
      BY <1>0, <2>4, ServiceHead DEF HandleSkipped, QueuesOK
    <3> QED BY <1>0, <2>2, <2>4, <3>1 DEF HandleSkipped, CountsOK
  <2> QED BY <1>0, <2>1, <2>3, <2>4 DEF CountsOK
<1>5. replaced' \in BOOLEAN /\ exhausted' \in BOOLEAN
  <2>1. AcceptEnds \/ (\E s \in Services : \E fd, kind : ModEvent(s, fd, kind))
        \/ UNCHANGED <<replaced, exhausted>>
    <3>1. CASE MasterStep \/ KernelStep
      BY <3>1 DEF MasterStep, MasterWait, DispatchIgnored, DispatchListen, DispatchConnect,
         DispatchData, Accept, ConnectDone, MasterTake, HandleStartReq,
         HandleAddEvent, HandleDelEvent, HandleCloseReq, MasterGet, MasterRoute,
         MasterDeliver, KernelStep, Arrive, Connect, history
    <3>2. CASE WorkerTake \/ WorkerFlush \/ HandleClosed \/ HandleSkipped \/ HandleMessage
      BY <3>2 DEF WorkerTake, WorkerFlush, HandleClosed, HandleSkipped, HandleMessage, history
    <3>3. ASSUME NEW s \in Services, Entry(s)
          PROVE  (\E fd, kind : ModEvent(s, fd, kind)) \/ UNCHANGED <<replaced, exhausted>>
      BY <3>3 DEF Entry, OpenSocket, CloseSocket, StartWith, CallDelEvent,
         CloseSelf, EntryReturn, StopRx, CloseService, history
    <3> QED BY <3>1, <3>2, <3>3 DEF Next, WorkerStep
  <2>2. replaced \in BOOLEAN /\ exhausted \in BOOLEAN
    BY <1>0 DEF CountsOK
  <2>3. CASE AcceptEnds
    BY <2>2, <2>3, Zenon DEF AcceptEnds
  <2>4. CASE \E s \in Services : \E fd, kind : ModEvent(s, fd, kind)
    BY <2>2, <2>4, Zenon DEF ModEvent
  <2> QED BY <2>1, <2>2, <2>3, <2>4
<1> QED BY <1>1, <1>2, <1>3, <1>4, <1>5 DEF CountsOK

LEMMA StepTypes == Types /\ Next => Types'
<1> SUFFICES ASSUME Types, Next PROVE Types'
  OBVIOUS
<1>1. QueuesOK'
  BY StepAsked, StepSent DEF QueuesOK
<1> QED BY <1>1, StepKernel, StepGuarded, StepPrivate, StepMaster, StepWorker, StepCounts
        DEF Types

LEMMA StutterTypes == Types /\ UNCHANGED vars => Types'
<1> SUFFICES ASSUME Types, UNCHANGED vars PROVE Types'
  OBVIOUS
<1> USE DEF vars, kernel, guarded, private, master, worker, bounds, history
<1>1. KernelOK' /\ GuardedOK' /\ PrivateOK'
  BY DEF Types, KernelOK, GuardedOK, PrivateOK
<1>2. MasterOK' /\ QueuesOK' /\ WorkerOK' /\ CountsOK'
  BY DEF Types, MasterOK, QueuesOK, WorkerOK, CountsOK
<1> QED BY <1>1, <1>2 DEF Types

LEMMA TypesImply == Types => TypeOK
<1> SUFFICES ASSUME Types PROVE TypeOK
  OBVIOUS
<1>1. \A q \in {mrx, mbatch, txmq, out, rx, batch, txms} : q \in Seq(Message)
  <2>1. MasterMsg \subseteq Message /\ ServiceMsg \subseteq Message
    BY DEF MasterMsg, ServiceMsg
  <2>2. \A q \in Seq(MasterMsg) \union Seq(ServiceMsg) : q \in Seq(Message)
    BY <2>1, SeqMonotonic
  <2> QED BY <2>2 DEF Types, QueuesOK
<1>2. pending \in [Fds -> 0..MaxEvents]
  BY SocketAssumption DEF Types, KernelOK
<1>3. current.fd \in Fds \union {NoFd}
  BY DEF Types, MasterOK, CurrentType
<1>4. running \in Services \union {NoService} /\ saved \subseteq {"listen", "connect", "stoprx"}
  BY DEF Types, WorkerOK, SocketFlags
<1> QED BY <1>1, <1>2, <1>3, <1>4 DEF TypeOK, Types, KernelOK, GuardedOK, PrivateOK,
           MasterOK, WorkerOK, CountsOK, SocketFlags, EventType

\* The variables keep their types.
THEOREM TypeCorrect == Spec => []TypeOK
<1>1. Spec => []Types
  BY InitTypes, StepTypes, StutterTypes, PTL DEF Spec
<1> QED BY <1>1, TypesImply, PTL

-----------------------------------------------------------------------------
(* Messages of which there is one.                                         *)

\* Two messages about the same thing: a descriptor that one of them carries or
\* deletes, or a service.
Same(m, n) ==
    /\ m.id = n.id
    /\ IF m.id \in {"DEL_EVENT", "CONN_IND"} THEN m.fd = n.fd ELSE m.svc = n.svc

Once(q, ids) ==
    \A i, j \in DOMAIN q : q[i].id \in ids /\ Same(q[i], q[j]) => i = j

\* The answer to L_MSGID_SRVC_CLOSE_REQ is the last message of a service.
CloseLast(q) ==
    \A i, j \in DOMAIN q : i < j /\ q[i].id = "CLOSE_RSP" => q[j].svc # q[i].svc

LEMMA SameIsSymmetric == \A m, n : Same(m, n) <=> Same(n, m)
BY DEF Same

LEMMA OnceEmpty == \A ids : Once(<<>>, ids) /\ CloseLast(<<>>)
BY EmptySeq, LenProperties DEF Once, CloseLast

LEMMA OnceConcat ==
    ASSUME NEW S, NEW q \in Seq(S), NEW r \in Seq(S), NEW ids, Once(q, ids), Once(r, ids),
           \A m \in Elements(q), n \in Elements(r) : m.id \in ids => ~Same(m, n)
    PROVE  Once(q \o r, ids)
<1> SUFFICES ASSUME NEW i \in DOMAIN (q \o r), NEW j \in DOMAIN (q \o r),
                    (q \o r)[i].id \in ids, Same((q \o r)[i], (q \o r)[j])
             PROVE  i = j
  BY DEF Once
<1>1. (q \o r)[j].id \in ids /\ Same((q \o r)[j], (q \o r)[i])
  BY DEF Same
<1>2. CASE i \in DOMAIN q
  <2>1. (q \o r)[i] = q[i] /\ q[i] \in Elements(q)
    BY <1>2, ConcatPlaces DEF Elements
  <2>2. CASE j \in DOMAIN q
    <3>1. (q \o r)[j] = q[j]
      BY <2>2, ConcatPlaces
    <3> QED BY <1>2, <2>1, <2>2, <3>1 DEF Once
  <2>3. ASSUME NEW k \in DOMAIN r, j = Len(q) + k PROVE FALSE
    <3>1. (q \o r)[j] = r[k] /\ r[k] \in Elements(r)
      BY <2>3, ConcatPlaces DEF Elements
    <3> QED BY <2>1, <3>1
  <2> QED BY <2>2, <2>3, ConcatPlaces
<1>3. ASSUME NEW h \in DOMAIN r, i = Len(q) + h PROVE i = j
  <2>1. (q \o r)[i] = r[h] /\ r[h] \in Elements(r)
    BY <1>3, ConcatPlaces DEF Elements
  <2>2. ASSUME j \in DOMAIN q PROVE FALSE
    <3>1. (q \o r)[j] = q[j] /\ q[j] \in Elements(q)
      BY <2>2, ConcatPlaces DEF Elements
    <3> QED BY <1>1, <2>1, <3>1
  <2>3. ASSUME NEW k \in DOMAIN r, j = Len(q) + k PROVE h = k
    <3>1. (q \o r)[j] = r[k]
      BY <2>3, ConcatPlaces
    <3> QED BY <2>1, <3>1 DEF Once
  <2> QED BY <1>3, <2>2, <2>3, ConcatPlaces
<1> QED BY <1>2, <1>3, ConcatPlaces

LEMMA OnceOne == \A m, ids : Once(<<m>>, ids) /\ CloseLast(<<m>>) /\ Elements(<<m>>) = {m}
BY DEF Once, CloseLast, Elements

LEMMA OnceAppend ==
    ASSUME NEW S, NEW q \in Seq(S), NEW m \in S, NEW ids, Once(q, ids),
           \A n \in Elements(q) : n.id \in ids => ~Same(n, m)
    PROVE  Once(Append(q, m), ids)
<1>0. <<m>> \in Seq(S)
  OBVIOUS
<1>1. PICK r \in Seq(S) : r = <<m>>
  BY <1>0
<1>2. Once(r, ids) /\ Elements(r) = {m}
  BY <1>1, OnceOne
<1>3. Once(q \o r, ids)
  BY <1>2, OnceConcat
<1>4. Append(q, m) = q \o r
  BY <1>1, AppendIsConcat
<1> QED BY <1>3, <1>4

LEMMA OnceTail ==
    ASSUME NEW S, NEW q \in Seq(S), q # <<>>, NEW ids, Once(q, ids)
    PROVE  /\ Once(Tail(q), ids)
           /\ Head(q).id \in ids => \A n \in Elements(Tail(q)) : ~Same(Head(q), n)
<1>1. ASSUME NEW i \in DOMAIN Tail(q), NEW j \in DOMAIN Tail(q),
             Tail(q)[i].id \in ids, Same(Tail(q)[i], Tail(q)[j])
      PROVE  i = j
  <2>1. /\ i + 1 \in DOMAIN q /\ Tail(q)[i] = q[i + 1] /\ i \in Nat
        /\ j + 1 \in DOMAIN q /\ Tail(q)[j] = q[j + 1] /\ j \in Nat
    BY TailPlaces
  <2>2. i + 1 = j + 1
    BY <1>1, <2>1 DEF Once
  <2> QED BY <2>1, <2>2
<1>2. ASSUME Head(q).id \in ids, NEW n \in Elements(Tail(q)), Same(Head(q), n)
      PROVE  FALSE
  <2>1. PICK i \in DOMAIN Tail(q) : n = Tail(q)[i]
    BY DEF Elements
  <2>2. /\ i + 1 \in DOMAIN q /\ n = q[i + 1] /\ i \in Nat
        /\ Head(q) = q[1] /\ 1 \in DOMAIN q
    BY <2>1, TailPlaces
  <2>3. 1 = i + 1
    BY <1>2, <2>2 DEF Once
  <2>4. DOMAIN Tail(q) = 1..Len(Tail(q))
    BY TailPlaces, LenProperties
  <2> QED BY <2>2, <2>3, <2>4
<1> QED BY <1>1, <1>2 DEF Once

LEMMA CloseLastAppend ==
    ASSUME NEW S, NEW q \in Seq(S), NEW m \in S, CloseLast(q),
           \A n \in Elements(q) : n.id = "CLOSE_RSP" => n.svc # m.svc
    PROVE  CloseLast(Append(q, m))
<1>1. /\ Len(Append(q, m)) = Len(q) + 1 /\ Append(q, m) \in Seq(S)
      /\ \A i \in 1..Len(q) : Append(q, m)[i] = q[i]
      /\ Append(q, m)[Len(q) + 1] = m
  BY AppendProperties
<1>2. DOMAIN Append(q, m) = 1..(Len(q) + 1) /\ DOMAIN q = 1..Len(q) /\ Len(q) \in Nat
  BY <1>1, LenProperties
<1> SUFFICES ASSUME NEW i \in DOMAIN Append(q, m), NEW j \in DOMAIN Append(q, m), i < j,
                    Append(q, m)[i].id = "CLOSE_RSP"
             PROVE  Append(q, m)[j].svc # Append(q, m)[i].svc
  BY DEF CloseLast
<1>3. i \in DOMAIN q /\ Append(q, m)[i] = q[i] /\ q[i] \in Elements(q)
  BY <1>1, <1>2 DEF Elements
<1>4. CASE j \in DOMAIN q
  BY <1>1, <1>2, <1>3, <1>4 DEF CloseLast
<1>5. CASE j = Len(q) + 1
  BY <1>1, <1>3, <1>5
<1> QED BY <1>2, <1>4, <1>5

LEMMA CloseLastTail ==
    ASSUME NEW S, NEW q \in Seq(S), q # <<>>, CloseLast(q)
    PROVE  /\ CloseLast(Tail(q))
           /\ Head(q).id = "CLOSE_RSP" => \A n \in Elements(Tail(q)) : n.svc # Head(q).svc
<1>1. ASSUME NEW i \in DOMAIN Tail(q), NEW j \in DOMAIN Tail(q), i < j,
             Tail(q)[i].id = "CLOSE_RSP"
      PROVE  Tail(q)[j].svc # Tail(q)[i].svc
  <2>1. /\ i + 1 \in DOMAIN q /\ Tail(q)[i] = q[i + 1] /\ i \in Nat
        /\ j + 1 \in DOMAIN q /\ Tail(q)[j] = q[j + 1] /\ j \in Nat
    BY TailPlaces
  <2>2. i + 1 < j + 1
    BY <1>1, <2>1
  <2> QED BY <1>1, <2>1, <2>2 DEF CloseLast
<1>2. ASSUME Head(q).id = "CLOSE_RSP", NEW n \in Elements(Tail(q))
      PROVE  n.svc # Head(q).svc
  <2>1. PICK i \in DOMAIN Tail(q) : n = Tail(q)[i]
    BY DEF Elements
  <2>2. /\ i + 1 \in DOMAIN q /\ n = q[i + 1] /\ i \in Nat
        /\ Head(q) = q[1] /\ 1 \in DOMAIN q
    BY <2>1, TailPlaces
  <2>3. DOMAIN Tail(q) = 1..Len(Tail(q))
    BY TailPlaces, LenProperties
  <2>4. 1 < i + 1
    BY <2>2, <2>3
  <2> QED BY <1>2, <2>2, <2>4 DEF CloseLast
<1> QED BY <1>1, <1>2 DEF CloseLast

-----------------------------------------------------------------------------
(* The life of a service, as its messages tell it.                         *)

\* A service that is not started has no event; the flag that stops its
\* messages is only set when it closes, and it leaves the table only then.
StagesOK ==
    \A s \in Services :
      /\ stage[s] \in {"none", "starting"} =>
           evfd[s] = NoFd /\ evmk[s] = {} /\ flagw[s] \subseteq {"started"}
      /\ stage[s] = "none" => held[s] = {}
      /\ stage[s] \in {"offline", "freed"} => "closing" \in flagw[s]
      /\ "stoprx" \in flags[s] => "closing" \in flagw[s]

\* A service is started once and closed once.
RequestsOK ==
    /\ Once(Asked, {"START_REQ", "CLOSE_REQ"})
    /\ \A m \in Elements(Asked) :
         /\ m.id = "START_REQ" => stage[m.svc] = "starting"
         /\ m.id = "CLOSE_REQ" => /\ stage[m.svc] = "online" /\ running # m.svc
                                  /\ "closing" \in flagw[m.svc]

\* A message that is routed is for a service that is not freed, and the answer
\* to its close, of which there is one, is the last.
ServedOK ==
    /\ Once(txmq, {"CLOSE_RSP"})
    /\ CloseLast(Sent)
    /\ \A m \in Elements(txmq) : stage[m.svc] \in {"online", "offline", "freed"}
    /\ \A m \in Elements(Sent) : stage[m.svc] \in {"online", "offline"}
    /\ \A m \in Elements(txmq) \union Elements(Sent) :
         m.id = "CLOSE_RSP" => stage[m.svc] = "offline"
    /\ \A m \in Elements(txmq), n \in Elements(Sent) :
         m.id = "CLOSE_RSP" => ~Same(m, n)

\* The service whose socket the master attends to, and the one that runs.
ThreadsOK ==
    /\ phase \in {"accept", "connect"} => stage[current.svc] = "online"
    /\ phase = "connect" /\ "stoprx" \in current.flags => "closing" \in flagw[current.svc]
    /\ running # NoService => stage[running] = "online"
    /\ step \in {"stop", "close"} => "closing" \in flagw[running]

Life == Types /\ StagesOK /\ RequestsOK /\ ServedOK /\ ThreadsOK

\* The service that runs: online, and not told to be closed.
LEMMA Runner ==
    ASSUME Life, NEW s \in Services, step # "idle", running = s
    PROVE  /\ stage[s] = "online"
           /\ \A m \in Elements(Asked) : ~(m.id = "CLOSE_REQ" /\ m.svc = s)
           /\ \A m \in Elements(Asked) : ~(m.id = "START_REQ" /\ m.svc = s)
<1>1. s # NoService
  BY SocketAssumption
<1>2. stage[s] = "online"
  BY <1>1 DEF Life, ThreadsOK
<1> QED BY <1>2 DEF Life, RequestsOK

\* The flags of services do not say less of closing than before.
LEMMA ClosingStays ==
    ASSUME Types, Next, NEW s \in Services, "closing" \in flagw[s]
    PROVE  "closing" \in flagw'[s]
<1>0. flagw \in [Services -> SUBSET {"started", "closing", "socket"}]
  BY DEF Types, PrivateOK
<1>1. CASE MasterStep \/ KernelStep
  BY <1>1 DEF MasterStep, MasterWait, DispatchIgnored, DispatchListen, DispatchConnect,
     DispatchData, Accept, AcceptEnds, ConnectDone, MasterTake, HandleStartReq,
     HandleAddEvent, HandleDelEvent, HandleCloseReq, MasterGet, MasterRoute,
     MasterDeliver, KernelStep, Arrive, Connect, private
<1>2. CASE WorkerTake \/ WorkerFlush \/ HandleClosed \/ HandleSkipped \/ HandleMessage
  BY <1>2 DEF WorkerTake, WorkerFlush, HandleClosed, HandleSkipped, HandleMessage, private
<1>3. ASSUME NEW r \in Services, Entry(r) PROVE "closing" \in flagw'[s]
  <2>1. \/ flagw' = flagw
        \/ \E t \in Services, f \in SUBSET {"started", "socket"} :
             flagw' = [flagw EXCEPT ![t] = @ \union f]
        \/ flagw' = [flagw EXCEPT ![r] = @ \ {"socket"}]
        \/ flagw' = [flagw EXCEPT ![r] = @ \union {"closing"}]
        \/ flagw' = [flagw EXCEPT ![r] = @ \union {"socket"}]
    <3>1. CASE \E t \in Services, fd \in held[r] : StartWith(r, t, fd)
      <4>1. /\ {"started"} \in SUBSET {"started", "socket"}
            /\ {"started", "socket"} \in SUBSET {"started", "socket"}
        OBVIOUS
      <4> QED BY <3>1, <4>1 DEF StartWith
    <3>2. CASE CallDelEvent(r) \/ CloseService(r)
      BY <3>2 DEF CallDelEvent, CloseService, DelEvent
    <3>3. ASSUME NEW fd, NEW kind, ModEvent(r, fd, kind)
          PROVE  \/ flagw' = [flagw EXCEPT ![r] = @ \ {"socket"}]
                 \/ flagw' = [flagw EXCEPT ![r] = @ \union {"socket"}]
      BY <3>3 DEF ModEvent
    <3>4. CASE CloseSelf(r)
      BY <3>4 DEF CloseSelf
    <3>5. CASE (\E l \in BOOLEAN : OpenSocket(r, l)) \/ (\E fd \in held[r] : CloseSocket(r, fd))
               \/ EntryReturn(r) \/ StopRx(r)
      BY <3>5 DEF OpenSocket, CloseSocket, EntryReturn, StopRx, private
    <3> QED BY <1>3, <3>1, <3>2, <3>3, <3>4, <3>5 DEF Entry
  <2> QED BY <1>0, <2>1
<1> QED BY <1>1, <1>2, <1>3 DEF Next, WorkerStep

\* The steps that change the stage of a service, and those that run one.
LEMMA StageSteps ==
    ASSUME Next
    PROVE  /\ \/ UNCHANGED stage \/ HandleStartReq \/ HandleCloseReq \/ HandleClosed
              \/ \E s \in Services : \E t \in Services, fd \in held[s] : StartWith(s, t, fd)
           /\ UNCHANGED running \/ running' = NoService \/ HandleMessage
<1>1. CASE MasterStep \/ KernelStep
  BY <1>1 DEF MasterStep, MasterWait, DispatchIgnored, DispatchListen, DispatchConnect,
     DispatchData, Accept, AcceptEnds, ConnectDone, MasterTake, HandleStartReq,
     HandleAddEvent, HandleDelEvent, HandleCloseReq, MasterGet, MasterRoute,
     MasterDeliver, KernelStep, Arrive, Connect, private, worker
<1>2. CASE WorkerTake \/ WorkerFlush \/ HandleClosed \/ HandleSkipped \/ HandleMessage
  BY <1>2 DEF WorkerTake, WorkerFlush, HandleClosed, HandleSkipped, HandleMessage, private
<1>3. ASSUME NEW s \in Services, Entry(s)
      PROVE  /\ UNCHANGED stage \/ \E t \in Services, fd \in held[s] : StartWith(s, t, fd)
             /\ UNCHANGED running \/ running' = NoService
  BY <1>3 DEF Entry, OpenSocket, CloseSocket, StartWith, CallDelEvent, ModEvent,
     CloseSelf, EntryReturn, StopRx, CloseService, private, worker
<1> QED BY <1>1, <1>2, <1>3 DEF Next, WorkerStep

\* What services say to the master.
LEMMA OnceNone ==
    ASSUME NEW q, NEW ids, \A m \in Elements(q) : m.id \notin ids
    PROVE  Once(q, ids)
BY DEF Once, Elements

LEMMA Words ==
    ASSUME Types, NEW s \in Services
    PROVE  /\ Elements(Deletion(s)) =
                IF "socket" \in flagw[s] /\ evfd[s] # NoFd
                THEN {Msg("DEL_EVENT", NoService, evfd[s], {})} ELSE {}
           /\ Elements(LastWords(s)) =
                Elements(Deletion(s)) \union {Msg("CLOSE_REQ", s, NoFd, {})}
           /\ Once(Deletion(s), {"START_REQ", "CLOSE_REQ"})
           /\ Once(LastWords(s), {"START_REQ", "CLOSE_REQ"})
<1> DEFINE d == Msg("DEL_EVENT", NoService, evfd[s], {})
           c == Msg("CLOSE_REQ", s, NoFd, {})
<1>1. c \in MasterMsg /\ d.id = "DEL_EVENT" /\ c.id = "CLOSE_REQ"
  BY MasterMsgs DEF Msg
<1> HIDE DEF d, c
<1>2. /\ Deletion(s) = (IF "socket" \in flagw[s] /\ evfd[s] # NoFd THEN <<d>> ELSE <<>>)
      /\ LastWords(s) = Deletion(s) \o <<c>>
  BY DEF Deletion, LastWords, d, c
<1>3. Elements(Deletion(s)) = IF "socket" \in flagw[s] /\ evfd[s] # NoFd THEN {d} ELSE {}
  BY <1>2, OnceOne, ElementsEmpty
<1>4. Once(Deletion(s), {"START_REQ", "CLOSE_REQ"})
  BY <1>1, <1>3, OnceNone
<1>5. <<c>> \in Seq(MasterMsg)
  BY <1>1
<1>6. PICK r \in Seq(MasterMsg) : r = <<c>>
  BY <1>5
<1>7. Once(r, {"START_REQ", "CLOSE_REQ"}) /\ Elements(r) = {c}
  BY <1>6, OnceOne
<1>8. Deletion(s) \in Seq(MasterMsg)
  BY DeletionType
<1>9. Elements(LastWords(s)) = Elements(Deletion(s)) \union {c}
  <2>1. Elements(Deletion(s) \o r) = Elements(Deletion(s)) \union Elements(r)
    BY <1>8, ElementsConcat
  <2> QED BY <1>2, <1>6, <1>7, <2>1
<1>10. Once(LastWords(s), {"START_REQ", "CLOSE_REQ"})
  <2>1. \A m \in Elements(Deletion(s)), n \in Elements(r) : ~Same(m, n)
    BY <1>1, <1>3, <1>7 DEF Same
  <2>2. Once(Deletion(s) \o r, {"START_REQ", "CLOSE_REQ"})
    BY <1>4, <1>7, <1>8, <2>1, OnceConcat
  <2> QED BY <1>2, <1>6, <2>2
<1> QED BY <1>3, <1>4, <1>9, <1>10 DEF d, c

LEMMA ModWords ==
    ASSUME Types, NEW s \in Services, NEW fd \in held[s] \union {evfd[s], NoFd}, NEW kind
    PROVE  Elements(ModMessages(s, fd, kind)) =
             (IF evfd[s] = NoFd THEN {} ELSE {Msg("DEL_EVENT", NoService, fd, {})})
             \union (IF fd = NoFd THEN {} ELSE {Msg("ADD_EVENT", s, fd, Watched(kind))})
<1> DEFINE d == Msg("DEL_EVENT", NoService, fd, {})
           a == Msg("ADD_EVENT", s, fd, Watched(kind))
<1>1. Watched(kind) \in SUBSET Conditions /\ fd \in Fds \union {NoFd}
  BY ModMessagesType DEF Watched, Conditions
<1>2. d \in MasterMsg /\ (fd # NoFd => a \in MasterMsg)
  BY <1>1, MasterMsgs
<1> HIDE DEF d, a
<1>3. ModMessages(s, fd, kind) =
        (IF evfd[s] = NoFd THEN <<>> ELSE <<d>>) \o (IF fd = NoFd THEN <<>> ELSE <<a>>)
  BY DEF ModMessages, Replaced, d, a
<1>4. /\ (IF evfd[s] = NoFd THEN <<>> ELSE <<d>>) \in Seq(MasterMsg)
      /\ (IF fd = NoFd THEN <<>> ELSE <<a>>) \in Seq(MasterMsg)
  BY <1>2
<1>5. PICK p \in Seq(MasterMsg), r \in Seq(MasterMsg) :
        /\ p = (IF evfd[s] = NoFd THEN <<>> ELSE <<d>>)
        /\ r = (IF fd = NoFd THEN <<>> ELSE <<a>>)
  BY <1>4
<1>6. /\ Elements(p) = (IF evfd[s] = NoFd THEN {} ELSE {d})
      /\ Elements(r) = (IF fd = NoFd THEN {} ELSE {a})
  BY <1>5, OnceOne, ElementsEmpty
<1>7. Elements(p \o r) = Elements(p) \union Elements(r)
  BY ElementsConcat
<1> QED BY <1>3, <1>5, <1>6, <1>7 DEF d, a

\* A message of each kind that services send.
LEMMA MsgFields ==
    \A id, s, fd, masks :
      /\ Msg(id, s, fd, masks).id = id /\ Msg(id, s, fd, masks).svc = s
      /\ Msg(id, s, fd, masks).fd = fd /\ Msg(id, s, fd, masks).masks = masks
BY DEF Msg

\* Adding to what the master is asked.
LEMMA MoreRequests ==
    ASSUME Life, QueuesOK', NEW ms \in Seq(MasterMsg), Asked' = Asked \o ms,
           Once(ms, {"START_REQ", "CLOSE_REQ"}),
           \A m \in Elements(Asked) :
             /\ m.id = "START_REQ" => stage'[m.svc] = "starting"
             /\ m.id = "CLOSE_REQ" => /\ stage'[m.svc] = "online" /\ running' # m.svc
                                      /\ "closing" \in flagw'[m.svc],
           \A m \in Elements(ms) :
             /\ m.id = "START_REQ" => /\ stage'[m.svc] = "starting"
                                      /\ \A n \in Elements(Asked) : ~Same(n, m)
             /\ m.id = "CLOSE_REQ" => /\ stage'[m.svc] = "online" /\ running' # m.svc
                                      /\ "closing" \in flagw'[m.svc]
                                      /\ \A n \in Elements(Asked) : ~Same(n, m)
    PROVE  RequestsOK'
<1>1. Asked \in Seq(MasterMsg) /\ Once(Asked, {"START_REQ", "CLOSE_REQ"})
  BY AskedParts DEF Life, Types, RequestsOK
<1>2. Elements(Asked \o ms) = Elements(Asked) \union Elements(ms)
  BY <1>1, ElementsConcat
<1>3. \A m \in Elements(Asked), n \in Elements(ms) :
        m.id \in {"START_REQ", "CLOSE_REQ"} => ~Same(m, n)
  BY DEF Same
<1>4. Once(Asked \o ms, {"START_REQ", "CLOSE_REQ"})
  BY <1>1, <1>3, OnceConcat
<1> QED BY <1>2, <1>4 DEF RequestsOK

LEMMA StepRequests ==
    ASSUME Life, Next, Types'
    PROVE  RequestsOK'
<1>0. /\ Types /\ StagesOK /\ RequestsOK /\ ServedOK /\ ThreadsOK
      /\ QueuesOK /\ QueuesOK' /\ MasterOK /\ PrivateOK /\ WorkerOK
  BY DEF Life, Types
<1>1. /\ Asked \in Seq(MasterMsg) /\ Once(Asked, {"START_REQ", "CLOSE_REQ"})
      /\ \A m \in Elements(Asked) :
           /\ m \in MasterMsg
           /\ m.id = "START_REQ" => m.svc \in Services /\ stage[m.svc] = "starting"
           /\ m.id = "CLOSE_REQ" => /\ m.svc \in Services /\ stage[m.svc] = "online"
                                    /\ running # m.svc /\ "closing" \in flagw[m.svc]
                                    /\ "closing" \in flagw'[m.svc]
  <2>1. Asked \in Seq(MasterMsg) /\ \A m \in Elements(Asked) : m \in MasterMsg
    BY <1>0, AskedParts, ElementsType
  <2>2. \A m \in MasterMsg : m.id # "DEL_EVENT" => m.svc \in Services
    BY DEF MasterMsg
  <2> QED BY <1>0, <2>1, <2>2, ClosingStays DEF RequestsOK
<1>2. \A m \in Elements(Asked) : m.id = "CLOSE_REQ" => running' # m.svc
  <2>1. CASE UNCHANGED running
    BY <1>1, <2>1
  <2>2. CASE running' = NoService
    BY <1>1, <2>2, SocketAssumption
  <2>3. CASE HandleMessage
    <3>1. "closing" \notin flagw[running']
      BY <2>3 DEF HandleMessage
    <3> QED BY <1>1, <3>1
  <2> QED BY <2>1, <2>2, <2>3, StageSteps
<1>3. ASSUME UNCHANGED stage, Asked' = Asked PROVE RequestsOK'
  BY <1>1, <1>2, <1>3 DEF RequestsOK
<1>4. ASSUME NEW id, MasterHandling(id), UNCHANGED <<mrx, txms>>,
             \A m \in Elements(Tail(Asked)) :
               /\ m.id = "START_REQ" => stage'[m.svc] = stage[m.svc]
               /\ m.id = "CLOSE_REQ" => stage'[m.svc] = stage[m.svc]
      PROVE  RequestsOK'
  <2>1. Asked # <<>> /\ Asked' = Tail(Asked)
    BY <1>0, <1>4, AskedHead
  <2>2. Once(Tail(Asked), {"START_REQ", "CLOSE_REQ"})
    BY <1>1, <2>1, OnceTail
  <2>3. Elements(Tail(Asked)) \subseteq Elements(Asked)
    BY <1>1, <2>1, ElementsTail
  <2> QED BY <1>1, <1>2, <1>4, <2>1, <2>2, <2>3 DEF RequestsOK
<1>5. CASE HandleStartReq \/ HandleCloseReq
  <2> DEFINE h == Head(Asked)
  <2>1. PICK id \in {"START_REQ", "CLOSE_REQ"} :
          /\ MasterHandling(id) /\ UNCHANGED <<mrx, txms>>
          /\ \E l : stage' = [stage EXCEPT ![Head(mbatch).svc] = l]
    BY <1>5 DEF HandleStartReq, HandleCloseReq, worker
  <2>2. /\ Asked # <<>> /\ h = Head(mbatch) /\ h.id = id /\ h \in Elements(Asked)
        /\ Elements(Tail(Asked)) \subseteq Elements(Asked)
    BY <1>0, <1>1, <2>1, AskedHead, MasterHead, ElementsTail
  <2>3. \A m \in Elements(Tail(Asked)) : ~Same(h, m)
    BY <1>1, <2>2, OnceTail
  <2>4. \A m \in Elements(Tail(Asked)) :
          m.id \in {"START_REQ", "CLOSE_REQ"} => m.svc # h.svc
    BY <1>1, <2>2, <2>3 DEF Same
  <2>5. \A s \in Services : s # h.svc => stage'[s] = stage[s]
    BY <1>0, <2>1, <2>2 DEF PrivateOK
  <2> QED BY <1>1, <1>4, <2>1, <2>2, <2>4, <2>5
<1>6. CASE HandleAddEvent \/ HandleDelEvent
  <2>1. \E id \in MsgIds : MasterHandling(id) /\ UNCHANGED <<mrx, txms, stage>>
    BY <1>6 DEF HandleAddEvent, HandleDelEvent, MsgIds, private, worker
  <2> QED BY <1>4, <2>1
<1>7. CASE HandleClosed
  <2> DEFINE h == Head(batch)
  <2>1. /\ h \in Elements(Sent) /\ h.id = "CLOSE_RSP" /\ h.svc \in Services
        /\ stage' = [stage EXCEPT ![h.svc] = "freed"] /\ UNCHANGED <<mrx, mbatch, txms>>
    <3>1. batch # <<>> /\ batch \in Seq(ServiceMsg)
      BY <1>0, <1>7 DEF HandleClosed, QueuesOK
    <3>2. h \in Elements(batch)
      BY <3>1, ElementsTail
    <3> QED BY <1>0, <1>7, <3>1, <3>2, SentParts, ServiceHead DEF HandleClosed, master
  <2>2. stage[h.svc] = "offline"
    BY <1>0, <2>1 DEF ServedOK
  <2>3. \A m \in Elements(Asked) : m.id \in {"START_REQ", "CLOSE_REQ"} => stage'[m.svc] = stage[m.svc]
    BY <1>0, <1>1, <2>1, <2>2 DEF PrivateOK
  <2>4. Asked' = Asked
    BY <2>1 DEF Asked
  <2> QED BY <1>1, <1>2, <2>3, <2>4 DEF RequestsOK
<1>8. ASSUME NEW s \in Services, NEW t \in Services, NEW fd \in held[s], StartWith(s, t, fd)
      PROVE  RequestsOK'
  <2> DEFINE c == Msg("START_REQ", t, NoFd, {})
  <2>1. c \in MasterMsg /\ c.id = "START_REQ" /\ c.svc = t
    BY MasterMsgs, MsgFields
  <2>2. /\ ToMaster(<<c>>) /\ UNCHANGED <<mrx, mbatch>>
        /\ stage' = [stage EXCEPT ![t] = "starting"] /\ stage[t] = "none"
    BY <1>8 DEF StartWith, master
  <2> HIDE DEF c
  <2>3. <<c>> \in Seq(MasterMsg)
    BY <2>1
  <2>4. PICK ms \in Seq(MasterMsg) : ms = <<c>>
    BY <2>3
  <2>5. Elements(ms) = {c} /\ Once(ms, {"START_REQ", "CLOSE_REQ"})
    BY <2>4, OnceOne
  <2>6. Asked' = Asked \o ms
    BY <1>0, <2>2, <2>4, AskedMore
  <2>7. \A m \in Elements(Asked) :
          m.id \in {"START_REQ", "CLOSE_REQ"} => m.svc # t /\ stage'[m.svc] = stage[m.svc]
    BY <1>0, <1>1, <2>2 DEF PrivateOK
  <2>8. \A n \in Elements(Asked) : ~Same(n, c)
    BY <2>1, <2>7 DEF Same
  <2>9. stage'[t] = "starting"
    BY <1>0, <2>2 DEF PrivateOK
  <2> QED BY <1>0, <1>1, <1>2, <2>1, <2>5, <2>6, <2>7, <2>8, <2>9, MoreRequests DEF Life
<1>9. ASSUME NEW s \in Services, CallDelEvent(s) PROVE RequestsOK'
  <2>1. Asked' = Asked \o Deletion(s) /\ Deletion(s) \in Seq(MasterMsg) /\ UNCHANGED stage
    BY <1>0, <1>9, AskedMore, DeletionType DEF CallDelEvent, master
  <2>2. \A m \in Elements(Deletion(s)) : m.id = "DEL_EVENT"
    BY <1>0, Words, MsgFields
  <2>3. Once(Deletion(s), {"START_REQ", "CLOSE_REQ"})
    BY <1>0, Words
  <2> QED BY <1>0, <1>1, <1>2, <2>1, <2>2, <2>3, MoreRequests
<1>10. ASSUME NEW s \in Services, CloseService(s) PROVE RequestsOK'
  <2> DEFINE c == Msg("CLOSE_REQ", s, NoFd, {})
  <2>1. /\ Asked' = Asked \o LastWords(s) /\ LastWords(s) \in Seq(MasterMsg)
        /\ UNCHANGED stage /\ running' = NoService /\ step = "close" /\ running = s
    BY <1>0, <1>10, AskedMore, DeletionType DEF CloseService, master
  <2>2. /\ \A m \in Elements(LastWords(s)) : m.id = "DEL_EVENT" \/ m = c
        /\ Once(LastWords(s), {"START_REQ", "CLOSE_REQ"})
    BY <1>0, Words, MsgFields
  <2>3. c.id = "CLOSE_REQ" /\ c.svc = s
    BY MsgFields
  <2> HIDE DEF c
  <2>4. /\ stage[s] = "online" /\ s # NoService
        /\ \A m \in Elements(Asked) : ~(m.id = "CLOSE_REQ" /\ m.svc = s)
    BY <2>1, Runner, SocketAssumption
  <2>5. "closing" \in flagw'[s]
    BY <1>0, <2>1, ClosingStays DEF ThreadsOK
  <2>6. \A n \in Elements(Asked) : ~Same(n, c)
    BY <2>3, <2>4 DEF Same
  <2> QED BY <1>0, <1>1, <1>2, <2>1, <2>2, <2>3, <2>4, <2>5, <2>6, MoreRequests
<1>11. ASSUME NEW s \in Services, NEW fd \in held[s] \union {evfd[s], NoFd},
              NEW kind \in {"data", "listen", "connect"}, ModEvent(s, fd, kind)
       PROVE  RequestsOK'
  <2> DEFINE ms == ModMessages(s, fd, kind)
  <2>1. ms \in Seq(MasterMsg) /\ \A m \in Elements(ms) : m.id \in {"DEL_EVENT", "ADD_EVENT"}
    BY <1>0, ModMessagesType, ModWords, MsgFields
  <2>2. ToMaster(ms) /\ UNCHANGED <<mrx, mbatch, stage>>
    BY <1>11 DEF ModEvent, ModMessages, master
  <2> HIDE DEF ms
  <2>3. Asked' = Asked \o ms
    BY <1>0, <2>1, <2>2, AskedMore
  <2>4. Once(ms, {"START_REQ", "CLOSE_REQ"})
    BY <2>1, OnceNone
  <2> QED BY <1>0, <1>1, <1>2, <2>1, <2>2, <2>3, <2>4, MoreRequests
<1>12. UNCHANGED stage \/ HandleStartReq \/ HandleCloseReq \/ HandleClosed
       \/ \E s \in Services : \E t \in Services, fd \in held[s] : StartWith(s, t, fd)
  BY StageSteps
<1> QED BY <1>0, <1>3, <1>5, <1>6, <1>7, <1>8, <1>9, <1>10, <1>11, <1>12, StepAsked

\* How a service goes through its stages.
LEMMA StageMoves ==
    ASSUME Life, Next, NEW s \in Services
    PROVE  \/ stage'[s] = stage[s]
           \/ stage[s] = "none" /\ stage'[s] = "starting"
           \/ stage[s] = "starting" /\ stage'[s] = "online"
           \/ /\ stage[s] = "online" /\ stage'[s] = "offline" /\ "closing" \in flagw[s]
              /\ \E m \in Elements(Asked) : m.id = "CLOSE_REQ" /\ m.svc = s
           \/ stage[s] = "offline" /\ stage'[s] = "freed" /\ HandleClosed /\ s = Head(batch).svc
<1>0. /\ QueuesOK /\ RequestsOK /\ ServedOK
      /\ stage \in [Services -> {"none", "starting", "online", "offline", "freed"}]
  BY DEF Life, Types, PrivateOK
<1>1. ASSUME NEW id, MasterHandling(id), UNCHANGED <<mrx, txms>>
      PROVE  Head(mbatch) \in Elements(Asked) /\ Head(mbatch).id = id
  <2>1. Asked \in Seq(MasterMsg) /\ Asked # <<>> /\ Head(Asked) = Head(mbatch)
    BY <1>0, <1>1, AskedHead, AskedParts
  <2> QED BY <1>0, <1>1, <2>1, ElementsTail, MasterHead
<1>2. CASE HandleStartReq
  <2>1. /\ MasterHandling("START_REQ") /\ UNCHANGED <<mrx, txms>>
        /\ stage' = [stage EXCEPT ![Head(mbatch).svc] = "online"]
    BY <1>2 DEF HandleStartReq, worker
  <2>2. stage[Head(mbatch).svc] = "starting"
    BY <1>0, <1>1, <2>1 DEF RequestsOK
  <2> QED BY <1>0, <2>1, <2>2
<1>3. CASE HandleCloseReq
  <2>1. /\ MasterHandling("CLOSE_REQ") /\ UNCHANGED <<mrx, txms>>
        /\ stage' = [stage EXCEPT ![Head(mbatch).svc] = "offline"]
    BY <1>3 DEF HandleCloseReq, worker
  <2>2. stage[Head(mbatch).svc] = "online" /\ "closing" \in flagw[Head(mbatch).svc]
    BY <1>0, <1>1, <2>1 DEF RequestsOK
  <2> QED BY <1>0, <1>1, <2>1, <2>2
<1>4. CASE HandleClosed
  <2>1. /\ batch # <<>> /\ Head(batch).id = "CLOSE_RSP" /\ batch \in Seq(ServiceMsg)
        /\ stage' = [stage EXCEPT ![Head(batch).svc] = "freed"]
    BY <1>0, <1>4 DEF HandleClosed, QueuesOK
  <2>2. Head(batch) \in Elements(Sent)
    BY <1>0, <2>1, ElementsTail, SentParts
  <2>3. stage[Head(batch).svc] = "offline"
    BY <1>0, <2>1, <2>2 DEF ServedOK
  <2> QED BY <1>0, <1>4, <2>1, <2>3
<1>5. ASSUME NEW r \in Services, NEW t \in Services, NEW fd \in held[r], StartWith(r, t, fd)
      PROVE  stage'[s] = stage[s] \/ (stage[s] = "none" /\ stage'[s] = "starting")
  <2>1. stage[t] = "none" /\ stage' = [stage EXCEPT ![t] = "starting"]
    BY <1>5 DEF StartWith
  <2> QED BY <1>0, <2>1
<1> QED BY <1>2, <1>3, <1>4, <1>5, StageSteps

\* Adding to what the master sends.
LEMMA MoreServed ==
    ASSUME Life, Next, ~HandleClosed, Types', Sent' = Sent, NEW m \in ServiceMsg,
           txmq' = Append(txmq, m),
           stage'[m.svc] \in {"online", "offline", "freed"},
           m.id = "CLOSE_RSP" =>
             /\ stage[m.svc] = "online" /\ stage'[m.svc] = "offline"
    PROVE  ServedOK'
<1>0. /\ QueuesOK /\ ServedOK /\ txmq \in Seq(ServiceMsg)
      /\ stage \in [Services -> {"none", "starting", "online", "offline", "freed"}]
  BY DEF Life, Types, PrivateOK, QueuesOK
<1>1. /\ Sent \in Seq(ServiceMsg)
      /\ \A n \in Elements(Sent) \union Elements(txmq) : n.svc \in Services
  BY <1>0, SentParts, ElementsType DEF ServiceMsg
<1>2. /\ Append(txmq, m) \in Seq(ServiceMsg)
      /\ Elements(Append(txmq, m)) = Elements(txmq) \union {m}
  BY <1>0, ElementsAppend
<1>3. \A n \in Elements(Sent) \union Elements(txmq) :
        n.id = "CLOSE_RSP" => ~Same(n, m) /\ ~Same(m, n)
  BY <1>0 DEF Same, ServedOK
<1>4. Once(Append(txmq, m), {"CLOSE_RSP"})
  BY <1>0, <1>3, OnceAppend DEF ServedOK
<1>5. \A s \in Services :
        /\ stage[s] \in {"online", "offline"} => stage'[s] \in {"online", "offline"}
        /\ stage[s] = "offline" => stage'[s] = "offline"
        /\ stage[s] \in {"online", "offline", "freed"} =>
             stage'[s] \in {"online", "offline", "freed"}
  BY StageMoves
<1>6. m.id = "CLOSE_RSP" => \A n \in Elements(Sent) : ~Same(m, n)
  BY <1>3 DEF Same
<1> QED BY <1>0, <1>1, <1>2, <1>4, <1>5, <1>6 DEF ServedOK

LEMMA StepServed ==
    ASSUME Life, Next, Types'
    PROVE  ServedOK'
<1>0. /\ QueuesOK /\ ServedOK /\ RequestsOK /\ ThreadsOK /\ Types
      /\ stage \in [Services -> {"none", "starting", "online", "offline", "freed"}]
      /\ txmq \in Seq(ServiceMsg) /\ batch \in Seq(ServiceMsg)
  BY DEF Life, Types, PrivateOK, QueuesOK
<1>1. /\ Sent \in Seq(ServiceMsg) /\ Once(txmq, {"CLOSE_RSP"}) /\ CloseLast(Sent)
      /\ \A n \in Elements(Sent) \union Elements(txmq) : n.svc \in Services
  BY <1>0, SentParts, ElementsType DEF ServiceMsg, ServedOK
<1>2. \A s \in Services, l \in {"starting", "online"} :
        stage' = [stage EXCEPT ![s] = l] => stage'[s] = l
  BY <1>0
<1>3. CASE HandleClosed \/ HandleSkipped \/ HandleMessage
  <2> DEFINE h == Head(Sent)
  <2>1. /\ batch # <<>> /\ batch' = Tail(batch) /\ UNCHANGED <<rx, out, txmq>>
        /\ UNCHANGED stage \/ (h.id = "CLOSE_RSP" /\ stage' = [stage EXCEPT ![h.svc] = "freed"])
    <3>1. batch # <<>> /\ batch' = Tail(batch) /\ UNCHANGED <<rx, out, txmq>>
      BY <1>3 DEF HandleClosed, HandleSkipped, HandleMessage, master
    <3>2. h = Head(batch)
      BY <1>0, <3>1, SentHead
    <3> QED BY <1>3, <3>1, <3>2 DEF HandleClosed, HandleSkipped, HandleMessage, private
  <2>2. Sent # <<>> /\ Sent' = Tail(Sent)
    BY <1>0, <2>1, SentHead
  <2>3. /\ h \in Elements(Sent) /\ Elements(Tail(Sent)) \subseteq Elements(Sent)
        /\ CloseLast(Tail(Sent))
        /\ h.id = "CLOSE_RSP" => \A n \in Elements(Tail(Sent)) : n.svc # h.svc
    BY <1>1, <2>2, ElementsTail, CloseLastTail
  <2>4. h.id = "CLOSE_RSP" => \A m \in Elements(txmq) : m.id = "CLOSE_RSP" => m.svc # h.svc
    BY <1>0, <2>3 DEF ServedOK, Same
  <2>5. \A n \in Elements(Tail(Sent)) : stage'[n.svc] = stage[n.svc]
    BY <1>0, <1>1, <2>1, <2>3
  <2>6. \A m \in Elements(txmq) :
          /\ stage'[m.svc] \in {"online", "offline", "freed"}
          /\ m.id = "CLOSE_RSP" => stage'[m.svc] = "offline"
    BY <1>0, <1>1, <2>1, <2>4 DEF ServedOK
  <2>7. UNCHANGED txmq
    BY <2>1
  <2> HIDE DEF h
  <2> QED BY <1>0, <1>1, <2>2, <2>3, <2>5, <2>6, <2>7 DEF ServedOK
<1>4. CASE MasterRoute
  <2> DEFINE m == Head(txmq)
  <2>1. /\ txmq # <<>> /\ txmq' = Tail(txmq) /\ UNCHANGED <<rx, batch, stage>>
        /\ \/ out' = Append(out, m) /\ Routed(m)
           \/ out' = out
    BY <1>4 DEF MasterRoute, private, worker
  <2>2. /\ m \in ServiceMsg /\ m \in Elements(txmq) /\ m.svc \in Services
        /\ Elements(Tail(txmq)) \subseteq Elements(txmq)
        /\ Once(Tail(txmq), {"CLOSE_RSP"})
        /\ m.id = "CLOSE_RSP" => \A n \in Elements(Tail(txmq)) : ~Same(m, n)
    BY <1>0, <1>1, <2>1, ElementsTail, ServiceHead, OnceTail
  <2> HIDE DEF m
  <2>3. CASE out' = out
    <3>1. Sent' = Sent
      BY <1>0, <2>1, <2>3, SentKept
    <3> QED BY <1>0, <1>1, <2>1, <2>2, <3>1 DEF ServedOK
  <2>4. CASE out' = Append(out, m) /\ Routed(m)
    <3>1. Sent' = Append(Sent, m)
      BY <1>0, <2>1, <2>2, <2>4, SentMore
    <3>2. Elements(Append(Sent, m)) = Elements(Sent) \union {m}
      BY <1>1, <2>2, ElementsAppend
    <3>3. stage[m.svc] \in {"online", "offline"}
      BY <1>0, <2>2, <2>4 DEF Routed, Online, ServedOK
    <3>4. \A n \in Elements(Sent) : n.id = "CLOSE_RSP" => n.svc # m.svc
      <4>1. CASE m.id = "CLOSE_RSP"
        BY <1>0, <2>2, <4>1 DEF ServedOK, Same
      <4>2. CASE stage[m.svc] = "online"
        BY <1>0, <4>2 DEF ServedOK
      <4> QED BY <2>4, <4>1, <4>2 DEF Routed, Online
    <3>5. CloseLast(Append(Sent, m))
      BY <1>1, <2>2, <3>4, CloseLastAppend
    <3>6. \A n \in Elements(Tail(txmq)) : n.id = "CLOSE_RSP" => ~Same(n, m)
      BY <2>2 DEF Same
    <3> QED BY <1>0, <1>1, <2>1, <2>2, <3>1, <3>2, <3>3, <3>5, <3>6 DEF ServedOK
  <2> QED BY <2>1, <2>3, <2>4
<1>5. ASSUME Sent' = Sent, ~HandleClosed, UNCHANGED txmq PROVE ServedOK'
  <2>1. \A s \in Services :
          /\ stage[s] \in {"online", "offline"} => stage'[s] \in {"online", "offline"}
          /\ stage[s] = "offline" => stage'[s] = "offline"
          /\ stage[s] \in {"online", "offline", "freed"} =>
               stage'[s] \in {"online", "offline", "freed"}
    BY <1>5, StageMoves
  <2> QED BY <1>0, <1>1, <1>5, <2>1 DEF ServedOK
<1>6. ASSUME Sent' = Sent, ~HandleClosed,
             Accept \/ ConnectDone \/ \E e \in events : DispatchData(e)
      PROVE  ServedOK'
  <2>1. PICK m \in ServiceMsg :
          /\ txmq' = Append(txmq, m) \/ txmq' = txmq
          /\ m.id # "CLOSE_RSP" /\ stage[m.svc] = "online"
    <3>1. CASE Accept
      <4>1. Lowest(Fds \ open) \in Fds /\ current.svc \in Services /\ {} \in SUBSET Conditions
        BY <1>0, <3>1, LowestOf DEF Accept, Types, MasterOK
      <4>2. Msg("CONN_IND", current.svc, Lowest(Fds \ open), {}) \in ServiceMsg
        BY <4>1, ServiceMsgs
      <4> QED BY <1>0, <3>1, <4>2, MsgFields DEF Accept, ToService, ThreadsOK
    <3>2. CASE ConnectDone
      <4>1. current.fd \in Fds /\ current.svc \in Services /\ current.masks \in SUBSET Conditions
        BY <1>0, <3>2 DEF ConnectDone, Types, MasterOK, CurrentType
      <4>2. Msg("CONN_RSP", current.svc, current.fd, current.masks) \in ServiceMsg
        BY <4>1, ServiceMsgs
      <4> QED BY <1>0, <3>2, <4>2, MsgFields DEF ConnectDone, ToService, ThreadsOK
    <3>3. CASE \E e \in events : DispatchData(e)
      <4> PICK e \in events : DispatchData(e)
        BY <3>3
      <4>1. e.fd \in Fds /\ e.svc \in Services /\ stage[e.svc] = "online" /\ {} \in SUBSET Conditions
        BY <1>0 DEF DispatchData, Ignored, Online, Types, MasterOK, EventType
      <4>2. Msg("EVENT_IND", e.svc, e.fd, {}) \in ServiceMsg
        BY <4>1, ServiceMsgs
      <4>3. txmq' = Append(txmq, Msg("EVENT_IND", e.svc, e.fd, {})) \/ txmq' = txmq
        BY DEF DispatchData, ToService
      <4> QED BY <4>1, <4>2, <4>3, MsgFields
    <3> QED BY <1>6, <3>1, <3>2, <3>3
  <2>2. stage'[m.svc] \in {"online", "offline", "freed"}
    <3>1. m.svc \in Services
      BY DEF ServiceMsg
    <3> QED BY <2>1, <3>1, StageMoves
  <2> QED BY <1>5, <1>6, <2>1, <2>2, MoreServed
<1>7. ASSUME Sent' = Sent, ~HandleClosed, HandleStartReq \/ HandleCloseReq
      PROVE  ServedOK'
  <2> DEFINE s == Head(mbatch).svc
  <2>1. PICK id \in {"START_REQ", "CLOSE_REQ"} :
          MasterHandling(id) /\ UNCHANGED <<mrx, txms>>
    BY <1>7 DEF HandleStartReq, HandleCloseReq, worker
  <2>2. s \in Services /\ Head(mbatch) \in Elements(Asked) /\ Head(mbatch).id = id
    <3>1. Asked \in Seq(MasterMsg) /\ Asked # <<>> /\ Head(Asked) = Head(mbatch)
      BY <1>0, <2>1, AskedHead, AskedParts
    <3> QED BY <1>0, <2>1, <3>1, ElementsTail, MasterHead
  <2>3. /\ Msg("START_RSP", s, NoFd, {}) \in ServiceMsg
        /\ Msg("CLOSE_RSP", s, NoFd, {}) \in ServiceMsg
    BY <2>2, ServiceMsgs
  <2>4. CASE HandleStartReq
    <3>1. txmq' = Append(txmq, Msg("START_RSP", s, NoFd, {})) /\ stage'[s] = "online"
      BY <1>2, <2>2, <2>4 DEF HandleStartReq, ToService
    <3> QED BY <1>7, <2>3, <3>1, MoreServed, MsgFields
  <2>5. CASE HandleCloseReq
    <3>1. /\ txmq' = Append(txmq, Msg("CLOSE_RSP", s, NoFd, {}))
          /\ stage'[s] = "offline" /\ id = "CLOSE_REQ"
      BY <1>0, <2>1, <2>2, <2>5 DEF HandleCloseReq, ToService, MasterHandling
    <3>2. stage[s] = "online"
      BY <1>0, <2>2, <3>1 DEF RequestsOK
    <3> QED BY <1>7, <2>3, <3>1, <3>2, MoreServed, MsgFields
  <2> QED BY <1>7, <2>4, <2>5
<1> QED BY <1>0, <1>3, <1>4, <1>5, <1>6, <1>7, StepSent

\* A service that is not started has nothing done to it but its start.
LEMMA Unstarted ==
    ASSUME Life, Next, NEW s \in Services, stage[s] \in {"none", "starting"},
           stage'[s] \in {"none", "starting"}
    PROVE  /\ evfd'[s] = NoFd /\ evmk'[s] = {} /\ flagw'[s] \subseteq {"started"}
           /\ held'[s] = held[s] \/ stage'[s] = "starting"
<1>0. /\ evfd \in [Services -> Fds \union {NoFd}]
      /\ evmk \in [Services -> SUBSET Conditions]
      /\ flagw \in [Services -> SUBSET {"started", "closing", "socket"}]
      /\ stage \in [Services -> {"none", "starting", "online", "offline", "freed"}]
      /\ held \in [Services -> SUBSET Fds]
      /\ Types /\ ServedOK /\ ThreadsOK
      /\ evfd[s] = NoFd /\ evmk[s] = {} /\ flagw[s] \subseteq {"started"}
  BY DEF Life, Types, PrivateOK, GuardedOK, StagesOK
<1>1. UNCHANGED <<evfd, flagw, held>> /\ evmk'[s] = {} =>
        /\ evfd'[s] = NoFd /\ evmk'[s] = {} /\ flagw'[s] \subseteq {"started"}
        /\ held'[s] = held[s]
  BY <1>0
<1>2. ASSUME NEW e \in events, DispatchData(e) PROVE UNCHANGED <<evfd, flagw, held>> /\ evmk'[s] = {}
  <2>1. /\ stage[e.svc] = "online" /\ evmk' = [evmk EXCEPT ![e.svc] = Collected(e.svc, e.masks)]
        /\ UNCHANGED <<evfd, flagw, held>>
    BY <1>2 DEF DispatchData, Ignored, Online, private
  <2> QED BY <1>0, <2>1
<1>3. CASE HandleStartReq
  <2>1. /\ stage' = [stage EXCEPT ![Head(mbatch).svc] = "online"]
        /\ evmk' = evmk \/ evmk' = [evmk EXCEPT ![Head(mbatch).svc] = {}]
        /\ UNCHANGED <<evfd, flagw, held>>
    BY <1>3 DEF HandleStartReq
  <2> QED BY <1>0, <1>1, <2>1
<1>4. CASE MasterStep \/ KernelStep
  <2>1. HandleStartReq \/ (\E e \in events : DispatchData(e))
        \/ UNCHANGED <<evfd, evmk, flagw, held>>
    BY <1>4 DEF MasterStep, MasterWait, DispatchIgnored, DispatchListen, DispatchConnect,
       Accept, AcceptEnds, ConnectDone, MasterTake,
       HandleAddEvent, HandleDelEvent, HandleCloseReq, MasterGet, MasterRoute,
       MasterDeliver, KernelStep, Arrive, Connect, private, guarded
  <2> QED BY <1>0, <1>1, <1>2, <1>3, <2>1
<1>5. CASE WorkerTake \/ WorkerFlush \/ HandleSkipped
  BY <1>0, <1>1, <1>5 DEF WorkerTake, WorkerFlush, HandleSkipped, private, guarded
<1>6. CASE HandleClosed \/ HandleMessage
  <2>1. batch # <<>> /\ batch \in Seq(ServiceMsg)
    BY <1>0, <1>6 DEF HandleClosed, HandleMessage, Types, QueuesOK
  <2>2. Head(batch) \in Elements(Sent)
    BY <1>0, <2>1, ElementsTail, SentParts DEF Types
  <2>3. Head(batch).svc # s
    BY <1>0, <2>2 DEF ServedOK
  <2>4. /\ UNCHANGED <<evfd, flagw>>
        /\ evmk' = evmk \/ evmk' = [evmk EXCEPT ![Head(batch).svc] = Taken(Head(batch).svc)]
        /\ \E h : held' = [held EXCEPT ![Head(batch).svc] = h]
    BY <1>6 DEF HandleClosed, HandleMessage, guarded
  <2> QED BY <1>0, <1>1, <2>3, <2>4
<1>7. ASSUME NEW r \in Services, Entry(r)
      PROVE  /\ evfd'[s] = NoFd /\ evmk'[s] = {} /\ flagw'[s] \subseteq {"started"}
             /\ held'[s] = held[s] \/ stage'[s] = "starting"
  <2>1. running = r /\ r # s
    <3>1. running = r
      BY <1>7 DEF Entry, OpenSocket, CloseSocket, StartWith, CallDelEvent, ModEvent,
         CloseSelf, EntryReturn, StopRx, CloseService, Calling
    <3> QED BY <1>0, <3>1, SocketAssumption DEF ThreadsOK
  <2>2. CASE \E t \in Services, fd \in held[r] : StartWith(r, t, fd)
    <3> PICK t \in Services, fd \in held[r] : StartWith(r, t, fd)
      BY <2>2
    <3>1. Refused(t)
      BY DEF Refused
    <3>2. /\ stage' = [stage EXCEPT ![t] = "starting"]
          /\ held' = [held EXCEPT ![r] = @ \ {fd}, ![t] = {fd}]
          /\ flagw' = [flagw EXCEPT ![t] = @ \union {"started"}]
          /\ UNCHANGED <<evfd, evmk>>
      BY <3>1 DEF StartWith
    <3>3. evfd'[s] = NoFd /\ evmk'[s] = {} /\ flagw'[s] \subseteq {"started"}
      BY <1>0, <3>2
    <3>4. held'[s] = held[s] \/ stage'[s] = "starting"
      BY <1>0, <2>1, <3>2
    <3> QED BY <3>3, <3>4
  <2>3. ASSUME ~\E t \in Services, fd \in held[r] : StartWith(r, t, fd)
        PROVE  evfd'[s] = evfd[s] /\ evmk'[s] = evmk[s] /\ flagw'[s] = flagw[s] /\ held'[s] = held[s]
    <3>1. /\ \E x : evfd' = evfd \/ evfd' = [evfd EXCEPT ![r] = x]
          /\ \E x : evmk' = evmk \/ evmk' = [evmk EXCEPT ![r] = x]
          /\ \E x : flagw' = flagw \/ flagw' = [flagw EXCEPT ![r] = x]
          /\ \E x : held' = held \/ held' = [held EXCEPT ![r] = x]
      <4>1. CASE CallDelEvent(r) \/ CloseService(r)
        BY <4>1 DEF CallDelEvent, CloseService, DelEvent
      <4>2. CASE \E fd \in held[r] \union {evfd[r], NoFd}, kind \in {"data", "listen", "connect"} :
                   ModEvent(r, fd, kind)
        BY <4>2 DEF ModEvent
      <4>3. CASE \E l \in BOOLEAN : OpenSocket(r, l)
        BY <4>3 DEF OpenSocket, guarded
      <4>4. CASE (\E fd \in held[r] : CloseSocket(r, fd)) \/ CloseSelf(r) \/ EntryReturn(r) \/ StopRx(r)
        BY <4>4 DEF CloseSocket, CloseSelf, EntryReturn, StopRx, guarded, private
      <4> QED BY <1>7, <2>3, <4>1, <4>2, <4>3, <4>4 DEF Entry
    <3>2. evfd'[s] = evfd[s] /\ evmk'[s] = evmk[s]
      BY <1>0, <2>1, <3>1
    <3>3. flagw'[s] = flagw[s] /\ held'[s] = held[s]
      BY <1>0, <2>1, <3>1
    <3> QED BY <3>2, <3>3
  <2> QED BY <1>0, <2>2, <2>3
<1> QED BY <1>4, <1>5, <1>6, <1>7 DEF Next, WorkerStep

\* Who writes the flags that the threads share.
LEMMA FlagSteps ==
    ASSUME Life, Next, NEW s \in Services, "stoprx" \in flags'[s]
    PROVE  "closing" \in flagw[s]
<1>0. /\ flags \in [Services -> SUBSET SocketFlags]
      /\ Types /\ ThreadsOK /\ StagesOK
  BY DEF Life, Types, GuardedOK
<1>1. CASE UNCHANGED flags
  BY <1>0, <1>1 DEF StagesOK
<1>2. CASE ConnectDone
  <2>1. /\ flags' = [flags EXCEPT ![current.svc] = current.flags \ {"connect"}]
        /\ phase = "connect"
    BY <1>2 DEF ConnectDone
  <2> QED BY <1>0, <2>1 DEF ThreadsOK, StagesOK
<1>3. ASSUME NEW r \in Services, StopRx(r) PROVE "closing" \in flagw[s]
  <2>1. /\ flags' = [flags EXCEPT ![r] = saved \union {"stoprx"}]
        /\ step = "stop" /\ running = r
    BY <1>3 DEF StopRx
  <2> QED BY <1>0, <2>1 DEF ThreadsOK, StagesOK
<1>4. ASSUME NEW r \in Services, NEW fd, NEW kind \in {"data", "listen", "connect"},
             ModEvent(r, fd, kind)
      PROVE  "closing" \in flagw[s]
  <2>1. flags' = flags \/ flags' = [flags EXCEPT ![r] = {kind} \ {"data"}]
    BY <1>4 DEF ModEvent
  <2> QED BY <1>0, <2>1 DEF StagesOK
<1>5. MasterStep \/ KernelStep => UNCHANGED flags \/ ConnectDone
  BY DEF MasterStep, MasterWait, DispatchIgnored, DispatchListen, DispatchConnect,
     DispatchData, Accept, AcceptEnds, MasterTake, HandleStartReq,
     HandleAddEvent, HandleDelEvent, HandleCloseReq, MasterGet, MasterRoute,
     MasterDeliver, KernelStep, Arrive, Connect, guarded
<1>6. WorkerTake \/ WorkerFlush \/ HandleClosed \/ HandleSkipped \/ HandleMessage => UNCHANGED flags
  BY DEF WorkerTake, WorkerFlush, HandleClosed, HandleSkipped, HandleMessage, guarded
<1>7. ASSUME NEW r \in Services, Entry(r)
      PROVE  \/ UNCHANGED flags \/ StopRx(r)
             \/ \E fd : \E kind \in {"data", "listen", "connect"} : ModEvent(r, fd, kind)
  <2>1. CASE \E fd \in held[r] \union {evfd[r], NoFd}, kind \in {"data", "listen", "connect"} :
               ModEvent(r, fd, kind)
    BY <2>1
  <2>2. CASE \E t \in Services, fd \in held[r] : StartWith(r, t, fd)
    BY <2>2 DEF StartWith
  <2>3. CASE (\E l \in BOOLEAN : OpenSocket(r, l)) \/ (\E fd \in held[r] : CloseSocket(r, fd))
             \/ CallDelEvent(r) \/ CloseSelf(r) \/ EntryReturn(r) \/ CloseService(r)
    BY <2>3 DEF OpenSocket, CloseSocket, CallDelEvent, CloseSelf, EntryReturn, CloseService, guarded
  <2> QED BY <1>7, <2>1, <2>2, <2>3 DEF Entry
<1> QED BY <1>1, <1>2, <1>3, <1>4, <1>5, <1>6, <1>7 DEF Next, WorkerStep

LEMMA StepStages ==
    ASSUME Life, Next, Types'
    PROVE  StagesOK'
<1> SUFFICES ASSUME NEW s \in Services
             PROVE  /\ stage'[s] \in {"none", "starting"} =>
                         evfd'[s] = NoFd /\ evmk'[s] = {} /\ flagw'[s] \subseteq {"started"}
                    /\ stage'[s] = "none" => held'[s] = {}
                    /\ stage'[s] \in {"offline", "freed"} => "closing" \in flagw'[s]
                    /\ "stoprx" \in flags'[s] => "closing" \in flagw'[s]
  BY DEF StagesOK
<1>1. Types /\ StagesOK
  BY DEF Life
<1>2. stage'[s] \in {"none", "starting"} => stage[s] \in {"none", "starting"}
  BY StageMoves
<1>3. stage'[s] = "none" => stage[s] = "none"
  BY StageMoves
<1>4. stage'[s] \in {"offline", "freed"} => "closing" \in flagw[s]
  BY <1>1, StageMoves DEF StagesOK
<1> QED BY <1>1, <1>2, <1>3, <1>4, Unstarted, FlagSteps, ClosingStays DEF StagesOK

LEMMA StepThreads ==
    ASSUME Life, Next, Types'
    PROVE  ThreadsOK'
<1>0. /\ stage \in [Services -> {"none", "starting", "online", "offline", "freed"}]
      /\ Types /\ Types' /\ ThreadsOK /\ StagesOK /\ RequestsOK /\ ServedOK
      /\ MasterOK /\ MasterOK' /\ WorkerOK /\ WorkerOK' /\ QueuesOK
  BY DEF Life, Types, PrivateOK
<1>1. phase' \in {"accept", "connect"} =>
        /\ current'.svc \in Services /\ stage'[current'.svc] = "online"
        /\ phase' = "connect" /\ "stoprx" \in current'.flags => "closing" \in flagw'[current'.svc]
  <2>1. ASSUME phase' \in {"accept", "connect"}, UNCHANGED <<phase, current>>
        PROVE  /\ stage'[current.svc] = "online"
               /\ phase = "connect" /\ "stoprx" \in current.flags => "closing" \in flagw'[current.svc]
    <3>1. current.svc \in Services /\ stage[current.svc] = "online"
      BY <1>0, <2>1 DEF MasterOK, ThreadsOK
    <3>2. stage'[current.svc] = stage[current.svc]
      <4>1. CASE HandleStartReq \/ HandleCloseReq
        BY <2>1, <4>1 DEF HandleStartReq, HandleCloseReq, MasterHandling
      <4>2. CASE HandleClosed
        <5>1. batch # <<>> /\ batch \in Seq(ServiceMsg) /\ Head(batch).id = "CLOSE_RSP"
          BY <1>0, <4>2 DEF HandleClosed, QueuesOK
        <5>2. Head(batch) \in Elements(Sent)
          BY <1>0, <5>1, ElementsTail, SentParts
        <5>3. stage[Head(batch).svc] = "offline"
          BY <1>0, <5>1, <5>2 DEF ServedOK
        <5>4. stage' = [stage EXCEPT ![Head(batch).svc] = "freed"]
          BY <4>2 DEF HandleClosed
        <5> QED BY <1>0, <3>1, <5>3, <5>4
      <4>3. ASSUME NEW r \in Services, NEW t \in Services, NEW fd \in held[r], StartWith(r, t, fd)
            PROVE  stage'[current.svc] = stage[current.svc]
        <5>1. stage[t] = "none" /\ stage' = [stage EXCEPT ![t] = "starting"]
          BY <4>3 DEF StartWith
        <5> QED BY <1>0, <3>1, <5>1
      <4> QED BY <4>1, <4>2, <4>3, StageSteps
    <3> QED BY <1>0, <2>1, <3>1, <3>2, ClosingStays DEF ThreadsOK
  <2>2. ASSUME NEW e \in events, DispatchListen(e) \/ DispatchConnect(e)
        PROVE  /\ current'.svc = e.svc /\ e.svc \in Services /\ stage'[e.svc] = "online"
               /\ phase' = "connect" => current'.flags = flags[e.svc]
               /\ UNCHANGED flagw
    BY <2>2 DEF DispatchListen, DispatchConnect, Ignored, Online, private
  <2>3. MasterStep => \/ phase' \notin {"accept", "connect"} \/ UNCHANGED <<phase, current>>
                      \/ \E e \in events : DispatchListen(e) \/ DispatchConnect(e)
    BY DEF MasterStep, MasterWait, DispatchIgnored,
       DispatchData, Accept, AcceptEnds, ConnectDone, MasterTake, HandleStartReq,
       HandleAddEvent, HandleDelEvent, HandleCloseReq, MasterGet, MasterRoute, MasterDeliver
  <2>4. WorkerStep \/ KernelStep => UNCHANGED <<phase, current>>
    <3>1. CASE KernelStep \/ WorkerTake \/ WorkerFlush \/ HandleClosed \/ HandleSkipped \/ HandleMessage
      BY <3>1 DEF KernelStep, Arrive, Connect, WorkerTake, WorkerFlush, HandleClosed,
         HandleSkipped, HandleMessage, master
    <3>2. ASSUME NEW s \in Services, Entry(s) PROVE UNCHANGED <<phase, current>>
      BY <3>2 DEF Entry, OpenSocket, CloseSocket, StartWith, CallDelEvent, ModEvent,
         CloseSelf, EntryReturn, StopRx, CloseService, master
    <3> QED BY <3>1, <3>2 DEF WorkerStep
  <2>5. ASSUME NEW e \in events, DispatchListen(e) \/ DispatchConnect(e)
        PROVE  /\ current'.svc \in Services /\ stage'[current'.svc] = "online"
               /\ phase' = "connect" /\ "stoprx" \in current'.flags => "closing" \in flagw'[current'.svc]
    BY <1>0, <2>2, <2>5 DEF StagesOK
  <2>6. UNCHANGED <<phase, current>> /\ phase' \in {"accept", "connect"} => current'.svc \in Services
    BY <1>0 DEF MasterOK
  <2> QED BY <2>1, <2>3, <2>4, <2>5, <2>6 DEF Next
<1>2. running' # NoService => stage'[running'] = "online"
  <2>1. CASE HandleMessage
    <3>1. /\ batch # <<>> /\ batch \in Seq(ServiceMsg) /\ Head(batch).id # "CLOSE_RSP"
          /\ running' = Head(batch).svc /\ "closing" \notin flagw[Head(batch).svc]
          /\ UNCHANGED stage
      BY <1>0, <2>1 DEF HandleMessage, QueuesOK
    <3>2. Head(batch) \in Elements(Sent) /\ Head(batch).svc \in Services
      BY <1>0, <3>1, ElementsTail, SentParts, ServiceHead
    <3> QED BY <1>0, <3>1, <3>2 DEF ServedOK, StagesOK
  <2>2. CASE UNCHANGED running /\ running # NoService
    <3>1. running \in Services /\ stage[running] = "online" /\ step # "idle"
      BY <1>0, <2>2 DEF WorkerOK, ThreadsOK
    <3>2. ~HandleClosed
      BY <3>1 DEF HandleClosed
    <3>3. ~HandleCloseReq \/ stage'[running] = "online"
      <4>1. ASSUME HandleCloseReq PROVE stage'[running] = "online"
        <5>1. /\ MasterHandling("CLOSE_REQ") /\ UNCHANGED <<mrx, txms>>
              /\ stage' = [stage EXCEPT ![Head(mbatch).svc] = "offline"]
          BY <4>1 DEF HandleCloseReq, worker
        <5>2. Asked \in Seq(MasterMsg) /\ Asked # <<>> /\ Head(Asked) = Head(mbatch)
          BY <1>0, <5>1, AskedHead, AskedParts
        <5>3. Head(mbatch) \in Elements(Asked) /\ Head(mbatch).id = "CLOSE_REQ"
          BY <1>0, <5>1, <5>2, ElementsTail, MasterHead
        <5>4. running # Head(mbatch).svc
          BY <1>0, <5>3 DEF RequestsOK
        <5> QED BY <1>0, <3>1, <5>1, <5>4
      <4> QED BY <4>1
    <3>4. CASE HandleStartReq \/ \E s \in Services : \E t \in Services, fd \in held[s] : StartWith(s, t, fd)
      <4>1. stage' # stage => \E s \in Services : stage' = [stage EXCEPT ![s] = "online"] \/
                (stage[s] = "none" /\ stage' = [stage EXCEPT ![s] = "starting"])
        <5>1. CASE HandleStartReq
          <6>1. /\ MasterHandling("START_REQ")
                /\ stage' = [stage EXCEPT ![Head(mbatch).svc] = "online"]
            BY <5>1 DEF HandleStartReq
          <6> QED BY <1>0, <6>1, MasterHead
        <5>2. CASE \E s \in Services : \E t \in Services, fd \in held[s] : StartWith(s, t, fd)
          BY <5>2 DEF StartWith
        <5> QED BY <3>4, <5>1, <5>2
      <4> QED BY <1>0, <2>2, <3>1, <4>1
    <3> QED BY <2>2, <3>1, <3>2, <3>3, <3>4, StageSteps
  <2> QED BY <2>1, <2>2, StageSteps
<1>3. step' \in {"stop", "close"} => "closing" \in flagw'[running']
  <2>1. \A s \in Services : EntryReturn(s) /\ step' = "stop" => "closing" \in flagw'[running']
    BY DEF EntryReturn, Calling, private
  <2>2. \A s \in Services : StopRx(s) => "closing" \in flagw'[running']
    BY <1>0 DEF StopRx, ThreadsOK, private
  <2>3. \/ UNCHANGED <<step, running>> \/ step' \in {"idle", "entry"}
        \/ \E s \in Services : EntryReturn(s) \/ StopRx(s)
    <3>1. CASE KernelStep \/ WorkerTake \/ WorkerFlush \/ HandleClosed \/ HandleSkipped \/ HandleMessage
      BY <3>1 DEF KernelStep, Arrive, Connect, WorkerTake, WorkerFlush, HandleClosed,
         HandleSkipped, HandleMessage, worker
    <3>2. ASSUME NEW s \in Services, Entry(s), ~EntryReturn(s), ~StopRx(s)
          PROVE  UNCHANGED <<step, running>> \/ step' \in {"idle", "entry"}
      BY <3>2 DEF Entry, OpenSocket, CloseSocket, StartWith, CallDelEvent, ModEvent,
         CloseSelf, CloseService, worker
    <3>3. MasterStep => UNCHANGED <<step, running>>
      BY DEF MasterStep, MasterWait, DispatchIgnored, DispatchListen, DispatchConnect,
         DispatchData, Accept, AcceptEnds, ConnectDone, MasterTake, HandleStartReq,
         HandleAddEvent, HandleDelEvent, HandleCloseReq, MasterGet, MasterRoute, MasterDeliver, worker
    <3> QED BY <3>1, <3>2, <3>3 DEF Next, WorkerStep
  <2>4. UNCHANGED <<step, running>> /\ step' \in {"stop", "close"} => "closing" \in flagw'[running']
    <3>1. step \in {"stop", "close"} => running \in Services /\ "closing" \in flagw[running]
      BY <1>0 DEF WorkerOK, ThreadsOK
    <3> QED BY <1>0, <3>1, ClosingStays
  <2>5. \A s \in Services : EntryReturn(s) => step' \in {"idle", "stop"}
    BY DEF EntryReturn
  <2> QED BY <2>1, <2>2, <2>3, <2>4, <2>5
<1> QED BY <1>1, <1>2, <1>3 DEF ThreadsOK

LEMMA InitLife == Init => Life
<1> SUFFICES ASSUME Init PROVE Life
  OBVIOUS
<1>1. Types /\ QueuesOK
  BY InitTypes DEF Types
<1>2. StagesOK
  BY SocketAssumption DEF Init, StagesOK
<1>3. ThreadsOK
  BY DEF Init, ThreadsOK
<1>4. mbatch = <<>> /\ txms = <<>> /\ batch = <<>> /\ rx = <<>> /\ out = <<>> /\ txmq = <<>>
  BY DEF Init
<1>5. /\ Elements(Sent) = {} /\ Elements(txmq) = {}
      /\ Elements(Asked) = Elements(mrx)
  BY <1>1, <1>4, AskedParts, SentParts, ElementsEmpty
<1>6. ServedOK
  <2>1. Once(txmq, {"CLOSE_RSP"})
    BY <1>4, OnceEmpty
  <2>2. CloseLast(Sent)
    BY <1>5 DEF CloseLast, Elements
  <2> QED BY <1>5, <2>1, <2>2 DEF ServedOK
<1>7. RequestsOK
  <2> DEFINE c == Msg("START_REQ", Listener, NoFd, {})
  <2>1. mrx = <<c>> /\ stage[Listener] = "starting"
    BY SocketAssumption DEF Init
  <2>2. c.id = "START_REQ" /\ c.svc = Listener
    BY MsgFields
  <2> HIDE DEF c
  <2>3. Elements(Asked) = {c}
    BY <1>5, <2>1, OnceOne
  <2>4. Asked = mrx
    <3>1. mrx \in Seq(MasterMsg)
      BY <1>1 DEF QueuesOK
    <3>2. <<>> \o mrx = mrx /\ mrx \o <<>> = mrx
      BY <3>1, Regroup
    <3> QED BY <1>4, <3>2 DEF Asked
  <2> QED BY <2>1, <2>2, <2>3, <2>4, OnceOne DEF RequestsOK
<1> QED BY <1>1, <1>2, <1>3, <1>6, <1>7 DEF Life

LEMMA StutterLife == Life /\ UNCHANGED vars => Life'
<1> SUFFICES ASSUME Life, UNCHANGED vars PROVE Life'
  OBVIOUS
<1>1. Types'
  BY StutterTypes DEF Life
<1>2. /\ UNCHANGED <<evfd, evmk, flags, flagw, stage, held, phase, current, running, step>>
      /\ UNCHANGED <<mrx, mbatch, txms>> /\ UNCHANGED <<txmq, batch, rx, out>>
  BY DEF vars, guarded, private, master, worker
<1>3. Asked' = Asked /\ Sent' = Sent
  BY <1>2 DEF Asked, Sent
<1>4. StagesOK'
  BY <1>2 DEF Life, StagesOK
<1>5. RequestsOK'
  BY <1>2, <1>3 DEF Life, RequestsOK
<1>6. ServedOK'
  BY <1>2, <1>3 DEF Life, ServedOK
<1>7. ThreadsOK'
  BY <1>2 DEF Life, ThreadsOK
<1> QED BY <1>1, <1>4, <1>5, <1>6, <1>7 DEF Life

LEMMA StepLife == Life /\ Next => Life'
<1> SUFFICES ASSUME Life, Next PROVE Life'
  OBVIOUS
<1>1. Types'
  BY StepTypes DEF Life
<1> QED BY <1>1, StepStages, StepRequests, StepServed, StepThreads DEF Life

LEMMA LifeInvariance == Spec => []Life
BY InitLife, StepLife, StutterLife, PTL DEF Spec

\* The worker never uses a service that it has freed: every message that it
\* has or will get is for a service whose L_MSGID_SRVC_CLOSE_RSP it has not
\* handled yet, although the master may lose L_SERVICE_STOPRX in
\* l_master_dispatchEvent.
THEOREM FreedIsLast == Spec => []NoDangling
<1>1. ASSUME Life PROVE NoDangling
  <2>1. Elements(Sent) = Elements(out \o rx \o batch)
    BY <1>1, SentParts DEF Life, Types
  <2>2. \A m \in Elements(Sent) : stage[m.svc] \in {"online", "offline"}
    BY <1>1 DEF Life, ServedOK
  <2>3. running # NoService => stage[running] = "online"
    BY <1>1 DEF Life, ThreadsOK
  <2> QED BY <2>1, <2>2, <2>3 DEF NoDangling
<1> QED BY <1>1, LifeInvariance, PTL

-----------------------------------------------------------------------------
(* Collected conditions are announced.                                     *)

Told(s) == \E m \in Elements(txmq) \union Elements(Sent) : m.id = "EVENT_IND" /\ m.svc = s

\* Only an event of its socket adds to the conditions of a service.
LEMMA MaskSteps ==
    ASSUME Life, Next, NEW s \in Services, evmk'[s] # {}, evmk'[s] # evmk[s]
    PROVE  \E e \in events : DispatchData(e) /\ e.svc = s
<1>0. /\ evmk \in [Services -> SUBSET Conditions]
      /\ Types /\ StagesOK
  BY DEF Life, Types, GuardedOK
<1>1. CASE HandleStartReq
  BY <1>0, <1>1 DEF HandleStartReq
<1>2. CASE HandleMessage
  BY <1>0, <1>2 DEF HandleMessage, Taken
<1>3. ASSUME NEW r \in Services, NEW t \in Services, NEW fd \in held[r], StartWith(r, t, fd)
      PROVE  FALSE
  <2>1. Refused(t)
    BY DEF Refused
  <2> QED BY <1>3, <2>1 DEF StartWith
<1>4. ASSUME NEW r \in Services, NEW fd, NEW kind, ModEvent(r, fd, kind)
      PROVE  FALSE
  BY <1>0, <1>4 DEF ModEvent
<1>5. ASSUME NEW e \in events, DispatchData(e) PROVE e.svc = s
  BY <1>0, <1>5 DEF DispatchData
<1>6. MasterStep \/ KernelStep =>
        UNCHANGED evmk \/ HandleStartReq \/ \E e \in events : DispatchData(e)
  BY DEF MasterStep, MasterWait, DispatchIgnored, DispatchListen, DispatchConnect,
     Accept, AcceptEnds, ConnectDone, MasterTake, HandleAddEvent, HandleDelEvent,
     HandleCloseReq, MasterGet, MasterRoute, MasterDeliver, KernelStep, Arrive, Connect, guarded
<1>7. WorkerTake \/ WorkerFlush \/ HandleClosed \/ HandleSkipped => UNCHANGED evmk
  BY DEF WorkerTake, WorkerFlush, HandleClosed, HandleSkipped, guarded
<1>8. ASSUME NEW r \in Services, Entry(r) PROVE UNCHANGED evmk
  <2>1. CASE CallDelEvent(r) \/ CloseService(r)
    BY <2>1 DEF CallDelEvent, CloseService
  <2>2. CASE (\E l \in BOOLEAN : OpenSocket(r, l)) \/ (\E fd \in held[r] : CloseSocket(r, fd))
             \/ CloseSelf(r) \/ EntryReturn(r) \/ StopRx(r)
    BY <2>2 DEF OpenSocket, CloseSocket, CloseSelf, EntryReturn, StopRx, guarded
  <2> QED BY <1>3, <1>4, <1>8, <2>1, <2>2 DEF Entry
<1> QED BY <1>1, <1>2, <1>5, <1>6, <1>7, <1>8 DEF Next, WorkerStep

\* A message for a service that is online and not closing is not lost, and
\* L_MSGID_EVENT_IND takes the conditions with it.
LEMMA ToldStays ==
    ASSUME Life, Next, NEW s \in Services, Told(s), stage[s] = "online",
           "closing" \notin flagw[s], evmk'[s] # {}
    PROVE  Told(s)'
<1>0. /\ QueuesOK /\ StagesOK /\ Types /\ Types'
      /\ txmq \in Seq(ServiceMsg) /\ batch \in Seq(ServiceMsg) /\ Sent \in Seq(ServiceMsg)
      /\ evmk \in [Services -> SUBSET Conditions]
  <2>1. Types /\ Types' /\ StagesOK
    BY StepTypes DEF Life
  <2> QED BY <2>1, SentParts DEF Types, QueuesOK, GuardedOK
<1>1. PICK m \in Elements(txmq) \union Elements(Sent) : m.id = "EVENT_IND" /\ m.svc = s
  BY DEF Told
<1>2. ASSUME Sent' = Sent, ~MasterRoute PROVE Told(s)'
  <2>1. CASE UNCHANGED txmq
    BY <1>1, <1>2, <2>1 DEF Told
  <2>2. CASE ~UNCHANGED txmq
    <3>1. \E n : txmq' = Append(txmq, n)
      BY <1>0, <1>2, <2>2, StepSent DEF Accept, ConnectDone, HandleStartReq, HandleCloseReq,
         DispatchData, ToService
    <3>2. PICK n : txmq' = Append(txmq, n)
      BY <3>1
    <3>3. txmq' \in Seq(ServiceMsg)
      BY <1>0 DEF Types, QueuesOK
    <3>4. /\ txmq' \in Seq(ServiceMsg \union {n})
          /\ Elements(txmq') = Elements(txmq) \union {n}
      <4>1. PICK S : S = ServiceMsg \union {n}
        OBVIOUS
      <4>2. txmq \in Seq(S) /\ n \in S
        BY <1>0, <4>1
      <4> QED BY <3>2, <4>1, <4>2, ElementsAppend
    <3> QED BY <1>1, <1>2, <3>4 DEF Told
  <2> QED BY <2>1, <2>2
<1>3. CASE HandleClosed \/ HandleSkipped \/ HandleMessage
  <2>1. batch # <<>> /\ batch' = Tail(batch) /\ UNCHANGED <<rx, out, txmq>>
    BY <1>3 DEF HandleClosed, HandleSkipped, HandleMessage, master
  <2>2. /\ Sent' = Tail(Sent) /\ Head(Sent) = Head(batch)
        /\ Elements(Sent) = {Head(batch)} \union Elements(Tail(Sent))
    BY <1>0, <2>1, SentHead, ElementsTail
  <2>3. m # Head(batch)
    <3>1. CASE HandleClosed
      BY <1>1, <3>1 DEF HandleClosed
    <3>2. CASE HandleSkipped
      BY <1>1, <3>2 DEF HandleSkipped
    <3>3. CASE HandleMessage
      BY <1>0, <1>1, <3>3 DEF HandleMessage, Taken
    <3> QED BY <1>3, <3>1, <3>2, <3>3
  <2>4. txmq' = txmq
    BY <2>1
  <2> QED BY <1>1, <2>2, <2>3, <2>4 DEF Told
<1>4. CASE MasterRoute
  <2> DEFINE h == Head(txmq)
  <2>1. /\ txmq # <<>> /\ txmq' = Tail(txmq) /\ UNCHANGED <<rx, batch>>
        /\ \/ out' = Append(out, h)
           \/ out' = out /\ ~Routed(h)
    BY <1>4 DEF MasterRoute, worker
  <2>2. h \in ServiceMsg /\ Elements(txmq) = {h} \union Elements(Tail(txmq))
    BY <1>0, <2>1, ElementsTail
  <2> HIDE DEF h
  <2>3. CASE out' = Append(out, h)
    <3>1. Sent' = Append(Sent, h)
      BY <1>0, <2>1, <2>2, <2>3, SentMore
    <3>2. Elements(Append(Sent, h)) = Elements(Sent) \union {h}
      BY <1>0, <2>2, ElementsAppend
    <3> QED BY <1>1, <2>1, <2>2, <3>1, <3>2 DEF Told
  <2>4. CASE out' = out /\ ~Routed(h)
    <3>1. Sent' = Sent
      BY <1>0, <2>1, <2>4, SentKept
    <3>2. m # h
      BY <1>0, <1>1, <2>4 DEF Routed, Online, StagesOK
    <3> QED BY <1>1, <2>1, <2>2, <3>1, <3>2 DEF Told
  <2> QED BY <2>1, <2>3, <2>4
<1> QED BY <1>0, <1>2, <1>3, <1>4, StepSent

LEMMA StepAnnounced ==
    ASSUME Life, Announced, Next PROVE Announced'
<1>0. /\ QueuesOK /\ QueuesOK' /\ StagesOK /\ Types
      /\ txmq \in Seq(ServiceMsg)
      /\ evmk \in [Services -> SUBSET Conditions]
      /\ stage \in [Services -> {"none", "starting", "online", "offline", "freed"}]
  <2>1. Types /\ Types' /\ StagesOK
    BY StepTypes DEF Life
  <2> QED BY <2>1 DEF Types, QueuesOK, GuardedOK, PrivateOK
<1>1. /\ Elements(ForService) = Elements(txmq) \union Elements(Sent)
      /\ Elements(ForService') = Elements(txmq') \union Elements(Sent')
  <2>1. /\ batch' \in Seq(ServiceMsg) /\ rx' \in Seq(ServiceMsg)
        /\ out' \in Seq(ServiceMsg) /\ txmq' \in Seq(ServiceMsg)
    BY <1>0 DEF QueuesOK
  <2>2. Elements(ForService') = Elements(txmq') \union Elements(Sent')
    BY <2>1, ElementsOfFour DEF Sent, ForService
  <2> QED BY <1>0, <2>2, SentParts
<1> SUFFICES ASSUME NEW s \in Services, evmk'[s] # {}, stage'[s] = "online",
                    "closing" \notin flagw'[s]
             PROVE  Told(s)'
  BY <1>1 DEF Announced, Online, Told
<1>2. "closing" \notin flagw[s]
  BY <1>0, ClosingStays
<1>3. CASE evmk[s] # {} /\ evmk'[s] = evmk[s]
  <2>1. stage[s] = "online"
    BY <1>0, <1>3, StageMoves DEF StagesOK
  <2>2. Told(s)
    BY <1>1, <1>2, <1>3, <2>1 DEF Announced, Online, Told
  <2> QED BY <1>2, <2>1, <2>2, ToldStays
<1>4. CASE evmk'[s] # evmk[s]
  <2>1. PICK e \in events : DispatchData(e) /\ e.svc = s
    BY <1>4, MaskSteps
  <2>2. stage[s] = "online"
    BY <2>1 DEF DispatchData, Ignored, Online
  <2>3. CASE evmk[s] # {}
    <3>1. Told(s)
      BY <1>1, <1>2, <2>2, <2>3 DEF Announced, Online, Told
    <3> QED BY <1>2, <2>2, <3>1, ToldStays
  <2>4. CASE evmk[s] = {}
    <3> DEFINE m == Msg("EVENT_IND", s, e.fd, {})
    <3>1. txmq' = Append(txmq, m)
      BY <2>1, <2>4 DEF DispatchData, ToService
    <3>2. m.id = "EVENT_IND" /\ m.svc = s
      BY MsgFields
    <3>3. m \in ServiceMsg
      <4>1. e.fd \in Fds /\ {} \in SUBSET Conditions
        BY <1>0 DEF Types, MasterOK, EventType
      <4> QED BY <4>1, ServiceMsgs
    <3> HIDE DEF m
    <3>4. m \in Elements(Append(txmq, m))
      BY <1>0, <3>3, ElementsAppend
    <3> QED BY <3>1, <3>2, <3>4 DEF Told
  <2> QED BY <2>3, <2>4
<1> QED BY <1>3, <1>4

\* Conditions that are collected for a service in the table reach it: from the
\* step that finds evmk empty to the one that empties it, L_MSGID_EVENT_IND is
\* on its way, whatever the service does to its event meanwhile, unless the
\* service closes.
THEOREM NothingForgotten == Spec => []Announced
<1>1. Init => Announced
  BY DEF Init, Announced
<1>2. Life /\ Announced /\ Next => Announced'
  BY StepAnnounced
<1>3. Life /\ Announced /\ UNCHANGED vars => Announced'
  <2> SUFFICES ASSUME Announced, UNCHANGED vars PROVE Announced'
    OBVIOUS
  <2>1. UNCHANGED <<evmk, stage, flagw, txmq, out, rx, batch>>
    BY DEF vars, guarded, private, master, worker
  <2>2. ForService' = ForService
    BY <2>1 DEF ForService
  <2> QED BY <2>1, <2>2 DEF Announced, Online
<1> QED BY <1>1, <1>2, <1>3, LifeInvariance, PTL DEF Spec

-----------------------------------------------------------------------------
(***************************************************************************)
(* Who is responsible for a socket: the theorems OneOwner and Agreed.      *)
(* Both are about runs in which no service sets an event while it has one  *)
(* (see the run modify_event for those in which one does), so that the     *)
(* invariant is conditional on ~replaced.                                  *)
(*                                                                         *)
(* The argument: every step that touches a descriptor moves it from one    *)
(* place to one other (Moves below).  The messages that delete it or bring *)
(* it are places, because of each there is one in the queues.  The epoll   *)
(* instance follows: what it has registered for a service is the socket of *)
(* the service, or will be deleted before the service is closed.           *)
(***************************************************************************)

\* The descriptors that messages of one kind name.
Names(ms, id) == {fd \in Fds : \E m \in ms : m.id = id /\ m.fd = fd}

Deleting == Names(Elements(Asked), "DEL_EVENT")
Brought == Names(Elements(txmq) \union Elements(Sent), "CONN_IND")

Held(fd) == \E s \in Services : fd \in held[s]
InEvent(fd) == \E s \in Services : evfd[s] = fd

\* An event is set for a service that is online and will close only after it
\* has deleted the event; L_SERVICE_SOCKET tells that there is one.
EventOK ==
    \A s \in Services : evfd[s] # NoFd =>
      /\ "socket" \in flagw[s] /\ stage[s] = "online"
      /\ \A m \in Elements(Asked) : ~(m.id = "CLOSE_REQ" /\ m.svc = s)

\* Of each descriptor there is one message that deletes it, or one that brings
\* it.
SingleOK ==
    /\ Once(Asked, {"DEL_EVENT"})
    /\ Once(txmq, {"CONN_IND"}) /\ Once(Sent, {"CONN_IND"})
    /\ \A m \in Elements(txmq), n \in Elements(Sent) : m.id = "CONN_IND" => ~Same(m, n)

\* A descriptor is in one place if it is open, and else in none.
PlaceOK ==
    \A fd \in Fds :
      /\ \A s, t \in Services : fd \in held[s] /\ fd \in held[t] => s = t
      /\ \A s, t \in Services : evfd[s] = fd /\ evfd[t] = fd => s = t
      /\ Held(fd) => ~InEvent(fd) /\ fd \notin Deleting \union Brought \union dropped
      /\ InEvent(fd) => fd \notin Deleting \union Brought \union dropped
      /\ fd \in Deleting => fd \notin Brought \union dropped
      /\ fd \in Brought => fd \notin dropped
      /\ fd \in open <=> Held(fd) \/ InEvent(fd) \/ fd \in Deleting \union Brought \union dropped

-----------------------------------------------------------------------------
(* The event of a service.                                                 *)

\* The steps that set or delete an event.
LEMMA EventSteps ==
    ASSUME Types, Next
    PROVE  \/ UNCHANGED evfd
           \/ \E s \in Services : CallDelEvent(s) \/ CloseService(s)
           \/ \E s \in Services : \E fd \in held[s] \union {evfd[s], NoFd} :
                \E kind \in {"data", "listen", "connect"} : ModEvent(s, fd, kind)
<1>1. CASE MasterStep \/ KernelStep
  BY <1>1 DEF MasterStep, MasterWait, DispatchIgnored, DispatchListen, DispatchConnect,
     DispatchData, Accept, AcceptEnds, ConnectDone, MasterTake, HandleStartReq,
     HandleAddEvent, HandleDelEvent, HandleCloseReq, MasterGet, MasterRoute,
     MasterDeliver, KernelStep, Arrive, Connect, guarded
<1>2. CASE WorkerTake \/ WorkerFlush \/ HandleClosed \/ HandleSkipped \/ HandleMessage
  BY <1>2 DEF WorkerTake, WorkerFlush, HandleClosed, HandleSkipped, HandleMessage, guarded
<1>3. ASSUME NEW s \in Services, Entry(s),
             ~\E fd \in held[s] \union {evfd[s], NoFd}, kind \in {"data", "listen", "connect"} :
                ModEvent(s, fd, kind)
      PROVE  UNCHANGED evfd \/ CallDelEvent(s) \/ CloseService(s)
  <2>1. CASE \E t \in Services, fd \in held[s] : StartWith(s, t, fd)
    <3> PICK t \in Services, fd \in held[s] : StartWith(s, t, fd)
      BY <2>1
    <3>1. Refused(t)
      BY DEF Refused
    <3> QED BY <3>1 DEF StartWith
  <2>2. CASE (\E l \in BOOLEAN : OpenSocket(s, l)) \/ (\E fd \in held[s] : CloseSocket(s, fd))
             \/ CloseSelf(s) \/ EntryReturn(s) \/ StopRx(s)
    BY <2>2 DEF OpenSocket, CloseSocket, CloseSelf, EntryReturn, StopRx, guarded
  <2> QED BY <1>3, <2>1, <2>2 DEF Entry
<1>4. ASSUME NEW s \in Services, NEW fd \in held[s] \union {evfd[s], NoFd},
             NEW kind \in {"data", "listen", "connect"}, ModEvent(s, fd, kind)
      PROVE  \E r \in Services : \E f \in held[r] \union {evfd[r], NoFd} :
               \E k \in {"data", "listen", "connect"} : ModEvent(r, f, k)
  BY <1>4
<1> QED BY <1>1, <1>2, <1>3, <1>4 DEF Next, WorkerStep

\* The steps that clear L_SERVICE_SOCKET.
LEMMA SocketFlagSteps ==
    ASSUME Types, Next, NEW s \in Services, "socket" \in flagw[s]
    PROVE  \/ "socket" \in flagw'[s]
           \/ CallDelEvent(s) \/ CloseService(s)
           \/ \E fd \in held[s] \union {evfd[s], NoFd} :
                \E kind \in {"data", "listen", "connect"} : ModEvent(s, fd, kind)
<1>0. flagw \in [Services -> SUBSET {"started", "closing", "socket"}]
  BY DEF Types, PrivateOK
<1>1. CASE MasterStep \/ KernelStep
  BY <1>1 DEF MasterStep, MasterWait, DispatchIgnored, DispatchListen, DispatchConnect,
     DispatchData, Accept, AcceptEnds, ConnectDone, MasterTake, HandleStartReq,
     HandleAddEvent, HandleDelEvent, HandleCloseReq, MasterGet, MasterRoute,
     MasterDeliver, KernelStep, Arrive, Connect, private
<1>2. CASE WorkerTake \/ WorkerFlush \/ HandleClosed \/ HandleSkipped \/ HandleMessage
  BY <1>2 DEF WorkerTake, WorkerFlush, HandleClosed, HandleSkipped, HandleMessage, private
<1>3. ASSUME NEW r \in Services, NEW t \in Services, NEW fd \in held[r], StartWith(r, t, fd)
      PROVE  "socket" \in flagw'[s]
  <2>1. \/ flagw' = [flagw EXCEPT ![t] = @ \union {"started"}]
        \/ flagw' = [flagw EXCEPT ![t] = @ \union {"started", "socket"}]
    BY <1>3 DEF StartWith
  <2> QED BY <1>0, <2>1
<1>4. ASSUME NEW r \in Services, CallDelEvent(r) \/ CloseService(r)
      PROVE  "socket" \in flagw'[s] \/ r = s
  <2>1. flagw' = flagw \/ flagw' = [flagw EXCEPT ![r] = @ \ {"socket"}]
    BY <1>4 DEF CallDelEvent, CloseService, DelEvent
  <2> QED BY <1>0, <2>1
<1>5. ASSUME NEW r \in Services, NEW fd, NEW kind, ModEvent(r, fd, kind)
      PROVE  "socket" \in flagw'[s] \/ r = s
  <2>1. \/ flagw' = [flagw EXCEPT ![r] = @ \ {"socket"}]
        \/ flagw' = [flagw EXCEPT ![r] = @ \union {"socket"}]
    BY <1>5 DEF ModEvent
  <2> QED BY <1>0, <2>1
<1>6. ASSUME NEW r \in Services, CloseSelf(r) PROVE "socket" \in flagw'[s]
  <2>1. flagw' = [flagw EXCEPT ![r] = @ \union {"closing"}]
    BY <1>6 DEF CloseSelf
  <2> QED BY <1>0, <2>1
<1>7. ASSUME NEW r \in Services, Entry(r)
      PROVE  \/ "socket" \in flagw'[s]
             \/ CallDelEvent(s) \/ CloseService(s)
             \/ \E fd \in held[s] \union {evfd[s], NoFd} :
                  \E kind \in {"data", "listen", "connect"} : ModEvent(s, fd, kind)
  <2>1. CASE (\E l \in BOOLEAN : OpenSocket(r, l)) \/ (\E fd \in held[r] : CloseSocket(r, fd))
             \/ EntryReturn(r) \/ StopRx(r)
    BY <2>1 DEF OpenSocket, CloseSocket, EntryReturn, StopRx, private
  <2>2. CASE \E fd \in held[r] \union {evfd[r], NoFd}, kind \in {"data", "listen", "connect"} :
               ModEvent(r, fd, kind)
    BY <1>5, <2>2
  <2> QED BY <1>3, <1>4, <1>6, <1>7, <2>1, <2>2 DEF Entry
<1> QED BY <1>1, <1>2, <1>7 DEF Next, WorkerStep

\* What a service says when it sets an event and had none.
LEMMA FirstEvent ==
    ASSUME Types, NEW s \in Services, NEW fd \in held[s] \union {evfd[s], NoFd}, NEW kind,
           ModEvent(s, fd, kind), evfd[s] = NoFd
    PROVE  /\ fd \in held[s] /\ fd \in Fds
           /\ Elements(ModMessages(s, fd, kind)) = {Msg("ADD_EVENT", s, fd, Watched(kind))}
<1>1. fd # NoFd
  BY DEF ModEvent
<1>2. held[s] \subseteq Fds
  BY DEF Types, PrivateOK
<1> QED BY <1>1, <1>2, ModWords

LEMMA StepEvent ==
    ASSUME Life, EventOK, Next
    PROVE  EventOK'
<1>0. /\ Types /\ QueuesOK
      /\ evfd \in [Services -> Fds \union {NoFd}]
      /\ flagw \in [Services -> SUBSET {"started", "closing", "socket"}]
      /\ Asked \in Seq(MasterMsg) /\ StagesOK /\ RequestsOK /\ ThreadsOK
  BY AskedParts DEF Life, Types, GuardedOK, PrivateOK
<1> SUFFICES ASSUME NEW s \in Services, evfd'[s] # NoFd
             PROVE  /\ "socket" \in flagw'[s] /\ stage'[s] = "online"
                    /\ \A m \in Elements(Asked') : ~(m.id = "CLOSE_REQ" /\ m.svc = s)
  BY DEF EventOK
<1>1. ASSUME NEW fd \in held[s] \union {evfd[s], NoFd}, NEW kind \in {"data", "listen", "connect"},
             ModEvent(s, fd, kind)
      PROVE  /\ "socket" \in flagw'[s] /\ stage'[s] = "online"
             /\ \A m \in Elements(Asked') : ~(m.id = "CLOSE_REQ" /\ m.svc = s)
  <2>1. step # "idle" /\ running = s /\ UNCHANGED stage /\ evfd' = [evfd EXCEPT ![s] = fd]
        /\ (fd # NoFd => flagw' = [flagw EXCEPT ![s] = @ \union {"socket"}])
    BY <1>1 DEF ModEvent, Calling
  <2>2. "socket" \in flagw'[s]
    BY <1>0, <2>1
  <2>3. /\ stage[s] = "online"
        /\ \A m \in Elements(Asked) : ~(m.id = "CLOSE_REQ" /\ m.svc = s)
    BY <2>1, Runner
  <2> DEFINE ms == ModMessages(s, fd, kind)
  <2>4. ms \in Seq(MasterMsg) /\ \A m \in Elements(ms) : m.id \in {"DEL_EVENT", "ADD_EVENT"}
    BY <1>0, ModMessagesType, ModWords, MsgFields
  <2>5. ToMaster(ms) /\ UNCHANGED <<mrx, mbatch, stage>>
    BY <1>1 DEF ModEvent, ModMessages, master
  <2> HIDE DEF ms
  <2>6. Asked' = Asked \o ms
    BY <1>0, <2>4, <2>5, AskedMore
  <2>7. Elements(Asked \o ms) = Elements(Asked) \union Elements(ms)
    BY <1>0, <2>4, ElementsConcat
  <2> QED BY <2>1, <2>2, <2>3, <2>4, <2>6, <2>7
<1>2. ASSUME CallDelEvent(s) \/ CloseService(s) PROVE FALSE
  <2>1. /\ "socket" \in flagw[s] => evfd' = [evfd EXCEPT ![s] = NoFd]
        /\ "socket" \notin flagw[s] => evfd' = evfd
    BY <1>2 DEF CallDelEvent, CloseService, DelEvent
  <2> QED BY <1>0, <2>1 DEF EventOK
<1>3. ASSUME ~\E fd \in held[s] \union {evfd[s], NoFd} :
                \E kind \in {"data", "listen", "connect"} : ModEvent(s, fd, kind)
      PROVE  /\ "socket" \in flagw'[s] /\ stage'[s] = "online"
             /\ \A m \in Elements(Asked') : ~(m.id = "CLOSE_REQ" /\ m.svc = s)
  <2>1. evfd[s] # NoFd
    <3>1. \A r \in Services : r # s /\ (CallDelEvent(r) \/ CloseService(r)) => evfd'[s] = evfd[s]
      <4> SUFFICES ASSUME NEW r \in Services, r # s, CallDelEvent(r) \/ CloseService(r)
                   PROVE  evfd'[s] = evfd[s]
        OBVIOUS
      <4>1. evfd' = evfd \/ evfd' = [evfd EXCEPT ![r] = NoFd]
        BY DEF CallDelEvent, CloseService, DelEvent
      <4> QED BY <1>0, <4>1
    <3>2. \A r \in Services : r # s => \A fd, kind : ModEvent(r, fd, kind) => evfd'[s] = evfd[s]
      <4> SUFFICES ASSUME NEW r \in Services, r # s, NEW fd, NEW kind, ModEvent(r, fd, kind)
                   PROVE  evfd'[s] = evfd[s]
        OBVIOUS
      <4>1. evfd' = [evfd EXCEPT ![r] = fd]
        BY DEF ModEvent
      <4> QED BY <1>0, <4>1
    <3> QED BY <1>0, <1>2, <1>3, <3>1, <3>2, EventSteps
  <2>2. /\ "socket" \in flagw[s] /\ stage[s] = "online"
        /\ \A m \in Elements(Asked) : ~(m.id = "CLOSE_REQ" /\ m.svc = s)
    BY <2>1 DEF EventOK
  <2>3. "socket" \in flagw'[s]
    BY <1>0, <1>2, <1>3, <2>2, SocketFlagSteps
  <2>4. stage'[s] = "online"
    BY <2>2, StageMoves
  <2>5. \A m \in Elements(Asked') : m.id = "CLOSE_REQ" /\ m.svc = s => FALSE
    <3>1. CASE Asked' = Asked
      BY <2>2, <3>1
    <3>2. CASE HandleStartReq \/ HandleAddEvent \/ HandleDelEvent \/ HandleCloseReq
      <4>1. \E id \in MsgIds : MasterHandling(id) /\ UNCHANGED <<mrx, txms>>
        BY <3>2 DEF HandleStartReq, HandleAddEvent, HandleDelEvent, HandleCloseReq, MsgIds, worker
      <4>2. Asked # <<>> /\ Asked' = Tail(Asked)
        BY <1>0, <4>1, AskedHead
      <4>3. Elements(Tail(Asked)) \subseteq Elements(Asked)
        BY <1>0, <4>2, ElementsTail
      <4> QED BY <2>2, <4>2, <4>3
    <3>3. ASSUME NEW ms \in Seq(MasterMsg), Asked' = Asked \o ms,
                 \A m \in Elements(ms) : m.id = "CLOSE_REQ" => m.svc # s
          PROVE  \A m \in Elements(Asked') : m.id = "CLOSE_REQ" /\ m.svc = s => FALSE
      <4>1. Elements(Asked \o ms) = Elements(Asked) \union Elements(ms)
        BY <1>0, <3>3, ElementsConcat
      <4> QED BY <2>2, <3>3, <4>1
    <3>4. ASSUME NEW r \in Services, NEW t \in Services, NEW fd \in held[r], StartWith(r, t, fd)
          PROVE  \A m \in Elements(Asked') : m.id = "CLOSE_REQ" /\ m.svc = s => FALSE
      <4> DEFINE c == Msg("START_REQ", t, NoFd, {})
      <4>1. c \in MasterMsg /\ c.id = "START_REQ"
        BY MasterMsgs, MsgFields
      <4>2. ToMaster(<<c>>) /\ UNCHANGED <<mrx, mbatch>>
        BY <3>4 DEF StartWith, master
      <4> HIDE DEF c
      <4>3. <<c>> \in Seq(MasterMsg)
        BY <4>1
      <4>4. PICK ms \in Seq(MasterMsg) : ms = <<c>>
        BY <4>3
      <4>5. Elements(ms) = {c}
        BY <4>4, OnceOne
      <4>6. Asked' = Asked \o ms
        BY <1>0, <4>2, <4>4, AskedMore
      <4> QED BY <3>3, <4>1, <4>5, <4>6
    <3>5. ASSUME NEW r \in Services, CallDelEvent(r) \/ CloseService(r)
          PROVE  \A m \in Elements(Asked') : m.id = "CLOSE_REQ" /\ m.svc = s => FALSE
      <4>1. \/ Asked' = Asked \o Deletion(r)
            \/ Asked' = Asked \o LastWords(r)
        BY <1>0, <3>5, AskedMore, DeletionType DEF CallDelEvent, CloseService, master
      <4>2. r # s
        BY <1>2, <3>5
      <4>3. /\ \A m \in Elements(Deletion(r)) : m.id = "DEL_EVENT"
            /\ \A m \in Elements(LastWords(r)) : m.id = "CLOSE_REQ" => m.svc # s
        BY <1>0, <4>2, Words, MsgFields
      <4>4. Deletion(r) \in Seq(MasterMsg) /\ LastWords(r) \in Seq(MasterMsg)
        BY <1>0, DeletionType
      <4> QED BY <3>3, <4>1, <4>3, <4>4
    <3>6. ASSUME NEW r \in Services, NEW fd \in held[r] \union {evfd[r], NoFd},
                 NEW kind \in {"data", "listen", "connect"}, ModEvent(r, fd, kind)
          PROVE  \A m \in Elements(Asked') : m.id = "CLOSE_REQ" /\ m.svc = s => FALSE
      <4>1. PICK ms : ms = ModMessages(r, fd, kind)
        OBVIOUS
      <4>2. ms \in Seq(MasterMsg) /\ \A m \in Elements(ms) : m.id \in {"DEL_EVENT", "ADD_EVENT"}
        BY <1>0, <4>1, ModMessagesType, ModWords, MsgFields
      <4>3. ToMaster(ms) /\ UNCHANGED <<mrx, mbatch>>
        BY <3>6, <4>1 DEF ModEvent, ModMessages, master
      <4>4. Asked' = Asked \o ms
        BY <1>0, <4>2, <4>3, AskedMore
      <4> QED BY <3>3, <4>2, <4>4
    <3> QED BY <1>0, <3>1, <3>2, <3>4, <3>5, <3>6, StepAsked
  <2> QED BY <2>3, <2>4, <2>5
<1> QED BY <1>1, <1>3

-----------------------------------------------------------------------------
(* The messages that delete a descriptor, and those that bring one.        *)

LEMMA NamesMore ==
    \A ms, ns, id : Names(ms \union ns, id) = Names(ms, id) \union Names(ns, id)
BY DEF Names

LEMMA NamesTail ==
    ASSUME NEW S, NEW q \in Seq(S), q # <<>>, NEW id \in {"DEL_EVENT", "CONN_IND"},
           Once(q, {id})
    PROVE  /\ Names(Elements(Tail(q)), id) =
                Names(Elements(q), id) \ (IF Head(q).id = id THEN {Head(q).fd} ELSE {})
           /\ Head(q).id = id /\ Head(q).fd \in Fds => Head(q).fd \in Names(Elements(q), id)
<1>1. Elements(q) = {Head(q)} \union Elements(Tail(q))
  BY ElementsTail
<1>2. Head(q).id = id => \A n \in Elements(Tail(q)) : ~Same(Head(q), n)
  BY OnceTail
<1>3. Head(q).id = id => \A n \in Elements(Tail(q)) : n.id = id => n.fd # Head(q).fd
  BY <1>2 DEF Same
<1> QED BY <1>1, <1>3 DEF Names

\* Adding a message that names a new descriptor.
LEMMA NamesAppend ==
    ASSUME NEW S, NEW q \in Seq(S), NEW m \in S, NEW id \in {"DEL_EVENT", "CONN_IND"},
           Once(q, {id}),
           m.id = id => m.fd \in Fds /\ m.fd \notin Names(Elements(q), id)
    PROVE  /\ Once(Append(q, m), {id})
           /\ Names(Elements(Append(q, m)), id) =
                Names(Elements(q), id) \union (IF m.id = id THEN {m.fd} ELSE {})
<1>1. Elements(Append(q, m)) = Elements(q) \union {m}
  BY ElementsAppend
<1>2. \A n \in Elements(q) : n.id = id => ~Same(n, m)
  BY DEF Names, Same
<1>3. Once(Append(q, m), {id})
  BY <1>2, OnceAppend
<1> QED BY <1>1, <1>3 DEF Names

LEMMA NamesConcat ==
    ASSUME NEW S, NEW q \in Seq(S), NEW r \in Seq(S), NEW id \in {"DEL_EVENT", "CONN_IND"},
           Once(q, {id}), Once(r, {id}),
           \A n \in Elements(r) : n.id = id => n.fd \in Fds /\ n.fd \notin Names(Elements(q), id)
    PROVE  /\ Once(q \o r, {id})
           /\ Names(Elements(q \o r), id) = Names(Elements(q), id) \union Names(Elements(r), id)
<1>1. Elements(q \o r) = Elements(q) \union Elements(r)
  BY ElementsConcat
<1>2. \A m \in Elements(q), n \in Elements(r) : m.id = id => ~Same(m, n)
  BY DEF Names, Same
<1>3. Once(q \o r, {id})
  BY <1>2, OnceConcat
<1> QED BY <1>1, <1>3, NamesMore

\* What a service says when it deletes its event.
LEMMA DeletionNames ==
    ASSUME Types, EventOK, NEW s \in Services
    PROVE  /\ Names(Elements(Deletion(s)), "DEL_EVENT") = {evfd[s]} \ {NoFd}
           /\ Names(Elements(LastWords(s)), "DEL_EVENT") = {evfd[s]} \ {NoFd}
           /\ \A n \in Elements(LastWords(s)) : n.id = "DEL_EVENT" => n.fd = evfd[s] /\ n.fd \in Fds
           /\ \A n \in Elements(Deletion(s)) : n.id = "DEL_EVENT" => n.fd = evfd[s] /\ n.fd \in Fds
           /\ Once(Deletion(s), {"DEL_EVENT"}) /\ Once(LastWords(s), {"DEL_EVENT"})
<1> DEFINE d == Msg("DEL_EVENT", NoService, evfd[s], {})
           c == Msg("CLOSE_REQ", s, NoFd, {})
<1>1. evfd[s] \in Fds \union {NoFd} /\ (evfd[s] # NoFd => "socket" \in flagw[s])
  BY DEF Types, GuardedOK, EventOK
<1>2. /\ Elements(Deletion(s)) = IF evfd[s] # NoFd THEN {d} ELSE {}
      /\ Elements(LastWords(s)) = Elements(Deletion(s)) \union {c}
  BY <1>1, Words
<1>3. d.id = "DEL_EVENT" /\ d.fd = evfd[s] /\ c.id = "CLOSE_REQ" /\ c \in MasterMsg
  BY MsgFields, MasterMsgs
<1>4. /\ Deletion(s) = (IF evfd[s] # NoFd THEN <<d>> ELSE <<>>)
      /\ LastWords(s) = Deletion(s) \o <<c>>
  BY <1>1 DEF Deletion, LastWords
<1>5. Deletion(s) \in Seq(MasterMsg)
  BY DeletionType
<1> HIDE DEF d, c
<1>6. Once(Deletion(s), {"DEL_EVENT"})
  BY <1>4, OnceOne, OnceEmpty
<1>7. Once(LastWords(s), {"DEL_EVENT"})
  <2>1. <<c>> \in Seq(MasterMsg)
    BY <1>3
  <2>2. PICK r \in Seq(MasterMsg) : r = <<c>>
    BY <2>1
  <2>3. Once(r, {"DEL_EVENT"}) /\ Elements(r) = {c}
    BY <2>2, OnceOne
  <2>4. Once(Deletion(s) \o r, {"DEL_EVENT"})
    BY <1>3, <1>5, <1>6, <2>3, NamesConcat
  <2> QED BY <1>4, <2>2, <2>4
<1>8. /\ Names(Elements(Deletion(s)), "DEL_EVENT") = {evfd[s]} \ {NoFd}
      /\ Names(Elements(LastWords(s)), "DEL_EVENT") = {evfd[s]} \ {NoFd}
  BY <1>1, <1>2, <1>3 DEF Names, Fds, NoFd
<1> QED BY <1>1, <1>2, <1>3, <1>6, <1>7, <1>8

\* A service asks the master to delete a descriptor that nobody else deletes.
LEMMA MoreDeleting ==
    ASSUME QueuesOK, Once(Asked, {"DEL_EVENT"}), NEW ms \in Seq(MasterMsg),
           Asked' = Asked \o ms, Once(ms, {"DEL_EVENT"}),
           \A n \in Elements(ms) : n.id = "DEL_EVENT" => n.fd \in Fds /\ n.fd \notin Deleting
    PROVE  /\ Once(Asked', {"DEL_EVENT"})
           /\ Deleting' = Deleting \union Names(Elements(ms), "DEL_EVENT")
<1>1. PICK q \in Seq(MasterMsg) : q = Asked
  BY AskedParts
<1>2. Deleting = Names(Elements(q), "DEL_EVENT") /\ Once(q, {"DEL_EVENT"})
  BY <1>1 DEF Deleting
<1>3. /\ Once(q \o ms, {"DEL_EVENT"})
      /\ Names(Elements(q \o ms), "DEL_EVENT") =
           Names(Elements(q), "DEL_EVENT") \union Names(Elements(ms), "DEL_EVENT")
  BY <1>2, NamesConcat
<1>4. PICK r : r = q \o ms
  OBVIOUS
<1>5. Asked' = r
  BY <1>1, <1>4
<1>6. Deleting' = Names(Elements(r), "DEL_EVENT")
  BY <1>5 DEF Deleting
<1> QED BY <1>2, <1>3, <1>4, <1>5, <1>6

LEMMA StepDeleting ==
    ASSUME Life, EventOK, SingleOK, PlaceOK, ~replaced', Next
    PROVE  /\ Once(Asked', {"DEL_EVENT"})
           /\ \/ /\ HandleDelEvent
                 /\ Deleting' = Deleting \ {Head(mbatch).fd}
                 /\ Head(mbatch).fd \in Fds => Head(mbatch).fd \in Deleting
              \/ \E s \in Services :
                   /\ CallDelEvent(s) \/ CloseService(s)
                   /\ Deleting' = Deleting \union ({evfd[s]} \ {NoFd})
              \/ /\ Deleting' = Deleting /\ ~HandleDelEvent
                 /\ \A s \in Services : ~CallDelEvent(s) /\ ~CloseService(s)
<1>0. /\ Types /\ QueuesOK /\ Asked \in Seq(MasterMsg) /\ Once(Asked, {"DEL_EVENT"})
      /\ Deleting = Names(Elements(Asked), "DEL_EVENT")
      /\ Deleting' = Names(Elements(Asked'), "DEL_EVENT")
  BY AskedParts DEF Life, Types, SingleOK, Deleting
<1>1. ASSUME NEW id, MasterHandling(id), UNCHANGED <<mrx, txms>>
      PROVE  /\ Once(Asked', {"DEL_EVENT"})
             /\ Deleting' = Deleting \ (IF id = "DEL_EVENT" THEN {Head(mbatch).fd} ELSE {})
             /\ id = "DEL_EVENT" /\ Head(mbatch).fd \in Fds => Head(mbatch).fd \in Deleting
  <2>1. Asked # <<>> /\ Head(Asked) = Head(mbatch) /\ Asked' = Tail(Asked) /\ Head(mbatch).id = id
    BY <1>0, <1>1, AskedHead, MasterHead
  <2>2. Once(Tail(Asked), {"DEL_EVENT"})
    BY <1>0, <2>1, OnceTail
  <2>3. /\ Names(Elements(Tail(Asked)), "DEL_EVENT") =
             Names(Elements(Asked), "DEL_EVENT")
               \ (IF Head(Asked).id = "DEL_EVENT" THEN {Head(Asked).fd} ELSE {})
        /\ Head(Asked).id = "DEL_EVENT" /\ Head(Asked).fd \in Fds =>
             Head(Asked).fd \in Names(Elements(Asked), "DEL_EVENT")
    BY <1>0, <2>1, NamesTail
  <2> QED BY <1>0, <2>1, <2>2, <2>3
<1>2. CASE HandleDelEvent
  <2>1. MasterHandling("DEL_EVENT") /\ UNCHANGED <<mrx, txms>>
    BY <1>2 DEF HandleDelEvent, worker
  <2> QED BY <1>1, <1>2, <2>1
<1>3. ASSUME NEW s \in Services, CallDelEvent(s) \/ CloseService(s)
      PROVE  /\ Once(Asked', {"DEL_EVENT"})
             /\ Deleting' = Deleting \union ({evfd[s]} \ {NoFd})
  <2>1. \/ Asked' = Asked \o Deletion(s)
        \/ Asked' = Asked \o LastWords(s)
    BY <1>0, <1>3, AskedMore, DeletionType DEF CallDelEvent, CloseService, master
  <2>2. Deletion(s) \in Seq(MasterMsg) /\ LastWords(s) \in Seq(MasterMsg)
    BY <1>0, DeletionType
  <2>3. evfd[s] \in Fds => evfd[s] \notin Deleting
    BY DEF PlaceOK, InEvent
  <2>4. PICK ms \in Seq(MasterMsg) : (ms = Deletion(s) \/ ms = LastWords(s)) /\ Asked' = Asked \o ms
    BY <2>1, <2>2
  <2>5. /\ Names(Elements(ms), "DEL_EVENT") = {evfd[s]} \ {NoFd} /\ Once(ms, {"DEL_EVENT"})
        /\ \A n \in Elements(ms) : n.id = "DEL_EVENT" => n.fd \in Fds /\ n.fd \notin Deleting
    BY <1>0, <2>3, <2>4, DeletionNames
  <2> QED BY <1>0, <2>4, <2>5, MoreDeleting
<1>4. ASSUME ~HandleDelEvent, \A s \in Services : ~CallDelEvent(s) /\ ~CloseService(s)
      PROVE  Once(Asked', {"DEL_EVENT"}) /\ Deleting' = Deleting
  <2>1. CASE Asked' = Asked
    BY <1>0, <2>1
  <2>2. CASE HandleStartReq \/ HandleAddEvent \/ HandleCloseReq
    <3>1. \E id \in {"START_REQ", "ADD_EVENT", "CLOSE_REQ"} :
            MasterHandling(id) /\ UNCHANGED <<mrx, txms>>
      BY <2>2 DEF HandleStartReq, HandleAddEvent, HandleCloseReq, worker
    <3> QED BY <1>1, <3>1
  <2>3. ASSUME NEW ms \in Seq(MasterMsg), NEW c \in MasterMsg, Asked' = Asked \o ms,
               Elements(ms) = {c}, c.id # "DEL_EVENT"
        PROVE  Once(Asked', {"DEL_EVENT"}) /\ Deleting' = Deleting
    <3>1. Once(ms, {"DEL_EVENT"}) /\ Names(Elements(ms), "DEL_EVENT") = {}
      BY <2>3, OnceNone DEF Names
    <3>2. Deleting \union Names(Elements(ms), "DEL_EVENT") = Deleting
      BY <3>1
    <3>3. \A n \in Elements(ms) : n.id # "DEL_EVENT"
      BY <2>3
    <3> QED BY <1>0, <2>3, <3>1, <3>2, <3>3, MoreDeleting
  <2>4. ASSUME NEW r \in Services, NEW t \in Services, NEW fd \in held[r], StartWith(r, t, fd)
        PROVE  Once(Asked', {"DEL_EVENT"}) /\ Deleting' = Deleting
    <3>1. PICK c \in MasterMsg : c = Msg("START_REQ", t, NoFd, {}) /\ c.id = "START_REQ"
      BY MasterMsgs, MsgFields
    <3>2. ToMaster(<<c>>) /\ UNCHANGED <<mrx, mbatch>>
      BY <2>4, <3>1 DEF StartWith, master
    <3>3. <<c>> \in Seq(MasterMsg)
      BY <3>1
    <3>4. PICK ms \in Seq(MasterMsg) : ms = <<c>>
      BY <3>3
    <3>5. Elements(ms) = {c}
      BY <3>4, OnceOne
    <3>6. Asked' = Asked \o ms
      BY <1>0, <3>2, <3>4, AskedMore
    <3> QED BY <2>3, <3>1, <3>5, <3>6
  <2>5. ASSUME NEW r \in Services, NEW fd \in held[r] \union {evfd[r], NoFd},
               NEW kind \in {"data", "listen", "connect"}, ModEvent(r, fd, kind)
        PROVE  Once(Asked', {"DEL_EVENT"}) /\ Deleting' = Deleting
    <3>1. PICK ms : ms = ModMessages(r, fd, kind)
      OBVIOUS
    <3>2. evfd[r] = NoFd
      BY <2>5 DEF ModEvent
    <3>3. PICK c : c = Msg("ADD_EVENT", r, fd, Watched(kind)) /\ c.id = "ADD_EVENT"
      BY MsgFields
    <3>4. ms \in Seq(MasterMsg) /\ Elements(ms) = {c}
      BY <1>0, <2>5, <3>1, <3>2, <3>3, ModMessagesType, FirstEvent
    <3>5. c \in MasterMsg
      BY <3>4, ElementsType
    <3>6. ToMaster(ms) /\ UNCHANGED <<mrx, mbatch>>
      BY <2>5, <3>1 DEF ModEvent, ModMessages, master
    <3>7. Asked' = Asked \o ms
      BY <1>0, <3>4, <3>6, AskedMore
    <3> QED BY <2>3, <3>3, <3>4, <3>5, <3>7
  <2> QED BY <1>0, <1>4, <2>1, <2>2, <2>4, <2>5, StepAsked
<1> QED BY <1>2, <1>3, <1>4

\* Those that the master has not routed, and those that the worker has or gets.
Waiting == Names(Elements(txmq), "CONN_IND")
Coming == Names(Elements(Sent), "CONN_IND")

LEMMA BroughtParts ==
    /\ Brought = Waiting \union Coming
    /\ QueuesOK =>
         ((\A m \in Elements(txmq), n \in Elements(Sent) : m.id = "CONN_IND" => ~Same(m, n))
          <=> Waiting \intersect Coming = {})
<1>1. Brought = Waiting \union Coming
  BY NamesMore DEF Brought, Waiting, Coming
<1>2. ASSUME QueuesOK
      PROVE  (\A m \in Elements(txmq), n \in Elements(Sent) : m.id = "CONN_IND" => ~Same(m, n))
             <=> Waiting \intersect Coming = {}
  <2>1. \A m \in Elements(txmq) : m.id = "CONN_IND" => m.fd \in Fds
    <3>1. txmq \in Seq(ServiceMsg)
      BY <1>2 DEF QueuesOK
    <3>2. \A m \in Elements(txmq) : m \in ServiceMsg
      BY <3>1, ElementsType
    <3> QED BY <3>2 DEF ServiceMsg
  <2> QED BY <2>1 DEF Waiting, Coming, Names, Same
<1> QED BY <1>1, <1>2

\* The descriptors that are not in the messages to services have no effect on
\* those that are.
LEMMA StepBrought ==
    ASSUME Life, SingleOK, PlaceOK, Next
    PROVE  /\ Once(txmq', {"CONN_IND"}) /\ Once(Sent', {"CONN_IND"})
           /\ Waiting' \intersect Coming' = {}
           /\ \/ /\ Accept /\ Lowest(Fds \ open) \in Fds \ open
                 /\ Brought' = Brought \union {Lowest(Fds \ open)}
              \/ /\ MasterRoute \/ HandleSkipped
                 /\ \E C \in SUBSET Brought :
                      Brought' = Brought \ C /\ dropped' = dropped \union C
              \/ /\ HandleMessage /\ Carried(Head(batch)) \subseteq Brought
                 /\ Brought' = Brought \ Carried(Head(batch))
              \/ /\ Brought' = Brought
                 /\ ~Accept /\ ~MasterRoute /\ ~HandleSkipped /\ ~HandleMessage
<1>0. /\ Types /\ QueuesOK /\ txmq \in Seq(ServiceMsg) /\ batch \in Seq(ServiceMsg)
      /\ Sent \in Seq(ServiceMsg)
      /\ Once(txmq, {"CONN_IND"}) /\ Once(Sent, {"CONN_IND"})
      /\ Waiting \intersect Coming = {} /\ Brought = Waiting \union Coming
      /\ Brought' = Waiting' \union Coming'
  <2>1. Types /\ QueuesOK /\ Sent \in Seq(ServiceMsg)
    BY SentParts DEF Life, Types
  <2>2. Brought' = Waiting' \union Coming'
    BY NamesMore DEF Brought, Waiting, Coming
  <2> QED BY <2>1, <2>2, BroughtParts DEF QueuesOK, SingleOK
<1>1. CASE Accept
  <2> DEFINE m == Msg("CONN_IND", current.svc, Lowest(Fds \ open), {})
  <2>1. Lowest(Fds \ open) \in Fds \ open /\ current.svc \in Services /\ {} \in SUBSET Conditions
    BY <1>0, <1>1, LowestOf DEF Accept, Types, MasterOK
  <2>2. m \in ServiceMsg /\ m.id = "CONN_IND" /\ m.fd = Lowest(Fds \ open)
    BY <2>1, ServiceMsgs, MsgFields
  <2>3. txmq' = Append(txmq, m) /\ UNCHANGED <<batch, rx, out>>
    BY <1>1 DEF Accept, ToService, worker
  <2> HIDE DEF m
  <2>4. m.fd \notin Brought
    BY <2>1, <2>2 DEF PlaceOK
  <2>5. /\ Once(Append(txmq, m), {"CONN_IND"})
        /\ Names(Elements(Append(txmq, m)), "CONN_IND") = Waiting \union {m.fd}
    BY <1>0, <2>1, <2>2, <2>4, NamesAppend DEF Waiting
  <2>6. Sent' = Sent
    BY <2>3 DEF Sent
  <2>7. Waiting' = Waiting \union {m.fd} /\ Coming' = Coming
    BY <2>3, <2>5, <2>6 DEF Waiting, Coming
  <2> QED BY <1>0, <1>1, <2>1, <2>2, <2>3, <2>4, <2>5, <2>6, <2>7
<1>2. CASE MasterRoute
  <2>0. PICK h : h = Head(txmq)
    OBVIOUS
  <2>1. /\ txmq # <<>> /\ txmq' = Tail(txmq) /\ UNCHANGED <<rx, batch>>
        /\ \/ out' = Append(out, h) /\ dropped' = dropped
           \/ out' = out /\ dropped' = dropped \union Carried(h)
    BY <1>2, <2>0 DEF MasterRoute, worker
  <2>2. /\ h \in ServiceMsg /\ Once(Tail(txmq), {"CONN_IND"})
        /\ Names(Elements(Tail(txmq)), "CONN_IND") = Waiting \ Carried(h)
        /\ Carried(h) \subseteq Waiting
    <3>1. h \in ServiceMsg /\ (h.id = "CONN_IND" => h.fd \in Fds)
      BY <1>0, <2>0, <2>1, ServiceHead
    <3>2. Once(Tail(txmq), {"CONN_IND"})
      BY <1>0, <2>1, OnceTail
    <3> QED BY <1>0, <2>0, <2>1, <3>1, <3>2, NamesTail DEF Waiting, Carried
  <2>3. Waiting' = Waiting \ Carried(h)
    BY <2>1, <2>2 DEF Waiting
  <2>4. CASE out' = Append(out, h) /\ dropped' = dropped
    <3>1. Sent' = Append(Sent, h)
      BY <1>0, <2>1, <2>2, <2>4, SentMore
    <3>2. h.id = "CONN_IND" => h.fd \in Fds /\ h.fd \notin Coming
      BY <1>0, <2>2 DEF Carried, ServiceMsg
    <3>3. /\ Once(Append(Sent, h), {"CONN_IND"})
          /\ Names(Elements(Append(Sent, h)), "CONN_IND") = Coming \union Carried(h)
      BY <1>0, <2>2, <3>2, NamesAppend DEF Coming, Carried
    <3>4. Coming' = Coming \union Carried(h)
      BY <3>1, <3>3 DEF Coming
    <3>5. Brought' = Brought \ {} /\ dropped' = dropped \union {} /\ {} \in SUBSET Brought
      BY <1>0, <2>2, <2>3, <2>4, <3>4
    <3>6. Waiting' \intersect Coming' = {}
      BY <1>0, <2>3, <3>4
    <3> QED BY <1>2, <2>1, <2>2, <3>1, <3>3, <3>5, <3>6
  <2>5. CASE out' = out /\ dropped' = dropped \union Carried(h)
    <3>1. Sent' = Sent
      BY <1>0, <2>1, <2>5, SentKept
    <3>2. Coming' = Coming
      BY <3>1 DEF Coming
    <3>3. /\ Brought' = Brought \ Carried(h) /\ Carried(h) \in SUBSET Brought
          /\ Waiting' \intersect Coming' = {}
      BY <1>0, <2>2, <2>3, <3>2
    <3> QED BY <1>0, <1>2, <2>1, <2>2, <2>5, <3>1, <3>3
  <2> QED BY <2>1, <2>4, <2>5
<1>3. CASE HandleClosed \/ HandleSkipped \/ HandleMessage
  <2>0. PICK h : h = Head(batch)
    OBVIOUS
  <2>1. /\ batch # <<>> /\ batch' = Tail(batch) /\ UNCHANGED <<rx, out, txmq>>
        /\ HandleClosed => Carried(h) = {}
    BY <1>3, <2>0 DEF HandleClosed, HandleSkipped, HandleMessage, master, Carried
  <2>2. Sent # <<>> /\ Sent' = Tail(Sent) /\ Head(Sent) = h
    BY <1>0, <2>0, <2>1, SentHead
  <2>3. /\ Once(Tail(Sent), {"CONN_IND"})
        /\ Names(Elements(Tail(Sent)), "CONN_IND") = Coming \ Carried(h)
        /\ Carried(h) \subseteq Coming
    <3>1. h.id = "CONN_IND" => h.fd \in Fds
      BY <1>0, <2>2, ServiceHead
    <3>2. Once(Tail(Sent), {"CONN_IND"})
      BY <1>0, <2>2, OnceTail
    <3> QED BY <1>0, <2>2, <3>1, <3>2, NamesTail DEF Coming, Carried
  <2>4. Coming' = Coming \ Carried(h)
    BY <2>2, <2>3 DEF Coming
  <2>5. txmq' = txmq
    BY <2>1
  <2>6. Waiting' = Waiting
    BY <2>5 DEF Waiting
  <2>7. /\ Brought' = Brought \ Carried(h) /\ Carried(h) \subseteq Brought
        /\ Waiting' \intersect Coming' = {}
    BY <1>0, <2>3, <2>4, <2>6
  <2>8. HandleSkipped => dropped' = dropped \union Carried(h)
    BY <2>0 DEF HandleSkipped
  <2>9. HandleClosed => Brought' = Brought /\ ~Accept /\ ~MasterRoute /\ ~HandleSkipped /\ ~HandleMessage
    <3>1. ASSUME HandleClosed PROVE phase' = phase /\ batch' # batch /\ Head(batch).id = "CLOSE_RSP"
                                    /\ UNCHANGED <<txmq>>
      BY <1>0, <2>1, <3>1 DEF HandleClosed, master
    <3>2. HandleSkipped \/ HandleMessage => Head(batch).id # "CLOSE_RSP"
      BY DEF HandleSkipped, HandleMessage
    <3>3. Accept \/ MasterRoute => batch' = batch
      BY DEF Accept, MasterRoute, worker
    <3> QED BY <2>1, <2>7, <3>1, <3>2, <3>3
  <2> QED BY <1>0, <1>3, <2>0, <2>2, <2>3, <2>5, <2>7, <2>8, <2>9
<1>4. ASSUME ~Accept, ~MasterRoute, ~HandleClosed, ~HandleSkipped, ~HandleMessage
      PROVE  /\ Once(txmq', {"CONN_IND"}) /\ Once(Sent', {"CONN_IND"})
             /\ Waiting' = Waiting /\ Coming' = Coming
  <2>1. Sent' = Sent
    BY <1>0, <1>4, StepSent
  <2>2. Coming' = Coming /\ Once(Sent', {"CONN_IND"})
    BY <1>0, <2>1 DEF Coming
  <2>3. CASE UNCHANGED txmq
    BY <1>0, <2>2, <2>3 DEF Waiting
  <2>4. ASSUME ~UNCHANGED txmq PROVE Once(txmq', {"CONN_IND"}) /\ Waiting' = Waiting
    <3>1. \E m : txmq' = Append(txmq, m) /\ m.id # "CONN_IND"
      <4>1. CASE ConnectDone
        BY <4>1, MsgFields DEF ConnectDone, ToService
      <4>2. CASE HandleStartReq
        BY <4>2, MsgFields DEF HandleStartReq, ToService
      <4>3. CASE HandleCloseReq
        BY <4>3, MsgFields DEF HandleCloseReq, ToService
      <4>4. CASE \E e \in events : DispatchData(e)
        BY <2>4, <4>4, MsgFields DEF DispatchData, ToService
      <4> QED BY <1>0, <1>4, <2>4, <4>1, <4>2, <4>3, <4>4, StepSent
    <3>2. PICK m : txmq' = Append(txmq, m) /\ m.id # "CONN_IND"
      BY <3>1
    <3>3. PICK S : S = ServiceMsg \union {m}
      OBVIOUS
    <3>4. txmq \in Seq(S) /\ m \in S
      BY <1>0, <3>3
    <3>5. /\ Once(Append(txmq, m), {"CONN_IND"})
          /\ Names(Elements(Append(txmq, m)), "CONN_IND") =
               Names(Elements(txmq), "CONN_IND") \union {}
      BY <1>0, <3>2, <3>4, NamesAppend
    <3> QED BY <3>2, <3>5 DEF Waiting
  <2> QED BY <2>2, <2>3, <2>4
<1>5. CASE ~Accept /\ ~MasterRoute /\ ~HandleClosed /\ ~HandleSkipped /\ ~HandleMessage
  BY <1>0, <1>4, <1>5
<1> QED BY <1>1, <1>2, <1>3, <1>5

-----------------------------------------------------------------------------
(* A step moves descriptors from one place to another.                     *)

Still == UNCHANGED <<open, held, evfd, dropped>> /\ Deleting' = Deleting /\ Brought' = Brought

\* A new descriptor comes with a message, or is a service's.
Arrived(fd) ==
    /\ fd \in Fds \ open /\ open' = open \union {fd} /\ Brought' = Brought \union {fd}
    /\ UNCHANGED <<held, evfd, dropped>> /\ Deleting' = Deleting

Opened(s, fd) ==
    /\ fd \in Fds \ open /\ open' = open \union {fd}
    /\ held' = [held EXCEPT ![s] = @ \union {fd}]
    /\ UNCHANGED <<evfd, dropped>> /\ Deleting' = Deleting /\ Brought' = Brought

\* A message that brings descriptors is dropped, or handled.
Dropped(C) ==
    /\ C \subseteq Brought /\ Brought' = Brought \ C /\ dropped' = dropped \union C
    /\ UNCHANGED <<open, held, evfd>> /\ Deleting' = Deleting

Brings(s, C) ==
    /\ C \subseteq Brought /\ Brought' = Brought \ C
    /\ held' = [held EXCEPT ![s] = @ \union C]
    /\ UNCHANGED <<open, evfd, dropped>> /\ Deleting' = Deleting

\* A service closes descriptors of its own, or the master those it was asked to.
Closed(s, C) ==
    /\ C \subseteq held[s] /\ open' = open \ C /\ held' = [held EXCEPT ![s] = @ \ C]
    /\ UNCHANGED <<evfd, dropped>> /\ Deleting' = Deleting /\ Brought' = Brought

ClosedFor(C) ==
    /\ C \subseteq Deleting /\ open' = open \ C /\ Deleting' = Deleting \ C
    /\ UNCHANGED <<held, evfd, dropped>> /\ Brought' = Brought

\* A descriptor is given to another service, set as the event, or deleted.
Given(s, t, fd) ==
    /\ s # t /\ fd \in held[s] /\ held[t] = {}
    /\ held' = [held EXCEPT ![s] = @ \ {fd}, ![t] = {fd}]
    /\ UNCHANGED <<open, evfd, dropped>> /\ Deleting' = Deleting /\ Brought' = Brought

Set(s, fd) ==
    /\ fd \in held[s] /\ evfd[s] = NoFd
    /\ held' = [held EXCEPT ![s] = @ \ {fd}] /\ evfd' = [evfd EXCEPT ![s] = fd]
    /\ UNCHANGED <<open, dropped>> /\ Deleting' = Deleting /\ Brought' = Brought

Unset(s) ==
    /\ evfd' = [evfd EXCEPT ![s] = NoFd]
    /\ Deleting' = Deleting \union ({evfd[s]} \ {NoFd})
    /\ UNCHANGED <<open, held, dropped>> /\ Brought' = Brought

LEMMA MovesKeep ==
    ASSUME Types, PlaceOK, NEW s \in Services, NEW t \in Services, NEW fd, NEW C,
           \/ Still \/ Arrived(fd) \/ Opened(s, fd) \/ Dropped(C) \/ Brings(s, C)
           \/ Closed(s, C) \/ ClosedFor(C) \/ Given(s, t, fd) \/ Set(s, fd) \/ Unset(s)
    PROVE  PlaceOK'
<1>0. /\ held \in [Services -> SUBSET Fds] /\ evfd \in [Services -> Fds \union {NoFd}]
      /\ NoFd \notin Fds
  BY DEF Types, PrivateOK, GuardedOK, Fds, NoFd
<1>1. CASE Still
  BY <1>1 DEF Still, PlaceOK, Held, InEvent
<1>2. CASE Arrived(fd)
  BY <1>2 DEF Arrived, PlaceOK, Held, InEvent
<1>3. CASE Opened(s, fd)
  <2>1. \A r \in Services : held'[r] = IF r = s THEN held[r] \union {fd} ELSE held[r]
    BY <1>0, <1>3 DEF Opened
  <2> QED BY <1>3, <2>1 DEF Opened, PlaceOK, Held, InEvent
<1>4. CASE Dropped(C)
  BY <1>4 DEF Dropped, PlaceOK, Held, InEvent
<1>5. CASE Brings(s, C)
  <2>1. \A r \in Services : held'[r] = IF r = s THEN held[r] \union C ELSE held[r]
    BY <1>0, <1>5 DEF Brings
  <2> QED BY <1>5, <2>1 DEF Brings, PlaceOK, Held, InEvent
<1>6. CASE Closed(s, C)
  <2>1. \A r \in Services : held'[r] = IF r = s THEN held[r] \ C ELSE held[r]
    BY <1>0, <1>6 DEF Closed
  <2> QED BY <1>6, <2>1 DEF Closed, PlaceOK, Held, InEvent
<1>7. CASE ClosedFor(C)
  BY <1>7 DEF ClosedFor, PlaceOK, Held, InEvent
<1>8. CASE Given(s, t, fd)
  <2>1. \A r \in Services : held'[r] = IF r = t THEN {fd}
                                       ELSE IF r = s THEN held[r] \ {fd} ELSE held[r]
    BY <1>0, <1>8 DEF Given
  <2>2. /\ UNCHANGED <<open, evfd, dropped>> /\ Deleting' = Deleting /\ Brought' = Brought
        /\ s # t /\ fd \in held[s] /\ held[t] = {} /\ fd \in Fds
    BY <1>0, <1>8 DEF Given
  <2>3. \A f \in Fds : (\E r \in Services : f \in held'[r]) <=> (\E r \in Services : f \in held[r])
    <3> SUFFICES ASSUME NEW f \in Fds
                 PROVE  (\E r \in Services : f \in held'[r]) <=> (\E r \in Services : f \in held[r])
      OBVIOUS
    <3>1. CASE f = fd
      BY <2>1, <2>2, <3>1
    <3>2. CASE f # fd
      <4>1. \A r \in Services : f \in held'[r] <=> f \in held[r]
        BY <2>1, <2>2, <3>2
      <4> QED BY <4>1
    <3> QED BY <3>1, <3>2
  <2>4. ASSUME NEW f \in Fds, NEW q \in Services, NEW r \in Services,
               f \in held'[q], f \in held'[r]
        PROVE  q = r
    <3>1. \A p \in Services : f \in held[s] /\ f \in held[p] => p = s
      BY DEF PlaceOK
    <3>2. f \in held[q] /\ f \in held[r] => q = r
      BY DEF PlaceOK
    <3>3. CASE f = fd
      <4>1. \A p \in Services : f \in held'[p] => p = t
        BY <2>1, <2>2, <3>1, <3>3
      <4> QED BY <2>4, <4>1
    <3>4. CASE f # fd
      <4>1. \A p \in Services : f \in held'[p] => f \in held[p]
        BY <2>1, <2>2, <3>4
      <4> QED BY <2>4, <3>2, <4>1
    <3> QED BY <3>3, <3>4
  <2> QED BY <2>2, <2>3, <2>4 DEF PlaceOK, Held, InEvent
<1>9. CASE Set(s, fd)
  <2>1. \A r \in Services : /\ held'[r] = IF r = s THEN held[r] \ {fd} ELSE held[r]
                            /\ evfd'[r] = IF r = s THEN fd ELSE evfd[r]
    BY <1>0, <1>9 DEF Set
  <2> QED BY <1>0, <1>9, <2>1 DEF Set, PlaceOK, Held, InEvent
<1>10. CASE Unset(s)
  <2>1. \A r \in Services : evfd'[r] = IF r = s THEN NoFd ELSE evfd[r]
    BY <1>0, <1>10 DEF Unset
  <2> QED BY <1>0, <1>10, <2>1 DEF Unset, PlaceOK, Held, InEvent
<1> QED BY <1>1, <1>2, <1>3, <1>4, <1>5, <1>6, <1>7, <1>8, <1>9, <1>10

\* The steps that touch the messages that name descriptors.
LEMMA Apart ==
    ASSUME QueuesOK
    PROVE  /\ Accept => phase = "accept" /\ txmq' # txmq /\ UNCHANGED batch
           /\ MasterRoute => phase = "route" /\ txmq' # txmq /\ UNCHANGED batch
           /\ HandleDelEvent => phase = "handle" /\ mbatch' # mbatch /\ UNCHANGED batch
           /\ HandleSkipped \/ HandleMessage => batch' # batch /\ Head(batch).id # "CLOSE_RSP"
           /\ HandleSkipped => ~HandleMessage
<1>1. \A S : \A q \in Seq(S) : q # <<>> => Tail(q) # q
  <2> SUFFICES ASSUME NEW S, NEW q \in Seq(S), q # <<>> PROVE Tail(q) # q
    OBVIOUS
  <2>1. Len(Tail(q)) = Len(q) - 1 /\ Len(q) \in Nat
    BY HeadTailProperties, LenProperties
  <2>2. ASSUME Tail(q) = q PROVE FALSE
    <3>1. Len(q) = Len(q) - 1
      BY <2>1, <2>2, Zenon
    <3> QED BY <2>1, <3>1
  <2> QED BY <2>2
<1>2. Accept => phase = "accept" /\ txmq' # txmq /\ UNCHANGED batch
  <2>1. \A m : Append(txmq, m) # txmq
    <3> TAKE m
    <3>1. PICK S : S = ServiceMsg \union {m}
      OBVIOUS
    <3>2. txmq \in Seq(S) /\ m \in S
      BY <3>1 DEF QueuesOK
    <3>3. Len(Append(txmq, m)) = Len(txmq) + 1 /\ Len(txmq) \in Nat
      BY <3>2, AppendProperties, LenProperties
    <3> QED BY <3>3
  <2> QED BY <2>1 DEF Accept, ToService, worker
<1>3. MasterRoute => phase = "route" /\ txmq' # txmq /\ UNCHANGED batch
  BY <1>1 DEF MasterRoute, worker, QueuesOK
<1>4. HandleDelEvent => phase = "handle" /\ mbatch' # mbatch /\ UNCHANGED batch
  BY <1>1 DEF HandleDelEvent, MasterHandling, worker, QueuesOK
<1>5. HandleSkipped \/ HandleMessage => batch' # batch /\ Head(batch).id # "CLOSE_RSP"
  BY <1>1 DEF HandleSkipped, HandleMessage, QueuesOK
<1>6. HandleSkipped => ~HandleMessage
  BY DEF HandleSkipped, HandleMessage
<1> QED BY <1>2, <1>3, <1>4, <1>5, <1>6

LEMMA DeletingKept ==
    ASSUME Life, EventOK, SingleOK, PlaceOK, ~replaced', Next, UNCHANGED evfd, ~HandleDelEvent
    PROVE  Deleting' = Deleting
<1>1. \A s \in Services : CallDelEvent(s) \/ CloseService(s) => evfd[s] = NoFd
  <2> SUFFICES ASSUME NEW s \in Services, CallDelEvent(s) \/ CloseService(s), evfd[s] # NoFd
               PROVE  FALSE
    OBVIOUS
  <2>1. evfd \in [Services -> Fds \union {NoFd}] /\ "socket" \in flagw[s]
    BY DEF Life, Types, GuardedOK, EventOK
  <2>2. evfd' = [evfd EXCEPT ![s] = NoFd]
    BY <2>1 DEF CallDelEvent, CloseService, DelEvent
  <2> QED BY <2>1, <2>2
<1> QED BY <1>1, StepDeleting

LEMMA BroughtKept ==
    ASSUME Life, SingleOK, PlaceOK, Next, UNCHANGED batch \/ Head(batch).id = "CLOSE_RSP",
           UNCHANGED txmq \/ phase \notin {"accept", "route"}
    PROVE  Brought' = Brought
<1>1. QueuesOK
  BY DEF Life, Types
<1> QED BY <1>1, Apart, StepBrought

LEMMA StepPlace ==
    ASSUME Life, EventOK, SingleOK, PlaceOK, ~replaced', Next
    PROVE  PlaceOK'
<1>0. /\ Types /\ QueuesOK /\ StagesOK /\ ThreadsOK
      /\ held \in [Services -> SUBSET Fds] /\ evfd \in [Services -> Fds \union {NoFd}]
      /\ \E s : s \in Services
      /\ Deleting \subseteq Fds
  BY SocketAssumption DEF Life, Types, PrivateOK, GuardedOK, Deleting, Names
<1>1. ASSUME NEW s \in Services, NEW t \in Services, NEW fd, NEW C,
             \/ Arrived(fd) \/ Opened(s, fd) \/ Dropped(C) \/ Brings(s, C)
             \/ Closed(s, C) \/ ClosedFor(C) \/ Given(s, t, fd) \/ Set(s, fd) \/ Unset(s)
      PROVE  PlaceOK'
  BY <1>0, <1>1, MovesKeep
<1>2. ASSUME UNCHANGED <<open, held, evfd, dropped>>, Deleting' = Deleting, Brought' = Brought
      PROVE  PlaceOK'
  BY <1>0, <1>2, MovesKeep DEF Still
<1>3. CASE Accept
  <2>1. /\ Lowest(Fds \ open) \in Fds \ open
        /\ Brought' = Brought \union {Lowest(Fds \ open)}
    BY <1>0, <1>3, Apart, StepBrought
  <2>2. open' = open \union {Lowest(Fds \ open)} /\ UNCHANGED <<held, evfd, dropped>>
    BY <1>3 DEF Accept, OpenFd, private, guarded, history
  <2>3. Deleting' = Deleting
    BY <1>0, <1>3, <2>2, Apart, DeletingKept
  <2>4. Arrived(Lowest(Fds \ open))
    BY <2>1, <2>2, <2>3 DEF Arrived
  <2> QED BY <1>0, <1>1, <2>4
<1>4. CASE MasterRoute \/ HandleSkipped
  <2>1. PICK C \in SUBSET Brought : Brought' = Brought \ C /\ dropped' = dropped \union C
    BY <1>0, <1>4, Apart, StepBrought
  <2>2. UNCHANGED <<open, held, evfd>>
    BY <1>4 DEF MasterRoute, HandleSkipped, kernel, private, guarded
  <2>3. ~HandleDelEvent
    BY <1>0, <1>4, Apart
  <2>4. Deleting' = Deleting
    BY <2>2, <2>3, DeletingKept
  <2>5. Dropped(C)
    BY <2>1, <2>2, <2>4 DEF Dropped
  <2> QED BY <1>0, <1>1, <2>5
<1>5. CASE HandleMessage
  <2> DEFINE s == Head(batch).svc
             C == Carried(Head(batch))
  <2>1. C \subseteq Brought /\ Brought' = Brought \ C
    BY <1>0, <1>5, Apart, StepBrought
  <2>2. /\ UNCHANGED <<open, evfd, dropped>> /\ held' = [held EXCEPT ![s] = @ \union C]
        /\ batch # <<>>
    BY <1>5 DEF HandleMessage, kernel
  <2>3. s \in Services
    BY <1>0, <2>2, ServiceHead DEF QueuesOK
  <2>4. Deleting' = Deleting
    BY <1>0, <1>5, <2>2, Apart, DeletingKept
  <2>5. Brings(s, C)
    BY <2>1, <2>2, <2>4 DEF Brings
  <2> HIDE DEF s, C
  <2> QED BY <1>1, <2>3, <2>5
<1>6. CASE HandleClosed
  <2> DEFINE s == Head(batch).svc
  <2>1. /\ UNCHANGED <<evfd, dropped, mbatch, txmq>> /\ held' = [held EXCEPT ![s] = {}]
        /\ open' = open \ held[s] /\ batch # <<>> /\ Head(batch).id = "CLOSE_RSP"
    BY <1>6 DEF HandleClosed, CloseFds, guarded, history, master
  <2>2. s \in Services
    BY <1>0, <2>1, ServiceHead DEF QueuesOK
  <2>3. Deleting' = Deleting
    BY <1>0, <2>1, Apart, DeletingKept
  <2>4. Brought' = Brought
    BY <2>1, BroughtKept
  <2>5. held[s] \subseteq held[s] /\ held' = [held EXCEPT ![s] = @ \ held[s]]
    BY <2>1
  <2>6. Closed(s, held[s])
    BY <2>1, <2>3, <2>4, <2>5 DEF Closed
  <2> HIDE DEF s
  <2> QED BY <1>1, <2>2, <2>6
<1>7. CASE HandleDelEvent
  <2> DEFINE fd == Head(mbatch).fd
  <2>1. /\ UNCHANGED <<held, evfd, dropped, txmq, batch>>
        /\ IF fd = NoFd THEN UNCHANGED open ELSE open' = open \ {fd}
    BY <1>7 DEF HandleDelEvent, DeleteAndClose, CloseFds, kernel, guarded, private, history, worker
  <2>2. fd \in Fds \union {NoFd}
    BY <1>0, <1>7, MasterHead DEF HandleDelEvent
  <2>3. Deleting' = Deleting \ {fd} /\ (fd \in Fds => fd \in Deleting)
    <3>1. \A s \in Services : ~CallDelEvent(s) /\ ~CloseService(s)
      <4>1. \A s \in Services : CallDelEvent(s) \/ CloseService(s) => UNCHANGED mbatch
        BY DEF CallDelEvent, CloseService, master
      <4> QED BY <1>0, <1>7, <4>1, Apart
    <3> QED BY <1>7, <3>1, StepDeleting
  <2>4. Brought' = Brought
    BY <2>1, BroughtKept
  <2> HIDE DEF fd
  <2>5. CASE fd = NoFd
    <3>1. Deleting' = Deleting
      BY <1>0, <2>3, <2>5 DEF Fds, NoFd
    <3> QED BY <1>2, <2>1, <2>4, <2>5, <3>1
  <2>6. CASE fd \in Fds
    <3>1. fd # NoFd
      BY <2>6 DEF Fds, NoFd
    <3>2. {fd} \subseteq Deleting /\ open' = open \ {fd}
      BY <2>1, <2>3, <2>6, <3>1
    <3>3. ClosedFor({fd})
      BY <2>1, <2>3, <2>4, <3>2 DEF ClosedFor
    <3> QED BY <1>0, <1>1, <3>3
  <2> QED BY <2>2, <2>5, <2>6
<1>8. ASSUME NEW s \in Services, Entry(s) PROVE PlaceOK'
  <2>1. /\ UNCHANGED <<mbatch, txmq, batch>> /\ running = s /\ step # "idle" /\ stage[s] = "online"
    <3>1. UNCHANGED <<mbatch, txmq, batch>> /\ running = s /\ step # "idle"
      BY <1>8 DEF Entry, OpenSocket, CloseSocket, StartWith, CallDelEvent, ModEvent,
         CloseSelf, EntryReturn, StopRx, CloseService, Calling, master, worker
    <3> QED BY <3>1, Runner
  <2>2. Brought' = Brought /\ ~HandleDelEvent
    BY <1>0, <2>1, Apart, BroughtKept
  <2>3. UNCHANGED evfd => Deleting' = Deleting
    BY <2>2, DeletingKept
  <2>4. ASSUME NEW listening \in BOOLEAN, OpenSocket(s, listening) PROVE PlaceOK'
    <3>1. /\ Lowest(Fds \ open) \in Fds \ open
          /\ open' = open \union {Lowest(Fds \ open)}
          /\ held' = [held EXCEPT ![s] = @ \union {Lowest(Fds \ open)}]
          /\ UNCHANGED <<evfd, dropped>>
      BY <2>4, LowestOf DEF OpenSocket, OpenFd, guarded, history
    <3>2. Opened(s, Lowest(Fds \ open))
      BY <2>2, <2>3, <3>1 DEF Opened
    <3> QED BY <1>1, <3>2
  <2>5. ASSUME NEW fd \in held[s], CloseSocket(s, fd) PROVE PlaceOK'
    <3>1. /\ open' = open \ {fd} /\ held' = [held EXCEPT ![s] = @ \ {fd}]
          /\ UNCHANGED <<evfd, dropped>>
      BY <2>5 DEF CloseSocket, CloseFds, guarded, history
    <3>2. Closed(s, {fd})
      BY <2>2, <2>3, <3>1 DEF Closed
    <3> QED BY <1>1, <3>2
  <2>6. ASSUME NEW t \in Services, NEW fd \in held[s], StartWith(s, t, fd) PROVE PlaceOK'
    <3>1. Refused(t)
      BY DEF Refused
    <3>2. /\ held' = [held EXCEPT ![s] = @ \ {fd}, ![t] = {fd}] /\ stage[t] = "none"
          /\ UNCHANGED <<evfd, open, dropped>>
      BY <2>6, <3>1 DEF StartWith, kernel, history
    <3>3. s # t /\ held[t] = {}
      BY <1>0, <2>1, <3>2 DEF StagesOK
    <3>4. Given(s, t, fd)
      BY <2>2, <2>3, <3>2, <3>3 DEF Given
    <3> QED BY <1>1, <3>4
  <2>7. CASE CallDelEvent(s) \/ CloseService(s)
    <3>1. UNCHANGED <<open, held, dropped>> /\ DelEvent(s)
      BY <2>7 DEF CallDelEvent, CloseService, kernel, history
    <3>2. evfd' = [evfd EXCEPT ![s] = NoFd]
      BY <1>0, <3>1 DEF DelEvent, EventOK
    <3>3. Deleting' = Deleting \union ({evfd[s]} \ {NoFd})
      <4>1. \A r \in Services : CallDelEvent(r) \/ CloseService(r) => r = s
        BY <2>1 DEF CallDelEvent, CloseService, Calling
      <4> QED BY <2>2, <2>7, <4>1, StepDeleting
    <3>4. Unset(s)
      BY <2>2, <3>1, <3>2, <3>3 DEF Unset
    <3> QED BY <1>0, <1>1, <3>4
  <2>8. ASSUME NEW fd \in held[s] \union {evfd[s], NoFd},
               NEW kind \in {"data", "listen", "connect"}, ModEvent(s, fd, kind)
        PROVE  PlaceOK'
    <3>1. /\ evfd[s] = NoFd /\ UNCHANGED <<open, dropped>>
          /\ held' = [held EXCEPT ![s] = @ \ {fd}] /\ evfd' = [evfd EXCEPT ![s] = fd]
      BY <2>8 DEF ModEvent, kernel
    <3>2. fd \in held[s] /\ fd \in Fds
      BY <1>0, <2>8, <3>1, FirstEvent
    <3>3. Deleting' = Deleting
      <4>1. \A r \in Services : CallDelEvent(r) \/ CloseService(r) =>
              r = s /\ (evfd' = evfd \/ evfd' = [evfd EXCEPT ![r] = NoFd])
        BY <2>1 DEF CallDelEvent, CloseService, Calling, DelEvent
      <4>2. evfd'[s] = fd /\ fd # NoFd
        BY <1>0, <3>1, <3>2 DEF Fds, NoFd
      <4>3. \A r \in Services : ~CallDelEvent(r) /\ ~CloseService(r)
        BY <1>0, <3>1, <4>1, <4>2
      <4> QED BY <2>2, <4>3, StepDeleting
    <3>4. Set(s, fd)
      BY <2>2, <3>1, <3>2, <3>3 DEF Set
    <3> QED BY <1>1, <3>4
  <2>9. CASE CloseSelf(s) \/ EntryReturn(s) \/ StopRx(s)
    <3>1. UNCHANGED <<open, held, evfd, dropped>>
      BY <2>9 DEF CloseSelf, EntryReturn, StopRx, kernel, guarded, private, history
    <3> QED BY <1>2, <2>2, <2>3, <3>1
  <2> QED BY <1>8, <2>4, <2>5, <2>6, <2>7, <2>8, <2>9 DEF Entry
<1>9. ASSUME MasterStep \/ KernelStep \/ WorkerTake \/ WorkerFlush,
             ~Accept, ~MasterRoute, ~HandleDelEvent
      PROVE  PlaceOK'
  <2>1. UNCHANGED <<open, held, evfd, dropped>>
    <3>1. CASE MasterStep
      BY <1>9, <3>1 DEF MasterStep, MasterWait, DispatchIgnored, DispatchListen, DispatchConnect,
         DispatchData, AcceptEnds, ConnectDone, MasterTake, HandleStartReq,
         HandleAddEvent, HandleCloseReq, MasterGet, MasterDeliver, kernel, guarded, private, history
    <3>2. CASE KernelStep
      BY <3>2 DEF KernelStep, Arrive, Connect, guarded, private, history
    <3>3. CASE WorkerTake \/ WorkerFlush
      BY <3>3 DEF WorkerTake, WorkerFlush, kernel, guarded, private, history
    <3> QED BY <1>9, <3>1, <3>2, <3>3
  <2>2. Deleting' = Deleting
    BY <1>9, <2>1, DeletingKept
  <2>3. ~HandleSkipped /\ ~HandleMessage
    <3>1. CASE WorkerTake
      BY <3>1 DEF WorkerTake, HandleSkipped, HandleMessage
    <3>2. CASE MasterStep \/ KernelStep \/ WorkerFlush
      <4>1. UNCHANGED batch
        BY <3>2 DEF MasterStep, MasterWait, DispatchIgnored, DispatchListen, DispatchConnect,
           DispatchData, Accept, AcceptEnds, ConnectDone, MasterTake, HandleStartReq,
           HandleAddEvent, HandleDelEvent, HandleCloseReq, MasterGet, MasterRoute, MasterDeliver,
           KernelStep, Arrive, Connect, WorkerFlush, worker
      <4> QED BY <1>0, <4>1, Apart
    <3> QED BY <1>9, <3>1, <3>2
  <2>4. Brought' = Brought
    BY <1>9, <2>3, StepBrought
  <2> QED BY <1>2, <2>1, <2>2, <2>4
<1> QED BY <1>3, <1>4, <1>5, <1>6, <1>7, <1>8, <1>9 DEF Next, WorkerStep

LEMMA StepSingle ==
    ASSUME Life, EventOK, SingleOK, PlaceOK, ~replaced', Next
    PROVE  SingleOK'
<1>1. Types'
  BY StepTypes DEF Life
<1>2. \A m \in Elements(txmq') : m.id = "CONN_IND" => m.fd \in Fds
  <2>1. txmq' \in Seq(ServiceMsg)
    BY <1>1 DEF Types, QueuesOK
  <2>2. \A m \in Elements(txmq') : m \in ServiceMsg
    BY <2>1, ElementsType
  <2> QED BY <2>2 DEF ServiceMsg
<1>3. /\ Once(Asked', {"DEL_EVENT"})
      /\ Once(txmq', {"CONN_IND"}) /\ Once(Sent', {"CONN_IND"})
      /\ Waiting' \intersect Coming' = {}
  BY StepDeleting, StepBrought
<1>4. \A m \in Elements(txmq'), n \in Elements(Sent') : m.id = "CONN_IND" => ~Same(m, n)
  BY <1>2, <1>3 DEF Waiting, Coming, Names, Same
<1> QED BY <1>3, <1>4 DEF SingleOK

-----------------------------------------------------------------------------
(* What epoll has registered.                                              *)

IsClose(m, s) == m.id = "CLOSE_REQ" /\ m.svc = s

\* After its place k the queue deletes fd, and only then closes service s.
Doomed(q, s, fd, k) ==
    \E j \in DOMAIN q :
      /\ k < j /\ q[j].id = "DEL_EVENT" /\ q[j].fd = fd
      /\ \A i \in DOMAIN q : IsClose(q[i], s) => j < i

\* What is registered for a service is its socket, or will be deleted before
\* the service is closed ...
WatchOK ==
    \A fd \in Fds : watch[fd] # Unwatched =>
      /\ watch[fd].svc \in Services /\ stage[watch[fd].svc] = "online"
      /\ evfd[watch[fd].svc] = fd \/ Doomed(Asked, watch[fd].svc, fd, 0)

\* ... and so is what will be registered.
AddOK ==
    \A k \in DOMAIN Asked : Asked[k].id = "ADD_EVENT" =>
      /\ stage[Asked[k].svc] = "online"
      /\ evfd[Asked[k].svc] = Asked[k].fd \/ Doomed(Asked, Asked[k].svc, Asked[k].fd, k)
      /\ \A i \in DOMAIN Asked : IsClose(Asked[i], Asked[k].svc) => k < i

\* The socket of a service is registered or will be.
RegisteredOK ==
    \A s \in Services : evfd[s] # NoFd =>
      \/ watch[evfd[s]].svc = s
      \/ \E m \in Elements(Asked) : m.id = "ADD_EVENT" /\ m.svc = s /\ m.fd = evfd[s]

LEMMA DoomedTail ==
    ASSUME NEW S, NEW q \in Seq(S), q # <<>>, NEW s, NEW fd, NEW k \in Nat, NEW l \in Nat,
           Doomed(q, s, fd, k),
           k = l + 1 \/ (k = 0 /\ l = 0 /\ ~(Head(q).id = "DEL_EVENT" /\ Head(q).fd = fd))
    PROVE  Doomed(Tail(q), s, fd, l)
<1>1. PICK j \in DOMAIN q :
        /\ k < j /\ q[j].id = "DEL_EVENT" /\ q[j].fd = fd
        /\ \A i \in DOMAIN q : IsClose(q[i], s) => j < i
  BY DEF Doomed
<1>2. /\ Head(q) = q[1] /\ DOMAIN q = 1..Len(q) /\ Len(q) \in Nat
      /\ j = 1 \/ j - 1 \in DOMAIN Tail(q)
      /\ \A i \in DOMAIN Tail(q) : i \in Nat /\ i + 1 \in DOMAIN q /\ Tail(q)[i] = q[i + 1]
  BY TailPlaces, LenProperties
<1>3. j # 1
  BY <1>1, <1>2
<1>4. PICK h \in DOMAIN Tail(q) : h = j - 1
  BY <1>2, <1>3
<1>5. h + 1 = j /\ Tail(q)[h] = q[j] /\ l < h
  BY <1>1, <1>2, <1>3, <1>4
<1>6. \A i \in DOMAIN Tail(q) : IsClose(Tail(q)[i], s) => h < i
  <2> TAKE i \in DOMAIN Tail(q)
  <2>1. i \in Nat /\ i + 1 \in DOMAIN q /\ Tail(q)[i] = q[i + 1]
    BY <1>2
  <2>2. IsClose(Tail(q)[i], s) => j < i + 1
    BY <1>1, <2>1
  <2> QED BY <1>2, <1>5, <2>1, <2>2
<1> QED BY <1>1, <1>5, <1>6 DEF Doomed

LEMMA DoomedMore ==
    ASSUME NEW S, NEW q \in Seq(S), NEW r \in Seq(S), NEW s, NEW fd, NEW k \in Nat,
           Doomed(q, s, fd, k)
    PROVE  Doomed(q \o r, s, fd, k)
<1>1. PICK j \in DOMAIN q :
        /\ k < j /\ q[j].id = "DEL_EVENT" /\ q[j].fd = fd
        /\ \A i \in DOMAIN q : IsClose(q[i], s) => j < i
  BY DEF Doomed
<1>2. j \in DOMAIN (q \o r) /\ (q \o r)[j] = q[j] /\ j <= Len(q) /\ j \in Nat /\ Len(q) \in Nat
  BY ConcatPlaces, LenProperties
<1>3. ASSUME NEW i \in DOMAIN (q \o r), IsClose((q \o r)[i], s) PROVE j < i
  <2>1. CASE i \in DOMAIN q
    BY <1>1, <1>3, <2>1, ConcatPlaces
  <2>2. ASSUME NEW h \in DOMAIN r, i = Len(q) + h PROVE j < i
    <3>1. h \in Nat /\ h > 0
      BY LenProperties
    <3> QED BY <1>2, <2>2, <3>1
  <2> QED BY <2>1, <2>2, ConcatPlaces
<1> QED BY <1>1, <1>2, <1>3 DEF Doomed

\* A service that is not closed yet deletes its event.
LEMMA DoomedNow ==
    ASSUME NEW S, NEW q \in Seq(S), NEW r \in Seq(S), NEW s, NEW fd, NEW k \in 0..Len(q),
           \A m \in Elements(q) : ~IsClose(m, s),
           r # <<>>, r[1].id = "DEL_EVENT", r[1].fd = fd
    PROVE  Doomed(q \o r, s, fd, k)
<1>1. 1 \in DOMAIN r /\ Len(q) \in Nat
  BY LenProperties, EmptySeq
<1>2. PICK j \in DOMAIN (q \o r) : j = Len(q) + 1
  BY <1>1, ConcatPlaces
<1>3. (q \o r)[j] = r[1] /\ k < j
  BY <1>1, <1>2, ConcatPlaces
<1>4. ASSUME NEW i \in DOMAIN (q \o r), IsClose((q \o r)[i], s) PROVE j < i
  <2>1. CASE i \in DOMAIN q
    <3>1. (q \o r)[i] = q[i] /\ q[i] \in Elements(q)
      BY <2>1, ConcatPlaces DEF Elements
    <3> QED BY <1>4, <3>1
  <2>2. ASSUME NEW h \in DOMAIN r, i = Len(q) + h PROVE j < i
    <3>1. (q \o r)[i] = r[h] /\ h \in Nat /\ h > 0
      BY <2>2, ConcatPlaces, LenProperties
    <3>2. h # 1
      BY <1>4, <3>1 DEF IsClose
    <3> QED BY <1>1, <1>2, <2>2, <3>1, <3>2
  <2> QED BY <2>1, <2>2, ConcatPlaces
<1> QED BY <1>3, <1>4 DEF Doomed

\* What a step does to the messages to the master, and to the events.
AskedLess ==
    /\ HandleStartReq \/ HandleAddEvent \/ HandleDelEvent \/ HandleCloseReq
    /\ Asked # <<>> /\ Asked' = Tail(Asked) /\ Head(Asked) = Head(mbatch)
    /\ UNCHANGED evfd

AskedStart(ms) ==
    /\ Asked' = Asked \o ms /\ UNCHANGED evfd
    /\ \A m \in Elements(ms) : m.id = "START_REQ"

AskedDelete(s, ms) ==
    /\ Asked' = Asked \o ms
    /\ (CallDelEvent(s) /\ ms = Deletion(s)) \/ (CloseService(s) /\ ms = LastWords(s))

AskedSet(s, fd, kind) ==
    /\ Asked' = Asked \o ModMessages(s, fd, kind)
    /\ fd \in held[s] \union {evfd[s], NoFd} /\ ModEvent(s, fd, kind)

LEMMA AskedShape ==
    ASSUME Types, Next
    PROVE  \/ Asked' = Asked /\ UNCHANGED evfd
           \/ AskedLess
           \/ \E ms \in Seq(MasterMsg) : AskedStart(ms)
           \/ \E s \in Services, ms \in Seq(MasterMsg) : AskedDelete(s, ms)
           \/ \E s \in Services : \E fd, kind : AskedSet(s, fd, kind)
<1>0. QueuesOK
  BY DEF Types
<1>1. ASSUME NEW s \in Services, CallDelEvent(s) \/ CloseService(s)
      PROVE  \E ms \in Seq(MasterMsg) : AskedDelete(s, ms)
  <2>1. \/ CallDelEvent(s) /\ Asked' = Asked \o Deletion(s)
        \/ CloseService(s) /\ Asked' = Asked \o LastWords(s)
    BY <1>0, <1>1, AskedMore, DeletionType DEF CallDelEvent, CloseService, master
  <2>2. Deletion(s) \in Seq(MasterMsg) /\ LastWords(s) \in Seq(MasterMsg)
    BY DeletionType
  <2>3. PICK ms \in Seq(MasterMsg) :
          /\ Asked' = Asked \o ms
          /\ (CallDelEvent(s) /\ ms = Deletion(s)) \/ (CloseService(s) /\ ms = LastWords(s))
    BY <2>1, <2>2
  <2> QED BY <2>3, Zenon DEF AskedDelete
<1>2. ASSUME NEW s \in Services, NEW fd \in held[s] \union {evfd[s], NoFd}, NEW kind,
             ModEvent(s, fd, kind)
      PROVE  AskedSet(s, fd, kind)
  <2>1. PICK ms : ms = ModMessages(s, fd, kind)
    OBVIOUS
  <2>2. ms \in Seq(MasterMsg)
    BY <2>1, ModMessagesType
  <2>3. ToMaster(ms) /\ UNCHANGED <<mrx, mbatch>>
    BY <1>2, <2>1 DEF ModEvent, ModMessages, master
  <2>4. Asked' = Asked \o ms
    BY <1>0, <2>2, <2>3, AskedMore
  <2> QED BY <1>2, <2>1, <2>4 DEF AskedSet
<1>3. ASSUME UNCHANGED evfd, HandleStartReq \/ HandleAddEvent \/ HandleDelEvent \/ HandleCloseReq
      PROVE  AskedLess
  <2>1. \E id \in MsgIds : MasterHandling(id) /\ UNCHANGED <<mrx, txms>>
    BY <1>3 DEF HandleStartReq, HandleAddEvent, HandleDelEvent, HandleCloseReq, MsgIds, worker
  <2>2. Asked # <<>> /\ Asked' = Tail(Asked) /\ Head(Asked) = Head(mbatch)
    BY <1>0, <2>1, AskedHead
  <2> QED BY <1>3, <2>2 DEF AskedLess
<1>4. ASSUME UNCHANGED evfd, NEW r \in Services, NEW t \in Services, NEW fd \in held[r],
             StartWith(r, t, fd)
      PROVE  \E ms \in Seq(MasterMsg) : AskedStart(ms)
  <2>1. PICK c \in MasterMsg : c = Msg("START_REQ", t, NoFd, {}) /\ c.id = "START_REQ"
    BY MasterMsgs, MsgFields
  <2>2. ToMaster(<<c>>) /\ UNCHANGED <<mrx, mbatch>>
    BY <1>4, <2>1 DEF StartWith, master
  <2>3. <<c>> \in Seq(MasterMsg)
    BY <2>1
  <2>4. PICK ms \in Seq(MasterMsg) : ms = <<c>>
    BY <2>3
  <2>5. Elements(ms) = {c}
    BY <2>4, OnceOne
  <2>6. Asked' = Asked \o ms
    BY <1>0, <2>2, <2>4, AskedMore
  <2> QED BY <1>4, <2>1, <2>5, <2>6 DEF AskedStart
<1>5. CASE \E s \in Services : CallDelEvent(s) \/ CloseService(s)
  BY <1>1, <1>5
<1>6. CASE \E s \in Services : \E fd \in held[s] \union {evfd[s], NoFd} :
             \E kind \in {"data", "listen", "connect"} : ModEvent(s, fd, kind)
  BY <1>2, <1>6
<1>7. CASE UNCHANGED evfd
           /\ ~(\E s \in Services : CallDelEvent(s) \/ CloseService(s))
           /\ ~(\E s \in Services : \E fd \in held[s] \union {evfd[s], NoFd} :
                  \E kind \in {"data", "listen", "connect"} : ModEvent(s, fd, kind))
  BY <1>3, <1>4, <1>7, StepAsked
<1> QED BY <1>5, <1>6, <1>7, EventSteps

\* A service leaves the table when the master is told to close it.
LEMMA OnlineLeft ==
    ASSUME Life, Next, NEW s \in Services, stage[s] = "online", stage'[s] # "online"
    PROVE  /\ Asked # <<>> /\ IsClose(Head(Asked), s) /\ Head(Asked) \in Elements(Asked)
<1>0. /\ QueuesOK /\ Asked \in Seq(MasterMsg)
      /\ stage \in [Services -> {"none", "starting", "online", "offline", "freed"}]
  BY AskedParts DEF Life, Types, PrivateOK
<1>1. stage'[s] = "offline"
  BY StageMoves
<1>2. CASE HandleStartReq
  <2>1. stage' = [stage EXCEPT ![Head(mbatch).svc] = "online"]
    BY <1>2 DEF HandleStartReq
  <2> QED BY <1>0, <1>1, <2>1
<1>3. CASE HandleClosed
  <2>1. stage' = [stage EXCEPT ![Head(batch).svc] = "freed"]
    BY <1>3 DEF HandleClosed
  <2> QED BY <1>0, <1>1, <2>1
<1>4. ASSUME NEW r \in Services, NEW t \in Services, NEW fd \in held[r], StartWith(r, t, fd)
      PROVE  FALSE
  <2>1. stage' = [stage EXCEPT ![t] = "starting"]
    BY <1>4 DEF StartWith
  <2> QED BY <1>0, <1>1, <2>1
<1>5. CASE HandleCloseReq
  <2>1. /\ MasterHandling("CLOSE_REQ") /\ UNCHANGED <<mrx, txms>>
        /\ stage' = [stage EXCEPT ![Head(mbatch).svc] = "offline"]
    BY <1>5 DEF HandleCloseReq, worker
  <2>2. Asked # <<>> /\ Head(Asked) = Head(mbatch) /\ Head(mbatch).id = "CLOSE_REQ"
    BY <1>0, <2>1, AskedHead, MasterHead
  <2>3. Head(mbatch).svc = s
    BY <1>0, <2>1
  <2> QED BY <1>0, <2>2, <2>3, ElementsTail DEF IsClose
<1> QED BY <1>1, <1>2, <1>3, <1>4, <1>5, StageSteps

\* The steps that change what is registered.
LEMMA WatchSteps ==
    ASSUME Life, Next, NEW fd \in Fds
    PROVE  \/ watch'[fd] = watch[fd] /\ ~(HandleDelEvent /\ Head(mbatch).fd = fd)
           \/ /\ watch'[fd] = Unwatched
              /\ \/ HandleDelEvent /\ Head(mbatch).fd = fd
                 \/ Held(fd)
           \/ /\ HandleAddEvent /\ fd = Head(mbatch).fd /\ fd \in open
              /\ watch'[fd] = [svc |-> Head(mbatch).svc, masks |-> Head(mbatch).masks]
<1>0. /\ Types /\ QueuesOK /\ StagesOK /\ RequestsOK
      /\ watch \in [Fds -> [svc: Services \union {NoService}, masks: SUBSET Conditions]]
      /\ NoFd \notin Fds
  BY DEF Life, Types, KernelOK, Fds, NoFd
<1>1. CASE HandleDelEvent
  <2>1. IF Head(mbatch).fd = NoFd THEN UNCHANGED watch
        ELSE watch' = [f \in Fds |-> IF f \in {Head(mbatch).fd} THEN Unwatched ELSE watch[f]]
    BY <1>1 DEF HandleDelEvent, DeleteAndClose, CloseFds, kernel
  <2> QED BY <1>0, <1>1, <2>1
<1>2. CASE HandleAddEvent
  <2>1. Register(Head(mbatch).fd, Head(mbatch).svc, Head(mbatch).masks)
    BY <1>2 DEF HandleAddEvent
  <2>2. ~HandleDelEvent
    BY <1>2 DEF HandleAddEvent, HandleDelEvent, MasterHandling
  <2> QED BY <1>0, <1>2, <2>1, <2>2 DEF Register
<1>3. CASE HandleStartReq
  <2>1. MasterHandling("START_REQ") /\ UNCHANGED <<mrx, txms>>
    BY <1>3 DEF HandleStartReq, worker
  <2>2. Asked \in Seq(MasterMsg) /\ Asked # <<>> /\ Head(Asked) = Head(mbatch)
    BY <1>0, <2>1, AskedHead, AskedParts
  <2>3. stage[Head(mbatch).svc] = "starting" /\ Head(mbatch).svc \in Services
    <3>1. Head(mbatch).svc \in Services /\ Head(mbatch).id = "START_REQ"
      BY <1>0, <2>1, MasterHead
    <3>2. Head(mbatch) \in Elements(Asked)
      BY <2>2, ElementsTail
    <3> QED BY <1>0, <3>1, <3>2 DEF RequestsOK
  <2>4. UNCHANGED watch
    BY <1>0, <1>3, <2>3 DEF HandleStartReq, StagesOK
  <2>5. ~HandleDelEvent
    BY <2>1 DEF HandleDelEvent, MasterHandling
  <2> QED BY <2>4, <2>5
<1>4. CASE HandleClosed
  <2>1. /\ batch # <<>>
        /\ watch' = [f \in Fds |-> IF f \in held[Head(batch).svc] THEN Unwatched ELSE watch[f]]
        /\ UNCHANGED mbatch
    BY <1>4 DEF HandleClosed, CloseFds, master
  <2>2. Head(batch).svc \in Services
    BY <1>0, <2>1, ServiceHead DEF QueuesOK
  <2>3. ~HandleDelEvent
    BY <1>0, <2>1, Apart
  <2> QED BY <1>0, <2>1, <2>2, <2>3 DEF Held
<1>5. ASSUME NEW s \in Services, NEW f \in held[s], CloseSocket(s, f)
      PROVE  \/ watch'[fd] = watch[fd] /\ ~(HandleDelEvent /\ Head(mbatch).fd = fd)
             \/ watch'[fd] = Unwatched /\ Held(fd)
  <2>1. /\ watch' = [g \in Fds |-> IF g \in {f} THEN Unwatched ELSE watch[g]]
        /\ UNCHANGED mbatch
    BY <1>5 DEF CloseSocket, CloseFds, master
  <2>2. ~HandleDelEvent
    BY <1>0, <2>1, Apart
  <2> QED BY <1>0, <2>1, <2>2 DEF Held
<1>6. ASSUME ~HandleDelEvent, ~HandleAddEvent, ~HandleStartReq, ~HandleClosed,
             ~\E s \in Services : \E f \in held[s] : CloseSocket(s, f)
      PROVE  UNCHANGED watch
  <2>1. CASE MasterStep \/ KernelStep
    BY <1>6, <2>1 DEF MasterStep, MasterWait, DispatchIgnored, DispatchListen, DispatchConnect,
       DispatchData, Accept, AcceptEnds, ConnectDone, MasterTake, HandleCloseReq, MasterGet,
       MasterRoute, MasterDeliver, KernelStep, Arrive, Connect, kernel
  <2>2. CASE WorkerTake \/ WorkerFlush \/ HandleSkipped \/ HandleMessage
    BY <2>2 DEF WorkerTake, WorkerFlush, HandleSkipped, HandleMessage, kernel
  <2>3. ASSUME NEW s \in Services, Entry(s) PROVE UNCHANGED watch
    <3>1. CASE \E t \in Services, f \in held[s] : StartWith(s, t, f)
      BY <3>1 DEF StartWith, kernel
    <3>2. CASE \E l \in BOOLEAN : OpenSocket(s, l)
      BY <3>2 DEF OpenSocket
    <3>3. CASE CallDelEvent(s) \/ CloseService(s) \/ CloseSelf(s) \/ EntryReturn(s) \/ StopRx(s)
      BY <3>3 DEF CallDelEvent, CloseService, CloseSelf, EntryReturn, StopRx, kernel
    <3>4. CASE \E f \in held[s] \union {evfd[s], NoFd}, kind \in {"data", "listen", "connect"} :
                 ModEvent(s, f, kind)
      BY <3>4 DEF ModEvent, kernel
    <3> QED BY <1>6, <2>3, <3>1, <3>2, <3>3, <3>4 DEF Entry
  <2> QED BY <1>6, <2>1, <2>2, <2>3 DEF Next, WorkerStep
<1> QED BY <1>1, <1>2, <1>3, <1>4, <1>5, <1>6

\* The places of the messages to the master after a step.
LEMMA HeadPlace ==
    ASSUME QueuesOK, Asked # <<>>
    PROVE  /\ 1 \in DOMAIN Asked /\ Asked[1] = Head(Asked) /\ Head(Asked) \in Elements(Asked)
           /\ DOMAIN Asked = 1..Len(Asked) /\ Len(Asked) \in Nat
           /\ \A i \in DOMAIN Tail(Asked) :
                i \in Nat /\ i + 1 \in DOMAIN Asked /\ Tail(Asked)[i] = Asked[i + 1]
<1>1. Asked \in Seq(MasterMsg)
  BY AskedParts
<1> QED BY <1>1, TailPlaces, LenProperties, ElementsTail

\* Set as the event or doomed: what the first says of a service and a
\* descriptor, the next step says too.
LEMMA StepDoomed ==
    ASSUME Life, EventOK, Next, ~replaced', NEW s \in Services, NEW fd \in Fds,
           NEW k \in Nat, NEW l \in Nat,
           evfd[s] = fd \/ Doomed(Asked, s, fd, k), k <= Len(Asked),
           IF AskedLess
           THEN \/ k = l + 1
                \/ k = 0 /\ l = 0 /\ ~(Head(Asked).id = "DEL_EVENT" /\ Head(Asked).fd = fd)
           ELSE k = l
    PROVE  evfd'[s] = fd \/ Doomed(Asked', s, fd, l)
<1>0. /\ Types /\ Asked \in Seq(MasterMsg) /\ QueuesOK
      /\ evfd \in [Services -> Fds \union {NoFd}] /\ NoFd \notin Fds
      /\ Len(Asked) \in Nat
  BY AskedParts, LenProperties DEF Life, Types, GuardedOK, Fds, NoFd
<1>1. CASE AskedLess
  <2>1. Asked # <<>> /\ Asked' = Tail(Asked) /\ UNCHANGED evfd
    BY <1>1 DEF AskedLess
  <2>2. ASSUME Doomed(Asked, s, fd, k) PROVE Doomed(Tail(Asked), s, fd, l)
    BY <1>0, <1>1, <2>1, <2>2, DoomedTail
  <2> QED BY <2>1, <2>2
<1>2. ASSUME ~AskedLess, NEW ms \in Seq(MasterMsg), Asked' = Asked \o ms,
             evfd'[s] = evfd[s] \/ evfd[s] # fd
      PROVE  evfd'[s] = fd \/ Doomed(Asked', s, fd, l)
  <2>1. ASSUME Doomed(Asked, s, fd, k) PROVE Doomed(Asked', s, fd, l)
    <3>1. k = l
      BY <1>2
    <3>2. PICK q \in Seq(MasterMsg) : q = Asked
      BY <1>0
    <3>3. Doomed(q \o ms, s, fd, k)
      BY <2>1, <3>2, DoomedMore
    <3> QED BY <1>2, <3>1, <3>2, <3>3
  <2> QED BY <1>2, <2>1
<1>3. CASE Asked' = Asked /\ UNCHANGED evfd /\ ~AskedLess
  BY <1>3
<1>4. ASSUME NEW ms \in Seq(MasterMsg), AskedStart(ms), ~AskedLess
      PROVE  evfd'[s] = fd \/ Doomed(Asked', s, fd, l)
  BY <1>2, <1>4 DEF AskedStart
<1>5. ASSUME NEW r \in Services, NEW ms \in Seq(MasterMsg), AskedDelete(r, ms), ~AskedLess
      PROVE  evfd'[s] = fd \/ Doomed(Asked', s, fd, l)
  <2>1. /\ Asked' = Asked \o ms
        /\ evfd' = evfd \/ evfd' = [evfd EXCEPT ![r] = NoFd]
        /\ ms = Deletion(r) \/ ms = LastWords(r)
    BY <1>5 DEF AskedDelete, CallDelEvent, CloseService, DelEvent
  <2>2. CASE evfd'[s] = evfd[s] \/ evfd[s] # fd
    BY <1>2, <1>5, <2>1, <2>2
  <2>3. CASE evfd[s] = fd /\ r = s
    <3>1. /\ "socket" \in flagw[s] /\ fd # NoFd
          /\ \A m \in Elements(Asked) : ~IsClose(m, s)
      BY <1>0, <2>3 DEF EventOK, IsClose
    <3> DEFINE d == Msg("DEL_EVENT", NoService, fd, {})
               c == Msg("CLOSE_REQ", s, NoFd, {})
    <3>2. /\ Deletion(s) = <<d>> /\ LastWords(s) = <<d>> \o <<c>>
          /\ d.id = "DEL_EVENT" /\ d.fd = fd
      BY <2>3, <3>1, MsgFields DEF Deletion, LastWords
    <3> HIDE DEF d, c
    <3>3. ms # <<>> /\ ms[1] = d
      <4>1. <<d>> \in Seq(MasterMsg) /\ <<c>> \in Seq(MasterMsg)
        BY MasterMsgs DEF d, c
      <4>2. PICK p \in Seq(MasterMsg), t \in Seq(MasterMsg) : p = <<d>> /\ t = <<c>>
        BY <4>1
      <4>3. p # <<>> /\ p[1] = d /\ 1 \in DOMAIN p
        BY <4>2
      <4>4. p \o t # <<>> /\ (p \o t)[1] = d
        BY <4>3, Regroup, ConcatPlaces
      <4> QED BY <2>1, <2>3, <3>2, <4>2, <4>3, <4>4
    <3>4. PICK q \in Seq(MasterMsg) : q = Asked
      BY <1>0
    <3>5. k = l /\ k \in 0..Len(q) /\ \A m \in Elements(q) : ~IsClose(m, s)
      BY <1>0, <1>5, <3>1, <3>4
    <3>6. Doomed(q \o ms, s, fd, k)
      BY <3>2, <3>3, <3>5, DoomedNow
    <3> QED BY <2>1, <3>4, <3>5, <3>6
  <2>4. CASE r # s
    BY <1>0, <1>2, <1>5, <2>1, <2>4
  <2> QED BY <2>2, <2>3, <2>4
<1>6. ASSUME NEW r \in Services, NEW f, NEW kind, AskedSet(r, f, kind), ~AskedLess
      PROVE  evfd'[s] = fd \/ Doomed(Asked', s, fd, l)
  <2>1. /\ f \in held[r] \union {evfd[r], NoFd} /\ ModEvent(r, f, kind)
        /\ Asked' = Asked \o ModMessages(r, f, kind)
    BY <1>6 DEF AskedSet
  <2>2. evfd[r] = NoFd /\ evfd' = [evfd EXCEPT ![r] = f]
    BY <2>1 DEF ModEvent
  <2>3. ModMessages(r, f, kind) \in Seq(MasterMsg)
    BY <1>0, <2>1, ModMessagesType
  <2>4. evfd'[s] = evfd[s] \/ evfd[s] # fd
    BY <1>0, <2>2
  <2> QED BY <1>2, <1>6, <2>1, <2>3, <2>4
<1> QED BY <1>0, <1>1, <1>3, <1>4, <1>5, <1>6, AskedShape

LEMMA StepWatch ==
    ASSUME Life, EventOK, WatchOK, AddOK, Next, ~replaced'
    PROVE  WatchOK'
<1>0. /\ Types /\ Asked \in Seq(MasterMsg) /\ QueuesOK /\ NoFd \notin Fds
      /\ Len(Asked) \in Nat
  BY AskedParts, LenProperties DEF Life, Types, Fds, NoFd
<1> SUFFICES ASSUME NEW fd \in Fds, watch'[fd] # Unwatched
             PROVE  /\ watch'[fd].svc \in Services /\ stage'[watch'[fd].svc] = "online"
                    /\ evfd'[watch'[fd].svc] = fd \/ Doomed(Asked', watch'[fd].svc, fd, 0)
  BY DEF WatchOK
<1>1. CASE watch'[fd] = watch[fd] /\ ~(HandleDelEvent /\ Head(mbatch).fd = fd)
  <2>1. PICK s \in Services : s = watch[fd].svc /\ s = watch'[fd].svc
    BY <1>1 DEF WatchOK
  <2>2. stage[s] = "online" /\ (evfd[s] = fd \/ Doomed(Asked, s, fd, 0))
    BY <1>1, <2>1 DEF WatchOK
  <2>3. stage'[s] = "online"
    <3> SUFFICES ASSUME stage'[s] # "online" PROVE FALSE
      OBVIOUS
    <3>1. Asked # <<>> /\ IsClose(Head(Asked), s) /\ Head(Asked) \in Elements(Asked)
      BY <2>2, OnlineLeft
    <3>2. evfd[s] # fd
      BY <1>0, <3>1 DEF EventOK, IsClose
    <3>3. PICK j \in DOMAIN Asked :
            0 < j /\ \A i \in DOMAIN Asked : IsClose(Asked[i], s) => j < i
      BY <2>2, <3>2 DEF Doomed
    <3>4. j < 1
      BY <1>0, <3>1, <3>3, HeadPlace
    <3> QED BY <1>0, <3>1, <3>3, <3>4, HeadPlace
  <2>4. AskedLess => ~(Head(Asked).id = "DEL_EVENT" /\ Head(Asked).fd = fd)
    <3> SUFFICES ASSUME AskedLess, Head(Asked).id = "DEL_EVENT", Head(Asked).fd = fd
                 PROVE  FALSE
      OBVIOUS
    <3>1. Head(mbatch).id = "DEL_EVENT" /\ Head(mbatch).fd = fd
      BY DEF AskedLess
    <3>2. HandleDelEvent
      BY <3>1 DEF AskedLess, HandleStartReq, HandleAddEvent, HandleCloseReq, MasterHandling
    <3> QED BY <1>1, <3>1, <3>2
  <2>5. 0 \in Nat /\ 0 <= Len(Asked)
    BY <1>0
  <2>6. evfd'[s] = fd \/ Doomed(Asked', s, fd, 0)
    BY <2>2, <2>4, <2>5, StepDoomed
  <2> QED BY <2>1, <2>3, <2>6
<1>2. CASE /\ HandleAddEvent /\ fd = Head(mbatch).fd
           /\ watch'[fd] = [svc |-> Head(mbatch).svc, masks |-> Head(mbatch).masks]
  <2>1. MasterHandling("ADD_EVENT") /\ UNCHANGED <<mrx, txms, stage, evfd>>
    BY <1>2 DEF HandleAddEvent, private, guarded, worker
  <2>2. /\ Asked # <<>> /\ Head(Asked) = Head(mbatch) /\ Asked' = Tail(Asked)
        /\ Head(mbatch).id = "ADD_EVENT" /\ Head(mbatch).svc \in Services
    BY <1>0, <2>1, AskedHead, MasterHead
  <2>3. PICK s \in Services : s = Head(mbatch).svc /\ s = watch'[fd].svc
    BY <1>2, <2>2
  <2>4. stage[s] = "online" /\ (evfd[s] = fd \/ Doomed(Asked, s, fd, 1))
    BY <1>0, <1>2, <2>2, <2>3, HeadPlace DEF AddOK
  <2>5. Doomed(Asked, s, fd, 1) => Doomed(Tail(Asked), s, fd, 0)
    <3>1. 1 = 0 + 1 /\ 0 \in Nat /\ 1 \in Nat
      OBVIOUS
    <3> QED BY <1>0, <2>2, <3>1, DoomedTail
  <2> QED BY <2>1, <2>2, <2>3, <2>4, <2>5
<1> QED BY <1>1, <1>2, WatchSteps

LEMMA StepAdd ==
    ASSUME Life, EventOK, AddOK, Next, ~replaced'
    PROVE  AddOK'
<1>0. /\ Types /\ QueuesOK /\ Asked \in Seq(MasterMsg) /\ NoFd \notin Fds
      /\ DOMAIN Asked = 1..Len(Asked) /\ Len(Asked) \in Nat
      /\ evfd \in [Services -> Fds \union {NoFd}]
  BY AskedParts, LenProperties DEF Life, Types, GuardedOK, Fds, NoFd
<1> SUFFICES ASSUME NEW k \in DOMAIN Asked', Asked'[k].id = "ADD_EVENT"
             PROVE  /\ stage'[Asked'[k].svc] = "online"
                    /\ \/ evfd'[Asked'[k].svc] = Asked'[k].fd
                       \/ Doomed(Asked', Asked'[k].svc, Asked'[k].fd, k)
                    /\ \A i \in DOMAIN Asked' : IsClose(Asked'[i], Asked'[k].svc) => k < i
  BY DEF AddOK
<1>1. ASSUME NEW h \in DOMAIN Asked, Asked'[k] = Asked[h], k \in Nat,
             IF AskedLess THEN h = k + 1 ELSE h = k,
             \A i \in DOMAIN Asked' :
               \/ k < i
               \/ \E g \in DOMAIN Asked : Asked'[i] = Asked[g] /\ (h < g => k < i)
      PROVE  /\ stage'[Asked'[k].svc] = "online"
             /\ \/ evfd'[Asked'[k].svc] = Asked'[k].fd
                \/ Doomed(Asked', Asked'[k].svc, Asked'[k].fd, k)
             /\ \A i \in DOMAIN Asked' : IsClose(Asked'[i], Asked'[k].svc) => k < i
  <2>1. Asked[h] \in MasterMsg /\ h \in Nat /\ h <= Len(Asked) /\ h >= 1
    BY <1>0, ElementsType
  <2>2. PICK s \in Services, fd \in Fds : s = Asked[h].svc /\ fd = Asked[h].fd
    BY <1>1, <2>1, SocketAssumption DEF MasterMsg
  <2>3. /\ stage[s] = "online"
        /\ evfd[s] = fd \/ Doomed(Asked, s, fd, h)
        /\ \A i \in DOMAIN Asked : IsClose(Asked[i], s) => h < i
    BY <1>1, <2>2 DEF AddOK
  <2>4. stage'[s] = "online"
    <3>1. ASSUME stage'[s] # "online" PROVE FALSE
      <4>1. Asked # <<>> /\ IsClose(Head(Asked), s)
        BY <2>3, <3>1, OnlineLeft
      <4>2. h < 1
        BY <1>0, <2>3, <4>1, HeadPlace
      <4> QED BY <2>1, <4>2
    <3> QED BY <3>1
  <2>5. evfd'[s] = fd \/ Doomed(Asked', s, fd, k)
    BY <1>1, <2>1, <2>3, StepDoomed
  <2>6. \A i \in DOMAIN Asked' : IsClose(Asked'[i], s) => k < i
    BY <1>1, <2>3
  <2> QED BY <1>1, <2>2, <2>4, <2>5, <2>6
<1>2. CASE AskedLess
  <2>1. Asked # <<>> /\ Asked' = Tail(Asked)
    BY <1>2 DEF AskedLess
  <2>2. \A i \in DOMAIN Asked' : i \in Nat /\ i + 1 \in DOMAIN Asked /\ Asked'[i] = Asked[i + 1]
    BY <1>0, <2>1, HeadPlace
  <2>3. PICK h \in DOMAIN Asked : h = k + 1
    BY <2>2
  <2>4. k \in Nat /\ Asked'[k] = Asked[h]
    BY <2>2, <2>3
  <2>5. ASSUME NEW i \in DOMAIN Asked'
        PROVE  \E g \in DOMAIN Asked : Asked'[i] = Asked[g] /\ (h < g => k < i)
    <3>1. i \in Nat /\ i + 1 \in DOMAIN Asked /\ Asked'[i] = Asked[i + 1]
      BY <2>2
    <3>2. h < i + 1 => k < i
      BY <2>3, <2>4, <3>1
    <3> QED BY <3>1, <3>2
  <2> QED BY <1>1, <1>2, <2>3, <2>4, <2>5
<1>3. CASE ~AskedLess /\ Asked' = Asked
  <2>1. k \in DOMAIN Asked /\ k \in Nat
    BY <1>0, <1>3
  <2>2. \A i \in DOMAIN Asked' : i \in DOMAIN Asked /\ Asked'[i] = Asked[i] /\ (k < i => k < i)
    BY <1>3
  <2> QED BY <1>1, <1>3, <2>1, <2>2
<1>4. ASSUME ~AskedLess, NEW ms \in Seq(MasterMsg), Asked' = Asked \o ms, k \in DOMAIN Asked
      PROVE  /\ stage'[Asked'[k].svc] = "online"
             /\ \/ evfd'[Asked'[k].svc] = Asked'[k].fd
                \/ Doomed(Asked', Asked'[k].svc, Asked'[k].fd, k)
             /\ \A i \in DOMAIN Asked' : IsClose(Asked'[i], Asked'[k].svc) => k < i
  <2>1. PICK q \in Seq(MasterMsg) : q = Asked
    BY <1>0
  <2>2. PICK r : r = q \o ms
    OBVIOUS
  <2>3. /\ \A i \in DOMAIN q : r[i] = q[i]
        /\ \A i \in DOMAIN r : i \in DOMAIN q \/ \E j \in DOMAIN ms : i = Len(q) + j
        /\ DOMAIN ms = 1..Len(ms) /\ Len(ms) \in Nat /\ Len(q) \in Nat
    BY <2>2, ConcatPlaces
  <2>4. Asked' = r /\ k \in Nat /\ k <= Len(q) /\ k \in DOMAIN q
    BY <1>0, <1>4, <2>1, <2>2
  <2>5. \A i \in DOMAIN r : k < i \/ i \in DOMAIN q
    BY <2>3, <2>4
  <2>6. \A i \in DOMAIN Asked' :
          k < i \/ \E g \in DOMAIN Asked : Asked'[i] = Asked[g] /\ (k < g => k < i)
    BY <2>1, <2>3, <2>4, <2>5
  <2>7. Asked'[k] = Asked[k]
    BY <2>1, <2>3, <2>4
  <2> QED BY <1>1, <1>4, <2>4, <2>6, <2>7
<1>5. ASSUME NEW ms \in Seq(MasterMsg), Asked' = Asked \o ms, k \notin DOMAIN Asked
      PROVE  \E j \in DOMAIN ms : Asked'[k] = ms[j] /\ ms[j] \in Elements(ms)
  <2>1. PICK q \in Seq(MasterMsg) : q = Asked
    BY <1>0
  <2>2. PICK r : r = q \o ms
    OBVIOUS
  <2>3. \A i \in DOMAIN r : i \in DOMAIN q \/ \E j \in DOMAIN ms : r[i] = ms[j]
    BY <2>2, ConcatPlaces
  <2>4. Asked' = r
    BY <1>5, <2>1, <2>2
  <2> QED BY <1>5, <2>1, <2>3, <2>4 DEF Elements
<1>6. ASSUME NEW ms \in Seq(MasterMsg), AskedStart(ms), k \notin DOMAIN Asked PROVE FALSE
  BY <1>5, <1>6 DEF AskedStart
<1>7. ASSUME NEW r \in Services, NEW ms \in Seq(MasterMsg), AskedDelete(r, ms),
             k \notin DOMAIN Asked
      PROVE  FALSE
  <2>1. Asked' = Asked \o ms /\ (ms = Deletion(r) \/ ms = LastWords(r))
    BY <1>7 DEF AskedDelete
  <2>2. \A m \in Elements(ms) : m.id \in {"DEL_EVENT", "CLOSE_REQ"}
    BY <1>0, <2>1, Words, MsgFields
  <2> QED BY <1>5, <1>7, <2>1, <2>2
<1>8. ASSUME NEW s \in Services, NEW fd, NEW kind, AskedSet(s, fd, kind), k \notin DOMAIN Asked
      PROVE  /\ stage'[Asked'[k].svc] = "online"
             /\ \/ evfd'[Asked'[k].svc] = Asked'[k].fd
                \/ Doomed(Asked', Asked'[k].svc, Asked'[k].fd, k)
             /\ \A i \in DOMAIN Asked' : IsClose(Asked'[i], Asked'[k].svc) => k < i
  <2>1. /\ fd \in held[s] \union {evfd[s], NoFd} /\ ModEvent(s, fd, kind)
        /\ Asked' = Asked \o ModMessages(s, fd, kind)
    BY <1>8 DEF AskedSet
  <2>2. /\ evfd[s] = NoFd /\ evfd' = [evfd EXCEPT ![s] = fd]
        /\ UNCHANGED stage /\ step # "idle" /\ running = s
    BY <2>1 DEF ModEvent, Calling
  <2>3. PICK ms \in Seq(MasterMsg) : ms = ModMessages(s, fd, kind)
    BY <1>0, <2>1, ModMessagesType
  <2>4. PICK m \in Elements(ms) : Asked'[k] = m
    BY <1>5, <1>8, <2>1, <2>3
  <2>5. Elements(ms) = {Msg("ADD_EVENT", s, fd, Watched(kind))}
    BY <1>0, <2>1, <2>2, <2>3, FirstEvent
  <2>6. m.id = "ADD_EVENT" /\ m.svc = s /\ m.fd = fd
    BY <2>4, <2>5, MsgFields
  <2>7. /\ stage'[s] = "online"
        /\ \A n \in Elements(Asked) : ~IsClose(n, s)
    BY <2>2, Runner DEF IsClose
  <2>8. Elements(Asked') = Elements(Asked) \union Elements(ms)
    <3>1. PICK q \in Seq(MasterMsg) : q = Asked
      BY <1>0
    <3>2. Elements(q \o ms) = Elements(q) \union Elements(ms)
      BY ElementsConcat
    <3> QED BY <2>1, <2>3, <3>1, <3>2
  <2>9. \A n \in Elements(Asked') : ~IsClose(n, s)
    BY <2>5, <2>6, <2>7, <2>8 DEF IsClose
  <2>10. \A i \in DOMAIN Asked' : ~IsClose(Asked'[i], s)
    BY <2>9 DEF Elements
  <2>11. evfd'[s] = fd
    BY <1>0, <2>2
  <2> QED BY <2>4, <2>6, <2>7, <2>10, <2>11
<1>9. CASE ~AskedLess /\ k \in DOMAIN Asked /\ Asked' # Asked
  <2>1. ASSUME NEW s \in Services, NEW fd, NEW kind, AskedSet(s, fd, kind)
        PROVE  \E ms \in Seq(MasterMsg) : Asked' = Asked \o ms
    BY <1>0, <2>1, ModMessagesType DEF AskedSet
  <2>2. \E ms \in Seq(MasterMsg) : Asked' = Asked \o ms
    BY <1>0, <1>9, <2>1, AskedShape DEF AskedStart, AskedDelete
  <2>3. PICK ms \in Seq(MasterMsg) : Asked' = Asked \o ms
    BY <2>2
  <2> QED BY <1>4, <1>9, <2>3
<1>10. CASE ~AskedLess /\ k \notin DOMAIN Asked /\ Asked' # Asked
  <2>1. PICK s \in Services : \E fd, kind : AskedSet(s, fd, kind)
    BY <1>0, <1>6, <1>7, <1>10, AskedShape
  <2> QED BY <1>8, <1>10, <2>1
<1> QED BY <1>2, <1>3, <1>9, <1>10

LEMMA StepRegistered ==
    ASSUME Life, EventOK, PlaceOK, AddOK, RegisteredOK, Next, ~replaced'
    PROVE  RegisteredOK'
<1>0. /\ Types /\ QueuesOK /\ Asked \in Seq(MasterMsg) /\ NoFd \notin Fds
      /\ DOMAIN Asked = 1..Len(Asked) /\ Len(Asked) \in Nat
      /\ evfd \in [Services -> Fds \union {NoFd}]
      /\ evfd' \in [Services -> Fds \union {NoFd}]
  BY AskedParts, LenProperties, StepTypes DEF Life, Types, GuardedOK, Fds, NoFd
<1> SUFFICES ASSUME NEW s \in Services, evfd'[s] # NoFd
             PROVE  \/ watch'[evfd'[s]].svc = s
                    \/ \E m \in Elements(Asked') :
                         m.id = "ADD_EVENT" /\ m.svc = s /\ m.fd = evfd'[s]
  BY DEF RegisteredOK
<1>1. PICK fd \in Fds : fd = evfd'[s]
  BY <1>0
<1>2. CASE evfd[s] = fd
  <2>0. /\ fd # NoFd /\ InEvent(fd) /\ fd \in open /\ ~Held(fd) /\ fd \notin Deleting
        /\ \A t \in Services : evfd[t] = fd => t = s
    BY <1>0, <1>2 DEF InEvent, PlaceOK
  <2>1. \A m \in Elements(Asked) : ~(m.id = "DEL_EVENT" /\ m.fd = fd)
    BY <2>0 DEF Deleting, Names
  <2>2. CASE watch[fd].svc = s
    <3>1. ~(HandleDelEvent /\ Head(mbatch).fd = fd)
      <4> SUFFICES ASSUME HandleDelEvent, Head(mbatch).fd = fd PROVE FALSE
        OBVIOUS
      <4>1. MasterHandling("DEL_EVENT") /\ UNCHANGED <<mrx, txms>>
        BY DEF HandleDelEvent, worker
      <4>2. Asked # <<>> /\ Head(Asked) = Head(mbatch) /\ Head(mbatch).id = "DEL_EVENT"
        BY <1>0, <4>1, AskedHead DEF MasterHandling
      <4> QED BY <1>0, <2>1, <4>2, HeadPlace
    <3>2. ASSUME HandleAddEvent, fd = Head(mbatch).fd,
                 watch'[fd] = [svc |-> Head(mbatch).svc, masks |-> Head(mbatch).masks]
          PROVE  watch'[fd].svc = s
      <4>1. MasterHandling("ADD_EVENT") /\ UNCHANGED <<mrx, txms>>
        BY <3>2 DEF HandleAddEvent, worker
      <4>2. /\ Asked # <<>> /\ Head(Asked) = Head(mbatch) /\ Head(mbatch).id = "ADD_EVENT"
            /\ Head(mbatch).svc \in Services
        BY <1>0, <4>1, AskedHead, MasterHead
      <4>3. evfd[Head(mbatch).svc] = fd \/ Doomed(Asked, Head(mbatch).svc, fd, 1)
        BY <1>0, <3>2, <4>2, HeadPlace DEF AddOK
      <4>4. ~Doomed(Asked, Head(mbatch).svc, fd, 1)
        BY <2>1 DEF Doomed, Elements
      <4> QED BY <2>0, <3>2, <4>2, <4>3, <4>4
    <3> QED BY <1>1, <2>0, <2>2, <3>1, <3>2, WatchSteps
  <2>3. ASSUME NEW m \in Elements(Asked), m.id = "ADD_EVENT", m.svc = s, m.fd = fd
        PROVE  watch'[fd].svc = s \/ m \in Elements(Asked')
    <3>1. CASE AskedLess
      <4>1. Asked # <<>> /\ Asked' = Tail(Asked) /\ Head(Asked) = Head(mbatch)
        BY <3>1 DEF AskedLess
      <4>2. m = Head(Asked) \/ m \in Elements(Tail(Asked))
        BY <1>0, <4>1, ElementsTail
      <4>3. ASSUME m = Head(Asked) PROVE watch'[fd].svc = s
        <5>1. HandleAddEvent
          BY <2>3, <3>1, <4>1, <4>3 DEF AskedLess, HandleStartReq, HandleDelEvent,
             HandleCloseReq, MasterHandling
        <5>2. watch' = [watch EXCEPT ![fd] =
                          [svc |-> Head(mbatch).svc, masks |-> Head(mbatch).masks]]
          BY <2>0, <2>3, <4>1, <4>3, <5>1 DEF HandleAddEvent, Register
        <5>3. DOMAIN watch = Fds
          BY <1>0 DEF Types, KernelOK
        <5> QED BY <2>3, <4>1, <4>3, <5>2, <5>3
      <4> QED BY <4>1, <4>2, <4>3
    <3>2. ASSUME NEW ms \in Seq(MasterMsg), Asked' = Asked \o ms PROVE m \in Elements(Asked')
      <4>1. PICK q \in Seq(MasterMsg) : q = Asked
        BY <1>0
      <4>2. Elements(q \o ms) = Elements(q) \union Elements(ms)
        BY ElementsConcat
      <4> QED BY <2>3, <3>2, <4>1, <4>2
    <3>3. ASSUME NEW r \in Services, NEW f, NEW kind, AskedSet(r, f, kind)
          PROVE  \E ms \in Seq(MasterMsg) : Asked' = Asked \o ms
      BY <1>0, <3>3, ModMessagesType DEF AskedSet
    <3>4. Asked' = Asked \/ AskedLess \/ \E ms \in Seq(MasterMsg) : Asked' = Asked \o ms
      BY <1>0, <3>3, AskedShape DEF AskedStart, AskedDelete
    <3> QED BY <2>3, <3>1, <3>2, <3>4
  <2>4. \/ watch[fd].svc = s
        \/ \E m \in Elements(Asked) : m.id = "ADD_EVENT" /\ m.svc = s /\ m.fd = fd
    BY <1>2, <2>0 DEF RegisteredOK
  <2> QED BY <1>1, <2>2, <2>3, <2>4
<1>3. CASE evfd[s] # fd
  <2>1. ASSUME NEW r \in Services, NEW ms \in Seq(MasterMsg), AskedDelete(r, ms) PROVE FALSE
    <3>1. evfd' = evfd \/ evfd' = [evfd EXCEPT ![r] = NoFd]
      BY <2>1 DEF AskedDelete, CallDelEvent, CloseService, DelEvent
    <3> QED BY <1>0, <1>1, <1>3, <3>1
  <2>2. evfd' # evfd
    BY <1>1, <1>3
  <2>0. PICK r \in Services : \E f, kind : AskedSet(r, f, kind)
    BY <1>0, <2>1, <2>2, AskedShape DEF AskedLess, AskedStart
  <2>3. PICK f, kind : AskedSet(r, f, kind)
    BY <2>0
  <2>4. /\ f \in held[r] \union {evfd[r], NoFd} /\ ModEvent(r, f, kind)
        /\ Asked' = Asked \o ModMessages(r, f, kind)
    BY <2>3 DEF AskedSet
  <2>5. evfd[r] = NoFd /\ evfd' = [evfd EXCEPT ![r] = f]
    BY <2>4 DEF ModEvent
  <2>6. r = s /\ f = fd
    BY <1>0, <1>1, <1>3, <2>5
  <2>7. PICK ms \in Seq(MasterMsg) : ms = ModMessages(r, f, kind)
    BY <1>0, <2>4, ModMessagesType
  <2>8. Elements(ms) = {Msg("ADD_EVENT", r, f, Watched(kind))}
    BY <1>0, <2>4, <2>5, <2>7, FirstEvent
  <2>9. PICK q \in Seq(MasterMsg) : q = Asked
    BY <1>0
  <2>10. Elements(q \o ms) = Elements(q) \union Elements(ms)
    BY ElementsConcat
  <2>11. Msg("ADD_EVENT", s, fd, Watched(kind)) \in Elements(Asked')
    BY <2>4, <2>6, <2>7, <2>8, <2>9, <2>10
  <2> QED BY <1>1, <2>11, MsgFields
<1> QED BY <1>2, <1>3

-----------------------------------------------------------------------------
(* The invariant of the runs in which no service sets a second event.      *)

Own == SingleOK /\ PlaceOK /\ WatchOK /\ AddOK /\ RegisteredOK

OwnInv == Life /\ EventOK /\ (~replaced => Own)

\* A service that has set an event while it had one stays marked.
LEMMA ReplacedStays ==
    ASSUME Next, ~replaced'
    PROVE  ~replaced
<1>1. CASE MasterStep \/ KernelStep
  BY <1>1 DEF MasterStep, MasterWait, DispatchIgnored, DispatchListen, DispatchConnect,
     DispatchData, Accept, AcceptEnds, ConnectDone, MasterTake, HandleStartReq,
     HandleAddEvent, HandleDelEvent, HandleCloseReq, MasterGet, MasterRoute,
     MasterDeliver, KernelStep, Arrive, Connect, history
<1>2. CASE WorkerTake \/ WorkerFlush \/ HandleClosed \/ HandleSkipped \/ HandleMessage
  BY <1>2 DEF WorkerTake, WorkerFlush, HandleClosed, HandleSkipped, HandleMessage, history
<1>3. ASSUME NEW s \in Services, Entry(s) PROVE ~replaced
  <2>1. CASE \E fd \in held[s] \union {evfd[s], NoFd}, kind \in {"data", "listen", "connect"} :
               ModEvent(s, fd, kind)
    BY <2>1 DEF ModEvent
  <2>2. CASE (\E l \in BOOLEAN : OpenSocket(s, l)) \/ (\E fd \in held[s] : CloseSocket(s, fd))
             \/ (\E t \in Services, fd \in held[s] : StartWith(s, t, fd))
             \/ CallDelEvent(s) \/ CloseSelf(s) \/ EntryReturn(s) \/ StopRx(s) \/ CloseService(s)
    BY <2>2 DEF OpenSocket, CloseSocket, StartWith, CallDelEvent, CloseSelf, EntryReturn,
       StopRx, CloseService, history
  <2> QED BY <1>3, <2>1, <2>2 DEF Entry
<1> QED BY <1>1, <1>2, <1>3 DEF Next, WorkerStep

LEMMA StepOwn == OwnInv /\ Next => OwnInv'
<1> SUFFICES ASSUME OwnInv, Next PROVE OwnInv'
  OBVIOUS
<1>1. Life' /\ EventOK'
  BY StepLife, StepEvent DEF OwnInv
<1>2. ASSUME ~replaced' PROVE Own'
  <2>1. Life /\ EventOK /\ SingleOK /\ PlaceOK /\ WatchOK /\ AddOK /\ RegisteredOK
    BY <1>2, ReplacedStays DEF OwnInv, Own
  <2> QED BY <1>2, <2>1, StepSingle, StepPlace, StepWatch, StepAdd, StepRegistered DEF Own
<1> QED BY <1>1, <1>2 DEF OwnInv

LEMMA InitOwn == Init => OwnInv
<1> SUFFICES ASSUME Init PROVE OwnInv
  OBVIOUS
<1>1. Life
  BY InitLife
<1>2. /\ open = {} /\ dropped = {} /\ \A s \in Services : evfd[s] = NoFd /\ held[s] = {}
      /\ \A fd \in Fds : watch[fd] = Unwatched
      /\ NoFd \notin Fds
  BY DEF Init, Fds, NoFd
<1>3. EventOK /\ RegisteredOK /\ WatchOK
  BY <1>2 DEF EventOK, RegisteredOK, WatchOK
<1>4. txmq = <<>> /\ Elements(txmq) = {} /\ Elements(Sent) = {}
  BY <1>1, SentParts, ElementsEmpty DEF Life, Types, Init
<1>5. /\ \A m \in Elements(Asked) : m.id = "START_REQ"
      /\ \A i \in DOMAIN Asked : Asked[i].id = "START_REQ"
  <2>1. mbatch = <<>> /\ txms = <<>> /\ mrx = <<Msg("START_REQ", Listener, NoFd, {})>>
    BY DEF Init
  <2>2. Elements(Asked) = Elements(mbatch) \union Elements(mrx) \union Elements(txms)
    BY <1>1, AskedParts DEF Life, Types
  <2>3. Elements(Asked) = {Msg("START_REQ", Listener, NoFd, {})}
    BY <2>1, <2>2, OnceOne, ElementsEmpty
  <2>4. \A m \in Elements(Asked) : m.id = "START_REQ"
    BY <2>3, MsgFields
  <2> QED BY <2>4 DEF Elements
<1>6. SingleOK
  <2>1. Once(Asked, {"DEL_EVENT"})
    BY <1>5, OnceNone
  <2>2. Once(txmq, {"CONN_IND"}) /\ Once(Sent, {"CONN_IND"})
    BY <1>4, OnceNone
  <2> QED BY <1>4, <2>1, <2>2 DEF SingleOK
<1>7. Deleting = {} /\ Brought = {}
  BY <1>4, <1>5 DEF Deleting, Brought, Names
<1>8. PlaceOK
  BY <1>2, <1>7 DEF PlaceOK, Held, InEvent
<1>9. AddOK
  BY <1>5 DEF AddOK
<1> QED BY <1>1, <1>3, <1>6, <1>8, <1>9 DEF OwnInv, Own

LEMMA StutterOwn == OwnInv /\ UNCHANGED vars => OwnInv'
<1> SUFFICES ASSUME OwnInv, UNCHANGED vars PROVE OwnInv'
  OBVIOUS
<1>1. Life'
  BY StutterLife DEF OwnInv
<1>2. /\ UNCHANGED <<open, watch, evfd, flagw, stage, held, dropped, replaced, txmq>>
      /\ Asked' = Asked /\ Sent' = Sent
  BY DEF vars, kernel, guarded, private, master, worker, history, Asked, Sent
<1>3. EventOK'
  BY <1>2 DEF OwnInv, EventOK
<1>4. Deleting' = Deleting /\ Brought' = Brought
  BY <1>2 DEF Deleting, Brought
<1>5. ASSUME Own PROVE Own'
  <2>1. SingleOK'
    BY <1>2, <1>5 DEF Own, SingleOK
  <2>2. PlaceOK'
    BY <1>2, <1>4, <1>5 DEF Own, PlaceOK, Held, InEvent
  <2>3. WatchOK' /\ AddOK' /\ RegisteredOK'
    BY <1>2, <1>5 DEF Own, WatchOK, AddOK, RegisteredOK
  <2> QED BY <2>1, <2>2, <2>3 DEF Own
<1> QED BY <1>1, <1>2, <1>3, <1>5 DEF OwnInv

LEMMA OwnInvariance == Spec => []OwnInv
BY InitOwn, StepOwn, StutterOwn, PTL DEF Spec

-----------------------------------------------------------------------------
(* The theorems.                                                           *)

LEMMA OnceParts ==
    ASSUME NEW S, NEW q \in Seq(S), NEW r \in Seq(S), NEW ids, Once(q \o r, ids)
    PROVE  /\ Once(q, ids) /\ Once(r, ids)
           /\ \A m \in Elements(q), n \in Elements(r) : m.id \in ids => ~Same(m, n)
<1>1. Once(q, ids)
  <2> SUFFICES ASSUME NEW i \in DOMAIN q, NEW j \in DOMAIN q, q[i].id \in ids, Same(q[i], q[j])
               PROVE  i = j
    BY DEF Once
  <2>1. /\ i \in DOMAIN (q \o r) /\ (q \o r)[i] = q[i]
        /\ j \in DOMAIN (q \o r) /\ (q \o r)[j] = q[j]
    BY ConcatPlaces
  <2> QED BY <2>1 DEF Once
<1>2. Once(r, ids)
  <2> SUFFICES ASSUME NEW i \in DOMAIN r, NEW j \in DOMAIN r, r[i].id \in ids, Same(r[i], r[j])
               PROVE  i = j
    BY DEF Once
  <2>1. /\ Len(q) + i \in DOMAIN (q \o r) /\ (q \o r)[Len(q) + i] = r[i]
        /\ Len(q) + j \in DOMAIN (q \o r) /\ (q \o r)[Len(q) + j] = r[j]
        /\ i \in Nat /\ j \in Nat /\ Len(q) \in Nat
    BY ConcatPlaces
  <2>2. Len(q) + i = Len(q) + j
    BY <2>1 DEF Once
  <2> QED BY <2>1, <2>2
<1>3. ASSUME NEW m \in Elements(q), NEW n \in Elements(r), m.id \in ids, Same(m, n)
      PROVE  FALSE
  <2>1. PICK i \in DOMAIN q, j \in DOMAIN r : m = q[i] /\ n = r[j]
    BY DEF Elements
  <2>2. /\ i \in DOMAIN (q \o r) /\ (q \o r)[i] = q[i]
        /\ Len(q) + j \in DOMAIN (q \o r) /\ (q \o r)[Len(q) + j] = r[j]
        /\ i \in 1..Len(q) /\ j \in 1..Len(r) /\ Len(q) \in Nat /\ Len(r) \in Nat
    BY ConcatPlaces
  <2>3. i = Len(q) + j
    BY <1>3, <2>1, <2>2 DEF Once
  <2> QED BY <2>2, <2>3
<1> QED BY <1>1, <1>2, <1>3

LEMMA OnceSwapped ==
    ASSUME NEW S, NEW q \in Seq(S), NEW r \in Seq(S), NEW ids, Once(q, ids), Once(r, ids),
           \A m \in Elements(q), n \in Elements(r) : m.id \in ids => ~Same(m, n)
    PROVE  Once(r \o q, ids)
<1>1. ASSUME NEW m \in Elements(r), NEW n \in Elements(q), m.id \in ids PROVE ~Same(m, n)
  BY <1>1 DEF Same
<1> QED BY <1>1, OnceConcat

\* The queues of SocketEvent in the order in which Owners counts them.
LEMMA OnceReversed ==
    ASSUME NEW S, NEW p \in Seq(S), NEW q \in Seq(S), NEW r \in Seq(S), NEW ids,
           Once(p \o q \o r, ids)
    PROVE  Once(r \o q \o p, ids)
<1>1. PICK x \in Seq(S), y \in Seq(S) : x = p \o q /\ y = q \o p
  BY ElementsConcat
<1>2. Once(x \o r, ids)
  BY <1>1
<1>3. /\ Once(x, ids) /\ Once(r, ids)
      /\ \A m \in Elements(x), n \in Elements(r) : m.id \in ids => ~Same(m, n)
  BY <1>2, OnceParts
<1>4. Once(p \o q, ids)
  BY <1>1, <1>3
<1>5. /\ Once(p, ids) /\ Once(q, ids)
      /\ \A m \in Elements(p), n \in Elements(q) : m.id \in ids => ~Same(m, n)
  BY <1>4, OnceParts
<1>6. Once(q \o p, ids)
  BY <1>5, OnceSwapped
<1>7. Elements(x) = Elements(y)
  <2>1. /\ Elements(p \o q) = Elements(p) \union Elements(q)
        /\ Elements(q \o p) = Elements(q) \union Elements(p)
    BY ElementsConcat
  <2> QED BY <1>1, <2>1
<1>8. Once(y, ids)
  BY <1>1, <1>6
<1>9. \A m \in Elements(y), n \in Elements(r) : m.id \in ids => ~Same(m, n)
  BY <1>3, <1>7
<1>10. Once(r \o y, ids)
  BY <1>3, <1>8, <1>9, OnceSwapped
<1>11. (r \o q) \o p = r \o (q \o p)
  <2>1. Joined(r, Joined(q, p)) = Joined(Joined(r, q), p)
    BY JoinedAgain
  <2> QED BY <2>1 DEF Joined
<1> QED BY <1>1, <1>10, <1>11

LEMMA OwnersApart ==
    ASSUME Life, SingleOK
    PROVE  /\ Once(ForMaster, {"DEL_EVENT"}) /\ Once(ForService, {"CONN_IND"})
           /\ Deleting = Names(Elements(ForMaster), "DEL_EVENT")
           /\ Brought = Names(Elements(ForService), "CONN_IND")
<1>0. /\ QueuesOK
      /\ mrx \in Seq(MasterMsg) /\ mbatch \in Seq(MasterMsg) /\ txms \in Seq(MasterMsg)
      /\ batch \in Seq(ServiceMsg) /\ rx \in Seq(ServiceMsg) /\ out \in Seq(ServiceMsg)
      /\ txmq \in Seq(ServiceMsg)
  BY DEF Life, Types, QueuesOK
<1>1. Once(ForMaster, {"DEL_EVENT"})
  BY <1>0, OnceReversed DEF SingleOK, Asked, ForMaster
<1>2. Once(ForService, {"CONN_IND"})
  <2>1. Once(out \o rx \o batch, {"CONN_IND"})
    BY <1>0, OnceReversed DEF SingleOK, Sent
  <2>2. PICK u \in Seq(ServiceMsg) : u = out \o rx
    BY <1>0, ElementsConcat
  <2>3. PICK v \in Seq(ServiceMsg) : v = u \o batch
    BY <1>0, ElementsConcat
  <2>4. Once(v, {"CONN_IND"}) /\ Elements(v) = Elements(Sent)
    BY <1>0, <2>1, <2>2, <2>3, SentParts
  <2>5. Once(txmq \o v, {"CONN_IND"})
    <3>1. \A m \in Elements(txmq), n \in Elements(v) : m.id \in {"CONN_IND"} => ~Same(m, n)
      BY <2>4 DEF SingleOK
    <3>2. Once(txmq, {"CONN_IND"})
      BY DEF SingleOK
    <3> QED BY <1>0, <2>4, <3>1, <3>2, OnceConcat
  <2>6. (txmq \o out) \o rx = txmq \o u
    <3>1. Joined(txmq, Joined(out, rx)) = Joined(Joined(txmq, out), rx)
      BY <1>0, JoinedAgain
    <3> QED BY <2>2, <3>1 DEF Joined
  <2>7. (txmq \o u) \o batch = txmq \o v
    <3>1. Joined(txmq, Joined(u, batch)) = Joined(Joined(txmq, u), batch)
      BY <1>0, JoinedAgain
    <3> QED BY <2>3, <3>1 DEF Joined
  <2> QED BY <2>5, <2>6, <2>7 DEF ForService
<1>3. Deleting = Names(Elements(ForMaster), "DEL_EVENT")
  BY <1>0, AskedParts DEF Deleting
<1>4. Brought = Names(Elements(ForService), "CONN_IND")
  BY <1>0, SentParts DEF Brought
<1> QED BY <1>1, <1>2, <1>3, <1>4

\* The places in a queue of the messages of a kind about a descriptor.
Places(q, id, fd, tag) ==
    {<<tag, i>> : i \in {j \in DOMAIN q : q[j].id = id /\ q[j].fd = fd}}

LEMMA OnePlace ==
    ASSUME NEW q, NEW id \in {"DEL_EVENT", "CONN_IND"}, Once(q, {id}), NEW fd \in Fds, NEW tag
    PROVE  IF fd \in Names(Elements(q), id)
           THEN \E x : Places(q, id, fd, tag) = {x} ELSE Places(q, id, fd, tag) = {}
<1>1. \A i, j \in DOMAIN q : q[i].id = id /\ q[i].fd = fd /\ q[j].id = id /\ q[j].fd = fd
                             => i = j
  BY DEF Once, Same
<1>2. fd \in Names(Elements(q), id) <=> \E j \in DOMAIN q : q[j].id = id /\ q[j].fd = fd
  BY DEF Names, Elements
<1>3. ASSUME NEW k \in DOMAIN q, q[k].id = id, q[k].fd = fd
      PROVE  Places(q, id, fd, tag) = {<<tag, k>>}
  <2>1. {j \in DOMAIN q : q[j].id = id /\ q[j].fd = fd} = {k}
    BY <1>1, <1>3
  <2> QED BY <2>1 DEF Places
<1>4. ASSUME \A j \in DOMAIN q : ~(q[j].id = id /\ q[j].fd = fd)
      PROVE  Places(q, id, fd, tag) = {}
  BY <1>4 DEF Places
<1> QED BY <1>2, <1>3, <1>4

LEMMA OwnersCounted ==
    ASSUME Life, SingleOK, PlaceOK, NEW fd \in Fds
    PROVE  Cardinality(Owners(fd)) = IF fd \in open THEN 1 ELSE 0
<1> DEFINE H == {<<"held", s>> : s \in {t \in Services : fd \in held[t]}}
           E == {<<"event", s>> : s \in {t \in Services : evfd[t] = fd}}
           D == Places(ForMaster, "DEL_EVENT", fd, "deleting")
           C == Places(ForService, "CONN_IND", fd, "carried")
           X == IF fd \in dropped THEN {<<"dropped", fd>>} ELSE {}
<1>1. IF Held(fd) THEN \E x : H = {x} ELSE H = {}
  <2>1. ASSUME NEW s \in Services, fd \in held[s] PROVE H = {<<"held", s>>}
    <3>1. {t \in Services : fd \in held[t]} = {s}
      BY <2>1 DEF PlaceOK
    <3> QED BY <3>1
  <2>2. (\A s \in Services : fd \notin held[s]) => H = {}
    OBVIOUS
  <2> HIDE DEF H
  <2> QED BY <2>1, <2>2 DEF Held
<1>2. IF InEvent(fd) THEN \E x : E = {x} ELSE E = {}
  <2>1. ASSUME NEW s \in Services, evfd[s] = fd PROVE E = {<<"event", s>>}
    <3>1. {t \in Services : evfd[t] = fd} = {s}
      BY <2>1 DEF PlaceOK
    <3> QED BY <3>1
  <2>2. (\A s \in Services : evfd[s] # fd) => E = {}
    OBVIOUS
  <2> HIDE DEF E
  <2> QED BY <2>1, <2>2 DEF InEvent
<1>3. IF fd \in Deleting THEN \E x : D = {x} ELSE D = {}
  <2>1. /\ Once(ForMaster, {"DEL_EVENT"}) /\ Deleting = Names(Elements(ForMaster), "DEL_EVENT")
        /\ "DEL_EVENT" \in {"DEL_EVENT", "CONN_IND"}
    BY OwnersApart
  <2> QED BY <2>1, OnePlace
<1>4. IF fd \in Brought THEN \E x : C = {x} ELSE C = {}
  <2>1. /\ Once(ForService, {"CONN_IND"}) /\ Brought = Names(Elements(ForService), "CONN_IND")
        /\ "CONN_IND" \in {"DEL_EVENT", "CONN_IND"}
    BY OwnersApart
  <2> QED BY <2>1, OnePlace
<1>5. IF fd \in dropped THEN \E x : X = {x} ELSE X = {}
  OBVIOUS
<1>6. Owners(fd) = H \union E \union D \union C \union X
  BY DEF Owners, Places
<1> HIDE DEF H, E, D, C, X
<1>7. IF fd \in open THEN \E x : Owners(fd) = {x} ELSE Owners(fd) = {}
  <2>1. /\ Held(fd) => ~InEvent(fd) /\ fd \notin Deleting \union Brought \union dropped
        /\ InEvent(fd) => fd \notin Deleting \union Brought \union dropped
        /\ fd \in Deleting => fd \notin Brought \union dropped
        /\ fd \in Brought => fd \notin dropped
        /\ fd \in open <=> Held(fd) \/ InEvent(fd) \/ fd \in Deleting \union Brought \union dropped
    BY DEF PlaceOK
  <2>2. CASE Held(fd)
    BY <1>1, <1>2, <1>3, <1>4, <1>5, <1>6, <2>1, <2>2
  <2>3. CASE InEvent(fd)
    BY <1>1, <1>2, <1>3, <1>4, <1>5, <1>6, <2>1, <2>3
  <2>4. CASE ~Held(fd) /\ ~InEvent(fd)
    BY <1>1, <1>2, <1>3, <1>4, <1>5, <1>6, <2>1, <2>4
  <2> QED BY <2>2, <2>3, <2>4
<1>8. CASE fd \in open
  <2>1. PICK x : Owners(fd) = {x}
    BY <1>7, <1>8
  <2> QED BY <1>8, <2>1, FS_Singleton
<1>9. CASE fd \notin open
  BY <1>7, <1>9, FS_EmptySet
<1> QED BY <1>8, <1>9

\* A descriptor has one owner from accept or open to close, and none when it is
\* not open, as long as no service sets an event while it has one: nobody
\* closes a number that the kernel has given to another socket, whatever the
\* order in which l_eventmgr_wait, the messages to the master and the entries
\* of the services come.
THEOREM SocketHasOneOwner == Spec => []OneOwner
<1>1. ASSUME OwnInv PROVE OneOwner
  BY <1>1, OwnersCounted DEF OwnInv, Own, OneOwner
<1> QED BY <1>1, OwnInvariance, PTL

\* What the epoll instance has registered and what the services think of it
\* agree, up to the messages that the master has not handled: the socket of a
\* service is registered for it or will be, and what is registered for a
\* service that is not its socket will be deleted, before the service leaves
\* the table.
THEOREM EpollAgrees == Spec => []Agreed
<1>1. ASSUME OwnInv, ~replaced
      PROVE  /\ \A s \in Services : evfd[s] # NoFd =>
                  \/ watch[evfd[s]].svc = s
                  \/ \E m \in Elements(ForMaster) :
                       m.id = "ADD_EVENT" /\ m.svc = s /\ m.fd = evfd[s]
             /\ \A fd \in Fds : watch[fd] # Unwatched =>
                  \/ evfd[watch[fd].svc] = fd
                  \/ \E m \in Elements(ForMaster) : m.id = "DEL_EVENT" /\ m.fd = fd
             /\ \A fd \in Fds : watch[fd] # Unwatched => stage[watch[fd].svc] = "online"
  <2>1. RegisteredOK /\ WatchOK /\ Elements(ForMaster) = Elements(Asked)
    BY <1>1, AskedParts DEF OwnInv, Own, Life, Types
  <2>2. \A s, fd : Doomed(Asked, s, fd, 0) =>
          \E m \in Elements(Asked) : m.id = "DEL_EVENT" /\ m.fd = fd
    BY DEF Doomed, Elements
  <2> QED BY <2>1, <2>2 DEF RegisteredOK, WatchOK
<1>2. OwnInv => Agreed
  BY <1>1 DEF Agreed
<1> QED BY <1>2, OwnInvariance, PTL
=============================================================================
